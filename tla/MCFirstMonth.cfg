SPECIFICATION UsageSpec
CONSTANTS
  one = one
  many = many
  Batches <- MCBatches
  Payloads <- MCPayloads
  Accounts <- MCAccounts
  Periods <- FirstMonth
  InstantsPerMonth = 2
  Now0 = 23
  MaxNow = 24
  MaxSends = 2
  BindLimit = 2
  I64Max = 6
  Null = Null
  NaN = NaN
INVARIANT PreviousIsAPeriod
CHECK_DEADLOCK FALSE
