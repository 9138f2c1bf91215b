SPECIFICATION PathSpec
CONSTANTS
    Workers = {w1, w2}
    Reviewers = {a1, a2}
    Keys = {key1}
    None = None
    Amounts <- TwoAmounts
    Policies <- SwappedPolicies
    Allowance = 1
    MaxRequests = 1
    one = one
    many = many
    Batches <- MCBatches
    Payloads <- MCPayloads
    Accounts <- MCAccounts
    Periods <- MCPeriods
    InstantsPerMonth = 2
    Now0 = 23
    MaxNow = 24
    MaxSends = 2
    BindLimit = 2
    I64Max = 6
    Null = Null
    NaN = NaN
    Nil = Nil
    Rows <- MCRows
    Lists <- MCLists
    Limits <- MCLimits
    DefaultSize = 1
    MaxSize = 2
    MaxRepoLimit = 3
    MaxInstant = 4
    Ties = FALSE
INVARIANTS
    GrantedRowsAreBacked
    
    
    DashboardAgreesWithSpend
    WalkReturnsEachRowOnce
PROPERTIES
    DecidedUnlessAbandoned
    ReviewLockReleased
CHECK_DEADLOCK FALSE
