SPECIFICATION FairSpec
CONSTANTS
    Callers = {c1, c2}
    Rows = {r1, r2}
    Keys = {k1}
    None = None
    Amounts <- AmountSet
    CallSources = {"self_service", "admin"}
    MaxCalls = 3
INVARIANTS
    BalanceIsReplayOfLedger
    GrantedIsOnLedger
    RevocationCompensates
PROPERTIES
    ImplementsAtomicLedger
    EveryCallReturns
CHECK_DEADLOCK FALSE
