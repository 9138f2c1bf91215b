SPECIFICATION SessionsSpec
CONSTANTS
    Other = c2
    Callers = {c1, c2}
    Config <- McConfig
    Assertions <- McAssertions
    Requests <- McRequests
    ServerScopes = {"openid", "email", "offline_access"}
    Enabled = TRUE
    Projects = {"p1", "p2"}
    Tiers = {"small"}
    Amounts = {30}
    Floors = {6}
    MinTtl = 1
    LastInstant = 2
    MaxChanges = 2
    Nil = Nil
    Tokens = {t1, t2, t3}
    Chains = {h1}
    Subjects = {s1}
    Clients = {k1}
    Calls = {call1}
    Changing = {"member", "project", "account"}
    RefreshTtl = 2
    AbsoluteTtl = 2
    LastLogin = 1
    MaxClock = 3
INVARIANTS
    ClaimsWereTrue
    MembershipDecides
    AssertionsSpentOnce
PROPERTIES
    StandingChecked
    SessionsEnd
CHECK_DEADLOCK FALSE
