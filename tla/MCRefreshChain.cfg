SPECIFICATION Spec
CONSTANTS
    Tokens = {t1, t2, t3}
    Chains = {h1, h2}
    Subjects = {s1}
    Clients = {k1, k2}
    Calls = {c1, c2}
    Nil = Nil
    Changing = {}
    RefreshTtl = 2
    AbsoluteTtl = 2
    LastLogin = 0
    MaxClock = 2
SYMMETRY Interchangeable
INVARIANTS
    OneLive

    
