SPECIFICATION CredentialsSpec
CONSTANTS
    Subjects = {owner, member}
    owner = owner
    member = member
    shared = shared
    Projects = {shared}
    Calls = {c1}
    TierNames = {}
    TierCatalogue = {}
    ModelNames = {}
    ModelCatalogue = {}
    Nil = Nil
    Unborn = Unborn
    Gone = Gone
    Keys = {mainKey, k2, k3}
    mainKey = mainKey
    session = session
    Sessions = {session}
    Ops = {o1, o2}
    Checks = {i1}
    MaxLifetime = 2
    Ttl = 3
    MaxGrace = 2
    MaxClock = 1
    Services = {api, idp}
    api = api
    idp = idp
    Kids = {kid1, kid2, kid3}
    Tokens = {jwt}
    MaxKeyAge <- MCMaxKeyAge
    TokenTtl = 2
    CacheTtl = 1
    LastTick = 3
SYMMETRY Sym
INVARIANTS
    ActiveAnswerWasJustified
    WithinCeiling
    OneActiveKey
    IssuedTokensVerify
CHECK_DEADLOCK FALSE
