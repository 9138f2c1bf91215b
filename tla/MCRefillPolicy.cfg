SPECIFICATION PolicySpec
CONSTANTS
    Workers = {w1, w2}
    Reviewers = {a1, a2}
    Keys = {}
    None = None
    Amounts <- OneAmount
    Policies <- StricterPolicies
    Allowance = 1
    MaxRequests = 3
    RuleSets <- EverySet
    Replacements <- SwappedIn
    FactSets <- KnownOrNot
    AskedAmounts <- AmountValues
    Budgets <- TightAndAmple
    Spends <- SpendValues
    Unavailable = Unavailable
    Nil = Nil
SYMMETRY Symmetry
INVARIANTS
    OvershootBounded
    OnePayoutPerRequest
    RefusedAndPaidOnlyIfInterrupted
    SoundUnderUncertainty
    DecidesWhatRulesSay
    BudgetOnlyRefuses
    ActiveIsWellFormed
PROPERTIES
    DecisionsStand
