SPECIFICATION Spec
CONSTANTS
    Workers = {w1, w2}
    Reviewers = {a1}
    Keys = {k1}
    None = None
    Amounts <- OneAmount
    Policies <- ShippedPolicies
    Allowance = 1
    MaxRequests = 1
INVARIANTS
    OnePayoutPerRequest
