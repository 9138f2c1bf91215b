------------------------------ MODULE MCRuleData ------------------------------
(***************************************************************************)
(* Small instances of RuleData for TLC.                                    *)
(***************************************************************************)
EXTENDS RuleData

Leaves ==
    { Threshold("self_service_grant_count", "lt", 1),
      Threshold("spend_this_period", "lte", 0),
      Threshold("spend_last_period", "gt", 0),
      Threshold("requested_amount", "gte", 2) }

\* all / any over at most two of the given conditions.
Over(cs) ==
    {Nested(t, s) : t \in {"all", "any"}, s \in {<<>>} \union {<<c>> : c \in cs} \union (cs \X cs)}

Flat == Leaves \union Over(Leaves)

\* Two levels of nesting over half of the leaves.
FewLeaves == {Threshold("self_service_grant_count", "eq", 0), Threshold("spend_this_period", "lte", 0)}
Deep == Over(FewLeaves \union Over(FewLeaves))

Rule(n, c, e, cap) == [id |-> n, condition |-> c, effect |-> e, reason |-> "rule", cap |-> cap]

RuleSetOf(rules, default) ==
    [policy_revision |-> "v", rules |-> rules, default_effect |-> default, default_reason |-> "default",
     allowed |-> <<1, 2>>, starting |-> 2, floor |-> 1]

\* One rule over a deep condition: approve when it holds, or deny when it holds.
OneRule ==
    {RuleSetOf(<<Rule("r1", c, "auto_approve", Nil)>>, "manual_review") : c \in Deep}
    \union {RuleSetOf(<<Rule("r1", c, "deny", Nil)>>, "auto_approve") : c \in Deep}

\* Two rules: the second decides only where the first does not hold.
TwoRules ==
    {RuleSetOf(<<Rule("r1", c, "no_action", Nil), Rule("r2", d, "auto_approve_capped", 2)>>, "manual_review") :
        c \in Leaves \union Over({Threshold("spend_this_period", "lte", 0), Threshold("self_service_grant_count", "lt", 1)}),
        d \in Flat}

\* RuleDocuments that differ in what validate looks at.
AmountLists == {<<>>} \union UNION {[1 .. n -> 0 .. 3] : n \in 1 .. 3}
AmountSets ==
    {[RuleSetOf(<<>>, "deny") EXCEPT !.allowed = a, !.starting = st, !.floor = fl] :
        a \in AmountLists, st \in 0 .. 2, fl \in 0 .. 2}
NamedSets ==
    {[RuleSetOf(<<Rule(a, Leaf, "deny", Nil), Rule(b, Leaf, "auto_approve", Nil)>>, "deny")
        EXCEPT !.policy_revision = n, !.default_reason = r] :
        a \in {"", "r1", "r2"}, b \in {"", "r1"}, n \in {"", "v"}, r \in {"", "default"},
        Leaf \in {Threshold("requested_amount", "lt", 2)}}
RuleDocuments == AmountSets \union NamedSets

\* Where the engine starts, and what it is given later: a set that validates
\* and one that does not.
EverySet == OneRule \union TwoRules \union RuleDocuments
SwappedIn == {RuleSetOf(<<>>, "auto_approve"), [RuleSetOf(<<>>, "deny") EXCEPT !.allowed = <<2, 2>>]}

Facts(counts, spends) ==
    [self_service_grant_count : counts, effective_balance : {0}, spend_this_period : spends,
     spend_last_period : spends]
KnownOrNot == Facts(0 .. 1, {Unavailable, 0, 1})
SpendValues == {0, 1}

AmountValues == {1, 3}
TightAndAmple == {2, 4, 8}
===============================================================================
