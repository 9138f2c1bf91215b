------------------------------- MODULE RuleData -------------------------------
(***************************************************************************)
(* The rule-data policy engine (budget/src/rule_data.rs): what validate    *)
(* accepts, how conditions are walked under a budget of nodes, and the     *)
(* decision a rule set gives on a request and the facts loaded for it,     *)
(* with Spend::Unavailable where the usage service did not answer.         *)
(*                                                                         *)
(* The walk is translated step by step, node counter included; the         *)
(* properties compare it with the plain meaning of a condition, where      *)
(* `all' is a conjunction and `any' a disjunction.                         *)
(***************************************************************************)
EXTENDS Optional, Integers, Sequences, FiniteSetsExt

CONSTANTS
    RuleSets,       \* rule data the engine may start from
    Replacements,   \* rule data an admin may load over it
    FactSets,       \* facts a host may hand to the engine
    AskedAmounts,   \* requested amounts
    Budgets,        \* values of evaluation_budget
    Spends,         \* values a known spend can take
    Unavailable     \* Spend::Unavailable

\* Condition::Threshold, and Condition::All / Any over nested conditions.
Threshold(f, op, v) == [type |-> "threshold", field |-> f, operator |-> op, value |-> v]
Nested(t, cs) == [type |-> t, conditions |-> cs]

VARIABLES
    rule_set,   \* the engine's rule set
    budget,     \* its evaluation_budget
    last        \* the last request evaluated under it, and the decision

ruleVars == <<rule_set, budget, last>>

-------------------------------------------------------------------------------
(* validate.  A blank string is "". *)

Blank(s) == s = ""

\* The loop over rules: `seen' is the set of ids met so far.
RECURSIVE ValidRules(_, _)
ValidRules(rules, seen) ==
    rules # <<>> =>
       LET rule == Head(rules)
       IN /\ ~ Blank(rule.id) /\ ~ Blank(rule.reason) /\ rule.id \notin seen
          /\ ValidRules(Tail(rules), seen \union {rule.id})

\* Fault: equal neighbours pass for ascending, and duplicates go unseen.
RECURSIVE RepeatingAmounts(_, _, _)
RepeatingAmounts(amounts, seen, previous) ==
    amounts # <<>> =>
       LET amount == Head(amounts)
       IN /\ amount > 0 /\ (previous # Nil => amount >= previous)
          /\ RepeatingAmounts(Tail(amounts), seen \union {amount}, amount)

\* The loop over allowed_amounts_micros.
RECURSIVE ValidAmounts(_, _, _)
ValidAmounts(amounts, seen, previous) ==
    amounts # <<>> =>
       LET amount == Head(amounts)
       IN /\ amount > 0 /\ amount \notin seen /\ (previous # Nil => amount > previous)
          /\ ValidAmounts(Tail(amounts), seen \union {amount}, amount)

Validate(rs) ==
    /\ ~ Blank(rs.policy_revision) /\ ~ Blank(rs.default_reason)
    /\ ValidRules(rs.rules, {})
    /\ rs.allowed # <<>> /\ ValidAmounts(rs.allowed, {}, Nil)
    /\ rs.starting > 0 /\ rs.floor > 0 /\ rs.floor <= rs.starting

-------------------------------------------------------------------------------
(* The walk. *)

\* Fault: an unavailable spend counts as zero.
ZeroResolveField(field, facts, amount) ==
    IF field = "requested_amount" THEN amount
    ELSE IF facts[field] = Unavailable THEN 0 ELSE facts[field]

\* resolve_field: Unavailable is its Err.
ResolveField(field, facts, amount) == IF field = "requested_amount" THEN amount ELSE facts[field]

Compare(actual, operator, expected) ==
    CASE operator = "lt" -> actual < expected
      [] operator = "lte" -> actual <= expected
      [] operator = "gt" -> actual > expected
      [] operator = "gte" -> actual >= expected
      [] operator = "eq" -> actual = expected

\* What eval_condition returns, with the nodes_evaluated it leaves behind.
Outcome(n, r) == [nodes |-> n, result |-> r]
Truth(b) == IF b THEN "true" ELSE "false"

\* Fault: running out of budget counts as a condition that does not hold.
FalseEvalThreshold(c, facts, amount, n, limit) ==
    LET actual == ResolveField(c.field, facts, amount)
    IN IF n + 1 > limit THEN Outcome(n + 1, "false")
       ELSE IF actual = Unavailable THEN Outcome(n + 1, "field_unavailable")
       ELSE Outcome(n + 1, Truth(Compare(actual, c.operator, c.value)))

EvalThreshold(c, facts, amount, n, limit) ==
    LET actual == ResolveField(c.field, facts, amount)
    IN IF n + 1 > limit THEN Outcome(n + 1, "budget_exceeded")
       ELSE IF actual = Unavailable THEN Outcome(n + 1, "field_unavailable")
       ELSE Outcome(n + 1, Truth(Compare(actual, c.operator, c.value)))

\* Fault: Any ends at the first condition that does not hold, as All does.
AllGoesOn(type) == "true"

\* The loop of All goes on while conditions are true, that of Any while they
\* are false; an abort ends both.
GoesOn(type) == IF type = "all" THEN "true" ELSE "false"

RECURSIVE EvalCondition(_, _, _, _, _)
RECURSIVE EvalNested(_, _, _, _, _, _)

EvalNested(type, cs, facts, amount, n, limit) ==
    IF cs = <<>> THEN Outcome(n, GoesOn(type))
    ELSE LET first == EvalCondition(Head(cs), facts, amount, n, limit)
         IN IF first.result # GoesOn(type) THEN first
            ELSE EvalNested(type, Tail(cs), facts, amount, first.nodes, limit)

EvalCondition(c, facts, amount, n, limit) ==
    IF c.type = "threshold" THEN EvalThreshold(c, facts, amount, n, limit)
    ELSE IF n + 1 > limit THEN Outcome(n + 1, "budget_exceeded")
    ELSE EvalNested(c.type, c.conditions, facts, amount, n + 1, limit)

\* The amounts of decision_for_effect.
Approval(effect, cap, amount) ==
    CASE effect = "auto_approve" -> [approved |-> amount, maximum |-> amount]
      [] effect = "auto_approve_capped" ->
            LET ceiling == IF cap = Nil THEN amount ELSE cap
            IN [approved |-> Min({amount, ceiling}), maximum |-> ceiling]
      [] OTHER -> [approved |-> 0, maximum |-> amount]

DecisionForEffect(effect, cap, amount, reason, matched) ==
    [effect |-> effect, amounts |-> Approval(effect, cap, amount), reason |-> reason, matched |-> matched]

AbortDecision(abort, amount) ==
    IF abort = "budget_exceeded"
    THEN DecisionForEffect("deny", Nil, amount, "evaluation_budget_exceeded", {})
    ELSE DecisionForEffect("manual_review", Nil, amount, "required_fact_unavailable", {})

\* The loop of evaluate over the rules from the i-th on; the node count carries
\* over from rule to rule.
RECURSIVE Decide(_, _, _, _, _, _)
Decide(rs, i, facts, amount, n, limit) ==
    IF i > Len(rs.rules)
    THEN DecisionForEffect(rs.default_effect, Nil, amount, rs.default_reason, {})
    ELSE LET rule == rs.rules[i]
             walk == EvalCondition(rule.condition, facts, amount, n, limit)
         IN CASE walk.result = "true" ->
                    DecisionForEffect(rule.effect, rule.cap, amount, rule.reason, {rule.id})
              [] walk.result = "false" -> Decide(rs, i + 1, facts, amount, walk.nodes, limit)
              [] OTHER -> AbortDecision(walk.result, amount)

-------------------------------------------------------------------------------
\* RuleDataEngine::new; a set that does not validate is an error.
RuleInit ==
    /\ rule_set \in {rs \in RuleSets : Validate(rs)}
    /\ budget \in Budgets
    /\ last = Nil

\* RuleDataEngine::load: swap in a set that validates, keep the active one
\* otherwise.
EngineLoad(rs) ==
    /\ Validate(rs)
    /\ rule_set' = rs
    /\ last' = Nil
    /\ UNCHANGED budget

\* RuleDataEngine::evaluate, over the rule set read once at its start.
EngineEvaluate(facts, amount) ==
    /\ last' = [facts |-> facts, amount |-> amount,
                decision |-> Decide(rule_set, 1, facts, amount, 0, budget)]
    /\ UNCHANGED <<rule_set, budget>>

RuleNext ==
    \/ \E rs \in Replacements : EngineLoad(rs)
    \/ \E facts \in FactSets, amount \in AskedAmounts : EngineEvaluate(facts, amount)

RuleSpec == RuleInit /\ [][RuleNext]_ruleVars

-------------------------------------------------------------------------------
(* The plain meaning of rule data. *)

RECURSIVE Holds(_, _, _)
Holds(c, facts, amount) ==
    CASE c.type = "threshold" ->
            Compare(IF c.field = "requested_amount" THEN amount ELSE facts[c.field], c.operator, c.value)
      [] c.type = "all" -> \A i \in DOMAIN c.conditions : Holds(c.conditions[i], facts, amount)
      [] c.type = "any" -> \E i \in DOMAIN c.conditions : Holds(c.conditions[i], facts, amount)

RECURSIVE Size(_)
Size(c) ==
    IF c.type = "threshold" THEN 1
    ELSE 1 + MapThenSumSet(LAMBDA i : Size(c.conditions[i]), DOMAIN c.conditions)

TotalSize(rs) == MapThenSumSet(LAMBDA i : Size(rs.rules[i].condition), DOMAIN rs.rules)

\* The first rule that holds decides, the default otherwise.
PlainDecision(rs, facts, amount) ==
    LET holding == {i \in DOMAIN rs.rules : Holds(rs.rules[i].condition, facts, amount)}
        first == rs.rules[Min(holding)]
    IN IF holding = {}
       THEN DecisionForEffect(rs.default_effect, Nil, amount, rs.default_reason, {})
       ELSE DecisionForEffect(first.effect, first.cap, amount, first.reason, {first.id})

\* What the facts could be, had the usage service answered.
Completions(facts) ==
    LET values(spend) == IF spend = Unavailable THEN Spends ELSE {spend}
    IN {[facts EXCEPT !.spend_this_period = now, !.spend_last_period = before] :
            now \in values(facts.spend_this_period), before \in values(facts.spend_last_period)}

AbortedWalk(decision) == decision.reason \in {"evaluation_budget_exceeded", "required_fact_unavailable"}
Evaluated == last # Nil

-------------------------------------------------------------------------------

\* budget-decision-contract.md, the fail-closed rule: an unknown spend is never
\* a best case.  When the rules of the engine decide, and do not abort, every
\* value the missing facts could have had gives the same decision.
SoundUnderUncertainty ==
    Evaluated /\ ~ AbortedWalk(last.decision) =>
        \A facts \in Completions(last.facts) : PlainDecision(rule_set, facts, last.amount) = last.decision

\* rule_data.rs, evaluate: with every fact known and a budget that covers the
\* nodes of all rules, the walk, its short cuts and its carried-over counter
\* give what the rule data says, and never abort.
DecidesWhatRulesSay ==
    Evaluated /\ TotalSize(rule_set) <= budget /\ (\A f \in DOMAIN last.facts : last.facts[f] # Unavailable) =>
        last.decision = PlainDecision(rule_set, last.facts, last.amount)

\* rule_data.rs, RuleDataEngine: the evaluation budget can only refuse.  The
\* decision is the one an unbounded walk gives, or a denial for the budget.
BudgetOnlyRefuses ==
    Evaluated =>
        \/ last.decision = Decide(rule_set, 1, last.facts, last.amount, 0, TotalSize(rule_set))
        \/ /\ budget < TotalSize(rule_set)
           /\ last.decision.effect = "deny" /\ last.decision.amounts.approved = 0

\* validate, against its meaning: rules are told apart by their ids, offered
\* amounts form a strictly ascending list of positive amounts, and an outage
\* never grants more than a new account starts with (ADR-0015 Decision 6).
ActiveIsWellFormed ==
    /\ \A i, j \in DOMAIN rule_set.rules : rule_set.rules[i].id = rule_set.rules[j].id => i = j
    /\ rule_set.allowed # <<>>
    /\ \A i, j \in DOMAIN rule_set.allowed : i < j => 0 < rule_set.allowed[i] /\ rule_set.allowed[i] < rule_set.allowed[j]
    /\ 0 < rule_set.allowed[1] /\ 0 < rule_set.floor /\ rule_set.floor <= rule_set.starting
===============================================================================
