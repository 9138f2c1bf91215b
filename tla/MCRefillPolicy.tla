---------------------------- MODULE MCRefillPolicy ----------------------------
(***************************************************************************)
(* Refills and the rule data that decides them, in one run: requests       *)
(* without idempotency keys and racing reviewers under a policy that is    *)
(* swapped ("refills"), and the engine evaluating every small rule set     *)
(* ("rules").  `focus` is chosen once; the other part rests.               *)
(***************************************************************************)
EXTENDS MCRefillReview, MCRuleData

VARIABLE focus

RefillRests == policy = (CHOOSE d \in Policies : TRUE) /\ Init
RulesRest == rule_set = RuleSetOf(<<>>, "auto_approve") /\ budget = 2 /\ last = Nil

PolicyInit ==
    \/ focus = "refills" /\ Init /\ RulesRest
    \/ focus = "rules" /\ RefillRests /\ RuleInit

\* An evaluation does not look at the one before it, so one is explored from
\* every rule set.
PolicyNext ==
    /\ \/ focus = "refills" /\ Next /\ UNCHANGED ruleVars
       \/ /\ focus = "rules"
          /\ (last = Nil /\ RuleNext) \/ (\E rs \in Replacements : EngineLoad(rs))
          /\ UNCHANGED vars
    /\ UNCHANGED focus

PolicySpec == PolicyInit /\ [][PolicyNext]_<<vars, ruleVars, focus>>
===============================================================================
