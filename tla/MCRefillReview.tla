---------------------------- MODULE MCRefillReview ----------------------------
(***************************************************************************)
(* Small instances of RefillReview for TLC.                                *)
(***************************************************************************)
EXTENDS RefillReview, TLC

\* The shape of the shipped default rule set: an unaided allowance, then
\* manual review.
ShippedPolicies ==
    {[allowed |-> {15}, limit |-> 1, within |-> "auto_approve", beyond |-> "manual_review", cap |-> 15]}

\* An admin may stop unaided refills and reviews altogether ...
StricterPolicies ==
    ShippedPolicies \union
    {[allowed |-> {15}, limit |-> 0, within |-> "auto_approve", beyond |-> "deny", cap |-> 15]}

\* ... or swap it for a stricter one that caps and then denies.
SwappedPolicies ==
    ShippedPolicies \union
    {[allowed |-> {6, 15}, limit |-> 1, within |-> "auto_approve_capped", beyond |-> "deny", cap |-> 6]}

OneAmount == {15}
TwoAmounts == {6, 15}

Symmetry == Permutations(Workers) \union Permutations(Reviewers)
===============================================================================
