---------------------------- MODULE MCPolicyStore ----------------------------
(***************************************************************************)
(* Small instances of PolicyStore for TLC.                                 *)
(***************************************************************************)
EXTENDS PolicyStore

\* Admins submit two acceptable documents and one that does not validate.
Documents ==
    {[name |-> "v3", valid |-> TRUE], [name |-> "v4", valid |-> TRUE], [name |-> "bad", valid |-> FALSE]}

PolicyNames == {"budget-policy-v1", "budget-policy-v2-adr0015", "v3", "v4", "bad"}

\* The revisions a rollback may name: every row, or every row but the one
\* seeded before rule data carried amounts.
AnyRow == 1 .. MaxRevisions
RowsAfterFirst == 2 .. MaxRevisions
===============================================================================
