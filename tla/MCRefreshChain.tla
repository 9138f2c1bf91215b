---------------------------- MODULE MCRefreshChain ----------------------------
(***************************************************************************)
(* Small instances of RefreshChain for TLC.                                *)
(***************************************************************************)
EXTENDS RefreshChain, TLC

\* Tokens, chains and requests are interchangeable.
Interchangeable == Permutations(Tokens) \union Permutations(Chains) \union Permutations(Calls)
===============================================================================
