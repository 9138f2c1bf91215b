----------------------------- MODULE AtomicLedger -----------------------------
(***************************************************************************)
(* What BudgetRepo::grant promises: the grant ledger and the balance       *)
(* projection change together, in one indivisible step, and at most once   *)
(* per idempotency key.  No locks, transactions or callers: those belong   *)
(* to BudgetLedger, which implements this specification.                   *)
(***************************************************************************)
EXTENDS Grants, Sequences

CONSTANTS Rows, Keys, None, Amounts   \* None is a member of Keys

VARIABLES ledger, balance

vars == <<ledger, balance>>

Init ==
    /\ ledger = <<>>
    /\ balance = [r \in Rows |-> NoBalance]

Used(key) == key # None /\ \E i \in DOMAIN ledger : ledger[i].key = key

\* A grant under an unused key is appended and applied to its balance row.
Post ==
    \E row \in Rows, key \in Keys, source \in Sources, amount \in Amounts :
        LET g == [row |-> row, key |-> key, source |-> source, amount |-> amount]
        IN  /\ ValidAmountSign(source, amount)
            /\ ~ Used(key)
            /\ ledger' = Append(ledger, g)
            /\ balance' = [balance EXCEPT ![row] = ApplyGrant(@, g)]

\* A grant under a key already on the ledger is answered with the original
\* grant.  It moves no money, but its transaction has bootstrapped the row it
\* was asked for.
Replay ==
    \E row \in Rows, key \in Keys :
        /\ Used(key)
        /\ balance' = [balance EXCEPT ![row].exists = TRUE]
        /\ UNCHANGED ledger

Next == Post \/ Replay

Spec == Init /\ [][Next]_vars
===============================================================================
