----------------------------- MODULE BudgetLedger -----------------------------
(***************************************************************************)
(* BudgetRepo::grant (lightbridge-authz-budget/src/repo.rs), the single    *)
(* write path of the budget ledger, as concurrent callers run it: one      *)
(* Postgres transaction per call, statement by statement, with the row     *)
(* lock, the unique index on idempotency_key, rollbacks and commits whose  *)
(* acknowledgement is lost.  revoke_budget_grant (rest/src/lib.rs), which  *)
(* compensates a committed grant through the same path, is an operation of *)
(* its own because it reads the ledger before it writes to it.             *)
(*                                                                         *)
(* A committed grant is identified by its position on the ledger.          *)
(***************************************************************************)
EXTENDS Grants, Sequences, FiniteSets, FiniteSetsExt

CONSTANTS
    Callers,      \* concurrent callers of BudgetRepo::grant
    Rows,         \* (budget_account_id, period) pairs
    Keys,         \* idempotency keys callers choose
    None,         \* SQL NULL, and the absence of a caller
    Amounts,      \* amounts callers ask for, well signed or not
    CallSources,  \* sources callers grant under
    MaxCalls      \* bound on the number of calls

ASSUME ConstantsAssumption ==
    /\ None \notin Callers
    /\ Amounts \subseteq Int
    /\ CallSources \subseteq Sources \ {"correction"}
    /\ MaxCalls \in Nat

GrantIds == 1 .. MaxCalls

\* format!("revoke:{}", grant_id)
RevokeKey(id) == <<"revoke", id>>

AllKeys == Keys \union {None} \union {RevokeKey(id) : id \in GrantIds}
\* Keys callers choose never take the form of a revocation's.
ASSUME KeysAssumption == \A id \in GrantIds : RevokeKey(id) \notin Keys \union {None}

AllAmounts == Amounts \union {-a : a \in Amounts}

Grant == [row : Rows, key : AllKeys, source : Sources, amount : AllAmounts]

VARIABLES
    ledger,    \* budget_grants: the committed rows, in commit order
    balance,   \* budget_balances: the committed projection, per row
    rowLock,   \* holder of the FOR UPDATE lock on each budget_balances row
    pc,        \* the statement each caller's transaction has reached
    req,       \* the GrantRequest of each caller's current or last call
    staged,    \* the caller's own, uncommitted version of its balance row
    found,     \* ledger position of the grant to answer with
    answer,    \* what the last call of each caller returned
    calls      \* number of calls made so far

vars == <<ledger, balance, rowLock, pc, req, staged, found, answer, calls>>

Init ==
    /\ ledger = <<>>
    /\ balance = [r \in Rows |-> NoBalance]
    /\ rowLock = [r \in Rows |-> None]
    /\ pc = [c \in Callers |-> "idle"]
    /\ req = [c \in Callers |-> None]
    /\ staged = [c \in Callers |-> NoBalance]
    /\ found = [c \in Callers |-> 0]
    /\ answer = [c \in Callers |-> "none"]
    /\ calls = 0

-------------------------------------------------------------------------------
\* The grant a caller's transaction has inserted but not committed occupies
\* its key in the unique index: others wait for the transaction to end.
Uncommitted(c) == pc[c] \in {"inserted", "updated"}

HeldByOther(key, c) ==
    key # None /\ \E d \in Callers \ {c} : Uncommitted(d) /\ req[d].key = key

Positions(key) == {i \in DOMAIN ledger : key # None /\ ledger[i].key = key}

\* validate_amount_sign passed, pool().begin().
Begin(c, g) ==
    /\ pc[c] = "idle"
    /\ calls < MaxCalls
    /\ calls' = calls + 1
    /\ req' = [req EXCEPT ![c] = g]
    /\ found' = [found EXCEPT ![c] = 0]
    /\ IF ValidAmountSign(g.source, g.amount)
       THEN /\ pc' = [pc EXCEPT ![c] = "begun"]
            /\ answer' = [answer EXCEPT ![c] = "none"]
       ELSE /\ answer' = [answer EXCEPT ![c] = "invalid_amount"]
            /\ UNCHANGED pc
    /\ UNCHANGED <<ledger, balance, rowLock, staged>>

\* A caller of BudgetRepo::grant with a request of its own: an admin grant, a
\* refill, an approval.
CallGrant(c) ==
    \E row \in Rows, key \in Keys \union {None}, source \in CallSources, a \in Amounts :
        Begin(c, [row |-> row, key |-> key, source |-> source, amount |-> a])

\* Fault: the compensating amount keeps the grant's sign.
UnnegatedCallRevoke(c) ==
    \E id \in GrantIds \intersect DOMAIN ledger :
        Begin(c, [row |-> ledger[id].row, key |-> RevokeKey(id),
                  source |-> "correction", amount |-> ledger[id].amount])

\* revoke_budget_grant: get_grant_by_id, then a correction of the opposite
\* amount under a key derived from the grant's id.
CallRevoke(c) ==
    \E id \in GrantIds \intersect DOMAIN ledger :
        Begin(c, [row |-> ledger[id].row, key |-> RevokeKey(id),
                  source |-> "correction", amount |-> -ledger[id].amount])

\* Fault: the row is read without FOR UPDATE.
UnlockedLockRow(c) ==
    /\ pc[c] = "begun"
    /\ staged' = [staged EXCEPT ![c] = [balance[req[c].row] EXCEPT !.exists = TRUE]]
    /\ pc' = [pc EXCEPT ![c] = "locked"]
    /\ UNCHANGED <<ledger, balance, rowLock, req, found, answer, calls>>

\* The bootstrap INSERT ... ON CONFLICT DO NOTHING and the SELECT ... FOR
\* UPDATE: both wait for a transaction that holds the row.
LockRow(c) ==
    /\ pc[c] = "begun"
    /\ rowLock[req[c].row] = None
    /\ rowLock' = [rowLock EXCEPT ![req[c].row] = c]
    /\ staged' = [staged EXCEPT ![c] = [balance[req[c].row] EXCEPT !.exists = TRUE]]
    /\ pc' = [pc EXCEPT ![c] = "locked"]
    /\ UNCHANGED <<ledger, balance, req, found, answer, calls>>

\* INSERT INTO budget_grants ... ON CONFLICT (idempotency_key) DO NOTHING.
InsertGrant(c) ==
    /\ pc[c] = "locked"
    /\ ~ HeldByOther(req[c].key, c)
    /\ Positions(req[c].key) = {}
    /\ pc' = [pc EXCEPT ![c] = "inserted"]
    /\ UNCHANGED <<ledger, balance, rowLock, req, staged, found, answer, calls>>

\* Fault: the original is looked up by its balance row.
SelectByRow(c) ==
    /\ pc[c] = "locked"
    /\ Positions(req[c].key) # {}
    /\ \E i \in DOMAIN ledger : ledger[i].row = req[c].row /\ found' = [found EXCEPT ![c] = i]
    /\ pc' = [pc EXCEPT ![c] = "replayed"]
    /\ UNCHANGED <<ledger, balance, rowLock, req, staged, answer, calls>>

\* The key is taken: the INSERT does nothing and the original is selected.
SelectByIdempotencyKey(c) ==
    /\ pc[c] = "locked"
    /\ \E i \in Positions(req[c].key) : found' = [found EXCEPT ![c] = i]
    /\ pc' = [pc EXCEPT ![c] = "replayed"]
    /\ UNCHANGED <<ledger, balance, rowLock, req, staged, answer, calls>>

\* UPDATE budget_balances, in the caller's own transaction.
UpdateBalance(c) ==
    /\ pc[c] = "inserted"
    /\ staged' = [staged EXCEPT ![c] = ApplyGrant(@, req[c])]
    /\ pc' = [pc EXCEPT ![c] = "updated"]
    /\ UNCHANGED <<ledger, balance, rowLock, req, found, answer, calls>>

\* Fault: the row stays locked after the commit.
LockKeepingCommit(c) ==
    /\ pc[c] \in {"updated", "replayed"}
    /\ ledger' = IF pc[c] = "updated" THEN Append(ledger, req[c]) ELSE ledger
    /\ balance' = [balance EXCEPT ![req[c].row] = staged[c]]
    /\ pc' = [pc EXCEPT ![c] = "idle"]
    /\ answer' = [answer EXCEPT ![c] = "granted"]
    /\ UNCHANGED <<rowLock, req, staged, found, calls>>

\* tx.commit(): everything the transaction wrote becomes visible at once.
\* The acknowledgement may still be lost on the way back to the caller.
Commit(c) ==
    /\ pc[c] \in {"updated", "replayed"}
    /\ IF pc[c] = "updated"
       THEN /\ ledger' = Append(ledger, req[c])
            /\ found' = [found EXCEPT ![c] = Len(ledger) + 1]
       ELSE UNCHANGED <<ledger, found>>
    /\ balance' = [balance EXCEPT ![req[c].row] = staged[c]]
    /\ rowLock' = [rowLock EXCEPT ![req[c].row] = None]
    /\ staged' = [staged EXCEPT ![c] = NoBalance]
    /\ pc' = [pc EXCEPT ![c] = "idle"]
    /\ \E kind \in {"granted", "storage_failed"} : answer' = [answer EXCEPT ![c] = kind]
    /\ UNCHANGED <<req, calls>>

\* Fault: the INSERT was not part of the transaction.
InsertKeepingRollback(c) ==
    /\ pc[c] # "idle"
    /\ ledger' = IF Uncommitted(c) THEN Append(ledger, req[c]) ELSE ledger
    /\ rowLock' = [r \in Rows |-> IF rowLock[r] = c THEN None ELSE rowLock[r]]
    /\ staged' = [staged EXCEPT ![c] = NoBalance]
    /\ pc' = [pc EXCEPT ![c] = "idle"]
    /\ answer' = [answer EXCEPT ![c] = "storage_failed"]
    /\ UNCHANGED <<balance, req, found, calls>>

\* A statement fails, or the process or its connection dies: Postgres rolls
\* the transaction back and releases its locks.
Rollback(c) ==
    /\ pc[c] # "idle"
    /\ rowLock' = [r \in Rows |-> IF rowLock[r] = c THEN None ELSE rowLock[r]]
    /\ staged' = [staged EXCEPT ![c] = NoBalance]
    /\ pc' = [pc EXCEPT ![c] = "idle"]
    /\ answer' = [answer EXCEPT ![c] = "storage_failed"]
    /\ UNCHANGED <<ledger, balance, req, found, calls>>

Step(c) ==
    \/ LockRow(c)
    \/ InsertGrant(c)
    \/ SelectByIdempotencyKey(c)
    \/ UpdateBalance(c)
    \/ Commit(c)

Next ==
    \E c \in Callers : CallGrant(c) \/ CallRevoke(c) \/ Step(c) \/ Rollback(c)

Spec == Init /\ [][Next]_vars

\* Postgres queues lock waiters in order of arrival and the executor polls
\* every future that is ready, so a statement that can run again and again
\* is eventually run.
FairSpec == Spec /\ \A c \in Callers : SF_vars(Step(c))

-------------------------------------------------------------------------------
\* REBUILD_ALL_BALANCES_SQL: the projection recomputed from the ledger alone.
EntriesOf(row, sources) ==
    {i \in DOMAIN ledger : ledger[i].row = row /\ ledger[i].source \in sources}

SumOf(positions) == MapThenSumSet(LAMBDA i : ledger[i].amount, positions)

DerivedBalance(row) ==
    [total |-> [b \in Buckets |-> SumOf(EntriesOf(row, SourcesOf(b)))],
     effective |-> SumOf(EntriesOf(row, Sources)),
     self_service_count |-> Cardinality(EntriesOf(row, {"self_service"})),
     automatic_count |-> Cardinality(EntriesOf(row, {"automatic"}))]

\* The state is well formed: rows of the ledger are grants, a call past
\* Begin holds a grant request, and a by-key answer points into the ledger.
TypeOK ==
    /\ ledger \in Seq(Grant)
    /\ balance \in [Rows -> Balances]
    /\ rowLock \in [Rows -> Callers \union {None}]
    /\ pc \in [Callers -> {"idle", "begun", "locked", "inserted", "updated", "replayed"}]
    /\ DOMAIN req = Callers
    /\ \A c \in Callers : pc[c] # "idle" => req[c] \in Grant
    /\ staged \in [Callers -> Balances]
    /\ found \in [Callers -> Nat]
    /\ answer \in [Callers -> {"none", "granted", "invalid_amount", "storage_failed"}]
    /\ calls \in 0 .. MaxCalls

\* Whatever callers race, retry or crash, an idempotency key is on the ledger
\* at most once: the unique index together with ON CONFLICT DO NOTHING.
OneGrantPerKey ==
    \A i, j \in DOMAIN ledger :
        ledger[i].key = ledger[j].key /\ ledger[i].key # None => i = j

\* rebuild_all_balances reproduces the stored projection exactly: no grant is
\* counted twice, lost by a concurrent update, or put in the wrong bucket.
BalanceIsReplayOfLedger ==
    \A r \in Rows : \A col \in DOMAIN DerivedBalance(r) :
        balance[r][col] = DerivedBalance(r)[col]

\* The counters policies read, and the row's version, count the ledger's
\* entries: one increment per committed grant, none for a replay.
CountersCountLedger ==
    \A r \in Rows :
        /\ balance[r].self_service_count = Cardinality(EntriesOf(r, {"self_service"}))
        /\ balance[r].automatic_count = Cardinality(EntriesOf(r, {"automatic"}))
        /\ balance[r].version = Cardinality(EntriesOf(r, Sources))

\* A caller that is told "granted" is shown a durable grant, and one under the
\* key it asked for: its own when the key is NULL, the original otherwise.
GrantedIsOnLedger ==
    \A c \in Callers : answer[c] = "granted" =>
        /\ found[c] \in DOMAIN ledger
        /\ ledger[found[c]].key = req[c].key
        /\ req[c].key = None => ledger[found[c]] = req[c]

\* revoke_budget_grant compensates: an entry under revoke:{id} comes after
\* entry id, on the same balance row, for exactly the opposite amount.
RevocationCompensates ==
    \A i \in DOMAIN ledger, id \in GrantIds : ledger[i].key = RevokeKey(id) =>
        /\ id < i
        /\ ledger[i].row = ledger[id].row
        /\ ledger[i].amount = -ledger[id].amount

\* Every transaction implements one indivisible step of the abstract ledger:
\* money and record move together or not at all.
Atomic == INSTANCE AtomicLedger WITH Keys <- AllKeys, Amounts <- AllAmounts
ImplementsAtomicLedger == Atomic!Spec

\* Row locks and waits on the unique index never block each other for good:
\* every call of BudgetRepo::grant returns.
EveryCallReturns == \A c \in Callers : pc[c] # "idle" ~> pc[c] = "idle"

-------------------------------------------------------------------------------
(***************************************************************************)
(* The strengthening that makes the safety properties inductive.           *)
(***************************************************************************)
InTransaction(c) == pc[c] \in {"locked", "inserted", "updated", "replayed"}

\* Past FOR UPDATE a caller holds the lock of the row it writes.
HoldsItsRow == \A c \in Callers : InTransaction(c) => rowLock[req[c].row] = c

\* Under that lock, what it is about to write is the committed row, plus its
\* own grant once the UPDATE has run: nobody's update can be lost.
StagedFromCommitted ==
    \A c \in Callers :
        /\ pc[c] \in {"locked", "inserted", "replayed"} =>
              staged[c] = [balance[req[c].row] EXCEPT !.exists = TRUE]
        /\ pc[c] = "updated" => staged[c] = ApplyGrant(balance[req[c].row], req[c])

\* An uncommitted grant has its key to itself.
KeyReserved ==
    \A c \in Callers : Uncommitted(c) /\ req[c].key # None =>
        /\ Positions(req[c].key) = {}
        /\ \A d \in Callers : Uncommitted(d) /\ req[d].key = req[c].key => d = c

ReplayFoundKey ==
    \A c \in Callers : pc[c] = "replayed" => found[c] \in Positions(req[c].key)

\* Calls under way are not answered yet and passed validate_amount_sign, and a
\* revocation under way negates a grant that is already committed.
PendingCallsValid ==
    \A c \in Callers : pc[c] # "idle" =>
        /\ answer[c] = "none"
        /\ ValidAmountSign(req[c].source, req[c].amount)
        /\ \A id \in GrantIds : req[c].key = RevokeKey(id) =>
              /\ id \in DOMAIN ledger
              /\ req[c].row = ledger[id].row
              /\ req[c].amount = -ledger[id].amount

IInv ==
    /\ TypeOK
    /\ HoldsItsRow
    /\ StagedFromCommitted
    /\ KeyReserved
    /\ ReplayFoundKey
    /\ PendingCallsValid
    /\ OneGrantPerKey
    /\ GrantedIsOnLedger
    /\ RevocationCompensates
===============================================================================
