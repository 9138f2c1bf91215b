-------------------------- MODULE BudgetLedgerProofs --------------------------
(***************************************************************************)
(* Proofs about BudgetLedger for every set of callers, rows, keys and      *)
(* amounts, and any number of calls.                                       *)
(***************************************************************************)
EXTENDS BudgetLedger, TLAPS, FiniteSetTheorems

\* Amounts on the ledger are integers, and so are their negations.
LEMMA AmountsClosed == \A a \in AllAmounts : a \in Int /\ -a \in AllAmounts
  BY ConstantsAssumption DEF AllAmounts

\* The balance UPDATE maps a well-formed row to a well-formed row.
LEMMA ApplyGrantType ==
    ASSUME NEW bal \in Balances, NEW g \in Grant
    PROVE  ApplyGrant(bal, g) \in Balances
<1>1. g.amount \in Int
  BY AmountsClosed DEF Grant
<1>2. \A b \in Buckets : bal.total[b] + (IF g.source \in SourcesOf(b) THEN g.amount ELSE 0) \in Int
  BY <1>1 DEF Balances
<1> QED
  BY <1>1, <1>2 DEF ApplyGrant, Balances

\* A row bootstrapped by the transaction is well formed.
LEMMA BootstrapType ==
    ASSUME NEW bal \in Balances
    PROVE  [bal EXCEPT !.exists = TRUE] \in Balances
  BY Zenon DEF Balances

\* The bootstrapped row of budget_balances is a balance row.
LEMMA NoBalanceType == NoBalance \in Balances
  BY DEF NoBalance, Balances

\* The request Begin records is signed as the code demands, and if it revokes
\* a grant it negates that grant.
LEMMA CallsAreValid ==
    ASSUME TypeOK, NEW c \in Callers, CallGrant(c) \/ CallRevoke(c)
    PROVE  \E g \in Grant :
             /\ Begin(c, g)
             /\ \A id \in GrantIds : g.key = RevokeKey(id) =>
                  /\ id \in DOMAIN ledger
                  /\ g.row = ledger[id].row
                  /\ g.amount = -ledger[id].amount
<1>1. CASE CallGrant(c)
  <2>1. PICK row \in Rows, key \in Keys \union {None}, source \in CallSources, a \in Amounts :
          Begin(c, [row |-> row, key |-> key, source |-> source, amount |-> a])
    BY <1>1 DEF CallGrant
  <2>2. [row |-> row, key |-> key, source |-> source, amount |-> a] \in Grant
    BY ConstantsAssumption DEF Grant, AllKeys, AllAmounts
  <2>3. \A id \in GrantIds : key # RevokeKey(id)
    BY KeysAssumption
  <2> QED
    BY <2>1, <2>2, <2>3
<1>2. CASE CallRevoke(c)
  <2>1. PICK id \in GrantIds \intersect DOMAIN ledger :
          Begin(c, [row |-> ledger[id].row, key |-> RevokeKey(id),
                    source |-> "correction", amount |-> -ledger[id].amount])
    BY <1>2 DEF CallRevoke
  <2> DEFINE g == [row |-> ledger[id].row, key |-> RevokeKey(id),
                   source |-> "correction", amount |-> -ledger[id].amount]
  <2>2. ledger[id] \in Grant
    BY DEF TypeOK
  <2>3. -ledger[id].amount \in AllAmounts
    BY <2>2, AmountsClosed DEF Grant
  <2>4. g \in Grant
    BY <2>2, <2>3 DEF Grant, AllKeys, Sources
  <2>5. \A jd \in GrantIds : RevokeKey(jd) = RevokeKey(id) => jd = id
    BY DEF RevokeKey
  <2> QED
    BY <2>1, <2>4, <2>5
<1> QED
  BY <1>1, <1>2

\* No step of any caller leaves the well-formed states.
LEMMA TypeStep == TypeOK /\ [Next]_vars => TypeOK'
<1> SUFFICES ASSUME TypeOK, [Next]_vars PROVE TypeOK'
  OBVIOUS
<1>1. ASSUME NEW c \in Callers, NEW g \in Grant, Begin(c, g) PROVE TypeOK'
  <2>1. calls' \in 0 .. MaxCalls
    BY <1>1, ConstantsAssumption DEF TypeOK, Begin
  <2>2. /\ pc' \in [Callers -> {"idle", "begun", "locked", "inserted", "updated", "replayed"}]
        /\ answer' \in [Callers -> {"none", "granted", "invalid_amount", "storage_failed"}]
    BY <1>1, Zenon DEF TypeOK, Begin
  <2>3. DOMAIN req' = Callers /\ \A d \in Callers : pc'[d] # "idle" => req'[d] \in Grant
    BY <1>1 DEF TypeOK, Begin
  <2> QED
    BY <1>1, <2>1, <2>2, <2>3 DEF TypeOK, Begin
<1>2. ASSUME NEW c \in Callers, LockRow(c) PROVE TypeOK'
  <2>1. req[c] \in Grant /\ req[c].row \in Rows
    BY <1>2 DEF TypeOK, LockRow, Grant
  <2>2. [balance[req[c].row] EXCEPT !.exists = TRUE] \in Balances
    BY <2>1, BootstrapType DEF TypeOK
  <2> QED
    BY <1>2, <2>1, <2>2 DEF TypeOK, LockRow
<1>3. ASSUME NEW c \in Callers, InsertGrant(c) PROVE TypeOK'
  BY <1>3 DEF TypeOK, InsertGrant
<1>4. ASSUME NEW c \in Callers, SelectByIdempotencyKey(c) PROVE TypeOK'
  <2>1. PICK i \in Positions(req[c].key) : found' = [found EXCEPT ![c] = i]
    BY <1>4, Zenon DEF SelectByIdempotencyKey
  <2>2. i \in Nat
    BY <2>1 DEF Positions, TypeOK
  <2> QED
    BY <1>4, <2>1, <2>2 DEF TypeOK, SelectByIdempotencyKey
<1>5. ASSUME NEW c \in Callers, UpdateBalance(c) PROVE TypeOK'
  <2>1. ApplyGrant(staged[c], req[c]) \in Balances
    BY <1>5, ApplyGrantType DEF TypeOK, UpdateBalance
  <2> QED
    BY <1>5, <2>1 DEF TypeOK, UpdateBalance
<1>6. ASSUME NEW c \in Callers, Commit(c) PROVE TypeOK'
  <2>1. req[c] \in Grant /\ req[c].row \in Rows
    BY <1>6 DEF TypeOK, Commit, Grant
  <2>2. ledger' \in Seq(Grant)
    <3>1. ledger \in Seq(Grant) /\ Append(ledger, req[c]) \in Seq(Grant)
      BY <2>1 DEF TypeOK
    <3> QED
      BY <1>6, <3>1, Zenon DEF Commit
  <2>3. found' \in [Callers -> Nat]
    <3> DEFINE n == Len(ledger) + 1
    <3>1. n \in Nat /\ found \in [Callers -> Nat]
      BY DEF TypeOK
    <3>2. found' = found \/ found' = [found EXCEPT ![c] = n]
      BY <1>6 DEF Commit
    <3> HIDE DEF n
    <3> QED
      BY <3>1, <3>2
  <2> QED
    BY <1>6, <2>1, <2>2, <2>3, NoBalanceType, Zenon DEF TypeOK, Commit
<1>7. ASSUME NEW c \in Callers, Rollback(c) PROVE TypeOK'
  BY <1>7, NoBalanceType DEF TypeOK, Rollback
<1>8. CASE UNCHANGED vars
  BY <1>8 DEF TypeOK, vars
<1> QED
  BY <1>1, <1>2, <1>3, <1>4, <1>5, <1>6, <1>7, <1>8, CallsAreValid DEF Next, Step

\* Whatever calls interleave, the ledger, the projection and every open
\* transaction stay well formed.
THEOREM TypeCorrect == Spec => []TypeOK
<1>1. Init => TypeOK
  BY NoBalanceType, ConstantsAssumption DEF Init, TypeOK
<1> QED
  BY <1>1, TypeStep, PTL DEF Spec

-------------------------------------------------------------------------------
\* Empty tables and idle callers satisfy the inductive invariant.
LEMMA InitInv == Init => IInv
<1> SUFFICES ASSUME Init PROVE IInv
  OBVIOUS
<1>1. TypeOK
  BY NoBalanceType, ConstantsAssumption DEF Init, TypeOK
<1>2. DOMAIN ledger = {}
  BY DEF Init
<1> QED
  BY <1>1, <1>2 DEF Init, IInv, HoldsItsRow, InTransaction, StagedFromCommitted, KeyReserved,
     Uncommitted, ReplayFoundKey, PendingCallsValid, OneGrantPerKey, GrantedIsOnLedger,
     RevocationCompensates

\* A call opens, or is refused, without touching what others hold.
LEMMA BeginStep ==
    ASSUME IInv, TypeOK', NEW c \in Callers, NEW g \in Grant, Begin(c, g),
           \A id \in GrantIds : g.key = RevokeKey(id) =>
              /\ id \in DOMAIN ledger
              /\ g.row = ledger[id].row
              /\ g.amount = -ledger[id].amount
    PROVE  IInv'
<1> USE DEF IInv, Begin, TypeOK
<1>1. HoldsItsRow'
  BY DEF HoldsItsRow, InTransaction
<1>2. StagedFromCommitted'
  BY DEF StagedFromCommitted
<1>3. KeyReserved'
  BY DEF KeyReserved, Uncommitted, Positions
<1>4. ReplayFoundKey'
  BY DEF ReplayFoundKey, Positions
<1>5. PendingCallsValid'
  BY DEF PendingCallsValid
<1>6. OneGrantPerKey' /\ RevocationCompensates'
  BY DEF OneGrantPerKey, RevocationCompensates
<1>7. GrantedIsOnLedger'
  BY DEF GrantedIsOnLedger
<1> QED
  BY <1>1, <1>2, <1>3, <1>4, <1>5, <1>6, <1>7

\* The statements between BEGIN and COMMIT change only the caller's own
\* transaction and the lock it takes.
LEMMA LockRowStep ==
    ASSUME IInv, TypeOK', NEW c \in Callers, LockRow(c)
    PROVE  IInv'
<1> USE DEF IInv, LockRow, TypeOK
<1>0. None \notin Callers
  BY ConstantsAssumption
<1>1. HoldsItsRow'
  BY <1>0 DEF HoldsItsRow, InTransaction, Grant
<1>2. StagedFromCommitted'
  BY Zenon DEF StagedFromCommitted
<1>3. KeyReserved'
  BY DEF KeyReserved, Uncommitted, Positions
<1>4. ReplayFoundKey'
  BY DEF ReplayFoundKey, Positions
<1>5. PendingCallsValid'
  BY DEF PendingCallsValid
<1>6. OneGrantPerKey' /\ RevocationCompensates' /\ GrantedIsOnLedger'
  BY DEF OneGrantPerKey, RevocationCompensates, GrantedIsOnLedger
<1> QED
  BY <1>1, <1>2, <1>3, <1>4, <1>5, <1>6

\* A successful INSERT reserves its key: nobody else has it inserted or
\* committed.
LEMMA InsertGrantStep ==
    ASSUME IInv, TypeOK', NEW c \in Callers, InsertGrant(c)
    PROVE  IInv'
<1> USE DEF IInv, InsertGrant, TypeOK
<1>1. HoldsItsRow'
  BY DEF HoldsItsRow, InTransaction
<1>2. StagedFromCommitted'
  BY DEF StagedFromCommitted
<1>3. KeyReserved'
  BY DEF KeyReserved, Uncommitted, Positions, HeldByOther
<1>4. ReplayFoundKey'
  BY DEF ReplayFoundKey, Positions
<1>5. PendingCallsValid'
  BY DEF PendingCallsValid
<1>6. OneGrantPerKey' /\ RevocationCompensates' /\ GrantedIsOnLedger'
  BY DEF OneGrantPerKey, RevocationCompensates, GrantedIsOnLedger
<1> QED
  BY <1>1, <1>2, <1>3, <1>4, <1>5, <1>6

\* A by-key SELECT finds a committed grant under the key it asked for.
LEMMA SelectByIdempotencyKeyStep ==
    ASSUME IInv, TypeOK', NEW c \in Callers, SelectByIdempotencyKey(c)
    PROVE  IInv'
<1> USE DEF IInv, SelectByIdempotencyKey, TypeOK
<1>1. HoldsItsRow'
  BY DEF HoldsItsRow, InTransaction
<1>2. StagedFromCommitted'
  BY DEF StagedFromCommitted
<1>3. KeyReserved'
  BY DEF KeyReserved, Uncommitted, Positions
<1>4. ReplayFoundKey'
  BY DEF ReplayFoundKey, Positions
<1>5. PendingCallsValid'
  BY DEF PendingCallsValid
<1>6. OneGrantPerKey' /\ RevocationCompensates'
  BY DEF OneGrantPerKey, RevocationCompensates
<1>7. GrantedIsOnLedger'
  BY SMTT(20) DEF GrantedIsOnLedger, PendingCallsValid
<1> QED
  BY <1>1, <1>2, <1>3, <1>4, <1>5, <1>6, <1>7

\* The balance UPDATE stages the committed row plus this one grant.
LEMMA UpdateBalanceStep ==
    ASSUME IInv, TypeOK', NEW c \in Callers, UpdateBalance(c)
    PROVE  IInv'
<1> USE DEF IInv, UpdateBalance, TypeOK
<1>1. HoldsItsRow'
  BY DEF HoldsItsRow, InTransaction
<1>2. StagedFromCommitted'
  <2>1. ApplyGrant([balance[req[c].row] EXCEPT !.exists = TRUE], req[c])
          = ApplyGrant(balance[req[c].row], req[c])
    BY DEF ApplyGrant, Grant, Balances
  <2> QED
    BY <2>1, Zenon DEF StagedFromCommitted
<1>3. KeyReserved'
  BY DEF KeyReserved, Uncommitted, Positions
<1>4. ReplayFoundKey'
  BY DEF ReplayFoundKey, Positions
<1>5. PendingCallsValid'
  BY DEF PendingCallsValid
<1>6. OneGrantPerKey' /\ RevocationCompensates' /\ GrantedIsOnLedger'
  BY DEF OneGrantPerKey, RevocationCompensates, GrantedIsOnLedger
<1> QED
  BY <1>1, <1>2, <1>3, <1>4, <1>5, <1>6

\* Appending to the ledger keeps every earlier entry where it was.
LEMMA AppendFacts ==
    ASSUME NEW S, NEW s \in Seq(S), NEW e \in S
    PROVE  /\ DOMAIN s = 1 .. Len(s)
           /\ DOMAIN Append(s, e) = 1 .. (Len(s) + 1)
           /\ \A i \in 1 .. Len(s) : Append(s, e)[i] = s[i]
           /\ Append(s, e)[Len(s) + 1] = e
           /\ Len(s) \in Nat
  OBVIOUS

\* Commit publishes the grant and its balance together; the key was free and
\* the lock makes the staged row the only successor of the committed one.
LEMMA CommitUpdatedStep ==
    ASSUME IInv, TypeOK', NEW c \in Callers, Commit(c), pc[c] = "updated"
    PROVE  IInv'
<1> DEFINE n == Len(ledger) + 1
<1>0. /\ req[c] \in Grant
      /\ ledger \in Seq(Grant)
      /\ ledger' = Append(ledger, req[c])
      /\ n \in Nat
  BY DEF IInv, TypeOK, Commit
<1>1. /\ \A i \in DOMAIN ledger : ledger'[i] = ledger[i]
      /\ ledger'[n] = req[c]
      /\ n \notin DOMAIN ledger
      /\ DOMAIN ledger' = DOMAIN ledger \union {n}
  <2>1. Len(ledger) \in Nat /\ n \in Nat /\ n \notin 1 .. Len(ledger)
    BY <1>0
  <2>2. 1 .. n = (1 .. Len(ledger)) \union {n}
    BY <2>1
  <2> QED
    BY <1>0, <2>1, <2>2, AppendFacts
<1> HIDE DEF n
<1>2. /\ pc' = [pc EXCEPT ![c] = "idle"]
      /\ req' = req
      /\ \A d \in Callers \ {c} : found'[d] = found[d] /\ answer'[d] = answer[d]
      /\ found'[c] = n
  BY DEF IInv, TypeOK, Commit, n
<1>3. /\ pc \in [Callers -> {"idle", "begun", "locked", "inserted", "updated", "replayed"}]
      /\ \A d \in Callers : Uncommitted(d)' => d # c /\ Uncommitted(d)
      /\ \A d \in Callers : pc'[d] # "idle" => d # c /\ pc'[d] = pc[d]
  BY <1>2 DEF IInv, TypeOK, Uncommitted
<1>4. HoldsItsRow'
  BY DEF IInv, TypeOK, Commit, HoldsItsRow, InTransaction, Grant
<1>5. StagedFromCommitted'
  BY DEF IInv, TypeOK, Commit, HoldsItsRow, InTransaction, Grant, StagedFromCommitted
<1>6. KeyReserved'
  <2> SUFFICES ASSUME NEW d \in Callers, Uncommitted(d)', req[d].key # None
               PROVE  /\ Positions(req[d].key)' = {}
                      /\ \A e \in Callers : Uncommitted(e)' /\ req[e].key = req[d].key => e = d
    BY <1>2 DEF KeyReserved, Positions
  <2>1. d # c /\ Uncommitted(d) /\ Uncommitted(c)
    BY <1>3 DEF Uncommitted
  <2>2. Positions(req[d].key) = {} /\ req[c].key # req[d].key
    BY <2>1 DEF IInv, KeyReserved
  <2>3. Positions(req[d].key)' = {}
    BY <1>1, <1>2, <2>2 DEF Positions
  <2> QED
    BY <1>3, <2>1, <2>3 DEF IInv, KeyReserved
<1>7. ReplayFoundKey'
  BY <1>1, <1>2, <1>3 DEF IInv, ReplayFoundKey, Positions
<1>8. PendingCallsValid'
  <2> SUFFICES ASSUME NEW d \in Callers, pc'[d] # "idle"
               PROVE  /\ answer'[d] = "none"
                      /\ ValidAmountSign(req[d].source, req[d].amount)
                      /\ \A id \in GrantIds : req[d].key = RevokeKey(id) =>
                            /\ id \in DOMAIN ledger'
                            /\ req[d].row = ledger'[id].row
                            /\ req[d].amount = -ledger'[id].amount
    BY <1>2 DEF PendingCallsValid, ValidAmountSign, RevokeKey, GrantIds
  <2> QED
    BY <1>1, <1>2, <1>3 DEF IInv, PendingCallsValid
<1>9. OneGrantPerKey'
  <2>1. \A i \in DOMAIN ledger : req[c].key # None => ledger[i].key # req[c].key
    BY DEF IInv, KeyReserved, Uncommitted, Positions
  <2> SUFFICES ASSUME NEW i \in DOMAIN ledger', NEW j \in DOMAIN ledger',
                      ledger'[i].key = ledger'[j].key, ledger'[i].key # None
               PROVE  i = j
    BY DEF OneGrantPerKey
  <2>2. CASE i = n \/ j = n
    BY <1>1, <2>1, <2>2
  <2>3. CASE i \in DOMAIN ledger /\ j \in DOMAIN ledger
    BY <1>1, <2>3 DEF IInv, OneGrantPerKey
  <2> QED
    BY <1>1, <2>2, <2>3
<1>10. GrantedIsOnLedger'
  BY <1>1, <1>2 DEF IInv, GrantedIsOnLedger
<1>11. RevocationCompensates'
  <2> SUFFICES ASSUME NEW i \in DOMAIN ledger', NEW id \in GrantIds, ledger'[i].key = RevokeKey(id)
               PROVE  /\ id < i
                      /\ ledger'[i].row = ledger'[id].row
                      /\ ledger'[i].amount = -ledger'[id].amount
    BY DEF RevocationCompensates, RevokeKey, GrantIds
  <2>1. CASE i = n
    <3>1. /\ id \in DOMAIN ledger
          /\ req[c].row = ledger[id].row
          /\ req[c].amount = -ledger[id].amount
      BY <1>1, <2>1 DEF IInv, PendingCallsValid
    <3>2. id < n
      BY <1>0, <3>1 DEF n
    <3> QED
      BY <1>1, <2>1, <3>1, <3>2
  <2>2. CASE i \in DOMAIN ledger
    <3>1. /\ id < i
          /\ ledger[i].row = ledger[id].row
          /\ ledger[i].amount = -ledger[id].amount
      BY <1>1, <2>2 DEF IInv, RevocationCompensates
    <3>2. id \in DOMAIN ledger
      BY <1>0, <2>2, <3>1 DEF GrantIds
    <3> QED
      BY <1>1, <2>2, <3>1, <3>2
  <2> QED
    BY <1>1, <2>1, <2>2
<1> QED
  BY <1>4, <1>5, <1>6, <1>7, <1>8, <1>9, <1>10, <1>11, Zenon DEF IInv

\* Committing a replay adds nothing to the ledger.
LEMMA CommitReplayedStep ==
    ASSUME IInv, TypeOK', NEW c \in Callers, Commit(c), pc[c] = "replayed"
    PROVE  IInv'
<1>0. /\ ledger' = ledger /\ req' = req /\ found' = found
      /\ pc' = [pc EXCEPT ![c] = "idle"]
      /\ \A d \in Callers : pc'[d] = IF d = c THEN "idle" ELSE pc[d]
      /\ \A d \in Callers : d # c => answer'[d] = answer[d]
  BY DEF Commit, IInv, TypeOK
<1>1. HoldsItsRow'
  BY DEF IInv, TypeOK, Commit, HoldsItsRow, InTransaction, Grant
<1>2. StagedFromCommitted'
  BY DEF IInv, TypeOK, Commit, HoldsItsRow, InTransaction, Grant, StagedFromCommitted
<1>3. KeyReserved'
  BY <1>0 DEF IInv, KeyReserved, Uncommitted, Positions
<1>4. ReplayFoundKey'
  BY <1>0 DEF IInv, ReplayFoundKey, Positions
<1>5. PendingCallsValid'
  BY <1>0 DEF IInv, PendingCallsValid
<1>6. OneGrantPerKey' /\ RevocationCompensates'
  BY <1>0 DEF IInv, OneGrantPerKey, RevocationCompensates
<1>7. GrantedIsOnLedger'
  <2>1. found[c] \in DOMAIN ledger /\ req[c].key # None /\ ledger[found[c]].key = req[c].key
    BY DEF IInv, ReplayFoundKey, Positions
  <2> QED
    BY <1>0, <2>1 DEF IInv, GrantedIsOnLedger
<1> QED
  BY <1>1, <1>2, <1>3, <1>4, <1>5, <1>6, <1>7 DEF IInv

\* A rollback leaves the committed tables alone and frees only its own lock.
LEMMA RollbackStep ==
    ASSUME IInv, TypeOK', NEW c \in Callers, Rollback(c)
    PROVE  IInv'
<1> USE DEF IInv, TypeOK, Rollback
<1>1. HoldsItsRow'
  BY DEF HoldsItsRow, InTransaction, Grant
<1>2. StagedFromCommitted'
  BY DEF StagedFromCommitted
<1>3. KeyReserved'
  BY DEF KeyReserved, Uncommitted, Positions
<1>4. ReplayFoundKey'
  BY Zenon DEF ReplayFoundKey, Positions
<1>5. PendingCallsValid'
  BY SMTT(20) DEF PendingCallsValid
<1>6. OneGrantPerKey' /\ RevocationCompensates' /\ GrantedIsOnLedger'
  BY DEF OneGrantPerKey, RevocationCompensates, GrantedIsOnLedger
<1> QED
  BY <1>1, <1>2, <1>3, <1>4, <1>5, <1>6, Zenon

\* Every step of every caller preserves the inductive invariant.
LEMMA InvStep == IInv /\ [Next]_vars => IInv'
<1> SUFFICES ASSUME IInv, [Next]_vars PROVE IInv'
  OBVIOUS
<1>1. TypeOK /\ TypeOK'
  BY TypeStep DEF IInv
<1>2. ASSUME NEW c \in Callers, CallGrant(c) \/ CallRevoke(c) PROVE IInv'
  BY <1>1, <1>2, CallsAreValid, BeginStep
<1>3. ASSUME NEW c \in Callers, Commit(c) PROVE IInv'
  <2>1. pc[c] = "updated" \/ pc[c] = "replayed"
    BY <1>3 DEF Commit
  <2> QED
    BY <1>1, <1>3, <2>1, CommitUpdatedStep, CommitReplayedStep
<1>4. ASSUME NEW c \in Callers, Step(c), ~ Commit(c) PROVE IInv'
  BY <1>1, <1>4, LockRowStep, InsertGrantStep, SelectByIdempotencyKeyStep, UpdateBalanceStep
  DEF Step
<1>5. ASSUME NEW c \in Callers, Rollback(c) PROVE IInv'
  BY <1>1, <1>5, RollbackStep, Zenon
<1>6. CASE UNCHANGED vars
  BY <1>1, <1>6 DEF IInv, vars, TypeOK, HoldsItsRow, InTransaction, StagedFromCommitted, KeyReserved,
     Uncommitted, Positions, ReplayFoundKey, PendingCallsValid, OneGrantPerKey,
     GrantedIsOnLedger, RevocationCompensates
<1> QED
  BY <1>2, <1>3, <1>4, <1>5, <1>6 DEF Next

\* The inductive invariant holds throughout every run of concurrent callers.
THEOREM Inductive == Spec => []IInv
  BY InitInv, InvStep, PTL DEF Spec

\* No interleaving, retry or rollback puts an idempotency key on the ledger
\* twice: the guarantee refills, approvals and revocations all lean on.
THEOREM KeysUnique == Spec => []OneGrantPerKey
<1>1. IInv => OneGrantPerKey
  BY DEF IInv
<1> QED
  BY <1>1, Inductive, PTL

\* A caller that BudgetRepo::grant answers with a grant can rely on it being
\* on the ledger under the key it asked for.
THEOREM AnswersDurable == Spec => []GrantedIsOnLedger
<1>1. IInv => GrantedIsOnLedger
  BY DEF IInv
<1> QED
  BY <1>1, Inductive, PTL

\* However often and by whomever revoke_budget_grant is called, the entry it
\* writes cancels the grant it names, and KeysUnique allows only one.
THEOREM RevocationsCompensate == Spec => []RevocationCompensates
<1>1. IInv => RevocationCompensates
  BY DEF IInv
<1> QED
  BY <1>1, Inductive, PTL

-------------------------------------------------------------------------------
\* Seen from the committed tables alone, a step of any caller is one of three
\* things: nothing, the bootstrap of a row by a replay, or a grant appended
\* together with the balance it produces.
LEMMA CommittedStep ==
    ASSUME IInv, [Next]_vars
    PROVE  \/ UNCHANGED <<ledger, balance>>
           \/ \E c \in Callers :
                /\ req[c] \in Grant /\ req[c].key # None
                /\ Positions(req[c].key) # {}
                /\ ledger' = ledger
                /\ balance' = [balance EXCEPT ![req[c].row].exists = TRUE]
           \/ \E c \in Callers :
                /\ req[c] \in Grant
                /\ ValidAmountSign(req[c].source, req[c].amount)
                /\ req[c].key # None => Positions(req[c].key) = {}
                /\ ledger' = Append(ledger, req[c])
                /\ balance' = [balance EXCEPT ![req[c].row] = ApplyGrant(@, req[c])]
<1>1. ASSUME NEW c \in Callers, Commit(c), pc[c] = "updated"
      PROVE  /\ req[c] \in Grant
             /\ ValidAmountSign(req[c].source, req[c].amount)
             /\ req[c].key # None => Positions(req[c].key) = {}
             /\ ledger' = Append(ledger, req[c])
             /\ balance' = [balance EXCEPT ![req[c].row] = ApplyGrant(@, req[c])]
  <2>1. req[c] \in Grant /\ ValidAmountSign(req[c].source, req[c].amount)
    BY <1>1 DEF IInv, TypeOK, PendingCallsValid
  <2>2. req[c].key # None => Positions(req[c].key) = {}
    BY <1>1 DEF IInv, KeyReserved, Uncommitted
  <2>3. staged[c] = ApplyGrant(balance[req[c].row], req[c])
    BY <1>1, Zenon DEF IInv, StagedFromCommitted
  <2>4. ledger' = Append(ledger, req[c]) /\ balance' = [balance EXCEPT ![req[c].row] = staged[c]]
    BY <1>1 DEF Commit
  <2> QED
    BY <2>1, <2>2, <2>3, <2>4, Zenon
<1>2. ASSUME NEW c \in Callers, Commit(c), pc[c] = "replayed"
      PROVE  /\ req[c] \in Grant /\ req[c].key # None
             /\ Positions(req[c].key) # {}
             /\ ledger' = ledger
             /\ balance' = [balance EXCEPT ![req[c].row].exists = TRUE]
  <2>1. req[c] \in Grant
    BY <1>2 DEF IInv, TypeOK
  <2>2. req[c].key # None /\ Positions(req[c].key) # {}
    BY <1>2 DEF IInv, ReplayFoundKey, Positions
  <2>3. staged[c] = [balance[req[c].row] EXCEPT !.exists = TRUE]
    BY <1>2 DEF IInv, StagedFromCommitted
  <2>4. ledger' = ledger /\ balance' = [balance EXCEPT ![req[c].row] = staged[c]]
    BY <1>2 DEF Commit
  <2> QED
    BY <2>1, <2>2, <2>3, <2>4
<1>3. ASSUME NEW c \in Callers, Commit(c) PROVE pc[c] = "updated" \/ pc[c] = "replayed"
  BY <1>3 DEF Commit
<1>4. CASE UNCHANGED vars
  BY <1>4 DEF vars
<1>5. ASSUME NEW c \in Callers, Next, ~ Commit(c),
             CallGrant(c) \/ CallRevoke(c) \/ Step(c) \/ Rollback(c)
      PROVE  UNCHANGED <<ledger, balance>>
  BY <1>5 DEF CallGrant, CallRevoke, Begin, Step, LockRow, InsertGrant, SelectByIdempotencyKey,
     UpdateBalance, Rollback
<1> QED
  BY <1>1, <1>2, <1>3, <1>4, <1>5, Zenon DEF Next

\* BudgetLedger implements AtomicLedger: concurrent, crashing transactions
\* against the two tables look like indivisible, once-per-key postings.
THEOREM RefinesAtomicLedger == Spec => ImplementsAtomicLedger
<1>1. Init => Atomic!Init
  BY DEF Init, Atomic!Init, NoBalance, Atomic!NoBalance, Buckets, Atomic!Buckets
<1>2. IInv /\ [Next]_vars => [Atomic!Next]_Atomic!vars
  <2> SUFFICES ASSUME IInv, [Next]_vars PROVE [Atomic!Next]_Atomic!vars
    OBVIOUS
  <2>1. CASE UNCHANGED <<ledger, balance>>
    BY <2>1 DEF Atomic!vars
  <2>2. ASSUME NEW c \in Callers,
               req[c] \in Grant, req[c].key # None, Positions(req[c].key) # {}, ledger' = ledger,
               balance' = [balance EXCEPT ![req[c].row].exists = TRUE]
        PROVE  Atomic!Replay
    BY <2>2, Zenon DEF Atomic!Replay, Atomic!Used, Positions, Grant
  <2>3. ASSUME NEW c \in Callers,
               req[c] \in Grant, ValidAmountSign(req[c].source, req[c].amount),
               req[c].key # None => Positions(req[c].key) = {},
               ledger' = Append(ledger, req[c]),
               balance' = [balance EXCEPT ![req[c].row] = ApplyGrant(@, req[c])]
        PROVE  Atomic!Post
    <3>1. req[c] = [row |-> req[c].row, key |-> req[c].key,
                    source |-> req[c].source, amount |-> req[c].amount]
      BY <2>3 DEF Grant
    <3>2. /\ req[c].row \in Rows /\ req[c].key \in AllKeys
          /\ req[c].source \in Sources /\ req[c].amount \in AllAmounts
      BY <2>3 DEF Grant
    <3>3. ~ Atomic!Used(req[c].key)
      BY <2>3 DEF Atomic!Used, Positions
    <3>4. /\ Atomic!Sources = Sources
          /\ Atomic!ValidAmountSign(req[c].source, req[c].amount)
      BY <2>3 DEF Sources, Atomic!Sources, ValidAmountSign, Atomic!ValidAmountSign
    <3>5. Atomic!ApplyGrant(balance[req[c].row], req[c]) = ApplyGrant(balance[req[c].row], req[c])
      <4>1. Atomic!Buckets = Buckets /\ \A b \in Buckets : Atomic!SourcesOf(b) = SourcesOf(b)
        BY DEF Buckets, Atomic!Buckets, SourcesOf, Atomic!SourcesOf
      <4> QED
        BY <4>1, Zenon DEF ApplyGrant, Atomic!ApplyGrant
    <3> QED
      BY <2>3, <3>1, <3>2, <3>3, <3>4, <3>5, ZenonT(40) DEF Atomic!Post
  <2> QED
    BY <2>1, <2>2, <2>3, CommittedStep, Zenon DEF Atomic!Next
<1> QED
  BY <1>1, <1>2, Inductive, PTL DEF Spec, ImplementsAtomicLedger, Atomic!Spec

-------------------------------------------------------------------------------
\* The entries of a balance row are finitely many, so they can be counted.
LEMMA EntriesFinite ==
    ASSUME TypeOK, NEW r \in Rows, NEW S
    PROVE  IsFiniteSet(EntriesOf(r, S)) /\ Cardinality(EntriesOf(r, S)) \in Nat
<1>1. DOMAIN ledger = 1 .. Len(ledger) /\ Len(ledger) \in Nat
  BY DEF TypeOK
<1>2. IsFiniteSet(1 .. Len(ledger))
  BY <1>1, FS_Interval
<1>3. EntriesOf(r, S) \subseteq 1 .. Len(ledger)
  BY <1>1 DEF EntriesOf
<1> QED
  BY <1>2, <1>3, FS_Subset, FS_CardinalityType

\* Appending a grant adds one to the entries it belongs to, and to no others.
LEMMA EntriesGrow ==
    ASSUME TypeOK, NEW g \in Grant, ledger' = Append(ledger, g), NEW r \in Rows, NEW S
    PROVE  Cardinality(EntriesOf(r, S)') =
             Cardinality(EntriesOf(r, S)) + IF g.row = r /\ g.source \in S THEN 1 ELSE 0
<1> DEFINE n == Len(ledger) + 1
<1>1. /\ \A i \in DOMAIN ledger : ledger'[i] = ledger[i]
      /\ ledger'[n] = g
      /\ n \notin DOMAIN ledger
      /\ DOMAIN ledger' = DOMAIN ledger \union {n}
  <2>1. ledger \in Seq(Grant) /\ Len(ledger) \in Nat /\ n \in Nat /\ n \notin 1 .. Len(ledger)
    BY DEF TypeOK
  <2>2. 1 .. n = (1 .. Len(ledger)) \union {n}
    BY <2>1
  <2> QED
    BY <2>1, <2>2, AppendFacts
<1> HIDE DEF n
<1>2. n \notin EntriesOf(r, S) /\ IsFiniteSet(EntriesOf(r, S))
  BY <1>1, EntriesFinite, Zenon DEF EntriesOf
<1>3. CASE g.row = r /\ g.source \in S
  <2>1. EntriesOf(r, S)' = EntriesOf(r, S) \union {n}
    BY <1>1, <1>3 DEF EntriesOf
  <2> QED
    BY <1>2, <1>3, <2>1, FS_AddElement, Zenon
<1>4. CASE ~ (g.row = r /\ g.source \in S)
  <2>1. EntriesOf(r, S)' = EntriesOf(r, S)
    BY <1>1, <1>4 DEF EntriesOf
  <2> QED
    BY <1>4, <2>1, EntriesFinite
<1> QED
  BY <1>3, <1>4

\* A commit moves each counter by the number of entries it adds.
LEMMA CountersStep ==
    ASSUME IInv, CountersCountLedger, [Next]_vars
    PROVE  CountersCountLedger'
<1>0. TypeOK /\ balance \in [Rows -> Balances]
  BY DEF IInv, TypeOK
<1>1. CASE UNCHANGED <<ledger, balance>>
  <2>1. balance' = balance /\ \A r, S : EntriesOf(r, S)' = EntriesOf(r, S)
    BY <1>1 DEF EntriesOf
  <2> QED
    BY <2>1 DEF CountersCountLedger
<1>2. ASSUME NEW c \in Callers, req[c] \in Grant, ledger' = ledger,
             balance' = [balance EXCEPT ![req[c].row].exists = TRUE]
      PROVE  CountersCountLedger'
  <2>1. \A r \in Rows : /\ balance'[r].self_service_count = balance[r].self_service_count
                        /\ balance'[r].automatic_count = balance[r].automatic_count
                        /\ balance'[r].version = balance[r].version
    BY <1>0, <1>2 DEF Balances
  <2>2. \A r, S : EntriesOf(r, S)' = EntriesOf(r, S)
    BY <1>2 DEF EntriesOf
  <2> QED
    BY <2>1, <2>2 DEF CountersCountLedger
<1>3. ASSUME NEW c \in Callers, req[c] \in Grant, ledger' = Append(ledger, req[c]),
             balance' = [balance EXCEPT ![req[c].row] = ApplyGrant(@, req[c])]
      PROVE  CountersCountLedger'
  <2> SUFFICES ASSUME NEW r \in Rows
      PROVE  /\ balance'[r].self_service_count = Cardinality(EntriesOf(r, {"self_service"})')
             /\ balance'[r].automatic_count = Cardinality(EntriesOf(r, {"automatic"})')
             /\ balance'[r].version = Cardinality(EntriesOf(r, Sources)')
    BY DEF CountersCountLedger, Sources
  <2> DEFINE g == req[c]
  <2>1. \A S : Cardinality(EntriesOf(r, S)') =
                 Cardinality(EntriesOf(r, S)) + IF g.row = r /\ g.source \in S THEN 1 ELSE 0
    BY <1>0, <1>3, EntriesGrow
  <2>2. g.row \in Rows /\ g.source \in Sources
    BY <1>3, Zenon DEF Grant
  <2>3. CASE g.row = r
    <3>1. balance'[r] = ApplyGrant(balance[r], g)
      BY <1>0, <1>3, <2>3, Zenon
    <3> DEFINE bal == balance[r]
    <3>2. /\ ApplyGrant(bal, g).self_service_count =
               bal.self_service_count + IF g.source = "self_service" THEN 1 ELSE 0
          /\ ApplyGrant(bal, g).automatic_count =
               bal.automatic_count + IF g.source = "automatic" THEN 1 ELSE 0
          /\ ApplyGrant(bal, g).version = bal.version + 1
      <4> HIDE DEF bal, g
      <4> QED
        BY DEF ApplyGrant
    <3>3. /\ bal.self_service_count = Cardinality(EntriesOf(r, {"self_service"}))
          /\ bal.automatic_count = Cardinality(EntriesOf(r, {"automatic"}))
          /\ bal.version = Cardinality(EntriesOf(r, Sources))
      BY DEF CountersCountLedger
    <3> HIDE DEF bal, g
    <3>4. /\ Cardinality(EntriesOf(r, {"self_service"})') = Cardinality(EntriesOf(r, {"self_service"}))
               + IF g.source = "self_service" THEN 1 ELSE 0
          /\ Cardinality(EntriesOf(r, {"automatic"})') = Cardinality(EntriesOf(r, {"automatic"}))
               + IF g.source = "automatic" THEN 1 ELSE 0
          /\ Cardinality(EntriesOf(r, Sources)') = Cardinality(EntriesOf(r, Sources)) + 1
      BY <2>1, <2>2, <2>3
    <3> QED
      BY <3>1, <3>2, <3>3, <3>4 DEF bal
  <2>4. CASE g.row # r
    <3>1. balance'[r] = balance[r]
      BY <1>0, <1>3, <2>2, <2>4
    <3>2. \A S : Cardinality(EntriesOf(r, S)') = Cardinality(EntriesOf(r, S)) + 0
      BY <2>1, <2>4
    <3>3. \A S : Cardinality(EntriesOf(r, S)) \in Nat
      BY <1>0, EntriesFinite
    <3> QED
      BY <3>1, <3>2, <3>3 DEF CountersCountLedger
  <2> QED
    BY <2>3, <2>4
<1> QED
  BY <1>1, <1>2, <1>3, CommittedStep, Zenon

\* The self-service count a policy decides on, the automatic count and the
\* row version are exactly the numbers of ledger entries they stand for.
THEOREM CountersExact == Spec => []CountersCountLedger
<1>1. Init => CountersCountLedger
  <2> SUFFICES ASSUME Init PROVE CountersCountLedger
    OBVIOUS
  <2>1. \A r, S : EntriesOf(r, S) = {}
    BY DEF Init, EntriesOf
  <2>2. Cardinality({}) = 0
    BY FS_EmptySet
  <2> QED
    BY <2>1, <2>2, Zenon DEF Init, CountersCountLedger, NoBalance
<1>2. IInv /\ CountersCountLedger /\ [Next]_vars => CountersCountLedger'
  BY CountersStep
<1> QED
  BY <1>1, <1>2, Inductive, PTL DEF Spec
===============================================================================
