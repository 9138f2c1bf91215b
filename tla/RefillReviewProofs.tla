-------------------------- MODULE RefillReviewProofs --------------------------
(***************************************************************************)
(* Proofs about RefillReview for any number of handlers, reviewers,        *)
(* requests, keys and policies.                                            *)
(***************************************************************************)
EXTENDS RefillPayoutProofs, FiniteSetTheorems

\* The self-service entries are finitely many, so their count is a natural.
LEMMA CountNat ==
    ASSUME ledger \in Seq(GrantRow)
    PROVE  /\ IsFiniteSet({g \in DOMAIN ledger : ledger[g].source = "self_service"})
           /\ SelfServiceCount \in Nat
<1>1. DOMAIN ledger = 1 .. Len(ledger) /\ Len(ledger) \in Nat
  OBVIOUS
<1>2. IsFiniteSet(DOMAIN ledger)
  BY <1>1, FS_Interval
<1>3. {g \in DOMAIN ledger : ledger[g].source = "self_service"} \subseteq DOMAIN ledger
  OBVIOUS
<1> QED
  BY <1>2, <1>3, FS_Subset, FS_CardinalityType DEF SelfServiceCount

\* Every step keeps the state well formed.
LEMMA TypeStep == TypeOK /\ [Next]_vars => TypeOK'
  BY TypeNext, CountNat DEF TypeOK

\* The request table, the ledger and every refill or review in flight stay
\* well formed, and every call in flight works on a row that exists.
THEOREM TypeCorrect == Spec => []TypeOK
  BY TypeInit, TypeStep, PTL DEF Spec

-------------------------------------------------------------------------------
\* A grant raises the self-service counter by at most one, and only if it is
\* a self-service grant.
LEMMA PostGrantCount ==
    ASSUME TypeOK, NEW e \in GrantRow, NEW g, PostGrant(e, g)
    PROVE  /\ SelfServiceCount' \in Nat
           /\ \/ SelfServiceCount' = SelfServiceCount
              \/ e.source = "self_service" /\ SelfServiceCount' = SelfServiceCount + 1
<1> DEFINE S == {i \in DOMAIN ledger : ledger[i].source = "self_service"}
<1>1. ledger \in Seq(GrantRow) /\ IsFiniteSet(S) /\ SelfServiceCount = Cardinality(S)
      /\ SelfServiceCount \in Nat
  BY CountNat DEF TypeOK, SelfServiceCount
<1>2. CASE GrantsWith(e.key) = {}
  <2> DEFINE n == Len(ledger) + 1
             T == {i \in DOMAIN ledger' : ledger'[i].source = "self_service"}
  <2>1. ledger' = Append(ledger, e)
    BY <1>2 DEF PostGrant
  <2>2. /\ n \notin DOMAIN ledger
        /\ DOMAIN ledger' = DOMAIN ledger \union {n}
        /\ \A i \in DOMAIN ledger : ledger'[i] = ledger[i]
        /\ ledger'[n] = e
    BY <1>1, <2>1, AppendFacts
  <2> HIDE DEF n
  <2>3. SelfServiceCount' = Cardinality(T)
    BY DEF SelfServiceCount
  <2>4. CASE e.source = "self_service"
    <3>1. T = S \union {n} /\ n \notin S
      BY <2>2, <2>4
    <3> HIDE DEF S, T
    <3>2. Cardinality(S \union {n}) = Cardinality(S) + 1
      BY <1>1, <3>1, FS_AddElement, Zenon
    <3> QED
      BY <1>1, <2>3, <2>4, <3>1, <3>2
  <2>5. CASE e.source # "self_service"
    <3>1. T = S
      BY <2>2, <2>5
    <3> QED
      BY <1>1, <2>3, <3>1, Zenon
  <2> QED
    BY <2>4, <2>5
<1>3. CASE GrantsWith(e.key) # {}
  <2>1. ledger' = ledger
    BY <1>3 DEF PostGrant
  <2> QED
    BY <1>1, <2>1 DEF SelfServiceCount
<1> QED
  BY <1>2, <1>3

\* Sets of handlers are finite and have no more members than there are handlers.
LEMMA Cardinalities ==
    /\ IsFiniteSet(Workers)
    /\ Cardinality(Workers) \in Nat /\ Cardinality(Workers) > 0
    /\ \A S \in SUBSET Workers : IsFiniteSet(S) /\ Cardinality(S) \in Nat
                                 /\ Cardinality(S) <= Cardinality(Workers)
<1>1. IsFiniteSet(Workers) /\ Workers # {}
  BY ConstantsAssumption
<1> QED
  BY <1>1, FS_Subset, FS_CardinalityType, FS_EmptySet

\* A step that adds neither to the counter nor to the handlers that may still
\* grant keeps the bound.
LEMMA NoNewGranters ==
    ASSUME OvershootInv, SelfServiceCount \in Nat, SelfServiceCount' = SelfServiceCount,
           MayStillGrant' \subseteq MayStillGrant
    PROVE  OvershootInv'
<1>1. MayStillGrant \subseteq Workers
  BY DEF MayStillGrant
<1>2. /\ IsFiniteSet(MayStillGrant)
      /\ Cardinality(MayStillGrant) \in Nat /\ Cardinality(Workers) \in Nat
  BY <1>1, Cardinalities
<1>3. Cardinality(MayStillGrant') \in Nat /\ Cardinality(MayStillGrant') <= Cardinality(MayStillGrant)
  BY <1>2, FS_Subset, FS_CardinalityType
<1> QED
  BY <1>2, <1>3, AllowanceAssumption DEF OvershootInv

\* A self-service grant moves its handler from those that may still grant to
\* the grants made, so their sum stands.
LEMMA OvershootGrant ==
    ASSUME TypeOK, OvershootInv, NEW w \in Workers, Grant(w)
    PROVE  OvershootInv'
<1> DEFINE e == [key |-> job[w].key, source |-> "self_service",
                 amount |-> job[w].approved, payee |-> job[w].id]
<1>1. PICK g : PostGrant(e, g) /\ job' = [job EXCEPT ![w].grant = g]
  BY Zenon DEF Grant
<1>2. e \in GrantRow
  <2>1. job[w].id \in DOMAIN requests /\ job[w] \in Job
    BY DEF TypeOK, Grant
  <2> QED
    BY <2>1, RequestIds DEF GrantRow, Job
<1>3. /\ SelfServiceCount \in Nat /\ SelfServiceCount' \in Nat
      /\ SelfServiceCount' = SelfServiceCount \/ SelfServiceCount' = SelfServiceCount + 1
  BY <1>1, <1>2, PostGrantCount, CountNat, Zenon DEF TypeOK
<1>4. w \in MayStillGrant /\ MayStillGrant' = MayStillGrant \ {w}
  <2>1. wpc[w] = "grant" /\ wpc' = [wpc EXCEPT ![w] = "record"]
    BY DEF Grant
  <2>2. \A v \in Workers : job'[v].count = job[v].count
    BY <1>1 DEF TypeOK, Job
  <2> QED
    BY <2>1, <2>2, Zenon DEF MayStillGrant, TypeOK
<1>5. MayStillGrant \subseteq Workers
  BY DEF MayStillGrant
<1>6. /\ Cardinality(MayStillGrant') = Cardinality(MayStillGrant) - 1
      /\ Cardinality(MayStillGrant) \in Nat /\ Cardinality(Workers) \in Nat
      /\ Cardinality(MayStillGrant) <= Cardinality(Workers)
  BY <1>4, <1>5, Cardinalities, FS_RemoveElement
<1> QED
  BY <1>3, <1>6, AllowanceAssumption DEF OvershootInv

\* Evaluation makes no handler a granter that could not become one before: an
\* approving answer needs a counter below the allowance.
LEMMA OvershootEvaluate ==
    ASSUME TypeOK, NEW w \in Workers, Evaluate(w)
    PROVE  MayStillGrant' \subseteq MayStillGrant
<1>1. PICK effect \in {Decision(policy, job[w].count), "manual_review"} \union Aborted :
        /\ job' = [job EXCEPT ![w].effect = effect,
                              ![w].approved = ApprovedAmount(policy, effect, job[w].amount)]
        /\ wpc' = [wpc EXCEPT ![w] = IF effect \in Approving THEN "grant" ELSE "record"]
  BY Zenon DEF Evaluate
<1>2. wpc[w] = "evaluate" /\ policy \in Policies /\ policy \in Policy /\ job[w].count \in Nat
  BY ConstantsAssumption DEF Evaluate, TypeOK, Job
<1>3. effect \in Approving => job[w].count < policy.limit
  BY <1>2, AllowanceAssumption DEF Decision, Approving, Aborted
<1>4. effect \in Approving => job[w].count < Allowance
  BY <1>2, <1>3, AllowanceAssumption DEF Policy
<1>5. \A v \in Workers : v # w => job'[v] = job[v] /\ wpc'[v] = wpc[v]
  BY <1>1 DEF TypeOK
<1>6. wpc'[w] = IF effect \in Approving THEN "grant" ELSE "record"
  BY <1>1 DEF TypeOK
<1> QED
  BY <1>2, <1>4, <1>5, <1>6, Zenon DEF MayStillGrant

\* A handler that reads the counter after the allowance is used up cannot
\* grant; one that reads it before leaves the invariant vacuous.
LEMMA OvershootLoadFacts ==
    ASSUME TypeOK, OvershootInv, NEW w \in Workers, LoadFacts(w)
    PROVE  OvershootInv'
<1>1. SelfServiceCount \in Nat /\ SelfServiceCount' = SelfServiceCount
  BY CountNat DEF TypeOK, LoadFacts, SelfServiceCount
<1>2. CASE SelfServiceCount < Allowance
  BY <1>1, <1>2, AllowanceAssumption DEF OvershootInv
<1>3. CASE SelfServiceCount >= Allowance
  <2>1. \A v \in Workers : v # w => job'[v] = job[v] /\ wpc'[v] = wpc[v]
    BY DEF LoadFacts, TypeOK
  <2>2. job'[w].count = SelfServiceCount /\ wpc'[w] = "evaluate"
    BY DEF LoadFacts, TypeOK, Job
  <2>3. MayStillGrant' \subseteq MayStillGrant
    BY <1>1, <1>3, <2>1, <2>2, AllowanceAssumption DEF MayStillGrant
  <2> QED
    BY <1>1, <2>3, NoNewGranters
<1> QED
  BY <1>1, <1>2, <1>3, AllowanceAssumption

\* An approval's grant is not a self-service one.
LEMMA OvershootReviewGrant ==
    ASSUME TypeOK, NEW r \in Reviewers, ReviewGrant(r)
    PROVE  SelfServiceCount' = SelfServiceCount
<1> DEFINE e == [key |-> ApprovalKey(visit[r].id), source |-> "manual_approval",
                 amount |-> visit[r].amount, payee |-> visit[r].id]
<1>1. PICK g : PostGrant(e, g)
  BY DEF ReviewGrant
<1>2. visit[r].id \in Ids /\ visit[r].amount \in Nat
  <2>1. visit[r].amount \in Amounts \union {0} /\ visit[r].id \in DOMAIN requests
    BY Zenon DEF TypeOK, ReviewGrant, Visit
  <2>2. visit[r].amount \in Nat
    BY <2>1, AmountsNat
  <2> QED
    BY <2>1, <2>2, RequestIds
<1>3. e \in GrantRow
  BY <1>2 DEF GrantRow
<1> QED
  BY <1>1, <1>3, PostGrantCount

\* Every step of every handler preserves the inductive form of the bound.
LEMMA OvershootStep ==
    ASSUME TypeOK, OvershootInv, [Next]_vars
    PROVE  OvershootInv'
<1>0. SelfServiceCount \in Nat
  BY CountNat DEF TypeOK
<1>1. ASSUME NEW w \in Workers, WorkerNext(w) PROVE OvershootInv'
  <2>1. CASE Grant(w)
    BY <2>1, OvershootGrant
  <2>2. CASE LoadFacts(w)
    BY <2>2, OvershootLoadFacts
  <2>3. CASE Evaluate(w)
    <3>1. SelfServiceCount' = SelfServiceCount
      BY <2>3 DEF Evaluate, SelfServiceCount
    <3> QED
      BY <1>0, <2>3, <3>1, OvershootEvaluate, NoNewGranters
  <2>4. ASSUME \/ \E key \in Keys \union {None}, amount \in Amounts : Submit(w, key, amount)
               \/ Create(w) \/ RecordDecision(w) \/ WorkerStops(w)
        PROVE  OvershootInv'
    <3>1. ledger' = ledger
      BY <2>4, ZenonT(40) DEF Submit, Create, RecordDecision, WorkerStops
    <3>2. /\ wpc'[w] \in {"create", "load", "idle"}
          /\ \A v \in Workers : v # w => wpc'[v] = wpc[v] /\ job'[v] = job[v]
      BY <2>4, Zenon DEF Submit, Create, RecordDecision, WorkerStops, WorkerDone, TypeOK
    <3>3. SelfServiceCount' = SelfServiceCount
      BY <3>1 DEF SelfServiceCount
    <3>4. MayStillGrant' \subseteq MayStillGrant
      BY <3>2 DEF MayStillGrant
    <3> QED
      BY <1>0, <3>3, <3>4, NoNewGranters, Zenon
  <2> QED
    BY <1>1, <2>1, <2>2, <2>3, <2>4, Zenon DEF WorkerNext, WorkerStep
<1>2. ASSUME NEW r \in Reviewers, ReviewNext(r) PROVE OvershootInv'
  <2>1. SelfServiceCount' = SelfServiceCount
    <3>1. CASE ReviewGrant(r)
      BY <3>1, OvershootReviewGrant, Zenon
    <3>2. CASE ~ ReviewGrant(r)
      <4>1. ledger' = ledger
        BY <1>2, <3>2, ZenonT(40)
        DEF ReviewNext, ReviewStep, AcquireReviewLock, ReadRequest, RecordReview, ReviewStops
      <4> QED
        BY <4>1 DEF SelfServiceCount
    <3> QED
      BY <3>1, <3>2
  <2>2. wpc' = wpc /\ job' = job
    BY <1>2, Zenon DEF ReviewNext, ReviewStep, AcquireReviewLock, ReadRequest, ReviewGrant, RecordReview,
       ReviewStops, workerVars
  <2>3. MayStillGrant' \subseteq MayStillGrant
    BY <2>2 DEF MayStillGrant
  <2> QED
    BY <1>0, <2>1, <2>3, NoNewGranters
<1>3. ASSUME ledger' = ledger, wpc' = wpc, job' = job PROVE OvershootInv'
  <2>1. SelfServiceCount' = SelfServiceCount /\ MayStillGrant' = MayStillGrant
    BY <1>3 DEF SelfServiceCount, MayStillGrant
  <2> QED
    BY <1>0, <2>1, NoNewGranters
<1> QED
  BY <1>1, <1>2, <1>3, Zenon DEF Next, LoadPolicy, vars, workerVars

\* Whatever the number of concurrent refills, policies swapped under them and
\* handlers that stop half way, the unaided allowance is overrun by less than
\* the number of handlers.
THEOREM OvershootIsBounded == Spec => []OvershootBounded
<1>1. Init => OvershootInv
  <2> SUFFICES ASSUME Init PROVE OvershootInv
    OBVIOUS
  <2>1. MayStillGrant = {} /\ {g \in DOMAIN ledger : ledger[g].source = "self_service"} = {}
    BY DEF Init, MayStillGrant
  <2>2. Cardinality(MayStillGrant) = 0 /\ SelfServiceCount = 0
    BY <2>1, FS_EmptySet DEF SelfServiceCount
  <2> QED
    BY <2>2, Cardinalities, AllowanceAssumption DEF OvershootInv
<1>2. TypeOK /\ OvershootInv /\ [Next]_vars => OvershootInv'
  BY OvershootStep
<1>3. TypeOK /\ OvershootInv => OvershootBounded
  <2> SUFFICES ASSUME TypeOK, OvershootInv PROVE OvershootBounded
    OBVIOUS
  <2>1. MayStillGrant \in SUBSET Workers /\ SelfServiceCount \in Nat
    BY CountNat DEF MayStillGrant, TypeOK
  <2> QED
    BY <2>1, Cardinalities, AllowanceAssumption DEF OvershootInv, OvershootBounded
<1> QED
  BY <1>1, <1>2, <1>3, TypeCorrect, PTL DEF Spec

-------------------------------------------------------------------------------
LEMMA BackedAlways == Spec => [](TypeOK /\ BackedInv)
<1>1. Init => TypeOK /\ BackedInv
  BY TypeInit, BackedInit
<1>2. TypeOK /\ BackedInv /\ [Next]_vars => (TypeOK /\ BackedInv)'
  BY TypeStep, BackedStep
<1> QED
  BY <1>1, <1>2, PTL DEF Spec

\* A row that reads as granted names the grant made for this very request, the
\* way its status says, and no other row names one, although
\* AugmentationRepo::record_decision writes whatever the handler remembers.
THEOREM GrantedRowsBackedAlways == Spec => []GrantedRowsAreBacked
<1>1. BackedInv => GrantedRowsAreBacked
  BY DEF BackedInv
<1> QED
  BY <1>1, BackedAlways, PTL

LEMMA PayoutAlways ==
    ASSUME Keys = {}
    PROVE  Spec => [](TypeOK /\ BackedInv /\ PayoutInv)
<1>1. Init => PayoutInv
  BY DEF Init, PayoutInv, RowOwned, HasRow, LockedVisit
<1>2. TypeOK /\ BackedInv /\ PayoutInv /\ [Next]_vars => (TypeOK /\ BackedInv /\ PayoutInv)'
  BY TypeStep, BackedStep, PayoutStep
<1> QED
  BY <1>1, <1>2, TypeInit, BackedInit, PTL DEF Spec

\* Without idempotency keys one request never pays twice: not by a policy
\* change, not by an approval on top of an automatic grant, not by two
\* reviewers, nor by a reviewer who repeats an interrupted approval.
THEOREM OnePayoutAlways ==
    ASSUME Keys = {}
    PROVE  Spec => []OnePayoutPerRequest
<1>1. ASSUME PayoutInv PROVE OnePayoutPerRequest
  <2>1. ASSUME NEW id \in DOMAIN requests PROVE Cardinality(Paid(id)) <= 1
    <3>1. \A g, h \in Paid(id) : g = h
      BY <1>1 DEF PayoutInv, PaidOnce
    <3>2. Paid(id) = {} \/ \E g : Paid(id) = {g}
      BY <3>1, Zenon
    <3>3. Cardinality(Paid(id)) = 0 \/ Cardinality(Paid(id)) = 1
      BY <3>2, FS_EmptySet, FS_Singleton, Zenon
    <3> QED
      BY <3>3
  <2> QED
    BY <2>1 DEF OnePayoutPerRequest
<1> QED
  BY <1>1, PayoutAlways, PTL

\* Without idempotency keys an outcome reads as refused while money moved only
\* if ReviewService::approve was interrupted between its grant and its verdict.
THEOREM RefusedAndPaidRarely ==
    ASSUME Keys = {}
    PROVE  Spec => []RefusedAndPaidOnlyIfInterrupted
<1>1. PayoutInv => RefusedAndPaidOnlyIfInterrupted
  BY DEF PayoutInv, PaidOnce, RefusedAndPaidOnlyIfInterrupted
<1> QED
  BY <1>1, PayoutAlways, PTL

\* Without idempotency keys what evaluation recorded is never overwritten, and
\* a row with a reviewer's verdict is final, although record_decision updates
\* the row whatever its status.
THEOREM DecisionsStandAlways ==
    ASSUME Keys = {}
    PROVE  Spec => DecisionsStand
<1> DEFINE Stands ==
      \A id \in DOMAIN requests :
          /\ requests[id].effect # "none" => requests'[id].effect = requests[id].effect
          /\ requests[id].reviewed => requests'[id] = requests[id]
<1>1. ASSUME TypeOK, PayoutInv, Next PROVE Stands
  <2>1. CASE requests' = requests
    BY <2>1
  <2>2. ASSUME NEW w \in Workers, Create(w) PROVE Stands
    <3> PICK key : key = job[w].key
      OBVIOUS
    <3>1. requests' = requests \/ \E n : RowFound(n, key) \/ RowMade(n, key)
      BY <1>1, <2>2, CreateShape
    <3>2. \A i \in DOMAIN requests : requests'[i] = requests[i]
      BY <3>1, Zenon DEF RowFound, RowMade
    <3> QED
      BY <3>2
  <2>3. ASSUME NEW w \in Workers, RecordDecision(w) PROVE Stands
    <3>1. wpc[w] = "record" /\ RowWritten(job[w].id)
      BY <1>1, <2>3, RecordDecisionShape
    <3>2. requests[job[w].id].effect = "none" /\ ~requests[job[w].id].reviewed
      BY <1>1, <3>1, Zenon DEF PayoutInv, RowOwned, HasRow
    <3> QED
      BY <3>1, <3>2 DEF RowWritten
  <2>4. ASSUME NEW r \in Reviewers, RecordReview(r), requests' # requests PROVE Stands
    <3>1. PICK n : n = visit[r].id
      OBVIOUS
    <3>2. /\ rpc[r] = "record" /\ RowWritten(n) /\ requests'[n].effect = requests[n].effect
          /\ requests[n].status = "pending_review"
      BY <1>1, <2>4, <3>1, RecordReviewShape, Zenon
    <3>3. n \in DOMAIN requests /\ ~requests[n].reviewed
      BY <1>1, <3>1, <3>2, Zenon DEF TypeOK, PayoutInv, PaidOnce
    <3> QED
      BY <3>2, <3>3 DEF RowWritten
  <2> QED
    BY <1>1, <2>1, <2>2, <2>3, <2>4, Zenon
    DEF Next, WorkerNext, WorkerStep, ReviewNext, ReviewStep, Submit, LoadFacts, Evaluate, Grant,
        WorkerStops, AcquireReviewLock, ReadRequest, ReviewGrant, ReviewStops, LoadPolicy
<1>2. TypeOK /\ PayoutInv /\ [Next]_vars => [Stands]_vars
  BY <1>1
<1> QED
  BY <1>2, PayoutAlways, PTL DEF Spec, DecisionsStand
===============================================================================
