--------------------------- MODULE RefillRowProofs ---------------------------
(***************************************************************************)
(* Type correctness of RefillReview, what each of its steps does, and what *)
(* request rows say of the grant ledger, for any number of handlers,       *)
(* reviewers, requests, keys and policies.                                 *)
(*                                                                         *)
(* A row is written from what a handler or a review remembers of its       *)
(* grant, so the invariant BackedInv says what that memory is worth.       *)
(***************************************************************************)
EXTENDS RefillReview, TLAPS

\* Amounts, and the 0 of an unset local, are naturals.
LEMMA AmountsNat == \A a \in Amounts \union {0} : a \in Nat
  BY ConstantsAssumption

\* Appending keeps earlier entries and adds one position.
LEMMA AppendFacts ==
    ASSUME NEW S, NEW s \in Seq(S), NEW e \in S
    PROVE  /\ Append(s, e) \in Seq(S)
           /\ Len(s) \in Nat
           /\ Len(s) + 1 \notin DOMAIN s
           /\ DOMAIN Append(s, e) = DOMAIN s \union {Len(s) + 1}
           /\ \A i \in DOMAIN s : Append(s, e)[i] = s[i]
           /\ Append(s, e)[Len(s) + 1] = e
           /\ Len(Append(s, e)) = Len(s) + 1
<1>1. Len(s) \in Nat /\ DOMAIN s = 1 .. Len(s) /\ DOMAIN Append(s, e) = 1 .. Len(s) + 1
  OBVIOUS
<1>2. 1 .. Len(s) + 1 = (1 .. Len(s)) \union {Len(s) + 1} /\ Len(s) + 1 \notin 1 .. Len(s)
  BY <1>1
<1> QED
  BY <1>1, <1>2

\* Rows of the table are among the ids the model allows for.
LEMMA RequestIds == TypeOK => DOMAIN requests \subseteq Ids
<1> SUFFICES ASSUME TypeOK PROVE DOMAIN requests \subseteq Ids
  OBVIOUS
<1>1. DOMAIN requests = 1 .. Len(requests) /\ Len(requests) \in Nat /\ Len(requests) <= MaxRequests
  BY DEF TypeOK
<1> QED
  BY <1>1, ConstantsAssumption DEF Ids

\* The locals of an idle refill handler are well formed.
LEMMA NoJobType == NoJob \in Job
  BY DEF NoJob, Job

\* The locals of an idle review are well formed.
LEMMA NoVisitType == NoVisit \in Visit
  BY DEF NoVisit, Visit

\* decision_for_effect yields a natural number of micros.
LEMMA ApprovedAmountType ==
    ASSUME NEW p \in Policies, NEW effect, NEW amount \in Amounts
    PROVE  ApprovedAmount(p, effect, amount) \in Nat
<1>1. p.cap \in Nat /\ amount \in Nat
  BY ConstantsAssumption, Zenon DEF Policy
<1> QED
  BY <1>1 DEF ApprovedAmount

\* BudgetRepo::grant leaves a well-formed ledger and names a grant on it.
LEMMA PostGrantType ==
    ASSUME ledger \in Seq(GrantRow), NEW e \in GrantRow, NEW g, PostGrant(e, g)
    PROVE  /\ ledger' \in Seq(GrantRow)
           /\ g \in DOMAIN ledger'
           /\ g \in Nat
<1>1. CASE GrantsWith(e.key) = {}
  <2>1. g = Len(ledger) + 1 /\ ledger' = Append(ledger, e)
    BY <1>1 DEF PostGrant
  <2> QED
    BY <2>1, AppendFacts
<1>2. CASE GrantsWith(e.key) # {}
  BY <1>2 DEF PostGrant, GrantsWith
<1> QED
  BY <1>1, <1>2

-------------------------------------------------------------------------------
\* Empty tables and idle handlers are well formed.
LEMMA TypeInit == Init => TypeOK
  BY NoJobType, NoVisitType, ConstantsAssumption DEF Init, TypeOK

\* Starting request_refill keeps the state well formed.
LEMMA TypeSubmit ==
    ASSUME TypeOK, NEW w \in Workers, NEW key \in Keys \union {None}, NEW amount \in Amounts,
           Submit(w, key, amount)
    PROVE  TypeOK'
<1>1. [NoJob EXCEPT !.key = key, !.amount = amount] \in Job
  BY Zenon DEF NoJob, Job
<1>2. [NoJob EXCEPT !.key = key, !.amount = amount].amount = amount
  BY DEF NoJob
<1> QED
  BY <1>1, <1>2 DEF TypeOK, Submit, reviewVars

\* The INSERT of the request row, its conflict and its refusal keep the state
\* well formed, and the id the handler carries names a row.
LEMMA TypeCreate ==
    ASSUME TypeOK, NEW w \in Workers, Create(w)
    PROVE  TypeOK'
<1>1. CASE job[w].amount \notin policy.allowed
  BY <1>1, NoJobType, Zenon DEF TypeOK, Create, WorkerDone, reviewVars
<1>2. CASE job[w].amount \in policy.allowed /\ RequestsWith(job[w].key) = {}
  <2> DEFINE row == [key |-> job[w].key, amount |-> job[w].amount, status |-> "created",
                     effect |-> "none", approved |-> 0, grant |-> 0, reviewed |-> FALSE]
             n == Len(requests) + 1
  <2>1. /\ requests' = Append(requests, row)
        /\ job' = [job EXCEPT ![w].id = n]
        /\ wpc' = [wpc EXCEPT ![w] = "load"]
        /\ Len(requests) < MaxRequests
        /\ UNCHANGED <<ledger, policy, reviewVars, abandoned, interrupted>>
    BY <1>2, Zenon DEF Create, CreateRow
  <2>2. row \in RequestRow
    BY <2>1, <1>2 DEF TypeOK, Create, RequestRow, Job, Statuses
  <2>3. /\ requests' \in Seq(RequestRow)
        /\ DOMAIN requests' = DOMAIN requests \union {n}
        /\ n \in Nat
        /\ Len(requests') = n
    BY <2>1, <2>2, AppendFacts DEF TypeOK
  <2>4. Len(requests') <= MaxRequests
    BY <2>1, <2>3, ConstantsAssumption DEF TypeOK
  <2> HIDE DEF n, row
  <2>5. /\ job' \in [Workers -> Job]
        /\ \A v \in Workers : job'[v].amount = job[v].amount /\ job'[v].effect = job[v].effect
        /\ \A v \in Workers : v # w => job'[v] = job[v]
        /\ job'[w].id = n
    <3>0. job[w] \in Job /\ n \in Nat
      BY <2>3 DEF TypeOK
    <3>1. [job[w] EXCEPT !.id = n] \in Job
      BY <3>0 DEF Job
    <3>2. job' = [job EXCEPT ![w] = [job[w] EXCEPT !.id = n]]
      BY <2>1
    <3> QED
      BY <3>1, <3>2 DEF TypeOK, Job
  <2> QED
    BY <1>2, <2>1, <2>3, <2>4, <2>5 DEF TypeOK, reviewVars, Create
<1>3. CASE job[w].amount \in policy.allowed /\ RequestsWith(job[w].key) # {}
  <2>1. PICK id \in RequestsWith(job[w].key) : job' = [job EXCEPT ![w].id = id]
    BY <1>3 DEF Create, CreateRow
  <2>2. id \in DOMAIN requests /\ id \in Nat
    BY DEF RequestsWith, TypeOK
  <2>3. /\ job' \in [Workers -> Job]
        /\ \A v \in Workers : job'[v].amount = job[v].amount /\ job'[v].effect = job[v].effect
        /\ \A v \in Workers : v # w => job'[v] = job[v]
        /\ job'[w].id = id
    <3>1. job \in [Workers -> Job] /\ job[w] \in Job
      BY DEF TypeOK
    <3>2. [job[w] EXCEPT !.id = id] \in Job
      BY <2>2, <3>1 DEF Job
    <3>3. job' = [job EXCEPT ![w] = [job[w] EXCEPT !.id = id]]
      BY <2>1
    <3> QED
      BY <3>1, <3>2, <3>3 DEF Job
  <2> QED
    BY <1>3, <2>2, <2>3, Zenon DEF TypeOK, Create, CreateRow, reviewVars
<1> QED
  BY <1>1, <1>2, <1>3

\* Reading the counter keeps the state well formed.
LEMMA TypeLoadFacts ==
    ASSUME TypeOK, SelfServiceCount \in Nat, NEW w \in Workers, LoadFacts(w)
    PROVE  TypeOK'
<1>2. /\ job' \in [Workers -> Job]
      /\ \A v \in Workers : /\ job'[v].amount = job[v].amount
                            /\ job'[v].effect = job[v].effect
                            /\ job'[v].id = job[v].id
  <2> DEFINE n == SelfServiceCount
  <2>1. job \in [Workers -> Job] /\ job[w] \in Job
    BY DEF TypeOK
  <2>2. job' = [job EXCEPT ![w] = [job[w] EXCEPT !.count = n]]
    BY DEF LoadFacts
  <2>3. n \in Nat
    OBVIOUS
  <2> HIDE DEF n
  <2>4. [job[w] EXCEPT !.count = n] \in Job
    BY <2>1, <2>3 DEF Job
  <2> QED
    BY <2>1, <2>2, <2>4 DEF Job
<1> QED
  BY <1>2 DEF TypeOK, LoadFacts, reviewVars

\* Whatever the engine answers is an effect with a natural amount.
LEMMA TypeEvaluate ==
    ASSUME TypeOK, NEW w \in Workers, Evaluate(w)
    PROVE  TypeOK'
<1>1. PICK effect \in {Decision(policy, job[w].count), "manual_review"} \union Aborted :
        /\ job' = [job EXCEPT ![w].effect = effect,
                              ![w].approved = ApprovedAmount(policy, effect, job[w].amount)]
        /\ wpc' = [wpc EXCEPT ![w] = IF effect \in Approving THEN "grant" ELSE "record"]
  BY Zenon DEF Evaluate
<1>2. policy \in Policy /\ policy \in Policies
  BY ConstantsAssumption DEF TypeOK
<1>3. effect \in Effects
  BY <1>2 DEF Decision, Policy, Effects, Aborted
<1>4. ApprovedAmount(policy, effect, job[w].amount) \in Nat
  BY <1>2, ApprovedAmountType, Zenon DEF TypeOK, Evaluate
<1>5. /\ job' \in [Workers -> Job]
      /\ \A v \in Workers : job'[v].amount = job[v].amount /\ job'[v].id = job[v].id
      /\ \A v \in Workers : v # w => job'[v] = job[v]
      /\ job'[w].effect = effect
  <2> DEFINE j == [job[w] EXCEPT !.effect = effect,
                                 !.approved = ApprovedAmount(policy, effect, job[w].amount)]
  <2>1. job[w] \in Job
    BY DEF TypeOK
  <2>2. j \in Job /\ j.effect = effect /\ j.amount = job[w].amount /\ j.id = job[w].id
    BY <1>3, <1>4, <2>1, Zenon DEF Job
  <2>3. job' = [job EXCEPT ![w] = j]
    BY <1>1, Zenon
  <2> HIDE DEF j
  <2> QED
    BY <2>2, <2>3 DEF TypeOK
<1> QED
  BY <1>1, <1>3, <1>5 DEF TypeOK, Evaluate, reviewVars

\* The self-service grant keeps the ledger well formed.
LEMMA TypeGrant ==
    ASSUME TypeOK, NEW w \in Workers, Grant(w)
    PROVE  TypeOK'
<1> DEFINE e == [key |-> job[w].key, source |-> "self_service",
                 amount |-> job[w].approved, payee |-> job[w].id]
<1>1. PICK g : PostGrant(e, g) /\ job' = [job EXCEPT ![w].grant = g]
  BY Zenon DEF Grant
<1>2. job[w].id \in Ids
  <2>1. job[w].id \in DOMAIN requests
    BY Zenon DEF TypeOK, Grant
  <2> QED
    BY <2>1, RequestIds
<1>3. e \in GrantRow
  BY <1>2 DEF TypeOK, GrantRow, Job
<1>4. ledger' \in Seq(GrantRow) /\ g \in Nat
  BY <1>1, <1>3, PostGrantType DEF TypeOK
<1>5. /\ job' \in [Workers -> Job]
      /\ \A v \in Workers : /\ job'[v].amount = job[v].amount
                            /\ job'[v].effect = job[v].effect
                            /\ job'[v].id = job[v].id
  <2>1. job \in [Workers -> Job] /\ job[w] \in Job
    BY DEF TypeOK
  <2>2. job' = [job EXCEPT ![w] = [job[w] EXCEPT !.grant = g]]
    BY <1>1
  <2>3. [job[w] EXCEPT !.grant = g] \in Job
    BY <1>4, <2>1, Zenon DEF Job
  <2> QED
    BY <2>1, <2>2, <2>3 DEF Job
<1> QED
  BY <1>4, <1>5 DEF TypeOK, Grant, reviewVars

\* record_decision writes a well-formed row.
LEMMA TypeRecordDecision ==
    ASSUME TypeOK, NEW w \in Workers, RecordDecision(w)
    PROVE  TypeOK'
<1> DEFINE id == job[w].id
           row == Decomposed(requests[id], job[w])
<1>1. id \in DOMAIN requests /\ job[w] \in Job /\ job[w].effect \in Effects
  BY DEF TypeOK, RecordDecision
<1>2. requests[id] \in RequestRow
  BY <1>1 DEF TypeOK
<1>3. StatusOf(job[w].effect) \in Statuses
  BY <1>1 DEF StatusOf, Statuses, Effects, Approving
<1>4. row \in RequestRow
  BY <1>1, <1>2, <1>3, Zenon DEF RequestRow, Job, Decomposed
<1>5. requests' = [requests EXCEPT ![id] = row]
  BY DEF RecordDecision
<1> HIDE DEF row, id
<1>6. requests' \in Seq(RequestRow) /\ Len(requests') = Len(requests)
      /\ DOMAIN requests' = DOMAIN requests
  BY <1>1, <1>4, <1>5 DEF TypeOK
<1> QED
  BY <1>6, NoJobType DEF TypeOK, RecordDecision, WorkerDone, reviewVars

\* A refill that fails half way leaves a well-formed state.
LEMMA TypeWorkerStops ==
    ASSUME TypeOK, NEW w \in Workers, WorkerStops(w)
    PROVE  TypeOK'
<1>1. job[w].id \in Nat
  BY DEF TypeOK, Job
<1> QED
  BY <1>1, NoJobType, Zenon DEF TypeOK, WorkerStops, WorkerDone, reviewVars

\* A review that ends frees its request's lock and forgets its locals.
LEMMA TypeReviewDone ==
    ASSUME TypeOK, NEW r \in Reviewers, ReviewDone(r), rpc[r] # "idle"
    PROVE  /\ rpc' \in [Reviewers -> {"idle", "read", "grant", "record"}]
           /\ visit' \in [Reviewers -> Visit]
           /\ reviewLock' \in [Ids -> Reviewers \union {None}]
           /\ \A q \in Reviewers : rpc'[q] # "idle" => rpc[q] # "idle" /\ visit'[q] = visit[q]
  BY NoVisitType, Zenon DEF TypeOK, ReviewDone

\* Starting approve or reject keeps the state well formed.
LEMMA TypeAcquireReviewLock ==
    ASSUME TypeOK, NEW r \in Reviewers, NEW id \in DOMAIN requests,
           NEW action \in {"approve", "reject"}, AcquireReviewLock(r, id, action)
    PROVE  TypeOK'
<1>1. id \in Nat
  BY DEF TypeOK
<1>2. /\ [NoVisit EXCEPT !.id = id, !.action = action] \in Visit
      /\ [NoVisit EXCEPT !.id = id, !.action = action].id = id
  BY <1>1, Zenon DEF NoVisit, Visit
<1> QED
  BY <1>2, Zenon DEF TypeOK, AcquireReviewLock, workerVars

\* The pre-check of a review keeps the state well formed.
LEMMA TypeReadRequest ==
    ASSUME TypeOK, NEW r \in Reviewers, ReadRequest(r)
    PROVE  TypeOK'
<1>0. rpc[r] = "read" /\ UNCHANGED <<requests, ledger, policy, workerVars, abandoned, interrupted>>
  BY DEF ReadRequest
<1>1. CASE requests[visit[r].id].status # "pending_review"
  <2>1. ReviewDone(r)
    BY <1>1 DEF ReadRequest
  <2> QED
    BY <1>0, <2>1, TypeReviewDone DEF TypeOK, workerVars
<1>2. CASE requests[visit[r].id].status = "pending_review"
  <2> DEFINE v == [visit[r] EXCEPT !.amount = requests[visit[r].id].amount]
  <2>1. requests[visit[r].id] \in RequestRow /\ visit[r] \in Visit
    BY <1>0 DEF TypeOK
  <2>2. v \in Visit /\ v.id = visit[r].id
    BY <2>1 DEF Visit, RequestRow
  <2>3. visit' = [visit EXCEPT ![r] = v] /\ reviewLock' = reviewLock
    BY <1>2 DEF ReadRequest
  <2>4. rpc' \in [Reviewers -> {"idle", "read", "grant", "record"}]
        /\ \A q \in Reviewers : rpc'[q] # "idle" => rpc[q] # "idle"
    BY <1>0, <1>2, Zenon DEF ReadRequest, TypeOK
  <2> HIDE DEF v
  <2> QED
    BY <1>0, <2>2, <2>3, <2>4, Zenon DEF TypeOK, workerVars
<1> QED
  BY <1>1, <1>2

\* An approval's grant keeps the ledger well formed.
LEMMA TypeReviewGrant ==
    ASSUME TypeOK, NEW r \in Reviewers, ReviewGrant(r)
    PROVE  TypeOK'
<1> DEFINE e == [key |-> ApprovalKey(visit[r].id), source |-> "manual_approval",
                 amount |-> visit[r].amount, payee |-> visit[r].id]
<1>1. PICK g : PostGrant(e, g) /\ visit' = [visit EXCEPT ![r].grant = g]
  BY Zenon DEF ReviewGrant
<1>2. visit[r] \in Visit /\ visit[r].id \in DOMAIN requests
  BY DEF TypeOK, ReviewGrant
<1>3. visit[r].id \in Ids /\ visit[r].amount \in Nat
  <2>1. visit[r].amount \in Amounts \union {0}
    BY <1>2 DEF Visit
  <2>2. visit[r].amount \in Nat
    BY <2>1, AmountsNat
  <2> QED
    BY <1>2, <2>2, RequestIds
<1>4. e \in GrantRow
  BY <1>3 DEF GrantRow
<1>5. ledger' \in Seq(GrantRow) /\ g \in Nat
  BY <1>1, <1>4, PostGrantType DEF TypeOK
<1>6. /\ visit' \in [Reviewers -> Visit]
      /\ \A q \in Reviewers : visit'[q].id = visit[q].id
  <2>1. visit \in [Reviewers -> Visit]
    BY DEF TypeOK
  <2>2. visit' = [visit EXCEPT ![r] = [visit[r] EXCEPT !.grant = g]]
    BY <1>1
  <2>3. [visit[r] EXCEPT !.grant = g] \in Visit
    BY <1>2, <1>5 DEF Visit
  <2> QED
    BY <1>2, <2>1, <2>2, <2>3 DEF Visit
<1> QED
  BY <1>5, <1>6 DEF TypeOK, ReviewGrant, workerVars

\* record_review writes a well-formed row.
LEMMA TypeRecordReview ==
    ASSUME TypeOK, NEW r \in Reviewers, RecordReview(r)
    PROVE  TypeOK'
<1> DEFINE id == visit[r].id
           row == [requests[id] EXCEPT
                     !.status = IF visit[r].action = "approve" THEN "approved" ELSE "denied",
                     !.grant = visit[r].grant, !.reviewed = TRUE]
<1>1. id \in DOMAIN requests /\ visit[r] \in Visit /\ requests[id] \in RequestRow
  BY DEF TypeOK, RecordReview
<1>2. row \in RequestRow
  BY <1>1, Zenon DEF RequestRow, Visit, Statuses
<1>3. requests' = [requests EXCEPT ![id] = row] \/ requests' = requests
  BY DEF RecordReview
<1> HIDE DEF row, id
<1>4. requests' \in Seq(RequestRow) /\ Len(requests') = Len(requests)
      /\ DOMAIN requests' = DOMAIN requests
  <2>1. requests \in Seq(RequestRow)
    BY DEF TypeOK
  <2>2. CASE requests' = [requests EXCEPT ![id] = row]
    BY <1>1, <1>2, <2>1, <2>2
  <2> QED
    BY <1>3, <2>1, <2>2
<1>5. ReviewDone(r) /\ rpc[r] # "idle"
      /\ UNCHANGED <<ledger, policy, workerVars, abandoned, interrupted>>
  BY DEF RecordReview
<1> QED
  BY <1>4, <1>5, TypeReviewDone, Zenon DEF TypeOK, workerVars

\* A review that fails half way leaves a well-formed state.
LEMMA TypeReviewStops ==
    ASSUME TypeOK, NEW r \in Reviewers, ReviewStops(r)
    PROVE  TypeOK'
<1>1. visit[r].id \in Nat
  BY DEF TypeOK, Visit
<1>2. ReviewDone(r) /\ rpc[r] # "idle" /\ UNCHANGED <<requests, ledger, policy, workerVars, abandoned>>
  BY DEF ReviewStops
<1>3. interrupted' \subseteq Nat
  BY <1>1, Zenon DEF ReviewStops, TypeOK
<1> QED
  BY <1>2, <1>3, TypeReviewDone, Zenon DEF TypeOK, workerVars

\* Every step keeps the state well formed, given that the counter is a number.
LEMMA TypeNext ==
    ASSUME TypeOK, SelfServiceCount \in Nat, [Next]_vars
    PROVE  TypeOK'
<1>1. ASSUME NEW w \in Workers, WorkerNext(w) PROVE TypeOK'
  BY <1>1, TypeSubmit, TypeCreate, TypeLoadFacts, TypeEvaluate, TypeGrant, TypeRecordDecision,
     TypeWorkerStops, Zenon DEF WorkerNext, WorkerStep
<1>2. ASSUME NEW r \in Reviewers, ReviewNext(r) PROVE TypeOK'
  BY <1>2, TypeAcquireReviewLock, TypeReadRequest, TypeReviewGrant, TypeRecordReview,
     TypeReviewStops, Zenon DEF ReviewNext, ReviewStep
<1>3. ASSUME NEW p \in Policies, LoadPolicy(p) PROVE TypeOK'
  BY <1>3 DEF TypeOK, LoadPolicy, reviewVars, workerVars
<1>4. CASE UNCHANGED vars
  BY <1>4 DEF TypeOK, vars, reviewVars, workerVars
<1> QED
  BY <1>1, <1>2, <1>3, <1>4 DEF Next

-------------------------------------------------------------------------------
\* What each step does to the tables and to the locals of its actor.

HasRow(w) == wpc[w] \notin {"idle", "create"}

OnlyWorker(w) ==
    /\ \A v \in Workers : v # w => wpc'[v] = wpc[v] /\ job'[v] = job[v]
    /\ UNCHANGED reviewVars /\ interrupted' = interrupted

OnlyReviewer(r) ==
    /\ \A q \in Reviewers : q # r => rpc'[q] = rpc[q] /\ visit'[q] = visit[q]
    /\ UNCHANGED workerVars

\* One row is written.
RowWritten(id) ==
    /\ DOMAIN requests' = DOMAIN requests
    /\ \A i \in DOMAIN requests : i # id => requests'[i] = requests[i]
    /\ \A f \in {"key", "amount"} : requests'[id][f] = requests[id][f]

\* AugmentationRepo::create finds the row of the key, or makes one.
RowFound(n, key) ==
    /\ requests' = requests /\ n \in DOMAIN requests
    /\ key # None /\ requests[n].key = key

RowMade(n, key) ==
    /\ RequestsWith(key) = {}
    /\ n \notin DOMAIN requests /\ DOMAIN requests' = DOMAIN requests \union {n}
    /\ \A i \in DOMAIN requests : requests'[i] = requests[i]
    /\ requests'[n].key = key /\ requests'[n].status = "created"
    /\ requests'[n].effect = "none" /\ requests'[n].grant = 0 /\ ~requests'[n].reviewed

\* BudgetRepo::grant adds the entry under a new position, or finds an entry
\* with its key.
LEMMA PostGrantShape ==
    ASSUME ledger \in Seq(GrantRow), NEW e \in GrantRow, NEW g, PostGrant(e, g)
    PROVE  /\ \A h \in DOMAIN ledger : h \in DOMAIN ledger' /\ ledger'[h] = ledger[h]
           /\ \/ /\ GrantsWith(e.key) = {} /\ g \notin DOMAIN ledger
                 /\ DOMAIN ledger' = DOMAIN ledger \union {g} /\ ledger'[g] = e
              \/ g \in GrantsWith(e.key) /\ ledger' = ledger
<1>1. CASE GrantsWith(e.key) = {}
  <2>1. g = Len(ledger) + 1 /\ ledger' = Append(ledger, e)
    BY <1>1 DEF PostGrant
  <2> QED
    BY <1>1, <2>1, AppendFacts
<1>2. CASE GrantsWith(e.key) # {}
  BY <1>2 DEF PostGrant
<1> QED
  BY <1>1, <1>2

\* The handler moves on, and every other actor stays where it is.
LEMMA WorkerShape ==
    ASSUME TypeOK, NEW w \in Workers, WorkerNext(w)
    PROVE  OnlyWorker(w)
<1>1. \E at, j : wpc' = [wpc EXCEPT ![w] = at] /\ job' = [job EXCEPT ![w] = j]
  BY ZenonT(40) DEF WorkerNext, WorkerStep, Submit, Create, LoadFacts, Evaluate, Grant, RecordDecision,
         WorkerStops, WorkerDone
<1>2. UNCHANGED reviewVars /\ interrupted' = interrupted
  BY Zenon DEF WorkerNext, WorkerStep, Submit, Create, LoadFacts, Evaluate, Grant, RecordDecision,
         WorkerStops
<1> QED
  BY <1>1, <1>2, Zenon DEF OnlyWorker, TypeOK

LEMMA ReviewerShape ==
    ASSUME TypeOK, NEW r \in Reviewers, ReviewNext(r)
    PROVE  OnlyReviewer(r)
<1>1. \E at, v : rpc' = [rpc EXCEPT ![r] = at] /\ visit' = [visit EXCEPT ![r] = v]
  BY ZenonT(40) DEF ReviewNext, ReviewStep, AcquireReviewLock, ReadRequest, ReviewGrant, RecordReview,
         ReviewStops, ReviewDone
<1>2. UNCHANGED workerVars
  BY Zenon DEF ReviewNext, ReviewStep, AcquireReviewLock, ReadRequest, ReviewGrant, RecordReview,
         ReviewStops
<1> QED
  BY <1>1, <1>2, Zenon DEF OnlyReviewer, TypeOK

\* AugmentationRepo::create: the amount is refused, or the key has a row
\* already, or a new row is made.
LEMMA CreateShape ==
    ASSUME TypeOK, NEW w \in Workers, Create(w), NEW key, key = job[w].key
    PROVE  /\ ledger' = ledger
           /\ \/ wpc'[w] = "idle" /\ job'[w] = NoJob /\ requests' = requests
              \/ \E n : /\ wpc'[w] = "load" /\ job'[w].id = n /\ job'[w].key = key
                        /\ RowFound(n, key) \/ RowMade(n, key)
<1>1. ledger' = ledger /\ wpc[w] = "create" /\ job \in [Workers -> Job] /\ job[w] \in Job
  BY DEF Create, TypeOK
<1>2. CASE job[w].amount \notin policy.allowed
  <2>1. wpc'[w] = "idle" /\ job'[w] = NoJob /\ requests' = requests
    BY <1>2 DEF Create, WorkerDone, TypeOK
  <2> QED
    BY <1>1, <2>1
<1>3. CASE job[w].amount \in policy.allowed
  <2>1. PICK n : /\ CreateRow(key, job[w].amount, n)
                 /\ job' = [job EXCEPT ![w].id = n] /\ wpc' = [wpc EXCEPT ![w] = "load"]
    BY <1>3 DEF Create
  <2>2. job'[w].id = n /\ job'[w].key = key /\ wpc'[w] = "load"
    BY <1>1, <2>1 DEF Job, TypeOK
  <2>3. CASE RequestsWith(key) # {}
    <3>1. n \in RequestsWith(key) /\ requests' = requests
      BY <2>1, <2>3 DEF CreateRow
    <3>2. n \in DOMAIN requests /\ key # None /\ requests[n].key = key
      BY <3>1, Zenon DEF RequestsWith
    <3> QED
      BY <1>1, <2>2, <3>1, <3>2 DEF RowFound
  <2>4. CASE RequestsWith(key) = {}
    <3> DEFINE row == [key |-> key, amount |-> job[w].amount, status |-> "created",
                       effect |-> "none", approved |-> 0, grant |-> 0, reviewed |-> FALSE]
    <3>1. n = Len(requests) + 1 /\ requests' = Append(requests, row)
      BY <2>1, <2>4, Zenon DEF CreateRow
    <3>2. row \in RequestRow /\ requests \in Seq(RequestRow)
      BY <1>1, <1>3, Zenon DEF TypeOK, RequestRow, Job, Statuses
    <3> HIDE DEF row
    <3>3. /\ n \notin DOMAIN requests /\ DOMAIN requests' = DOMAIN requests \union {n}
          /\ \A i \in DOMAIN requests : requests'[i] = requests[i]
          /\ requests'[n] = row
      BY <3>1, <3>2, AppendFacts
    <3> USE DEF row
    <3> QED
      BY <1>1, <2>2, <2>4, <3>3 DEF RowMade
  <2> QED
    BY <2>3, <2>4
<1> QED
  BY <1>2, <1>3

\* Reading the facts and deciding leave the handler its row and its key; a
\* decision to approve goes on to the grant.
LEMMA DecideShape ==
    ASSUME TypeOK, NEW w \in Workers, LoadFacts(w) \/ Evaluate(w)
    PROVE  /\ HasRow(w) /\ HasRow(w)' /\ job'[w].id = job[w].id /\ job'[w].key = job[w].key
           /\ wpc[w] # "record"
           /\ wpc'[w] = "record" => job'[w].effect \notin Approving
           /\ wpc'[w] = "grant" => job'[w].effect \in Approving
<1>1. job \in [Workers -> Job] /\ job[w] \in Job
  BY DEF TypeOK
<1>2. CASE LoadFacts(w)
  <2>1. job'[w].id = job[w].id /\ job'[w].key = job[w].key
    BY <1>1, <1>2, Zenon DEF LoadFacts, Job
  <2> QED
    BY <1>2, <2>1 DEF LoadFacts, HasRow, TypeOK
<1>3. CASE Evaluate(w)
  <2>1. PICK effect :
          /\ job' = [job EXCEPT ![w].effect = effect,
                                ![w].approved = ApprovedAmount(policy, effect, job[w].amount)]
          /\ wpc' = [wpc EXCEPT ![w] = IF effect \in Approving THEN "grant" ELSE "record"]
    BY <1>3, Zenon DEF Evaluate
  <2> DEFINE j == [job[w] EXCEPT !.effect = effect,
                                 !.approved = ApprovedAmount(policy, effect, job[w].amount)]
  <2>2. j.effect = effect /\ j.id = job[w].id /\ j.key = job[w].key
    BY <1>1 DEF Job
  <2>3. job' = [job EXCEPT ![w] = j]
    BY <2>1, Zenon
  <2> HIDE DEF j
  <2>4. job'[w] = j
    BY <1>1, <2>3
  <2> QED
    BY <1>3, <2>1, <2>2, <2>4, Zenon DEF Evaluate, HasRow, TypeOK
<1> QED
  BY <1>2, <1>3

\* The handler's grant is under its key and for its row.
LEMMA GrantShape ==
    ASSUME TypeOK, NEW w \in Workers, Grant(w)
    PROVE  \E g, e : /\ e \in GrantRow /\ PostGrant(e, g)
                     /\ e.key = job[w].key /\ e.source = "self_service" /\ e.payee = job[w].id
                     /\ wpc[w] = "grant" /\ wpc'[w] = "record"
                     /\ job'[w].id = job[w].id /\ job'[w].key = job[w].key
                     /\ job'[w].effect = job[w].effect /\ job'[w].grant = g
                     /\ requests' = requests
<1> DEFINE e == [key |-> job[w].key, source |-> "self_service",
                 amount |-> job[w].approved, payee |-> job[w].id]
<1>1. PICK g : PostGrant(e, g) /\ job' = [job EXCEPT ![w].grant = g]
  BY Zenon DEF Grant
<1>2. /\ wpc[w] = "grant" /\ wpc'[w] = "record" /\ requests' = requests
      /\ job \in [Workers -> Job] /\ job[w] \in Job /\ job[w].id \in DOMAIN requests
  BY DEF Grant, TypeOK
<1>3. /\ job'[w].id = job[w].id /\ job'[w].key = job[w].key
      /\ job'[w].effect = job[w].effect /\ job'[w].grant = g
  BY <1>1, <1>2 DEF Job
<1>4. e \in GrantRow /\ e.key = job[w].key /\ e.source = "self_service" /\ e.payee = job[w].id
  BY <1>2, RequestIds DEF GrantRow, Job
<1> HIDE DEF e
<1> QED
  BY <1>1, <1>2, <1>3, <1>4

\* record_decision writes the columns of the handler's row, and the call is over.
LEMMA RecordDecisionShape ==
    ASSUME TypeOK, NEW w \in Workers, RecordDecision(w)
    PROVE  /\ wpc[w] = "record" /\ wpc'[w] = "idle" /\ job'[w] = NoJob
           /\ ledger' = ledger /\ RowWritten(job[w].id)
           /\ requests'[job[w].id].status = StatusOf(job[w].effect)
           /\ requests'[job[w].id].effect = job[w].effect
           /\ requests'[job[w].id].reviewed = requests[job[w].id].reviewed
           /\ requests'[job[w].id].grant = IF job[w].effect \in Approving THEN job[w].grant ELSE 0
<1> DEFINE row == Decomposed(requests[job[w].id], job[w])
<1>1. /\ wpc[w] = "record" /\ wpc'[w] = "idle" /\ job'[w] = NoJob /\ ledger' = ledger
      /\ job[w].id \in DOMAIN requests /\ requests' = [requests EXCEPT ![job[w].id] = row]
      /\ requests[job[w].id] \in RequestRow
  BY SMTT(20) DEF RecordDecision, WorkerDone, TypeOK
<1>2. /\ row.key = requests[job[w].id].key /\ row.amount = requests[job[w].id].amount
      /\ row.reviewed = requests[job[w].id].reviewed
      /\ row.status = StatusOf(job[w].effect) /\ row.effect = job[w].effect
      /\ row.grant = IF job[w].effect \in Approving THEN job[w].grant ELSE 0
  BY <1>1 DEF Decomposed, RequestRow
<1> HIDE DEF row
<1> QED
  BY <1>1, <1>2, Zenon DEF RowWritten

\* The review reads its row: it is over, or holds a pending row.
LEMMA ReadRequestShape ==
    ASSUME TypeOK, NEW r \in Reviewers, ReadRequest(r)
    PROVE  /\ rpc[r] = "read" /\ requests' = requests /\ ledger' = ledger
           /\ \/ rpc'[r] = "idle"
              \/ /\ requests[visit[r].id].status = "pending_review" /\ reviewLock' = reviewLock
                 /\ rpc'[r] = IF visit[r].action = "approve" THEN "grant" ELSE "record"
                 /\ visit'[r].id = visit[r].id /\ visit'[r].action = visit[r].action
                 /\ visit'[r].grant = visit[r].grant
                 /\ visit'[r].amount = requests[visit[r].id].amount
<1>1. rpc[r] = "read" /\ requests' = requests /\ ledger' = ledger
  BY DEF ReadRequest
<1>2. CASE requests[visit[r].id].status # "pending_review"
  BY <1>1, <1>2 DEF ReadRequest, ReviewDone, TypeOK
<1>3. CASE requests[visit[r].id].status = "pending_review"
  <2>1. /\ rpc' = [rpc EXCEPT ![r] = IF visit[r].action = "approve" THEN "grant" ELSE "record"]
        /\ visit' = [visit EXCEPT ![r].amount = requests[visit[r].id].amount]
        /\ reviewLock' = reviewLock
        /\ visit \in [Reviewers -> Visit]
        /\ rpc'[r] = IF visit[r].action = "approve" THEN "grant" ELSE "record"
    BY <1>3 DEF ReadRequest, TypeOK
  <2>2. /\ visit'[r].id = visit[r].id /\ visit'[r].action = visit[r].action
        /\ visit'[r].grant = visit[r].grant
        /\ visit'[r].amount = requests[visit[r].id].amount
    BY <2>1 DEF Visit
  <2> QED
    BY <1>1, <1>3, <2>1, <2>2
<1> QED
  BY <1>2, <1>3

\* The approval's grant is under the key of its row.
LEMMA ReviewGrantShape ==
    ASSUME TypeOK, NEW r \in Reviewers, ReviewGrant(r)
    PROVE  \E g, e : /\ e \in GrantRow /\ PostGrant(e, g)
                     /\ e.key = ApprovalKey(visit[r].id) /\ e.source = "manual_approval"
                     /\ e.amount = visit[r].amount /\ e.payee = visit[r].id
                     /\ rpc[r] = "grant" /\ rpc'[r] = "record"
                     /\ visit'[r].id = visit[r].id /\ visit'[r].action = visit[r].action
                     /\ visit'[r].grant = g
                     /\ requests' = requests /\ reviewLock' = reviewLock
<1> DEFINE e == [key |-> ApprovalKey(visit[r].id), source |-> "manual_approval",
                 amount |-> visit[r].amount, payee |-> visit[r].id]
<1>1. PICK g : PostGrant(e, g) /\ visit' = [visit EXCEPT ![r].grant = g]
  BY Zenon DEF ReviewGrant
<1>2. /\ rpc[r] = "grant" /\ rpc'[r] = "record" /\ requests' = requests /\ reviewLock' = reviewLock
      /\ visit \in [Reviewers -> Visit] /\ visit[r] \in Visit /\ visit[r].id \in Ids
  BY RequestIds DEF ReviewGrant, TypeOK
<1>3. /\ visit'[r].id = visit[r].id /\ visit'[r].action = visit[r].action /\ visit'[r].grant = g
  BY <1>1, <1>2 DEF Visit
<1>4. /\ e \in GrantRow /\ e.key = ApprovalKey(visit[r].id) /\ e.source = "manual_approval"
      /\ e.amount = visit[r].amount /\ e.payee = visit[r].id
  BY <1>2, AmountsNat, Zenon DEF GrantRow, Visit
<1> HIDE DEF e
<1> QED
  BY <1>1, <1>2, <1>3, <1>4

\* record_review writes the verdict on a pending row, or nothing.
LEMMA RecordReviewShape ==
    ASSUME TypeOK, NEW r \in Reviewers, RecordReview(r)
    PROVE  /\ rpc[r] = "record" /\ rpc'[r] = "idle" /\ ledger' = ledger
           /\ \/ /\ requests[visit[r].id].status = "pending_review" /\ RowWritten(visit[r].id)
                 /\ requests'[visit[r].id].status =
                      IF visit[r].action = "approve" THEN "approved" ELSE "denied"
                 /\ requests'[visit[r].id].effect = requests[visit[r].id].effect
                 /\ requests'[visit[r].id].grant = visit[r].grant
                 /\ requests'[visit[r].id].reviewed = TRUE
              \/ requests[visit[r].id].status # "pending_review" /\ requests' = requests
<1> DEFINE row == [requests[visit[r].id] EXCEPT
                     !.status = IF visit[r].action = "approve" THEN "approved" ELSE "denied",
                     !.grant = visit[r].grant, !.reviewed = TRUE]
<1>1. /\ rpc[r] = "record" /\ rpc'[r] = "idle" /\ ledger' = ledger
      /\ visit[r].id \in DOMAIN requests /\ requests[visit[r].id] \in RequestRow
  BY DEF RecordReview, ReviewDone, TypeOK
<1>2. CASE requests[visit[r].id].status # "pending_review"
  BY <1>1, <1>2 DEF RecordReview
<1>3. CASE requests[visit[r].id].status = "pending_review"
  <2>1. requests' = [requests EXCEPT ![visit[r].id] = row]
    BY <1>3 DEF RecordReview
  <2>2. /\ row.key = requests[visit[r].id].key /\ row.amount = requests[visit[r].id].amount
        /\ row.effect = requests[visit[r].id].effect
        /\ row.status = IF visit[r].action = "approve" THEN "approved" ELSE "denied"
        /\ row.grant = visit[r].grant /\ row.reviewed = TRUE
    BY <1>1 DEF RequestRow
  <2> HIDE DEF row
  <2> QED
    BY <1>1, <1>3, <2>1, <2>2 DEF RowWritten
<1> QED
  BY <1>2, <1>3, Zenon

-------------------------------------------------------------------------------
KeysUnique ==
    \A i, j \in DOMAIN requests :
        requests[i].key = requests[j].key /\ requests[i].key # None => i = j

\* A grant is for a row that exists; under a client's key, for the row of that
\* key; under an approval's key, the approval of that row.
EntrySound(g) ==
    /\ ledger[g].payee \in DOMAIN requests
    /\ ledger[g].key \in Keys =>
         /\ ledger[g].source = "self_service"
         /\ requests[ledger[g].payee].key = ledger[g].key
    /\ \A id \in Ids : ledger[g].key = ApprovalKey(id) => ApprovalGrant(g, id)

\* A handler works on the row of its key, and records a grant made for it.
JobBacked(w) ==
    HasRow(w) =>
        /\ requests[job[w].id].key = job[w].key
        /\ wpc[w] = "record" /\ job[w].effect \in Approving =>
             SelfServiceGrant(job[w].grant, job[w].id)

\* A review records an approval made for its row, or none.
VisitBacked(r) ==
    /\ rpc[r] = "read" => visit[r].grant = 0
    /\ rpc[r] = "grant" =>
         /\ visit[r].action = "approve" /\ visit[r].grant = 0
         /\ visit[r].amount = requests[visit[r].id].amount
    /\ rpc[r] = "record" /\ visit[r].action = "approve" => ApprovalGrant(visit[r].grant, visit[r].id)
    /\ rpc[r] = "record" /\ visit[r].action # "approve" => visit[r].grant = 0

BackedInv ==
    /\ KeysUnique
    /\ \A g \in DOMAIN ledger : EntrySound(g)
    /\ \A w \in Workers : JobBacked(w)
    /\ \A r \in Reviewers : VisitBacked(r)
    /\ GrantedRowsAreBacked

-------------------------------------------------------------------------------
\* Rows keep their key and amount, grants are never changed: both tables grow.
Grows ==
    /\ \A id \in DOMAIN requests : /\ id \in DOMAIN requests'
                                   /\ requests'[id].key = requests[id].key
                                   /\ requests'[id].amount = requests[id].amount
    /\ \A g \in DOMAIN ledger : g \in DOMAIN ledger' /\ ledger'[g] = ledger[g]

\* A grant for a row stays one.
LEMMA GrantKept ==
    ASSUME Grows, NEW g, NEW id \in DOMAIN requests
    PROVE  /\ SelfServiceGrant(g, id) => SelfServiceGrant(g, id)'
           /\ ApprovalGrant(g, id) => ApprovalGrant(g, id)'
  BY DEF Grows, SelfServiceGrant, ApprovalGrant, Paid

\* An entry of the ledger stays sound.
LEMMA EntryKept ==
    ASSUME Grows, NEW g \in DOMAIN ledger, EntrySound(g)
    PROVE  EntrySound(g)'
<1>1. /\ ledger'[g] = ledger[g] /\ ledger[g].payee \in DOMAIN requests
      /\ ledger[g].payee \in DOMAIN requests'
      /\ requests'[ledger[g].payee].key = requests[ledger[g].payee].key
  BY DEF Grows, EntrySound
<1>2. ASSUME NEW id \in Ids, ledger[g].key = ApprovalKey(id)
      PROVE  ApprovalGrant(g, id)'
  <2>1. ApprovalGrant(g, id) /\ id \in DOMAIN requests
    BY <1>1, <1>2 DEF EntrySound, ApprovalGrant, Paid
  <2> QED
    BY <2>1, GrantKept
<1> QED
  BY <1>1, <1>2 DEF EntrySound

\* So do the memory of a handler and of a review that a step leaves alone, ...
LEMMA JobKept ==
    ASSUME TypeOK, Grows, NEW w \in Workers, JobBacked(w), wpc'[w] = wpc[w], job'[w] = job[w]
    PROVE  JobBacked(w)'
<1>1. HasRow(w) => job[w].id \in DOMAIN requests
  BY DEF TypeOK, HasRow
<1>2. HasRow(w)' <=> HasRow(w)
  BY DEF HasRow
<1>3. HasRow(w) => requests'[job[w].id].key = requests[job[w].id].key
  BY <1>1 DEF Grows
<1>4. HasRow(w) /\ SelfServiceGrant(job[w].grant, job[w].id) =>
        SelfServiceGrant(job[w].grant, job[w].id)'
  BY <1>1, GrantKept
<1> QED
  BY <1>2, <1>3, <1>4 DEF JobBacked

LEMMA VisitKept ==
    ASSUME TypeOK, Grows, NEW r \in Reviewers, VisitBacked(r),
           rpc'[r] = rpc[r], visit'[r] = visit[r]
    PROVE  VisitBacked(r)'
<1>1. rpc[r] # "idle" => visit[r].id \in DOMAIN requests
  BY DEF TypeOK
<1>2. rpc[r] # "idle" => requests'[visit[r].id].amount = requests[visit[r].id].amount
  BY <1>1 DEF Grows
<1>3. rpc[r] # "idle" /\ ApprovalGrant(visit[r].grant, visit[r].id) =>
        ApprovalGrant(visit[r].grant, visit[r].id)'
  BY <1>1, GrantKept
<1> QED
  BY <1>2, <1>3 DEF VisitBacked

\* ... and a row that it leaves alone.
LEMMA RowKept ==
    ASSUME Grows, NEW id \in DOMAIN requests, RowBacked(id), requests'[id] = requests[id]
    PROVE  RowBacked(id)'
<1>1. /\ SelfServiceGrant(requests[id].grant, id) => SelfServiceGrant(requests[id].grant, id)'
      /\ ApprovalGrant(requests[id].grant, id) => ApprovalGrant(requests[id].grant, id)'
  BY GrantKept
<1> QED
  BY <1>1 DEF RowBacked

-------------------------------------------------------------------------------
\* A step of a handler disturbs only its own memory, one of a review only its own.
LEMMA WorkerFrame ==
    ASSUME TypeOK, BackedInv, Grows, NEW w \in Workers, OnlyWorker(w), JobBacked(w)'
    PROVE  (\A v \in Workers : JobBacked(v)') /\ (\A r \in Reviewers : VisitBacked(r)')
<1>1. ASSUME NEW v \in Workers, v # w PROVE JobBacked(v)'
  BY <1>1, JobKept DEF OnlyWorker, BackedInv
<1>2. ASSUME NEW r \in Reviewers PROVE VisitBacked(r)'
  <2>1. rpc'[r] = rpc[r] /\ visit'[r] = visit[r]
    BY DEF OnlyWorker, reviewVars
  <2> QED
    BY <2>1, VisitKept DEF BackedInv
<1> QED
  BY <1>1, <1>2

LEMMA ReviewFrame ==
    ASSUME TypeOK, BackedInv, Grows, NEW r \in Reviewers, OnlyReviewer(r), VisitBacked(r)'
    PROVE  (\A w \in Workers : JobBacked(w)') /\ (\A q \in Reviewers : VisitBacked(q)')
<1>1. ASSUME NEW q \in Reviewers, q # r PROVE VisitBacked(q)'
  BY <1>1, VisitKept DEF OnlyReviewer, BackedInv
<1>2. ASSUME NEW w \in Workers PROVE JobBacked(w)'
  <2>1. wpc'[w] = wpc[w] /\ job'[w] = job[w]
    BY DEF OnlyReviewer, workerVars
  <2> QED
    BY <2>1, JobKept DEF BackedInv
<1> QED
  BY <1>1, <1>2

\* Steps that write no table keep what the tables say.
LEMMA TablesKept ==
    ASSUME BackedInv, requests' = requests, ledger' = ledger
    PROVE  /\ Grows /\ KeysUnique' /\ GrantedRowsAreBacked'
           /\ \A g \in DOMAIN ledger' : EntrySound(g)'
<1>1. Grows
  BY DEF Grows
<1>2. KeysUnique'
  BY DEF BackedInv, KeysUnique
<1>3. GrantedRowsAreBacked'
  BY <1>1, RowKept DEF BackedInv, GrantedRowsAreBacked
<1>4. \A g \in DOMAIN ledger' : EntrySound(g)'
  BY <1>1, EntryKept DEF BackedInv
<1> QED
  BY <1>1, <1>2, <1>3, <1>4

\* A grant found or made under a client's key, or made without one, for the
\* row of that key.
LEMMA PostBacked ==
    ASSUME TypeOK, BackedInv, NEW e \in GrantRow, NEW g, PostGrant(e, g), requests' = requests,
           e.payee \in DOMAIN requests,
           \/ e.key \in Keys \union {None} /\ e.source = "self_service" /\ requests[e.payee].key = e.key
           \/ /\ e.key = ApprovalKey(e.payee) /\ e.source = "manual_approval"
              /\ e.amount = requests[e.payee].amount
    PROVE  /\ Grows /\ KeysUnique' /\ GrantedRowsAreBacked'
           /\ \A h \in DOMAIN ledger' : EntrySound(h)'
           /\ e.source = "self_service" => SelfServiceGrant(g, e.payee)'
           /\ e.source = "manual_approval" => ApprovalGrant(g, e.payee)'
<1>1. ledger \in Seq(GrantRow) /\ DOMAIN requests \subseteq Ids
  BY RequestIds DEF TypeOK
<1>2. \A h \in DOMAIN ledger : h \in DOMAIN ledger' /\ ledger'[h] = ledger[h]
  BY <1>1, PostGrantShape, Zenon
<1>3. Grows
  BY <1>2 DEF Grows
<1>4. KeysUnique'
  BY DEF BackedInv, KeysUnique
<1>5. GrantedRowsAreBacked'
  BY <1>3, RowKept DEF BackedInv, GrantedRowsAreBacked
<1>6. \A h \in DOMAIN ledger : EntrySound(h)'
  BY <1>3, EntryKept DEF BackedInv
<1>7. CASE /\ GrantsWith(e.key) = {} /\ g \notin DOMAIN ledger
           /\ DOMAIN ledger' = DOMAIN ledger \union {g} /\ ledger'[g] = e
  <2>1. /\ e.source = "self_service" => SelfServiceGrant(g, e.payee)'
        /\ e.source = "manual_approval" => ApprovalGrant(g, e.payee)'
    BY <1>7 DEF SelfServiceGrant, ApprovalGrant, Paid
  <2>2. ASSUME NEW id \in Ids, e.key = ApprovalKey(id) PROVE ApprovalGrant(g, id)'
    <3>1. e.key \notin Keys \union {None} /\ e.key = ApprovalKey(e.payee) /\ e.payee \in Ids
      BY <1>1, <2>2, KeysAssumption
    <3>2. e.payee = id
      BY <2>2, <3>1 DEF ApprovalKey
    <3> QED
      BY <2>1, <3>1, <3>2
  <2>3. e.key \in Keys => e.source = "self_service" /\ requests[e.payee].key = e.key
    BY <1>1, KeysAssumption
  <2>4. EntrySound(g)'
    BY <1>7, <2>2, <2>3 DEF EntrySound
  <2> QED
    BY <1>3, <1>4, <1>5, <1>6, <1>7, <2>1, <2>4
<1>8. CASE g \in GrantsWith(e.key) /\ ledger' = ledger
  <2>1. g \in DOMAIN ledger /\ e.key # None /\ ledger[g].key = e.key /\ EntrySound(g)
    BY <1>8 DEF GrantsWith, BackedInv
  <2>2. CASE e.key \in Keys \union {None} /\ e.source = "self_service" /\ requests[e.payee].key = e.key
    <3>1. /\ ledger[g].source = "self_service" /\ ledger[g].payee \in DOMAIN requests
          /\ requests[ledger[g].payee].key = requests[e.payee].key /\ requests[e.payee].key # None
      BY <2>1, <2>2 DEF EntrySound
    <3>2. ledger[g].payee = e.payee
      BY <3>1 DEF BackedInv, KeysUnique
    <3>3. SelfServiceGrant(g, e.payee)'
      BY <1>8, <2>1, <3>1, <3>2 DEF SelfServiceGrant, Paid
    <3> QED
      BY <1>3, <1>4, <1>5, <1>6, <1>8, <2>2, <3>3
  <2>3. CASE e.key = ApprovalKey(e.payee) /\ e.source = "manual_approval"
    <3>1. ApprovalGrant(g, e.payee)
      BY <1>1, <2>1, <2>3 DEF EntrySound
    <3>2. ApprovalGrant(g, e.payee)'
      BY <1>3, <3>1, GrantKept
    <3> QED
      BY <1>3, <1>4, <1>5, <1>6, <1>8, <2>3, <3>2
  <2> QED
    BY <2>2, <2>3
<1> QED
  BY <1>1, <1>7, <1>8, PostGrantShape, Zenon

\* A written row: the others keep what they say.
LEMMA WriteBacked ==
    ASSUME BackedInv, NEW id \in DOMAIN requests, RowWritten(id), ledger' = ledger,
           Grows => RowBacked(id)'
    PROVE  /\ Grows /\ KeysUnique' /\ GrantedRowsAreBacked'
           /\ \A g \in DOMAIN ledger' : EntrySound(g)'
<1>1. Grows
  BY DEF Grows, RowWritten
<1>2. KeysUnique'
  <2>1. DOMAIN requests' = DOMAIN requests /\ \A i \in DOMAIN requests : requests'[i].key = requests[i].key
    BY <1>1 DEF RowWritten, Grows
  <2> QED
    BY <2>1 DEF BackedInv, KeysUnique
<1>3. ASSUME NEW i \in DOMAIN requests PROVE RowBacked(i)'
  <2>1. CASE i = id
    BY <1>1, <2>1
  <2>2. CASE i # id
    <3>1. requests'[i] = requests[i] /\ RowBacked(i)
      BY <2>2 DEF RowWritten, BackedInv, GrantedRowsAreBacked
    <3> QED
      BY <1>1, <3>1, RowKept
  <2> QED
    BY <2>1, <2>2
<1>4. GrantedRowsAreBacked'
  BY <1>3 DEF GrantedRowsAreBacked, RowWritten
<1>5. \A g \in DOMAIN ledger' : EntrySound(g)'
  BY <1>1, EntryKept DEF BackedInv
<1> QED
  BY <1>1, <1>2, <1>4, <1>5

-------------------------------------------------------------------------------
LEMMA BackedCreate ==
    ASSUME TypeOK, BackedInv, NEW w \in Workers, Create(w), OnlyWorker(w)
    PROVE  BackedInv'
<1> PICK key : key = job[w].key
  OBVIOUS
<1>1. ledger' = ledger
  BY CreateShape
<1>2. CASE wpc'[w] = "idle" /\ requests' = requests
  <2>1. JobBacked(w)'
    BY <1>2 DEF JobBacked, HasRow
  <2> QED
    BY <1>1, <1>2, <2>1, TablesKept, WorkerFrame DEF BackedInv
<1>3. ASSUME NEW n, wpc'[w] = "load", job'[w].id = n, job'[w].key = key,
             RowFound(n, key)
      PROVE  BackedInv'
  <2>1. JobBacked(w)'
    BY <1>3 DEF JobBacked, HasRow, RowFound
  <2>2. requests' = requests
    BY <1>3 DEF RowFound
  <2> QED
    BY <1>1, <2>1, <2>2, TablesKept, WorkerFrame DEF BackedInv
<1>4. ASSUME NEW n, wpc'[w] = "load", job'[w].id = n, job'[w].key = key,
             RowMade(n, key)
      PROVE  BackedInv'
  <2>1. Grows
    BY <1>1, <1>4 DEF Grows, RowMade
  <2>2. JobBacked(w)'
    BY <1>4 DEF JobBacked, HasRow, RowMade
  <2>3. \A i \in DOMAIN requests : requests[i].key = key => key = None
    BY <1>4 DEF RequestsWith, RowMade
  <2>4. KeysUnique'
    BY <1>4, <2>3 DEF BackedInv, KeysUnique, RowMade
  <2>5. RowBacked(n)'
    BY <1>4 DEF RowBacked, RowMade
  <2>6. \A i \in DOMAIN requests : RowBacked(i)'
    BY <1>4, <2>1, RowKept DEF BackedInv, GrantedRowsAreBacked, RowMade
  <2>7. GrantedRowsAreBacked'
    BY <1>4, <2>5, <2>6 DEF GrantedRowsAreBacked, RowMade
  <2>8. \A g \in DOMAIN ledger' : EntrySound(g)'
    BY <1>1, <2>1, EntryKept DEF BackedInv
  <2> QED
    BY <2>1, <2>2, <2>4, <2>7, <2>8, WorkerFrame DEF BackedInv
<1>5. CASE ~(wpc'[w] = "idle" /\ requests' = requests)
  <2>1. PICK n : /\ wpc'[w] = "load" /\ job'[w].id = n /\ job'[w].key = key
                 /\ RowFound(n, key) \/ RowMade(n, key)
    BY <1>5, CreateShape
  <2> QED
    BY <1>3, <1>4, <2>1
<1> QED
  BY <1>2, <1>5

LEMMA BackedGrant ==
    ASSUME TypeOK, BackedInv, NEW w \in Workers, Grant(w), OnlyWorker(w)
    PROVE  BackedInv'
<1>1. PICK g, e : /\ e \in GrantRow /\ PostGrant(e, g)
                  /\ e.key = job[w].key /\ e.source = "self_service" /\ e.payee = job[w].id
                  /\ wpc[w] = "grant" /\ wpc'[w] = "record"
                  /\ job'[w].id = job[w].id /\ job'[w].key = job[w].key
                  /\ job'[w].effect = job[w].effect /\ job'[w].grant = g
                  /\ requests' = requests
  BY GrantShape
<1>2. /\ e.payee \in DOMAIN requests /\ requests[e.payee].key = e.key
      /\ e.key \in Keys \union {None}
  BY <1>1, Zenon DEF TypeOK, Job, BackedInv, JobBacked, HasRow
<1>3. /\ Grows /\ KeysUnique' /\ GrantedRowsAreBacked'
      /\ \A h \in DOMAIN ledger' : EntrySound(h)'
      /\ SelfServiceGrant(g, e.payee)'
  BY <1>1, <1>2, PostBacked, Zenon
<1>4. JobBacked(w)'
  BY <1>1, <1>2, <1>3, Zenon DEF JobBacked
<1> QED
  BY <1>3, <1>4, WorkerFrame DEF BackedInv

LEMMA BackedRecordDecision ==
    ASSUME TypeOK, BackedInv, NEW w \in Workers, RecordDecision(w), OnlyWorker(w)
    PROVE  BackedInv'
<1>1. PICK id, g, f : id = job[w].id /\ g = job[w].grant /\ f = job[w].effect
  BY Zenon
<1>2. /\ wpc[w] = "record" /\ wpc'[w] = "idle" /\ ledger' = ledger /\ RowWritten(id)
      /\ requests'[id].status = StatusOf(f)
      /\ requests'[id].grant = IF f \in Approving THEN g ELSE 0
  BY <1>1, RecordDecisionShape, Zenon
<1>3. /\ id \in DOMAIN requests /\ f \in Effects
      /\ f \in Approving => SelfServiceGrant(g, id)
  BY <1>1, <1>2 DEF TypeOK, BackedInv, JobBacked, HasRow
<1>4. ASSUME Grows PROVE RowBacked(id)'
  <2>1. CASE f \in Approving
    <3>1. SelfServiceGrant(g, id)'
      BY <1>3, <1>4, <2>1, GrantKept
    <3> QED
      BY <1>2, <2>1, <3>1 DEF RowBacked, StatusOf, Approving
  <2>2. CASE f \notin Approving
    BY <1>2, <1>3, <2>2 DEF RowBacked, StatusOf, Approving, Effects
  <2> QED
    BY <2>1, <2>2
<1>5. JobBacked(w)'
  BY <1>2 DEF JobBacked, HasRow
<1> QED
  BY <1>2, <1>3, <1>4, <1>5, WriteBacked, WorkerFrame, Zenon DEF BackedInv

LEMMA BackedReviewGrant ==
    ASSUME TypeOK, BackedInv, NEW r \in Reviewers, ReviewGrant(r), OnlyReviewer(r)
    PROVE  BackedInv'
<1>1. PICK g, e : /\ e \in GrantRow /\ PostGrant(e, g)
                  /\ e.key = ApprovalKey(visit[r].id) /\ e.source = "manual_approval"
                  /\ e.amount = visit[r].amount /\ e.payee = visit[r].id
                  /\ rpc[r] = "grant" /\ rpc'[r] = "record"
                  /\ visit'[r].id = visit[r].id /\ visit'[r].action = visit[r].action
                  /\ visit'[r].grant = g
                  /\ requests' = requests
  BY ReviewGrantShape
<1>2. /\ e.payee \in DOMAIN requests /\ e.amount = requests[e.payee].amount
      /\ visit[r].action = "approve"
  BY <1>1, Zenon DEF TypeOK, BackedInv, VisitBacked
<1>3. /\ Grows /\ KeysUnique' /\ GrantedRowsAreBacked'
      /\ \A h \in DOMAIN ledger' : EntrySound(h)'
      /\ ApprovalGrant(g, e.payee)'
  BY <1>1, <1>2, PostBacked, Zenon
<1>4. VisitBacked(r)'
  BY <1>1, <1>2, <1>3 DEF VisitBacked
<1> QED
  BY <1>3, <1>4, ReviewFrame DEF BackedInv

LEMMA BackedRecordReview ==
    ASSUME TypeOK, BackedInv, NEW r \in Reviewers, RecordReview(r), OnlyReviewer(r)
    PROVE  BackedInv'
<1>1. PICK id, g : id = visit[r].id /\ g = visit[r].grant
  BY Zenon
<1>2. rpc[r] = "record" /\ rpc'[r] = "idle" /\ ledger' = ledger /\ id \in DOMAIN requests
  BY <1>1, RecordReviewShape, Zenon DEF TypeOK
<1>3. VisitBacked(r)'
  BY <1>2, Zenon DEF VisitBacked
<1>4. CASE requests' = requests
  BY <1>2, <1>3, <1>4, TablesKept, ReviewFrame, Zenon DEF BackedInv
<1>5. CASE requests' # requests
  <2>1. /\ RowWritten(id) /\ requests'[id].grant = g
        /\ requests'[id].status = IF visit[r].action = "approve" THEN "approved" ELSE "denied"
    BY <1>1, <1>5, RecordReviewShape, Zenon
  <2>2. ASSUME Grows PROVE RowBacked(id)'
    <3>1. CASE visit[r].action = "approve"
      <4>1. ApprovalGrant(g, id)
        BY <1>1, <1>2, <3>1 DEF BackedInv, VisitBacked
      <4>2. ApprovalGrant(g, id)'
        BY <1>2, <2>2, <4>1, GrantKept
      <4> QED
        BY <2>1, <3>1, <4>2 DEF RowBacked
    <3>2. CASE visit[r].action # "approve"
      <4>1. g = 0
        BY <1>1, <1>2, <3>2 DEF BackedInv, VisitBacked
      <4> QED
        BY <2>1, <3>2, <4>1 DEF RowBacked
    <3> QED
      BY <3>1, <3>2
  <2> QED
    BY <1>2, <1>3, <2>1, <2>2, WriteBacked, ReviewFrame DEF BackedInv
<1> QED
  BY <1>4, <1>5

\* The steps that write neither table.
LEMMA BackedQuietWorker ==
    ASSUME TypeOK, BackedInv, NEW w \in Workers, OnlyWorker(w),
           \/ \E key \in Keys \union {None}, amount \in Amounts : Submit(w, key, amount)
           \/ LoadFacts(w) \/ Evaluate(w) \/ WorkerStops(w)
    PROVE  BackedInv'
<1>1. requests' = requests /\ ledger' = ledger
  BY Zenon DEF Submit, LoadFacts, Evaluate, WorkerStops
<1>2. wpc \in [Workers -> {"idle", "create", "load", "evaluate", "grant", "record"}]
      /\ job \in [Workers -> Job] /\ job[w] \in Job
  BY DEF TypeOK
<1>3. CASE wpc'[w] \in {"idle", "create"}
  <2>1. JobBacked(w)'
    BY <1>3, Zenon DEF JobBacked, HasRow
  <2> QED
    BY <1>1, <2>1, TablesKept, WorkerFrame DEF BackedInv
<1>4. CASE wpc'[w] \notin {"idle", "create"}
  <2>1. LoadFacts(w) \/ Evaluate(w)
    BY <1>2, <1>4, Zenon DEF Submit, WorkerStops, WorkerDone
  <2>2. JobBacked(w)'
    BY <1>1, <2>1, DecideShape DEF JobBacked, BackedInv
  <2> QED
    BY <1>1, <2>2, TablesKept, WorkerFrame DEF BackedInv
<1> QED
  BY <1>3, <1>4, Zenon

LEMMA BackedQuietReview ==
    ASSUME TypeOK, BackedInv, NEW r \in Reviewers, OnlyReviewer(r),
           \/ \E id \in DOMAIN requests, action \in {"approve", "reject"} :
                AcquireReviewLock(r, id, action)
           \/ ReadRequest(r) \/ ReviewStops(r)
    PROVE  BackedInv'
<1>1. requests' = requests /\ ledger' = ledger
  BY Zenon DEF AcquireReviewLock, ReadRequest, ReviewStops
<1>2. rpc \in [Reviewers -> {"idle", "read", "grant", "record"}] /\ visit \in [Reviewers -> Visit]
  BY DEF TypeOK
<1>3. VisitBacked(r)'
  <2>1. CASE \E id \in DOMAIN requests, action \in {"approve", "reject"} :
               AcquireReviewLock(r, id, action)
    <3>1. PICK id, action : AcquireReviewLock(r, id, action)
      BY <2>1, Zenon
    <3>2. /\ rpc' = [rpc EXCEPT ![r] = "read"]
          /\ visit' = [visit EXCEPT ![r] = [NoVisit EXCEPT !.id = id, !.action = action]]
      BY <3>1, Zenon DEF AcquireReviewLock
    <3>3. rpc'[r] = "read" /\ visit'[r].grant = 0
      BY <1>2, <3>2 DEF NoVisit
    <3> QED
      BY <3>3, Zenon DEF VisitBacked
  <2>2. CASE ReadRequest(r)
    BY <1>1, <2>2, ReadRequestShape DEF VisitBacked, BackedInv
  <2>3. CASE ReviewStops(r)
    <3>1. rpc'[r] = "idle"
      BY <1>2, <2>3 DEF ReviewStops, ReviewDone
    <3> QED
      BY <3>1 DEF VisitBacked
  <2> QED
    BY <2>1, <2>2, <2>3
<1> QED
  BY <1>1, <1>3, TablesKept, ReviewFrame, Zenon DEF BackedInv

LEMMA BackedStep ==
    ASSUME TypeOK, BackedInv, [Next]_vars
    PROVE  BackedInv'
<1>1. ASSUME NEW w \in Workers, WorkerNext(w) PROVE BackedInv'
  <2>1. OnlyWorker(w)
    BY <1>1, WorkerShape
  <2> QED
    BY <1>1, <2>1, BackedQuietWorker, BackedCreate, BackedGrant, BackedRecordDecision
    DEF WorkerNext, WorkerStep
<1>2. ASSUME NEW r \in Reviewers, ReviewNext(r) PROVE BackedInv'
  <2>1. OnlyReviewer(r)
    BY <1>2, ReviewerShape
  <2> QED
    BY <1>2, <2>1, BackedQuietReview, BackedReviewGrant, BackedRecordReview
    DEF ReviewNext, ReviewStep
<1>3. ASSUME UNCHANGED <<requests, ledger, reviewVars, workerVars>> PROVE BackedInv'
  <2>1. requests' = requests /\ ledger' = ledger
    BY <1>3
  <2>2. (\A w \in Workers : JobBacked(w)') /\ (\A r \in Reviewers : VisitBacked(r)')
    BY <1>3, <2>1, TablesKept, JobKept, VisitKept DEF BackedInv, reviewVars, workerVars
  <2> QED
    BY <2>1, <2>2, TablesKept DEF BackedInv
<1>4. (\E p \in Policies : LoadPolicy(p)) \/ UNCHANGED vars =>
        UNCHANGED <<requests, ledger, reviewVars, workerVars>>
  BY DEF LoadPolicy, vars, reviewVars, workerVars
<1> QED
  BY <1>1, <1>2, <1>3, <1>4 DEF Next

LEMMA BackedInit == Init => BackedInv
  BY DEF Init, BackedInv, KeysUnique, JobBacked, HasRow, VisitBacked, GrantedRowsAreBacked
===============================================================================
