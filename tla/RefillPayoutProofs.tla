-------------------------- MODULE RefillPayoutProofs --------------------------
(***************************************************************************)
(* What RefillReview pays when clients send no idempotency keys, for any   *)
(* number of handlers, reviewers, requests and policies.                   *)
(*                                                                         *)
(* Then a handler never finds another's row or grant.  PayoutInv says so   *)
(* (RowOwned), that reviews of one row exclude each other (LockedVisit),   *)
(* and what each row's status says of the grants made for it (PaidOnce).   *)
(***************************************************************************)
EXTENDS RefillRowProofs

\* A handler's row is its own; nobody has decided on it or paid for it but the
\* handler itself.
RowOwned(w) ==
    HasRow(w) =>
        /\ \A v \in Workers : HasRow(v) /\ job[v].id = job[w].id => v = w
        /\ requests[job[w].id].status = "created" /\ requests[job[w].id].effect = "none"
        /\ ~requests[job[w].id].reviewed
        /\ wpc[w] = "grant" => job[w].effect \in Approving
        /\ Paid(job[w].id) = IF wpc[w] = "record" /\ job[w].effect \in Approving
                             THEN {job[w].grant} ELSE {}

\* A review holds its row's lock, and from its reading on the row is pending.
LockedVisit(r) ==
    rpc[r] # "idle" =>
        /\ reviewLock[visit[r].id] = r
        /\ rpc[r] \in {"grant", "record"} => requests[visit[r].id].status = "pending_review"

Approved(r, id) == rpc[r] = "record" /\ visit[r].id = id /\ visit[r].action = "approve"

\* A request has at most one grant.  One that went to review has none but its
\* approval's, and that before the verdict only while an approval is under way
\* or after one was interrupted.
PaidOnce(id) ==
    /\ \A g, h \in Paid(id) : g = h
    /\ requests[id].status \in {"pending_review", "approved", "denied"} =>
         \A g \in Paid(id) : ledger[g].key = ApprovalKey(id)
    /\ requests[id].status = "pending_review" /\ Paid(id) # {} =>
         id \in interrupted \/ \E r \in Reviewers : Approved(r, id)
    /\ requests[id].status = "denied" /\ Paid(id) # {} => id \in interrupted
    /\ requests[id].reviewed => requests[id].status \in {"approved", "denied"}

PayoutInv ==
    /\ \A w \in Workers : RowOwned(w)
    /\ \A r \in Reviewers : LockedVisit(r)
    /\ \A id \in DOMAIN requests : PaidOnce(id)

\* A step that leaves a row and its grants alone keeps what is said of them.
SameRow(id) ==
    /\ requests'[id] = requests[id]
    /\ Paid(id)' = Paid(id) /\ \A g \in Paid(id) : ledger'[g] = ledger[g]

LEMMA OwnedKept ==
    ASSUME NEW w \in Workers, RowOwned(w), wpc'[w] = wpc[w], job'[w] = job[w],
           NEW id, id = job[w].id, HasRow(w) => SameRow(id),
           \A v \in Workers : HasRow(v)' /\ job'[v].id = id /\ v # w => HasRow(v) /\ job[v].id = id
    PROVE  RowOwned(w)'
<1>1. HasRow(w)' <=> HasRow(w)
  BY DEF HasRow
<1>2. HasRow(w) => requests'[id] = requests[id] /\ Paid(id)' = Paid(id)
  BY DEF SameRow
<1>3. (Paid(job[w].id) = Paid(id))'
  OBVIOUS
<1> QED
  BY <1>1, <1>2, <1>3 DEF RowOwned

LEMMA LockKept ==
    ASSUME NEW r \in Reviewers, LockedVisit(r), rpc'[r] = rpc[r], visit'[r] = visit[r],
           rpc[r] # "idle" => reviewLock'[visit[r].id] = reviewLock[visit[r].id],
           rpc[r] \in {"grant", "record"} =>
             requests'[visit[r].id].status = requests[visit[r].id].status
    PROVE  LockedVisit(r)'
  BY DEF LockedVisit

LEMMA PaidKept ==
    ASSUME NEW id, PaidOnce(id), SameRow(id), interrupted \subseteq interrupted',
           \A r \in Reviewers : Approved(r, id) => Approved(r, id)' \/ id \in interrupted'
    PROVE  PaidOnce(id)'
  BY DEF PaidOnce, SameRow

\* Without keys every worker's grant is a new one, and an approval's grant is
\* new unless the row has one.
LEMMA PaidPost ==
    ASSUME TypeOK, BackedInv, NEW e \in GrantRow, NEW g, PostGrant(e, g), requests' = requests,
           e.payee \in DOMAIN requests
    PROVE  /\ \A id \in DOMAIN requests : id # e.payee => SameRow(id)
           /\ \/ /\ GrantsWith(e.key) = {} /\ Paid(e.payee)' = Paid(e.payee) \union {g}
                 /\ ledger'[g] = e
              \/ g \in GrantsWith(e.key) /\ ledger' = ledger
           /\ \A h \in Paid(e.payee) : ledger'[h] = ledger[h]
<1>1. ledger \in Seq(GrantRow)
  BY DEF TypeOK
<1>2. /\ \A h \in DOMAIN ledger : h \in DOMAIN ledger' /\ ledger'[h] = ledger[h]
      /\ \/ /\ GrantsWith(e.key) = {} /\ g \notin DOMAIN ledger
            /\ DOMAIN ledger' = DOMAIN ledger \union {g} /\ ledger'[g] = e
         \/ g \in GrantsWith(e.key) /\ ledger' = ledger
  BY <1>1, PostGrantShape, Zenon
<1>3. CASE /\ GrantsWith(e.key) = {} /\ g \notin DOMAIN ledger
           /\ DOMAIN ledger' = DOMAIN ledger \union {g} /\ ledger'[g] = e
  BY <1>2, <1>3 DEF SameRow, Paid
<1>4. CASE g \in GrantsWith(e.key) /\ ledger' = ledger
  BY <1>4 DEF SameRow, Paid
<1> QED
  BY <1>2, <1>3, <1>4

\* A step of a handler leaves every review, and every row but its own, alone.
LEMMA PayoutWorkerFrame ==
    ASSUME TypeOK, PayoutInv, NEW w \in Workers, OnlyWorker(w), NEW n,
           \A id \in DOMAIN requests : id # n => SameRow(id),
           \A id \in DOMAIN requests : requests[id].status # "created" => id # n,
           HasRow(w)' => job'[w].id = n,
           \A v \in Workers : v # w /\ HasRow(v) => job[v].id # n,
           RowOwned(w)', DOMAIN requests' \subseteq DOMAIN requests \union {n},
           n \in DOMAIN requests' => PaidOnce(n)'
    PROVE  PayoutInv'
<1>1. ASSUME NEW v \in Workers, v # w PROVE RowOwned(v)'
  <2>1. PICK id : id = job[v].id
    OBVIOUS
  <2>2. RowOwned(v) /\ wpc'[v] = wpc[v] /\ job'[v] = job[v]
    BY <1>1 DEF PayoutInv, OnlyWorker
  <2>3. HasRow(v) => id \in DOMAIN requests /\ id # n
    BY <1>1, <2>1 DEF TypeOK, HasRow
  <2>4. CASE HasRow(v)
    <3>1. ASSUME NEW u \in Workers, HasRow(u)', job'[u].id = id, u # v
          PROVE  HasRow(u) /\ job[u].id = id
      <4>1. u # w
        BY <2>3, <2>4, <3>1
      <4> QED
        BY <3>1, <4>1 DEF OnlyWorker, HasRow
    <3> QED
      BY <2>1, <2>2, <2>3, <2>4, <3>1, OwnedKept
  <2>5. CASE ~HasRow(v)
    BY <2>2, <2>5 DEF RowOwned, HasRow
  <2> QED
    BY <2>4, <2>5
<1>2. ASSUME NEW r \in Reviewers PROVE LockedVisit(r)'
  <2>1. LockedVisit(r) /\ rpc'[r] = rpc[r] /\ visit'[r] = visit[r] /\ reviewLock' = reviewLock
    BY DEF PayoutInv, OnlyWorker, reviewVars
  <2>2. rpc[r] \in {"grant", "record"} =>
          requests'[visit[r].id].status = requests[visit[r].id].status
    BY <2>1 DEF LockedVisit, TypeOK, SameRow
  <2> QED
    BY <2>1, <2>2, LockKept
<1>3. ASSUME NEW id \in DOMAIN requests, id # n PROVE PaidOnce(id)'
  <2>1. PaidOnce(id) /\ SameRow(id) /\ interrupted' = interrupted
    BY <1>3 DEF PayoutInv, OnlyWorker
  <2>2. \A r \in Reviewers : Approved(r, id) => Approved(r, id)'
    BY DEF OnlyWorker, reviewVars, Approved
  <2> QED
    BY <2>1, <2>2, PaidKept
<1> QED
  BY <1>1, <1>2, <1>3 DEF PayoutInv

LEMMA PayoutCreate ==
    ASSUME Keys = {}, TypeOK, BackedInv, PayoutInv, NEW w \in Workers, Create(w), OnlyWorker(w)
    PROVE  PayoutInv'
<1> PICK key : key = job[w].key
  OBVIOUS
<1>0. job[w].key \in Keys \union {None}
  BY DEF TypeOK, Job
<1>1. ledger' = ledger /\ key = None
  BY <1>0, CreateShape, Zenon
<1>2. CASE wpc'[w] = "idle" /\ requests' = requests
  <2>1. RowOwned(w)' /\ ~HasRow(w)'
    BY <1>2 DEF RowOwned, HasRow
  <2>2. \A id \in DOMAIN requests : SameRow(id) /\ id # 0
    BY <1>1, <1>2, RequestIds DEF SameRow, Paid, Ids
  <2>3. \A v \in Workers : HasRow(v) => job[v].id # 0
    BY <2>2 DEF TypeOK, HasRow
  <2> QED
    BY <1>2, <2>1, <2>2, <2>3, PayoutWorkerFrame
<1>3. CASE ~(wpc'[w] = "idle" /\ requests' = requests)
  <2>1. PICK n : /\ wpc'[w] = "load" /\ job'[w].id = n
                 /\ RowFound(n, key) \/ RowMade(n, key)
    BY <1>3, CreateShape
  <2>2. RowMade(n, key)
    BY <1>1, <2>1 DEF RowFound
  <2>3. /\ n \notin DOMAIN requests /\ DOMAIN requests' = DOMAIN requests \union {n}
        /\ requests'[n].status = "created" /\ requests'[n].effect = "none" /\ ~requests'[n].reviewed
        /\ \A id \in DOMAIN requests : SameRow(id)
    BY <1>1, <2>2 DEF RowMade, SameRow, Paid
  <2>4. Paid(n)' = {}
    BY <1>1, <2>3 DEF Paid, BackedInv, EntrySound
  <2>5. \A v \in Workers : HasRow(v) => job[v].id # n
    BY <2>3 DEF TypeOK, HasRow
  <2>6. \A v \in Workers : v # w /\ HasRow(v)' => job'[v].id # n
    BY <2>5 DEF OnlyWorker, HasRow
  <2>7. RowOwned(w)'
    BY <2>1, <2>3, <2>4, <2>6 DEF RowOwned
  <2>8. PaidOnce(n)'
    BY <2>3, <2>4 DEF PaidOnce
  <2> QED
    BY <2>1, <2>3, <2>5, <2>7, <2>8, PayoutWorkerFrame
<1> QED
  BY <1>2, <1>3

LEMMA PayoutGrant ==
    ASSUME Keys = {}, TypeOK, BackedInv, PayoutInv, NEW w \in Workers, Grant(w), OnlyWorker(w)
    PROVE  PayoutInv'
<1>1. PICK g, e : /\ e \in GrantRow /\ PostGrant(e, g)
                  /\ e.key = job[w].key /\ e.source = "self_service" /\ e.payee = job[w].id
                  /\ wpc[w] = "grant" /\ wpc'[w] = "record"
                  /\ job'[w].id = job[w].id /\ job'[w].key = job[w].key
                  /\ job'[w].effect = job[w].effect /\ job'[w].grant = g
                  /\ requests' = requests
  BY GrantShape
<1>2. PICK n : n = e.payee
  OBVIOUS
<1>3. /\ HasRow(w) /\ HasRow(w)' /\ n = job[w].id /\ n \in DOMAIN requests /\ e.key = None
      /\ RowOwned(w)
  BY <1>1, <1>2, Zenon DEF TypeOK, Job, HasRow, PayoutInv
<1>4. /\ requests[n].status = "created" /\ requests[n].effect = "none" /\ ~requests[n].reviewed
      /\ Paid(n) = {} /\ \A v \in Workers : v # w /\ HasRow(v) => job[v].id # n
  BY <1>1, <1>3 DEF RowOwned
<1>5. Paid(n)' = {g} /\ \A id \in DOMAIN requests : id # n => SameRow(id)
  BY <1>1, <1>2, <1>3, <1>4, PaidPost DEF GrantsWith
<1>6. \A v \in Workers : v # w /\ HasRow(v)' => job'[v].id # n
  BY <1>4 DEF OnlyWorker, HasRow
<1>7. job[w].effect \in Approving
  BY <1>1, <1>3 DEF RowOwned
<1>8. RowOwned(w)'
  BY <1>1, <1>3, <1>4, <1>5, <1>6, <1>7, Zenon DEF RowOwned
<1>9. PaidOnce(n)'
  BY <1>1, <1>4, <1>5, Zenon DEF PaidOnce
<1> QED
  BY <1>1, <1>3, <1>4, <1>5, <1>8, <1>9, PayoutWorkerFrame

LEMMA PayoutRecordDecision ==
    ASSUME TypeOK, PayoutInv, NEW w \in Workers, RecordDecision(w), OnlyWorker(w)
    PROVE  PayoutInv'
<1>1. PICK n, f : n = job[w].id /\ f = job[w].effect
  OBVIOUS
<1>2. /\ wpc[w] = "record" /\ wpc'[w] = "idle" /\ ledger' = ledger /\ RowWritten(n)
      /\ requests'[n].status = StatusOf(f) /\ requests'[n].reviewed = requests[n].reviewed
  BY <1>1, RecordDecisionShape, Zenon
<1>3. HasRow(w) /\ n \in DOMAIN requests /\ f \in Effects /\ RowOwned(w)
  BY <1>1, <1>2 DEF TypeOK, HasRow, PayoutInv
<1>4. /\ requests[n].status = "created" /\ ~requests[n].reviewed
      /\ \A v \in Workers : v # w /\ HasRow(v) => job[v].id # n
      /\ \A g, h \in Paid(n) : g = h
      /\ f \notin Approving => Paid(n) = {}
  BY <1>1, <1>2, <1>3 DEF RowOwned
<1>5. Paid(n)' = Paid(n) /\ \A id \in DOMAIN requests : id # n => SameRow(id)
  BY <1>2 DEF SameRow, Paid, RowWritten
<1>6. f \in Approving => requests'[n].status \in {"auto_approved", "partially_approved"}
  BY <1>2 DEF StatusOf, Approving
<1>7. PaidOnce(n)'
  BY <1>2, <1>4, <1>5, <1>6 DEF PaidOnce
<1>8. RowOwned(w)' /\ ~HasRow(w)'
  BY <1>2 DEF RowOwned, HasRow
<1> QED
  BY <1>2, <1>3, <1>4, <1>5, <1>7, <1>8, PayoutWorkerFrame DEF RowWritten

LEMMA PayoutQuietWorker ==
    ASSUME TypeOK, PayoutInv, NEW w \in Workers, OnlyWorker(w),
           \/ \E key \in Keys \union {None}, amount \in Amounts : Submit(w, key, amount)
           \/ LoadFacts(w) \/ Evaluate(w) \/ WorkerStops(w)
    PROVE  PayoutInv'
<1>1. requests' = requests /\ ledger' = ledger
  BY Zenon DEF Submit, LoadFacts, Evaluate, WorkerStops
<1>2. \A id : SameRow(id)
  BY <1>1 DEF SameRow, Paid
<1>3. \A id \in DOMAIN requests : id # 0
  BY RequestIds DEF Ids
<1>4. CASE wpc'[w] \in {"idle", "create"}
  <2>1. RowOwned(w)' /\ ~HasRow(w)'
    BY <1>4 DEF RowOwned, HasRow
  <2>2. \A v \in Workers : HasRow(v) => job[v].id # 0
    BY <1>3 DEF TypeOK, HasRow
  <2> QED
    BY <1>1, <1>2, <1>3, <2>1, <2>2, PayoutWorkerFrame
<1>5. CASE wpc'[w] \notin {"idle", "create"}
  <2>1. LoadFacts(w) \/ Evaluate(w)
    BY <1>5, Zenon DEF Submit, WorkerStops, WorkerDone, TypeOK
  <2>2. PICK n : n = job[w].id
    OBVIOUS
  <2>3. /\ HasRow(w) /\ HasRow(w)' /\ job'[w].id = n /\ wpc[w] # "record"
        /\ wpc'[w] = "record" => job'[w].effect \notin Approving
        /\ wpc'[w] = "grant" => job'[w].effect \in Approving
    BY <2>1, <2>2, DecideShape, Zenon
  <2>4. RowOwned(w) /\ n \in DOMAIN requests
    BY <2>2, <2>3, Zenon DEF PayoutInv, HasRow, TypeOK
  <2>5. /\ requests[n].status = "created" /\ requests[n].effect = "none" /\ ~requests[n].reviewed
        /\ Paid(n) = {} /\ \A v \in Workers : v # w /\ HasRow(v) => job[v].id # n
    BY <2>2, <2>3, <2>4, Zenon DEF RowOwned
  <2>6. \A v \in Workers : v # w /\ HasRow(v)' => job'[v].id # n
    BY <2>5 DEF OnlyWorker, HasRow
  <2>7. Paid(n)' = {}
    BY <1>2, <2>5 DEF SameRow
  <2>8. RowOwned(w)'
    BY <1>1, <2>3, <2>5, <2>6, <2>7, Zenon DEF RowOwned
  <2>9. PaidOnce(n)'
    BY <1>1, <2>5, <2>7 DEF PaidOnce
  <2> QED
    BY <1>1, <1>2, <2>3, <2>4, <2>5, <2>8, <2>9, PayoutWorkerFrame, Zenon
<1> QED
  BY <1>4, <1>5, Zenon

\* Two reviews under way are of different rows.
LEMMA LocksDiffer ==
    ASSUME PayoutInv, NEW r \in Reviewers, NEW q \in Reviewers, q # r,
           rpc[r] # "idle", rpc[q] # "idle"
    PROVE  visit[q].id # visit[r].id
  BY DEF PayoutInv, LockedVisit

\* A step of a review leaves every handler, and every row but its own, alone.
LEMMA PayoutReviewFrame ==
    ASSUME TypeOK, PayoutInv, NEW r \in Reviewers, OnlyReviewer(r), NEW n,
           \A id \in DOMAIN requests : id # n => SameRow(id),
           \A id \in DOMAIN requests : requests[id].status = "created" => SameRow(id),
           \A q \in Reviewers : q # r /\ rpc[q] # "idle" =>
               visit[q].id # n /\ reviewLock'[visit[q].id] = reviewLock[visit[q].id],
           rpc[r] # "idle" => visit[r].id = n,
           DOMAIN requests' = DOMAIN requests, interrupted \subseteq interrupted',
           LockedVisit(r)', n \in DOMAIN requests => PaidOnce(n)'
    PROVE  PayoutInv'
<1>1. ASSUME NEW w \in Workers PROVE RowOwned(w)'
  <2>1. PICK id : id = job[w].id
    OBVIOUS
  <2>2. RowOwned(w) /\ wpc' = wpc /\ job' = job
    BY Zenon DEF PayoutInv, OnlyReviewer, workerVars
  <2>3. HasRow(w) => SameRow(id)
    BY <2>1, <2>2 DEF TypeOK, HasRow, RowOwned
  <2>4. \A v \in Workers : HasRow(v)' => HasRow(v)
    BY <2>2 DEF HasRow
  <2> QED
    BY <2>1, <2>2, <2>3, <2>4, OwnedKept, Zenon
<1>2. ASSUME NEW q \in Reviewers, q # r PROVE LockedVisit(q)'
  <2>1. LockedVisit(q) /\ rpc'[q] = rpc[q] /\ visit'[q] = visit[q]
    BY <1>2, Zenon DEF PayoutInv, OnlyReviewer
  <2>2. rpc[q] # "idle" => requests'[visit[q].id] = requests[visit[q].id]
    BY <1>2 DEF TypeOK, SameRow
  <2> QED
    BY <1>2, <2>1, <2>2, LockKept, Zenon
<1>3. ASSUME NEW id \in DOMAIN requests, id # n PROVE PaidOnce(id)'
  <2>1. PaidOnce(id) /\ SameRow(id)
    BY <1>3 DEF PayoutInv
  <2>2. \A q \in Reviewers : Approved(q, id) => Approved(q, id)'
    BY <1>3 DEF OnlyReviewer, Approved
  <2> QED
    BY <2>1, <2>2, PaidKept
<1> QED
  BY <1>1, <1>2, <1>3 DEF PayoutInv

\* The locks a review leaves when it is over.
LEMMA ReviewOver ==
    ASSUME TypeOK, PayoutInv, NEW r \in Reviewers, ReviewDone(r), rpc[r] # "idle"
    PROVE  /\ \A q \in Reviewers : q # r /\ rpc[q] # "idle" =>
                 visit[q].id # visit[r].id /\ reviewLock'[visit[q].id] = reviewLock[visit[q].id]
           /\ rpc'[r] = "idle" /\ LockedVisit(r)'
<1>1. rpc'[r] = "idle"
  BY DEF ReviewDone, TypeOK
<1>2. ASSUME NEW q \in Reviewers, q # r, rpc[q] # "idle"
      PROVE  visit[q].id # visit[r].id /\ reviewLock'[visit[q].id] = reviewLock[visit[q].id]
  <2>1. visit[q].id # visit[r].id
    BY <1>2, LocksDiffer
  <2>2. visit[q].id \in Ids
    BY <1>2, RequestIds, Zenon DEF TypeOK
  <2> QED
    BY <2>1, <2>2 DEF ReviewDone, TypeOK
<1> QED
  BY <1>1, <1>2 DEF LockedVisit

LEMMA PayoutAcquire ==
    ASSUME TypeOK, PayoutInv, NEW r \in Reviewers, NEW n \in DOMAIN requests, NEW action,
           AcquireReviewLock(r, n, action), OnlyReviewer(r)
    PROVE  PayoutInv'
<1>1. /\ requests' = requests /\ ledger' = ledger /\ interrupted' = interrupted
      /\ rpc[r] = "idle" /\ reviewLock[n] = None /\ n \in Ids
      /\ reviewLock' = [reviewLock EXCEPT ![n] = r]
  BY RequestIds DEF AcquireReviewLock
<1>2. \A id : SameRow(id)
  BY <1>1 DEF SameRow, Paid
<1>3. rpc'[r] = "read" /\ visit'[r].id = n
  BY Zenon DEF AcquireReviewLock, TypeOK, NoVisit
<1>4. LockedVisit(r)'
  BY <1>1, <1>3 DEF LockedVisit, TypeOK
<1>5. ASSUME NEW q \in Reviewers, rpc[q] # "idle"
      PROVE  visit[q].id # n /\ reviewLock'[visit[q].id] = reviewLock[visit[q].id]
  <2>1. reviewLock[visit[q].id] = q /\ q # None /\ visit[q].id \in Ids
    BY <1>5, ConstantsAssumption, RequestIds DEF PayoutInv, LockedVisit, TypeOK
  <2> QED
    BY <1>1, <2>1, ZenonT(30) DEF TypeOK
<1>6. PaidOnce(n)'
  <2>1. PaidOnce(n)
    BY DEF PayoutInv
  <2>2. \A q \in Reviewers : Approved(q, n) => Approved(q, n)'
    BY <1>1 DEF OnlyReviewer, Approved
  <2> QED
    BY <1>1, <1>2, <2>1, <2>2, PaidKept
<1> QED
  BY <1>1, <1>2, <1>4, <1>5, <1>6, PayoutReviewFrame

LEMMA PayoutReadRequest ==
    ASSUME TypeOK, PayoutInv, NEW r \in Reviewers, ReadRequest(r), OnlyReviewer(r)
    PROVE  PayoutInv'
<1>1. PICK n : n = visit[r].id
  OBVIOUS
<1>2. /\ rpc[r] = "read" /\ requests' = requests /\ ledger' = ledger /\ interrupted' = interrupted
      /\ n \in DOMAIN requests
  BY <1>1 DEF ReadRequest, TypeOK
<1>3. \A id : SameRow(id)
  BY <1>2 DEF SameRow, Paid
<1>4. PaidOnce(n)'
  <2>1. PaidOnce(n)
    BY <1>2 DEF PayoutInv
  <2>2. \A q \in Reviewers : Approved(q, n) => Approved(q, n)'
    BY <1>2 DEF OnlyReviewer, Approved
  <2> QED
    BY <1>2, <1>3, <2>1, <2>2, PaidKept
<1>5. CASE requests[n].status # "pending_review"
  <2>1. ReviewDone(r)
    BY <1>1, <1>5 DEF ReadRequest
  <2> QED
    BY <1>1, <1>2, <1>3, <1>4, <2>1, ReviewOver, PayoutReviewFrame
<1>6. CASE requests[n].status = "pending_review"
  <2>1. reviewLock' = reviewLock
    BY <1>1, <1>6 DEF ReadRequest
  <2>2. LockedVisit(r)'
    <3>1. rpc'[r] # "idle" => visit'[r].id = n
      BY <1>1, ReadRequestShape
    <3>2. reviewLock[n] = r
      BY <1>1, <1>2 DEF PayoutInv, LockedVisit
    <3> QED
      BY <1>2, <1>6, <2>1, <3>1, <3>2 DEF LockedVisit
  <2>3. \A q \in Reviewers : q # r /\ rpc[q] # "idle" => visit[q].id # n
    BY <1>1, <1>2, LocksDiffer, Zenon
  <2> QED
    BY <1>1, <1>2, <1>3, <1>4, <2>1, <2>2, <2>3, PayoutReviewFrame
<1> QED
  BY <1>5, <1>6

LEMMA PayoutReviewGrant ==
    ASSUME TypeOK, BackedInv, PayoutInv, NEW r \in Reviewers, ReviewGrant(r), OnlyReviewer(r)
    PROVE  PayoutInv'
<1>1. PICK g, e : /\ e \in GrantRow /\ PostGrant(e, g)
                  /\ e.key = ApprovalKey(visit[r].id) /\ e.source = "manual_approval"
                  /\ e.amount = visit[r].amount /\ e.payee = visit[r].id
                  /\ rpc[r] = "grant" /\ rpc'[r] = "record"
                  /\ visit'[r].id = visit[r].id /\ visit'[r].action = visit[r].action
                  /\ visit'[r].grant = g
                  /\ requests' = requests /\ reviewLock' = reviewLock
  BY ReviewGrantShape
<1>2. PICK n : n = e.payee
  OBVIOUS
<1>3. /\ n = visit[r].id /\ n \in DOMAIN requests /\ e.key = ApprovalKey(n) /\ n \in Ids
      /\ requests[n].status = "pending_review" /\ reviewLock[n] = r
      /\ visit[r].action = "approve" /\ interrupted' = interrupted
  <2>1. /\ visit[r].id \in DOMAIN requests /\ visit[r].action = "approve"
        /\ reviewLock[visit[r].id] = r /\ interrupted' = interrupted
    BY <1>1, Zenon DEF TypeOK, BackedInv, VisitBacked, PayoutInv, LockedVisit, ReviewGrant
  <2>2. requests[visit[r].id].status = "pending_review"
    BY <1>1, Zenon DEF PayoutInv, LockedVisit, BackedInv, VisitBacked
  <2> QED
    BY <1>1, <1>2, <2>1, <2>2, RequestIds, Zenon
<1>4. /\ \A id \in DOMAIN requests : id # n => SameRow(id)
      /\ \/ /\ GrantsWith(e.key) = {} /\ Paid(n)' = Paid(n) \union {g}
            /\ ledger'[g] = e
         \/ g \in GrantsWith(e.key) /\ ledger' = ledger
      /\ \A h \in Paid(n) : ledger'[h] = ledger[h]
  BY <1>1, <1>2, <1>3, PaidPost, SMTT(20)
<1>5. /\ \A h \in Paid(n) : ledger[h].key = e.key /\ h \in DOMAIN ledger
      /\ \A h, k \in Paid(n) : h = k
      /\ ~requests[n].reviewed
  BY <1>3 DEF PayoutInv, PaidOnce, Paid
<1>6. e.key # None
  BY <1>3, KeysAssumption, Zenon
<1>7. /\ \A h, k \in Paid(n)' : h = k
      /\ \A h \in Paid(n)' : ledger'[h].key = ApprovalKey(n)
  <2>1. CASE GrantsWith(e.key) = {} /\ Paid(n)' = Paid(n) \union {g} /\ ledger'[g] = e
    <3>1. Paid(n) = {}
      BY <1>5, <1>6, <2>1 DEF GrantsWith
    <3> QED
      BY <1>3, <2>1, <3>1
  <2>2. CASE ledger' = ledger
    <3>1. Paid(n)' = Paid(n)
      BY <2>2 DEF Paid
    <3> QED
      BY <1>3, <1>5, <2>2, <3>1
  <2> QED
    BY <1>4, <2>1, <2>2
<1>8. Approved(r, n)'
  BY <1>1, <1>3, Zenon DEF Approved
<1>9. PaidOnce(n)'
  BY <1>1, <1>3, <1>5, <1>7, <1>8, Zenon DEF PaidOnce
<1>10. LockedVisit(r)'
  BY <1>1, <1>3 DEF LockedVisit
<1>11. \A q \in Reviewers : q # r /\ rpc[q] # "idle" => visit[q].id # n
  BY <1>1, <1>3, LocksDiffer, Zenon
<1> QED
  BY <1>1, <1>3, <1>4, <1>9, <1>10, <1>11, PayoutReviewFrame, Zenon

LEMMA PayoutRecordReview ==
    ASSUME TypeOK, PayoutInv, NEW r \in Reviewers, RecordReview(r), OnlyReviewer(r)
    PROVE  PayoutInv'
<1>1. PICK n : n = visit[r].id
  OBVIOUS
<1>2. /\ rpc[r] = "record" /\ ledger' = ledger /\ interrupted' = interrupted /\ ReviewDone(r)
      /\ n \in DOMAIN requests /\ requests[n].status = "pending_review" /\ PaidOnce(n)
  BY <1>1 DEF RecordReview, TypeOK, PayoutInv, LockedVisit
<1>3. /\ RowWritten(n)
      /\ requests'[n].status = IF visit[r].action = "approve" THEN "approved" ELSE "denied"
  BY <1>1, <1>2, RecordReviewShape, Zenon
<1>4. Paid(n)' = Paid(n) /\ \A id \in DOMAIN requests : id # n => SameRow(id)
  BY <1>2, <1>3 DEF SameRow, Paid, RowWritten
<1>5. requests'[n].status = "denied" /\ Paid(n) # {} => n \in interrupted
  <2>1. ASSUME visit[r].action # "approve", NEW q \in Reviewers, Approved(q, n) PROVE FALSE
    <3>1. q # r /\ visit[q].id = n /\ rpc[q] # "idle"
      BY <2>1 DEF Approved
    <3> QED
      BY <1>1, <1>2, <3>1, LocksDiffer
  <2> QED
    BY <1>2, <1>3, <2>1 DEF PaidOnce
<1>6. PaidOnce(n)'
  BY <1>2, <1>3, <1>4, <1>5, Zenon DEF PaidOnce
<1> QED
  BY <1>1, <1>2, <1>3, <1>4, <1>6, ReviewOver, PayoutReviewFrame DEF RowWritten

LEMMA PayoutReviewStops ==
    ASSUME TypeOK, BackedInv, PayoutInv, NEW r \in Reviewers, ReviewStops(r), OnlyReviewer(r)
    PROVE  PayoutInv'
<1>1. PICK n : n = visit[r].id
  OBVIOUS
<1>2. /\ rpc[r] # "idle" /\ requests' = requests /\ ledger' = ledger /\ ReviewDone(r)
      /\ n \in DOMAIN requests /\ interrupted \subseteq interrupted'
      /\ visit[r].grant # 0 => n \in interrupted'
  BY <1>1 DEF ReviewStops, TypeOK
<1>3. \A id : SameRow(id)
  BY <1>2 DEF SameRow, Paid
<1>4. ASSUME NEW q \in Reviewers, Approved(q, n) PROVE Approved(q, n)' \/ n \in interrupted'
  <2>1. CASE q = r
    <3>1. visit[r].grant \in DOMAIN ledger
      BY <1>4, <2>1, Zenon DEF Approved, BackedInv, VisitBacked, ApprovalGrant, Paid
    <3>2. visit[r].grant # 0
      BY <3>1 DEF TypeOK
    <3> QED
      BY <1>2, <3>2
  <2>2. CASE q # r
    BY <1>4, <2>2, Zenon DEF Approved, OnlyReviewer
  <2> QED
    BY <2>1, <2>2
<1>5. PaidOnce(n)'
  <2>1. PaidOnce(n)
    BY <1>2 DEF PayoutInv
  <2> QED
    BY <1>2, <1>3, <1>4, <2>1, PaidKept, Zenon
<1> QED
  BY <1>1, <1>2, <1>3, <1>5, ReviewOver, PayoutReviewFrame

LEMMA PayoutStep ==
    ASSUME Keys = {}, TypeOK, BackedInv, PayoutInv, [Next]_vars
    PROVE  PayoutInv'
<1>1. ASSUME NEW w \in Workers, WorkerNext(w) PROVE PayoutInv'
  <2>1. OnlyWorker(w)
    BY <1>1, WorkerShape
  <2> QED
    BY <1>1, <2>1, PayoutQuietWorker, PayoutCreate, PayoutGrant, PayoutRecordDecision
    DEF WorkerNext, WorkerStep
<1>2. ASSUME NEW r \in Reviewers, ReviewNext(r) PROVE PayoutInv'
  <2>1. OnlyReviewer(r)
    BY <1>2, ReviewerShape
  <2> QED
    BY <1>2, <2>1, PayoutAcquire, PayoutReadRequest, PayoutReviewGrant, PayoutRecordReview,
       PayoutReviewStops, ZenonT(40)
    DEF ReviewNext, ReviewStep
<1>3. CASE UNCHANGED <<requests, ledger, rpc, visit, reviewLock, wpc, job, interrupted>>
  <2>1. ASSUME NEW w \in Workers PROVE RowOwned(w)'
    <3>1. RowOwned(w) /\ requests' = requests /\ ledger' = ledger /\ wpc' = wpc /\ job' = job
      BY <1>3 DEF PayoutInv
    <3> QED
      BY <3>1 DEF RowOwned, HasRow, Paid
  <2>2. ASSUME NEW r \in Reviewers PROVE LockedVisit(r)'
    BY <1>3 DEF PayoutInv, LockedVisit
  <2>3. ASSUME NEW id \in DOMAIN requests PROVE PaidOnce(id)'
    <3>1. PaidOnce(id) /\ Paid(id)' = Paid(id) /\ \A r : Approved(r, id)' <=> Approved(r, id)
      BY <1>3 DEF PayoutInv, Paid, Approved
    <3> QED
      BY <1>3, <3>1 DEF PaidOnce
  <2> QED
    BY <1>3, <2>1, <2>2, <2>3 DEF PayoutInv
<1>4. (\E p \in Policies : LoadPolicy(p)) \/ UNCHANGED vars =>
        UNCHANGED <<requests, ledger, rpc, visit, reviewLock, wpc, job, interrupted>>
  BY DEF LoadPolicy, vars, reviewVars, workerVars
<1> QED
  BY <1>1, <1>2, <1>3, <1>4 DEF Next
===============================================================================
