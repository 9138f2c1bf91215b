----------------------------- MODULE RefillReview -----------------------------
(***************************************************************************)
(* A budget refill from submission to settlement, for one account and      *)
(* period: RefillService::request_refill (budget/src/refill.rs) and        *)
(* ReviewService::approve / reject (budget/src/review.rs) run by several   *)
(* handlers at once, over the table AugmentationRepo writes                *)
(* (budget/src/augmentation.rs), the grant ledger, and a policy engine     *)
(* whose rules can be swapped while a request is in flight.                *)
(*                                                                         *)
(* BudgetRepo::grant is one indivisible step here: BudgetLedger implements *)
(* AtomicLedger, and the self-service counter of the balance row is the    *)
(* number of self-service entries (BudgetLedgerProofs!CountersExact).      *)
(* Every other database call is a step of its own, because each takes a    *)
(* pooled connection of its own: nothing in the code spans two of them but *)
(* the review's advisory lock.  A request row is named by its position in  *)
(* the table, a grant by its position on the ledger; 0 is SQL NULL.        *)
(***************************************************************************)
EXTENDS Integers, Sequences, FiniteSets

CONSTANTS
    Workers,      \* concurrent request_refill calls
    Reviewers,    \* concurrent approve / reject calls
    Keys,         \* idempotency keys clients send
    None,         \* no key, no holder
    Amounts,      \* refill amounts clients ask for
    Policies,     \* rule sets an admin may activate
    Allowance,    \* the most unaided refills per period any of them allows
    MaxRequests   \* bound on the number of request rows

Approving == {"auto_approve", "auto_approve_capped"}
Effects == Approving \union {"manual_review", "deny", "no_action"}

\* A rule set: the amounts it offers, and the effect of its rule on
\* self_service_grant_count (below the limit) and of its default (otherwise).
Policy == [allowed : SUBSET Amounts, limit : Nat, within : Effects, beyond : Effects, cap : Amounts]

ASSUME ConstantsAssumption ==
    /\ None \notin Workers \union Reviewers \union Keys
    /\ IsFiniteSet(Workers) /\ Workers # {}
    /\ Amounts \subseteq Nat \ {0}
    /\ Policies \subseteq Policy
    /\ MaxRequests \in Nat

\* ADR-0008: beyond the allowance no policy grants unaided.
ASSUME AllowanceAssumption ==
    /\ Allowance \in Nat
    /\ \A p \in Policies : p.limit <= Allowance /\ p.beyond \notin Approving

Ids == 1 .. MaxRequests

ApprovalKey(id) == <<"augmentation-approval", id>>

\* Clients do not send keys of the form approvals derive.
ASSUME KeysAssumption == \A id \in Ids : ApprovalKey(id) \notin Keys \union {None}

VARIABLES
    requests,     \* budget_augmentation_requests, in order of creation
    ledger,       \* budget_grants of this account and period
    policy,       \* the engine's active rule set
    reviewLock,   \* holder of each request's advisory lock
    wpc, job,     \* where each worker is, and its locals
    rpc, visit,   \* where each reviewer is, and its locals
    abandoned,    \* history: rows whose worker stopped before recording
    interrupted   \* history: rows whose approval stopped after its grant

workerVars == <<wpc, job>>
reviewVars == <<rpc, visit, reviewLock>>
vars == <<requests, ledger, policy, reviewVars, workerVars, abandoned, interrupted>>

NoJob == [key |-> None, amount |-> 0, id |-> 0, count |-> 0, effect |-> "none",
          approved |-> 0, grant |-> 0]
NoVisit == [id |-> 0, action |-> "none", amount |-> 0, grant |-> 0]

Init ==
    /\ requests = <<>>
    /\ ledger = <<>>
    /\ policy \in Policies
    /\ reviewLock = [id \in Ids |-> None]
    /\ wpc = [w \in Workers |-> "idle"]
    /\ job = [w \in Workers |-> NoJob]
    /\ rpc = [r \in Reviewers |-> "idle"]
    /\ visit = [r \in Reviewers |-> NoVisit]
    /\ abandoned = {}
    /\ interrupted = {}

-------------------------------------------------------------------------------
RequestsWith(key) == {id \in DOMAIN requests : key # None /\ requests[id].key = key}
GrantsWith(key) == {g \in DOMAIN ledger : key # None /\ ledger[g].key = key}

\* self_service_grant_count of the balance row.
SelfServiceCount == Cardinality({g \in DOMAIN ledger : ledger[g].source = "self_service"})

\* BudgetRepo::grant: post a grant, or find the one its key already has.
\* `payee`, the request row the grant is for, is not a column: it only lets
\* properties speak of the grants a request has caused.
PostGrant(entry, g) ==
    IF GrantsWith(entry.key) = {}
    THEN g = Len(ledger) + 1 /\ ledger' = Append(ledger, entry)
    ELSE g \in GrantsWith(entry.key) /\ UNCHANGED ledger

WorkerDone(w) ==
    /\ wpc' = [wpc EXCEPT ![w] = "idle"]
    /\ job' = [job EXCEPT ![w] = NoJob]

\* request_refill, step 1: find_existing answers a key it has seen with the
\* row as it stands.
Submit(w, key, amount) ==
    /\ wpc[w] = "idle"
    /\ RequestsWith(key) = {}
    /\ wpc' = [wpc EXCEPT ![w] = "create"]
    /\ job' = [job EXCEPT ![w] = [NoJob EXCEPT !.key = key, !.amount = amount]]
    /\ UNCHANGED <<requests, ledger, policy, reviewVars, abandoned, interrupted>>

\* AugmentationRepo::create: insert a row, or find the one a concurrent
\* submission has inserted under the same key.
CreateRow(key, amount, id) ==
    IF RequestsWith(key) = {}
    THEN /\ Len(requests) < MaxRequests
         /\ id = Len(requests) + 1
         /\ requests' = Append(requests,
              [key |-> key, amount |-> amount, status |-> "created", effect |-> "none",
               approved |-> 0, grant |-> 0, reviewed |-> FALSE])
    ELSE id \in RequestsWith(key) /\ UNCHANGED requests

\* Steps 2 and 3: an amount the active policy does not offer is refused;
\* otherwise the request gets its row.
Create(w) ==
    /\ wpc[w] = "create"
    /\ IF job[w].amount \notin policy.allowed
       THEN WorkerDone(w) /\ UNCHANGED requests
       ELSE \E id \in 0 .. Len(requests) + 1 :
              /\ CreateRow(job[w].key, job[w].amount, id)
              /\ job' = [job EXCEPT ![w].id = id]
              /\ wpc' = [wpc EXCEPT ![w] = "load"]
    /\ UNCHANGED <<ledger, policy, reviewVars, abandoned, interrupted>>

\* Step 4, load_facts: of all the facts, the counter is the one the shipped
\* rules decide on.
LoadFacts(w) ==
    /\ wpc[w] = "load"
    /\ wpc' = [wpc EXCEPT ![w] = "evaluate"]
    /\ job' = [job EXCEPT ![w].count = SelfServiceCount]
    /\ UNCHANGED <<requests, ledger, policy, reviewVars, abandoned, interrupted>>

\* Fault: the limit is compared with `lte`.
InclusiveDecision(p, count) == IF count <= p.limit THEN p.within ELSE p.beyond

Decision(p, count) == IF count < p.limit THEN p.within ELSE p.beyond

\* decision_for_effect
ApprovedAmount(p, effect, amount) ==
    CASE effect = "auto_approve"        -> amount
      [] effect = "auto_approve_capped" -> IF p.cap < amount THEN p.cap ELSE amount
      [] OTHER                          -> 0

\* Fault: only a full approval goes on to the grant.
UncappedEvaluate(w) ==
    /\ wpc[w] = "evaluate"
    /\ LET effect == Decision(policy, job[w].count)
       IN  /\ job' = [job EXCEPT ![w].effect = effect,
                                 ![w].approved = ApprovedAmount(policy, effect, job[w].amount)]
           /\ wpc' = [wpc EXCEPT ![w] = IF effect = "auto_approve" THEN "grant" ELSE "record"]
    /\ UNCHANGED <<requests, ledger, policy, reviewVars, abandoned, interrupted>>

\* Fault: an engine that cannot be invoked fails the call.
UnresolvedEvaluate(w) ==
    /\ wpc[w] = "evaluate"
    /\ WorkerDone(w)
    /\ UNCHANGED <<requests, ledger, policy, reviewVars, abandoned, interrupted>>

\* abort_decision: what the engine answers when it lacks a fact
\* (required_fact_unavailable) or runs out of nodes (evaluation_budget_exceeded).
Aborted == {"manual_review", "deny"}

\* Step 5: the engine's answer, or manual review when it cannot be invoked at
\* all (policy_engine_unavailable).
Evaluate(w) ==
    /\ wpc[w] = "evaluate"
    /\ \E effect \in {Decision(policy, job[w].count), "manual_review"} \union Aborted :
         /\ job' = [job EXCEPT ![w].effect = effect,
                               ![w].approved = ApprovedAmount(policy, effect, job[w].amount)]
         /\ wpc' = [wpc EXCEPT ![w] = IF effect \in Approving
                                      THEN "grant" ELSE "record"]
    /\ UNCHANGED <<requests, ledger, policy, reviewVars, abandoned, interrupted>>

\* Step 6: the self-service grant, under the client's own key.
Grant(w) ==
    /\ wpc[w] = "grant"
    /\ \E g \in 1 .. Len(ledger) + 1 :
         /\ PostGrant([key |-> job[w].key, source |-> "self_service",
                       amount |-> job[w].approved, payee |-> job[w].id], g)
         /\ job' = [job EXCEPT ![w].grant = g]
    /\ wpc' = [wpc EXCEPT ![w] = "record"]
    /\ UNCHANGED <<requests, policy, reviewVars, abandoned, interrupted>>

\* Step 6, continued: the RecordedDecision each effect becomes.
StatusOf(effect) ==
    CASE effect = "auto_approve"        -> "auto_approved"
      [] effect = "auto_approve_capped" -> "partially_approved"
      [] effect = "manual_review"       -> "pending_review"
      [] effect \in {"deny", "no_action"} -> "denied"

\* RecordedDecision::decompose: the columns record_decision sets; only an
\* approval has an amount and a grant.
Decomposed(row, j) ==
    LET approval == j.effect \in Approving
    IN  [row EXCEPT !.status = StatusOf(j.effect), !.effect = j.effect,
                    !.approved = IF approval THEN j.approved ELSE 0,
                    !.grant = IF approval THEN j.grant ELSE 0]

\* record_decision: UPDATE ... WHERE id = $1, whatever the row's status.
RecordDecision(w) ==
    /\ wpc[w] = "record"
    /\ requests' = [requests EXCEPT ![job[w].id] = Decomposed(@, job[w])]
    /\ WorkerDone(w)
    /\ UNCHANGED <<ledger, policy, reviewVars, abandoned, interrupted>>

\* A call fails and its error propagates, or the process dies: what was
\* written stays, the rest of the sequence never happens.
WorkerStops(w) ==
    /\ wpc[w] # "idle"
    /\ WorkerDone(w)
    /\ abandoned' = IF job[w].id # 0 THEN abandoned \union {job[w].id} ELSE abandoned
    /\ UNCHANGED <<requests, ledger, policy, reviewVars, interrupted>>

-------------------------------------------------------------------------------
ReviewDone(r) ==
    /\ rpc' = [rpc EXCEPT ![r] = "idle"]
    /\ visit' = [visit EXCEPT ![r] = NoVisit]
    /\ reviewLock' = [reviewLock EXCEPT ![visit[r].id] = None]

\* Fault: the advisory lock is not waited for.
UnlockedAcquireReviewLock(r, id, action) ==
    /\ rpc[r] = "idle"
    /\ visit' = [visit EXCEPT ![r] = [NoVisit EXCEPT !.id = id, !.action = action]]
    /\ rpc' = [rpc EXCEPT ![r] = "read"]
    /\ UNCHANGED <<requests, ledger, policy, reviewLock, workerVars, abandoned, interrupted>>

\* approve / reject: acquire_review_lock waits for the request's advisory lock.
AcquireReviewLock(r, id, action) ==
    /\ rpc[r] = "idle"
    /\ reviewLock[id] = None
    /\ reviewLock' = [reviewLock EXCEPT ![id] = r]
    /\ visit' = [visit EXCEPT ![r] = [NoVisit EXCEPT !.id = id, !.action = action]]
    /\ rpc' = [rpc EXCEPT ![r] = "read"]
    /\ UNCHANGED <<requests, ledger, policy, workerVars, abandoned, interrupted>>

\* Fault: a session-level lock outlives the refusal.
LockKeepingReadRequest(r) ==
    /\ rpc[r] = "read"
    /\ requests[visit[r].id].status # "pending_review"
    /\ rpc' = [rpc EXCEPT ![r] = "idle"]
    /\ visit' = [visit EXCEPT ![r] = NoVisit]
    /\ UNCHANGED <<requests, ledger, policy, reviewLock, workerVars, abandoned, interrupted>>

\* AugmentationRepo::get, then AlreadyReviewed unless the row is pending.
ReadRequest(r) ==
    /\ rpc[r] = "read"
    /\ IF requests[visit[r].id].status # "pending_review"
       THEN ReviewDone(r)
       ELSE /\ rpc' = [rpc EXCEPT ![r] = IF visit[r].action = "approve" THEN "grant" ELSE "record"]
            /\ visit' = [visit EXCEPT ![r].amount = requests[visit[r].id].amount]
            /\ UNCHANGED reviewLock
    /\ UNCHANGED <<requests, ledger, policy, workerVars, abandoned, interrupted>>

\* Fault: the approval's grant carries no key.
KeylessReviewGrant(r) ==
    /\ rpc[r] = "grant"
    /\ ledger' = Append(ledger, [key |-> None, source |-> "manual_approval",
                                 amount |-> visit[r].amount, payee |-> visit[r].id])
    /\ visit' = [visit EXCEPT ![r].grant = Len(ledger) + 1]
    /\ rpc' = [rpc EXCEPT ![r] = "record"]
    /\ UNCHANGED <<requests, policy, reviewLock, workerVars, abandoned, interrupted>>

\* approve's grant, under a key derived from the request id alone.
ReviewGrant(r) ==
    /\ rpc[r] = "grant"
    /\ \E g \in 1 .. Len(ledger) + 1 :
         /\ PostGrant([key |-> ApprovalKey(visit[r].id), source |-> "manual_approval",
                       amount |-> visit[r].amount, payee |-> visit[r].id], g)
         /\ visit' = [visit EXCEPT ![r].grant = g]
    /\ rpc' = [rpc EXCEPT ![r] = "record"]
    /\ UNCHANGED <<requests, policy, reviewLock, workerVars, abandoned, interrupted>>

\* Fault: the verdict replaces the policy's effect.
EffectRecordReview(r) ==
    /\ rpc[r] = "record"
    /\ requests' = [requests EXCEPT ![visit[r].id] =
                      [@ EXCEPT !.status = IF visit[r].action = "approve" THEN "approved" ELSE "denied",
                                !.effect = IF visit[r].action = "approve" THEN "auto_approve" ELSE "deny",
                                !.grant = visit[r].grant, !.reviewed = TRUE]]
    /\ ReviewDone(r)
    /\ UNCHANGED <<ledger, policy, workerVars, abandoned, interrupted>>

\* record_review: UPDATE ... WHERE status = 'pending_review', else
\* AlreadyReviewed.  The lock's transaction ends with the call.
RecordReview(r) ==
    /\ rpc[r] = "record"
    /\ IF requests[visit[r].id].status = "pending_review"
       THEN requests' = [requests EXCEPT ![visit[r].id] =
                           [@ EXCEPT !.status = IF visit[r].action = "approve"
                                                THEN "approved" ELSE "denied",
                                     !.grant = visit[r].grant, !.reviewed = TRUE]]
       ELSE UNCHANGED requests
    /\ ReviewDone(r)
    /\ UNCHANGED <<ledger, policy, workerVars, abandoned, interrupted>>

\* The review fails or its process dies; the lock goes with its connection.
ReviewStops(r) ==
    /\ rpc[r] # "idle"
    /\ ReviewDone(r)
    /\ interrupted' = IF visit[r].grant # 0 THEN interrupted \union {visit[r].id} ELSE interrupted
    /\ UNCHANGED <<requests, ledger, policy, workerVars, abandoned>>

\* RuleDataEngine::load swaps the active rule set under requests in flight.
LoadPolicy(p) ==
    /\ p # policy
    /\ policy' = p
    /\ UNCHANGED <<requests, ledger, reviewVars, workerVars, abandoned, interrupted>>

-------------------------------------------------------------------------------
WorkerStep(w) ==
    Create(w) \/ LoadFacts(w) \/ Evaluate(w) \/ Grant(w) \/ RecordDecision(w)

ReviewStep(r) == ReadRequest(r) \/ ReviewGrant(r) \/ RecordReview(r)

WorkerNext(w) ==
    \/ \E key \in Keys \union {None}, amount \in Amounts : Submit(w, key, amount)
    \/ WorkerStep(w)
    \/ WorkerStops(w)

ReviewNext(r) ==
    \/ \E id \in DOMAIN requests, action \in {"approve", "reject"} : AcquireReviewLock(r, id, action)
    \/ ReviewStep(r)
    \/ ReviewStops(r)

Next ==
    \/ \E w \in Workers : WorkerNext(w)
    \/ \E r \in Reviewers : ReviewNext(r)
    \/ \E p \in Policies : LoadPolicy(p)

Spec == Init /\ [][Next]_vars

\* The executor polls a handler that is ready; no step of one waits for
\* anything but its own database call.  Clients need not submit, reviewers
\* need not come, and nothing makes a handler stop.
FairSpec ==
    /\ Spec
    /\ \A w \in Workers : WF_vars(WorkerStep(w))
    /\ \A r \in Reviewers : WF_vars(ReviewStep(r))

-------------------------------------------------------------------------------
Statuses == {"created", "auto_approved", "partially_approved", "pending_review",
             "approved", "denied"}

Paid(id) == {g \in DOMAIN ledger : ledger[g].payee = id}

RequestRow == [key : Keys \union {None}, amount : Amounts, status : Statuses,
               effect : Effects \union {"none"}, approved : Nat, grant : Nat, reviewed : BOOLEAN]

GrantRow == [key : Keys \union {None} \union {ApprovalKey(id) : id \in Ids},
             source : {"self_service", "manual_approval"}, amount : Nat, payee : Ids]

Job == [key : Keys \union {None}, amount : Amounts \union {0}, id : Nat, count : Nat,
        effect : Effects \union {"none"}, approved : Nat, grant : Nat]

Visit == [id : Nat, action : {"none", "approve", "reject"}, amount : Amounts \union {0}, grant : Nat]

\* The tables and every call in flight are well formed, and calls in flight
\* name rows that exist.
TypeOK ==
    /\ requests \in Seq(RequestRow) /\ Len(requests) <= MaxRequests
    /\ ledger \in Seq(GrantRow)
    /\ policy \in Policies
    /\ reviewLock \in [Ids -> Reviewers \union {None}]
    /\ wpc \in [Workers -> {"idle", "create", "load", "evaluate", "grant", "record"}]
    /\ job \in [Workers -> Job]
    /\ \A w \in Workers : wpc[w] # "idle" => job[w].amount \in Amounts
    /\ \A w \in Workers : wpc[w] \notin {"idle", "create"} => job[w].id \in DOMAIN requests
    /\ \A w \in Workers : wpc[w] \in {"grant", "record"} => job[w].effect \in Effects
    /\ rpc \in [Reviewers -> {"idle", "read", "grant", "record"}]
    /\ visit \in [Reviewers -> Visit]
    /\ \A r \in Reviewers : rpc[r] # "idle" => visit[r].id \in DOMAIN requests
    /\ abandoned \subseteq Nat /\ interrupted \subseteq Nat

\* Grant g was made for request id, unaided or on a reviewer's approval.
SelfServiceGrant(g, id) == g \in Paid(id) /\ ledger[g].source = "self_service"

ApprovalGrant(g, id) ==
    /\ g \in Paid(id) /\ ledger[g].source = "manual_approval"
    /\ ledger[g].amount = requests[id].amount

RowBacked(id) ==
    LET row == requests[id]
    IN  /\ row.status \in {"auto_approved", "partially_approved"} => SelfServiceGrant(row.grant, id)
        /\ row.status = "approved" => ApprovalGrant(row.grant, id)
        /\ row.status \in {"created", "pending_review", "denied"} => row.grant = 0

\* A row that reads as granted names a grant that is on the ledger, was made
\* for this very request, and came the way the status says; any other row
\* names none.
GrantedRowsAreBacked == \A id \in DOMAIN requests : RowBacked(id)

\* The counter is read before the grant and not re-checked under its lock, so
\* concurrent requests can pass the limit, but only by the ones already in
\* flight: one less than the number of handlers.
OvershootBounded == SelfServiceCount < Allowance + Cardinality(Workers)

\* The inductive form: once the allowance is used up, the grants beyond it and
\* the handlers that can still make one are together fewer than all handlers.
MayStillGrant ==
    {w \in Workers : wpc[w] = "grant" \/ (wpc[w] = "evaluate" /\ job[w].count < Allowance)}

OvershootInv ==
    SelfServiceCount >= Allowance =>
        SelfServiceCount + Cardinality(MayStillGrant) < Allowance + Cardinality(Workers)

\* What evaluation recorded is never overwritten, the discipline the migration's
\* header assigns to record_decision; and once a reviewer's verdict is on a row,
\* the row is final.
DecisionsStand ==
    [][\A id \in DOMAIN requests :
          /\ requests[id].effect # "none" => requests'[id].effect = requests[id].effect
          /\ requests[id].reviewed => requests'[id] = requests[id]]_vars

\* One request never pays twice: not by a retry, not by an approval on top of
\* an automatic grant, not by two reviewers.
OnePayoutPerRequest == \A id \in DOMAIN requests : Cardinality(Paid(id)) <= 1

\* review.rs: the unacceptable failure is "an outcome that reads as refused
\* while money moved anyway". With keyless submissions the one way to it is a
\* reject that follows an approve interrupted between its grant and its
\* record_review.
RefusedAndPaidOnlyIfInterrupted ==
    \A id \in DOMAIN requests :
        requests[id].status = "denied" /\ Paid(id) # {} => id \in interrupted

\* A row leaves `created` unless the handler that made it stopped half way.
DecidedUnlessAbandoned ==
    \A id \in Ids :
        id \in DOMAIN requests ~>
            (id \in DOMAIN requests /\ (requests[id].status # "created" \/ id \in abandoned))

\* No reviewer keeps a request's lock for ever.
ReviewLockReleased == \A id \in Ids : reviewLock[id] # None ~> reviewLock[id] = None
===============================================================================
