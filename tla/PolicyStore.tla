----------------------------- MODULE PolicyStore -----------------------------
(***************************************************************************)
(* The life of a budget policy: PolicyStore (budget/src/policy_store.rs)   *)
(* ties the tables budget_policy_sets and budget_policy_revisions to the   *)
(* in-memory RuleDataEngine of every server that loads it at startup       *)
(* (authz-api, authz-idp, authz-budget), and activate_budget_policy and    *)
(* create_budget_policy_revision (rest/src/lib.rs) call it.                *)
(*                                                                         *)
(* A document stands for a rule_data_json: its policy_revision and whether *)
(* validate_rule_data accepts it.  A revision row is named by its position *)
(* in the table.  Each database call is one step; so is the swap of the    *)
(* engine's rule set, which happens under the engine's write lock.         *)
(***************************************************************************)
EXTENDS Naturals, Sequences

CONSTANTS
    Servers,       \* processes that hold an engine
    Hosts,         \* those that also serve the policy procedures
    Admins,        \* concurrent callers of these procedures
    Names,         \* policy_revision strings
    Submissions,   \* the documents admins submit
    Targets,       \* the revision ids admins ask to go back to
    Down,          \* no engine: the process is not serving
    MaxRevisions   \* bound on the rows of budget_policy_revisions

Document == [name : Names, valid : BOOLEAN]

\* What the migrations insert, the last row active.  The first row was written
\* before rule data had to carry the amounts that validate now requires.
Seed == << [name |-> "budget-policy-v1", valid |-> FALSE],
           [name |-> "budget-policy-v2-adr0015", valid |-> TRUE] >>

ASSUME ConstantsAssumption ==
    /\ Hosts \subseteq Servers
    /\ {"budget-policy-v1", "budget-policy-v2-adr0015"} \subseteq Names
    /\ Submissions \subseteq Document
    /\ Down \notin Document
    /\ MaxRevisions \in Nat

VARIABLES
    revisions,     \* budget_policy_revisions, in order of insertion
    active,        \* budget_policy_sets.active_revision_id
    engine,        \* the rule set each server evaluates
    call,          \* where each admin's activation is, and its locals
    activated,     \* history: the revisions that have been active
    unreconciled   \* history: servers whose last activation did not reach its
                   \* swap, or reported that database and engine disagree

vars == <<revisions, active, engine, call, activated, unreconciled>>

NoCall == [pc |-> "idle"]
Calls == [pc : {"write", "repoint", "load"}, server : Hosts, id : Nat, doc : Document]

Init ==
    /\ revisions = Seed
    /\ active = Len(Seed)
    /\ engine = [p \in Servers |-> Seed[Len(Seed)]]
    /\ call = [a \in Admins |-> NoCall]
    /\ activated = {Len(Seed)}
    /\ unreconciled = {}

-------------------------------------------------------------------------------
Running(p) == engine[p] # Down

\* UNIQUE (policy_set_id, policy_revision).
NameTaken(d) == \E i \in DOMAIN revisions : revisions[i].name = d.name

Return(a) == call' = [call EXCEPT ![a] = NoCall]

MakeActive(id) ==
    /\ active' = id
    /\ activated' = activated \union {id}

\* Fault: the engine swaps before the transaction commits.
SwapFirstActivate(a, p, d) ==
    /\ call[a] = NoCall /\ p \in Hosts /\ Running(p) /\ d.valid
    /\ call' = [call EXCEPT ![a] = [pc |-> "write", server |-> p, id |-> 0, doc |-> d]]
    /\ engine' = [engine EXCEPT ![p] = d]
    /\ UNCHANGED <<revisions, active, activated, unreconciled>>

\* Fault: rule data is not validated before it is written.
UnvalidatedActivate(a, p, d) ==
    /\ call[a] = NoCall /\ p \in Hosts /\ Running(p)
    /\ call' = [call EXCEPT ![a] = [pc |-> "write", server |-> p, id |-> 0, doc |-> d]]
    /\ UNCHANGED <<revisions, active, engine, activated, unreconciled>>

\* activate, up to its transaction: rejected rule data leaves no trace.
Activate(a, p, d) ==
    /\ call[a] = NoCall /\ p \in Hosts /\ Running(p) /\ d.valid
    /\ call' = [call EXCEPT ![a] = [pc |-> "write", server |-> p, id |-> 0, doc |-> d]]
    /\ UNCHANGED <<revisions, active, engine, activated, unreconciled>>

\* Its transaction: insert the revision and repoint active_revision_id at it.
\* The unique index turns a used name into an error.
CommitActivation(a) ==
    /\ call[a].pc = "write"
    /\ IF NameTaken(call[a].doc)
       THEN Return(a) /\ UNCHANGED <<revisions, active, activated>>
       ELSE /\ Len(revisions) < MaxRevisions
            /\ revisions' = Append(revisions, call[a].doc)
            /\ MakeActive(Len(revisions) + 1)
            /\ call' = [call EXCEPT ![a].pc = "load", ![a].id = Len(revisions) + 1]
    /\ UNCHANGED <<engine, unreconciled>>

\* activate_by_revision_id: read the row (an unknown id is an error) ...
SelectRevision(a, p, id) ==
    /\ call[a] = NoCall /\ p \in Hosts /\ Running(p)
    /\ id \in DOMAIN revisions
    /\ call' = [call EXCEPT ![a] = [pc |-> "repoint", server |-> p, id |-> id, doc |-> revisions[id]]]
    /\ UNCHANGED <<revisions, active, engine, activated, unreconciled>>

\* ... and repoint active_revision_id at it.
Repoint(a) ==
    /\ call[a].pc = "repoint"
    /\ MakeActive(call[a].id)
    /\ call' = [call EXCEPT ![a].pc = "load"]
    /\ UNCHANGED <<revisions, engine, unreconciled>>

\* RuleDataEngine::load, at the end of both: swap, or keep the last-known-good
\* rule set and answer that the database and the engine now disagree.
Load(a) ==
    /\ call[a].pc = "load"
    /\ LET p == call[a].server
       IN IF call[a].doc.valid
          THEN /\ engine' = [engine EXCEPT ![p] = call[a].doc]
               /\ unreconciled' = unreconciled \ {p}
          ELSE /\ unreconciled' = unreconciled \union {p}
               /\ UNCHANGED engine
    /\ Return(a)
    /\ UNCHANGED <<revisions, active, activated>>

\* create_revision: write a valid revision without activating it.
CreateRevision(p, d) ==
    /\ p \in Hosts /\ Running(p) /\ d.valid
    /\ Len(revisions) < MaxRevisions /\ ~ NameTaken(d)
    /\ revisions' = Append(revisions, d)
    /\ UNCHANGED <<active, engine, call, activated, unreconciled>>

\* A call ends early: the client goes away and its handler is dropped, or the
\* answer of the database is lost.
CallStops(a) ==
    /\ call[a] # NoCall
    /\ Return(a)
    /\ unreconciled' = IF call[a].pc = "load" THEN unreconciled \union {call[a].server} ELSE unreconciled
    /\ UNCHANGED <<revisions, active, engine, activated>>

\* A process goes down, and its calls with it.
Crash(p) ==
    /\ Running(p)
    /\ engine' = [engine EXCEPT ![p] = Down]
    /\ call' = [a \in Admins |-> IF call[a] # NoCall /\ call[a].server = p THEN NoCall ELSE call[a]]
    /\ unreconciled' = unreconciled \ {p}
    /\ UNCHANGED <<revisions, active, activated>>

\* load_active_from_db at startup: a revision that does not validate is a
\* startup error, and the process stays down.
Start(p) ==
    /\ ~ Running(p) /\ revisions[active].valid
    /\ engine' = [engine EXCEPT ![p] = revisions[active]]
    /\ UNCHANGED <<revisions, active, call, activated, unreconciled>>

AdminStep(a) == CommitActivation(a) \/ Repoint(a) \/ Load(a)

Next ==
    \/ \E a \in Admins :
        \/ \E p \in Servers, d \in Submissions : Activate(a, p, d)
        \/ \E p \in Servers, id \in Targets : SelectRevision(a, p, id)
        \/ AdminStep(a)
        \/ CallStops(a)
    \/ \E p \in Servers, d \in Submissions : CreateRevision(p, d)
    \/ \E p \in Servers : Crash(p) \/ Start(p)

Spec == Init /\ [][Next]_vars

\* A process that is down is restarted.
FairSpec == Spec /\ \A p \in Servers : WF_vars(Start(p))

-------------------------------------------------------------------------------
\* Type invariant of the tables, the engines and the calls in flight.
TypeOK ==
    /\ revisions \in Seq(Document)
    /\ active \in DOMAIN revisions
    /\ engine \in [Servers -> Document \union {Down}]
    /\ call \in [Admins -> Calls \union {NoCall}]
    /\ activated \subseteq DOMAIN revisions
    /\ unreconciled \subseteq Servers

\* policy_store.rs: the engine is swapped only after the transaction commits,
\* so no server ever decides refills under rule data that was not, at some
\* time, the active revision of the database, or that does not validate.
ServesOnceActive ==
    \A p \in Servers : Running(p) =>
        /\ engine[p].valid
        /\ \E i \in activated : revisions[i] = engine[p]

\* docs/architecture/data-model.md: activation is validated before the pointer
\* moves, so a bad revision never displaces a good one.  The active revision
\* is always one that load_active_from_db can start a server from.
ActiveLoads == revisions[active].valid

AtRest == \A a \in Admins : call[a] = NoCall

\* rest/src/lib.rs, start_api_server and start_idp_server: a server does not
\* need a restart to see a policy change.  When no activation is running, every
\* server whose last activation went through serves the active revision.
NeverDrifts ==
    AtRest => \A p \in Servers \ unreconciled : Running(p) => engine[p] = revisions[active]

\* start_*_server: a process that went down comes back with the active policy.
OutageEnds == \A p \in Servers : ~ Running(p) ~> Running(p)
===============================================================================
