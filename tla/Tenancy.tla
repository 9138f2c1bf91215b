------------------------------- MODULE Tenancy -------------------------------
(***************************************************************************)
(* Accounts, projects and project rosters: the hand-written SQL of         *)
(* `StoreRepo` behind the handlers of `AuthzStoreImpl`, and the generated  *)
(* create and delete verbs of `Project` the MCP tools and the RPC surface  *)
(* share (their policy is the schema's `@@allow` clauses).                 *)
(*                                                                         *)
(* One SQL statement is one step.  An operation of a single statement is   *)
(* one action; the lead-gated roster operations (two reads, then a write,  *)
(* no transaction) and the two transactions (`set_default_project`,        *)
(* `set_project_model_policy`) are calls that other clients' steps         *)
(* interleave with.  A transaction's uncommitted writes are invisible; the *)
(* project rows it has written are locked and other writers of them wait.  *)
(*                                                                         *)
(* A request that is refused (an unlisted tier, no standing, a duplicate)  *)
(* leaves the tables alone; its answer is not part of the state.  Columns  *)
(* no other operation reads back (names, billing identities, limits,       *)
(* timestamps) are left out.                                               *)
(***************************************************************************)
EXTENDS Optional, Naturals, FiniteSets

CONSTANTS
    Subjects,     \* JWT subjects; an account's id is its subject
    Projects,     \* project ids (cuid2: an id is never used twice)
    Calls,        \* slots for the operations of several statements
    TierNames, TierCatalogue,    \* tiers a caller may name; tiers configured
    ModelNames, ModelCatalogue,  \* the same for model ids
    Unborn, Gone  \* a project id before its INSERT and after its DELETE

Policies == {"allow_all", "allowlist", "deny_all"}
Roles == {"lead", "member"}
AccountRows == [status : {"active", "suspended"}, quota : TierNames \cup {Nil}]
ProjectRows ==
    [account : Subjects, status : {"active", "suspended"}, isDefault : BOOLEAN,
     policy : Policies, models : {Nil} \cup SUBSET ModelNames,
     quota : TierNames \cup {Nil}]
MemberRows == [role : Roles, tier : TierNames \cup {Nil}]

ASSUME TenancyAssumption ==
    /\ Nil \notin Subjects \cup Projects \cup Calls \cup TierNames
    /\ Nil \notin AccountRows \cup MemberRows
    /\ \A ms \in SUBSET ModelNames : ms # Nil
    /\ Unborn \notin ProjectRows /\ Gone \notin ProjectRows /\ Unborn # Gone
    /\ TierCatalogue \subseteq TierNames
    /\ ModelCatalogue \subseteq ModelNames

VARIABLES
    accounts,     \* accounts[s]: the row of subject s, or Nil
    projects,     \* projects[p]: the row of p; Unborn before, Gone after
    members,      \* members[p][s]: the roster row of s on p, or Nil
    locked,       \* locked[p]: the call whose transaction holds the row of p
    calls,        \* calls[c]: the operation in progress in slot c
    led           \* history: every <<s, p>> that ever owned or led p

tenancyVars == <<accounts, projects, members, locked, calls, led>>

Idle == [at |-> "idle"]
Live(p) == projects[p] \notin {Unborn, Gone}
Owns(s, p) == Live(p) /\ projects[p].account = s
OnRoster(s, p) == members[p][s] # Nil
NoMembers == [s \in Subjects |-> Nil]

\* The predicate of every project-scoped statement: the owning account or any
\* roster row.
Standing(s, p) == Live(p) /\ (projects[p].account = s \/ OnRoster(s, p))

Leads(s, p) == Live(p) /\ ( \/ projects[p].account = s
                            \/ OnRoster(s, p) /\ members[p][s].role = "lead" )
Remember == led' = led \cup {sp \in Subjects \X Projects : Leads(sp[1], sp[2])'}

\* `QuotaTiers::is_allowed`: NULL always, anything when no catalogue is set.
is_allowed(t) == t = Nil \/ TierCatalogue = {} \/ t \in TierCatalogue

\* `ModelCatalog::invalid_ids`: the entries a non-empty catalogue lacks.
invalid_ids(ms) ==
    IF ms = Nil \/ ModelCatalogue = {} THEN {} ELSE ms \ ModelCatalogue

\* `ModelPolicy::parse_strict`: only the three canonical strings.
parse_strict(s) == IF s \in Policies THEN s ELSE Nil

Init ==
    /\ accounts = [s \in Subjects |-> Nil]
    /\ projects = [p \in Projects |-> Unborn]
    /\ members = [p \in Projects |-> NoMembers]
    /\ locked = [p \in Projects |-> Nil]
    /\ calls = [c \in Calls |-> Idle]
    /\ led = {}

-----------------------------------------------------------------------------
(* Accounts *)

\* createAccount: the handler checks the tier, the primary key refuses a
\* second account of the subject.
create_account(s, t) ==
    /\ is_allowed(t)
    /\ accounts[s] = Nil
    /\ accounts' = [accounts EXCEPT ![s] = [status |-> "active", quota |-> t]]
    /\ UNCHANGED <<projects, members, locked, calls>>

update_account_default_quota(s, t) ==
    /\ is_allowed(t)
    /\ accounts[s] # Nil
    /\ accounts' = [accounts EXCEPT ![s].quota = t]
    /\ UNCHANGED <<projects, members, locked, calls>>

\* disableAccount and enableAccount.
set_account_status(s, status) ==
    /\ accounts[s] # Nil
    /\ accounts' = [accounts EXCEPT ![s].status = status]
    /\ UNCHANGED <<projects, members, locked, calls>>

\* deleteAccountPermanently, with the ON DELETE CASCADE of its projects, their
\* rosters and the account's own roster rows.
delete_account(s) ==
    /\ accounts[s] # Nil
    /\ \A p \in Projects : Owns(s, p) => locked[p] = Nil
    /\ accounts' = [accounts EXCEPT ![s] = Nil]
    /\ projects' = [p \in Projects |-> IF Owns(s, p) THEN Gone ELSE projects[p]]
    /\ members' = [p \in Projects |->
                     IF Owns(s, p) THEN NoMembers ELSE [members[p] EXCEPT ![s] = Nil]]
    /\ UNCHANGED <<locked, calls>>

-----------------------------------------------------------------------------
(* Projects: the statements of one step *)

\* The trigger `set_project_is_default`: the account's first project.
set_project_is_default(s) == ~ \E p \in Projects : Owns(s, p)

\* model.Project.create: only under the caller's own account; quota and models
\* start NULL, the policy at its column default.
create_project(s, p) ==
    /\ accounts[s] # Nil
    /\ projects[p] = Unborn
    /\ projects' = [projects EXCEPT ![p] =
         [account |-> s, status |-> "active", isDefault |-> set_project_is_default(s),
          policy |-> "allow_all", models |-> Nil, quota |-> Nil]]
    /\ UNCHANGED <<accounts, members, locked, calls>>

\* Fault: the schema's delete clause without `isDefault != true`.
DeletesDefaultToo(s, p) ==
    /\ Owns(s, p)
    /\ locked[p] = Nil
    /\ projects' = [projects EXCEPT ![p] = Gone]
    /\ members' = [members EXCEPT ![p] = NoMembers]
    /\ UNCHANGED <<accounts, locked, calls>>

\* model.Project.delete: the owner, and never the default project.
delete_project(s, p) ==
    /\ Owns(s, p)
    /\ ~ projects[p].isDefault
    /\ locked[p] = Nil
    /\ projects' = [projects EXCEPT ![p] = Gone]
    /\ members' = [members EXCEPT ![p] = NoMembers]
    /\ UNCHANGED <<accounts, locked, calls>>

\* disableProject and enableProject.
set_project_status(s, p, status) ==
    /\ Standing(s, p)
    /\ locked[p] = Nil
    /\ projects' = [projects EXCEPT ![p].status = status]
    /\ UNCHANGED <<accounts, members, locked, calls>>

set_project_quota(s, p, t) ==
    /\ is_allowed(t)
    /\ Standing(s, p)
    /\ locked[p] = Nil
    /\ projects' = [projects EXCEPT ![p].quota = t]
    /\ UNCHANGED <<accounts, members, locked, calls>>

\* The list may be emptied whatever the policy is: no clause reads it.
set_project_allowed_models(s, p, ms) ==
    /\ invalid_ids(ms) = {}
    /\ Standing(s, p)
    /\ locked[p] = Nil
    /\ projects' = [projects EXCEPT ![p].models = ms]
    /\ UNCHANGED <<accounts, members, locked, calls>>

-----------------------------------------------------------------------------
(* Transactions on project rows *)

Return(c) == calls' = [calls EXCEPT ![c] = Idle]
Unlocked(c) == [p \in Projects |-> IF locked[p] = c THEN Nil ELSE locked[p]]

\* Fault: the list is read without FOR UPDATE.
PolicyReadUnlocked(c, s, p, policy) ==
    /\ calls[c] = Idle
    /\ Standing(s, p)
    /\ locked[p] = Nil
    /\ policy = "allowlist" => projects[p].models \notin {Nil, {}}
    /\ calls' = [calls EXCEPT ![c] = [at |-> "policy", p |-> p, policy |-> policy]]
    /\ UNCHANGED <<accounts, projects, members, locked>>

\* setProjectModelPolicy: the handler parses the value; the transaction reads
\* the row FOR UPDATE and refuses the allowlist over an empty or absent list.
set_project_model_policy(c, s, p, policy) ==
    /\ calls[c] = Idle
    /\ parse_strict(policy) # Nil
    /\ Standing(s, p)
    /\ locked[p] = Nil
    /\ policy = "allowlist" => projects[p].models \notin {Nil, {}}
    /\ locked' = [locked EXCEPT ![p] = c]
    /\ calls' = [calls EXCEPT ![c] = [at |-> "policy", p |-> p, policy |-> policy]]
    /\ UNCHANGED <<accounts, projects, members>>

\* The UPDATE and the commit.
PolicyWritten(c) ==
    /\ calls[c].at = "policy"
    /\ LET p == calls[c].p IN
         projects' = IF Live(p) THEN [projects EXCEPT ![p].policy = calls[c].policy]
                                ELSE projects
    /\ locked' = Unlocked(c)
    /\ Return(c)
    /\ UNCHANGED <<accounts, members>>

\* setDefaultProject, first statement: the account behind the project, read
\* without a lock.
set_default_project(c, s, p) ==
    /\ calls[c] = Idle
    /\ Standing(s, p)
    /\ calls' = [calls EXCEPT ![c] =
                   [at |-> "demote", p |-> p, account |-> projects[p].account]]
    /\ UNCHANGED <<accounts, projects, members, locked>>

Demoted(c) == {q \in Projects \ {calls[c].p} :
                  Owns(calls[c].account, q) /\ projects[q].isDefault}

\* Second statement: the account's other default row is unset, uncommitted.
DefaultDemoted(c) ==
    /\ calls[c].at = "demote"
    /\ \A q \in Demoted(c) : locked[q] = Nil
    /\ locked' = [q \in Projects |-> IF q \in Demoted(c) THEN c ELSE locked[q]]
    /\ calls' = [calls EXCEPT ![c].at = "promote"]
    /\ UNCHANGED <<accounts, projects, members>>

\* The partial unique index over is_default, as the third statement meets it:
\* a committed default of the account that this transaction did not unset.
DefaultClash(c) ==
    \E q \in Projects \ {calls[c].p} :
        /\ Owns(calls[c].account, q)
        /\ projects[q].isDefault
        /\ locked[q] # c

\* Third statement and commit; a project deleted meanwhile (no row returned)
\* or a clash with the index rolls everything back.
DefaultPromoted(c) ==
    /\ calls[c].at = "promote"
    /\ locked[calls[c].p] = Nil
    /\ projects' =
         IF Live(calls[c].p) /\ ~ DefaultClash(c)
         THEN [q \in Projects |->
                 IF locked[q] = c THEN [projects[q] EXCEPT !.isDefault = FALSE]
                 ELSE IF q = calls[c].p THEN [projects[q] EXCEPT !.isDefault = TRUE]
                 ELSE projects[q]]
         ELSE projects
    /\ locked' = Unlocked(c)
    /\ Return(c)
    /\ UNCHANGED <<accounts, members>>

-----------------------------------------------------------------------------
(* The lead-gated roster operations: two reads, then one write *)

validate_project_role(role) == role \in Roles

\* The shared entry: what the call will do once it is authorized.
Ask(c, s, p, t, op, arg) ==
    /\ calls[c] = Idle
    /\ calls' = [calls EXCEPT ![c] =
         [at |-> "owner", s |-> s, p |-> p, t |-> t, op |-> op, arg |-> arg]]
    /\ UNCHANGED <<accounts, projects, members, locked>>

add_project_member(c, s, p, t, role) ==
    validate_project_role(role) /\ Ask(c, s, p, t, "add", role)

remove_project_member(c, s, p, t) == Ask(c, s, p, t, "remove", Nil)

set_project_member_role(c, s, p, t, role) ==
    validate_project_role(role) /\ Ask(c, s, p, t, "role", role)

set_project_member_quota_tier(c, s, p, t, tier) ==
    is_allowed(tier) /\ Ask(c, s, p, t, "tier", tier)

\* `authorize_project_lead`: the owner at the first read, else a lead at the
\* second; a plain member is Forbidden, a stranger NotFound.
authorize_project_lead(c) ==
    /\ calls[c].at \in {"owner", "member_role"}
    /\ LET s == calls[c].s  p == calls[c].p IN
         IF calls[c].at = "owner"
         THEN IF ~ Live(p) THEN Return(c)
              ELSE calls' = [calls EXCEPT ![c].at =
                               IF Owns(s, p) THEN "write" ELSE "member_role"]
         ELSE IF OnRoster(s, p) /\ members[p][s].role = "lead"
              THEN calls' = [calls EXCEPT ![c].at = "write"]
              ELSE Return(c)
    /\ UNCHANGED <<accounts, projects, members, locked>>

\* The write, unconditional on the standing read before it: an INSERT ... ON
\* CONFLICT DO NOTHING under its two foreign keys, a DELETE or an UPDATE.
RosterRow(c) ==
    LET k == calls[c]  row == members[k.p][k.t] IN
    CASE k.op = "add" -> IF row = Nil /\ Live(k.p) /\ accounts[k.t] # Nil
                         THEN [role |-> k.arg, tier |-> Nil] ELSE row
      [] k.op = "remove" -> Nil
      [] k.op = "role" -> IF row = Nil THEN Nil ELSE [row EXCEPT !.role = k.arg]
      [] k.op = "tier" -> IF row = Nil THEN Nil ELSE [row EXCEPT !.tier = k.arg]

RosterWritten(c) ==
    /\ calls[c].at = "write"
    /\ members' = [members EXCEPT ![calls[c].p][calls[c].t] = RosterRow(c)]
    /\ Return(c)
    /\ UNCHANGED <<accounts, projects, locked>>

-----------------------------------------------------------------------------
Comings ==
    \E s \in Subjects :
        \/ create_account(s, Nil)
        \/ delete_account(s)
        \/ \E p \in Projects : create_project(s, p) \/ delete_project(s, p)

Defaults ==
    \E c \in Calls :
        \/ \E s \in Subjects, p \in Projects : set_default_project(c, s, p)
        \/ DefaultDemoted(c)
        \/ DefaultPromoted(c)

Rosters ==
    \E c \in Calls :
        \/ authorize_project_lead(c)
        \/ RosterWritten(c)
        \/ \E s, t \in Subjects, p \in Projects :
             \/ remove_project_member(c, s, p, t)
             \/ \E role \in Roles : \/ add_project_member(c, s, p, t, role)
                                    \/ set_project_member_role(c, s, p, t, role)

Statuses ==
    \E s \in Subjects, status \in {"active", "suspended"} :
        \/ set_account_status(s, status)
        \/ \E p \in Projects : set_project_status(s, p, status)

\* The governance columns: tiers, models and the model policy.
Settings ==
    \/ \E s \in Subjects, p \in Projects :
         \/ \E t \in TierNames \cup {Nil} :
              \/ update_account_default_quota(s, t)
              \/ set_project_quota(s, p, t)
              \/ \E c \in Calls, u \in Subjects :
                   set_project_member_quota_tier(c, s, p, u, t)
         \/ \E ms \in {Nil} \cup SUBSET ModelNames : set_project_allowed_models(s, p, ms)
         \/ \E c \in Calls, policy \in Policies : set_project_model_policy(c, s, p, policy)
    \/ \E c \in Calls :
         PolicyWritten(c) \/ authorize_project_lead(c) \/ RosterWritten(c)

Next == (Comings \/ Defaults \/ Rosters \/ Statuses \/ Settings) /\ Remember

Spec == Init /\ [][Next]_tenancyVars

-----------------------------------------------------------------------------
(* Properties *)

CallRecords ==
    {Idle}
      \cup [at : {"policy"}, p : Projects, policy : Policies]
      \cup [at : {"demote", "promote"}, p : Projects, account : Subjects]
      \cup [at : {"owner", "member_role", "write"}, s : Subjects, p : Projects,
            t : Subjects, op : {"add", "remove", "role", "tier"},
            arg : Roles \cup TierNames \cup {Nil}]

\* Type invariant, with the foreign keys: a project has its account's row, a
\* roster row has its project's and its account's.
TenancyTypeOK ==
    /\ \A s \in Subjects : accounts[s] \in AccountRows \cup {Nil}
    /\ \A p \in Projects :
         /\ projects[p] \in ProjectRows \cup {Unborn, Gone}
         /\ Live(p) => accounts[projects[p].account] # Nil
         /\ locked[p] \in Calls \cup {Nil}
         /\ \A s \in Subjects :
              /\ members[p][s] \in MemberRows \cup {Nil}
              /\ OnRoster(s, p) => Live(p) /\ accounts[s] # Nil
    /\ \A c \in Calls : calls[c] \in CallRecords

\* An account with a project has exactly one default project, however
\* creations, deletions and racing `setDefaultProject` transactions interleave:
\* the trigger, the schema's delete clause and the rollback together keep one,
\* and `projects_account_id_default_uidx`, reached by unset-then-set, no more.
ExactlyOneDefault ==
    /\ \A s \in Subjects : (\E p \in Projects : Owns(s, p)) =>
         \E d \in Projects : Owns(s, d) /\ projects[d].isDefault
    /\ \A p, q \in Projects :
         (Live(p) /\ Live(q) /\ projects[p].account = projects[q].account
            /\ projects[p].isDefault /\ projects[q].isDefault) => p = q

\* A roster row appears or changes only by a call of a subject who owned or led
\* the project at some time (`authorize_project_lead` is a read of its own, so
\* the standing may be gone again when the row is written); the other way a
\* row disappears is the cascade of a deleted project or account.
RosterChangedByLeads ==
    [][\A p \in Projects, t \in Subjects :
         (members'[p][t] # members[p][t]) =>
            \/ members'[p][t] = Nil /\ (~ Live(p)' \/ accounts'[t] = Nil)
            \/ \E c \in Calls : /\ calls[c].at = "write"
                                /\ calls'[c] = Idle
                                /\ calls[c].p = p
                                /\ <<calls[c].s, p>> \in led]_tenancyVars

\* Every tier and every model stored in a column was named by the configured
\* catalogue, whichever of the five setters wrote it.
CatalogueHeld ==
    /\ \A s \in Subjects : accounts[s] # Nil => is_allowed(accounts[s].quota)
    /\ \A p \in Projects : Live(p) =>
         /\ is_allowed(projects[p].quota)
         /\ invalid_ids(projects[p].models) = {}
         /\ \A s \in Subjects : OnRoster(s, p) => is_allowed(members[p][s].tier)

\* A project is switched to the allowlist only while its list has an entry at
\* the moment of the switch: no concurrent `setProjectAllowedModels` slips an
\* empty list in between the check and the write.
AllowlistSwitchGuarded ==
    [][\A p \in Projects :
         (Live(p) /\ Live(p)' /\ projects'[p].policy = "allowlist"
            /\ projects[p].policy # "allowlist") =>
               projects[p].models \notin {Nil, {}}]_tenancyVars
=============================================================================
