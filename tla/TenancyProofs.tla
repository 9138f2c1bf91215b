--------------------------- MODULE TenancyProofs ---------------------------
(***************************************************************************)
(* Tenancy, for any subjects, projects, concurrent calls and catalogues:   *)
(* its inductive invariant, that every operation preserves it, and the     *)
(* theorems that follow.                                                   *)
(*                                                                         *)
(* None of the properties is inductive by itself: what a transaction or a  *)
(* roster call will write was read some steps earlier.  The invariant      *)
(* therefore says what still holds of it (LockInv of the two transactions, *)
(* CallInv of the roster calls) next to the foreign keys.                  *)
(***************************************************************************)
EXTENDS Tenancy, TLAPS

Types ==
    /\ accounts \in [Subjects -> AccountRows \cup {Nil}]
    /\ projects \in [Projects -> ProjectRows \cup {Unborn, Gone}]
    /\ members \in [Projects -> [Subjects -> MemberRows \cup {Nil}]]
    /\ locked \in [Projects -> Calls \cup {Nil}]
    /\ calls \in [Calls -> CallRecords]

\* The foreign keys.
ForeignKeys ==
    \A p \in Projects :
        /\ Live(p) => accounts[projects[p].account] # Nil
        /\ \A s \in Subjects : OnRoster(s, p) => Live(p) /\ accounts[s] # Nil

\* A row is locked by the policy transaction about to write it, or by the
\* default transaction that has unset it; a policy transaction's row is there
\* and has what its check found; a project is never reborn under another account.
LocksHeld(c) ==
    /\ \A q \in Projects : locked[q] = c =>
         \/ calls[c].at = "policy" /\ calls[c].p = q
         \/ /\ calls[c].at = "promote" /\ q # calls[c].p
            /\ Owns(calls[c].account, q)
    /\ calls[c].at = "policy" =>
         /\ Live(calls[c].p) /\ locked[calls[c].p] = c
         /\ calls[c].policy = "allowlist" => projects[calls[c].p].models \notin {Nil, {}}
    /\ calls[c].at \in {"demote", "promote"} =>
         /\ projects[calls[c].p] # Unborn
         /\ Live(calls[c].p) => projects[calls[c].p].account = calls[c].account

LockInv == \A c \in Calls : LocksHeld(c)

\* What a roster call will write was validated, and a call that will write was
\* authorized when its caller led the project.
RosterCall == {"owner", "member_role", "write"}
CallSound(c) ==
    /\ calls[c].at \in RosterCall =>
         /\ calls[c].op \in {"add", "role"} => calls[c].arg \in Roles
         /\ calls[c].op = "tier" =>
              calls[c].arg \in TierNames \cup {Nil} /\ is_allowed(calls[c].arg)
    /\ calls[c].at = "write" => <<calls[c].s, calls[c].p>> \in led

CallInv == \A c \in Calls : CallSound(c)

\* Whoever leads a project now is remembered.
LedInv == \A s \in Subjects, p \in Projects : Leads(s, p) => <<s, p>> \in led

\* The inductive invariant.
TenancyInv ==
    Types /\ ForeignKeys /\ LockInv /\ CallInv /\ LedInv /\ CatalogueHeld /\ ExactlyOneDefault

-----------------------------------------------------------------------------
\* What the record of a call under way holds.
LEMMA CallFields ==
    ASSUME NEW k \in CallRecords
    PROVE  /\ k.at \in RosterCall => /\ k.s \in Subjects /\ k.p \in Projects /\ k.t \in Subjects
                                     /\ k.op \in {"add", "remove", "role", "tier"}
           /\ k.at = "demote" =>
                LET n == [k EXCEPT !.at = "promote"]
                IN n \in CallRecords /\ n.at = "promote" /\ n.p = k.p /\ n.account = k.account
  BY SMTT(20) DEF CallRecords, Idle, RosterCall

\* The empty tables satisfy the invariant.
LEMMA TenancyInitInv == Init => TenancyInv
<1> SUFFICES ASSUME Init PROVE TenancyInv
  OBVIOUS
<1>1. \A p \in Projects : ~Live(p) /\ members[p] = NoMembers
  BY DEF Init, Live
<1>2. \A c \in Calls : calls[c] = Idle
  BY DEF Init
<1>3. Types
  BY DEF Init, Types, NoMembers, CallRecords
<1>4. ForeignKeys /\ CatalogueHeld /\ ExactlyOneDefault /\ LedInv
  BY <1>1 DEF Init, ForeignKeys, OnRoster, NoMembers, CatalogueHeld, ExactlyOneDefault, Owns,
              LedInv, Leads
<1>5. LockInv /\ CallInv
  BY <1>2, TenancyAssumption DEF Init, LockInv, LocksHeld, CallInv, CallSound, RosterCall, Idle
<1> QED
  BY <1>3, <1>4, <1>5 DEF TenancyInv

\* The history grows, and covers the leads of the next state.
LEMMA RememberInv ==
  ASSUME Remember
  PROVE  LedInv' /\ led \subseteq led'
  BY DEF Remember, LedInv

\* A live project has a row.
LEMMA LiveRow ==
  ASSUME Types, NEW p \in Projects
  PROVE  Live(p) <=> projects[p] \in ProjectRows
  BY TenancyAssumption DEF Types, Live

\* A call that a step leaves alone keeps its part of LockInv when no project it
\* knows of changes its account and none it has locked goes or changes its list.
LEMMA LockKept ==
  ASSUME Types, LockInv, NEW d \in Calls, calls'[d] = calls[d],
         \A q \in Projects : locked'[q] = d <=> locked[q] = d,
         \A q \in Projects : projects[q] # Unborn => projects'[q] # Unborn,
         \A q \in Projects : projects[q] # Unborn /\ Live(q)' =>
            Live(q) /\ projects'[q].account = projects[q].account,
         \A q \in Projects : locked[q] = d /\ Live(q) =>
            Live(q)' /\ projects'[q].models = projects[q].models
  PROVE  LocksHeld(d)'
<1>1. LocksHeld(d)
  BY DEF LockInv
<1>2. calls[d].at \in {"policy", "demote", "promote"} => calls[d].p \in Projects
  BY DEF Types, CallRecords, Idle
<1>3. \A q \in Projects : locked[q] = d => Live(q)
  BY <1>1 DEF LocksHeld, Owns
<1>4. ASSUME NEW q \in Projects, locked'[q] = d
      PROVE  \/ calls[d].at = "policy" /\ calls[d].p = q
             \/ /\ calls[d].at = "promote" /\ q # calls[d].p
                /\ Owns(calls[d].account, q)'
  <2>1. locked[q] = d /\ Live(q) /\ Live(q)' /\ projects[q] # Unborn
    BY <1>3, <1>4 DEF Live
  <2>2. projects'[q].account = projects[q].account
    BY <2>1
  <2>3. \/ calls[d].at = "policy" /\ calls[d].p = q
        \/ calls[d].at = "promote" /\ q # calls[d].p /\ Owns(calls[d].account, q)
    BY <1>1, <2>1 DEF LocksHeld
  <2>4. ASSUME calls[d].at = "promote", q # calls[d].p, Owns(calls[d].account, q)
        PROVE  Owns(calls[d].account, q)'
    BY <2>1, <2>2, <2>4 DEF Owns
  <2> QED
    BY <2>3, <2>4
<1>5. ASSUME calls[d].at = "policy"
      PROVE  /\ Live(calls[d].p)' /\ locked'[calls[d].p] = d
             /\ calls[d].policy = "allowlist" => projects'[calls[d].p].models \notin {Nil, {}}
  <2>1. calls[d].p \in Projects /\ Live(calls[d].p) /\ locked[calls[d].p] = d
    BY <1>1, <1>2, <1>5 DEF LocksHeld
  <2>2. calls[d].policy = "allowlist" => projects[calls[d].p].models \notin {Nil, {}}
    BY <1>1, <1>5 DEF LocksHeld
  <2> QED
    BY <2>1, <2>2
<1>6. ASSUME calls[d].at \in {"demote", "promote"}
      PROVE  /\ projects'[calls[d].p] # Unborn
             /\ Live(calls[d].p)' => projects'[calls[d].p].account = calls[d].account
  <2>1. /\ calls[d].p \in Projects /\ projects[calls[d].p] # Unborn
        /\ Live(calls[d].p) => projects[calls[d].p].account = calls[d].account
    BY <1>1, <1>2, <1>6 DEF LocksHeld
  <2> QED
    BY <2>1
<1> QED
  BY <1>4, <1>5, <1>6 DEF LocksHeld

\* ... in particular when no project changes.
LEMMA LockSame ==
  ASSUME Types, LockInv, NEW d \in Calls, calls'[d] = calls[d], UNCHANGED projects,
         \A q \in Projects : locked'[q] = d <=> locked[q] = d
  PROVE  LocksHeld(d)'
<1>1. \A q \in Projects : projects'[q] = projects[q] /\ (Live(q)' <=> Live(q))
  BY DEF Live
<1> QED
  BY <1>1, LockKept

\* A step of one call that ends outside of the roster operations.
LEMMA CallKept ==
  ASSUME CallInv, led \subseteq led', NEW c \in Calls, calls'[c].at \notin RosterCall,
         \A d \in Calls : d # c => calls'[d] = calls[d]
  PROVE  CallInv'
<1> SUFFICES ASSUME NEW d \in Calls PROVE CallSound(d)'
  BY DEF CallInv
<1>1. CASE d = c
  BY <1>1 DEF CallSound, RosterCall
<1>2. CASE d # c
  <2>1. CallSound(d) /\ calls'[d] = calls[d]
    BY <1>2 DEF CallInv
  <2> QED
    BY <2>1 DEF CallSound, is_allowed
<1> QED
  BY <1>1, <1>2

\* A call outside of the transactions, without locks, has nothing to keep.
LEMMA LockFreed ==
  ASSUME NEW d \in Calls, calls'[d].at \notin {"policy", "demote", "promote"},
         \A q \in Projects : locked'[q] # d
  PROVE  LocksHeld(d)'
  BY DEF LocksHeld

\* A row that keeps its account and its default flag under a write of one
\* column: nothing else of the tables moves.
LEMMA ColumnWritten ==
  ASSUME Types, ForeignKeys, ExactlyOneDefault, NEW p \in Projects, Live(p),
         NEW row \in ProjectRows, row.account = projects[p].account,
         row.isDefault = projects[p].isDefault,
         projects' = [projects EXCEPT ![p] = row], UNCHANGED <<accounts, members>>
  PROVE  /\ projects' \in [Projects -> ProjectRows \cup {Unborn, Gone}]
         /\ projects'[p] = row
         /\ \A q \in Projects : q # p => projects'[q] = projects[q]
         /\ \A q \in Projects : Live(q)' <=> Live(q)
         /\ \A q \in Projects : Live(q) => /\ projects'[q].account = projects[q].account
                                           /\ projects'[q].isDefault = projects[q].isDefault
         /\ ForeignKeys' /\ ExactlyOneDefault'
<1>1. /\ projects' \in [Projects -> ProjectRows \cup {Unborn, Gone}]
      /\ projects'[p] = row
      /\ \A q \in Projects : q # p => projects'[q] = projects[q]
  BY DEF Types
<1>2. \A q \in Projects : Live(q)' <=> Live(q)
  BY <1>1, TenancyAssumption DEF Live
<1>3. \A q \in Projects : Live(q) => /\ projects'[q].account = projects[q].account
                                     /\ projects'[q].isDefault = projects[q].isDefault
  BY <1>1
<1>4. ForeignKeys'
  BY <1>2, <1>3 DEF ForeignKeys, OnRoster
<1>5. ExactlyOneDefault'
  BY <1>2, <1>3 DEF ExactlyOneDefault, Owns
<1> QED
  BY <1>1, <1>2, <1>3, <1>4, <1>5

-----------------------------------------------------------------------------
\* A write of an account's row.
LEMMA AccountWritten ==
  ASSUME TenancyInv, NEW s \in Subjects, NEW row \in AccountRows, is_allowed(row.quota),
         accounts' = [accounts EXCEPT ![s] = row],
         UNCHANGED <<projects, members, locked, calls>>, Remember
  PROVE  TenancyInv'
<1> USE DEF TenancyInv
<1>1. accounts'[s] = row /\ row # Nil /\ \A t \in Subjects : t # s => accounts'[t] = accounts[t]
  BY TenancyAssumption DEF Types
<1>2. Types'
  BY DEF Types
<1>3. \A p \in Projects : (Live(p)' <=> Live(p)) /\ \A t \in Subjects : OnRoster(t, p)' <=> OnRoster(t, p)
  BY DEF Live, OnRoster
<1>4. \A p \in Projects : Live(p) => projects[p].account \in Subjects
  BY LiveRow DEF ProjectRows
<1>5. ForeignKeys'
  BY <1>1, <1>3, <1>4 DEF ForeignKeys
<1>6. CatalogueHeld'
  <2>1. \A u \in Subjects : accounts'[u] # Nil => is_allowed(accounts'[u].quota)
    BY <1>1 DEF CatalogueHeld
  <2> QED
    BY <1>3, <2>1 DEF CatalogueHeld, is_allowed, invalid_ids
<1>7. ExactlyOneDefault' /\ LockInv'
  BY DEF ExactlyOneDefault, LockInv, LocksHeld, Owns, Live
<1>8. CallInv'
  BY RememberInv DEF CallInv, CallSound, is_allowed
<1> QED
  BY <1>2, <1>5, <1>6, <1>7, <1>8, RememberInv

\* create_account, update_account_default_quota and set_account_status.
LEMMA AccountsInv ==
  ASSUME TenancyInv, NEW s \in Subjects, NEW t \in TierNames \cup {Nil},
         NEW status \in {"active", "suspended"}, Remember,
         create_account(s, t) \/ update_account_default_quota(s, t) \/ set_account_status(s, status)
  PROVE  TenancyInv'
<1> USE DEF TenancyInv
<1>1. CASE create_account(s, t)
  <2> DEFINE row == [status |-> "active", quota |-> t]
  <2>1. row \in AccountRows /\ is_allowed(row.quota)
    BY <1>1 DEF create_account, AccountRows
  <2> QED
    BY <1>1, <2>1, AccountWritten, Zenon DEF create_account
<1>2. CASE update_account_default_quota(s, t)
  <2> DEFINE row == [accounts[s] EXCEPT !.quota = t]
  <2>1. accounts[s] \in AccountRows
    BY <1>2 DEF update_account_default_quota, Types
  <2>2. row \in AccountRows /\ row.quota = t /\ is_allowed(t)
    BY <1>2, <2>1 DEF update_account_default_quota, AccountRows
  <2>3. accounts' = [accounts EXCEPT ![s] = row]
    BY <1>2 DEF update_account_default_quota
  <2> QED
    BY <1>2, <2>2, <2>3, AccountWritten, Zenon DEF update_account_default_quota
<1>3. CASE set_account_status(s, status)
  <2> DEFINE row == [accounts[s] EXCEPT !.status = status]
  <2>1. accounts[s] \in AccountRows /\ is_allowed(accounts[s].quota)
    BY <1>3 DEF set_account_status, Types, CatalogueHeld
  <2>2. row \in AccountRows /\ row.quota = accounts[s].quota
    BY <2>1 DEF AccountRows
  <2>3. accounts' = [accounts EXCEPT ![s] = row]
    BY <1>3 DEF set_account_status
  <2> QED
    BY <1>3, <2>1, <2>2, <2>3, AccountWritten, Zenon DEF set_account_status
<1> QED
  BY <1>1, <1>2, <1>3

-----------------------------------------------------------------------------
\* A write of a project's row that no transaction holds: what transactions and
\* roster calls rest on is elsewhere or is kept.
LEMMA ProjectWritten ==
  ASSUME TenancyInv, NEW p \in Projects, Live(p), locked[p] = Nil,
         NEW row \in ProjectRows, row.account = projects[p].account,
         row.isDefault = projects[p].isDefault,
         is_allowed(row.quota), invalid_ids(row.models) = {},
         projects' = [projects EXCEPT ![p] = row],
         UNCHANGED <<accounts, members, locked, calls>>, Remember
  PROVE  TenancyInv'
<1> USE DEF TenancyInv
<1>1. /\ projects' \in [Projects -> ProjectRows \cup {Unborn, Gone}]
      /\ projects'[p] = row
      /\ \A q \in Projects : q # p => projects'[q] = projects[q]
      /\ \A q \in Projects : Live(q)' <=> Live(q)
      /\ \A q \in Projects : Live(q) => projects'[q].account = projects[q].account
      /\ ForeignKeys' /\ ExactlyOneDefault'
  BY ColumnWritten, Zenon
<1>2. Types'
  BY <1>1 DEF Types
<1>3. CatalogueHeld'
  BY <1>1 DEF CatalogueHeld, is_allowed, invalid_ids, OnRoster
<1>4. \A c \in Calls : calls[c].at \in {"policy", "demote", "promote"} => calls[c].p \in Projects
  BY DEF Types, CallRecords, Idle
<1>5. LockInv'
  <2> SUFFICES ASSUME NEW c \in Calls PROVE LocksHeld(c)'
    BY DEF LockInv
  <2>1. \A q \in Projects : locked[q] = c => q # p
    BY TenancyAssumption
  <2>2. calls[c].at = "policy" => calls[c].p # p
    BY TenancyAssumption DEF LockInv, LocksHeld
  <2>3. ASSUME calls[c].at \in {"demote", "promote"}
        PROVE  /\ projects'[calls[c].p] # Unborn
               /\ Live(calls[c].p)' => projects'[calls[c].p].account = calls[c].account
    BY <1>1, <1>4, <2>3, TenancyAssumption DEF LockInv, LocksHeld
  <2> QED
    BY <1>1, <1>4, <2>1, <2>2, <2>3 DEF LockInv, LocksHeld, Owns
<1>6. CallInv'
  BY RememberInv DEF CallInv, CallSound, is_allowed
<1> QED
  BY <1>1, <1>2, <1>3, <1>5, <1>6, RememberInv

\* set_project_status, set_project_quota and set_project_allowed_models.
LEMMA ColumnsInv ==
  ASSUME TenancyInv, NEW s \in Subjects, NEW p \in Projects, NEW t \in TierNames \cup {Nil},
         NEW ms \in {Nil} \cup SUBSET ModelNames, NEW status \in {"active", "suspended"}, Remember,
         \/ set_project_status(s, p, status)
         \/ set_project_quota(s, p, t)
         \/ set_project_allowed_models(s, p, ms)
  PROVE  TenancyInv'
<1> USE DEF TenancyInv
<1>1. /\ Live(p) /\ locked[p] = Nil
      /\ UNCHANGED <<accounts, members, locked, calls>>
  BY DEF set_project_status, set_project_quota, set_project_allowed_models, Standing
<1>2. projects[p] \in ProjectRows /\ is_allowed(projects[p].quota) /\ invalid_ids(projects[p].models) = {}
  BY <1>1, LiveRow DEF CatalogueHeld
<1>3. CASE set_project_status(s, p, status)
  <2> DEFINE row == [projects[p] EXCEPT !.status = status]
  <2>1. /\ row \in ProjectRows /\ row.account = projects[p].account
        /\ row.isDefault = projects[p].isDefault
        /\ row.quota = projects[p].quota /\ row.models = projects[p].models
    BY <1>2 DEF ProjectRows
  <2>2. projects' = [projects EXCEPT ![p] = row]
    BY <1>3 DEF set_project_status
  <2> QED
    BY <1>1, <1>2, <2>1, <2>2, ProjectWritten, Zenon
<1>4. CASE set_project_quota(s, p, t)
  <2> DEFINE row == [projects[p] EXCEPT !.quota = t]
  <2>1. /\ row \in ProjectRows /\ row.account = projects[p].account
        /\ row.isDefault = projects[p].isDefault
        /\ row.quota = t /\ row.models = projects[p].models
    BY <1>2 DEF ProjectRows
  <2>2. projects' = [projects EXCEPT ![p] = row] /\ is_allowed(t)
    BY <1>4 DEF set_project_quota
  <2> QED
    BY <1>1, <1>2, <2>1, <2>2, ProjectWritten, Zenon
<1>5. CASE set_project_allowed_models(s, p, ms)
  <2> DEFINE row == [projects[p] EXCEPT !.models = ms]
  <2>1. /\ row \in ProjectRows /\ row.account = projects[p].account
        /\ row.isDefault = projects[p].isDefault
        /\ row.quota = projects[p].quota /\ row.models = ms
    BY <1>2 DEF ProjectRows
  <2>2. projects' = [projects EXCEPT ![p] = row] /\ invalid_ids(ms) = {}
    BY <1>5 DEF set_project_allowed_models
  <2> QED
    BY <1>1, <1>2, <2>1, <2>2, ProjectWritten, Zenon
<1> QED
  BY <1>3, <1>4, <1>5

\* create_project: the account's first project is its default, a later one not.
LEMMA CreateProjectInv ==
  ASSUME TenancyInv, NEW s \in Subjects, NEW p \in Projects, create_project(s, p), Remember
  PROVE  TenancyInv'
<1> USE DEF TenancyInv
<1> DEFINE row == [account |-> s, status |-> "active", isDefault |-> set_project_is_default(s),
                   policy |-> "allow_all", models |-> Nil, quota |-> Nil]
<1>1. /\ projects[p] = Unborn /\ accounts[s] # Nil
      /\ projects' = [projects EXCEPT ![p] = row]
      /\ UNCHANGED <<accounts, members, locked, calls>>
  BY DEF create_project
<1>2. row \in ProjectRows
  BY DEF ProjectRows, Policies, set_project_is_default
<1>3. projects'[p] = row /\ \A q \in Projects : q # p => projects'[q] = projects[q]
  BY <1>1 DEF Types
<1>4. /\ Live(p)' /\ ~Live(p)
      /\ \A q \in Projects : q # p => (Live(q)' <=> Live(q))
  BY <1>1, <1>2, <1>3, TenancyAssumption DEF Live
<1>5. Types'
  BY <1>1, <1>2 DEF Types
<1>6. ForeignKeys'
  BY <1>1, <1>3, <1>4 DEF ForeignKeys, OnRoster
<1>7. CatalogueHeld'
  BY <1>1, <1>3, <1>4 DEF CatalogueHeld, is_allowed, invalid_ids, OnRoster, ForeignKeys
<1>8. ExactlyOneDefault'
  <2>1. row.isDefault <=> ~ \E q \in Projects : Owns(s, q)
    BY Zenon DEF set_project_is_default
  <2>2. row.account = s
    OBVIOUS
  <2>3. \A q \in Projects, u \in Subjects : Owns(u, q)' <=> (Owns(u, q) \/ (q = p /\ u = s))
    BY <1>3, <1>4, <2>2 DEF Owns
  <2>4. \A u \in Subjects : (\E q \in Projects : Owns(u, q)') =>
          \E d \in Projects : Owns(u, d)' /\ projects'[d].isDefault
    BY <1>3, <1>4, <2>1, <2>3 DEF ExactlyOneDefault, Owns
  <2>5. \A q, r \in Projects :
          (Live(q)' /\ Live(r)' /\ projects'[q].account = projects'[r].account
             /\ projects'[q].isDefault /\ projects'[r].isDefault) => q = r
    BY <1>3, <1>4, <2>1, <2>2 DEF ExactlyOneDefault, Owns
  <2> QED
    BY <2>4, <2>5 DEF ExactlyOneDefault
<1>9. LockInv'
  <2> SUFFICES ASSUME NEW d \in Calls PROVE LocksHeld(d)'
    BY DEF LockInv
  <2>1. \A q \in Projects : projects[q] # Unborn => q # p /\ projects'[q] = projects[q]
    BY <1>1, <1>3
  <2>2. \A q \in Projects : Live(q) => projects[q] # Unborn
    BY DEF Live
  <2>3. \A q \in Projects : projects[q] # Unborn => (Live(q)' <=> Live(q))
    BY <2>1 DEF Live
  <2>4. calls'[d] = calls[d] /\ \A q \in Projects : locked'[q] = d <=> locked[q] = d
    BY <1>1, SMTT(20)
  <2> QED
    BY <2>1, <2>2, <2>3, <2>4, LockKept
<1>10. CallInv'
  BY <1>1, RememberInv DEF CallInv, CallSound, is_allowed
<1> QED
  BY <1>5, <1>6, <1>7, <1>8, <1>9, <1>10, RememberInv

-----------------------------------------------------------------------------
\* What a step leaves of the tables when it removes live projects with their
\* rosters, none of them locked, and possibly the roster rows of an account.
Removes(gone) ==
    /\ projects' = [p \in Projects |-> IF p \in gone THEN Gone ELSE projects[p]]
    /\ \A p \in Projects : p \notin gone => \A t \in Subjects :
         members'[p][t] = members[p][t] \/ members'[p][t] = Nil
    /\ \A p \in gone : members'[p] = NoMembers
    /\ members' \in [Projects -> [Subjects -> MemberRows \cup {Nil}]]
    /\ UNCHANGED <<locked, calls>>

\* Such a removal keeps what transactions and roster calls rest on.
LEMMA RemovalInv ==
  ASSUME TenancyInv, NEW gone \in SUBSET Projects, Removes(gone),
         \A p \in gone : Live(p) /\ locked[p] = Nil, Remember
  PROVE  /\ \A p \in Projects : Live(p)' <=> (Live(p) /\ p \notin gone)
         /\ \A p \in Projects : p \notin gone => projects'[p] = projects[p]
         /\ projects' \in [Projects -> ProjectRows \cup {Unborn, Gone}]
         /\ LockInv' /\ CallInv' /\ LedInv'
         /\ \A p \in Projects : Live(p)' => \A t \in Subjects :
              OnRoster(t, p)' => OnRoster(t, p) /\ members'[p][t] = members[p][t]
         /\ \A p \in Projects, t \in Subjects : OnRoster(t, p)' => Live(p)'
<1> USE DEF TenancyInv
<1>1. /\ \A p \in Projects : p \notin gone => projects'[p] = projects[p]
      /\ \A p \in gone : projects'[p] = Gone
      /\ projects' \in [Projects -> ProjectRows \cup {Unborn, Gone}]
      /\ UNCHANGED <<locked, calls>>
  BY DEF Removes, Types
<1>2. \A p \in Projects : Live(p)' <=> (Live(p) /\ p \notin gone)
  BY <1>1 DEF Live
<1>4. LockInv'
  <2> SUFFICES ASSUME NEW c \in Calls PROVE LocksHeld(c)'
    BY DEF LockInv
  <2>1. \A q \in Projects : locked[q] = c => q \notin gone
    BY TenancyAssumption
  <2>2. \A q \in Projects : projects[q] # Unborn => projects'[q] # Unborn
    BY <1>1, TenancyAssumption
  <2>3. calls'[c] = calls[c] /\ \A q \in Projects : locked'[q] = c <=> locked[q] = c
    BY <1>1
  <2> QED
    BY <1>1, <1>2, <2>1, <2>2, <2>3, LockKept
<1>5. CallInv'
  BY <1>1, RememberInv DEF CallInv, CallSound, is_allowed
<1>6. \A p \in Projects : Live(p)' => \A t \in Subjects :
        OnRoster(t, p)' => OnRoster(t, p) /\ members'[p][t] = members[p][t]
  BY <1>2 DEF Removes, OnRoster
<1>7. \A p \in Projects, t \in Subjects : OnRoster(t, p)' => Live(p)'
  BY <1>2 DEF Removes, OnRoster, NoMembers, ForeignKeys
<1> QED
  BY <1>1, <1>2, <1>4, <1>5, <1>6, <1>7, RememberInv

\* delete_project: the default project stays.
LEMMA DeleteProjectInv ==
  ASSUME TenancyInv, NEW s \in Subjects, NEW p \in Projects, delete_project(s, p), Remember
  PROVE  TenancyInv'
<1> USE DEF TenancyInv
<1>1. /\ Live(p) /\ locked[p] = Nil /\ ~projects[p].isDefault
      /\ projects' = [projects EXCEPT ![p] = Gone]
      /\ members' = [members EXCEPT ![p] = NoMembers]
      /\ UNCHANGED <<accounts, locked, calls>>
  BY DEF delete_project, Owns
<1>2. Removes({p})
  BY <1>1, Zenon DEF Removes, Types, NoMembers
<1>3. /\ \A q \in Projects : Live(q)' <=> (Live(q) /\ q # p)
      /\ \A q \in Projects : q # p => projects'[q] = projects[q]
      /\ projects' \in [Projects -> ProjectRows \cup {Unborn, Gone}]
      /\ LockInv' /\ CallInv' /\ LedInv'
      /\ \A q \in Projects : Live(q)' => \A t \in Subjects :
           OnRoster(t, q)' => OnRoster(t, q) /\ members'[q][t] = members[q][t]
      /\ \A q \in Projects, t \in Subjects : OnRoster(t, q)' => Live(q)'
  BY <1>1, <1>2, RemovalInv, {p} \in SUBSET Projects, \A q : q \in {p} <=> q = p
<1>4. Types'
  BY <1>1, <1>2, <1>3 DEF Types, Removes
<1>5. ForeignKeys'
  BY <1>1, <1>3 DEF ForeignKeys
<1>6. CatalogueHeld'
  BY <1>1, <1>3 DEF CatalogueHeld, is_allowed, invalid_ids
<1>7. ExactlyOneDefault'
  BY <1>1, <1>3 DEF ExactlyOneDefault, Owns
<1> QED
  BY <1>3, <1>4, <1>5, <1>6, <1>7

\* delete_account: every project of the account goes with it.
LEMMA DeleteAccountInv ==
  ASSUME TenancyInv, NEW s \in Subjects, delete_account(s), Remember
  PROVE  TenancyInv'
<1> USE DEF TenancyInv
<1> DEFINE gone == {p \in Projects : Owns(s, p)}
<1>1. /\ \A p \in gone : Live(p) /\ locked[p] = Nil
      /\ accounts' = [accounts EXCEPT ![s] = Nil]
      /\ projects' = [p \in Projects |-> IF p \in gone THEN Gone ELSE projects[p]]
      /\ members' = [p \in Projects |->
                       IF p \in gone THEN NoMembers ELSE [members[p] EXCEPT ![s] = Nil]]
      /\ UNCHANGED <<locked, calls>>
  BY DEF delete_account, Owns
<1>2. Removes(gone)
  BY <1>1, SMTT(20) DEF Removes, Types, NoMembers
<1>3. /\ \A q \in Projects : Live(q)' <=> (Live(q) /\ q \notin gone)
      /\ \A q \in Projects : q \notin gone => projects'[q] = projects[q]
      /\ projects' \in [Projects -> ProjectRows \cup {Unborn, Gone}]
      /\ LockInv' /\ CallInv' /\ LedInv'
      /\ \A q \in Projects : Live(q)' => \A t \in Subjects :
           OnRoster(t, q)' => OnRoster(t, q) /\ members'[q][t] = members[q][t]
      /\ \A q \in Projects, t \in Subjects : OnRoster(t, q)' => Live(q)'
  <2> HIDE DEF gone
  <2>1. gone \in SUBSET Projects
    BY DEF gone
  <2> QED
    BY <1>1, <1>2, <2>1, RemovalInv
<1>4. accounts'[s] = Nil /\ \A t \in Subjects : t # s => accounts'[t] = accounts[t]
  BY <1>1 DEF Types
<1>5. Types'
  BY <1>1, <1>2, <1>3, Zenon DEF Types, Removes
<1>6. \A q \in Projects : Live(q)' => projects'[q].account \in Subjects \ {s}
  BY <1>3, LiveRow DEF ProjectRows, Owns
<1>7. \A q \in Projects : q \notin gone => members'[q][s] = Nil
  BY <1>1 DEF Types
<1>8. ForeignKeys'
  BY <1>3, <1>4, <1>6, <1>7 DEF ForeignKeys, OnRoster
<1>9. CatalogueHeld'
  BY <1>3, <1>4 DEF CatalogueHeld, is_allowed, invalid_ids
<1>10. ExactlyOneDefault'
  BY <1>3, <1>6 DEF ExactlyOneDefault, Owns
<1> QED
  BY <1>3, <1>5, <1>8, <1>9, <1>10

-----------------------------------------------------------------------------
\* A step that leaves accounts, projects and rosters alone.
LEMMA SameTables ==
  ASSUME TenancyInv, UNCHANGED <<accounts, projects, members>>, Remember
  PROVE  /\ ForeignKeys' /\ CatalogueHeld' /\ ExactlyOneDefault' /\ LedInv'
         /\ led \subseteq led'
         /\ \A p \in Projects : Live(p)' <=> Live(p)
  BY RememberInv, Zenon DEF TenancyInv, ForeignKeys, CatalogueHeld, ExactlyOneDefault, Owns, Live,
                     OnRoster, is_allowed, invalid_ids

\* set_project_model_policy: the check, under the row's lock.
LEMMA PolicyCheckedInv ==
  ASSUME TenancyInv, NEW c \in Calls, NEW s \in Subjects, NEW p \in Projects,
         NEW policy \in Policies, set_project_model_policy(c, s, p, policy), Remember
  PROVE  TenancyInv'
<1> USE DEF TenancyInv
<1> DEFINE k == [at |-> "policy", p |-> p, policy |-> policy]
<1>1. /\ calls[c] = Idle /\ Live(p) /\ locked[p] = Nil
      /\ policy = "allowlist" => projects[p].models \notin {Nil, {}}
      /\ locked' = [locked EXCEPT ![p] = c]
      /\ calls' = [calls EXCEPT ![c] = k]
      /\ UNCHANGED <<accounts, projects, members>>
  BY DEF set_project_model_policy, Standing
<1>2. /\ calls'[c] = k /\ \A d \in Calls : d # c => calls'[d] = calls[d]
      /\ locked'[p] = c /\ \A q \in Projects : q # p => locked'[q] = locked[q]
  BY <1>1 DEF Types
<1>3. k \in CallRecords
  BY DEF CallRecords
<1>4. Types'
  BY <1>1, <1>3 DEF Types
<1>5. \A q \in Projects : locked[q] # c
  BY <1>1 DEF LockInv, LocksHeld, Idle
<1>7. LockInv'
  <2> SUFFICES ASSUME NEW d \in Calls PROVE LocksHeld(d)'
    BY Zenon DEF LockInv
  <2>1. CASE d = c
    BY <1>1, <1>2, <1>5, <2>1 DEF LocksHeld, Live
  <2>2. CASE d # c
    <3>1. calls'[d] = calls[d] /\ \A q \in Projects : locked'[q] = d <=> locked[q] = d
      BY <1>1, <1>2, <2>2, TenancyAssumption
    <3> QED
      BY <1>1, <3>1, LockSame
  <2> QED
    BY <2>1, <2>2
<1>8. CallInv'
  <2>1. calls'[c].at \notin RosterCall
    BY <1>2 DEF RosterCall
  <2> QED
    BY <1>2, <2>1, CallKept, RememberInv
<1> QED
  BY <1>1, <1>4, <1>7, <1>8, SameTables, Zenon

\* Freeing the locks of a call that ends.
LEMMA Released ==
  ASSUME Types, NEW c \in Calls, locked' = Unlocked(c), Return(c)
  PROVE  /\ calls'[c] = Idle /\ \A d \in Calls : d # c => calls'[d] = calls[d]
         /\ \A q \in Projects : locked'[q] # c
         /\ \A q \in Projects, d \in Calls : d # c => (locked'[q] = d <=> locked[q] = d)
         /\ locked' \in [Projects -> Calls \cup {Nil}]
         /\ calls' \in [Calls -> CallRecords]
  BY TenancyAssumption DEF Types, Unlocked, Return, CallRecords

\* PolicyWritten: the row is still there, and is written in one column.
LEMMA PolicyWrittenInv ==
  ASSUME TenancyInv, NEW c \in Calls, PolicyWritten(c), Remember
  PROVE  TenancyInv'
<1> USE DEF TenancyInv
<1> DEFINE p == calls[c].p
           row == [projects[p] EXCEPT !.policy = calls[c].policy]
<1>1. /\ calls[c].at = "policy" /\ p \in Projects /\ calls[c].policy \in Policies
  BY DEF PolicyWritten, Types, CallRecords, Idle
<1>2. Live(p) /\ locked[p] = c
  BY <1>1 DEF LockInv, LocksHeld
<1>3. /\ projects' = [projects EXCEPT ![p] = row]
      /\ locked' = Unlocked(c) /\ Return(c) /\ UNCHANGED <<accounts, members>>
  BY <1>2, ZenonT(30) DEF PolicyWritten
<1>4. projects[p] \in ProjectRows /\ is_allowed(projects[p].quota) /\ invalid_ids(projects[p].models) = {}
  BY <1>1, <1>2, LiveRow DEF CatalogueHeld
<1>5. /\ row \in ProjectRows /\ row.account = projects[p].account
      /\ row.isDefault = projects[p].isDefault
      /\ row.quota = projects[p].quota /\ row.models = projects[p].models
  BY <1>1, <1>4 DEF ProjectRows
<1> HIDE DEF row
<1>6. /\ projects' \in [Projects -> ProjectRows \cup {Unborn, Gone}]
      /\ projects'[p] = row
      /\ \A q \in Projects : q # p => projects'[q] = projects[q]
      /\ \A q \in Projects : Live(q)' <=> Live(q)
      /\ \A q \in Projects : Live(q) => projects'[q].account = projects[q].account
      /\ ForeignKeys' /\ ExactlyOneDefault'
  BY <1>1, <1>2, <1>3, <1>5, ColumnWritten, Zenon
<1>7. /\ calls'[c] = Idle /\ \A d \in Calls : d # c => calls'[d] = calls[d]
      /\ \A q \in Projects : locked'[q] # c
      /\ \A q \in Projects, d \in Calls : d # c => (locked'[q] = d <=> locked[q] = d)
      /\ locked' \in [Projects -> Calls \cup {Nil}]
      /\ calls' \in [Calls -> CallRecords]
  BY <1>3, Released
<1>8. Types'
  BY <1>3, <1>6, <1>7, ZenonT(30) DEF Types
<1>9. CatalogueHeld'
  BY <1>3, <1>4, <1>5, <1>6, SMTT(20) DEF CatalogueHeld, is_allowed, invalid_ids, OnRoster
<1>11. LockInv'
  <2> SUFFICES ASSUME NEW d \in Calls PROVE LocksHeld(d)'
    BY DEF LockInv
  <2>1. CASE d = c
    <3>1. calls'[d].at = "idle" /\ \A q \in Projects : locked'[q] # d
      BY <1>7, <2>1 DEF Idle
    <3> QED
      BY <3>1, LockFreed
  <2>2. CASE d # c
    <3>1. calls'[d] = calls[d]
      BY <1>7, <2>2
    <3>2. \A q \in Projects : locked'[q] = d <=> locked[q] = d
      BY <1>7, <2>2
    <3>3. \A q \in Projects : locked[q] = d => q # p
      BY <1>2, <2>2
    <3>4. \A q \in Projects : projects[q] # Unborn => projects'[q] # Unborn
      BY <1>5, <1>6, TenancyAssumption
    <3>5. \A q \in Projects : Live(q)' <=> Live(q)
      BY <1>6
    <3>6. \A q \in Projects : Live(q) => projects'[q].account = projects[q].account
      BY <1>6
    <3>7. \A q \in Projects : q # p => projects'[q] = projects[q]
      BY <1>6
    <3> HIDE DEF p
    <3> QED
      BY <3>1, <3>2, <3>3, <3>4, <3>5, <3>6, <3>7, LockKept
  <2> QED
    BY <2>1, <2>2
<1>12. CallInv'
  <2>1. calls'[c].at \notin RosterCall
    BY <1>7 DEF RosterCall, Idle
  <2> QED
    BY <1>7, <2>1, CallKept, RememberInv
<1> QED
  BY <1>6, <1>8, <1>9, <1>11, <1>12, RememberInv

\* A call starts, or its next statement is due, and no row is locked or written.
LEMMA CallMoves ==
  ASSUME TenancyInv, NEW c \in Calls, NEW k \in CallRecords, calls' = [calls EXCEPT ![c] = k],
         UNCHANGED <<accounts, projects, members, locked>>, Remember,
         calls[c].at \notin {"policy", "promote"}, k.at \notin {"policy", "promote"},
         k.at = "demote" => /\ projects[k.p] # Unborn
                            /\ Live(k.p) => projects[k.p].account = k.account,
         k.at \in RosterCall =>
           /\ k.op \in {"add", "role"} => k.arg \in Roles
           /\ k.op = "tier" => k.arg \in TierNames \cup {Nil} /\ is_allowed(k.arg),
         k.at = "write" => <<k.s, k.p>> \in led
  PROVE  TenancyInv'
<1> USE DEF TenancyInv
<1>1. calls'[c] = k /\ \A d \in Calls : d # c => calls'[d] = calls[d]
  BY DEF Types
<1>2. Types'
  BY DEF Types
<1>3. LockInv'
  <2> SUFFICES ASSUME NEW d \in Calls PROVE LocksHeld(d)'
    BY DEF LockInv
  <2>1. CASE d = c
    <3>1. \A q \in Projects : locked'[q] # c
      BY DEF LockInv, LocksHeld
    <3> QED
      BY <1>1, <2>1, <3>1, ZenonT(30) DEF LocksHeld, Live
  <2>2. CASE d # c
    BY <1>1, <2>2, LockSame, Zenon
  <2> QED
    BY <2>1, <2>2
<1>4. CallInv'
  BY <1>1, SameTables DEF CallInv, CallSound, is_allowed
<1> QED
  BY <1>2, <1>3, <1>4, SameTables

\* set_default_project: the account behind the project is read.
LEMMA SetDefaultInv ==
  ASSUME TenancyInv, NEW c \in Calls, NEW s \in Subjects, NEW p \in Projects,
         set_default_project(c, s, p), Remember
  PROVE  TenancyInv'
<1> USE DEF TenancyInv
<1> DEFINE k == [at |-> "demote", p |-> p, account |-> projects[p].account]
<1>1. Live(p) /\ calls[c] = Idle /\ calls' = [calls EXCEPT ![c] = k]
      /\ UNCHANGED <<accounts, projects, members, locked>>
  BY DEF set_default_project, Standing
<1>2. k \in CallRecords
  BY <1>1, LiveRow DEF CallRecords, ProjectRows
<1>3. projects[p] # Unborn
  BY <1>1 DEF Live
<1>4. /\ calls[c].at \notin {"policy", "promote"} /\ k.at = "demote" /\ k.p = p
      /\ k.account = projects[p].account /\ k.at \notin RosterCall \cup {"policy", "promote"}
  BY <1>1 DEF Idle, RosterCall
<1> HIDE DEF k
<1> QED
  BY <1>1, <1>2, <1>3, <1>4, CallMoves, Zenon DEF RosterCall

\* DefaultDemoted: the account's other default row is locked.
LEMMA DemotedInv ==
  ASSUME TenancyInv, NEW c \in Calls, DefaultDemoted(c), Remember
  PROVE  TenancyInv'
<1> USE DEF TenancyInv
<1> DEFINE k == [calls[c] EXCEPT !.at = "promote"]
<1>1. /\ calls[c].at = "demote"
      /\ \A q \in Demoted(c) : locked[q] = Nil
      /\ locked' = [q \in Projects |-> IF q \in Demoted(c) THEN c ELSE locked[q]]
      /\ calls' = [calls EXCEPT ![c] = k]
      /\ UNCHANGED <<accounts, projects, members>>
  BY DEF DefaultDemoted
<1>2. k \in CallRecords /\ k.at = "promote" /\ k.p = calls[c].p /\ k.account = calls[c].account
  BY <1>1, CallFields, Zenon DEF Types
<1> HIDE DEF k
<1>3. calls'[c] = k /\ \A d \in Calls : d # c => calls'[d] = calls[d]
  BY <1>1 DEF Types
<1>4. Types'
  BY <1>1, <1>2 DEF Types
<1>5. \A q \in Projects : locked'[q] = c => q \in Demoted(c)
  BY <1>1 DEF LockInv, LocksHeld
<1>6. \A q \in Projects, d \in Calls : d # c => (locked'[q] = d <=> locked[q] = d)
  BY <1>1, TenancyAssumption, ZenonT(30)
<1>8. LockInv'
  <2> SUFFICES ASSUME NEW d \in Calls PROVE LocksHeld(d)'
    BY DEF LockInv
  <2>1. CASE d = c
    <3>1. \A q \in Projects : locked'[q] = c => q # calls[c].p /\ Owns(calls[c].account, q)
      BY <1>5 DEF Demoted
    <3>2. /\ projects[calls[c].p] # Unborn
          /\ Live(calls[c].p) => projects[calls[c].p].account = calls[c].account
      BY <1>1 DEF LockInv, LocksHeld
    <3>3. calls'[d].at = "promote" /\ calls'[d].p = calls[c].p /\ calls'[d].account = calls[c].account
      BY <1>2, <1>3, <2>1
    <3> QED
      BY <1>1, <2>1, <3>1, <3>2, <3>3 DEF LocksHeld, Owns, Live
  <2>2. CASE d # c
    BY <1>1, <1>3, <1>6, <2>2, LockSame
  <2> QED
    BY <2>1, <2>2
<1>9. CallInv'
  <2>1. calls'[c].at \notin RosterCall
    BY <1>2, <1>3 DEF RosterCall
  <2> QED
    BY <1>3, <2>1, CallKept, RememberInv
<1> QED
  BY <1>1, <1>4, <1>8, <1>9, SameTables

\* DefaultPromoted: what it unset and what it sets are one account's; a default
\* it did not unset makes it roll back.
LEMMA PromotedRows ==
  ASSUME TenancyInv, NEW c \in Calls, DefaultPromoted(c)
  PROVE  /\ projects' \in [Projects -> ProjectRows \cup {Unborn, Gone}]
         /\ \A q \in Projects :
              /\ Live(q)' <=> Live(q)
              /\ projects'[q] = Unborn <=> projects[q] = Unborn
              /\ Live(q) => /\ projects'[q].account = projects[q].account
                            /\ projects'[q].quota = projects[q].quota
                            /\ projects'[q].models = projects[q].models
                            /\ projects'[q].policy = projects[q].policy
         /\ ExactlyOneDefault'
<1> USE DEF TenancyInv
<1>1. calls[c].at = "promote" /\ calls[c].p \in Projects /\ calls[c].account \in Subjects
  BY DEF DefaultPromoted, Types, CallRecords, Idle
<1>2. PICK p \in Projects : p = calls[c].p
  BY <1>1
<1>3. PICK a \in Subjects : a = calls[c].account
  BY <1>1
<1>4. locked[p] = Nil
  BY <1>2, Zenon DEF DefaultPromoted
<1>5. \A q \in Projects : locked[q] = c => q # p /\ Owns(a, q)
  BY <1>1, <1>2, <1>3, Zenon DEF LockInv, LocksHeld
<1>6. CASE Live(p) /\ ~DefaultClash(c)
  <2>1. projects' = [q \in Projects |->
                       IF locked[q] = c THEN [projects[q] EXCEPT !.isDefault = FALSE]
                       ELSE IF q = p THEN [projects[q] EXCEPT !.isDefault = TRUE]
                       ELSE projects[q]]
    BY <1>6, <1>2, Zenon DEF DefaultPromoted
  <2>2. projects[p].account = a
    BY <1>1, <1>2, <1>3, <1>6 DEF LockInv, LocksHeld
  <2>3. \A q \in Projects : (locked[q] = c \/ q = p) => projects[q] \in ProjectRows
    BY <1>5, <1>6, LiveRow DEF Owns
  <2>4. \A q \in Projects :
          /\ (locked[q] = c \/ q = p) =>
               /\ projects'[q] \in ProjectRows
               /\ projects'[q].account = projects[q].account
               /\ projects'[q].quota = projects[q].quota
               /\ projects'[q].models = projects[q].models
               /\ projects'[q].policy = projects[q].policy
          /\ ~(locked[q] = c \/ q = p) => projects'[q] = projects[q]
    <3> SUFFICES ASSUME NEW q \in Projects
                 PROVE  /\ (locked[q] = c \/ q = p) =>
                             /\ projects'[q] \in ProjectRows
                             /\ projects'[q].account = projects[q].account
                             /\ projects'[q].quota = projects[q].quota
                             /\ projects'[q].models = projects[q].models
                             /\ projects'[q].policy = projects[q].policy
                        /\ ~(locked[q] = c \/ q = p) => projects'[q] = projects[q]
      OBVIOUS
    <3>1. CASE locked[q] = c
      <4>1. projects'[q] = [projects[q] EXCEPT !.isDefault = FALSE]
        BY <2>1, <3>1
      <4> QED
        BY <2>3, <3>1, <4>1, Zenon DEF ProjectRows
    <3>2. CASE locked[q] # c /\ q = p
      <4>1. projects'[q] = [projects[q] EXCEPT !.isDefault = TRUE]
        BY <2>1, <3>2
      <4> QED
        BY <2>3, <3>2, <4>1, Zenon DEF ProjectRows
    <3>3. CASE locked[q] # c /\ q # p
      BY <2>1, <3>3
    <3> QED
      BY <3>1, <3>2, <3>3
  <2>5. \A q \in Projects : locked[q] = c => ~projects'[q].isDefault
    BY <2>1, <2>3 DEF ProjectRows
  <2>6. projects'[p].isDefault
    BY <1>4, <2>1, <2>3, TenancyAssumption DEF ProjectRows
  <2>7. projects' \in [Projects -> ProjectRows \cup {Unborn, Gone}]
    BY <2>1, <2>4, Zenon DEF Types
  <2>8. \A q \in Projects : /\ Live(q)' <=> Live(q)
                            /\ projects'[q] = Unborn <=> projects[q] = Unborn
    BY <2>3, <2>4, TenancyAssumption, Zenon DEF Live
  <2>9. \A q \in Projects : Live(q) /\ projects[q].account = a /\ projects'[q].isDefault => q = p
    BY <1>2, <1>3, <1>6, <2>4, <2>5, Zenon DEF DefaultClash, Owns
  <2>10. projects'[p].isDefault /\ Live(p)' /\ projects'[p].account = a
    BY <1>4, <1>6, <2>2, <2>4, <2>8, <2>6, Zenon
  <2>11. \A q \in Projects : Live(q) /\ projects[q].account # a => projects'[q] = projects[q]
    BY <1>5, <2>2, <2>4, Zenon DEF Owns
  <2>12. \A q \in Projects : Live(q) => projects'[q].account = projects[q].account
    BY <2>4
  <2>13. \A s \in Subjects : (\E q \in Projects : Owns(s, q)') =>
           \E d \in Projects : Owns(s, d)' /\ projects'[d].isDefault
    <3> SUFFICES ASSUME NEW s \in Subjects, NEW q \in Projects, Owns(s, q)'
                 PROVE  \E d \in Projects : Owns(s, d)' /\ projects'[d].isDefault
      OBVIOUS
    <3>1. CASE s = a
      BY <1>4, <2>10, <3>1 DEF Owns
    <3>2. CASE s # a
      <4>1. Owns(s, q)
        BY <2>8, <2>12 DEF Owns
      <4>2. PICK d \in Projects : Owns(s, d) /\ projects[d].isDefault
        BY <4>1 DEF ExactlyOneDefault
      <4>3. projects'[d] = projects[d] /\ Live(d)'
        BY <2>8, <2>11, <3>2, <4>2 DEF Owns
      <4> QED
        BY <4>2, <4>3 DEF Owns
    <3> QED
      BY <3>1, <3>2
  <2>14. \A q, r \in Projects :
           (Live(q)' /\ Live(r)' /\ projects'[q].account = projects'[r].account
              /\ projects'[q].isDefault /\ projects'[r].isDefault) => q = r
    BY <2>8, <2>9, <2>11, <2>12 DEF ExactlyOneDefault
  <2>15. ExactlyOneDefault'
    BY <2>13, <2>14 DEF ExactlyOneDefault
  <2> QED
    BY <2>4, <2>7, <2>8, <2>15
<1>7. CASE ~(Live(p) /\ ~DefaultClash(c))
  <2>1. projects' = projects
    BY <1>7, <1>2 DEF DefaultPromoted
  <2> QED
    BY <2>1 DEF Types, ExactlyOneDefault, Owns, Live
<1> QED
  BY <1>6, <1>7

\* The rest of the invariant after DefaultPromoted.
LEMMA PromotedInv ==
  ASSUME TenancyInv, NEW c \in Calls, DefaultPromoted(c), Remember
  PROVE  TenancyInv'
<1> USE DEF TenancyInv
<1>1. /\ projects' \in [Projects -> ProjectRows \cup {Unborn, Gone}]
      /\ \A q \in Projects :
           /\ Live(q)' <=> Live(q)
           /\ projects'[q] = Unborn <=> projects[q] = Unborn
           /\ Live(q) => /\ projects'[q].account = projects[q].account
                         /\ projects'[q].quota = projects[q].quota
                         /\ projects'[q].models = projects[q].models
      /\ ExactlyOneDefault'
  BY PromotedRows
<1>2. locked' = Unlocked(c) /\ Return(c) /\ UNCHANGED <<accounts, members>>
  BY DEF DefaultPromoted
<1>3. /\ calls'[c] = Idle /\ \A d \in Calls : d # c => calls'[d] = calls[d]
      /\ \A q \in Projects : locked'[q] # c
      /\ \A q \in Projects, d \in Calls : d # c => (locked'[q] = d <=> locked[q] = d)
      /\ locked' \in [Projects -> Calls \cup {Nil}]
      /\ calls' \in [Calls -> CallRecords]
  BY <1>2, Released
<1>4. Types'
  BY <1>1, <1>2, <1>3, Zenon DEF Types
<1>5. ForeignKeys'
  BY <1>1, <1>2, Zenon DEF ForeignKeys, OnRoster
<1>6. CatalogueHeld'
  BY <1>1, <1>2, Zenon DEF CatalogueHeld, is_allowed, invalid_ids, OnRoster
<1>8. LockInv'
  <2> SUFFICES ASSUME NEW d \in Calls PROVE LocksHeld(d)'
    BY DEF LockInv
  <2>1. CASE d = c
    <3>1. calls'[d].at = "idle" /\ \A q \in Projects : locked'[q] # d
      BY <1>3, <2>1 DEF Idle
    <3> QED
      BY <3>1, LockFreed
  <2>2. CASE d # c
    <3>1. calls'[d] = calls[d]
      BY <1>3, <2>2
    <3>2. \A q \in Projects : locked'[q] = d <=> locked[q] = d
      BY <1>3, <2>2
    <3>3. \A q \in Projects : projects[q] # Unborn => projects'[q] # Unborn
      BY <1>1
    <3>4. \A q \in Projects : Live(q)' <=> Live(q)
      BY <1>1
    <3>5. \A q \in Projects : Live(q) => /\ projects'[q].account = projects[q].account
                                         /\ projects'[q].models = projects[q].models
      BY <1>1
    <3> QED
      BY <3>1, <3>2, <3>3, <3>4, <3>5, LockKept
  <2> QED
    BY <2>1, <2>2
<1>9. CallInv'
  <2>1. calls'[c].at \notin RosterCall
    BY <1>3 DEF RosterCall, Idle
  <2> QED
    BY <1>3, <2>1, CallKept, RememberInv
<1> QED
  BY <1>1, <1>4, <1>5, <1>6, <1>8, <1>9, RememberInv

-----------------------------------------------------------------------------
\* The four lead-gated operations, as they arrive: their argument is validated.
LEMMA AskInv ==
  ASSUME TenancyInv, NEW c \in Calls, NEW s \in Subjects, NEW t \in Subjects, NEW p \in Projects,
         NEW role \in Roles, NEW tier \in TierNames \cup {Nil}, Remember,
         \/ add_project_member(c, s, p, t, role)
         \/ remove_project_member(c, s, p, t)
         \/ set_project_member_role(c, s, p, t, role)
         \/ set_project_member_quota_tier(c, s, p, t, tier)
  PROVE  TenancyInv'
<1>1. ASSUME NEW op \in {"add", "remove", "role", "tier"}, NEW arg \in Roles \cup TierNames \cup {Nil},
             Ask(c, s, p, t, op, arg),
             op \in {"add", "role"} => arg \in Roles,
             op = "tier" => arg \in TierNames \cup {Nil} /\ is_allowed(arg)
      PROVE  TenancyInv'
  <2> DEFINE k == [at |-> "owner", s |-> s, p |-> p, t |-> t, op |-> op, arg |-> arg]
  <2>1. calls[c] = Idle /\ calls' = [calls EXCEPT ![c] = k]
        /\ UNCHANGED <<accounts, projects, members, locked>>
    BY <1>1, ZenonT(30) DEF Ask
  <2>2. k \in CallRecords /\ k.at = "owner" /\ k.op = op /\ k.arg = arg
    BY DEF CallRecords
  <2> HIDE DEF k
  <2>3. calls[c].at = "idle"
    BY <2>1 DEF Idle
  <2>4. /\ k.at \notin {"policy", "promote"} /\ k.at # "demote" /\ k.at # "write"
        /\ k.op \in {"add", "role"} => k.arg \in Roles
        /\ k.op = "tier" => k.arg \in TierNames \cup {Nil} /\ is_allowed(k.arg)
    BY <1>1, <2>2, ZenonT(30)
  <2>5. calls[c].at \notin {"policy", "promote"}
    BY <2>3
  <2> QED
    BY <2>1, <2>2, <2>4, <2>5, CallMoves, Zenon
<1>2. CASE add_project_member(c, s, p, t, role)
  BY <1>1, <1>2 DEF add_project_member
<1>3. CASE remove_project_member(c, s, p, t)
  BY <1>1, <1>3 DEF remove_project_member
<1>4. CASE set_project_member_role(c, s, p, t, role)
  BY <1>1, <1>4 DEF set_project_member_role
<1>5. CASE set_project_member_quota_tier(c, s, p, t, tier)
  BY <1>1, <1>5 DEF set_project_member_quota_tier
<1> QED
  BY <1>2, <1>3, <1>4, <1>5

\* authorize_project_lead: a call goes on to write only from a moment at which
\* its caller leads the project.
LEMMA AuthorizeInv ==
  ASSUME TenancyInv, NEW c \in Calls, authorize_project_lead(c), Remember
  PROVE  TenancyInv'
<1> USE DEF TenancyInv
<1>1. /\ calls[c].at \in {"owner", "member_role"} /\ calls[c] \in CallRecords
      /\ UNCHANGED <<accounts, projects, members, locked>>
  BY Zenon DEF authorize_project_lead, Types
<1>2. calls[c].s \in Subjects /\ calls[c].p \in Projects
  BY <1>1, CallFields, Zenon DEF RosterCall
<1>3. calls[c].at \notin {"policy", "promote"}
  BY <1>1
<1>4. CASE Return(c)
  <2>1. Idle \in CallRecords /\ Idle.at = "idle"
    BY DEF CallRecords, Idle
  <2>2. calls' = [calls EXCEPT ![c] = Idle]
    BY <1>4 DEF Return
  <2> HIDE DEF TenancyInv
  <2> QED
    BY <1>1, <1>3, <2>1, <2>2, CallMoves, ZenonT(30) DEF RosterCall
<1>5. ASSUME NEW at \in {"member_role", "write"},
             calls' = [calls EXCEPT ![c] = [calls[c] EXCEPT !.at = at]],
             at = "write" => Leads(calls[c].s, calls[c].p)
      PROVE  TenancyInv'
  <2> DEFINE k == [calls[c] EXCEPT !.at = at]
  <2>1. /\ k \in CallRecords /\ k.at = at /\ k.s = calls[c].s /\ k.p = calls[c].p
        /\ k.op = calls[c].op /\ k.arg = calls[c].arg
    BY <1>1 DEF CallRecords, Idle
  <2>2. at = "write" => <<calls[c].s, calls[c].p>> \in led
    BY <1>2, <1>5 DEF LedInv
  <2>3. /\ calls[c].op \in {"add", "role"} => calls[c].arg \in Roles
        /\ calls[c].op = "tier" => calls[c].arg \in TierNames \cup {Nil} /\ is_allowed(calls[c].arg)
    BY <1>1, Zenon DEF CallInv, CallSound, RosterCall
  <2>4. calls' = [calls EXCEPT ![c] = k]
    BY <1>5
  <2> HIDE DEF k, TenancyInv
  <2> QED
    BY <1>1, <1>3, <2>1, <2>2, <2>3, <2>4, CallMoves, Zenon
<1>6. CASE ~Return(c)
  <2>1. CASE calls[c].at = "owner"
    <3>1. calls' = [calls EXCEPT ![c] = [calls[c] EXCEPT !.at =
                      IF Owns(calls[c].s, calls[c].p) THEN "write" ELSE "member_role"]]
      BY <1>6, <2>1 DEF authorize_project_lead
    <3> QED
      BY <1>5, <3>1, Zenon DEF Owns, Leads
  <2>2. CASE calls[c].at = "member_role"
    <3>1. /\ OnRoster(calls[c].s, calls[c].p) /\ members[calls[c].p][calls[c].s].role = "lead"
          /\ calls' = [calls EXCEPT ![c] = [calls[c] EXCEPT !.at = "write"]]
      BY <1>6, <2>2 DEF authorize_project_lead
    <3>2. Leads(calls[c].s, calls[c].p)
      BY <1>2, <3>1, ZenonT(30) DEF Leads, ForeignKeys
    <3> QED
      BY <1>5, <3>1, <3>2
  <2> QED
    BY <1>1, <2>1, <2>2
<1> QED
  BY <1>4, <1>6

\* The row a roster call writes: well formed, of an allowed tier, and there only
\* if its project and its account are.
LEMMA RosterRowWritten ==
  ASSUME TenancyInv, NEW c \in Calls, calls[c].at = "write"
  PROVE  /\ calls[c].p \in Projects /\ calls[c].t \in Subjects /\ calls[c].s \in Subjects
         /\ RosterRow(c) \in MemberRows \cup {Nil}
         /\ RosterRow(c) # Nil =>
              /\ Live(calls[c].p) /\ accounts[calls[c].t] # Nil
              /\ is_allowed(RosterRow(c).tier)
<1> USE DEF TenancyInv
<1>1. calls[c] \in CallRecords
  BY DEF Types
<1>2. /\ calls[c].p \in Projects /\ calls[c].t \in Subjects /\ calls[c].s \in Subjects
      /\ calls[c].op \in {"add", "remove", "role", "tier"}
  BY <1>1, CallFields, ZenonT(30) DEF RosterCall
<1> DEFINE row == members[calls[c].p][calls[c].t]
           arg == calls[c].arg
<1>3. /\ row \in MemberRows \cup {Nil}
      /\ row # Nil => Live(calls[c].p) /\ accounts[calls[c].t] # Nil /\ is_allowed(row.tier)
  BY <1>2 DEF Types, ForeignKeys, CatalogueHeld, OnRoster
<1>4. /\ calls[c].op \in {"add", "role"} => arg \in Roles
      /\ calls[c].op = "tier" => arg \in TierNames \cup {Nil} /\ is_allowed(arg)
  BY Zenon DEF CallInv, CallSound, RosterCall
<1> HIDE DEF row, arg
<1>5. CASE calls[c].op = "add"
  <2>1. RosterRow(c) = IF row = Nil /\ Live(calls[c].p) /\ accounts[calls[c].t] # Nil
                       THEN [role |-> arg, tier |-> Nil] ELSE row
    BY <1>5, Zenon DEF RosterRow, row, arg
  <2>2. [role |-> arg, tier |-> Nil] \in MemberRows
    BY <1>4, <1>5 DEF MemberRows
  <2> QED
    <3>1. [role |-> arg, tier |-> Nil].tier = Nil /\ is_allowed(Nil)
      BY DEF is_allowed
    <3>2. CASE row = Nil /\ Live(calls[c].p) /\ accounts[calls[c].t] # Nil
      BY <1>2, <2>1, <2>2, <3>1, <3>2, Zenon
    <3>3. CASE ~(row = Nil /\ Live(calls[c].p) /\ accounts[calls[c].t] # Nil)
      BY <1>2, <1>3, <2>1, <3>3
    <3> QED
      BY <3>2, <3>3
<1>6. CASE calls[c].op = "remove"
  BY <1>2, <1>6 DEF RosterRow
<1>7. CASE calls[c].op = "role"
  <2>1. RosterRow(c) = IF row = Nil THEN Nil ELSE [row EXCEPT !.role = arg]
    BY <1>7 DEF RosterRow, row, arg
  <2>2. row # Nil => /\ [row EXCEPT !.role = arg] \in MemberRows
                     /\ [row EXCEPT !.role = arg].tier = row.tier
    BY <1>3, <1>4, <1>7 DEF MemberRows
  <2> QED
    BY <1>2, <1>3, <2>1, <2>2
<1>8. CASE calls[c].op = "tier"
  <2>1. RosterRow(c) = IF row = Nil THEN Nil ELSE [row EXCEPT !.tier = arg]
    BY <1>8 DEF RosterRow, row, arg
  <2>2. row # Nil => /\ [row EXCEPT !.tier = arg] \in MemberRows
                     /\ [row EXCEPT !.tier = arg].tier = arg
    BY <1>3, <1>4, <1>8 DEF MemberRows
  <2> QED
    BY <1>2, <1>3, <1>4, <1>8, <2>1, <2>2
<1> QED
  BY <1>2, <1>5, <1>6, <1>7, <1>8

\* RosterWritten: one row of one roster.
LEMMA RosterInv ==
  ASSUME TenancyInv, NEW c \in Calls, RosterWritten(c), Remember
  PROVE  TenancyInv'
<1> USE DEF TenancyInv
<1>1. /\ calls[c].at = "write"
      /\ members' = [members EXCEPT ![calls[c].p][calls[c].t] = RosterRow(c)]
      /\ Return(c) /\ UNCHANGED <<accounts, projects, locked>>
  BY DEF RosterWritten
<1>2. /\ calls[c].p \in Projects /\ calls[c].t \in Subjects
      /\ RosterRow(c) \in MemberRows \cup {Nil}
      /\ RosterRow(c) # Nil =>
           /\ Live(calls[c].p) /\ accounts[calls[c].t] # Nil
           /\ is_allowed(RosterRow(c).tier)
  BY <1>1, RosterRowWritten, Zenon
<1>3. PICK p \in Projects, t \in Subjects, row \in MemberRows \cup {Nil} :
        p = calls[c].p /\ t = calls[c].t /\ row = RosterRow(c)
  BY <1>2
<1>4. /\ members'[p][t] = row
      /\ \A q \in Projects, u \in Subjects : q # p \/ u # t => members'[q][u] = members[q][u]
      /\ members' \in [Projects -> [Subjects -> MemberRows \cup {Nil}]]
  BY <1>1, <1>3 DEF Types
<1>5. calls'[c] = Idle /\ \A d \in Calls : d # c => calls'[d] = calls[d]
  BY <1>1, ZenonT(30) DEF Types, Return
<1>6. Types'
  BY <1>1, <1>4 DEF Types, Return, CallRecords
<1>7. \A q \in Projects : Live(q)' <=> Live(q)
  BY <1>1 DEF Live
<1>8. ForeignKeys'
  <2>1. ASSUME NEW q \in Projects, NEW u \in Subjects, members'[q][u] # Nil
        PROVE  Live(q) /\ accounts[u] # Nil
    <3>1. CASE q = p /\ u = t
      BY <1>2, <1>3, <1>4, <2>1, <3>1
    <3>2. CASE q # p \/ u # t
      BY <1>4, <2>1, <3>2, Zenon DEF ForeignKeys, OnRoster
    <3> QED
      BY <3>1, <3>2, ZenonT(30)
  <2> QED
    BY <1>1, <1>7, <2>1 DEF ForeignKeys, OnRoster
<1>9. CatalogueHeld'
  <2>1. \A q \in Projects : Live(q) => \A u \in Subjects :
          members'[q][u] # Nil => is_allowed(members'[q][u].tier)
    BY <1>2, <1>3, <1>4, ZenonT(30) DEF CatalogueHeld, OnRoster
  <2> QED
    BY <1>1, <1>7, <2>1, Zenon DEF CatalogueHeld, OnRoster, is_allowed, invalid_ids
<1>10. ExactlyOneDefault'
  BY <1>1 DEF ExactlyOneDefault, Owns, Live
<1>11. LockInv'
  <2> SUFFICES ASSUME NEW d \in Calls PROVE LocksHeld(d)'
    BY DEF LockInv
  <2>1. CASE d = c
    <3>1. calls'[d].at = "idle"
      BY <1>5, <2>1 DEF Idle
    <3>2. \A q \in Projects : locked'[q] # d
      BY <1>1, <2>1 DEF LockInv, LocksHeld
    <3> QED
      BY <3>1, <3>2, LockFreed
  <2>2. CASE d # c
    BY <1>1, <1>5, <2>2, LockSame
  <2> QED
    BY <2>1, <2>2
<1>12. CallInv'
  <2>1. calls'[c].at \notin RosterCall
    BY <1>5 DEF RosterCall, Idle
  <2> QED
    BY <1>5, <2>1, CallKept, RememberInv
<1> QED
  BY <1>6, <1>8, <1>9, <1>10, <1>11, <1>12, RememberInv

-----------------------------------------------------------------------------
\* Every step keeps the invariant.
LEMMA TenancyStep ==
  ASSUME TenancyInv, [Next]_tenancyVars
  PROVE  TenancyInv'
<1>1. CASE Next
  <2>1. Remember
    BY <1>1 DEF Next
  <2>2. CASE Comings
    <3>1. Nil \in TierNames \cup {Nil} /\ "active" \in {"active", "suspended"}
      OBVIOUS
    <3> QED
      BY <2>1, <2>2, <3>1, AccountsInv, DeleteAccountInv, CreateProjectInv, DeleteProjectInv
         DEF Comings
  <2>3. CASE Defaults
    BY <2>1, <2>3, SetDefaultInv, DemotedInv, PromotedInv DEF Defaults
  <2>4. CASE Rosters
    <3>1. Nil \in TierNames \cup {Nil} /\ "lead" \in Roles
      BY Zenon DEF Roles
    <3> QED
      BY <2>1, <2>4, <3>1, AskInv, AuthorizeInv, RosterInv DEF Rosters
  <2>5. CASE Statuses
    <3>1. Nil \in TierNames \cup {Nil} /\ Nil \in {Nil} \cup SUBSET ModelNames
      OBVIOUS
    <3> QED
      BY <2>1, <2>5, <3>1, AccountsInv, ColumnsInv, Zenon DEF Statuses
  <2>6. CASE Settings
    <3>1. /\ "active" \in {"active", "suspended"} /\ "lead" \in Roles
          /\ Nil \in TierNames \cup {Nil} /\ Nil \in {Nil} \cup SUBSET ModelNames
      BY DEF Roles
    <3>2. CASE \E c \in Calls : PolicyWritten(c) \/ authorize_project_lead(c) \/ RosterWritten(c)
      BY <2>1, <3>2, PolicyWrittenInv, AuthorizeInv, RosterInv
    <3>3. CASE \E s \in Subjects, p \in Projects, c \in Calls, policy \in Policies :
                 set_project_model_policy(c, s, p, policy)
      BY <2>1, <3>3, PolicyCheckedInv, Zenon
    <3>4. CASE \E s \in Subjects, p \in Projects, t \in TierNames \cup {Nil} :
                 \/ update_account_default_quota(s, t)
                 \/ set_project_quota(s, p, t)
                 \/ \E c \in Calls, u \in Subjects :
                      set_project_member_quota_tier(c, s, p, u, t)
      BY <2>1, <3>1, <3>4, AccountsInv, ColumnsInv, AskInv, ZenonT(30)
    <3>5. CASE \E s \in Subjects, p \in Projects, ms \in {Nil} \cup SUBSET ModelNames :
                 set_project_allowed_models(s, p, ms)
      BY <2>1, <3>1, <3>5, ColumnsInv
    <3> QED
      BY <2>6, <3>2, <3>3, <3>4, <3>5 DEF Settings
  <2> QED
    BY <1>1, <2>2, <2>3, <2>4, <2>5, <2>6 DEF Next
<1>2. CASE UNCHANGED tenancyVars
  <2>1. UNCHANGED <<accounts, projects, members, locked, calls, led>>
    BY <1>2, Zenon DEF tenancyVars
  <2>2. Types' /\ CallInv' /\ LedInv'
    BY <2>1, Zenon DEF TenancyInv, Types, CallInv, CallSound, LedInv, Leads, Live, OnRoster, is_allowed
  <2>3. ForeignKeys' /\ ExactlyOneDefault'
    BY <2>1, Zenon DEF TenancyInv, ForeignKeys, ExactlyOneDefault, Live, Owns, OnRoster
  <2>4. LockInv'
    <3>1. ASSUME NEW c \in Calls PROVE LocksHeld(c)'
      <4>1. LocksHeld(c)
        BY ZenonT(30) DEF TenancyInv, LockInv
      <4> QED
        BY <2>1, <4>1 DEF LocksHeld, Live, Owns
    <3> QED
      BY <3>1, Zenon DEF LockInv
  <2>5. CatalogueHeld'
    BY <2>1 DEF TenancyInv, CatalogueHeld, Live, OnRoster, is_allowed, invalid_ids
  <2> QED
    BY <2>2, <2>3, <2>4, <2>5 DEF TenancyInv
<1> QED
  BY <1>1, <1>2

\* The invariant holds of every state the tables reach.
LEMMA TenancyInvariant == Spec => []TenancyInv
  BY TenancyInitInv, TenancyStep, PTL DEF Spec

-----------------------------------------------------------------------------
\* Every state is well formed and keeps the foreign keys, cascades of deleted
\* accounts and projects included.
THEOREM TenancyTypeCorrect == Spec => []TenancyTypeOK
<1>1. TenancyInv => TenancyTypeOK
  BY DEF TenancyInv, Types, ForeignKeys, TenancyTypeOK
<1> QED
  BY <1>1, TenancyInvariant, PTL

\* However many setDefaultProject transactions race with creations and
\* deletions: an account with a project has exactly one default project.
THEOREM OneDefaultAlways == Spec => []ExactlyOneDefault
<1>1. TenancyInv => ExactlyOneDefault
  BY DEF TenancyInv
<1> QED
  BY <1>1, TenancyInvariant, PTL

\* Whichever setter wrote them, stored tiers and models are the catalogue's.
THEOREM CatalogueAlways == Spec => []CatalogueHeld
<1>1. TenancyInv => CatalogueHeld
  BY DEF TenancyInv
<1> QED
  BY <1>1, TenancyInvariant, PTL

\* What a step of Settings writes: no project, the policy, or another column.
LEMMA SettingsSteps ==
  ASSUME Settings
  PROVE  \/ UNCHANGED projects /\ (UNCHANGED members \/ \E c \in Calls : RosterWritten(c))
         \/ \E c \in Calls : PolicyWritten(c)
         \/ \E s \in Subjects, q \in Projects :
              \/ \E t \in TierNames \cup {Nil} : set_project_quota(s, q, t)
              \/ \E ms \in {Nil} \cup SUBSET ModelNames : set_project_allowed_models(s, q, ms)
<1>1. ASSUME NEW s \in Subjects, NEW p \in Projects, NEW t \in TierNames \cup {Nil},
             \/ update_account_default_quota(s, t)
             \/ \E c \in Calls, u \in Subjects : set_project_member_quota_tier(c, s, p, u, t)
      PROVE  UNCHANGED <<projects, members>>
  BY <1>1, Zenon DEF update_account_default_quota, set_project_member_quota_tier, Ask
<1>2. ASSUME NEW c \in Calls, NEW s \in Subjects, NEW p \in Projects, NEW policy \in Policies,
             set_project_model_policy(c, s, p, policy)
      PROVE  UNCHANGED <<projects, members>>
  BY <1>2 DEF set_project_model_policy
<1>3. ASSUME NEW c \in Calls, authorize_project_lead(c)
      PROVE  UNCHANGED <<projects, members>>
  BY <1>3 DEF authorize_project_lead
<1>4. ASSUME NEW c \in Calls, RosterWritten(c) PROVE UNCHANGED projects
  BY <1>4 DEF RosterWritten
<1> QED
  BY <1>1, <1>2, <1>3, <1>4 DEF Settings

\* The policy column is written to "allowlist" only over a list with entries.
LEMMA PolicyColumn ==
  ASSUME TenancyInv, Next, NEW p \in Projects, Live(p), Live(p)',
         projects'[p].policy = "allowlist", projects[p].policy # "allowlist"
  PROVE  projects[p].models \notin {Nil, {}}
<1> USE DEF TenancyInv
<1>1. CASE UNCHANGED projects
  BY <1>1
<1>2. CASE \E c \in Calls : PolicyWritten(c)
  <2>1. PICK c \in Calls : PolicyWritten(c)
    BY <1>2
  <2>2. calls[c].at = "policy" /\ calls[c].p \in Projects
    BY <2>1, Zenon DEF PolicyWritten, Types, CallRecords, Idle
  <2>3. /\ Live(calls[c].p)
        /\ calls[c].policy = "allowlist" => projects[calls[c].p].models \notin {Nil, {}}
    BY <2>2 DEF LockInv, LocksHeld
  <2>4. projects' = [projects EXCEPT ![calls[c].p] =
                       [projects[calls[c].p] EXCEPT !.policy = calls[c].policy]]
    BY <2>1, <2>3 DEF PolicyWritten
  <2>5. p = calls[c].p
    BY <2>2, <2>4 DEF Types
  <2>6. projects[p] \in ProjectRows
    BY LiveRow
  <2>7. projects'[p].policy = calls[c].policy
    BY <2>4, <2>5, <2>6 DEF Types, ProjectRows
  <2> QED
    BY <2>3, <2>5, <2>7
<1>3. CASE \E c \in Calls : DefaultPromoted(c)
  BY <1>3, PromotedRows
<1>4. CASE \E s \in Subjects : delete_account(s)
  BY <1>4, Zenon DEF delete_account, Live
<1>5. CASE \E s \in Subjects, q \in Projects : delete_project(s, q)
  BY <1>5, Zenon DEF delete_project, Live, Types
<1>6. CASE \E s \in Subjects, q \in Projects : create_project(s, q)
  BY <1>6, Zenon DEF create_project, Live, Types
<1>7. CASE \E s \in Subjects, q \in Projects :
             \/ \E status \in {"active", "suspended"} : set_project_status(s, q, status)
             \/ \E t \in TierNames \cup {Nil} : set_project_quota(s, q, t)
             \/ \E ms \in {Nil} \cup SUBSET ModelNames : set_project_allowed_models(s, q, ms)
  <2>1. projects[p] \in ProjectRows
    BY LiveRow
  <2>2. projects'[p].policy = projects[p].policy
    BY <1>7, <2>1 DEF set_project_status, set_project_quota, set_project_allowed_models,
                      Types, ProjectRows
  <2> QED
    BY <2>2
<1>8. CASE Comings
  BY <1>1, <1>4, <1>5, <1>6, <1>8, Zenon DEF Comings, create_account
<1>9. CASE Defaults
  BY <1>1, <1>3, <1>9 DEF Defaults, set_default_project, DefaultDemoted
<1>10. CASE Rosters
  BY <1>1, <1>10 DEF Rosters, authorize_project_lead, RosterWritten, remove_project_member,
                     add_project_member, set_project_member_role, Ask
<1>11. CASE Statuses
  BY <1>1, <1>7, <1>11, Zenon DEF Statuses, set_account_status
<1>12. CASE Settings
  BY <1>1, <1>2, <1>7, <1>12, SettingsSteps
<1> QED
  BY <1>8, <1>9, <1>10, <1>11, <1>12 DEF Next

\* set_project_model_policy: no concurrent setProjectAllowedModels empties the
\* list between the check and the switch, for any number of callers.
THEOREM AllowlistNeverOverEmpty == Spec => AllowlistSwitchGuarded
<1> DEFINE Guarded ==
      \A p \in Projects :
         (Live(p) /\ Live(p)' /\ projects'[p].policy = "allowlist"
            /\ projects[p].policy # "allowlist") =>
               projects[p].models \notin {Nil, {}}
<1>1. ASSUME TenancyInv, [Next]_tenancyVars PROVE [Guarded]_tenancyVars
  BY <1>1, PolicyColumn DEF tenancyVars
<1> QED
  BY <1>1, TenancyInvariant, PTL DEF Spec, AllowlistSwitchGuarded

\* A row of a roster changes by a call whose caller led the project when it was
\* authorized, or disappears with its project or account.
THEOREM RostersChangedByLeads == Spec => RosterChangedByLeads
<1> DEFINE ByLeads ==
      \A p \in Projects, t \in Subjects :
         (members'[p][t] # members[p][t]) =>
            \/ members'[p][t] = Nil /\ (~ Live(p)' \/ accounts'[t] = Nil)
            \/ \E c \in Calls : /\ calls[c].at = "write"
                                /\ calls'[c] = Idle
                                /\ calls[c].p = p
                                /\ <<calls[c].s, p>> \in led
<1>1. ASSUME TenancyInv, [Next]_tenancyVars PROVE [ByLeads]_tenancyVars
  <2> USE <1>1 DEF TenancyInv
  <2>1. CASE UNCHANGED members
    BY <2>1, Zenon
  <2>2. CASE \E c \in Calls : RosterWritten(c)
    <3>1. PICK c \in Calls : RosterWritten(c)
      BY <2>2
    <3>2. calls[c].at = "write" /\ calls'[c] = Idle /\ <<calls[c].s, calls[c].p>> \in led
      BY <3>1 DEF RosterWritten, Return, Types, CallInv, CallSound
    <3>3. calls[c].p \in Projects /\ calls[c].t \in Subjects
      BY <3>2, RosterRowWritten
    <3>4. \A p \in Projects : p # calls[c].p => members'[p] = members[p]
      BY <3>1, <3>3 DEF RosterWritten, Types
    <3> QED
      BY <3>2, <3>4
  <2>3. CASE \E s \in Subjects : delete_account(s)
    <3>1. PICK s \in Subjects : delete_account(s)
      BY <2>3
    <3>2. ASSUME NEW p \in Projects, NEW t \in Subjects, members'[p][t] # members[p][t]
          PROVE  members'[p][t] = Nil /\ (~Live(p)' \/ accounts'[t] = Nil)
      <4>1. CASE Owns(s, p)
        BY <3>1, <4>1 DEF delete_account, NoMembers, Live
      <4>2. CASE ~Owns(s, p)
        <5>1. members'[p] = [members[p] EXCEPT ![s] = Nil] /\ accounts'[s] = Nil
          BY <3>1, <4>2 DEF delete_account, Types
        <5>2. t = s /\ members'[p][s] = Nil
          BY <3>2, <5>1 DEF Types
        <5> QED
          BY <5>1, <5>2
      <4> QED
        BY <4>1, <4>2
    <3> QED
      BY <3>2
  <2>4. CASE \E s \in Subjects, q \in Projects : delete_project(s, q)
    <3>1. PICK s \in Subjects, q \in Projects : delete_project(s, q)
      BY <2>4
    <3>2. /\ projects'[q] = Gone /\ members'[q] = NoMembers
          /\ \A p \in Projects : p # q => members'[p] = members[p]
      BY <3>1, ZenonT(30) DEF delete_project, Types
    <3> QED
      BY <3>2 DEF NoMembers, Live
  <2>5. CASE Comings
    BY <2>1, <2>3, <2>4, <2>5, Zenon DEF Comings, create_account, create_project
  <2>6. CASE Defaults
    BY <2>1, <2>6 DEF Defaults, set_default_project, DefaultDemoted, DefaultPromoted
  <2>7. CASE Rosters
    BY <2>1, <2>2, <2>7 DEF Rosters, authorize_project_lead, remove_project_member,
                            add_project_member, set_project_member_role, Ask
  <2>8. CASE Statuses
    BY <2>1, <2>8, Zenon DEF Statuses, set_account_status, set_project_status
  <2>9. CASE Settings
    <3>1. ASSUME \/ \E c \in Calls : PolicyWritten(c)
                 \/ \E s \in Subjects, q \in Projects :
                      \/ \E t \in TierNames \cup {Nil} : set_project_quota(s, q, t)
                      \/ \E ms \in {Nil} \cup SUBSET ModelNames :
                           set_project_allowed_models(s, q, ms)
          PROVE  UNCHANGED members
      BY <3>1, Zenon DEF PolicyWritten, set_project_quota, set_project_allowed_models
    <3> QED
      BY <2>1, <2>2, <2>9, <3>1, SettingsSteps, Zenon
  <2> QED
    BY <1>1, <2>1, <2>5, <2>6, <2>7, <2>8, <2>9, Zenon DEF Next, tenancyVars
<1> QED
  BY <1>1, TenancyInvariant, PTL DEF Spec, RosterChangedByLeads
=============================================================================
