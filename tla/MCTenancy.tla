------------------------------ MODULE MCTenancy ------------------------------
(***************************************************************************)
(* Model-checking instance of Tenancy.  `focus`, chosen once, selects what *)
(* a behaviour explores: projects and their defaults from the empty        *)
(* database, or the roster, the settings or the statuses of one shared     *)
(* project.                                                                *)
(***************************************************************************)
EXTENDS Tenancy, TLC

VARIABLE focus
mcVars == <<tenancyVars, focus>>

\* A reachable state: an account with its default project, a second account
\* on the roster.
Settled ==
    \E owner \in Subjects, shared \in Projects, role \in Roles :
        /\ accounts = [s \in Subjects |-> [status |-> "active", quota |-> Nil]]
        /\ projects = [p \in Projects |->
             IF p = shared
             THEN [account |-> owner, status |-> "active", isDefault |-> TRUE,
                   policy |-> "allow_all", models |-> Nil, quota |-> Nil]
             ELSE Unborn]
        /\ members = [p \in Projects |-> [s \in Subjects |->
             IF p = shared /\ s # owner THEN [role |-> role, tier |-> Nil] ELSE Nil]]
        /\ locked = [p \in Projects |-> Nil]
        /\ calls = [c \in Calls |-> Idle]
        /\ led = {sp \in Subjects \X Projects : Leads(sp[1], sp[2])}

FocusInit ==
    \/ focus = "defaults" /\ Init
    \/ focus \in {"rosters", "settings", "statuses"} /\ Settled

FocusNext ==
    /\ \/ focus = "defaults" /\ (Comings \/ Defaults)
       \/ /\ focus = "rosters"
          /\ Rosters \/ \E s \in Subjects : create_account(s, Nil) \/ delete_account(s)
          /\ \A c \in Calls : calls'[c] # Idle => projects[calls'[c].p] # Unborn
       \/ focus = "settings" /\ Settings
       \/ focus = "statuses" /\ Statuses
    /\ Remember
    /\ UNCHANGED focus

FocusSpec == FocusInit /\ [][FocusNext]_mcVars

Sym == Permutations(Calls) \cup Permutations(Projects) \cup Permutations(Subjects)
=============================================================================
