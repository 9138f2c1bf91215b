------------------------------ MODULE MCApiKeys ------------------------------
(***************************************************************************)
(* Model-checking instance of ApiKeys.  `focus`, chosen once, selects what *)
(* a behaviour explores: the life of keys under racing key operations, or  *)
(* introspection against revocation, deletion, suspension and roster       *)
(* changes, from a state in which a key and a session exist.               *)
(***************************************************************************)
EXTENDS ApiKeys, TLC

CONSTANTS owner, member, shared, mainKey, session

VARIABLE focus
mcVars == <<allVars, focus>>

\* A reachable state: two accounts, the project of one of them, the other on
\* its roster.
SettledTenancy ==
    /\ accounts = [s \in Subjects |-> [status |-> "active", quota |-> Nil]]
    /\ projects = [p \in Projects |->
         [account |-> owner, status |-> "active", isDefault |-> TRUE,
          policy |-> "allow_all", models |-> Nil, quota |-> Nil]]
    /\ \E role \in Roles :
         members = [p \in Projects |->
           [NoMembers EXCEPT ![member] = [role |-> role, tier |-> Nil]]]
    /\ locked = [p \in Projects |-> Nil]
    /\ calls = [c \in Calls |-> Idle]
    /\ led = {sp \in Subjects \X Projects : Leads(sp[1], sp[2])}

\* ... and a key of the member, and perhaps a session, minted at time 0.
Minted ==
    /\ keys = [k \in Keys |->
         IF k = mainKey THEN [project |-> shared, owner |-> member, status |-> "active",
                              created |-> 0, expires |-> 1, deleted |-> FALSE]
         ELSE Unborn]
    /\ claims = [x \in Keys \cup Sessions |->
         IF x = mainKey \/ (x = session /\ focus = "lifecycle")
         THEN [sub |-> member, project |-> shared, account |-> owner, exp |-> 1,
               azp |-> IF x = mainKey THEN "audience" ELSE "client"]
         ELSE Nil]
    /\ now = 0
    /\ ops = [o \in Ops |-> Idle]
    /\ checks = [i \in Checks |-> Idle]
    /\ held = [i \in Checks |-> {}]

FocusInit == focus \in {"lifecycle", "introspection"} /\ SettledTenancy /\ Minted

\* Steps of KeysNext: every key operation, beside account deletion ...
LifecycleNext ==
    /\ Lifecycle \/ ((\E s \in Subjects : delete_account(s)) /\ Beside)
    /\ Observe

\* ... or every introspection, beside all that can end a credential.
IntrospectionNext ==
    /\ \/ Introspection \/ Endings \/ Tick \/ SessionMinted
       \/ /\ \/ Statuses
             \/ \E s \in Subjects : create_account(s, Nil) \/ delete_account(s)
             \/ \E c \in Calls :
                  \/ \E s \in Subjects : remove_project_member(c, s, shared, member)
                  \/ authorize_project_lead(c) \/ RosterWritten(c)
          /\ Beside
    /\ Observe

FocusNext ==
    /\ \/ focus = "lifecycle" /\ LifecycleNext
       \/ focus = "introspection" /\ IntrospectionNext
    /\ UNCHANGED focus

FocusSpec == FocusInit /\ [][FocusNext]_mcVars
Sym == Permutations(Keys \ {mainKey}) \cup Permutations(Ops)
=============================================================================
