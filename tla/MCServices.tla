------------------------------ MODULE MCServices ------------------------------
(***************************************************************************)
(* The services and the policy they serve, in one run: requests on every   *)
(* surface ("access"), processes starting on one database ("startup"),     *)
(* and admins activating policy revisions on running servers ("policies").  *)
(* `focus` is chosen once; the other parts rest.                           *)
(***************************************************************************)
EXTENDS MCAccess, MCStartup, MCPolicyStore

VARIABLE focus
serviceVars == <<accessVars, startupVars, vars, focus>>

StartupRests ==
    /\ config = Working /\ db = TRUE /\ outages = 0 /\ kid = TRUE /\ revision = 1
    /\ procs = [r \in Procs |-> [Launched("config", 1) EXCEPT !.at = "exited"]]

ServicesInit ==
    /\ AccessInit /\ Init
    /\ \/ focus \in {"access", "policies"} /\ StartupRests
       \/ focus = "startup" /\ MCStartupInit

ServicesNext ==
    /\ \/ focus = "access" /\ AccessNext /\ UNCHANGED <<startupVars, vars>>
       \/ focus = "startup" /\ StartupNext /\ UNCHANGED <<accessVars, vars>>
       \/ focus = "policies" /\ Next /\ UNCHANGED <<accessVars, startupVars>>
    /\ UNCHANGED focus

\* A process that has started goes on running; a server that is down is
\* started again.  (Neither is asked of a part at rest: its processes have
\* exited and its servers are up.)
ServicesSpec ==
    /\ ServicesInit /\ [][ServicesNext]_serviceVars
    /\ StartupFairness
    /\ \A s \in Servers : WF_vars(Start(s))
===============================================================================
