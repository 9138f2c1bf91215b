------------------------------ MODULE MCSessions ------------------------------
(* The token endpoint in one run: the two instances of MCTokenEndpoint, and   *)
(* one session refreshed while its subject's standing comes and goes ("ends"; *)
(* RefreshChain under its FairSpec).                                          *)
EXTENDS MCTokenEndpoint, RefreshChain

SessionsInit ==
    /\ \/ McInit
       \/ focus = "ends" /\ EndpointInit
    /\ Init

SessionsNext ==
    \/ focus # "ends" /\ McNext /\ UNCHANGED vars
    \/ focus = "ends" /\ Next /\ UNCHANGED <<endpointVars, focus>>

\* Time passes in the "ends" instance; elsewhere no session exists.
SessionsSpec ==
    /\ SessionsInit /\ [][SessionsNext]_<<endpointVars, vars, focus>>
    /\ WF_vars(focus = "ends" /\ Tick)
===============================================================================
