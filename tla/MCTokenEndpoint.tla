-------------------------- MODULE MCTokenEndpoint --------------------------
(* A public and a confidential client, one assertion each way, two projects. *)
(* Two instances, told apart by `focus`. "claims": one caller, while the     *)
(* databases change. "clients": two callers that share an assertion, while   *)
(* Redis comes and goes and time passes. MCSessions runs both.               *)
EXTENDS TokenEndpoint

CONSTANTS Other
VARIABLE focus

McConfig ==
    [web |-> [type |-> "public", scopes |-> {"openid", "email"},
              grant_types |-> {"token-exchange", "authorization_code"}],
     batch |-> [type |-> "confidential", scopes |-> {"openid", "offline_access"},
                grant_types |-> {"token-exchange"}]]

McAssertions == [j1 |-> [client |-> "batch", exp |-> 1]]

Base == [endpoint |-> "token", client_id |-> "web", basic |-> Nil, secret |-> Nil,
         assertion |-> Nil, typed |-> TRUE, grant |-> "token-exchange", scope |-> {},
         subject |-> [active |-> TRUE, aud |-> {"web", "batch"}], project |-> Nil,
         actor |-> FALSE, types |-> TRUE, token |-> Nil]

Asserted == [Base EXCEPT !.client_id = Nil, !.assertion = "j1"]

\* What clients send: well formed, and one departure from it at a time.
McRequests ==
    {Base, [Base EXCEPT !.project = "p2"],
     [Base EXCEPT !.grant = "authorization_code"],
     [Base EXCEPT !.grant = "password"],
     [Base EXCEPT !.subject.aud = {"other"}],
     [Base EXCEPT !.subject.active = FALSE],
     [Base EXCEPT !.client_id = "unknown"],
     [Base EXCEPT !.client_id = "batch"],
     [Base EXCEPT !.secret = "s"],
     [Asserted EXCEPT !.scope = {"openid", "offline_access"}],
     [Asserted EXCEPT !.endpoint = "revoke", !.token = [client |-> "batch"]],
     [Asserted EXCEPT !.endpoint = "revoke", !.token = [client |-> "web"]],
     [Asserted EXCEPT !.typed = FALSE],
     [Asserted EXCEPT !.client_id = "web"],
     [Base EXCEPT !.endpoint = "revoke", !.client_id = "batch", !.token = [client |-> "batch"]],
     [Base EXCEPT !.endpoint = "revoke", !.basic = "batch", !.token = [client |-> "batch"]],
     [Base EXCEPT !.endpoint = "revoke"]}

McInit == EndpointInit /\ focus \in {"claims", "clients"}

McNext ==
    /\ EndpointNext
    /\ focus = "claims" => stage'[Other] = "idle" /\ time' = 0 /\ redis'
    /\ focus = "clients" => changes' = 0
    /\ UNCHANGED focus

McSpec == McInit /\ [][McNext]_<<endpointVars, focus>>
=============================================================================
