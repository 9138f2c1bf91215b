--------------------------- MODULE TokenEndpoint ---------------------------
(***************************************************************************)
(* The OAuth2 token and revocation endpoints from the client's side: which  *)
(* client is calling (ConfigClientStore, private_key_jwt assertions spent   *)
(* in Redis), which scopes it is granted, and how the claims of an          *)
(* exchanged access token are put together from four separate reads while   *)
(* leads and operators change what those reads return.                      *)
(*                                                                         *)
(* The life of a refresh token after it is stored is RefreshChain's.        *)
(***************************************************************************)
EXTENDS Optional, Integers

CONSTANTS
    Callers,        \* concurrent requests
    Config,         \* client id -> OauthClient of the configuration
    Assertions,     \* jti -> [client, exp], the client assertions in circulation
    Requests,       \* the requests that callers send
    ServerScopes,   \* Oauth2TokenExchange.allowed_scopes
    Enabled,        \* Oauth2TokenExchange.enabled
    Projects, Tiers, Amounts, Floors,
    MinTtl,         \* MIN_TTL_MS
    LastInstant, MaxChanges

ASSUME TokenEndpointAssumption ==
    /\ MinTtl \in Nat \ {0} /\ LastInstant \in Nat /\ MaxChanges \in Nat
    /\ Enabled \in BOOLEAN
    /\ Nil \notin DOMAIN Config /\ Nil \notin DOMAIN Assertions /\ Nil \notin Projects
    /\ Nil \notin Nat /\ Nil \notin {"ok", "access_denied"}
    /\ Projects # {}
    /\ \A j \in DOMAIN Assertions : Assertions[j].exp \in Nat
    /\ \A r \in Requests : /\ r.assertion \in DOMAIN Assertions \union {Nil}
                          /\ r.project \in Projects \union {Nil}

VARIABLES
    time,           \* the wall clock of the endpoint and of Redis
    redis,          \* is Redis reachable
    spent,          \* jti -> instant its Redis key expires
    world,          \* what the databases say (membership, settings, ledger), and
                    \* the floor of the policy the process loaded at its start
    changes,        \* changes made to world so far
    request, stage, \* per caller: the request and where the handler stands
    claims,         \* per caller: the claims gathered so far
    answer,         \* per caller: the OAuth2 error, "ok", or Nil
    recorded,       \* per caller: the instant its assertion was recorded, or Nil
    seen,           \* per caller: every world since the request arrived (history)
    revoked         \* refresh tokens revoked through the endpoint, by whom

endpointVars == <<time, redis, spent, world, changes, request, stage, claims,
                  answer, recorded, seen, revoked>>

-----------------------------------------------------------------------------
(* Registered clients.                                                      *)

parse_grant_type(raw) ==
    IF raw \in {"authorization_code", "refresh_token", "client_credentials",
                "device_code", "token-exchange"}
    THEN raw ELSE "custom"

to_registration(k) ==
    [grants |-> {parse_grant_type(g) : g \in k.grant_types},
     scopes |-> k.scopes,
     auth   |-> IF k.type = "public" THEN "NoAuth" ELSE "PrivateKeyJwt"]

\* ConfigClientStore: the clients are fixed when the process starts.
find_client(id) == IF id \in DOMAIN Config THEN to_registration(Config[id]) ELSE Nil

grant_scopes(requested, server, client) ==
    LET base == IF requested = {} THEN server \ {"offline_access"}
                ELSE requested \intersect server
    IN base \intersect client

-----------------------------------------------------------------------------
(* The credential a request presents.                                       *)

\* A client_secret or Basic header never authenticates anybody here, but it
\* still counts as a presented credential.
extract_credential(r) ==
    LET presented == {m \in {"basic", "secret", "assertion"} : r[m] # Nil}
    IN CASE r.assertion # Nil /\ ~r.typed -> "malformed"
         [] \E m, n \in presented : m # n -> "malformed"
         [] presented = {} -> "NoCredential"
         [] OTHER -> CHOOSE m \in presented : TRUE

\* Basic names the client; an assertion falls back to its own sub.
resolve_client_id(r) ==
    CASE r.basic # Nil -> r.basic
      [] r.assertion # Nil /\ r.client_id = Nil -> Assertions[r.assertion].client
      [] OTHER -> r.client_id

\* External: signed by a key of this client and not expired.
verify_client_assertion(jti, id) ==
    /\ Assertions[jti].client = id
    /\ time < Assertions[jti].exp

authenticate_client(r, id) ==
    LET how == find_client(id).auth
        credential == extract_credential(r)
    IN CASE how = "NoAuth" /\ credential = "NoCredential" -> "authenticated"
         [] how = "PrivateKeyJwt" /\ credential = "assertion" ->
              IF verify_client_assertion(r.assertion, id) THEN "verified" ELSE "invalid_client"
         [] OTHER -> "invalid_client"

-----------------------------------------------------------------------------
(* State.                                                                   *)

NoClaims == [project |-> Nil, models |-> Nil, policy |-> Nil, budget |-> Nil, quota |-> Nil]

EndpointInit ==
    /\ time = 0 /\ redis = TRUE /\ spent = [j \in DOMAIN Assertions |-> 0]
    /\ \E f \in Floors :
         world = [default |-> CHOOSE p \in Projects : TRUE,
                  project |-> [p \in Projects |-> [models |-> "some", policy |-> "allowlist",
                                  tier |-> Nil, member |-> TRUE, exists |-> TRUE]],
                  ledger |-> Nil, floor |-> f]
    /\ changes = 0
    /\ request = [c \in Callers |-> Nil]
    /\ stage = [c \in Callers |-> "idle"]
    /\ claims = [c \in Callers |-> NoClaims]
    /\ answer = [c \in Callers |-> Nil]
    /\ recorded = [c \in Callers |-> Nil]
    /\ seen = [c \in Callers |-> {}]
    /\ revoked = {}

Outside == <<time, redis, spent, world, changes, seen>>

GoOn(c, at) ==
    stage' = [stage EXCEPT ![c] = at] /\ UNCHANGED answer

Answer(c, code) ==
    stage' = [stage EXCEPT ![c] = "done"] /\ answer' = [answer EXCEPT ![c] = code]

ClientOf(c) == resolve_client_id(request[c])

-----------------------------------------------------------------------------
(* token_endpoint / revoke_endpoint up to the client's authentication.      *)

\* The signing key is read before the grant is looked at; a revocation reads
\* none and answers 400 to a blank token.
Arrive(c, r) ==
    /\ stage[c] = "idle"
    /\ request' = [request EXCEPT ![c] = r]
    /\ seen' = [seen EXCEPT ![c] = {world}]
    /\ LET id == resolve_client_id(r)
       IN CASE r.endpoint = "revoke" /\ r.token = Nil -> Answer(c, "invalid_request")
            [] extract_credential(r) = "malformed" -> Answer(c, "invalid_request")
            [] id = Nil -> Answer(c, "invalid_client")
            [] find_client(id) = Nil -> Answer(c, "invalid_client")
            [] OTHER -> LET next == authenticate_client(r, id)
                        IN IF next = "invalid_client" THEN Answer(c, next) ELSE GoOn(c, next)
    /\ UNCHANGED <<time, redis, spent, world, changes, claims, recorded, revoked>>

NoSigningKey(c, r) ==
    /\ stage[c] = "idle" /\ r.endpoint = "token"
    /\ request' = [request EXCEPT ![c] = r]
    /\ seen' = [seen EXCEPT ![c] = {world}]
    /\ Answer(c, "server_error")
    /\ UNCHANGED <<time, redis, spent, world, changes, claims, recorded, revoked>>

Longer(a, b) == IF a >= b THEN a ELSE b

\* Fault: an unreachable Redis lets the assertion pass.
OutageLetsPass(c) ==
    LET jti == request[c].assertion
        exp == Assertions[jti].exp
    IN /\ stage[c] = "verified"
       /\ CASE redis /\ spent[jti] <= time ->
                 /\ spent' = [spent EXCEPT ![jti] = time + Longer(exp - time, MinTtl)]
                 /\ recorded' = [recorded EXCEPT ![c] = time]
                 /\ GoOn(c, "authenticated")
            [] redis /\ spent[jti] > time -> Answer(c, "invalid_client") /\ UNCHANGED <<spent, recorded>>
            [] OTHER -> /\ GoOn(c, "authenticated")
                        /\ recorded' = [recorded EXCEPT ![c] = time] /\ UNCHANGED spent
       /\ UNCHANGED <<time, redis, world, changes, request, claims, seen, revoked>>

\* SET key NX PX ttl: one atomic command that also answers whether it was first.
record_jti(c) ==
    LET jti == request[c].assertion
        exp == Assertions[jti].exp
    IN /\ stage[c] = "verified"
       /\ CASE redis /\ spent[jti] <= time ->
                 /\ spent' = [spent EXCEPT ![jti] = time + Longer(exp - time, MinTtl)]
                 /\ recorded' = [recorded EXCEPT ![c] = time]
                 /\ GoOn(c, "authenticated")
            [] redis /\ spent[jti] > time -> Answer(c, "invalid_client") /\ UNCHANGED <<spent, recorded>>
            [] OTHER -> Answer(c, "server_error") /\ UNCHANGED <<spent, recorded>>
       /\ UNCHANGED <<time, redis, world, changes, request, claims, seen, revoked>>

\* RFC 7009: only this client's token is touched and the answer never tells.
revoke_refresh_token_for_client(c) ==
    /\ stage[c] = "authenticated" /\ request[c].endpoint = "revoke"
    /\ revoked' = IF request[c].token.client = ClientOf(c)
                  THEN revoked \union {[token |-> request[c].token, by |-> c]} ELSE revoked
    /\ Answer(c, "ok")
    /\ UNCHANGED <<Outside, request, claims, recorded>>

-----------------------------------------------------------------------------
(* handle_token_exchange.                                                   *)

\* The checks made before the first await, in the code's order. The
\* authorization-code and device grants reach a store that is always empty.
Precheck(r, client) ==
    CASE r.grant \in {"authorization_code", "device_code"} ->
           IF r.grant \in client.grants THEN "invalid_grant" ELSE "unauthorized_client"
      [] r.grant # "token-exchange" -> "unsupported_grant_type"
      [] ~Enabled -> "unsupported_grant_type"
      [] "token-exchange" \notin client.grants -> "unauthorized_client"
      [] r.actor \/ ~r.types -> "invalid_request"
      [] r.subject = Nil -> "invalid_request"
      [] OTHER -> "ok"

\* validate_bearer_token, then the audience binding on what it returned.
ValidateSubject(c) ==
    LET r == request[c]
        verdict == Precheck(r, find_client(ClientOf(c)))
    IN /\ stage[c] = "authenticated" /\ r.endpoint = "token"
       /\ CASE verdict # "ok" -> Answer(c, verdict)
            [] verdict = "ok" /\ ~r.subject.active -> Answer(c, "invalid_token")
            [] verdict = "ok" /\ r.subject.active /\ ClientOf(c) \notin r.subject.aud ->
                 Answer(c, "invalid_grant")
            [] OTHER -> GoOn(c, IF r.project = Nil THEN "default" ELSE "context")
       /\ claims' = [claims EXCEPT ![c].project = r.project]
       /\ UNCHANGED <<Outside, request, recorded, revoked>>

find_default_project_id(c) ==
    /\ stage[c] = "default"
    /\ \/ /\ claims' = [claims EXCEPT ![c].project = world.default]
          /\ IF world.default = Nil THEN Answer(c, "access_denied") ELSE GoOn(c, "context")
       \/ Answer(c, "server_error") /\ UNCHANGED claims
    /\ UNCHANGED <<Outside, request, recorded, revoked>>

\* Fault: a database failure is answered like a stranger's request.
FailureDenies(c) ==
    LET p == claims[c].project
    IN /\ stage[c] = "context"
       /\ \/ IF world.project[p].exists /\ world.project[p].member
             THEN GoOn(c, "models") ELSE Answer(c, "access_denied")
          \/ Answer(c, "access_denied")
       /\ UNCHANGED <<Outside, request, claims, recorded, revoked>>

resolve_context(c) ==
    LET p == claims[c].project
    IN /\ stage[c] = "context"
       /\ \/ IF world.project[p].exists /\ world.project[p].member
             THEN GoOn(c, "models") ELSE Answer(c, "access_denied")
          \/ Answer(c, "server_error")
       /\ UNCHANGED <<Outside, request, claims, recorded, revoked>>

\* Fault: the list comes from this read, the policy from a later one.
ModelsThenPolicy(c) ==
    LET p == world.project[claims[c].project]
        half == claims[c].models # Nil
    IN /\ stage[c] = "models"
       /\ \/ p.exists /\ ~half /\ p.models # Nil
             /\ claims' = [claims EXCEPT ![c].models = p.models]
             /\ UNCHANGED stage
          \/ (half \/ ~p.exists \/ p.models = Nil)
             /\ claims' = [claims EXCEPT ![c].policy = IF p.exists THEN p.policy ELSE "deny_all"]
             /\ stage' = [stage EXCEPT ![c] = "budget"]
          \/ claims' = [claims EXCEPT ![c].models = Nil, ![c].policy = "deny_all"]
             /\ stage' = [stage EXCEPT ![c] = "budget"]
       /\ UNCHANGED <<Outside, request, answer, recorded, revoked>>

\* Both fields of one row; a missing row or a failed read is deny_all.
resolve_project_model_access(c) ==
    LET p == world.project[claims[c].project]
    IN /\ stage[c] = "models"
       /\ \/ /\ p.exists
             /\ claims' = [claims EXCEPT ![c].models = p.models, ![c].policy = p.policy]
          \/ claims' = [claims EXCEPT ![c].models = Nil, ![c].policy = "deny_all"]
       /\ GoOn(c, "budget")
       /\ UNCHANGED <<Outside, request, recorded, revoked>>

\* BudgetTier: the legacy rungs, and the lowest of them.
Rungs == {15, 30, 60, 120, 250, 500, 1000}

\* The latest tier grant of the period; none, or an amount off the ladder, is B15.
current_tier(ledger) == IF ledger \in Rungs THEN ledger ELSE 15

\* "b-<dollars>", for a rung and for any other amount alike.
budget_tier_wire_label(amount) == <<"b", amount>>

resolve_budget_tier(c) ==
    /\ stage[c] = "budget"
    /\ \/ claims' = [claims EXCEPT ![c].budget = budget_tier_wire_label(current_tier(world.ledger))]
       \/ claims' = [claims EXCEPT ![c].budget = budget_tier_wire_label(world.floor)]
    /\ GoOn(c, "quota")
    /\ UNCHANGED <<Outside, request, recorded, revoked>>

\* The roster row's tier; the owner of the account, who has no row, has none.
project_member_quota_tier(p) == world.project[p].tier

\* None is the legitimate "no ceiling"; a failure refuses the exchange.
resolve_quota_tier(c) ==
    /\ stage[c] = "quota"
    /\ \/ /\ claims' = [claims EXCEPT ![c].quota = project_member_quota_tier(claims[c].project)]
          /\ GoOn(c, "mint")
       \/ Answer(c, "server_error") /\ UNCHANGED claims
    /\ UNCHANGED <<Outside, request, recorded, revoked>>

Granted(c) == grant_scopes(request[c].scope, ServerScopes, find_client(ClientOf(c)).scopes)

\* Signing, then (offline_access only) storing the first refresh token.
Mint(c) ==
    /\ stage[c] = "mint"
    /\ Answer(c, "ok") \/ Answer(c, "server_error")
    /\ UNCHANGED <<Outside, request, claims, recorded, revoked>>

-----------------------------------------------------------------------------
(* Everyone else.                                                           *)

Change(w) ==
    /\ changes < MaxChanges /\ w # world
    /\ world' = w /\ changes' = changes + 1
    /\ seen' = [c \in Callers |-> IF stage[c] \in {"idle", "done"} THEN seen[c]
                                  ELSE seen[c] \union {w}]
    /\ UNCHANGED <<time, redis, spent, request, stage, claims, answer, recorded, revoked>>

\* set_project_allowed_models, whatever the policy is.
ModelsChanged(p) ==
    \E m \in {Nil, "some"} : Change([world EXCEPT !.project[p].models = m])

\* set_project_model_policy: the allowlist only over a list.
PolicyChanged(p) ==
    \E policy \in {"allow_all", "allowlist", "deny_all"} :
        /\ policy = "allowlist" => world.project[p].models # Nil
        /\ Change([world EXCEPT !.project[p].policy = policy])

MemberTierChanged(p, t) == world.project[p].member /\ Change([world EXCEPT !.project[p].tier = t])

\* Removing a member deletes the roster row, its tier included.
MemberRemoved(p) == Change([world EXCEPT !.project[p].member = FALSE, !.project[p].tier = Nil])

ProjectDeleted(p) ==
    Change([world EXCEPT !.project[p].exists = FALSE, !.project[p].member = FALSE,
                         !.project[p].tier = Nil,
                         !.default = IF @ = p THEN Nil ELSE @])

DefaultMoved(p) == world.project[p].exists /\ Change([world EXCEPT !.default = p])
TierGranted(a) == Change([world EXCEPT !.ledger = a])

OutageFlips ==
    /\ redis' = ~redis
    /\ UNCHANGED <<time, spent, world, changes, request, stage, claims, answer, recorded, seen, revoked>>

ClockTicks ==
    /\ time < LastInstant /\ time' = time + 1
    /\ UNCHANGED <<redis, spent, world, changes, request, stage, claims, answer, recorded, seen, revoked>>

EndpointNext ==
    \/ \E c \in Callers, r \in Requests : Arrive(c, r) \/ NoSigningKey(c, r)
    \/ \E c \in Callers :
          \/ record_jti(c)
          \/ revoke_refresh_token_for_client(c)
          \/ ValidateSubject(c)
          \/ find_default_project_id(c)
          \/ resolve_context(c)
          \/ resolve_project_model_access(c)
          \/ resolve_budget_tier(c)
          \/ resolve_quota_tier(c)
          \/ Mint(c)
    \/ \E p \in Projects :
          \/ ModelsChanged(p) \/ PolicyChanged(p) \/ MemberRemoved(p)
          \/ ProjectDeleted(p) \/ DefaultMoved(p)
          \/ \E t \in Tiers : MemberTierChanged(p, t)
    \/ \E a \in Amounts : TierGranted(a)
    \/ OutageFlips
    \/ ClockTicks

EndpointSpec == EndpointInit /\ [][EndpointNext]_endpointVars

-----------------------------------------------------------------------------
Minted(c) == answer[c] = "ok" /\ request[c].endpoint = "token"
Authentic(c) == recorded[c] # Nil

\* Each claim of a minted token was true at a moment of the call: models and
\* policy are one row of the project, or the closed pair; the budget tier is
\* stated, and no better than the ledger or the policy's floor gave; a missing
\* quota_tier means no ceiling, never that its lookup failed; and the scopes are
\* within what the server, the client and the request name, offline_access only
\* for those who asked for it (resolve_project_model_access,
\* resolve_budget_tier, resolve_quota_tier, grant_scopes).
ClaimsWereTrue ==
    \A c \in Callers : Minted(c) =>
        /\ \/ claims[c].models = Nil /\ claims[c].policy = "deny_all"
           \/ \E w \in seen[c] :
                 LET p == w.project[claims[c].project]
                 IN p.exists /\ <<p.models, p.policy>> = <<claims[c].models, claims[c].policy>>
        /\ \E w \in seen[c] :
              claims[c].budget \in {budget_tier_wire_label(current_tier(w.ledger)),
                                    budget_tier_wire_label(w.floor)}
        /\ \E w \in seen[c] : claims[c].quota = w.project[claims[c].project].tier
        /\ Granted(c) \subseteq ServerScopes \intersect Config[ClientOf(c)].scopes
        /\ request[c].scope # {} => Granted(c) \subseteq request[c].scope
        /\ "offline_access" \in Granted(c) => "offline_access" \in request[c].scope

\* Membership decides and nothing else does: a token needs a moment of the call
\* at which the subject could use the project, and access_denied needs one at
\* which they could not (resolve_context keeps failures apart from NotFound).
MembershipDecides ==
    \A c \in Callers :
        /\ Minted(c) => \E w \in seen[c] : w.project[claims[c].project].member
        /\ answer[c] = "access_denied" =>
             \E w \in seen[c] : IF claims[c].project = Nil THEN w.default = Nil
                                ELSE ~w.project[claims[c].project].member

\* Across both endpoints, whatever Redis does, an assertion recorded while it is
\* valid authenticates one request (record_jti's SET NX and its lifetime), and a
\* confidential client's refresh token is revoked only by a request that spent
\* one of that client's assertions (authenticate_revoke_client).
AssertionsSpentOnce ==
    /\ \A c, d \in Callers :
         (/\ c # d /\ Authentic(c) /\ Authentic(d)
          /\ request[c].assertion = request[d].assertion)
         => \E e \in {c, d} : recorded[e] >= Assertions[request[e].assertion].exp
    /\ \A r \in revoked :
         /\ ClientOf(r.by) = r.token.client
         /\ Config[r.token.client].type = "confidential" =>
              Authentic(r.by) /\ Assertions[request[r.by].assertion].client = r.token.client
=============================================================================
