---------------------------- MODULE EndpointProofs ----------------------------
EXTENDS TokenEndpoint, TLAPS

-------------------------------------------------------------------------------
\* TokenEndpoint, for any callers, clients, assertions, requests and projects.

\* The stages of a request that is being handled.
Working == {"verified", "authenticated", "default", "context", "models", "budget", "quota", "mint"}

Codes == {"ok", "access_denied", "server_error", "invalid_request", "invalid_client",
          "invalid_grant", "invalid_token", "unauthorized_client", "unsupported_grant_type"}

ProjectRow == [models : {Nil, "some"}, policy : {"allow_all", "allowlist", "deny_all"},
               tier : Tiers \union {Nil}, member : BOOLEAN, exists : BOOLEAN]

World == [default : Projects \union {Nil}, project : [Projects -> ProjectRow],
          ledger : Amounts \union {Nil}, floor : Floors]

Claims == [project : Projects \union {Nil}, models : {Nil, "some"},
           policy : {Nil, "allow_all", "allowlist", "deny_all"},
           budget : {Nil} \union {budget_tier_wire_label(n) : n \in Rungs \union Floors},
           quota : Tiers \union {Nil}]

EndpointType ==
    /\ time \in Nat
    /\ spent \in [DOMAIN Assertions -> Nat]
    /\ world \in World
    /\ request \in [Callers -> Requests \union {Nil}]
    /\ stage \in [Callers -> {"idle", "done"} \union Working]
    /\ claims \in [Callers -> Claims]
    /\ answer \in [Callers -> Codes \union {Nil}]
    /\ recorded \in [Callers -> Nat \union {Nil}]
    /\ seen \in [Callers -> SUBSET World]

\* The client of a request is known, and one with a key has spent one of its
\* assertions.
Proven(c) ==
    /\ ClientOf(c) \in DOMAIN Config
    /\ Config[ClientOf(c)].type # "public" =>
         /\ Authentic(c)
         /\ Assertions[request[c].assertion].client = ClientOf(c)

\* Who is calling: settled before anything else is done, and for good.
CallerInv(c) ==
    /\ stage[c] = "idle" => recorded[c] = Nil
    /\ stage[c] # "idle" => request[c] \in Requests
    /\ stage[c] # "done" => answer[c] = Nil
    /\ stage[c] = "verified" =>
         /\ request[c].assertion \in DOMAIN Assertions
         /\ ClientOf(c) \in DOMAIN Config
         /\ Assertions[request[c].assertion].client = ClientOf(c)
    /\ stage[c] \in Working \ {"verified"} \/ answer[c] = "ok" => Proven(c)
    /\ Authentic(c) =>
         /\ request[c].assertion \in DOMAIN Assertions
         /\ spent[request[c].assertion] >= Assertions[request[c].assertion].exp

\* What the handler has gathered was so at a moment of the call.
MemberSeen(c) ==
    /\ claims[c].project \in Projects
    /\ \E w \in seen[c] : w.project[claims[c].project].member

ModelsSeen(c) ==
    \/ claims[c].models = Nil /\ claims[c].policy = "deny_all"
    \/ \E w \in seen[c] :
          LET p == w.project[claims[c].project]
          IN p.exists /\ <<p.models, p.policy>> = <<claims[c].models, claims[c].policy>>

BudgetSeen(c) ==
    \E w \in seen[c] : claims[c].budget \in {budget_tier_wire_label(current_tier(w.ledger)),
                                             budget_tier_wire_label(w.floor)}

QuotaSeen(c) == \E w \in seen[c] : claims[c].quota = w.project[claims[c].project].tier

DenialSeen(c) ==
    \E w \in seen[c] : IF claims[c].project = Nil THEN w.default = Nil
                       ELSE ~w.project[claims[c].project].member

GatherInv(c) ==
    /\ stage[c] \in Working => world \in seen[c]
    /\ stage[c] = "context" => claims[c].project \in Projects
    /\ stage[c] \in {"models", "budget", "quota", "mint"} \/ Minted(c) => MemberSeen(c)
    /\ stage[c] \in {"budget", "quota", "mint"} \/ Minted(c) => ModelsSeen(c)
    /\ stage[c] \in {"quota", "mint"} \/ Minted(c) => BudgetSeen(c)
    /\ stage[c] = "mint" \/ Minted(c) => QuotaSeen(c)
    /\ answer[c] = "access_denied" => DenialSeen(c)

\* A deleted project has no members left.
WorldInv == \A p \in Projects : world.project[p].member => world.project[p].exists

\* A valid assertion authenticates one request.
SpentOnce ==
    \A c, d \in Callers :
        (/\ c # d /\ Authentic(c) /\ Authentic(d)
         /\ request[c].assertion = request[d].assertion)
        => \E e \in {c, d} : recorded[e] >= Assertions[request[e].assertion].exp

\* A revocation was asked for by the token's client, whose request is over.
RevokedInv ==
    \A r \in revoked : /\ r.by \in Callers /\ answer[r.by] = "ok"
                       /\ stage[r.by] = "done" /\ ClientOf(r.by) = r.token.client

EndpointInv ==
    /\ EndpointType
    /\ \A c \in Callers : CallerInv(c) /\ GatherInv(c)
    /\ WorldInv /\ SpentOnce /\ RevokedInv

\* A step of one request.
OnlyCaller(c) ==
    \A d \in Callers : d # c =>
        /\ request'[d] = request[d] /\ stage'[d] = stage[d] /\ claims'[d] = claims[d]
        /\ answer'[d] = answer[d] /\ recorded'[d] = recorded[d] /\ seen'[d] = seen[d]

\* The endpoint starts with nothing recorded, asked or answered.
LEMMA EndpointStart == EndpointInit => EndpointInv
<1> SUFFICES ASSUME EndpointInit PROVE EndpointInv
  OBVIOUS
<1>1. PICK f \in Floors :
         world = [default |-> CHOOSE p \in Projects : TRUE,
                  project |-> [p \in Projects |-> [models |-> "some", policy |-> "allowlist",
                                  tier |-> Nil, member |-> TRUE, exists |-> TRUE]],
                  ledger |-> Nil, floor |-> f]
  BY DEF EndpointInit
<1>2. (CHOOSE p \in Projects : TRUE) \in Projects
  BY TokenEndpointAssumption
<1>3. world \in World /\ WorldInv
  BY <1>1, <1>2 DEF World, ProjectRow, WorldInv
<1>4. NoClaims \in Claims
  BY DEF NoClaims, Claims
<1>5. EndpointType
  <2>1. time \in Nat /\ spent \in [DOMAIN Assertions -> Nat]
    BY DEF EndpointInit
  <2>2. /\ request \in [Callers -> Requests \union {Nil}]
        /\ stage \in [Callers -> {"idle", "done"} \union Working]
        /\ recorded \in [Callers -> Nat \union {Nil}]
    BY DEF EndpointInit
  <2>3. claims \in [Callers -> Claims] /\ seen \in [Callers -> SUBSET World]
    BY <1>4 DEF EndpointInit
  <2> QED
    BY <1>3, <2>1, <2>2, <2>3 DEF EndpointInit, EndpointType
<1>6. \A c \in Callers : CallerInv(c) /\ GatherInv(c)
  <2>1. \A c \in Callers : stage[c] = "idle" /\ answer[c] = Nil /\ recorded[c] = Nil
    BY DEF EndpointInit
  <2>2. Nil # "ok" /\ Nil # "access_denied"
    BY TokenEndpointAssumption, Zenon
  <2> QED
    BY <2>1, <2>2, Zenon DEF CallerInv, GatherInv, Minted, Authentic, Working
<1>7. SpentOnce /\ RevokedInv
  BY DEF EndpointInit, SpentOnce, RevokedInv, Authentic
<1> QED
  BY <1>3, <1>5, <1>6, <1>7 DEF EndpointInv

\* A request that does not move keeps its standing while assertions are spent.
LEMMA CallerFrame ==
    ASSUME NEW c \in Callers, CallerInv(c), request'[c] = request[c], stage'[c] = stage[c],
           answer'[c] = answer[c], recorded'[c] = recorded[c],
           \A j \in DOMAIN Assertions : spent[j] >= Assertions[j].exp => spent'[j] >= Assertions[j].exp
    PROVE  CallerInv(c)'
  BY Zenon DEF CallerInv, Proven, ClientOf, Authentic

\* What was seen stays seen.
LEMMA SeenFrame ==
    ASSUME NEW c \in Callers, claims'[c] = claims[c], seen[c] \subseteq seen'[c]
    PROVE  /\ MemberSeen(c) => MemberSeen(c)'
           /\ ModelsSeen(c) => ModelsSeen(c)'
           /\ BudgetSeen(c) => BudgetSeen(c)'
           /\ QuotaSeen(c) => QuotaSeen(c)'
           /\ DenialSeen(c) => DenialSeen(c)'
<1>1. MemberSeen(c) => MemberSeen(c)'
  BY Zenon DEF MemberSeen
<1>2. ModelsSeen(c) => ModelsSeen(c)'
  BY DEF ModelsSeen
<1>3. BudgetSeen(c) => BudgetSeen(c)'
  BY DEF BudgetSeen
<1>4. QuotaSeen(c) => QuotaSeen(c)'
  BY DEF QuotaSeen
<1>5. DenialSeen(c) => DenialSeen(c)'
  BY DEF DenialSeen
<1> QED
  BY <1>1, <1>2, <1>3, <1>4, <1>5

\* A request that does not move keeps what it has gathered.
LEMMA GatherFrame ==
    ASSUME NEW c \in Callers, GatherInv(c), request'[c] = request[c], stage'[c] = stage[c],
           claims'[c] = claims[c], answer'[c] = answer[c], seen[c] \subseteq seen'[c],
           stage[c] \in Working => world' \in seen'[c]
    PROVE  GatherInv(c)'
<1>1. Minted(c)' <=> Minted(c)
  BY DEF Minted
<1> QED
  BY <1>1, SeenFrame DEF GatherInv

\* It is enough to look at the request that moves.
LEMMA OneMoves ==
    ASSUME EndpointInv, EndpointType', NEW c \in Callers, OnlyCaller(c), world' = world,
           \A j \in DOMAIN Assertions : spent[j] >= Assertions[j].exp => spent'[j] >= Assertions[j].exp,
           CallerInv(c)', GatherInv(c)', SpentOnce', RevokedInv'
    PROVE  EndpointInv'
<1>1. ASSUME NEW d \in Callers, d # c PROVE CallerInv(d)' /\ GatherInv(d)'
  <2>1. CallerInv(d) /\ GatherInv(d)
    BY DEF EndpointInv
  <2>2. CallerInv(d)'
    BY <1>1, <2>1, CallerFrame DEF OnlyCaller
  <2>3. stage[d] \in Working => world' \in seen'[d]
    BY <1>1, <2>1 DEF GatherInv, OnlyCaller
  <2> QED
    BY <1>1, <2>1, <2>2, <2>3, GatherFrame DEF OnlyCaller
<1>2. WorldInv'
  BY DEF EndpointInv, WorldInv
<1> QED
  BY <1>1, <1>2 DEF EndpointInv

\* A request that ends in a refusal has nothing to show.
LEMMA Refused ==
    ASSUME NEW c \in Callers, stage'[c] = "done", answer'[c] \notin {"ok", "access_denied"}
    PROVE  GatherInv(c)'
  BY DEF GatherInv, Minted, Working

-------------------------------------------------------------------------------
(* Authentication. *)

\* An authenticated public client presented nothing; a verified one an
\* assertion of its own.
LEMMA Authenticates ==
    ASSUME NEW r \in Requests, NEW id, find_client(id) # Nil
    PROVE  /\ id \in DOMAIN Config
           /\ authenticate_client(r, id) \in {"authenticated", "verified", "invalid_client"}
           /\ authenticate_client(r, id) = "authenticated" => Config[id].type = "public"
           /\ authenticate_client(r, id) = "verified" =>
                r.assertion \in DOMAIN Assertions /\ Assertions[r.assertion].client = id
<1>1. id \in DOMAIN Config /\ find_client(id) = to_registration(Config[id])
  BY DEF find_client
<1>2. find_client(id).auth = IF Config[id].type = "public" THEN "NoAuth" ELSE "PrivateKeyJwt"
  BY <1>1 DEF to_registration
<1>3. extract_credential(r) = "assertion" => r.assertion # Nil
  <2> DEFINE presented == {m \in {"basic", "secret", "assertion"} : r[m] # Nil}
  <2>1. "assertion" \in presented => r.assertion # Nil
    OBVIOUS
  <2>2. extract_credential(r) = "assertion" => "assertion" \in presented
    BY DEF extract_credential
  <2> QED
    BY <2>1, <2>2
<1>4. r.assertion # Nil => r.assertion \in DOMAIN Assertions
  BY TokenEndpointAssumption
<1>5. CASE find_client(id).auth = "NoAuth"
  BY <1>1, <1>2, <1>5 DEF authenticate_client
<1>6. CASE find_client(id).auth = "PrivateKeyJwt"
  BY <1>1, <1>2, <1>3, <1>4, <1>6 DEF authenticate_client, verify_client_assertion
<1> QED
  BY <1>2, <1>5, <1>6

\* Where a request stands once it has arrived.
LEMMA Arrived ==
    ASSUME EndpointType, NEW c \in Callers, NEW r \in Requests, Arrive(c, r) \/ NoSigningKey(c, r)
    PROVE  /\ stage[c] = "idle" /\ request' = [request EXCEPT ![c] = r]
           /\ seen' = [seen EXCEPT ![c] = {world}]
           /\ UNCHANGED <<time, redis, spent, world, changes, claims, recorded, revoked>>
           /\ \/ /\ stage' = [stage EXCEPT ![c] = "done"]
                 /\ \E code \in {"invalid_request", "invalid_client", "server_error"} :
                      answer' = [answer EXCEPT ![c] = code]
              \/ /\ stage' = [stage EXCEPT ![c] = authenticate_client(r, resolve_client_id(r))]
                 /\ authenticate_client(r, resolve_client_id(r)) \in {"authenticated", "verified"}
                 /\ find_client(resolve_client_id(r)) # Nil /\ answer' = answer
<1>1. CASE NoSigningKey(c, r)
  BY <1>1, Zenon DEF NoSigningKey, Answer
<1>2. CASE Arrive(c, r)
  <2> PICK id : id = resolve_client_id(r)
    OBVIOUS
  <2>1. /\ stage[c] = "idle" /\ request' = [request EXCEPT ![c] = r]
        /\ seen' = [seen EXCEPT ![c] = {world}]
        /\ UNCHANGED <<time, redis, spent, world, changes, claims, recorded, revoked>>
    BY <1>2 DEF Arrive
  <2>2. \/ Answer(c, "invalid_request") \/ Answer(c, "invalid_client")
        \/ /\ find_client(id) # Nil
           /\ authenticate_client(r, id) # "invalid_client"
           /\ GoOn(c, authenticate_client(r, id))
    BY <1>2 DEF Arrive
  <2> QED
    BY <2>1, <2>2, Authenticates DEF Answer, GoOn
<1> QED
  BY <1>1, <1>2

\* A request arrives knowing what the databases say now.
LEMMA ArriveKeeps ==
    ASSUME EndpointInv, NEW c \in Callers, NEW r \in Requests, Arrive(c, r) \/ NoSigningKey(c, r)
    PROVE  EndpointInv'
<1>0. EndpointType /\ CallerInv(c)
  BY DEF EndpointInv
<1>1. /\ stage[c] = "idle" /\ request' = [request EXCEPT ![c] = r]
      /\ seen' = [seen EXCEPT ![c] = {world}]
      /\ UNCHANGED <<time, redis, spent, world, changes, claims, recorded, revoked>>
      /\ \/ /\ stage' = [stage EXCEPT ![c] = "done"]
            /\ \E code \in {"invalid_request", "invalid_client", "server_error"} :
                 answer' = [answer EXCEPT ![c] = code]
         \/ /\ stage' = [stage EXCEPT ![c] = authenticate_client(r, resolve_client_id(r))]
            /\ authenticate_client(r, resolve_client_id(r)) \in {"authenticated", "verified"}
            /\ find_client(resolve_client_id(r)) # Nil /\ answer' = answer
  BY <1>0, Arrived, Zenon
<1>2. EndpointType'
  <2>1. request' \in [Callers -> Requests \union {Nil}] /\ seen' \in [Callers -> SUBSET World]
    BY <1>0, <1>1 DEF EndpointType
  <2>2. stage' \in [Callers -> {"idle", "done"} \union Working]
    BY <1>0, <1>1 DEF EndpointType, Working
  <2>3. answer' \in [Callers -> Codes \union {Nil}]
    BY <1>0, <1>1 DEF EndpointType, Codes
  <2> QED
    BY <1>0, <1>1, <2>1, <2>2, <2>3 DEF EndpointType
<1>3. OnlyCaller(c)
  BY <1>0, <1>1 DEF OnlyCaller, EndpointType
<1>4. /\ request'[c] = r /\ seen'[c] = {world} /\ recorded'[c] = Nil /\ answer[c] = Nil
      /\ answer'[c] \notin {"ok", "access_denied"}
      /\ stage'[c] = "done" \/ answer'[c] = Nil
  BY <1>0, <1>1, TokenEndpointAssumption DEF EndpointType, CallerInv
<1>5. CallerInv(c)'
  <2>1. CASE stage'[c] = "done"
    BY <1>4, <2>1 DEF CallerInv, Working, Authentic
  <2>2. CASE stage'[c] # "done"
    <3> PICK id : id = resolve_client_id(r)
      OBVIOUS
    <3>1. /\ stage'[c] = authenticate_client(r, id) /\ find_client(id) # Nil
          /\ stage'[c] \in {"authenticated", "verified"}
      BY <1>0, <1>1, <2>2 DEF EndpointType
    <3>2. ClientOf(c)' = id
      BY <1>4 DEF ClientOf
    <3> QED
      BY <1>4, <2>2, <3>1, <3>2, Authenticates DEF CallerInv, Proven, Authentic
  <2> QED
    BY <2>1, <2>2
<1>6. GatherInv(c)'
  <2>1. stage'[c] \in {"done", "authenticated", "verified"}
    BY <1>0, <1>1, Zenon DEF EndpointType
  <2> QED
    BY <1>1, <1>4, <2>1 DEF GatherInv, Minted
<1>7. SpentOnce'
  BY <1>1, <1>3, <1>4 DEF EndpointInv, SpentOnce, OnlyCaller, Authentic
<1>8. RevokedInv'
  <2>1. ASSUME NEW v \in revoked PROVE v.by # c
    BY <1>1 DEF EndpointInv, RevokedInv
  <2> QED
    BY <1>1, <1>3, <2>1 DEF EndpointInv, RevokedInv, OnlyCaller, ClientOf
<1> QED
  BY <1>1, <1>2, <1>3, <1>5, <1>6, <1>7, <1>8, OneMoves

\* SET NX: whoever records an assertion that was recorded before does so after
\* it expired.
LEMMA RecordKeeps ==
    ASSUME EndpointInv, NEW c \in Callers, record_jti(c)
    PROVE  EndpointInv'
<1> PICK jti : jti = request[c].assertion
  OBVIOUS
<1> DEFINE exp == Assertions[jti].exp
           until == time + Longer(exp - time, MinTtl)
<1>0. EndpointType /\ CallerInv(c) /\ GatherInv(c)
  BY DEF EndpointInv
<1>1. /\ stage[c] = "verified"
      /\ UNCHANGED <<time, redis, world, changes, request, claims, seen, revoked>>
      /\ \/ /\ spent[jti] <= time /\ spent' = [spent EXCEPT ![jti] = until]
            /\ recorded' = [recorded EXCEPT ![c] = time]
            /\ stage' = [stage EXCEPT ![c] = "authenticated"] /\ answer' = answer
         \/ /\ stage' = [stage EXCEPT ![c] = "done"] /\ UNCHANGED <<spent, recorded>>
            /\ \E code \in {"invalid_client", "server_error"} : answer' = [answer EXCEPT ![c] = code]
  BY Zenon DEF record_jti, GoOn, Answer
<1>2. /\ jti \in DOMAIN Assertions /\ exp \in Nat /\ until \in Nat /\ until >= exp
      /\ answer[c] = Nil
  <2>1. jti \in DOMAIN Assertions /\ answer[c] = Nil
    BY <1>0, <1>1 DEF CallerInv
  <2>2. exp \in Nat /\ MinTtl \in Nat /\ time \in Nat
    BY <1>0, <2>1, TokenEndpointAssumption DEF EndpointType
  <2> QED
    BY <2>1, <2>2 DEF Longer
<1> HIDE DEF exp, until
<1>3. EndpointType'
  <2>1. spent' \in [DOMAIN Assertions -> Nat] /\ recorded' \in [Callers -> Nat \union {Nil}]
    BY <1>0, <1>1, <1>2 DEF EndpointType
  <2>2. stage' \in [Callers -> {"idle", "done"} \union Working]
    BY <1>0, <1>1 DEF EndpointType, Working
  <2>3. answer' \in [Callers -> Codes \union {Nil}]
    BY <1>0, <1>1 DEF EndpointType, Codes
  <2> QED
    BY <1>0, <1>1, <2>1, <2>2, <2>3 DEF EndpointType
<1>4. OnlyCaller(c)
  BY <1>0, <1>1 DEF OnlyCaller, EndpointType
<1>5. \A j \in DOMAIN Assertions : spent[j] >= Assertions[j].exp => spent'[j] >= Assertions[j].exp
  BY <1>0, <1>1, <1>2 DEF EndpointType, exp
<1>6. RevokedInv'
  <2>1. ASSUME NEW v \in revoked PROVE v.by # c
    BY <1>1, Zenon DEF EndpointInv, RevokedInv
  <2> QED
    BY <1>1, <1>4, <2>1 DEF EndpointInv, RevokedInv, OnlyCaller, ClientOf
<1>7. CASE stage' = [stage EXCEPT ![c] = "done"]
  <2>1. /\ stage'[c] = "done" /\ answer'[c] \notin {"ok", "access_denied"}
        /\ spent' = spent /\ recorded' = recorded /\ request' = request
    BY <1>0, <1>1, <1>7, Zenon DEF EndpointType
  <2>2. CallerInv(c)' /\ SpentOnce'
    BY <1>0, <1>1, <2>1 DEF CallerInv, Working, Authentic, EndpointInv, SpentOnce
  <2> QED
    BY <1>1, <1>3, <1>4, <1>5, <1>6, <2>1, <2>2, Refused, OneMoves, Zenon
<1>8. CASE stage' # [stage EXCEPT ![c] = "done"]
  <2>1. /\ stage'[c] = "authenticated" /\ answer'[c] = Nil /\ recorded'[c] = time
        /\ spent[jti] <= time /\ spent'[jti] = until /\ request' = request /\ time # Nil
    BY <1>0, <1>1, <1>2, <1>8, TokenEndpointAssumption, Zenon DEF EndpointType
  <2>2. CallerInv(c)'
    BY <1>0, <1>1, <1>2, <2>1, TokenEndpointAssumption, Zenon
    DEF CallerInv, Proven, Authentic, ClientOf, exp
  <2>3. GatherInv(c)'
    BY <1>0, <1>1, <2>1, TokenEndpointAssumption DEF GatherInv, Minted, Working
  <2>4. ASSUME NEW d \in Callers, d # c, Authentic(d)', request'[d].assertion = jti
        PROVE  time >= exp
    <3>1. CallerInv(d) /\ Authentic(d) /\ request[d].assertion = jti
      BY <1>4, <2>4, Zenon DEF EndpointInv, OnlyCaller, Authentic
    <3>2. spent[jti] >= exp /\ spent[jti] \in Nat /\ time \in Nat
      BY <1>0, <1>2, <3>1 DEF CallerInv, EndpointType, exp
    <3> QED
      BY <1>2, <2>1, <3>2
  <2>5. SpentOnce'
    <3> SUFFICES ASSUME NEW a \in Callers, NEW d \in Callers, a # d, Authentic(a)', Authentic(d)',
                        request'[a].assertion = request'[d].assertion
                 PROVE  \E e \in {a, d} : recorded'[e] >= Assertions[request'[e].assertion].exp
      BY Zenon DEF SpentOnce
    <3>1. CASE a # c /\ d # c
      BY <1>4, <3>1 DEF EndpointInv, SpentOnce, OnlyCaller, Authentic
    <3>2. CASE a = c \/ d = c
      <4>1. time >= exp
        BY <2>1, <2>4, <3>2
      <4> QED
        BY <2>1, <3>2, <4>1 DEF exp
    <3> QED
      BY <3>1, <3>2
  <2> QED
    BY <1>1, <1>3, <1>4, <1>5, <1>6, <2>2, <2>3, <2>5, OneMoves
<1> QED
  BY <1>7, <1>8

-------------------------------------------------------------------------------
(* The handlers, once the client is authenticated. *)

Handled(c) ==
    /\ stage[c] \in Working \ {"verified"} /\ UNCHANGED <<Outside, request, recorded>>
    /\ \/ \E at \in Working \ {"verified"} : GoOn(c, at)
       \/ \E code \in Codes : Answer(c, code)
    /\ \E k \in Claims : claims' = [claims EXCEPT ![c] = k]

\* A handler's step disturbs nobody and leaves the client authenticated.
LEMMA HandledShape ==
    ASSUME EndpointInv, NEW c \in Callers, Handled(c)
    PROVE  /\ EndpointType' /\ OnlyCaller(c) /\ CallerInv(c)' /\ SpentOnce'
           /\ world \in seen[c] /\ seen' = seen /\ world' = world /\ request' = request
<1>0. EndpointType /\ CallerInv(c) /\ GatherInv(c) /\ SpentOnce
  BY DEF EndpointInv
<1>1. UNCHANGED <<time, redis, spent, world, changes, seen, request, recorded>>
  BY DEF Handled, Outside
<1>2. /\ stage' \in [Callers -> {"idle", "done"} \union Working]
      /\ answer' \in [Callers -> Codes \union {Nil}]
      /\ \A d \in Callers : d # c => stage'[d] = stage[d] /\ answer'[d] = answer[d]
      /\ stage'[c] = "done" \/ (stage'[c] \in Working \ {"verified"} /\ answer'[c] = answer[c])
  BY <1>0 DEF Handled, GoOn, Answer, EndpointType
<1>3. claims' \in [Callers -> Claims] /\ \A d \in Callers : d # c => claims'[d] = claims[d]
  BY <1>0 DEF Handled, EndpointType
<1>4. EndpointType'
  BY <1>0, <1>1, <1>2, <1>3 DEF EndpointType
<1>5. OnlyCaller(c)
  BY <1>1, <1>2, <1>3, Zenon DEF OnlyCaller
<1>6. CallerInv(c)'
  <2>1. /\ Proven(c) /\ stage[c] # "idle" /\ stage[c] # "done" /\ answer[c] = Nil
        /\ Proven(c)' <=> Proven(c)
    BY <1>0, <1>1 DEF Handled, CallerInv, Working, Proven, ClientOf, Authentic
  <2>2. stage'[c] # "idle" /\ stage'[c] # "verified"
    BY <1>2, Zenon DEF Working
  <2> QED
    BY <1>0, <1>1, <1>2, <2>1, <2>2, ZenonT(30) DEF CallerInv, Authentic
<1>7. SpentOnce'
  BY <1>0, <1>1, Zenon DEF SpentOnce, Authentic
<1> QED
  BY <1>0, <1>1, <1>4, <1>5, <1>6, <1>7 DEF GatherInv, Handled

\* A handled request that gathered only what it saw keeps the invariant.
LEMMA HandledKeeps ==
    ASSUME EndpointInv, NEW c \in Callers, Handled(c), revoked' = revoked, GatherInv(c)'
    PROVE  EndpointInv'
<1>1. /\ EndpointType' /\ OnlyCaller(c) /\ CallerInv(c)' /\ SpentOnce'
      /\ world' = world /\ request' = request /\ spent' = spent
  BY HandledShape, Zenon DEF Handled, Outside
<1>2. RevokedInv'
  <2>1. ASSUME NEW v \in revoked PROVE v.by # c
    BY DEF EndpointInv, RevokedInv, Handled, Working
  <2> QED
    BY <1>1, <2>1, ZenonT(30) DEF EndpointInv, RevokedInv, OnlyCaller, ClientOf
<1> QED
  BY <1>1, <1>2, OneMoves, Zenon

\* The claims gathered so far are kept, or one or two of them are filled in.
LEMMA ClaimsKept ==
    ASSUME EndpointType, NEW c \in Callers, claims' = claims
    PROVE  \E k \in Claims : claims' = [claims EXCEPT ![c] = k]
<1>1. claims' = [claims EXCEPT ![c] = claims[c]] /\ claims[c] \in Claims
  BY Zenon DEF EndpointType
<1> QED
  BY <1>1, Zenon

\* A revocation is remembered with the client that asked for it.
LEMMA RevokeKeeps ==
    ASSUME EndpointInv, NEW c \in Callers, revoke_refresh_token_for_client(c)
    PROVE  EndpointInv'
<1>0. EndpointType
  BY DEF EndpointInv
<1>1. /\ stage[c] = "authenticated" /\ request[c].endpoint = "revoke" /\ Answer(c, "ok")
      /\ UNCHANGED <<Outside, request, recorded>> /\ claims' = claims
      /\ \A v \in revoked' : v \in revoked \/
           (v = [token |-> request[c].token, by |-> c] /\ request[c].token.client = ClientOf(c))
  BY DEF revoke_refresh_token_for_client
<1>2. Handled(c)
  BY <1>0, <1>1, ClaimsKept DEF Handled, Working, Codes
<1>3. stage'[c] = "done" /\ answer'[c] = "ok"
  BY <1>0, <1>1, Zenon DEF Answer, EndpointType
<1>4. /\ EndpointType' /\ OnlyCaller(c) /\ CallerInv(c)' /\ SpentOnce'
      /\ world' = world /\ request' = request /\ spent' = spent
  BY <1>2, HandledShape, Zenon DEF Handled, Outside
<1>5. GatherInv(c)'
  BY <1>1, <1>3, <1>4, Zenon DEF GatherInv, Minted, Working
<1>6. RevokedInv'
  <2> SUFFICES ASSUME NEW v \in revoked'
               PROVE  /\ v.by \in Callers /\ answer'[v.by] = "ok"
                      /\ stage'[v.by] = "done" /\ ClientOf(v.by)' = v.token.client
    BY DEF RevokedInv
  <2>1. CASE v \in revoked
    <3>1. v.by # c /\ v.by \in Callers /\ answer[v.by] = "ok" /\ stage[v.by] = "done"
          /\ ClientOf(v.by) = v.token.client
      BY <1>1, <2>1 DEF EndpointInv, RevokedInv
    <3> QED
      BY <1>4, <3>1, Zenon DEF OnlyCaller, ClientOf
  <2>2. CASE v \notin revoked
    BY <1>1, <1>3, <1>4, <2>2 DEF ClientOf
  <2> QED
    BY <2>1, <2>2
<1> QED
  BY <1>4, <1>5, <1>6, OneMoves

\* The checks before the first read.
LEMMA ValidateKeeps ==
    ASSUME EndpointInv, NEW c \in Callers, ValidateSubject(c)
    PROVE  EndpointInv'
<1> DEFINE k == [claims[c] EXCEPT !.project = request[c].project]
<1>0. EndpointType /\ CallerInv(c) /\ claims[c] \in Claims
  BY DEF EndpointInv, EndpointType
<1>1. /\ stage[c] = "authenticated" /\ revoked' = revoked
      /\ UNCHANGED <<Outside, request, recorded>> /\ claims' = [claims EXCEPT ![c] = k]
  BY DEF ValidateSubject
<1>2. request[c] \in Requests
  BY <1>0, <1>1 DEF CallerInv
<1>3. k \in Claims /\ k.project = request[c].project /\ k.project \in Projects \union {Nil}
  BY <1>0, <1>2, TokenEndpointAssumption DEF Claims
<1>4. \/ \E code \in Codes \ {"ok", "access_denied"} : Answer(c, code)
      \/ request[c].project = Nil /\ GoOn(c, "default")
      \/ request[c].project # Nil /\ GoOn(c, "context")
  <2> PICK verdict : verdict = Precheck(request[c], find_client(ClientOf(c)))
    OBVIOUS
  <2>1. verdict \in {"invalid_grant", "unauthorized_client", "unsupported_grant_type",
                     "invalid_request", "ok"}
    BY DEF Precheck
  <2>2. \/ verdict # "ok" /\ Answer(c, verdict)
        \/ Answer(c, "invalid_token") \/ Answer(c, "invalid_grant")
        \/ GoOn(c, IF request[c].project = Nil THEN "default" ELSE "context")
    BY DEF ValidateSubject
  <2> QED
    BY <2>1, <2>2 DEF Codes
<1> HIDE DEF k
<1>5. Handled(c)
  BY <1>1, <1>3, <1>4, Zenon DEF Handled, Working, Codes
<1>6. claims'[c] = k /\ world \in seen[c] /\ seen' = seen /\ world' = world
  BY <1>0, <1>1, <1>5, HandledShape, Zenon DEF EndpointType
<1>7. \/ stage'[c] = "done" /\ answer'[c] \notin {"ok", "access_denied"}
      \/ stage'[c] = "default" /\ answer'[c] = Nil
      \/ stage'[c] = "context" /\ answer'[c] = Nil /\ k.project \in Projects
  BY <1>0, <1>1, <1>3, <1>4 DEF Answer, GoOn, EndpointType, CallerInv
<1>8. GatherInv(c)'
  BY <1>6, <1>7, TokenEndpointAssumption, Refused DEF GatherInv, Minted
<1> QED
  BY <1>1, <1>5, <1>8, HandledKeeps

\* Each claim rests on its own fields.
LEMMA FieldFrame ==
    ASSUME NEW c \in Callers, seen' = seen, claims'[c].project = claims[c].project
    PROVE  /\ MemberSeen(c) => MemberSeen(c)'
           /\ claims'[c].models = claims[c].models /\ claims'[c].policy = claims[c].policy =>
                (ModelsSeen(c) => ModelsSeen(c)')
           /\ claims'[c].budget = claims[c].budget => (BudgetSeen(c) => BudgetSeen(c)')
<1>1. MemberSeen(c) => MemberSeen(c)'
  BY Zenon DEF MemberSeen
<1>2. claims'[c].models = claims[c].models /\ claims'[c].policy = claims[c].policy =>
        (ModelsSeen(c) => ModelsSeen(c)')
  BY Zenon DEF ModelsSeen
<1>3. claims'[c].budget = claims[c].budget => (BudgetSeen(c) => BudgetSeen(c)')
  BY DEF BudgetSeen
<1> QED
  BY <1>1, <1>2, <1>3

\* The default project, or none.
LEMMA DefaultKeeps ==
    ASSUME EndpointInv, NEW c \in Callers, find_default_project_id(c)
    PROVE  EndpointInv'
<1> DEFINE k == [claims[c] EXCEPT !.project = world.default]
<1>0. EndpointType /\ CallerInv(c) /\ claims[c] \in Claims /\ world \in World
  BY DEF EndpointInv, EndpointType
<1>1. /\ stage[c] = "default" /\ revoked' = revoked
      /\ UNCHANGED <<Outside, request, recorded>>
      /\ \/ claims' = [claims EXCEPT ![c] = k] /\ world.default = Nil /\ Answer(c, "access_denied")
         \/ claims' = [claims EXCEPT ![c] = k] /\ world.default # Nil /\ GoOn(c, "context")
         \/ claims' = claims /\ Answer(c, "server_error")
  BY DEF find_default_project_id
<1>2. k \in Claims /\ k.project = world.default /\ k.project \in Projects \union {Nil}
  BY <1>0 DEF Claims, World
<1> HIDE DEF k
<1>3. Handled(c)
  BY <1>0, <1>1, <1>2, ClaimsKept DEF Handled, Working, Codes
<1>4. world \in seen[c] /\ seen' = seen /\ world' = world
  BY <1>3, HandledShape, Zenon
<1>5. \/ stage'[c] = "done" /\ answer'[c] = "server_error"
      \/ stage'[c] = "done" /\ answer'[c] = "access_denied" /\ claims'[c] = k /\ k.project = Nil
      \/ stage'[c] = "context" /\ answer'[c] = Nil /\ claims'[c] = k /\ k.project \in Projects
  BY <1>0, <1>1, <1>2 DEF Answer, GoOn, EndpointType, CallerInv
<1>6. GatherInv(c)'
  <2>1. CASE answer'[c] = "access_denied"
    <3>1. DenialSeen(c)'
      BY <1>2, <1>4, <1>5, <2>1, TokenEndpointAssumption, Zenon DEF DenialSeen
    <3> QED
      BY <1>4, <1>5, <2>1, <3>1, TokenEndpointAssumption, Zenon DEF GatherInv, Minted, Working
  <2>2. CASE answer'[c] # "access_denied"
    BY <1>4, <1>5, <2>2, TokenEndpointAssumption, Refused DEF GatherInv, Minted
  <2> QED
    BY <2>1, <2>2, Zenon
<1> QED
  BY <1>1, <1>3, <1>6, HandledKeeps

\* Membership, and only membership, lets the request through.
LEMMA ContextKeeps ==
    ASSUME EndpointInv, NEW c \in Callers, resolve_context(c)
    PROVE  EndpointInv'
<1> PICK p : p = claims[c].project
  OBVIOUS
<1>0. EndpointType /\ CallerInv(c) /\ GatherInv(c) /\ WorldInv
  BY DEF EndpointInv
<1>1. /\ stage[c] = "context" /\ revoked' = revoked /\ claims' = claims
      /\ UNCHANGED <<Outside, request, recorded>>
      /\ \/ world.project[p].member /\ GoOn(c, "models")
         \/ ~(world.project[p].exists /\ world.project[p].member) /\ Answer(c, "access_denied")
         \/ Answer(c, "server_error")
  BY Zenon DEF resolve_context
<1>2. p \in Projects /\ p # Nil
  BY <1>0, <1>1, TokenEndpointAssumption, Zenon DEF GatherInv
<1>3. Handled(c)
  BY <1>0, <1>1, ClaimsKept DEF Handled, Working, Codes
<1>4. world \in seen[c] /\ seen' = seen /\ world' = world
  BY <1>3, HandledShape, Zenon
<1>5. \/ stage'[c] = "done" /\ answer'[c] = "server_error"
      \/ stage'[c] = "done" /\ answer'[c] = "access_denied" /\ ~world.project[p].member
      \/ stage'[c] = "models" /\ answer'[c] = Nil /\ world.project[p].member
  BY <1>0, <1>1, <1>2, Zenon DEF Answer, GoOn, EndpointType, CallerInv, WorldInv
<1>6. GatherInv(c)'
  <2>1. CASE answer'[c] = "access_denied"
    <3>1. DenialSeen(c)'
      BY <1>1, <1>2, <1>4, <1>5, <2>1, TokenEndpointAssumption, Zenon DEF DenialSeen
    <3> QED
      BY <1>4, <1>5, <2>1, <3>1, TokenEndpointAssumption, Zenon DEF GatherInv, Minted, Working
  <2>2. CASE stage'[c] = "models"
    <3>1. MemberSeen(c)'
      BY <1>1, <1>2, <1>4, <1>5, <2>2, Zenon DEF MemberSeen
    <3> QED
      BY <1>4, <1>5, <2>2, <3>1, TokenEndpointAssumption, Zenon DEF GatherInv, Minted, Working
  <2>3. CASE stage'[c] = "done" /\ answer'[c] = "server_error"
    BY <2>3, TokenEndpointAssumption, Refused, Zenon
  <2> QED
    BY <1>5, <2>1, <2>2, <2>3, Zenon
<1> QED
  BY <1>1, <1>3, <1>6, HandledKeeps

\* The models of the project, or none at all.
LEMMA ModelsKeeps ==
    ASSUME EndpointInv, NEW c \in Callers, resolve_project_model_access(c)
    PROVE  EndpointInv'
<1> PICK p : p = world.project[claims[c].project]
  BY Zenon
<1> DEFINE k == [claims[c] EXCEPT !.models = p.models, !.policy = p.policy]
           n == [claims[c] EXCEPT !.models = Nil, !.policy = "deny_all"]
<1>0. EndpointType /\ CallerInv(c) /\ GatherInv(c) /\ claims[c] \in Claims /\ world \in World
  BY DEF EndpointInv, EndpointType
<1>1. /\ stage[c] = "models" /\ revoked' = revoked /\ GoOn(c, "budget")
      /\ UNCHANGED <<Outside, request, recorded>>
  BY DEF resolve_project_model_access
<1>2. \/ p.exists /\ claims' = [claims EXCEPT ![c] = k]
      \/ claims' = [claims EXCEPT ![c] = n]
  BY <1>0, ZenonT(30) DEF resolve_project_model_access, EndpointType
<1>3. MemberSeen(c) /\ claims[c].project \in Projects /\ p \in ProjectRow
  BY <1>0, <1>1 DEF GatherInv, MemberSeen, World
<1>4. /\ k \in Claims /\ k.project = claims[c].project
      /\ k.models = p.models /\ k.policy = p.policy
  BY <1>0, <1>3, Zenon DEF Claims, ProjectRow
<1>5. n \in Claims /\ n.project = claims[c].project /\ n.models = Nil /\ n.policy = "deny_all"
  BY <1>0, <1>3, Zenon DEF Claims
<1> HIDE DEF k, n
<1>6. Handled(c)
  BY <1>0, <1>1, <1>2, <1>4, <1>5, ClaimsKept DEF Handled, Working, Codes
<1>7. world \in seen[c] /\ seen' = seen /\ world' = world
  BY <1>6, HandledShape, Zenon
<1>8. stage'[c] = "budget" /\ answer'[c] = Nil /\ (claims'[c] = n \/ (p.exists /\ claims'[c] = k))
  BY <1>0, <1>1, <1>2, Zenon DEF GoOn, EndpointType, CallerInv
<1>9. MemberSeen(c)'
  BY <1>3, <1>4, <1>5, <1>7, <1>8, FieldFrame, Zenon
<1>10. ModelsSeen(c)'
  <2>1. CASE claims'[c] = n
    BY <1>5, <2>1 DEF ModelsSeen
  <2>2. CASE claims'[c] = k /\ p.exists
    BY <1>4, <1>7, <2>2, Zenon DEF ModelsSeen
  <2> QED
    BY <1>8, <2>1, <2>2, Zenon
<1>11. GatherInv(c)'
  BY <1>7, <1>8, <1>9, <1>10, TokenEndpointAssumption DEF GatherInv, Minted
<1> QED
  BY <1>1, <1>6, <1>11, HandledKeeps

\* The tier of the ledger, or the floor.
LEMMA BudgetKeeps ==
    ASSUME EndpointInv, NEW c \in Callers, resolve_budget_tier(c)
    PROVE  EndpointInv'
<1>1. PICK a \in {current_tier(world.ledger), world.floor} :
        claims' = [claims EXCEPT ![c].budget = budget_tier_wire_label(a)]
  BY DEF resolve_budget_tier
<1> PICK b : b = budget_tier_wire_label(a)
  OBVIOUS
<1> DEFINE k == [claims[c] EXCEPT !.budget = b]
<1>0. EndpointType /\ CallerInv(c) /\ GatherInv(c) /\ claims[c] \in Claims /\ world \in World
  BY DEF EndpointInv, EndpointType
<1>2. /\ stage[c] = "budget" /\ revoked' = revoked /\ GoOn(c, "quota")
      /\ UNCHANGED <<Outside, request, recorded>>
  BY DEF resolve_budget_tier
<1>3. claims' = [claims EXCEPT ![c] = k]
  BY <1>0, <1>1 DEF EndpointType
<1>4. a \in Rungs \union Floors
  BY <1>0 DEF World, current_tier, Rungs
<1>5. /\ k \in Claims /\ k.project = claims[c].project /\ k.budget = b
      /\ k.models = claims[c].models /\ k.policy = claims[c].policy
  BY <1>0, <1>4 DEF Claims
<1> HIDE DEF k
<1>6. Handled(c)
  BY <1>0, <1>2, <1>3, <1>5, ClaimsKept, Zenon DEF Handled, Working, Codes
<1>7. world \in seen[c] /\ seen' = seen /\ world' = world
  BY <1>6, HandledShape, ZenonT(30)
<1>8. stage'[c] = "quota" /\ answer'[c] = Nil /\ claims'[c] = k
  BY <1>0, <1>2, <1>3 DEF GoOn, EndpointType, CallerInv
<1>9. MemberSeen(c)' /\ ModelsSeen(c)'
  BY <1>0, <1>2, <1>5, <1>7, <1>8, FieldFrame, Zenon DEF GatherInv
<1>10. BudgetSeen(c)'
  BY <1>5, <1>7, <1>8, ZenonT(30) DEF BudgetSeen
<1>11. GatherInv(c)'
  BY <1>7, <1>8, <1>9, <1>10, TokenEndpointAssumption DEF GatherInv, Minted
<1> QED
  BY <1>2, <1>6, <1>11, HandledKeeps

\* The tier of the roster row; a failure to read it refuses.
LEMMA QuotaKeeps ==
    ASSUME EndpointInv, NEW c \in Callers, resolve_quota_tier(c)
    PROVE  EndpointInv'
<1> PICK t : t = project_member_quota_tier(claims[c].project)
  OBVIOUS
<1> DEFINE k == [claims[c] EXCEPT !.quota = t]
<1>0. EndpointType /\ CallerInv(c) /\ GatherInv(c) /\ claims[c] \in Claims /\ world \in World
  BY DEF EndpointInv, EndpointType
<1>1. /\ stage[c] = "quota" /\ revoked' = revoked
      /\ UNCHANGED <<Outside, request, recorded>>
      /\ \/ claims' = [claims EXCEPT ![c].quota = t] /\ GoOn(c, "mint")
         \/ claims' = claims /\ Answer(c, "server_error")
  BY DEF resolve_quota_tier
<1>2. \/ claims' = [claims EXCEPT ![c] = k] /\ GoOn(c, "mint")
      \/ claims' = claims /\ Answer(c, "server_error")
  BY <1>0, <1>1 DEF EndpointType
<1>3. claims[c].project \in Projects /\ world.project[claims[c].project] \in ProjectRow
  BY <1>0, <1>1, Zenon DEF GatherInv, MemberSeen, World
<1>4. t \in Tiers \union {Nil} /\ t = world.project[claims[c].project].tier
  BY <1>3, Zenon DEF project_member_quota_tier, ProjectRow
<1>5. /\ k \in Claims /\ k.project = claims[c].project /\ k.quota = t
      /\ k.models = claims[c].models /\ k.policy = claims[c].policy
      /\ k.budget = claims[c].budget
  BY <1>0, <1>4 DEF Claims
<1> HIDE DEF k
<1>6. Handled(c)
  BY <1>0, <1>1, <1>2, <1>5, ClaimsKept DEF Handled, Working, Codes
<1>7. world \in seen[c] /\ seen' = seen /\ world' = world
  BY <1>6, HandledShape
<1>8. \/ stage'[c] = "mint" /\ answer'[c] = Nil /\ claims'[c] = k
      \/ stage'[c] = "done" /\ answer'[c] = "server_error"
  BY <1>0, <1>1, <1>2 DEF Answer, GoOn, EndpointType, CallerInv
<1>9. CASE stage'[c] = "done" /\ answer'[c] = "server_error"
  BY <1>1, <1>6, <1>9, Refused, HandledKeeps
<1>10. CASE stage'[c] = "mint" /\ answer'[c] = Nil /\ claims'[c] = k
  <2>1. MemberSeen(c)' /\ ModelsSeen(c)' /\ BudgetSeen(c)'
    BY <1>0, <1>1, <1>5, <1>7, <1>10, FieldFrame, Zenon DEF GatherInv
  <2>2. QuotaSeen(c)'
    BY <1>4, <1>5, <1>7, <1>10, Zenon DEF QuotaSeen
  <2>3. GatherInv(c)'
    BY <1>7, <1>10, <2>1, <2>2, TokenEndpointAssumption, Zenon DEF GatherInv, Minted
  <2> QED
    BY <1>1, <1>6, <2>3, HandledKeeps
<1> QED
  BY <1>8, <1>9, <1>10

\* A token carries what was gathered.
LEMMA MintKeeps ==
    ASSUME EndpointInv, NEW c \in Callers, Mint(c)
    PROVE  EndpointInv'
<1>0. EndpointType /\ CallerInv(c) /\ GatherInv(c)
  BY DEF EndpointInv
<1>1. /\ stage[c] = "mint" /\ revoked' = revoked /\ claims' = claims
      /\ UNCHANGED <<Outside, request, recorded>>
      /\ Answer(c, "ok") \/ Answer(c, "server_error")
  BY DEF Mint
<1>2. Handled(c)
  BY <1>0, <1>1, ClaimsKept DEF Handled, Working, Codes
<1>3. seen' = seen
  BY <1>2, HandledShape
<1>4. stage'[c] = "done" /\ answer'[c] \in {"ok", "server_error"}
  BY <1>0, <1>1, Zenon DEF Answer, EndpointType
<1>5. (MemberSeen(c) /\ ModelsSeen(c) /\ BudgetSeen(c) /\ QuotaSeen(c))'
  BY <1>0, <1>1, <1>3, Zenon DEF GatherInv, MemberSeen, ModelsSeen, BudgetSeen, QuotaSeen
<1>6. GatherInv(c)'
  BY <1>4, <1>5 DEF GatherInv, Working
<1> QED
  BY <1>1, <1>2, <1>6, HandledKeeps

-------------------------------------------------------------------------------
(* What everyone else does meanwhile. *)

\* A change of the database is seen by the requests it finds at work.
LEMMA ChangeKeeps ==
    ASSUME EndpointInv, NEW w \in World, Change(w),
           \A p \in Projects : w.project[p].member => w.project[p].exists
    PROVE  EndpointInv'
<1>0. EndpointType
  BY Zenon DEF EndpointInv
<1>1. /\ world' = w
      /\ seen' = [c \in Callers |-> IF stage[c] \in {"idle", "done"} THEN seen[c]
                                   ELSE seen[c] \union {w}]
      /\ UNCHANGED <<time, spent, request, stage, claims, answer, recorded, revoked>>
  BY DEF Change
<1>2. seen' \in [Callers -> SUBSET World]
  BY <1>0, <1>1 DEF EndpointType
<1>3. EndpointType'
  BY <1>0, <1>1, <1>2 DEF EndpointType
<1>4. ASSUME NEW c \in Callers PROVE CallerInv(c)' /\ GatherInv(c)'
  <2>1. CallerInv(c) /\ GatherInv(c)
    BY DEF EndpointInv
  <2>2. seen[c] \subseteq seen'[c] /\ (stage[c] \in Working => w \in seen'[c])
    BY <1>1, Zenon DEF Working
  <2>3. CallerInv(c)'
    BY <1>1, <2>1, CallerFrame, Zenon
  <2>4. GatherInv(c)'
    BY <1>1, <2>1, <2>2, GatherFrame, Zenon
  <2> QED
    BY <2>3, <2>4
<1>5. WorldInv'
  BY <1>1, Zenon DEF WorldInv
<1>6. SpentOnce'
  BY <1>1, Zenon DEF EndpointInv, SpentOnce, Authentic
<1>7. RevokedInv'
  BY <1>1, Zenon DEF EndpointInv, RevokedInv, ClientOf
<1> QED
  BY <1>3, <1>4, <1>5, <1>6, <1>7 DEF EndpointInv

\* Changing one project, and perhaps the default.
LEMMA RowKeeps ==
    ASSUME EndpointInv, NEW p \in Projects, NEW row \in ProjectRow, row.member => row.exists,
           NEW d \in Projects \union {Nil}, NEW w, Change(w),
           w = [default |-> d, project |-> [world.project EXCEPT ![p] = row],
                ledger |-> world.ledger, floor |-> world.floor]
    PROVE  EndpointInv'
<1>0. world \in World /\ WorldInv
  BY DEF EndpointInv, EndpointType
<1>1. w \in World
  BY <1>0 DEF World
<1>2. ASSUME NEW q \in Projects PROVE w.project[q].member => w.project[q].exists
  <2>1. CASE q = p
    BY <1>0, <2>1 DEF World
  <2>2. CASE q # p
    BY <1>0, <2>2, Zenon DEF World, WorldInv
  <2> QED
    BY <2>1, <2>2
<1> QED
  BY <1>1, <1>2, ChangeKeeps, Zenon

\* set_project_allowed_models.
LEMMA ModelsChangedKeeps ==
    ASSUME EndpointInv, NEW p \in Projects, ModelsChanged(p)
    PROVE  EndpointInv'
<1>1. PICK m \in {Nil, "some"} : Change([world EXCEPT !.project[p].models = m])
  BY Zenon DEF ModelsChanged
<1> DEFINE row == [world.project[p] EXCEPT !.models = m]
           w == [world EXCEPT !.project[p].models = m]
<1>2. world \in World /\ world.project[p] \in ProjectRow /\ WorldInv
  BY DEF EndpointInv, EndpointType, World
<1>3. row \in ProjectRow /\ (row.member => row.exists)
  BY <1>2 DEF ProjectRow, WorldInv
<1>4. w = [default |-> world.default, project |-> [world.project EXCEPT ![p] = row],
           ledger |-> world.ledger, floor |-> world.floor]
  BY <1>2 DEF World
<1>5. world.default \in Projects \union {Nil} /\ Change(w)
  BY <1>1, <1>2 DEF World
<1> HIDE DEF row, w
<1> QED
  BY <1>3, <1>4, <1>5, RowKeeps

\* set_project_model_policy.
LEMMA PolicyChangedKeeps ==
    ASSUME EndpointInv, NEW p \in Projects, PolicyChanged(p)
    PROVE  EndpointInv'
<1>1. PICK y \in {"allow_all", "allowlist", "deny_all"} :
        Change([world EXCEPT !.project[p].policy = y])
  BY DEF PolicyChanged
<1> DEFINE row == [world.project[p] EXCEPT !.policy = y]
           w == [world EXCEPT !.project[p].policy = y]
<1>2. world \in World /\ world.project[p] \in ProjectRow /\ WorldInv
  BY DEF EndpointInv, EndpointType, World
<1>3. row \in ProjectRow /\ (row.member => row.exists)
  BY <1>2 DEF ProjectRow, WorldInv
<1>4. w = [default |-> world.default, project |-> [world.project EXCEPT ![p] = row],
           ledger |-> world.ledger, floor |-> world.floor]
  BY <1>2 DEF World
<1>5. world.default \in Projects \union {Nil} /\ Change(w)
  BY <1>1, <1>2, Zenon DEF World
<1> HIDE DEF row, w
<1> QED
  BY <1>3, <1>4, <1>5, RowKeeps

\* A member's tier is set.
LEMMA MemberTierKeeps ==
    ASSUME EndpointInv, NEW p \in Projects, NEW t \in Tiers, MemberTierChanged(p, t)
    PROVE  EndpointInv'
<1> DEFINE row == [world.project[p] EXCEPT !.tier = t]
           w == [world EXCEPT !.project[p].tier = t]
<1>2. world \in World /\ world.project[p] \in ProjectRow /\ WorldInv
  BY DEF EndpointInv, EndpointType, World
<1>3. row \in ProjectRow /\ (row.member => row.exists)
  BY <1>2 DEF ProjectRow, WorldInv
<1>4. w = [default |-> world.default, project |-> [world.project EXCEPT ![p] = row],
           ledger |-> world.ledger, floor |-> world.floor]
  BY <1>2 DEF World
<1>5. world.default \in Projects \union {Nil} /\ Change(w)
  BY <1>2 DEF World, MemberTierChanged
<1> HIDE DEF row, w
<1> QED
  BY <1>3, <1>4, <1>5, RowKeeps

\* Writing a row twice is writing it once.
LEMMA RowTwice ==
    ASSUME world \in World, NEW p \in Projects, NEW a, NEW b, NEW v,
           v = [default |-> world.default, project |-> [world.project EXCEPT ![p] = a],
                ledger |-> world.ledger, floor |-> world.floor]
    PROVE  /\ v.project[p] = a
           /\ [v EXCEPT !.project = [v.project EXCEPT ![p] = b]] =
                [default |-> world.default, project |-> [world.project EXCEPT ![p] = b],
                 ledger |-> world.ledger, floor |-> world.floor]
  BY DEF World

\* The first of several writes.
LEMMA RowOnce ==
    ASSUME world \in World, NEW p \in Projects, NEW b
    PROVE  [world EXCEPT !.project = [world.project EXCEPT ![p] = b]] =
             [default |-> world.default, project |-> [world.project EXCEPT ![p] = b],
              ledger |-> world.ledger, floor |-> world.floor]
  BY DEF World

\* A member leaves: the roster row goes, and its tier with it.
LEMMA MemberRemovedKeeps ==
    ASSUME EndpointInv, NEW p \in Projects, MemberRemoved(p)
    PROVE  EndpointInv'
<1> DEFINE left == [world.project[p] EXCEPT !.member = FALSE]
           row == [left EXCEPT !.tier = Nil]
           v == [world EXCEPT !.project[p].member = FALSE]
           w == [world EXCEPT !.project[p].member = FALSE, !.project[p].tier = Nil]
<1>1. world \in World /\ world.project[p] \in ProjectRow
  BY DEF EndpointInv, EndpointType, World
<1>2. left \in ProjectRow /\ row \in ProjectRow /\ ~row.member
  BY <1>1, Zenon DEF ProjectRow
<1>3. row = [left EXCEPT !.tier = Nil]
  OBVIOUS
<1>4. v = [world EXCEPT !.project = [world.project EXCEPT ![p] = left]]
  OBVIOUS
<1>5. w = [v EXCEPT !.project = [v.project EXCEPT ![p] = [v.project[p] EXCEPT !.tier = Nil]]]
  OBVIOUS
<1>6. Change(w) /\ world.default \in Projects \union {Nil}
  BY <1>1 DEF World, MemberRemoved
<1> HIDE DEF left, row, v, w
<1>7. v = [default |-> world.default, project |-> [world.project EXCEPT ![p] = left],
           ledger |-> world.ledger, floor |-> world.floor]
  BY <1>1, <1>4, RowOnce
<1>8. w = [default |-> world.default, project |-> [world.project EXCEPT ![p] = row],
           ledger |-> world.ledger, floor |-> world.floor]
  BY <1>1, <1>3, <1>5, <1>7, RowTwice
<1> QED
  BY <1>2, <1>6, <1>8, RowKeeps

\* A project goes with its roster, and is nobody's default any more.
LEMMA ProjectDeletedKeeps ==
    ASSUME EndpointInv, NEW p \in Projects, ProjectDeleted(p)
    PROVE  EndpointInv'
<1> DEFINE gone == [world.project[p] EXCEPT !.exists = FALSE]
           left == [gone EXCEPT !.member = FALSE]
           row == [left EXCEPT !.tier = Nil]
           d == IF world.default = p THEN Nil ELSE world.default
           u == [world EXCEPT !.project[p].exists = FALSE]
           v == [u EXCEPT !.project[p].member = FALSE]
           x == [v EXCEPT !.project[p].tier = Nil]
           w == [world EXCEPT !.project[p].exists = FALSE, !.project[p].member = FALSE,
                              !.project[p].tier = Nil,
                              !.default = IF @ = p THEN Nil ELSE @]
<1>1. world \in World /\ world.project[p] \in ProjectRow
  BY DEF EndpointInv, EndpointType, World
<1>2. row \in ProjectRow /\ ~row.member
  BY <1>1, Zenon DEF ProjectRow
<1>3. left = [gone EXCEPT !.member = FALSE] /\ row = [left EXCEPT !.tier = Nil]
  OBVIOUS
<1>4. u = [world EXCEPT !.project = [world.project EXCEPT ![p] = gone]]
  OBVIOUS
<1>5. /\ v = [u EXCEPT !.project = [u.project EXCEPT ![p] = [u.project[p] EXCEPT !.member = FALSE]]]
      /\ x = [v EXCEPT !.project = [v.project EXCEPT ![p] = [v.project[p] EXCEPT !.tier = Nil]]]
  OBVIOUS
<1>6. w = [x EXCEPT !.default = IF x.default = p THEN Nil ELSE x.default]
  OBVIOUS
<1>7. d = (IF world.default = p THEN Nil ELSE world.default) /\ d \in Projects \union {Nil}
  BY <1>1 DEF World
<1>8. Change(w)
  BY DEF ProjectDeleted
<1> HIDE DEF gone, left, row, d, u, v, x, w
<1>9. u = [default |-> world.default, project |-> [world.project EXCEPT ![p] = gone],
           ledger |-> world.ledger, floor |-> world.floor]
  BY <1>1, <1>4, RowOnce
<1>10. v = [default |-> world.default, project |-> [world.project EXCEPT ![p] = left],
            ledger |-> world.ledger, floor |-> world.floor]
  <2>1. u.project[p] = gone
    BY <1>1, <1>9, RowTwice, Zenon
  <2>2. v = [u EXCEPT !.project = [u.project EXCEPT ![p] = left]]
    BY <1>3, <1>5, <2>1, Zenon
  <2> QED
    BY <1>1, <1>9, <2>2, RowTwice
<1>11. x = [default |-> world.default, project |-> [world.project EXCEPT ![p] = row],
            ledger |-> world.ledger, floor |-> world.floor]
  <2>1. v.project[p] = left
    BY <1>1, <1>10, RowTwice, Zenon
  <2>2. x = [v EXCEPT !.project = [v.project EXCEPT ![p] = row]]
    BY <1>3, <1>5, <2>1, Zenon
  <2> QED
    BY <1>1, <1>10, <2>2, RowTwice
<1>12. w = [default |-> d, project |-> [world.project EXCEPT ![p] = row],
            ledger |-> world.ledger, floor |-> world.floor]
  BY <1>6, <1>7, <1>11
<1> QED
  BY <1>2, <1>7, <1>8, <1>12, RowKeeps

\* Another project becomes the default.
LEMMA DefaultMovedKeeps ==
    ASSUME EndpointInv, NEW p \in Projects, DefaultMoved(p)
    PROVE  EndpointInv'
<1> DEFINE w == [world EXCEPT !.default = p]
<1>1. world \in World /\ WorldInv
  BY DEF EndpointInv, EndpointType
<1>2. w \in World /\ w.project = world.project
  BY <1>1 DEF World
<1>3. Change(w)
  BY DEF DefaultMoved
<1> HIDE DEF w
<1> QED
  BY <1>1, <1>2, <1>3, ChangeKeeps DEF WorldInv

\* The ledger gains a tier.
LEMMA TierGrantedKeeps ==
    ASSUME EndpointInv, NEW a \in Amounts, TierGranted(a)
    PROVE  EndpointInv'
<1> DEFINE w == [world EXCEPT !.ledger = a]
<1>1. world \in World /\ WorldInv
  BY DEF EndpointInv, EndpointType
<1>2. w \in World /\ w.project = world.project
  BY <1>1 DEF World
<1>3. Change(w)
  BY DEF TierGranted
<1> HIDE DEF w
<1> QED
  BY <1>1, <1>2, <1>3, ChangeKeeps DEF WorldInv

\* The clock, the state of Redis and a step elsewhere.
LEMMA IdleKeeps ==
    ASSUME EndpointInv, time' \in Nat,
           UNCHANGED <<spent, world, request, stage, claims, answer, recorded, seen, revoked>>
    PROVE  EndpointInv'
<1>1. EndpointType'
  BY DEF EndpointInv, EndpointType
<1>2. ASSUME NEW c \in Callers PROVE CallerInv(c)' /\ GatherInv(c)'
  <2>1. CallerInv(c) /\ GatherInv(c)
    BY DEF EndpointInv
  <2>2. CallerInv(c)'
    BY <2>1, CallerFrame, Zenon
  <2>3. stage[c] \in Working => world' \in seen'[c]
    BY <2>1, Zenon DEF GatherInv
  <2>4. GatherInv(c)'
    BY <2>1, <2>3, GatherFrame, Zenon
  <2> QED
    BY <2>2, <2>4
<1>3. WorldInv' /\ RevokedInv'
  BY DEF EndpointInv, WorldInv, RevokedInv, ClientOf
<1>4. SpentOnce'
  BY DEF EndpointInv, SpentOnce, Authentic
<1> QED
  BY <1>1, <1>2, <1>3, <1>4 DEF EndpointInv

\* No step of the endpoint or of anyone else breaks the invariant.
LEMMA EndpointStep == EndpointInv /\ [EndpointNext]_endpointVars => EndpointInv'
<1> SUFFICES ASSUME EndpointInv, [EndpointNext]_endpointVars PROVE EndpointInv'
  OBVIOUS
<1>1. ASSUME NEW c \in Callers, NEW r \in Requests, Arrive(c, r) \/ NoSigningKey(c, r)
      PROVE  EndpointInv'
  BY <1>1, ArriveKeeps, Zenon
<1>2. ASSUME NEW c \in Callers,
             \/ record_jti(c) \/ revoke_refresh_token_for_client(c) \/ ValidateSubject(c)
             \/ find_default_project_id(c) \/ resolve_context(c)
             \/ resolve_project_model_access(c) \/ resolve_budget_tier(c)
             \/ resolve_quota_tier(c) \/ Mint(c)
      PROVE  EndpointInv'
  BY <1>2, RecordKeeps, RevokeKeeps, ValidateKeeps, DefaultKeeps, ContextKeeps, ModelsKeeps,
     BudgetKeeps, QuotaKeeps, MintKeeps, Zenon
<1>3. ASSUME NEW p \in Projects,
             \/ ModelsChanged(p) \/ PolicyChanged(p) \/ MemberRemoved(p)
             \/ ProjectDeleted(p) \/ DefaultMoved(p)
             \/ \E t \in Tiers : MemberTierChanged(p, t)
      PROVE  EndpointInv'
  BY <1>3, ModelsChangedKeeps, PolicyChangedKeeps, MemberTierKeeps, MemberRemovedKeeps,
     ProjectDeletedKeeps, DefaultMovedKeeps, Zenon
<1>4. ASSUME NEW a \in Amounts, TierGranted(a) PROVE EndpointInv'
  BY <1>4, TierGrantedKeeps, Zenon
<1>5. CASE OutageFlips
  BY <1>5, IdleKeeps, Zenon DEF OutageFlips, EndpointInv, EndpointType
<1>6. CASE ClockTicks
  BY <1>6, IdleKeeps DEF ClockTicks, EndpointInv, EndpointType
<1>7. CASE UNCHANGED endpointVars
  BY <1>7, IdleKeeps DEF endpointVars, EndpointInv, EndpointType
<1> QED
  BY <1>1, <1>2, <1>3, <1>4, <1>5, <1>6, <1>7, Zenon DEF EndpointNext

\* The invariant holds of every behaviour of the endpoint, both handlers and all
\* that goes on beside them included.
THEOREM EndpointInvariant == EndpointSpec => []EndpointInv
  BY EndpointStart, EndpointStep, PTL DEF EndpointSpec

\* Whatever Redis does and however requests interleave over both endpoints, an
\* assertion recorded while it is valid authenticates one request, and a
\* confidential client's refresh token is revoked only by a request that spent
\* one of its assertions (record_jti, authenticate_revoke_client).
THEOREM AssertionsSpentOnceAlways == EndpointSpec => []AssertionsSpentOnce
<1>1. EndpointInv => AssertionsSpentOnce
  <2> SUFFICES ASSUME EndpointInv PROVE AssertionsSpentOnce
    BY Zenon
  <2>1. ASSUME NEW r \in revoked
        PROVE  /\ ClientOf(r.by) = r.token.client
               /\ Config[r.token.client].type = "confidential" =>
                    Authentic(r.by) /\ Assertions[request[r.by].assertion].client = r.token.client
    <3>1. r.by \in Callers /\ answer[r.by] = "ok" /\ ClientOf(r.by) = r.token.client
      BY <2>1, Zenon DEF EndpointInv, RevokedInv
    <3>2. Proven(r.by)
      BY <3>1 DEF EndpointInv, CallerInv
    <3> QED
      BY <3>1, <3>2 DEF Proven
  <2> QED
    BY <2>1, Zenon DEF EndpointInv, SpentOnce, AssertionsSpentOnce
<1> QED
  BY <1>1, EndpointInvariant, PTL

\* A token needs a moment of the call at which the subject could use the
\* project, and access_denied one at which they could not, whatever the other
\* users of the database do meanwhile (resolve_context).
THEOREM MembershipDecidesAlways == EndpointSpec => []MembershipDecides
<1>1. EndpointInv => MembershipDecides
  BY Zenon DEF EndpointInv, GatherInv, MemberSeen, DenialSeen, MembershipDecides
<1> QED
  BY <1>1, EndpointInvariant, PTL

\* The scopes granted are the server's, the client's and the request's, and
\* offline_access has to be asked for.
LEMMA GrantedScopes ==
    ASSUME NEW c \in Callers, ClientOf(c) \in DOMAIN Config
    PROVE  /\ Granted(c) \subseteq ServerScopes \intersect Config[ClientOf(c)].scopes
           /\ request[c].scope # {} => Granted(c) \subseteq request[c].scope
           /\ "offline_access" \in Granted(c) => "offline_access" \in request[c].scope
<1>1. find_client(ClientOf(c)).scopes = Config[ClientOf(c)].scopes
  BY Zenon DEF find_client, to_registration
<1> QED
  BY <1>1, Zenon DEF Granted, grant_scopes

\* Each claim of a minted token was true at a moment of the call, and its scopes
\* are within what the server, the client and the request name
\* (resolve_project_model_access, resolve_budget_tier, resolve_quota_tier,
\* grant_scopes).
THEOREM ClaimsWereTrueAlways == EndpointSpec => []ClaimsWereTrue
<1>1. EndpointInv => ClaimsWereTrue
  <2> SUFFICES ASSUME EndpointInv, NEW c \in Callers, Minted(c)
               PROVE  /\ ModelsSeen(c) /\ BudgetSeen(c) /\ QuotaSeen(c)
                      /\ Granted(c) \subseteq ServerScopes \intersect Config[ClientOf(c)].scopes
                      /\ request[c].scope # {} => Granted(c) \subseteq request[c].scope
                      /\ "offline_access" \in Granted(c) => "offline_access" \in request[c].scope
    BY Zenon DEF ClaimsWereTrue, ModelsSeen, BudgetSeen, QuotaSeen
  <2>1. ModelsSeen(c) /\ BudgetSeen(c) /\ QuotaSeen(c)
    BY Zenon DEF EndpointInv, GatherInv
  <2>2. ClientOf(c) \in DOMAIN Config
    BY DEF EndpointInv, CallerInv, Minted, Proven
  <2> QED
    BY <2>1, <2>2, GrantedScopes
<1> QED
  BY <1>1, EndpointInvariant, PTL
===============================================================================
