------------------------------- MODULE ApiKeys -------------------------------
(***************************************************************************)
(* API keys over the tenancy tables: creation, rotation, revocation and    *)
(* soft deletion, the `api_key_validation` view, and introspection, which  *)
(* answers for API keys and for the access tokens of the token-exchange    *)
(* grant alike.                                                            *)
(*                                                                         *)
(* A credential is its id: the self-signed JWT of a key (its hash is the   *)
(* row's `key_hash`) or an exchange token, whose claims stay what they     *)
(* were at minting.  The tenancy steps of Tenancy run beside the key       *)
(* operations; a key row whose project or owner disappears in such a step  *)
(* disappears with it (ON DELETE CASCADE).                                 *)
(***************************************************************************)
EXTENDS Tenancy

CONSTANTS
    Keys,         \* API key ids (cuid2)
    Sessions,     \* token-exchange access tokens
    Ops,          \* slots for key operations of several statements
    Checks,       \* slots for introspection requests
    MaxLifetime,  \* api_key_expiry.max_lifetime_days
    Ttl,          \* oauth2.signing.ttl_seconds
    MaxGrace,     \* largest grace period a caller asks for
    MaxClock

ASSUME ApiKeysAssumption ==
    /\ {MaxLifetime, Ttl, MaxGrace, MaxClock} \subseteq Nat
    /\ MaxLifetime > 0
    /\ Keys \cap Sessions = {}

VARIABLES
    keys,         \* keys[k]: the row of k; Unborn before, Gone after
    claims,       \* claims[x]: what the JWT of credential x carries, or Nil
    now,          \* the clock every process and the database read
    ops,          \* ops[o]: the key operation in progress
    checks,       \* checks[i]: the introspection in progress, or answered
    held          \* history: held[i], what has been true since check i began

keyVars == <<keys, claims, now, ops, checks, held>>
allVars == <<tenancyVars, keyVars>>

HasRow(k) == keys[k] \notin {Unborn, Gone}
MinOf(a, b) == IF a < b THEN a ELSE b

KeysInit ==
    /\ keys = [k \in Keys |-> Unborn]
    /\ claims = [x \in Keys \cup Sessions |-> Nil]
    /\ now = 0
    /\ ops = [o \in Ops |-> Idle]
    /\ checks = [i \in Checks |-> Idle]
    /\ held = [i \in Checks |-> {}]

-----------------------------------------------------------------------------
(* What the database says of a key *)

\* The view `api_key_validation` as of now: no row for a soft-deleted key, else
\* the first reason of the cascade.
effective_status(k) ==
    LET p == keys[k].project IN
    CASE keys[k].status # "active" -> "key_revoked"
      [] keys[k].status = "active" /\ keys[k].expires <= now -> "key_expired"
      [] keys[k].status = "active" /\ keys[k].expires > now
           /\ projects[p].status # "active" -> "project_suspended"
      [] keys[k].status = "active" /\ keys[k].expires > now
           /\ projects[p].status = "active"
           /\ accounts[projects[p].account].status # "active" -> "account_suspended"
      [] OTHER -> "active"

find_api_key_validation_by_hash(x) ==
    IF x \in Keys /\ HasRow(x) /\ ~ keys[x].deleted THEN effective_status(x) ELSE Nil

-----------------------------------------------------------------------------
(* Key operations *)

\* `validate_expires_at`: in the future and within the configured ceiling.
validate_expires_at(e) == e > now /\ e <= now + MaxLifetime

\* `capped_expiry`: the JWT's exp, clamped to the signing TTL.
capped_expiry(e) == IF e > now THEN MinOf(e, now + Ttl) ELSE now + Ttl

\* `issue_api_key_secret` under self-signing: the project must be visible to
\* the caller; azp is the fixed API-key audience.
issue_api_key_secret(s, p, k, e) ==
    /\ Standing(s, p)
    /\ claims' = [claims EXCEPT ![k] =
         [sub |-> s, project |-> p, account |-> projects[p].account,
          exp |-> capped_expiry(e), azp |-> "audience"]]

NewRow(s, p, e) ==
    [project |-> p, owner |-> s, status |-> "active", created |-> now,
     expires |-> MinOf(e, capped_expiry(e)), deleted |-> FALSE]

\* createApiKey up to the issued secret: the expiry is validated and the JWT
\* signed before the lead check.
create_api_key(o, s, p, k, e) ==
    /\ ops[o] = Idle
    /\ keys[k] = Unborn /\ claims[k] = Nil
    /\ validate_expires_at(e)
    /\ issue_api_key_secret(s, p, k, e)
    /\ ops' = [ops EXCEPT ![o] =
         [at |-> "owner", s |-> s, p |-> p, k |-> k, row |-> NewRow(s, p, e)]]
    /\ UNCHANGED <<keys, now, checks, tenancyVars>>

\* `authorize_project_lead` for the new key, read by read.
KeyLeadChecked(o) ==
    /\ ops[o].at \in {"owner", "member_role"}
    /\ LET s == ops[o].s  p == ops[o].p IN
         ops' = [ops EXCEPT ![o] =
           CASE ~ Live(p) -> Idle
             [] ops[o].at = "owner" /\ Live(p) ->
                  [@ EXCEPT !.at = IF Owns(s, p) THEN "insert" ELSE "member_role"]
             [] ops[o].at = "member_role" /\ Live(p) ->
                  IF OnRoster(s, p) /\ members[p][s].role = "lead"
                  THEN [@ EXCEPT !.at = "insert"] ELSE Idle]
    /\ UNCHANGED <<keys, claims, now, checks, tenancyVars>>

\* The INSERT, under the foreign keys to the project and to the owner.
KeyInserted(o) ==
    /\ ops[o].at = "insert"
    /\ keys' = IF Live(ops[o].p) /\ accounts[ops[o].s] # Nil
               THEN [keys EXCEPT ![ops[o].k] = ops[o].row] ELSE keys
    /\ ops' = [ops EXCEPT ![o] = Idle]
    /\ UNCHANGED <<claims, now, checks, tenancyVars>>

\* Fault: the grace period replaces the expiry the key already had.
GraceReplaces(k, grace) ==
    IF grace > 0 THEN [status |-> "active", expires |-> now + grace]
                 ELSE [status |-> "revoked", expires |-> keys[k].expires]

\* What rotation leaves of the old key: active for the grace period but never
\* past the expiry it had when it was read, else revoked.
Retired(k, grace) ==
    IF grace > 0 THEN [status |-> "active", expires |-> MinOf(keys[k].expires, now + grace)]
                 ELSE [status |-> "revoked", expires |-> keys[k].expires]

\* rotateApiKey up to the issued secret.  The old row is read whatever its
\* status (and even soft-deleted); the successor keeps its expiry unless the
\* caller names another, which is validated either way.
rotate_api_key(o, s, k, k2, grace, requested) ==
    /\ ops[o] = Idle
    /\ HasRow(k) /\ Standing(s, keys[k].project)
    /\ k2 # k /\ keys[k2] = Unborn /\ claims[k2] = Nil
    /\ LET e == IF requested = Nil THEN keys[k].expires ELSE requested IN
         /\ validate_expires_at(e)
         /\ issue_api_key_secret(s, keys[k].project, k2, e)
         /\ ops' = [ops EXCEPT ![o] =
              [at |-> "rotate", s |-> s, old |-> k, k |-> k2,
               retired |-> Retired(k, grace), grace |-> grace > 0,
               row |-> NewRow(s, keys[k].project, e)]]
    /\ UNCHANGED <<keys, now, checks, tenancyVars>>

\* `rotate_api_key_transaction`: both rows or neither, for whoever still has
\* standing on the project; COALESCE keeps the expiry when none is given.
rotate_api_key_transaction(o) ==
    /\ ops[o].at = "rotate"
    /\ LET k == ops[o].old IN
         keys' = IF HasRow(k) /\ Standing(ops[o].s, keys[k].project)
                      /\ accounts[ops[o].s] # Nil
                 THEN [keys EXCEPT
                         ![k].status = ops[o].retired.status,
                         ![k].expires = IF ops[o].grace THEN ops[o].retired.expires ELSE @,
                         ![ops[o].k] = ops[o].row]
                 ELSE keys
    /\ ops' = [ops EXCEPT ![o] = Idle]
    /\ UNCHANGED <<claims, now, checks, tenancyVars>>

\* revokeApiKey: `set_api_key_status` with no guard on the status before.
revoke_api_key(s, k) ==
    /\ HasRow(k) /\ Standing(s, keys[k].project)
    /\ keys' = [keys EXCEPT ![k].status = "revoked"]
    /\ UNCHANGED <<claims, now, ops, checks, tenancyVars>>

\* model.ApiKey.delete: the generated soft delete (`deleted_at`).
delete_api_key(s, k) ==
    /\ HasRow(k) /\ Standing(s, keys[k].project) /\ ~ keys[k].deleted
    /\ keys' = [keys EXCEPT ![k].deleted = TRUE]
    /\ UNCHANGED <<claims, now, ops, checks, tenancyVars>>

\* The token-exchange grant, as far as introspection can tell: a token for a
\* subject with standing, azp the requesting client.
ExchangeToken(x, s, p, e) ==
    /\ claims[x] = Nil
    /\ Standing(s, p)
    /\ claims' = [claims EXCEPT ![x] =
         [sub |-> s, project |-> p, account |-> projects[p].account,
          exp |-> e, azp |-> "client"]]
    /\ UNCHANGED <<keys, now, ops, checks, tenancyVars>>

Tick ==
    /\ now < MaxClock
    /\ now' = now + 1
    /\ UNCHANGED <<keys, claims, ops, checks, tenancyVars>>

-----------------------------------------------------------------------------
(* Introspection *)

At(i, stage) == checks' = [checks EXCEPT ![i].at = stage]
Answer(i, active) == checks' = [checks EXCEPT ![i].at = IF active THEN "active" ELSE "inactive"]

\* A request arrives for a minted credential; an answered slot is reused.
\* introspect_api_key, first read: does the view know the hash?
introspect_api_key(i, x) ==
    /\ checks[i].at \in {"idle", "active", "inactive"}
    /\ claims[x] # Nil
    /\ checks' = [checks EXCEPT ![i] =
         [at |-> IF find_api_key_validation_by_hash(x) # Nil THEN "row" ELSE "token", x |-> x]]
    /\ UNCHANGED <<keys, claims, now, ops, tenancyVars>>

\* `validate_api_key_context` reads the view again and decides on it.
validate_api_key_context(i) ==
    /\ checks[i].at = "row"
    /\ IF find_api_key_validation_by_hash(checks[i].x) = "active"
       THEN At(i, "usage") ELSE Answer(i, FALSE)
    /\ UNCHANGED <<keys, claims, now, ops, tenancyVars>>

\* `record_api_key_usage` (an error when the row is gone), then the project
\* read that fills the answer (an error when it is gone).
UsageRecorded(i) ==
    /\ checks[i].at \in {"usage", "project"}
    /\ LET x == checks[i].x IN
         IF checks[i].at = "usage"
         THEN IF HasRow(x) THEN At(i, "project") ELSE Answer(i, FALSE)
         ELSE Answer(i, Live(claims[x].project))
    /\ UNCHANGED <<keys, claims, now, ops, tenancyVars>>

\* Fault: only an absent azp is refused.
ShapedIfAbsent(c) == c.azp = Nil

\* `is_api_key_shaped`: azp absent, or the configured API-key audience.
is_api_key_shaped(c) == c.azp = Nil \/ c.azp = "audience"

\* `verify_self_issued_token`: an authentic JWT (no signing key is ever
\* deleted), unexpired, and not shaped like an API key's.
verify_self_issued_token(i) ==
    /\ checks[i].at = "token"
    /\ LET c == claims[checks[i].x] IN
         IF c.exp > now /\ ~ is_api_key_shaped(c) THEN At(i, "context") ELSE Answer(i, FALSE)
    /\ UNCHANGED <<keys, claims, now, ops, tenancyVars>>

\* `resolve_exchange_token_context`: standing, the project's status and the
\* account's status are three reads; the role and tier reads after them only
\* fill the answer.
resolve_exchange_token_context(i) ==
    /\ checks[i].at \in {"context", "project_status", "account_status"}
    /\ LET c == claims[checks[i].x]  p == c.project IN
         CASE checks[i].at = "context" ->
                IF Standing(c.sub, p)
                THEN checks' = [checks EXCEPT ![i] =
                       [at |-> "project_status", x |-> @.x, account |-> projects[p].account]]
                ELSE Answer(i, FALSE)
           [] checks[i].at = "project_status" ->
                IF Live(p) /\ projects[p].status = "active"
                THEN At(i, "account_status") ELSE Answer(i, FALSE)
           [] checks[i].at = "account_status" ->
                Answer(i, LET a == accounts[checks[i].account] IN
                            a # Nil /\ a.status = "active")
    /\ UNCHANGED <<keys, claims, now, ops, tenancyVars>>

-----------------------------------------------------------------------------
\* What holds of the credential of check i in the current state.
Holds(i) ==
    IF checks[i] = Idle THEN {} ELSE
    LET x == checks[i].x  c == claims[x]  p == c.project IN
      {f \in {"key", "standing", "project", "account"} :
         CASE f = "key" -> find_api_key_validation_by_hash(x) = "active"
           [] f = "standing" -> Standing(c.sub, p)
           [] f = "project" -> Live(p) /\ projects[p].status = "active"
           [] f = "account" -> accounts[c.account] # Nil
                                 /\ accounts[c.account].status = "active"}

\* The history: a check that begins starts from what holds now.
Observe ==
    held' = [i \in Checks |->
               IF checks'[i].at \in {"idle", "active", "inactive"} /\ checks'[i] = checks[i]
               THEN held[i]
               ELSE IF checks[i].at \in {"idle", "active", "inactive"} THEN Holds(i)'
               ELSE held[i] \cup Holds(i)']

SessionMinted ==
    \E x \in Sessions, s \in Subjects, p \in Projects, e \in 1 .. MaxClock : ExchangeToken(x, s, p, e)

Endings == \E s \in Subjects, k \in Keys : revoke_api_key(s, k) \/ delete_api_key(s, k)

\* Keys and tokens come into being and end.
Lifecycle ==
    \/ Tick
    \/ \E o \in Ops :
         \/ \E s \in Subjects, k \in Keys :
              \/ \E p \in Projects, e \in 0 .. MaxClock + MaxLifetime : create_api_key(o, s, p, k, e)
              \/ \E k2 \in Keys, g \in 0 .. MaxGrace, e \in {Nil} \cup 0 .. MaxClock + MaxLifetime :
                   rotate_api_key(o, s, k, k2, g, e)
         \/ KeyLeadChecked(o) \/ KeyInserted(o) \/ rotate_api_key_transaction(o)
    \/ Endings
    \/ SessionMinted

Introspection ==
    \E i \in Checks :
         \/ \E x \in Keys \cup Sessions : introspect_api_key(i, x)
         \/ validate_api_key_context(i) \/ UsageRecorded(i)
         \/ verify_self_issued_token(i) \/ resolve_exchange_token_context(i)

\* The foreign keys' cascade, in the step that deletes the parent row.
Cascade ==
    keys' = [k \in Keys |->
               IF HasRow(k) /\ (projects'[keys[k].project] \in {Unborn, Gone} \/ accounts'[keys[k].owner] = Nil)
               THEN Gone ELSE keys[k]]

\* What a tenancy step does and leaves alone here.
Beside == Remember /\ Cascade /\ UNCHANGED <<claims, now, ops, checks>>

TenancySteps ==
    /\ Comings \/ Defaults \/ Rosters \/ Statuses \/ Settings
    /\ Beside

KeysNext == (Lifecycle \/ Introspection \/ TenancySteps) /\ Observe

KeysSpec == Init /\ KeysInit /\ [][KeysNext]_allVars

-----------------------------------------------------------------------------
(* Properties *)

\* An introspection answers active for an API key only if, at one and the same
\* moment since the request arrived, the row was there, active and unexpired
\* and its project and account were active -- whatever was revoked, deleted or
\* suspended between its four reads, and although the key's signature would
\* still pass for a session's.  It answers active for an exchange session only
\* if since then its subject had standing, its project was active and its
\* account was active (each at some moment: the three are read one by one).
ActiveAnswerWasJustified ==
    \A i \in Checks : checks[i].at = "active" =>
        IF checks[i].x \in Keys THEN "key" \in held[i]
        ELSE {"standing", "project", "account"} \subseteq held[i]

\* No key row outlives its creation by more than the configured ceiling, also
\* when rotations with grace periods of the same key race.
WithinCeiling ==
    \A k \in Keys : HasRow(k) => keys[k].expires <= keys[k].created + MaxLifetime

=============================================================================
