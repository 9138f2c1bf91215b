------------------------------- MODULE Startup -------------------------------
(***************************************************************************)
(* From a configuration file to listening servers: loading and validating  *)
(* the configuration, connecting to the database with retries, the ordered *)
(* steps of every start_*_server, the process that runs two of them, and   *)
(* the budget policy each server loads once while it starts.               *)
(***************************************************************************)
EXTENDS Optional, Naturals, Sequences, FiniteSets, TLC

CONSTANTS
    Procs,          \* processes deployed on one database
    MaxAttempts,    \* database connection attempts (30 in the code)
    MaxOutages,     \* database outages explored
    MaxRevision,    \* policy activations explored
    Unset           \* an environment variable that is not set

ASSUME StartupAssumption == MaxAttempts \in Nat \ {0} /\ MaxRevision \in Nat \ {0}

-----------------------------------------------------------------------------
(* The configuration *)

\* `interpolate_env_vars` on one reference: $V and ${V}, ${V-default},
\* ${V:-default}; `env` is the variable's value.
interpolate_env_vars(operator, env, default) ==
    CASE operator = "" -> IF env = Unset THEN "" ELSE env
      [] operator = "-" -> IF env = Unset THEN default ELSE env
      [] operator = ":-" -> IF env \in {Unset, ""} THEN default ELSE env

\* A catalogue list as YAML gives it: nothing, a string, or a sequence.
\* `deserialize_plan_list` (and its twins for tiers and models); Nil: an error.
deserialize_plan_list(list) ==
    CASE list.form \in {"null", "blank"} -> <<>>
      [] list.form \in {"json", "sequence"} -> list.ids
      [] list.form = "broken" -> Nil

deserialize_tier_list(list) == deserialize_plan_list(list)
deserialize_model_list(list) == deserialize_plan_list(list)

Lists == {[form |-> f, ids |-> <<"a", "b">>] : f \in {"null", "blank", "json", "broken"}}
PlanLists == Lists \cup {[form |-> "sequence", ids |-> i] : i \in {<<"a", "a">>, <<"">>}}
Full == [form |-> "json", ids |-> <<"a", "b">>]

\* A configuration that starts everything.
Working ==
    [plans |-> Full, tiers |-> Full, models |-> Full, max_lifetime_days |-> 90, rbac |-> TRUE,
     oauth2_type |-> "self", signing |-> "good", issuance |-> TRUE, exchange |-> "on",
     redis |-> [operator |-> "", env |-> "redis"], ca_bundle |-> TRUE,
     usage_service |-> "good", idp |-> TRUE, budget |-> TRUE, database_url |-> TRUE,
     tls |-> TRUE]

\* What else each field can say, and configurations with one field set otherwise.
Changed(c, f, v) == [c EXCEPT ![f] = v]
FieldValues ==
    [plans |-> PlanLists, tiers |-> Lists, models |-> Lists, max_lifetime_days |-> {0},
     rbac |-> {FALSE}, oauth2_type |-> {"external"}, signing |-> {"missing", "bad"},
     issuance |-> {FALSE}, exchange |-> {"off", "shortCap"},
     redis |-> {Nil} \cup [operator : {""}, env : {Unset, "rediss"}],
     ca_bundle |-> {FALSE}, usage_service |-> {"none", "badTls"}, idp |-> {FALSE},
     budget |-> {FALSE}, database_url |-> {FALSE}, tls |-> {FALSE}]
OneChanged(c) == {c} \cup UNION {{Changed(c, f, v) : v \in FieldValues[f]} : f \in DOMAIN c}

\* `load_yaml_from_path`: any list that does not parse refuses the file.
load_yaml_from_path(c) ==
    Nil \notin {deserialize_plan_list(c.plans), deserialize_tier_list(c.tiers),
                deserialize_model_list(c.models)}

\* `Billing::validate`: some plan, no blank id, no id twice.
BillingValid(c) ==
    LET ids == deserialize_plan_list(c.plans) IN
    /\ ids # <<>>
    /\ \A i \in DOMAIN ids : ids[i] # "" /\ \A j \in DOMAIN ids : ids[i] = ids[j] => i = j

\* `ApiKeyExpiry::validate`.
ApiKeyExpiryValid(c) == c.max_lifetime_days > 0

\* `build_redis_client`: a URL, and for rediss:// a readable CA bundle.
build_redis_client(c) ==
    LET url == interpolate_env_vars(c.redis.operator, c.redis.env, "") IN
    url # "" /\ (url = "rediss" => c.ca_bundle)

\* `AuthzStoreImpl::with_pool_and_oauth2`: a signer or an external issuer.
IssuerBuilt(c) == IF c.oauth2_type = "self" THEN c.signing = "good" ELSE c.issuance

\* `build_token_exchange_state`: off, or the self-signed set-up with a chain cap
\* above the tokens' own life, and the assertion store's Redis client.
build_token_exchange_state(c) ==
    \/ c.exchange = "off"
    \/ /\ c.oauth2_type = "self" /\ c.signing = "good"
       /\ c.exchange = "on"
       /\ build_redis_client(c)

-----------------------------------------------------------------------------
(* The steps of every server, in the code's order; each may refuse to start. *)

start_api_server ==
    <<"billing", "api_key_expiry", "rbac", "policy", "spend_reader", "signing_key", "issuer",
      "redis", "database_url", "crud_pool", "idempotency", "rate_limit", "listen">>

start_opa_server == <<"listen">>

start_idp_server ==
    <<"self_signed", "signing_section", "policy", "signing_key", "redis", "exchange", "listen">>

start_budget_server ==
    <<"billing", "api_key_expiry", "rbac", "policy", "spend_reader", "issuer",
      "redis", "database_url", "crud_pool", "idempotency", "rate_limit", "listen">>

\* Fault: the MCP server leaves the signing key to the other services.
KeyLeftToOthers ==
    <<"billing", "api_key_expiry", "rbac", "issuer", "database_url", "crud_pool", "listen">>

start_mcp_server ==
    <<"billing", "api_key_expiry", "rbac", "signing_key", "issuer", "database_url",
      "crud_pool", "listen">>

Steps(server) ==
    CASE server = "api" -> start_api_server
      [] server = "opa" -> start_opa_server
      [] server = "idp" -> start_idp_server
      [] server = "budget" -> start_budget_server
      [] server = "mcp" -> start_mcp_server

\* The servers of each command; the last two only load the configuration (and
\* run the migrations).
Commands == {"serve", "api", "opa", "idp", "budget", "mcp", "migrate", "config"}
ServersOf(command) ==
    CASE command = "serve" -> {"api", "opa"}
      [] command \in {"migrate", "config"} -> {}
      [] OTHER -> {command}

-----------------------------------------------------------------------------
VARIABLES
    config,    \* the configuration file
    db,        \* whether the database answers
    outages,   \* outages so far
    kid,       \* whether an active signing key is stored
    revision,  \* the active policy revision of the database
    procs      \* the processes

startupVars == <<config, db, outages, kid, revision, procs>>

\* A process: its command, where main is, its connection attempts, the revision
\* active when it was launched, and per server the next step (0: failed; one past
\* the last: serving) and the policy revision loaded.
Launched(command, current) ==
    [command |-> command, at |-> "load", attempts |-> 0, born |-> current,
     next |-> [s \in ServersOf(command) |-> 1], loaded |-> [s \in ServersOf(command) |-> 0]]

Serving(p, s) == procs[p].at = "start" /\ procs[p].next[s] = Len(Steps(s)) + 1
Failed(p, s) == procs[p].next[s] = 0

Exit(p) == procs' = [procs EXCEPT ![p].at = "exited"]
DatabaseUnchanged == UNCHANGED <<config, db, outages, kid, revision>>

\* `main`: the configuration is loaded; `migrate` and `config` end there.
MainLoads(p) ==
    /\ procs[p].at = "load"
    /\ IF load_yaml_from_path(config) /\ procs[p].command \notin {"migrate", "config"}
       THEN procs' = [procs EXCEPT ![p].at = "connect"]
       ELSE Exit(p)
    /\ DatabaseUnchanged

\* Fault: the retry counter starts over after every failure.
RetriesForever(p) ==
    /\ procs[p].at = "connect"
    /\ procs' = [procs EXCEPT ![p].at = IF db THEN "section" ELSE "connect"]
    /\ DatabaseUnchanged

\* `DbPool::new`: connect, or back off and try again, or give up at the last.
DbPoolNew(p) ==
    LET attempt == procs[p].attempts + 1 IN
    /\ procs[p].at = "connect"
    /\ procs' = [procs EXCEPT
         ![p].attempts = attempt,
         ![p].at = IF db THEN "section"
                   ELSE IF attempt >= MaxAttempts THEN "exited" ELSE "connect"]
    /\ DatabaseUnchanged

\* `main`: `idp` and `budget` need their section of the file.
SectionChecked(p) ==
    /\ procs[p].at = "section"
    /\ IF /\ procs[p].command = "idp" => config.idp
          /\ procs[p].command = "budget" => config.budget
       THEN procs' = [procs EXCEPT ![p].at = "start"]
       ELSE Exit(p)
    /\ DatabaseUnchanged

\* Whether a step lets the server go on.
Passes(step) ==
    CASE step = "billing" -> BillingValid(config)
      [] step = "api_key_expiry" -> ApiKeyExpiryValid(config)
      [] step = "rbac" -> config.rbac
      [] step = "self_signed" -> config.oauth2_type = "self"
      [] step = "signing_section" -> config.signing # "missing"
      [] step \in {"policy", "crud_pool", "idempotency"} -> db
      [] step = "spend_reader" -> config.usage_service # "badTls"
      [] step = "signing_key" ->
           config.oauth2_type = "self" => config.signing # "missing" /\ db
      [] step = "issuer" -> IssuerBuilt(config)
      [] step = "redis" -> config.redis # Nil
      [] step = "database_url" -> config.database_url
      [] step = "rate_limit" -> build_redis_client(config)
      [] step = "exchange" -> build_token_exchange_state(config)
      [] step = "listen" -> config.tls

\* `PolicyStore::load_active_from_db`.
PolicyLoaded == revision

\* One step of a server: on, or the error that ends the process; under `serve`
\* the error is only sent to the listening task.
StartStep(p, s) ==
    LET next == procs[p].next[s]
        step == Steps(s)[next] IN
    /\ procs[p].at = "start" /\ next \in 1..Len(Steps(s))
    /\ IF Passes(step)
       THEN /\ procs' = [procs EXCEPT
                 ![p].next[s] = next + 1,
                 ![p].loaded[s] = IF step = "policy" THEN PolicyLoaded ELSE @]
            /\ kid' = (kid \/ (step = "signing_key" /\ config.oauth2_type = "self"))
       ELSE /\ procs' = [procs EXCEPT
                 ![p].next[s] = 0,
                 ![p].at = IF procs[p].command = "serve" THEN @ ELSE "exited"]
            /\ UNCHANGED kid
    /\ UNCHANGED <<config, db, outages, revision>>

\* `serve`: the first error received exits the whole process.
ErrorListener(p) ==
    /\ procs[p].at = "start" /\ procs[p].command = "serve"
    /\ \E s \in ServersOf("serve") : Failed(p, s)
    /\ Exit(p)
    /\ DatabaseUnchanged

\* The process is started again (an operator, a supervisor).
Restart(p) ==
    /\ procs[p].at = "exited" \/ \E s \in ServersOf(procs[p].command) : Serving(p, s)
    /\ revision > procs[p].born
    /\ procs' = [procs EXCEPT ![p] = Launched(procs[p].command, revision)]
    /\ DatabaseUnchanged

\* `activateBudgetPolicy` on authz-budget: stored, and swapped in that process.
ActivateRevision(p) ==
    /\ procs[p].command = "budget" /\ Serving(p, "budget")
    /\ db /\ revision < MaxRevision
    /\ revision' = revision + 1
    /\ procs' = [procs EXCEPT ![p].loaded["budget"] = revision + 1]
    /\ UNCHANGED <<config, db, outages, kid>>

DatabaseFails ==
    /\ db /\ outages < MaxOutages
    /\ db' = FALSE /\ outages' = outages + 1
    /\ UNCHANGED <<config, kid, revision, procs>>

DatabaseReturns ==
    /\ ~db
    /\ db' = TRUE
    /\ UNCHANGED <<config, outages, kid, revision, procs>>

StartupInit(configs, deployments) ==
    /\ config \in configs
    /\ db \in BOOLEAN /\ outages = 0 /\ kid \in BOOLEAN /\ revision = 1
    /\ \E d \in deployments : procs = [p \in Procs |-> Launched(d[p], 1)]

ProcessStep(p) ==
    \/ MainLoads(p) \/ DbPoolNew(p) \/ SectionChecked(p) \/ ErrorListener(p)
    \/ \E s \in ServersOf(procs[p].command) : StartStep(p, s)

StartupNext ==
    \/ \E p \in Procs : ProcessStep(p) \/ Restart(p) \/ ActivateRevision(p)
    \/ DatabaseFails \/ DatabaseReturns

\* Every process goes on running; the database need not come back.
StartupFairness == \A p \in Procs : WF_startupVars(ProcessStep(p))

-----------------------------------------------------------------------------
(* Properties *)

\* What the operations of a server rely on.
Equipped(s) ==
    /\ s \in {"api", "budget", "mcp"} =>
         /\ Len(deserialize_plan_list(config.plans)) > 0
         /\ config.max_lifetime_days > 0
    /\ s \in {"api", "mcp", "idp"} /\ config.oauth2_type = "self" =>
         kid /\ config.signing # "missing"
    /\ s \in {"api", "budget", "idp"} => config.redis # Nil
    /\ s = "idp" => config.oauth2_type = "self" /\ config.exchange # "shortCap"

\* A server answers requests only with what its operations need: a plan to issue
\* keys for, a positive key life, a stored signing key when it signs, Redis where
\* rates or assertions are counted, and a budget policy that was active at some
\* time since the process was launched - whatever the file says and whatever
\* other process started first.
ServesEquipped ==
    \A p \in Procs : \A s \in ServersOf(procs[p].command) : Serving(p, s) =>
      /\ Equipped(s)
      /\ s \in {"api", "idp", "budget"} => procs[p].loaded[s] \in procs[p].born .. revision

\* Every launch ends: all servers of the process serve, or the process exits;
\* a database that never answers is given up on.
EveryStartSettles ==
    \A p \in Procs :
      (procs[p].at = "load") ~>
        \/ procs[p].at = "exited"
        \/ \A s \in ServersOf(procs[p].command) : Serving(p, s)

=============================================================================
