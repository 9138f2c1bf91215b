------------------------------- MODULE Access --------------------------------
(***************************************************************************)
(* Who may do what: role-based permissions, the coarse gate in front of    *)
(* the RPC routers of authz-api and authz-budget, the context the          *)
(* generated dispatch reads its schema clauses from, batch envelopes, the  *)
(* tools of lightbridge-mcp, and the operation every procedure and tool    *)
(* ends in.                                                                *)
(*                                                                         *)
(* A permission is the pair <<resource, action>> of its wire string; a     *)
(* grant is <<"*">>, <<resource, "*">> or such a pair.  A request is one   *)
(* HTTP call; its bearer token is validated anew at every point where the  *)
(* code validates it, and may stop validating in between.                  *)
(***************************************************************************)
EXTENDS Optional, Naturals, Sequences, FiniteSets, TLC

CONSTANTS
    Callers,           \* bearer tokens presented, each of a subject of its own
    RolesOf,           \* RolesOf[t]: the strings of the token's roles claim
    RolePermissions,   \* oauth2.rbac.role_permissions: role -> set of grants
    DefaultGrants,     \* oauth2.rbac.default_grants
    MaxFrames          \* longest batch explored

-----------------------------------------------------------------------------
(* Roles and permissions *)

ALL ==
    ({"account"} \X {"create", "read", "update", "delete", "disable"})
      \cup ({"project"} \X {"create", "read", "update", "delete", "disable", "member"})
      \cup ({"apikey"} \X {"create", "read", "update", "delete", "revoke", "rotate", "validate"})
      \cup ({"budget"} \X {"read", "read-own", "self-refill", "review", "grant", "revoke",
                           "audit-read", "policy-read", "policy-write", "policy-simulate",
                           "policy-activate"})
      \cup ({"session"} \X {"revoke-own", "revoke"})

\* `expand_grant`: everything, everything of a resource, one, or nothing.
expand_grant(g) ==
    IF Len(g) = 1 THEN ALL
    ELSE IF g[2] = "*" THEN {p \in ALL : p[1] = g[1]}
    ELSE {p \in ALL : p = g}

default_role_permissions ==
    LET shared == {<<"account", "create">>, <<"account", "read">>,
                   <<"session", "revoke-own">>, <<"budget", "read-own">>} IN
    [r \in {"lightbridge-admin", "lightbridge-editor", "lightbridge-viewer"} |->
       CASE r = "lightbridge-admin" -> {<<"*">>}
         [] r = "lightbridge-editor" -> shared \cup {<<"project", "*">>, <<"apikey", "*">>}
         [] r = "lightbridge-viewer" ->
              shared \cup {<<"project", "read">>, <<"apikey", "read">>}]

\* `Rbac::compile`: the built-in mapping when none is configured.
compile ==
    LET source == IF DOMAIN RolePermissions = {} THEN default_role_permissions
                                                 ELSE RolePermissions IN
    [roles   |-> [r \in DOMAIN source |-> UNION {expand_grant(g) : g \in source[r]}],
     default |-> UNION {expand_grant(g) : g \in DefaultGrants}]

\* `Rbac::validate`, run at startup: no default grant that expands to nothing.
validate == \A g \in DefaultGrants : expand_grant(g) # {}

ASSUME AccessAssumption ==
    /\ \A t \in Callers : IsFiniteSet(RolesOf[t])
    /\ validate
    /\ MaxFrames \in Nat

\* `permissions_for_roles`: the union; a role not configured counts as default.
permissions_for_roles(roles) ==
    UNION {IF r \in DOMAIN compile.roles THEN compile.roles[r] ELSE compile.default : r \in roles}

\* `TokenInfo::permissions` of a validated token.
PermissionsOf == [t \in Callers |-> permissions_for_roles(RolesOf[t])]

-----------------------------------------------------------------------------
(* The permission of every RPC operation *)

\* `MAPPED_OP_ID_PERMISSIONS`, the enumeration the schema clauses are generated
\* from, as permission :> operations.
MAPPED_OP_ID_PERMISSIONS ==
    (<<"account", "create">> :> {"createAccount"}) @@
    (<<"account", "read">> :> {"Account.list", "Account.get",
                               "AccountSummary.list", "AccountSummary.get"}) @@
    (<<"account", "update">> :> {"updateAccountDefaultQuota"}) @@
    (<<"account", "disable">> :> {"disableAccount", "enableAccount"}) @@
    (<<"account", "delete">> :> {"deleteAccountPermanently"}) @@
    (<<"project", "create">> :> {"Project.create"}) @@
    (<<"project", "read">> :> {"Project.list", "Project.get"}) @@
    (<<"project", "update">> :> {"Project.update", "setDefaultProject", "setProjectQuota",
        "setProjectAllowedModels", "setProjectModelPolicy", "listModelCatalog"}) @@
    (<<"project", "delete">> :> {"Project.delete"}) @@
    (<<"project", "disable">> :> {"disableProject", "enableProject"}) @@
    (<<"project", "member">> :> {"listProjectRoster", "addProjectMember",
        "removeProjectMember", "setProjectMemberRole", "setProjectMemberQuotaTier"}) @@
    (<<"apikey", "create">> :> {"createApiKey", "listBillingPlans"}) @@
    (<<"apikey", "read">> :> {"ApiKey.list", "ApiKey.get"}) @@
    (<<"apikey", "update">> :> {"ApiKey.update"}) @@
    (<<"apikey", "delete">> :> {"ApiKey.delete"}) @@
    (<<"apikey", "revoke">> :> {"revokeApiKey"}) @@
    (<<"apikey", "rotate">> :> {"rotateApiKey"}) @@
    (<<"session", "revoke-own">> :> {"revokeOwnSessions"}) @@
    (<<"session", "revoke">> :> {"revokeSubjectSessions"}) @@
    (<<"budget", "policy-activate">> :> {"activateBudgetPolicy"}) @@
    (<<"budget", "policy-read">> :> {"getBudgetPolicyStatus"}) @@
    (<<"budget", "policy-simulate">> :> {"simulateBudgetPolicy"}) @@
    (<<"budget", "policy-write">> :> {"createBudgetPolicyRevision"}) @@
    (<<"budget", "self-refill">> :> {"requestBudgetRefill", "getMyBudgetRefillLadder"}) @@
    (<<"budget", "review">> :> {"listPendingAugmentationRequests",
        "approveAugmentationRequest", "rejectAugmentationRequest"}) @@
    (<<"budget", "read-own">> :> {"getMyBudgetBalance", "listMyBudgetGrants",
        "listMyAugmentationRequests"}) @@
    (<<"budget", "read">> :> {"getBudgetBalance"}) @@
    (<<"budget", "audit-read">> :> {"listBudgetGrants"}) @@
    (<<"budget", "grant">> :> {"grantBudget"}) @@
    (<<"budget", "revoke">> :> {"revokeBudgetGrant"})

MappedOps == UNION {MAPPED_OP_ID_PERMISSIONS[p] : p \in DOMAIN MAPPED_OP_ID_PERMISSIONS}

\* Generated verbs the map leaves out on purpose, and an op-id nobody serves.
UnmappedOps == {"Account.update", "Account.delete", "ApiKey.create",
                "ProjectMember.list", "ProjectMember.get", "unknown"}
OpIds == MappedOps \cup UnmappedOps

required_permission(op) ==
    IF op \in MappedOps
    THEN CHOOSE p \in DOMAIN MAPPED_OP_ID_PERMISSIONS : op \in MAPPED_OP_ID_PERMISSIONS[p]
    ELSE Nil

is_budget_op_id(op) == required_permission(op) # Nil /\ required_permission(op)[1] = "budget"

\* `RpcScope::permits`.
permits(scope, op) == is_budget_op_id(op) <=> scope = "budget"

-----------------------------------------------------------------------------
(* What procedures and tools do: the operation, and whose things it is about: *)
(* "own" when only the caller's subject is passed, "named" when the input     *)
(* names the target (the operation then checks the caller's standing, or,     *)
(* for the administrative ones, the permission is all there is).              *)

Does(op, on) == [op |-> op, on |-> on]

\* createAccount, updateAccountDefaultQuota, rotateApiKey, createApiKey.
AccountAndKeyProcedures ==
    ("createAccount" :> Does("create_account", "own")) @@
    ("updateAccountDefaultQuota" :> Does("update_account_default_quota", "named")) @@
    ("rotateApiKey" :> Does("rotate_api_key", "named")) @@
    ("createApiKey" :> Does("create_api_key", "named"))

CatalogueProcedures ==
    ("listBillingPlans" :> Does("billing_plans", "own")) @@
    ("listModelCatalog" :> Does("model_catalog", "own"))

StatusProcedures ==
    ("disableAccount" :> Does("suspend_account", "named")) @@
    ("enableAccount" :> Does("activate_account", "named")) @@
    ("disableProject" :> Does("suspend_project", "named")) @@
    ("enableProject" :> Does("activate_project", "named"))

ProjectProcedures ==
    ("setDefaultProject" :> Does("set_default_project", "named")) @@
    ("setProjectQuota" :> Does("set_project_quota", "named")) @@
    ("setProjectAllowedModels" :> Does("set_project_allowed_models", "named")) @@
    ("setProjectModelPolicy" :> Does("set_project_model_policy", "named"))

RosterProcedures ==
    ("revokeApiKey" :> Does("revoke_api_key", "named")) @@
    ("addProjectMember" :> Does("add_project_member", "named")) @@
    ("removeProjectMember" :> Does("remove_project_member", "named")) @@
    ("setProjectMemberRole" :> Does("set_project_member_role", "named")) @@
    ("setProjectMemberQuotaTier" :> Does("set_project_member_quota_tier", "named"))

RosterAndDeletion ==
    ("listProjectRoster" :> Does("list_project_roster", "named")) @@
    ("deleteAccountPermanently" :> Does("delete_account", "named"))

\* There is one policy set; the first two refuse an input that names another.
PolicyProcedures ==
    ("activateBudgetPolicy" :> Does("activate", "named")) @@
    ("getBudgetPolicyStatus" :> Does("active_policy_revision", "named")) @@
    ("simulateBudgetPolicy" :> Does("simulate", "named"))

\* requestBudgetRefill asks for the budget account its input names.
RefillProcedures ==
    ("requestBudgetRefill" :> Does("request_refill", "named")) @@
    ("getMyBudgetRefillLadder" :> Does("refill_status", "own"))

QueueProcedures ==
    ("listPendingAugmentationRequests" :> Does("list_pending", "named")) @@
    ("listMyAugmentationRequests" :> Does("list_own_history", "own")) @@
    ("approveAugmentationRequest" :> Does("approve", "named")) @@
    ("rejectAugmentationRequest" :> Does("reject", "named"))

\* Both pass one subject to `revoke_sessions`: the caller's, or the input's.
SessionProcedures ==
    ("revokeOwnSessions" :> Does("revoke_sessions", "own")) @@
    ("revokeSubjectSessions" :> Does("revoke_sessions", "named"))

\* Fault: the caller's own grants are listed for the account the input names.
GrantsByInput ==
    ("getMyBudgetBalance" :> Does("get_balance", "own")) @@
    ("getBudgetBalance" :> Does("get_balance", "named")) @@
    ("listMyBudgetGrants" :> Does("list_grants", "named")) @@
    ("listBudgetGrants" :> Does("list_grants", "named"))

BalanceProcedures ==
    ("getMyBudgetBalance" :> Does("get_balance", "own")) @@
    ("getBudgetBalance" :> Does("get_balance", "named")) @@
    ("listMyBudgetGrants" :> Does("list_grants", "own")) @@
    ("listBudgetGrants" :> Does("list_grants", "named"))

GrantProcedures ==
    ("grantBudget" :> Does("grant", "named")) @@
    ("revokeBudgetGrant" :> Does("revoke_grant", "named")) @@
    ("createBudgetPolicyRevision" :> Does("create_revision", "named"))

\* The generated model verbs are operations of their own.
ModelVerbs == {"Account.list", "Account.get", "AccountSummary.list", "AccountSummary.get",
               "Project.create", "Project.list", "Project.get", "Project.update",
               "Project.delete", "ApiKey.list", "ApiKey.get", "ApiKey.update", "ApiKey.delete",
               "ProjectMember.list", "ProjectMember.get"}

Procedures ==
    AccountAndKeyProcedures @@ CatalogueProcedures @@ StatusProcedures @@ ProjectProcedures @@
    RosterProcedures @@ RosterAndDeletion @@ PolicyProcedures @@ RefillProcedures @@
    QueueProcedures @@ SessionProcedures @@ BalanceProcedures @@ GrantProcedures

Operation(op) == IF op \in ModelVerbs THEN Does(op, "named") ELSE Procedures[op]

\* Procedures that refuse an input before they call anything: a period or an
\* amount that does not parse, another policy set, both or none of two sources.
RefusesInput == {"activateBudgetPolicy", "getBudgetPolicyStatus", "simulateBudgetPolicy",
                 "createBudgetPolicyRevision", "requestBudgetRefill",
                 "getMyBudgetRefillLadder", "getMyBudgetBalance", "getBudgetBalance",
                 "listMyBudgetGrants", "listBudgetGrants", "grantBudget"}

-----------------------------------------------------------------------------
(* The tools of lightbridge-mcp: through the generated client (an operation  *)
(* named after a model verb) or straight to the handler a procedure calls.   *)

AccountTools ==
    ("create-account" :> Does("create_account", "own")) @@
    ("list-accounts" :> Does("Account.list", "named")) @@
    ("get-account" :> Does("Account.get", "named")) @@
    ("update-account" :> Does("update_account_default_quota", "named")) @@
    ("delete-account" :> Does("delete_account", "named")) @@
    ("disable-account" :> Does("suspend_account", "named")) @@
    ("enable-account" :> Does("activate_account", "named"))

RosterTools ==
    ("list-project-roster" :> Does("list_project_roster", "named")) @@
    ("add-project-member" :> Does("add_project_member", "named")) @@
    ("remove-project-member" :> Does("remove_project_member", "named")) @@
    ("set-project-member-role" :> Does("set_project_member_role", "named")) @@
    ("set-project-member-quota-tier" :> Does("set_project_member_quota_tier", "named"))

SettingTools ==
    ("set-project-quota" :> Does("set_project_quota", "named")) @@
    ("set-project-allowed-models" :> Does("set_project_allowed_models", "named")) @@
    ("set-project-model-policy" :> Does("set_project_model_policy", "named"))

ProjectTools ==
    ("create-project" :> Does("Project.create", "named")) @@
    ("list-projects" :> Does("Project.list", "named")) @@
    ("get-project" :> Does("Project.get", "named")) @@
    ("update-project" :> Does("Project.update", "named")) @@
    ("delete-project" :> Does("Project.delete", "named"))

ProjectStatusTools ==
    ("disable-project" :> Does("suspend_project", "named")) @@
    ("enable-project" :> Does("activate_project", "named")) @@
    ("set-default-project" :> Does("set_default_project", "named"))

ApiKeyTools ==
    ("create-api-key" :> Does("create_api_key", "named")) @@
    ("list-api-keys" :> Does("ApiKey.list", "named")) @@
    ("get-api-key" :> Does("ApiKey.get", "named")) @@
    ("update-api-key" :> Does("ApiKey.update", "named")) @@
    ("delete-api-key" :> Does("ApiKey.delete", "named"))

ApiKeySecretTools ==
    ("revoke-api-key" :> Does("revoke_api_key", "named")) @@
    ("rotate-api-key" :> Does("rotate_api_key", "named")) @@
    ("validate-api-key" :> Does("validate_api_key_context", "named")) @@
    ("validate-authorino-api-key" :> Does("validate_api_key_context", "named"))

ToolTable == AccountTools @@ RosterTools @@ SettingTools @@ ProjectTools @@
             ProjectStatusTools @@ ApiKeyTools @@ ApiKeySecretTools
Tools == DOMAIN ToolTable

\* Tools that refuse a date-time that does not parse.
ToolRefusesInput == {"create-api-key", "rotate-api-key"}

ToolPermissions ==
    (<<"account", "create">> :> {"create-account"}) @@
    (<<"account", "read">> :> {"list-accounts", "get-account"}) @@
    (<<"account", "update">> :> {"update-account"}) @@
    (<<"account", "delete">> :> {"delete-account"}) @@
    (<<"account", "disable">> :> {"disable-account", "enable-account"}) @@
    (<<"project", "member">> :> {"list-project-roster", "add-project-member",
        "remove-project-member", "set-project-member-role", "set-project-member-quota-tier"}) @@
    (<<"project", "create">> :> {"create-project"}) @@
    (<<"project", "read">> :> {"list-projects", "get-project"}) @@
    (<<"project", "update">> :> {"update-project", "set-project-quota",
        "set-project-allowed-models", "set-project-model-policy", "set-default-project"}) @@
    (<<"project", "delete">> :> {"delete-project"}) @@
    (<<"project", "disable">> :> {"disable-project", "enable-project"}) @@
    (<<"apikey", "create">> :> {"create-api-key"}) @@
    (<<"apikey", "read">> :> {"list-api-keys", "get-api-key"}) @@
    (<<"apikey", "update">> :> {"update-api-key"}) @@
    (<<"apikey", "delete">> :> {"delete-api-key"}) @@
    (<<"apikey", "revoke">> :> {"revoke-api-key"}) @@
    (<<"apikey", "rotate">> :> {"rotate-api-key"}) @@
    (<<"apikey", "validate">> :> {"validate-api-key", "validate-authorino-api-key"})

PermissionOf(tool) ==
    LET holding == {p \in DOMAIN ToolPermissions : tool \in ToolPermissions[p]} IN
    IF holding = {} THEN Nil ELSE CHOOSE p \in holding : TRUE

\* Fault: enabling and disabling a project is taken for updating it.
StatusIsAnUpdate(tool) ==
    IF tool \in {"disable-project", "enable-project"} THEN <<"project", "update">>
                                                      ELSE PermissionOf(tool)

\* `required_tool_permission`.
required_tool_permission(tool) == PermissionOf(tool)

-----------------------------------------------------------------------------
(* One request *)

VARIABLES
    live,   \* whether the request's token validates at this moment
    req,    \* the request, Nil between requests
    done    \* the last operation this request performed, or Nil

accessVars == <<live, req, done>>

RpcScopes == {"crud", "budget"}       \* authz-api and authz-budget: `RpcScope`

AccessInit == live = FALSE /\ req = Nil /\ done = Nil

\* A request arrives at a server, with or without a bearer token (caller Nil).
\* `lapsed` remembers that the token was no good before its last validation.
Arrive ==
    /\ req = Nil
    /\ \E caller \in {Nil} \cup Callers, ok \in BOOLEAN, server \in RpcScopes :
         /\ caller = Nil => ~ok
         /\ live' = ok
         /\ \/ \E op \in OpIds :
                 req' = [surface |-> "unary", server |-> server, caller |-> caller, op |-> op,
                         at |-> "gate", left |-> 1, ctx |-> Nil, lapsed |-> ~ok]
            \/ req' = [surface |-> "batch", server |-> server, caller |-> caller, op |-> "batch",
                        at |-> "gate", left |-> MaxFrames, ctx |-> Nil, lapsed |-> ~ok]
            \/ /\ server = "crud"
               /\ \E tool \in Tools \cup {"unknown"} :
                    req' = [surface |-> "tool", server |-> server, caller |-> caller,
                            op |-> tool, at |-> "bearer", left |-> 1, ctx |-> Nil,
                            lapsed |-> ~ok]
    /\ UNCHANGED done

\* The token expires, or its key leaves the JWKS, while the request is under way.
Lapse ==
    /\ req # Nil /\ live
    /\ live' = FALSE
    /\ req' = [req EXCEPT !.lapsed = req.at \in {"gate", "provider", "bearer"}]
    /\ UNCHANGED done

\* The request is answered and forgotten, whatever the status.
Answer == req' = Nil /\ live' = FALSE /\ done' = Nil

Proceed(to) == req' = [req EXCEPT !.at = to] /\ UNCHANGED <<live, done>>

\* `rpc_authorize`, the middleware in front of dispatch: the guards in the
\* code's order (404, 403, 401, 403); a batch needs a valid token only.
rpc_authorize ==
    /\ req # Nil /\ req.at = "gate"
    /\ IF \/ req.surface = "batch" /\ live
          \/ /\ req.surface = "unary"
             /\ permits(req.server, req.op)
             /\ required_permission(req.op) # Nil
             /\ live
             /\ required_permission(req.op) \in PermissionsOf[req.caller]
       THEN Proceed("provider")
       ELSE Answer

\* `build_context`: the subject, the scope and one boolean per permission.
build_context(caller, scope) ==
    [id |-> caller, rpcScope |-> scope, perms |-> PermissionsOf[caller]]

\* Fault: dispatch relies on the middleware's validation.
TrustsTheGate ==
    /\ req # Nil /\ req.at = "provider"
    /\ req' = [req EXCEPT !.at = "dispatch", !.ctx = build_context(req.caller, req.server)]
    /\ UNCHANGED <<live, done>>

\* `CratestackAuthProvider::authenticate`: validates the token again; a batch is
\* authenticated once, for all its frames.
authenticate ==
    /\ req # Nil /\ req.at = "provider"
    /\ IF /\ live
          /\ req.surface = "unary" =>
               /\ permits(req.server, req.op)
               /\ required_permission(req.op) # Nil
               /\ required_permission(req.op) \in PermissionsOf[req.caller]
       THEN /\ req' = [req EXCEPT !.at = "dispatch",
                                  !.ctx = build_context(req.caller, req.server)]
            /\ UNCHANGED <<live, done>>
       ELSE Answer

\* The schema's allow clause of an operation, evaluated on the context: scope
\* and permission; for the roster rows, the caller's relation to the row only;
\* none, so never, for the verbs without a clause.
Clause(op, ctx) ==
    IF op \in {"ProjectMember.list", "ProjectMember.get"} THEN TRUE
    ELSE /\ required_permission(op) # Nil
         /\ permits(ctx.rpcScope, op)
         /\ required_permission(op) \in ctx.perms

Performs(via, does, who) ==
    \E target \in IF does.on = "own" THEN {who} ELSE Callers :
       done' = [via |-> via, does |-> does, target |-> target]

\* Generated dispatch of one operation (unary, or the next frame of a batch).
\* A read the clause refuses yields no rows, anything else is refused; so is an
\* input the procedure does not accept.  Frames fail one by one.
Dispatch ==
    /\ req # Nil /\ req.at = "dispatch" /\ req.left > 0
    /\ \E op \in IF req.surface = "batch" THEN OpIds ELSE {req.op} :
         LET allowed == op \in MappedOps \cup ModelVerbs /\ Clause(op, req.ctx) IN
         \/ allowed /\ Performs(op, Operation(op), req.ctx.id)
         \/ (allowed => op \in RefusesInput) /\ done' = Nil
    /\ req' = [req EXCEPT !.left = @ - 1]
    /\ UNCHANGED live

\* `bearer_auth`, in front of the MCP router: its token info travels with the call.
bearer_auth ==
    /\ req # Nil /\ req.at = "bearer"
    /\ IF live THEN Proceed("tool") ELSE Answer

\* `call_tool`: the tool's permission, then the tool; verbs meet their clause in
\* a context of scope `Crud`.
call_tool ==
    /\ req # Nil /\ req.at = "tool" /\ req.left > 0
    /\ LET needs == required_tool_permission(req.op)
           allowed == /\ needs # Nil
                      /\ needs \in PermissionsOf[req.caller]
                      /\ ToolTable[req.op].op \in ModelVerbs =>
                           Clause(ToolTable[req.op].op, build_context(req.caller, "crud")) IN
       \/ allowed /\ Performs(req.op, ToolTable[req.op], req.caller)
       \/ (allowed => req.op \in ToolRefusesInput) /\ done' = Nil
    /\ req' = [req EXCEPT !.left = 0]
    /\ UNCHANGED live

Replied == req # Nil /\ req.left = 0 /\ Answer

AccessNext == Arrive \/ Lapse \/ rpc_authorize \/ authenticate \/ Dispatch \/ bearer_auth
                \/ call_tool \/ Replied

AccessSpec == AccessInit /\ [][AccessNext]_accessVars

-----------------------------------------------------------------------------
(* Properties *)

\* What the configuration says, read without compiling it: one of the caller's
\* roles carries a grant that covers the permission.
Entitled(t, p) ==
    LET source == IF DOMAIN RolePermissions = {} THEN default_role_permissions
                                                 ELSE RolePermissions
        Covers(g) == g \in {<<"*">>, <<p[1], "*">>, p} IN
    \E r \in RolesOf[t] :
       \E g \in IF r \in DOMAIN source THEN source[r] ELSE DefaultGrants : Covers(g)

\* The permissions of the RPC operations that end in a given operation.
RightsTo(does) == {required_permission(op) : op \in {o \in MappedOps : Operation(o) = does}}

\* Whatever the surface - a unary call, a frame of a batch, an MCP tool - an
\* operation the RPC map knows is performed only for a caller whose configured
\* roles grant the permission that map asks for it, and by the service it
\* belongs to: budget operations by authz-budget and by nobody else, all others
\* by authz-api and the MCP server (`RpcScope`).
SameRightOnEverySurface ==
    done # Nil /\ RightsTo(done.does) # {} =>
      /\ \E p \in RightsTo(done.does) : Entitled(req.caller, p)
      /\ (\E p \in RightsTo(done.does) : p[1] = "budget")
           <=> (req.server = "budget" /\ req.surface # "tool")

\* Balances, grants, refill amounts, request histories and sessions of somebody
\* else are touched only with the permission for others' (budget:read,
\* budget:audit-read, session:revoke); the "own" permissions never reach them.
OwnPermissionsStayOwn ==
    done # Nil /\ done.target # req.caller =>
      /\ done.does.op = "get_balance" => Entitled(req.caller, <<"budget", "read">>)
      /\ done.does.op = "list_grants" => Entitled(req.caller, <<"budget", "audit-read">>)
      /\ done.does.op = "revoke_sessions" => Entitled(req.caller, <<"session", "revoke">>)
      /\ done.does.op \notin {"refill_status", "list_own_history"}

\* A token that stops validating before the request's last validation of it
\* performs nothing, even when the first gate has let the request through.
LapsedTokenDoesNothing == done # Nil => ~req.lapsed

=============================================================================
