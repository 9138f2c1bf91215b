# TLA+ verification of lightbridge-authz

This directory holds a formal model of lightbridge-authz: TLA+ modules translated
from the Rust sources, TLC configurations that check them on small instances, and
TLAPS proofs of the properties that matter most for every instance.  PROJECT.json
relates each definition to the source lines it models and lists the runs, the
mutants, the findings, the hazards and the theorems.

## 1. The system and its parts

lightbridge-authz serves accounts, projects, API keys and budgets of an AI gateway.
Several server processes share one Postgres database, and some of them Redis:

| server | role |
| --- | --- |
| authz-api | accounts, projects, members, API keys over RPC |
| authz-budget | budget ledger, refill requests, review queue, policy lifecycle |
| authz-idp | token exchange, refresh, revocation, JWKS, discovery |
| authz-opa | validation and introspection of keys for gateways |
| lightbridge-mcp | the operations of authz-api as MCP tools |
| authz-usage | usage ingest and queries; answers spend questions |

Apart from the spend question they interact through tables and not through messages:
`budget_grants` and `budget_balances` (the ledger and its projection),
`budget_augmentation_requests`, `budget_policy_sets` and `budget_policy_revisions`,
`exchange_refresh_tokens`, `api_keys`, `projects`, `accounts`, `project_members`,
`signing_keys`, `usage_events`.  A handler is a sequence of awaited statements, so
whatever is not inside one transaction interleaves with every other handler, in this
process or another, and can be cut short anywhere by a dropped connection, a
cancelled future or a restart.  The correctness of the system rests on row locks,
unique indexes, guarded updates, idempotency keys and advisory locks.  This is what
the models are about.

| part | modules | status |
| --- | --- | --- |
| budget ledger | Grants, AtomicLedger, BudgetLedger | modelled, proved |
| refill requests, review queue | RefillReview | modelled, proved |
| policy store | PolicyStore | modelled, proved |
| rule-data engine | RuleData | modelled |
| refresh-token sessions | RefreshChain | modelled, proved |
| accounts, projects, members | Tenancy | modelled, proved |
| API key lifecycle | ApiKeys | modelled |
| introspection, validation, key exchange | ApiKeys | partly |
| signing keys, JWKS | SigningKeys | modelled, proved (discovery text left out) |
| token exchange and claims, client assertions | TokenEndpoint | modelled, proved |
| RPC authorization, MCP tools | Access | modelled; tool schemas left out |
| spend reader, usage service | Usage | modelled; routing and some filters left out |
| paged lists | Pages | modelled |
| configuration, startup | Startup | partly; modelled from validation to listening |
| codec, headers, rate-limit buckets, generated types | | not modelled |

PROJECT.json has the full list with reasons, and the hazards: the places where an
interleaving, a crash, a retry or a boundary can go wrong and a test would hardly
reach.

## 2. Modules

| module | what it is |
| --- | --- |
| Grants | grant sources, the sign rule, and how one grant changes a balance |
| AtomicLedger | abstract: a ledger on which each keyed grant is posted once, at once |
| BudgetLedger | `BudgetRepo::grant` and `revoke_budget_grant`, statement by statement |
| RefillReview | `request_refill`, `approve`, `reject` over one account and period |
| PolicyStore | activation, rollback, drafts and startup: one database, an engine per process |
| RuleData | `validate`, `load` and `evaluate` of the rule-data engine |
| RefreshChain | refresh-token sessions: exchange, rotation, reuse, revocation |
| TokenEndpoint | the token and revocation endpoints: clients, assertions, scopes, claims |
| Tenancy | accounts, projects, rosters, default project, tiers, model lists and policy |
| ApiKeys | keys over Tenancy: create, rotate, revoke, delete, introspect |
| SigningKeys | bootstrap and rotation of the issuer's keys, the JWKS and its readers |
| Access | permissions, the gates in front of RPC and MCP, and what each operation reaches |
| Usage | telemetry to usage events, their queries, and the spend facts of a refill |
| Pages | cursor walks through grants, own requests and the review queue |
| Startup | from a configuration file to listening servers |
| BudgetLedgerProofs, RefreshChainProofs, TenancyProofs | the theorems about the module of that name |
| RefillRowProofs, RefillPayoutProofs, RefillReviewProofs | about RefillReview, each on top of the one before |
| ReplicaProofs | about PolicyStore and SigningKeys, the state every replica shares |
| EndpointProofs | about TokenEndpoint |
| Optional | the absent value several modules share |
| MC* | instances for TLC: sets of inputs, symmetry, and how parts share a run |

Operators named as faults ("Fault: ..." in their comment) are variants of an
operation with a plausible mistake.  No specification uses them.  Each is the
mutant that shows a property can fail: with the operation replaced by it, TLC finds
the property violated.

### BudgetLedger

State: `ledger` (committed `budget_grants` in commit order; a grant is identified
by its position), `balance` (`budget_balances`), the row locks and the call of each
caller with its uncommitted insert.  A call takes the steps of the transaction:
`Begin` (sign check), `LockRow` (create the row if missing, then `FOR UPDATE`),
`InsertGrant` (which waits while another transaction holds the key uncommitted),
`UpdateBalance` or, on a conflict, `SelectByIdempotencyKey`, and `Commit`.
`Rollback` can end it anywhere, and a commit may succeed while the caller sees an
error.  Callers retry freely.  Revocation reads a committed grant and posts its
negation under the key `revoke:{id}`.

AtomicLedger says what this promises: one step appends a grant and changes the
balance, a key already used changes nothing.  `ImplementsAtomicLedger` is that
specification under the identity mapping on `ledger` and `balance`.

### RefillReview, RuleData, Usage, Pages: the path of a refill

RefillReview has the request rows, the grants, the active policy, one job per
handler and one visit per reviewer, the advisory locks, and two history variables
(`abandoned`, `interrupted`) that record where a call was cut short.  A handler goes
from `Submit` (idempotency lookup, offered amounts) through `Create`, `LoadFacts`,
`Evaluate` and `Grant` to `RecordDecision`.  Each is one awaited call, so policies
change and other handlers run in between.  A grant is one atomic step, which is
what AtomicLedger justifies.  The policy is abstracted to what `evaluate` can
answer: an effect within a limit on the unaided count, an effect beyond it, a cap;
or, when a fact is missing or the node budget runs out, review or denial.

RuleData is that evaluation: the walk counts nodes through nested `all`/`any` and
across rules, stops at the first missing fact or at the budget, and takes the first
rule that holds.  The properties compare its decisions with reference definitions
that know nothing of order or budget: what a condition means, and what it means
under every value a missing fact could have had.

Usage is where two of the facts come from.  A record of every OTLP kind becomes an
event by the extraction rules (key priority, overriding attributes, token sums that
may overflow, missing timestamps); a batch is validated whole and stored by one
statement, with refusals, failing inserts and lost answers, after which the exporter
sends it again.  The spend reader asks for this month and, a step later, for the one
before, while events arrive and the month ends.  Money is counted in half
micro-dollars and time in instants, so that rounding and the last instant of a month
exist.

Pages walks the three paged lists.  A row's `created_at` is its transaction's start,
so rows become visible in another order than their timestamps'; reviews remove rows
from the queue between pages; each page may ask for another size.

### PolicyStore and Startup

PolicyStore has the rows of `budget_policy_revisions`, the active pointer, one engine
per process, the call of each admin.  `activate` is two steps: the transaction, then
`engine.load`.  A rollback is three: the read, the repoint, the load.  Rule data is
abstracted to a name and whether it validates; the first seeded row does not, since
it predates the required amounts.  `unreconciled` marks processes where a call was
cut short, or answered that database and engine disagree.

Startup follows every command of `main`: interpolation and validation of the
configuration, the connection with its retries, and the ordered steps of each
`start_*_server`, two of which share a process under `serve`.  The database fails and
comes back between any two steps, and a process that exited is restarted.

### Tenancy and ApiKeys

Tenancy has one row per account, project and roster entry.  One SQL statement is one
step: an operation of a single statement is one action, the lead-gated roster
operations (`authorize_project_lead` reads the project, then the roster; the write
follows) and the two transactions (`set_default_project`,
`set_project_model_policy`) are calls that others interleave with.  Rows a
transaction has written are locked; the partial unique index on the default flag
makes a promotion wait or fail.  Deletions cascade.  The history `led` records who
ever led which project.

ApiKeys runs beside those steps: creation behind the project check, rotation with
grace as one transaction after its reads, revocation, soft deletion, and
introspection, which reads the key, its project and its account one by one and then
tries the credential as an exchange token.  A JWT is its id with the claims it was
minted with.  The history `held` records what was true since a check began.

### SigningKeys

State: the key table, the advisory lock, one bootstrap per service, tokens, and a
verifier's cached JWKS.  A bootstrap stamps its candidate and its cutoff, waits for
the lock, reads the active row, and either keeps it or retires it and stores the
candidate; a service may die anywhere, which releases the lock.  Issuing reads the
active row and signs one step later.

### TokenEndpoint and RefreshChain

TokenEndpoint is one call from the client's side: credential extraction, client
authentication, the assertion's replay record in Redis, the prechecks of the
exchange, the subject token, the default project, membership, models and policy,
budget tier, quota tier, scopes and the mint; or the revocation.  Each read is a step
that may fail, and leads and operators write between them.  `seen` records what was
true since the call began.

RefreshChain is the life of the refresh token that results: the token table (client,
subject, chain, status, expiry, deadline, parent), the clock, each subject's standing
(membership, project, account), the calls in flight and what was delivered.  A refresh
is `Present`, `Consume` (the guarded update; the client and deadline checks follow at
once, and `Burn` is their failing), `ResolveContext`, `ReadProject`, `ReadAccount`,
`Rotate`.  A failed consume is `Miss`, `FindReused`, `RevokeChain`.  Any call may stop
anywhere.

### Access

The permission expansion of roles, the map from operation ids to permissions, the
table of MCP tools, and the operation each procedure, model verb and tool ends in are
transcribed as tables; the properties compare these tables with each other along the
steps of a request: the gate, the second validation, the clause the dispatch
evaluates, the checks of the procedure that depend on its input, frame after frame of
a batch.  The bearer token may lapse between any two validations.

## 3. Runs

A run answers one question about parts that interact.  Where a run holds several
parts that share no state in the code, the variable `focus`, chosen once, selects the
part that moves and the others rest: the parts are checked side by side, and states
are not multiplied.

| run | question | bounds |
| --- | --- | --- |
| MCBudgetLedger | do races, retries, revocations and lost answers keep the balance a replay of the ledger, answers durable and revocations exact; does it implement AtomicLedger; does every call return? | 2 callers, 2 rows, 1 client key or none, 3 calls, amounts 0 and 6, two sources |
| MCRefillPolicy | without keys: bounded overshoot, one payout per request, final verdicts, refused and paid only after an interrupted approval; and does the rule walk mean what the rules say, with facts missing and budgets tight? | 2 handlers, 2 reviewers, 2 policies, 3 requests, allowance 1; conditions of two levels, two rules, three node budgets |
| MCRefillPath | with concurrent submissions of one key: is a granted row backed by its own grant, every row decided, every lock released; is a known spend the real total of a month; does a walk return each row once? | 2 handlers, 2 reviewers, 1 row, 2 policies (one caps); 2 batches, 3 months of 2 instants, 2 exports; 4 rows, pages of 1 and 2 |
| MCRefreshChain | does a session live in one place only, and does it stay ended? | 3 tokens, 2 chains, 2 clients, 2 calls, clock 0..2 |
| MCTenancy | has an account with projects exactly one default; is the allowlist only switched on over entries? | 2 subjects, 3 projects, 2 calls, a tier and a model outside the catalogue |
| MCCredentials | had an active answer a moment that justified it; does no key outlive its ceiling; is one signing key active and every token verifiable? | 2 subjects, 1 project, 3 keys, a session, 2 key operations, 1 introspection, clock 0..1; 2 services with different ages, 3 key ids, clock 0..3 |
| MCServices | does every surface ask for the same right; does a server serve only equipped; does an engine serve only what was active; does every start end and every outage? | 5 callers, batches of 2, every operation and tool; every command under each configuration one field away from three working ones; 2 servers, 2 admins, 2 new revisions and an invalid one |
| MCSessions | was every claim true during the call; does membership alone decide; are assertions spent once; does a refresh rest on standing found during it, and does every session end? | 2 calls, a public and a confidential client, 1 assertion, 2 projects, 2 changes; 3 tokens, clock 0..3 |

Two actors meet in every race the code guards against.  The third request of
MCRefillPolicy is the least with which two handlers can overrun an allowance of one
by more than they may.  Three tokens are a token, its successor and a successor of
that, the shortest chain on which a reuse cascade has something left to revoke; three
key ids are two candidates beside an active key.  Two rows and one key are the least
for a wait across rows; three projects let one be promoted and one deleted while a
third is created; four rows make two full pages.  The months of MCRefillPath are
those around the turn of year 0, and MCFirstMonth asks for the first of them.
`MaxCalls`, `MaxRequests`, `MaxRevisions`, `MaxClock`, `LastTick`, `MaxSends`,
`MaxChanges`, `MaxAttempts` and `MaxOutages` bound what grows.  Deadlock checking is
off where all calls may have been made and nothing is left to do.  MCTenancy and
MCCredentials start some instances from a settled state (an account, its default
project, a roster entry), which a few creations reach.

Violation runs each check one statement made by a comment or a document of the
repository that the code does not keep.  The findings in PROJECT.json quote it.

| run | statement | what happens |
| --- | --- | --- |
| MCRefillRetry | one key submitted twice produces one grant | a second submission is evaluated beside the first; one is queued and approved, the other granted automatically |
| MCPolicyRace | the running server agrees with the last activation | two activations commit in one order and load in the other |
| MCPolicyRollback | a bad revision never displaces a good one | a rollback moves the pointer before anything validates the row |
| MCFirstMonth | every period has a month before it | a refill for 0000-01 panics after its row was created |

Other differences between text and code, visible in the models and without a run:

- An approval that stops after its grant leaves a pending row, which a rejection can
  then close; review.rs says nothing reads as refused while money moved.
  `RefusedAndPaidOnlyIfInterrupted` says that this is the only way.
- ADR-0008's "two rungs unaided" is a bound that concurrent requests pass
  (`OvershootBounded` says by how much).
- `record_decision` has no status guard, so of two submissions of one key the later
  decision stands; `DecisionsStand` is checked without keys only.
- authz-idp loads its engine once, at startup, while the comment at
  lightbridge-authz-rest/src/lib.rs:2663 says it "never drifts from what
  `activateBudgetPolicy` most recently activated".
- A page cursor is a timestamp alone.  lightbridge-authz-rest/src/lib.rs:314 calls the
  last entry "always the correct cursor"; with two rows of one instant (`Ties = TRUE`
  in Pages) a page boundary between them skips one.
- authz.cstack:269 says that nothing ever inserts a member of a default project;
  `add_project_member` does not look at the flag, and `set_default_project` promotes
  projects that have members.
- `current_tier` takes an amount off the ladder for the lowest rung, while
  oauth2_op/store.rs:89 promises such an amount an honest label.
- An assertion verified just before its `exp` and recorded at it gets the least replay
  record there is; `AssertionsSpentOnce` speaks of those recorded while valid.
- `create_revision` stores revisions that were never active, and a capped approval
  whose cap is not below the request approves all of it.

### Fairness

- BudgetLedger: strong fairness of each caller's own steps.  A step that waits for
  a row lock or a key is enabled again and again as holders finish, and Postgres
  queues waiters, so each one gets its turn.  No fairness is asked of clients,
  failures or lost acknowledgements.
- RefillReview: weak fairness of the steps of a handler or reviewer that has
  started: the executor polls what is ready, and once a reviewer has the advisory
  lock no step waits for anyone else.  Nobody has to submit or review, and nothing
  has to stop.
- PolicyStore: weak fairness of `Start`, the supervisor's restart of a process that
  is down.
- Startup: weak fairness of each process's own steps.  The database need not return:
  the connection attempts are counted.
- RefreshChain: weak fairness of the clock.

The other modules have safety properties only: their operations end by themselves or
are given up, and nothing in the code retries them.

## 4. Proofs

Eight modules hold theorems.  They are about the specifications the runs check, for any
sets of callers, rows, keys, handlers, tokens, subjects, services and so on.

| module | theorems |
| --- | --- |
| BudgetLedgerProofs | TypeCorrect; KeysUnique; AnswersDurable; RevocationsCompensate; RefinesAtomicLedger (BudgetLedger implements AtomicLedger); CountersExact |
| RefillRowProofs, RefillPayoutProofs | lemmas only: the invariants `TypeOK`, `BackedInv` and `PayoutInv`, step by step |
| RefillReviewProofs | TypeCorrect; OvershootIsBounded; GrantedRowsBackedAlways; OnePayoutAlways; RefusedAndPaidRarely; DecisionsStandAlways |
| ReplicaProofs | TypeCorrect; EngineServesOnceActive; ActiveRevisionLoads; SigningTypeCorrect; OneActiveKeyAlways; TermsFollow; KeysServeTheirTerm; TokensVerify |
| RefreshChainProofs | TypeCorrect; OneLiveSession; RefreshIsSingleUse; IdentityIsKept; CapHolds; EndedForGood; RefreshRevalidates |
| EndpointProofs | AssertionsSpentOnceAlways; MembershipDecidesAlways; ClaimsWereTrueAlways |
| TenancyProofs | TenancyTypeCorrect; OneDefaultAlways; CatalogueAlways; AllowlistNeverOverEmpty; RostersChangedByLeads |

Several of them state properties no run checks any more (the type invariants,
uniqueness of keys, single use, the terms of signing keys, the catalogue, the
rosters): the theorem covers every instance.

They rest on the named assumptions of the modules:

- `ConstantsAssumption`, `SigningAssumption`, `TenancyAssumption`: the absent values
  are no ordinary values, amounts and ages are integers, bounds are naturals.  Maximal
  key ages may be zero or negative, as the configuration allows.
- `KeysAssumption` (BudgetLedger): no key a client chooses has the form
  `revoke:{id}`.  The code does not enforce it; it is an assumption about inputs.
- `AllowanceAssumption` (RefillReview): policies auto-approve only while the unaided
  count is below a limit of at most `Allowance`, as the shipped policy does.
- `TokenEndpointAssumption`: requests name assertions and projects of the model, an
  assertion's `exp` is a natural, and there is a project to begin with.
- `OnePayoutAlways`, `RefusedAndPaidRarely` and `DecisionsStandAlways` assume that
  clients send no idempotency keys (`Keys = {}`).  With keys the first does not hold:
  that is what the run MCRefillRetry shows.
- `ActiveRevisionLoads` assumes that no rollback names the first seeded row; the run
  MCPolicyRollback shows what happens otherwise.

The arguments:

- **Ledger.**  Uniqueness of keys is not inductive: nothing in it says that a call
  about to commit an insert holds a key no one else has.  `IInv` adds that
  uncommitted inserts have their keys to themselves (`KeyReserved`), that a call in
  its transaction holds its row (`HoldsItsRow`), that what it will write is the
  committed row plus its own grant (`StagedFromCommitted`), what a replaying call
  has found, and that a revocation under way negates a committed grant.  For the
  refinement, every step but the commit of an update leaves `ledger` and `balance`
  alone, and that commit is a `Post`, since the lock kept the balance as the call
  read it.
- **Overshoot.**  `OvershootInv`: once the allowance is used up, the grants beyond
  it and the handlers that may still grant are together fewer than all handlers.
  The handler that used the last one is no longer among them, and no handler that
  reads the counter afterwards joins.
- **Refill rows.**  A row is written from what a handler or a review remembers, some
  statements after the grant it reports.  `BackedInv` says what that memory is worth:
  keys of grants are unique, every grant was made for the request it names
  (`EntrySound`), and a handler about to record holds a grant of its own row
  (`JobBacked`, `VisitBacked` for reviews).  Both tables only grow and grants never
  change, so what one caller remembers outlives the steps of the others.
- **Payouts.**  Without keys a handler never finds another's row.  `RowOwned` says so,
  and that nobody has decided on the row or paid for it but the handler itself;
  `LockedVisit`, that a review holds its row's advisory lock and that the row it read
  as pending still is; `PaidOnce` says of every row which grants its status allows.
  The crucial case is an approval that finds its row paid: only an interrupted
  approval can have done that, under the same key, so the ledger replays the grant.
- **Policy store.**  The content a call carries to `engine.load` is that of the row
  it made active, so what is swapped in was active once; a row is never changed.
- **Refresh chains.**  `OneLive` speaks of tokens and of calls between consume and
  insert together, since such a call is where the session lives meanwhile.  The
  crucial strengthening, `RefreshInv`, relates those calls to rows: the token held
  is rotated, belongs to the caller's client, was read within its deadline and has no
  successor yet.  `ParentInv` and `CapInv` relate successors to their parents.  Most
  steps change nothing these mention; one lemma (`QuietPreserves`) deals with all
  of them and leaves `Consume`, `StoreToken` and `Rotate`.  `StandingChecked` needs
  a history argument of its own, `SeenInv`: what each stage of a call in flight has
  seen since it began.
- **Token endpoint.**  A claim is read at one moment, and the token minted at another,
  with anything written in between.  `seen`, the worlds of a call so far, only grows,
  so `GatherInv` can say stage by stage what has been gathered and that some world of
  the call agrees with it; one lemma (`ChangeKeeps`) deals with all that others write.
  A deleted project has no members (`WorldInv`): without it, membership alone would
  not account for a denial.  For assertions, `CallerInv` says that one which has
  authenticated a request stays spent until its `exp`, whatever Redis did since:
  hence `SpentOnce`, and through `Proven` what a revocation's caller had shown.
- **Signing keys.**  Only `ensure_active_signing_key` writes the table, but what it
  writes was stamped before it had the lock.  `KeyInv` says that births are distinct,
  that the active row is the newest and that a stale row ended at a later row's birth;
  `BootInv` ties a transaction that will rotate to the rows it read: every active row
  was born by its cutoff, which precedes its candidate's birth by at least a day.
  Hence the candidate is strictly the youngest, and the table it leaves has one active
  row.  Rows are never removed, so a JWKS fetched after a token's issue lists its key
  (`TokenInv`).
- **Tenancy.**  `ExactlyOneDefault` must survive a transaction that first unsets one
  row and later sets another.  `LockInv` says which rows such a call has locked and
  that they are still its account's; a promotion then either finds no other default
  or clashes and rolls back.  The same invariant carries the allowlist check from the
  read to the write: the row is locked in between.  Roster calls hold no lock;
  `CallInv` keeps what was validated, and that the caller led the project when it was
  authorized (`led` only grows, `LedInv`).  Deletions are one lemma (`RemovalInv`)
  about removing a set of projects with what refers to them.

Only model-checked: liveness (`EveryCallReturns`, `DecidedUnlessAbandoned`,
`ReviewLockReleased`, `OutageEnds`, `EveryStartSettles`, `SessionsEnd`), which is
beyond the prover; `BalanceIsReplayOfLedger`, whose sums over the ledger need
induction over data; RuleData, whose definitions are recursive; Usage and Pages,
which fold over rows and sort them; the tables of Access and Startup, which are
finite and explored entirely up to the bounds; and the ceiling and introspection
properties of ApiKeys.

## 5. Not modelled, and why

- Codecs, HTTP routing and headers, tracing, CORS, the discovery document, tool
  schemas and response conversions take part in no shared state.
- Rate limiting lives in a library and in Redis; the source only configures it.
  Signature arithmetic and the JWKS cache's HTTP are libraries' too; what a cached
  copy may contain is in SigningKeys.
- Generated types and migrations: the constraints they create (unique indexes,
  foreign keys, cascades) are in the actions of Tenancy, ApiKeys, BudgetLedger and
  RefreshChain.
- Text forms of periods, amounts and identifiers; calendar arithmetic beyond months.
- Of the dashboard query, the filters other than the scope: they are one generic
  conjunct per column.
- The stores of OAuth flows that are never enabled (noop_stores.rs) refuse everything.
- The size of the connection pool and the loss of the review lock's connection alone
  are listed as hazards without a property: a wait that times out there is one of the
  ways a call may stop, which the models have everywhere.
