----------------------------- MODULE RefreshChain -----------------------------
(***************************************************************************)
(* Sessions of the native token endpoint: the refresh tokens of            *)
(* exchange_refresh_tokens and the chains they form.  A token exchange     *)
(* that grants offline access starts a chain; each refresh consumes a      *)
(* token, re-validates its subject and inserts a successor                 *)
(* (rest/src/oauth2_op/store.rs, api-key/src/repo.rs).  A chain is ended   *)
(* by log-out, by the client's revocation, or by the cascade that follows  *)
(* when a token that was already exchanged is presented again.             *)
(*                                                                         *)
(* Each database call is one step.  A token stands for its plaintext and   *)
(* its hash; a subject has one project, whose account need not be theirs.  *)
(***************************************************************************)
EXTENDS Optional, Naturals

CONSTANTS
    Tokens,        \* secrets generate_refresh_secret draws, each once
    Chains,        \* chain ids
    Subjects,
    Clients,       \* registered OAuth clients
    Calls,         \* requests the token endpoint serves at once
    RefreshTtl,    \* refresh_ttl_seconds
    AbsoluteTtl,   \* refresh_absolute_ttl_seconds
    Changing,      \* bound: what of a subject's standing changes
    LastLogin,     \* bound: no exchange starts after this time
    MaxClock       \* bound on the clock

ASSUME ConstantsAssumption ==
    /\ Nil \notin Tokens \union Clients \union Subjects
    /\ Changing \subseteq {"member", "project", "account"}
    /\ RefreshTtl \in Nat /\ AbsoluteTtl \in Nat
    /\ LastLogin \in Nat /\ MaxClock \in Nat

\* What a refresh requires of its subject: a place on the project, an active
\* project and an active account.
Facets == {"member", "project", "account"}

Row == [status : {"active", "rotated", "revoked"}, chain : Chains, subject : Subjects,
        client : Clients, created_at : Nat, expires_at : Nat, chain_expires_at : Nat,
        parent : Tokens \union {Nil}]

Rotating == {"consumed", "member", "project", "account"}
Stages == Rotating \union {"idle", "exchange", "presented", "missed", "reused"}

Call == [at : Stages, token : Tokens \union {Nil}, client : Clients \union {Nil},
         subject : Subjects \union {Nil}, now : Nat, seen : SUBSET Facets]

VARIABLES
    clock,
    row,           \* exchange_refresh_tokens, by token
    delivered,     \* tokens that reached their client
    standing,      \* the facets each subject has
    call           \* where each request is, and its locals; seen is a history:
                   \* the facets its subject has had since the token was consumed

vars == <<clock, row, delivered, standing, call>>

NoCall == [at |-> "idle", token |-> Nil, client |-> Nil, subject |-> Nil, now |-> 0, seen |-> {}]

Init ==
    /\ clock = 0
    /\ row = [t \in {} |-> NoCall]
    /\ delivered = {}
    /\ standing = [s \in Subjects |-> Facets]
    /\ call = [c \in Calls |-> NoCall]

-------------------------------------------------------------------------------
Return(c) == call' = [call EXCEPT ![c] = NoCall]
GoTo(c, stage) == call' = [call EXCEPT ![c].at = stage]

\* INSERT INTO exchange_refresh_tokens; the answer may be lost after it.
Insert(t, r) ==
    /\ row' = [u \in DOMAIN row \union {t} |-> IF u = t THEN r ELSE row[u]]
    /\ delivered' \in {delivered, delivered \union {t}}

\* UPDATE ... SET status = 'revoked' WHERE status = 'active' AND ...
Revoke(ts) ==
    row' = [t \in DOMAIN row |-> IF t \in ts /\ row[t].status = "active"
                                 THEN [row[t] EXCEPT !.status = "revoked"] ELSE row[t]]

\* The token-exchange grant, up to the clock reading behind its claims.
Exchange(c, k, s) ==
    /\ call[c].at = "idle"
    /\ clock <= LastLogin
    /\ "member" \in standing[s]
    /\ call' = [call EXCEPT ![c] = [NoCall EXCEPT !.at = "exchange", !.client = k, !.subject = s,
                                                  !.now = clock]]
    /\ UNCHANGED <<clock, row, delivered, standing>>

FirstToken(c, ch) ==
    [status |-> "active", chain |-> ch, subject |-> call[c].subject, client |-> call[c].client,
     created_at |-> clock, expires_at |-> call[c].now + RefreshTtl,
     chain_expires_at |-> call[c].now + AbsoluteTtl, parent |-> Nil]

StoreToken(c) ==
    /\ call[c].at = "exchange"
    /\ \E t \in Tokens \ DOMAIN row, ch \in Chains \ {row[u].chain : u \in DOMAIN row} :
          Insert(t, FirstToken(c, ch))
    /\ Return(c)
    /\ UNCHANGED <<clock, standing>>

-------------------------------------------------------------------------------
\* The refresh grant, up to its clock reading.
Present(c, k, t) ==
    /\ call[c].at = "idle"
    /\ t \in delivered
    /\ call' = [call EXCEPT ![c] = [NoCall EXCEPT !.at = "presented", !.token = t, !.client = k,
                                                  !.now = clock]]
    /\ UNCHANGED <<clock, row, delivered, standing>>

\* Fault: the update does not look at the status.
AnyStatusConsumable(t, now) == row[t].expires_at > now

\* Fault: only a rotated token is refused.
UnrotatedConsumable(t, now) == row[t].status # "rotated" /\ row[t].expires_at > now

\* WHERE status = 'active' AND expires_at > now.
Consumable(t, now) == row[t].status = "active" /\ row[t].expires_at > now

Consumed(c) ==
    /\ call[c].at = "presented"
    /\ Consumable(call[c].token, call[c].now)
    /\ row' = [row EXCEPT ![call[c].token].status = "rotated"]
    /\ UNCHANGED <<clock, delivered, standing>>

\* The checks on the row just consumed: its own client, within the chain's cap.
Honored(c) ==
    /\ row[call[c].token].client = call[c].client
    /\ call[c].now < row[call[c].token].chain_expires_at

Consume(c) ==
    /\ Consumed(c)
    /\ Honored(c)
    /\ call' = [call EXCEPT ![c].at = "consumed", ![c].seen = standing[row[call[c].token].subject]]

\* The token is spent although the refresh is refused.
Burn(c) ==
    /\ Consumed(c)
    /\ ~Honored(c)
    /\ Return(c)

Miss(c) ==
    /\ call[c].at = "presented"
    /\ ~Consumable(call[c].token, call[c].now)
    /\ GoTo(c, "missed")
    /\ UNCHANGED <<clock, row, delivered, standing>>

\* One of the three reads that re-validate the subject; a facet that is
\* missing ends the call, as Stop.
Revalidate(c, from, facet) ==
    /\ call[c].at = from
    /\ facet \in standing[row[call[c].token].subject]
    /\ GoTo(c, facet)
    /\ UNCHANGED <<clock, row, delivered, standing>>

ResolveContext(c) == Revalidate(c, "consumed", "member")
ReadProject(c) == Revalidate(c, "member", "project")

\* Fault: the account is read and its status not looked at.
UncheckedReadAccount(c) ==
    /\ call[c].at = "project"
    /\ GoTo(c, "account")
    /\ UNCHANGED <<clock, row, delivered, standing>>

ReadAccount(c) == Revalidate(c, "project", "account")

\* Fault: every rotation starts the cap anew.
RenewedSuccessor(c) ==
    LET old == row[call[c].token]
    IN  [status |-> "active", chain |-> old.chain, subject |-> old.subject, client |-> call[c].client,
         created_at |-> call[c].now, expires_at |-> call[c].now + RefreshTtl,
         chain_expires_at |-> call[c].now + AbsoluteTtl, parent |-> call[c].token]

\* The row that replaces the one consumed: chain and cap are inherited.
Successor(c) ==
    LET old == row[call[c].token]
    IN  [status |-> "active", chain |-> old.chain, subject |-> old.subject, client |-> call[c].client,
         created_at |-> call[c].now, expires_at |-> call[c].now + RefreshTtl,
         chain_expires_at |-> old.chain_expires_at, parent |-> call[c].token]

Rotate(c) ==
    /\ call[c].at = "account"
    /\ \E t \in Tokens \ DOMAIN row : Insert(t, Successor(c))
    /\ Return(c)
    /\ UNCHANGED <<clock, standing>>

\* revoke_chain_on_reuse: the row is read again, and only a rotated one ends
\* its chain.
FindReused(c) ==
    /\ call[c].at = "missed"
    /\ row[call[c].token].status = "rotated"
    /\ GoTo(c, "reused")
    /\ UNCHANGED <<clock, row, delivered, standing>>

RevokeChain(c) ==
    /\ call[c].at = "reused"
    /\ Revoke({t \in DOMAIN row : row[t].chain = row[call[c].token].chain})
    /\ Return(c)
    /\ UNCHANGED <<clock, delivered, standing>>

\* The call is refused, meets a storage error, or is dropped with its
\* connection or its process.
Stop(c) ==
    /\ call[c].at # "idle"
    /\ Return(c)
    /\ UNCHANGED <<clock, row, delivered, standing>>

-------------------------------------------------------------------------------
\* POST /oauth2/revoke: of another client's token, nothing is revoked.
RevokeToken(k, t) ==
    /\ t \in delivered
    /\ row[t].client = k
    /\ Revoke({t})
    /\ UNCHANGED <<clock, delivered, standing, call>>

\* revokeOwnSessions and revokeSubjectSessions.
RevokeSessions(s) ==
    /\ Revoke({t \in DOMAIN row : row[t].subject = s})
    /\ UNCHANGED <<clock, delivered, standing, call>>

RefreshOf(c, s) == call[c].at \in Rotating /\ row[call[c].token].subject = s

\* A roster change, or a suspension or resumption of the project or account.
ChangeStanding(s, f) ==
    /\ standing' = [standing EXCEPT ![s] = IF f \in @ THEN @ \ {f} ELSE @ \union {f}]
    /\ call' = [c \in Calls |-> IF RefreshOf(c, s)
                                THEN [call[c] EXCEPT !.seen = @ \union standing'[s]] ELSE call[c]]
    /\ UNCHANGED <<clock, row, delivered>>

Tick ==
    /\ clock < MaxClock
    /\ clock' = clock + 1
    /\ UNCHANGED <<row, delivered, standing, call>>

CallStep(c) ==
    \/ \E k \in Clients, s \in Subjects : Exchange(c, k, s)
    \/ \E k \in Clients, t \in Tokens : Present(c, k, t)
    \/ StoreToken(c) \/ Consume(c) \/ Burn(c) \/ Miss(c)
    \/ ResolveContext(c) \/ ReadProject(c) \/ ReadAccount(c) \/ Rotate(c)
    \/ FindReused(c) \/ RevokeChain(c) \/ Stop(c)

Next ==
    \/ \E c \in Calls : CallStep(c)
    \/ \E k \in Clients, t \in Tokens : RevokeToken(k, t)
    \/ \E s \in Subjects : RevokeSessions(s)
    \/ \E s \in Subjects, f \in Changing : ChangeStanding(s, f)
    \/ Tick

Spec == Init /\ [][Next]_vars

\* Time passes; no call is assumed to make progress.
FairSpec == Spec /\ WF_vars(Tick)

-------------------------------------------------------------------------------
\* The rows, the calls and the standings have their types; every token that
\* was delivered or is being rotated is in the table.
TypeOK ==
    /\ clock \in Nat
    /\ DOMAIN row \subseteq Tokens /\ row \in [DOMAIN row -> Row]
    /\ delivered \subseteq DOMAIN row
    /\ standing \in [Subjects -> SUBSET Facets]
    /\ call \in [Calls -> Call]
    /\ \A c \in Calls : call[c].at \in Stages \ {"idle", "exchange"} =>
          call[c].token \in DOMAIN row /\ call[c].client \in Clients
    /\ \A c \in Calls : call[c].at = "exchange" => call[c].subject \in Subjects /\ call[c].client \in Clients

Active(t) == row[t].status = "active"
InFlight(c) == call[c].at \in Rotating
ChainOf(c) == row[call[c].token].chain

\* A session is one thing: of a chain there is at most one active token, or
\* one refresh under way that will insert it, and never both, however many
\* requests present the same token at once (consume_exchange_refresh_token).
OneLive ==
    /\ \A t, u \in DOMAIN row : Active(t) /\ Active(u) /\ row[t].chain = row[u].chain => t = u
    /\ \A c \in Calls, t \in DOMAIN row : InFlight(c) /\ Active(t) => ChainOf(c) # row[t].chain
    /\ \A c, d \in Calls : InFlight(c) /\ InFlight(d) /\ ChainOf(c) = ChainOf(d) => c = d

\* A refresh token is single-use: no two rows replace the same one, whatever
\* is retried, dropped or presented twice.
SingleSuccessor ==
    \A t, u \in DOMAIN row : row[t].parent = row[u].parent /\ row[t].parent # Nil => t = u

\* handle_refresh_token carries a chain on as it was born: every token of it
\* has the same subject, client and absolute cap.
ChainKeepsIdentity ==
    \A t, u \in DOMAIN row : row[t].chain = row[u].chain =>
        /\ row[t].subject = row[u].subject
        /\ row[t].client = row[u].client
        /\ row[t].chain_expires_at = row[u].chain_expires_at

\* The absolute cap: no refresh extends a session that is refresh_absolute_ttl
\* older than its first token, no matter how often it was rotated.
WithinCap ==
    \A t, u \in DOMAIN row :
        row[t].chain = row[u].chain /\ row[u].parent = Nil /\ row[t].parent # Nil =>
            row[t].created_at < row[u].created_at + AbsoluteTtl

Born(ch) == \E t \in DOMAIN row : row[t].chain = ch
Ended(ch) ==
    /\ \A t \in DOMAIN row : row[t].chain = ch => ~Active(t)
    /\ \A c \in Calls : InFlight(c) => ChainOf(c) # ch

\* A chain with neither an active token nor a refresh under way (after a
\* log-out, a revocation, a cascade or a refused refresh) never comes back.
EndedStaysEnded == [][\A ch \in Chains : Born(ch) /\ Ended(ch) => Ended(ch)']_vars

\* A successor is inserted only for a subject who, since the presented token
\* was consumed, has been on the project and had it and its account active.
StandingChecked ==
    [][\A c \in Calls : call[c].at = "account" /\ row' # row /\ call'[c].at = "idle" =>
            call[c].seen = Facets]_vars

\* A token that a refresh would still be granted for.
Usable(t) == Active(t) /\ clock < row[t].expires_at /\ clock < row[t].chain_expires_at

\* Every session ends, however eagerly it is refreshed.
SessionsEnd == <>[](\A t \in DOMAIN row : ~Usable(t))
===============================================================================
