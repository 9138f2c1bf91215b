----------------------------- MODULE SigningKeys -----------------------------
(***************************************************************************)
(* The issuer's RS256 keys: every service that signs bootstraps the key    *)
(* table when it starts (authz-api, lightbridge-mcp, authz-idp; several    *)
(* replicas of each), every issuance reads the active row, the JWKS lists  *)
(* active and stale rows, and a resource server verifies against its       *)
(* cached copy of that list.                                               *)
(***************************************************************************)
EXTENDS Optional, Integers

CONSTANTS
    Services,    \* processes that bootstrap: a starting replica each
    Kids,        \* key ids a generated pair may get
    Tokens,      \* JWTs issued
    MaxKeyAge,   \* MaxKeyAge[s]: oauth2.signing.max_key_age_days of s
    TokenTtl,    \* oauth2.signing.ttl_seconds
    CacheTtl,    \* DEFAULT_JWKS_CACHE_TTL
    LastTick

Rows == [status : {"active", "stale"}, created : Int, retired : Int \cup {Nil}]

ASSUME SigningAssumption ==
    /\ MaxKeyAge \in [Services -> Int]
    /\ {TokenTtl, CacheTtl, LastTick} \subseteq Nat
    /\ TokenTtl > 0                       \* ApiKeyJwtSigner::from_config refuses others
    /\ Nil \notin Services \cup Kids \cup Tokens \cup Int
    /\ Nil \notin Rows

VARIABLES
    rows,        \* signing_keys: rows[k], or Nil
    advisory,    \* the holder of SIGNING_KEY_LOCK, or Nil
    boots,       \* boots[s]: the bootstrap in progress
    tokens,      \* tokens[t]: being signed or issued, or Nil
    cache,       \* a verifier's JwksCache
    clock

signingVars == <<rows, advisory, boots, tokens, cache, clock>>

Stopped == [at |-> "down"]
Active == {k \in Kids : rows[k] # Nil /\ rows[k].status = "active"}
Generated == {boots[s].kid : s \in {r \in Services : boots[r].at \in {"waiting", "locked"}}}
MaxOf(a, b) == IF a > b THEN a ELSE b

SigningInit ==
    /\ rows = [k \in Kids |-> Nil]
    /\ advisory = Nil
    /\ boots = [s \in Services |-> Stopped]
    /\ tokens = [t \in Tokens |-> Nil]
    /\ cache = Nil
    /\ clock = 0

-----------------------------------------------------------------------------
(* Bootstrap *)

Cutoff(s) == clock - MaxOf(MaxKeyAge[s], 1)

\* bootstrap_signing_key: the clock is read, the cutoff computed and the
\* candidate generated before the lock is asked for.
bootstrap_signing_key(s, k) ==
    /\ boots[s] = Stopped
    /\ rows[k] = Nil /\ k \notin Generated
    /\ boots' = [boots EXCEPT ![s] =
         [at |-> "waiting", kid |-> k, created |-> clock, cutoff |-> Cutoff(s)]]
    /\ UNCHANGED <<rows, advisory, tokens, cache, clock>>

\* Fault: the row is read without waiting for the advisory lock.
ReadUnlocked(s) ==
    /\ boots[s].at = "waiting"
    /\ LET old == Active IN
         boots' = [boots EXCEPT ![s] =
           IF \E k \in old : rows[k].created > @.cutoff THEN [at |-> "up"]
           ELSE [at |-> "locked", kid |-> @.kid, created |-> @.created,
                 old |-> old]]
    /\ UNCHANGED <<rows, advisory, tokens, cache, clock>>

\* ensure_active_signing_key up to the decision: the transaction's lock, the
\* active row; a young enough key ends it.
needs_rotation(s) ==
    /\ boots[s].at = "waiting"
    /\ advisory = Nil
    /\ LET old == Active IN
         IF \E k \in old : rows[k].created > boots[s].cutoff
         THEN /\ boots' = [boots EXCEPT ![s] = [at |-> "up"]]
              /\ UNCHANGED advisory
         ELSE /\ boots' = [boots EXCEPT ![s] =
                   [at |-> "locked", kid |-> @.kid, created |-> @.created,
                    old |-> old]]
              /\ advisory' = s
    /\ UNCHANGED <<rows, tokens, cache, clock>>

ActiveSince(at) == [status |-> "active", created |-> at, retired |-> Nil]
RetiredAt(row, at) == [status |-> "stale", created |-> row.created, retired |-> at]

\* The rest of the transaction: the old row stale as of the candidate's birth,
\* the candidate inserted, commit; idx_signing_keys_single_active would refuse
\* a second active row and the service would not start.
ensure_active_signing_key(s) ==
    /\ boots[s].at = "locked"
    /\ LET b == boots[s]  clash == Active \ b.old # {} IN
         /\ rows' = IF clash THEN rows ELSE
              [k \in Kids |->
                 IF k \in b.old THEN RetiredAt(rows[k], b.created)
                 ELSE IF k = b.kid THEN ActiveSince(b.created) ELSE rows[k]]
         /\ boots' = [boots EXCEPT ![s] = IF clash THEN Stopped ELSE [at |-> "up"]]
    /\ advisory' = IF advisory = s THEN Nil ELSE advisory
    /\ UNCHANGED <<tokens, cache, clock>>

\* A process dies (also in the middle of the transaction, which rolls back and
\* frees the lock) and may be started again.
Killed(s) ==
    /\ boots[s] # Stopped
    /\ boots' = [boots EXCEPT ![s] = Stopped]
    /\ advisory' = IF advisory = s THEN Nil ELSE advisory
    /\ UNCHANGED <<rows, tokens, cache, clock>>

-----------------------------------------------------------------------------
(* Issuing and verifying *)

\* `token_manager`: one read of the active row for a whole response.
token_manager(s, t) ==
    /\ boots[s].at = "up"
    /\ tokens[t] = Nil
    /\ \/ \E k \in Active : tokens' = [tokens EXCEPT ![t] = [at |-> "signing", kid |-> k]]
       \/ Active = {} /\ tokens' = [tokens EXCEPT ![t] = [at |-> "failed"]]
    /\ UNCHANGED <<rows, advisory, boots, cache, clock>>

\* `sign`: the JWT, by the key read before; a rotation may lie in between.
sign(t) ==
    /\ tokens[t] # Nil /\ tokens[t].at = "signing"
    /\ tokens' = [tokens EXCEPT ![t] =
         [at |-> "issued", kid |-> @.kid, iat |-> clock, exp |-> clock + TokenTtl]]
    /\ UNCHANGED <<rows, advisory, boots, cache, clock>>

\* Fault: only the active key is published.
ActiveOnly == Active

\* `list_verification_jwks`, as /.well-known/jwks.json serves it: every row.
list_verification_jwks == {k \in Kids : rows[k] # Nil}

\* The verifier's JWKS cache fetches when it holds nothing or what it holds is
\* CacheTtl old.
JwksFetched ==
    /\ cache # Nil => clock - cache.at >= CacheTtl
    /\ cache' = [keys |-> list_verification_jwks, at |-> clock]
    /\ UNCHANGED <<rows, advisory, boots, tokens, clock>>

\* What `validate_bearer_token` makes of a token now: its kid in the cache (no
\* fallback to another key), the signature, exp.
validate_bearer_token(t) ==
    /\ tokens[t] # Nil /\ tokens[t].at = "issued"
    /\ cache # Nil
    /\ tokens[t].kid \in cache.keys
    /\ tokens[t].exp > clock

ClockTick ==
    /\ clock < LastTick
    /\ clock' = clock + 1
    /\ UNCHANGED <<rows, advisory, boots, tokens, cache>>

SigningNext ==
    \/ \E s \in Services :
         \/ \E k \in Kids : bootstrap_signing_key(s, k)
         \/ needs_rotation(s)
         \/ ensure_active_signing_key(s)
         \/ Killed(s)
         \/ \E t \in Tokens : token_manager(s, t)
    \/ \E t \in Tokens : sign(t)
    \/ JwksFetched
    \/ ClockTick

SigningSpec == SigningInit /\ [][SigningNext]_signingVars

-----------------------------------------------------------------------------
(* Properties *)

Boots ==
    [at : {"down", "up"}]
      \cup [at : {"waiting"}, kid : Kids, created : Int, cutoff : Int]
      \cup [at : {"locked"}, kid : Kids, created : Int, old : SUBSET Kids]

\* Type invariant; the advisory lock is held exactly while a transaction that
\* will activate a key is open.
SigningTypeOK ==
    /\ \A k \in Kids : rows[k] = Nil \/ rows[k] \in Rows
    /\ advisory = Nil \/ advisory \in Services
    /\ \A s \in Services :
         /\ boots[s] \in Boots
         /\ advisory = s <=> boots[s].at = "locked"
    /\ clock \in 0 .. LastTick

\* However many services with whatever maximal ages bootstrap and crash at
\* once, there are never two active keys, and a transaction about to activate
\* its key still finds exactly the active row it read, so that no service is
\* refused by the unique index; and a service that is up always finds a key to
\* sign with.
OneActiveKey ==
    /\ \A j, k \in Active : j = k
    /\ \A s \in Services : boots[s].at = "locked" => Active = boots[s].old
    /\ (\E s \in Services : boots[s].at = "up") => Active # {}
    /\ \A t \in Tokens : tokens[t] # Nil => tokens[t].at # "failed"

\* The keys' terms follow one another: a stale key was retired at the birth of
\* exactly one other key, after its own, so no two terms overlap although a
\* candidate's birth is stamped before the lock is taken.
TermsChain ==
    \A k \in Kids : rows[k] # Nil =>
        /\ rows[k].status = "active" <=> rows[k].retired = Nil
        /\ rows[k].status = "stale" =>
             /\ rows[k].created < rows[k].retired
             /\ \E j \in Kids : {i \in Kids : rows[i] # Nil /\ rows[i].created = rows[k].retired} = {j}

\* No key is retired before it has been in service for a day, and for the least
\* maximal age any service is configured with.
NoPrematureRetirement ==
    [][\A k \in Kids :
         (k \in Active /\ k \notin Active') =>
            \E s \in Services : clock - rows[k].created >= MaxOf(MaxKeyAge[s], 1)]_signingVars

\* A verifier that has fetched the JWKS since a token was issued accepts it for
\* as long as the token lives, whatever was rotated before or after.
IssuedTokensVerify ==
    \A t \in Tokens :
        (tokens[t] # Nil /\ tokens[t].at = "issued" /\ cache # Nil) =>
            ((cache.at > tokens[t].iat /\ tokens[t].exp > clock) => validate_bearer_token(t))
=============================================================================
