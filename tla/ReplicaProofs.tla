---------------------------- MODULE ReplicaProofs ----------------------------
(***************************************************************************)
(* What the replicas of a service share and each may lose with a crash:    *)
(* the signing keys and the active policy.                                 *)
(*                                                                         *)
(* SigningKeys, for any services, maximal ages, key ids, tokens and        *)
(* lifetimes.  Only ensure_active_signing_key writes the key table.  What  *)
(* keeps its write sound is decided earlier: the candidate's birth and the *)
(* cutoff are stamped before the lock is asked for, so the invariant says  *)
(* how both relate to the rows a transaction has read (BootInv), and that  *)
(* the active row is the newest and the births are distinct (KeyInv).      *)
(*                                                                         *)
(* PolicyStore, for any servers, admins, documents and bound: every engine *)
(* serves a document that has been active and validates, and as long as    *)
(* rollbacks name only revisions that validate, so does the active one.    *)
(***************************************************************************)
EXTENDS SigningKeys, PolicyStore, TLAPS

Row(k) == rows[k] # Nil
Generating(s) == boots[s].at \in {"waiting", "locked"}
Least(s) == MaxOf(MaxKeyAge[s], 1)

TokenRecords ==
    [at : {"signing"}, kid : Kids]
      \cup [at : {"issued"}, kid : Kids, iat : Int, exp : Int]
      \cup [at : {"failed"}]

\* Types, also of what SigningTypeOK leaves open.
TypeInv ==
    /\ rows \in [Kids -> Rows \cup {Nil}]
    /\ boots \in [Services -> Boots]
    /\ tokens \in [Tokens -> TokenRecords \cup {Nil}]
    /\ cache \in [keys : SUBSET Kids, at : Int] \cup {Nil}
    /\ clock \in 0 .. LastTick
    /\ advisory \in Services \cup {Nil}
    /\ \A s \in Services : advisory = s <=> boots[s].at = "locked"

\* The key table: one active row, the newest; no two births at one instant; a
\* stale row was retired at the birth of a later one.
KeyInv ==
    /\ \A j, k \in Kids : Row(j) /\ Row(k) /\ rows[j].created = rows[k].created => j = k
    /\ \A j, k \in Kids : Row(j) /\ k \in Active => rows[j].created <= rows[k].created
    /\ \A k \in Kids : Row(k) => Active # {}
    /\ \A k \in Kids : Row(k) /\ rows[k].status = "active" => rows[k].retired = Nil
    /\ \A k \in Kids : Row(k) /\ rows[k].status = "stale" =>
         /\ rows[k].retired \in Int
         /\ rows[k].created < rows[k].retired
         /\ \E j \in Kids : Row(j) /\ rows[j].created = rows[k].retired

\* A bootstrap's candidate is nobody else's and not yet stored; it is younger
\* than its cutoff by the service's maximal age, and a transaction that will
\* rotate found every active row born by the cutoff.
BootInv ==
    \A s \in Services :
      /\ Generating(s) =>
           /\ ~Row(boots[s].kid)
           /\ boots[s].created <= clock
           /\ \A r \in Services : Generating(r) /\ boots[r].kid = boots[s].kid => r = s
      /\ boots[s].at = "waiting" => boots[s].cutoff = boots[s].created - Least(s)
      /\ boots[s].at = "locked" =>
           /\ boots[s].old = Active
           /\ \A k \in Active : rows[k].created <= boots[s].created - Least(s)
      /\ boots[s].at = "up" => Active # {}

\* A token's key has a row, and is in every JWKS fetched later than its issue.
TokenInv ==
    /\ \A t \in Tokens : tokens[t] # Nil =>
         /\ tokens[t].at # "failed"
         /\ Row(tokens[t].kid)
         /\ tokens[t].at = "issued" => tokens[t].iat <= clock
         /\ tokens[t].at = "issued" /\ cache # Nil =>
              (cache.at > tokens[t].iat => tokens[t].kid \in cache.keys)
    /\ cache # Nil => cache.at <= clock

\* The inductive invariant.
SigningInv == TypeInv /\ KeyInv /\ BootInv /\ TokenInv

-------------------------------------------------------------------------------
\* The least age is at least a day, and a number.
LEMMA LeastPositive == \A s \in Services : Least(s) \in Int /\ Least(s) >= 1
  BY SigningAssumption DEF Least, MaxOf

\* The empty key table satisfies the invariant.
LEMMA SigningInitInv == SigningInit => SigningInv
<1> SUFFICES ASSUME SigningInit PROVE SigningInv
  OBVIOUS
<1>1. TypeInv
  BY SigningAssumption DEF SigningInit, TypeInv, Stopped, Boots
<1>2. KeyInv
  BY DEF SigningInit, KeyInv, Row, Active
<1>3. BootInv
  BY DEF SigningInit, BootInv, Generating, Stopped
<1>4. TokenInv
  BY DEF SigningInit, TokenInv
<1> QED
  BY <1>1, <1>2, <1>3, <1>4 DEF SigningInv

\* A step that leaves the table alone leaves what is said of it alone.
LEMMA SameTable ==
  ASSUME KeyInv, rows' = rows
  PROVE  KeyInv' /\ Active' = Active /\ \A k \in Kids : Row(k)' <=> Row(k)
  BY DEF KeyInv, Active, Row

\* bootstrap_signing_key: a fresh candidate, stamped now.
LEMMA BootstrapInv ==
  ASSUME SigningInv, NEW s \in Services, NEW k \in Kids, bootstrap_signing_key(s, k)
  PROVE  SigningInv'
<1> USE DEF SigningInv
<1>1. KeyInv' /\ Active' = Active
  BY SameTable DEF bootstrap_signing_key
<1>2. DEFINE b == [at |-> "waiting", kid |-> k, created |-> clock, cutoff |-> Cutoff(s)]
<1>3. /\ boots' = [boots EXCEPT ![s] = b]
      /\ boots[s] = Stopped /\ rows[k] = Nil /\ k \notin Generated
      /\ UNCHANGED <<rows, advisory, tokens, cache, clock>>
  BY DEF bootstrap_signing_key
<1>4. Least(s) \in Int /\ Cutoff(s) = clock - Least(s) /\ Cutoff(s) \in Int /\ clock \in Int
  BY LeastPositive, SigningAssumption DEF Cutoff, Least, TypeInv
<1>5. b \in Boots
  BY <1>4 DEF Boots
<1>6. TypeInv'
  BY <1>3, <1>5 DEF TypeInv, Stopped
<1>7. \A r \in Services : Generating(r) => boots[r].kid # k
  BY <1>3 DEF Generated, Generating
<1>8. boots'[s] = b /\ \A r \in Services : r # s => boots'[r] = boots[r]
  BY <1>3 DEF TypeInv
<1>9. BootInv'
  BY <1>1, <1>3, <1>4, <1>7, <1>8 DEF BootInv, Generating, Row, Active, TypeInv, Least
<1>10. TokenInv'
  BY <1>3 DEF TokenInv, Row
<1> QED
  BY <1>1, <1>6, <1>9, <1>10

\* needs_rotation: under the lock, a young key ends the bootstrap, and no other
\* active row was born after the cutoff.
LEMMA NeedsRotationInv ==
  ASSUME SigningInv, NEW s \in Services, needs_rotation(s)
  PROVE  SigningInv'
<1> USE DEF SigningInv
<1>1. KeyInv' /\ Active' = Active /\ UNCHANGED <<rows, tokens, cache, clock>>
  BY SameTable DEF needs_rotation
<1>2. TokenInv'
  BY <1>1 DEF TokenInv, Row
<1>3. /\ boots[s].at = "waiting" /\ advisory = Nil
      /\ boots[s].kid \in Kids /\ boots[s].created \in Int /\ boots[s].cutoff \in Int
  BY DEF needs_rotation, TypeInv, Boots
<1>4. CASE \E k \in Active : rows[k].created > boots[s].cutoff
  <2>1. boots' = [boots EXCEPT ![s] = [at |-> "up"]] /\ UNCHANGED advisory
    BY <1>4 DEF needs_rotation
  <2>2. boots'[s] = [at |-> "up"] /\ \A r \in Services : r # s => boots'[r] = boots[r]
    BY <2>1 DEF TypeInv
  <2>3. TypeInv'
    BY <1>1, <1>3, <2>1, <2>2 DEF TypeInv, Boots
  <2>4. BootInv'
    BY <1>1, <1>4, <2>2 DEF BootInv, Generating, Row, Least
  <2> QED
    BY <1>1, <1>2, <2>3, <2>4
<1>5. CASE ~\E k \in Active : rows[k].created > boots[s].cutoff
  <2> DEFINE b == [at |-> "locked", kid |-> boots[s].kid, created |-> boots[s].created,
                   old |-> Active]
  <2>1. boots' = [boots EXCEPT ![s] = b] /\ advisory' = s
    BY <1>5 DEF needs_rotation
  <2>2. boots'[s] = b /\ \A r \in Services : r # s => boots'[r] = boots[r]
    BY <2>1 DEF TypeInv
  <2>3. b \in Boots
    BY <1>3 DEF Boots, Active
  <2>4. TypeInv'
    BY <1>1, <1>3, <2>1, <2>2, <2>3, SigningAssumption DEF TypeInv
  <2>5. \A k \in Active : rows[k].created \in Int
    BY DEF TypeInv, Active, Rows
  <2>6. \A k \in Active : rows[k].created <= boots[s].created - Least(s)
    BY <1>3, <1>5, <2>5 DEF BootInv
  <2>7. BootInv'
    BY <1>1, <1>3, <2>2, <2>6 DEF BootInv, Generating, Row, Least
  <2> QED
    BY <1>1, <1>2, <2>4, <2>7
<1> QED
  BY <1>4, <1>5

\* The table after ensure_active_signing_key: the candidate is the one active
\* row and the newest, the row it replaces stale as of its birth.
LEMMA RotatedTable ==
  ASSUME SigningInv, NEW s \in Services, ensure_active_signing_key(s)
  PROVE  LET b == boots[s] IN
         /\ b.at = "locked" /\ b.kid \in Kids /\ b.created \in Int
         /\ b.kid \notin Active /\ ~Row(b.kid)
         /\ rows' = [k \in Kids |->
              IF k \in Active THEN RetiredAt(rows[k], b.created)
              ELSE IF k = b.kid THEN ActiveSince(b.created) ELSE rows[k]]
         /\ boots' = [boots EXCEPT ![s] = [at |-> "up"]]
         /\ advisory' = Nil
         /\ UNCHANGED <<tokens, cache, clock>>
<1> USE DEF SigningInv
<1>1. /\ boots[s].at = "locked" /\ boots[s].kid \in Kids /\ boots[s].created \in Int
  BY DEF ensure_active_signing_key, TypeInv, Boots
<1>2. boots[s].old = Active /\ ~Row(boots[s].kid) /\ advisory = s
  BY <1>1 DEF BootInv, Generating, TypeInv
<1>3. ~(Active \ boots[s].old # {})
  BY <1>2
<1> QED
  BY <1>1, <1>2, <1>3 DEF ensure_active_signing_key, Active, Row

\* ensure_active_signing_key: the write of the table.
LEMMA EnsureInv ==
  ASSUME SigningInv, NEW s \in Services, ensure_active_signing_key(s)
  PROVE  SigningInv'
<1> USE DEF SigningInv
<1> DEFINE b == boots[s]
           new == ActiveSince(b.created)
           Old(k) == RetiredAt(rows[k], b.created)
<1>1. /\ b.at = "locked" /\ b.kid \in Kids /\ b.created \in Int
      /\ b.kid \notin Active /\ ~Row(b.kid)
      /\ boots' = [boots EXCEPT ![s] = [at |-> "up"]]
      /\ advisory' = Nil
      /\ UNCHANGED <<tokens, cache, clock>>
      /\ rows' = [k \in Kids |-> IF k \in Active THEN Old(k) ELSE IF k = b.kid THEN new ELSE rows[k]]
  BY RotatedTable
<1>2. /\ rows'[b.kid] = new /\ new \in Rows /\ new # Nil
      /\ new.status = "active" /\ new.created = b.created /\ new.retired = Nil
  BY <1>1, SigningAssumption DEF Rows, ActiveSince
<1>3. ASSUME NEW k \in Active
      PROVE  /\ k \in Kids /\ rows'[k] = Old(k) /\ rows'[k] \in Rows /\ rows'[k] # Nil
             /\ rows'[k].status = "stale" /\ rows'[k].retired = b.created
             /\ rows'[k].created = rows[k].created
             /\ rows[k].created \in Int /\ rows[k].created < b.created
  <2>1. k \in Kids /\ rows[k] \in Rows
    BY DEF Active, TypeInv
  <2>2. rows'[k] = Old(k)
    BY <1>1, <2>1
  <2>3. Old(k) \in Rows /\ Old(k).status = "stale" /\ Old(k).retired = b.created
        /\ Old(k).created = rows[k].created
    BY <1>1, <2>1 DEF Rows, RetiredAt
  <2>4. rows[k].created \in Int
    BY <2>1 DEF Rows
  <2>5. rows[k].created <= b.created - Least(s)
    BY <1>1 DEF BootInv
  <2> QED
    BY <1>1, <2>1, <2>2, <2>3, <2>4, <2>5, LeastPositive, SigningAssumption
<1>4. \A k \in Kids : k \notin Active /\ k # b.kid => rows'[k] = rows[k]
  BY <1>1
<1>5. \A k \in Kids : rows'[k] \in Rows \cup {Nil}
  BY <1>2, <1>3, <1>4 DEF TypeInv
<1>6. Active' = {b.kid}
  <2>1. b.kid \in Active'
    BY <1>1, <1>2 DEF Active
  <2>2. \A k \in Active' : k = b.kid
    BY <1>1, <1>3, <1>4 DEF Active
  <2> QED
    BY <2>1, <2>2, Zenon
<1>7. \A k \in Kids : Row(k) => Row(k)'
  BY <1>2, <1>3, <1>4 DEF Row
<1>8. \A k \in Kids : Row(k) => rows[k].created \in Int /\ rows[k].created < b.created
  <2> SUFFICES ASSUME NEW k \in Kids, Row(k)
               PROVE  rows[k].created \in Int /\ rows[k].created < b.created
    OBVIOUS
  <2>1. PICK a \in Active : TRUE
    BY DEF KeyInv
  <2>2. rows[k].created <= rows[a].created
    BY DEF KeyInv, Active
  <2>3. rows[k].created \in Int
    BY DEF Row, TypeInv, Rows
  <2> QED
    BY <1>1, <1>3, <2>1, <2>2, <2>3
<1>9. \A k \in Kids : Row(k)' /\ k # b.kid => Row(k) /\ rows'[k].created = rows[k].created
  BY <1>3, <1>4 DEF Row, Active
<1>10. KeyInv'
  <2>1. \A j, k \in Kids : Row(j)' /\ Row(k)' /\ rows'[j].created = rows'[k].created => j = k
    BY <1>1, <1>2, <1>8, <1>9 DEF KeyInv
  <2>2. \A j, k \in Kids : Row(j)' /\ k \in Active' => rows'[j].created <= rows'[k].created
    BY <1>1, <1>2, <1>6, <1>8, <1>9
  <2>3. \A k \in Kids : Row(k)' => Active' # {}
    BY <1>6
  <2>4. \A k \in Kids : Row(k)' /\ rows'[k].status = "active" => rows'[k].retired = Nil
    BY <1>2, <1>3, <1>4 DEF KeyInv, Row, Active
  <2>5. ASSUME NEW k \in Kids, Row(k)', rows'[k].status = "stale"
        PROVE  /\ rows'[k].retired \in Int
               /\ rows'[k].created < rows'[k].retired
               /\ \E j \in Kids : Row(j)' /\ rows'[j].created = rows'[k].retired
    <3>1. CASE k \in Active
      BY SMTT(40), <1>1, <1>2, <1>3, <3>1 DEF Row
    <3>2. CASE k \notin Active
      <4>1. k # b.kid /\ rows'[k] = rows[k] /\ Row(k)
        BY <1>2, <1>4, <2>5, <3>2 DEF Row
      <4>2. PICK j \in Kids : Row(j) /\ rows[j].created = rows[k].retired
        BY <2>5, <4>1 DEF KeyInv
      <4>3. Row(j)' /\ rows'[j].created = rows[j].created
        BY <1>1, <1>7, <1>9, <4>2
      <4> QED
        BY <2>5, <4>1, <4>2, <4>3 DEF KeyInv
    <3> QED
      BY <3>1, <3>2, Zenon
  <2> QED
    BY <2>1, <2>2, <2>3, <2>4, <2>5 DEF KeyInv
<1>11. boots'[s] = [at |-> "up"] /\ \A r \in Services : r # s => boots'[r] = boots[r]
  BY <1>1 DEF TypeInv
<1>12. \A r \in Services : boots'[r].at # "locked"
  BY <1>1, <1>11 DEF TypeInv
<1>13. TypeInv'
  <2>1. rows' \in [Kids -> Rows \cup {Nil}]
    BY <1>1, <1>5
  <2>2. boots' \in [Services -> Boots]
    BY <1>1 DEF TypeInv, Boots
  <2> QED
    BY <1>1, <1>12, <2>1, <2>2, SigningAssumption DEF TypeInv
<1>14. BootInv'
  <2> SUFFICES ASSUME NEW r \in Services PROVE BootInv!(r)'
    BY DEF BootInv
  <2>1. CASE r = s
    BY <1>6, <1>11, <2>1 DEF Generating
  <2>2. CASE r # s
    <3>1. boots'[r] = boots[r] /\ boots[r] \in Boots /\ boots[r].at # "locked"
      BY <1>11, <1>12, <2>2 DEF TypeInv
    <3>2. ASSUME Generating(r) PROVE ~Row(boots[r].kid)'
      <4>1. boots[r].kid \in Kids /\ ~Row(boots[r].kid)
        BY <3>1, <3>2 DEF Boots, Generating, BootInv
      <4>2. boots[r].kid # b.kid
        BY <1>1, <2>2, <3>2 DEF BootInv, Generating
      <4> QED
        BY <1>4, <3>1, <4>1, <4>2 DEF Row, Active
    <3>3. \A q \in Services : Generating(q)' => Generating(q) /\ boots'[q] = boots[q]
      BY <1>11 DEF Generating
    <3> QED
      BY <1>1, <1>6, <3>1, <3>2, <3>3 DEF BootInv, Generating, Least
  <2> QED
    BY <2>1, <2>2, Zenon
<1>15. TokenInv'
  BY <1>1, <1>7 DEF TokenInv, TypeInv, TokenRecords, Row
<1> QED
  BY <1>10, <1>13, <1>14, <1>15

\* Killed: a transaction rolls back and frees the lock.
LEMMA KilledInv ==
  ASSUME SigningInv, NEW s \in Services, Killed(s)
  PROVE  SigningInv'
<1> USE DEF SigningInv
<1>1. KeyInv' /\ Active' = Active /\ UNCHANGED <<rows, tokens, cache, clock>>
  BY SameTable DEF Killed
<1>2. TokenInv'
  BY <1>1 DEF TokenInv, Row
<1>3. boots'[s] = Stopped /\ \A r \in Services : r # s => boots'[r] = boots[r]
  BY DEF Killed, TypeInv
<1>4. TypeInv'
  BY <1>1, <1>3, SigningAssumption DEF Killed, TypeInv, Stopped, Boots
<1>5. BootInv'
  BY <1>1, <1>3 DEF BootInv, Generating, Row, Least, Stopped
<1> QED
  BY <1>1, <1>2, <1>4, <1>5

\* token_manager: a service that is up finds the active row.
LEMMA TokenManagerInv ==
  ASSUME SigningInv, NEW s \in Services, NEW t \in Tokens, token_manager(s, t)
  PROVE  SigningInv'
<1> USE DEF SigningInv
<1>1. KeyInv' /\ Active' = Active /\ UNCHANGED <<rows, advisory, boots, cache, clock>>
  BY SameTable DEF token_manager
<1>2. Active # {}
  BY DEF token_manager, BootInv
<1>3. PICK k \in Active : tokens' = [tokens EXCEPT ![t] = [at |-> "signing", kid |-> k]]
  BY <1>2 DEF token_manager
<1>4. k \in Kids /\ Row(k)
  BY DEF Active, Row
<1>5. /\ tokens'[t] = [at |-> "signing", kid |-> k]
      /\ \A u \in Tokens : u # t => tokens'[u] = tokens[u]
  BY <1>3 DEF TypeInv
<1>6. TypeInv'
  BY <1>1, <1>3, <1>4 DEF TypeInv, TokenRecords
<1>7. BootInv'
  BY <1>1, Zenon DEF BootInv, Generating, Row, Least
<1>8. TokenInv'
  BY <1>1, <1>4, <1>5 DEF TokenInv, Row
<1> QED
  BY <1>1, <1>6, <1>7, <1>8

\* sign: the token is issued now, so no JWKS was fetched later.
LEMMA SignInv ==
  ASSUME SigningInv, NEW t \in Tokens, sign(t)
  PROVE  SigningInv'
<1> USE DEF SigningInv
<1>1. KeyInv' /\ Active' = Active /\ UNCHANGED <<rows, advisory, boots, cache, clock>>
  BY SameTable DEF sign
<1>2. tokens[t] # Nil /\ tokens[t].at = "signing" /\ tokens[t].kid \in Kids /\ clock \in Int
      /\ clock + TokenTtl \in Int
  BY SigningAssumption DEF sign, TypeInv, TokenRecords
<1> DEFINE i == [at |-> "issued", kid |-> tokens[t].kid, iat |-> clock, exp |-> clock + TokenTtl]
<1>3. tokens' = [tokens EXCEPT ![t] = i]
  BY DEF sign
<1>4. tokens'[t] = i /\ \A u \in Tokens : u # t => tokens'[u] = tokens[u]
  BY <1>3 DEF TypeInv
<1>5. i \in TokenRecords
  BY <1>2 DEF TokenRecords
<1>6. TypeInv'
  BY <1>1, <1>3, <1>5, Zenon DEF TypeInv
<1>7. BootInv'
  BY <1>1 DEF BootInv, Generating, Row, Least
<1>8. cache # Nil => cache.at \in Int /\ cache.at <= clock
  BY Zenon DEF TypeInv, TokenInv
<1>9. TokenInv'
  <2>1. i.at = "issued" /\ i.kid = tokens[t].kid /\ i.iat = clock
    OBVIOUS
  <2> HIDE DEF i
  <2> QED
    BY <1>1, <1>2, <1>4, <1>8, <2>1 DEF TokenInv, Row
<1> QED
  BY <1>1, <1>6, <1>7, <1>9

\* JwksFetched: every row is listed, also the stale ones.
LEMMA FetchInv ==
  ASSUME SigningInv, JwksFetched
  PROVE  SigningInv'
<1> USE DEF SigningInv
<1>1. KeyInv' /\ Active' = Active /\ UNCHANGED <<rows, advisory, boots, tokens, clock>>
  BY SameTable DEF JwksFetched
<1>2. cache' = [keys |-> {k \in Kids : Row(k)}, at |-> clock]
  BY DEF JwksFetched, list_verification_jwks, Row
<1>3. TypeInv'
  BY <1>1, <1>2 DEF TypeInv
<1>4. BootInv'
  BY <1>1 DEF BootInv, Generating, Row, Least
<1>5. \A t \in Tokens : tokens[t] # Nil /\ tokens[t].at # "failed" => tokens[t].kid \in Kids
  BY DEF TypeInv, TokenRecords
<1>6. TokenInv'
  BY <1>1, <1>2, <1>5 DEF TokenInv, Row, TypeInv
<1> QED
  BY <1>1, <1>3, <1>4, <1>6

\* The clock.
LEMMA TickInv ==
  ASSUME SigningInv, ClockTick
  PROVE  SigningInv'
<1> USE DEF SigningInv
<1>1. KeyInv' /\ Active' = Active /\ UNCHANGED <<rows, advisory, boots, tokens, cache>>
      /\ clock' = clock + 1
  BY SameTable DEF ClockTick
<1>2. TypeInv'
  BY <1>1, SigningAssumption DEF TypeInv, ClockTick
<1>3. \A s \in Services : Generating(s) => boots[s].created \in Int
  BY Zenon DEF TypeInv, Boots, Generating
<1>4. BootInv'
  BY <1>1, <1>3 DEF BootInv, Generating, Row, Least, TypeInv
<1>5. \A t \in Tokens : tokens[t] # Nil /\ tokens[t].at = "issued" => tokens[t].iat \in Int
  BY Zenon DEF TypeInv, TokenRecords
<1>6. TokenInv'
  BY <1>1, <1>5 DEF TokenInv, Row, TypeInv
<1> QED
  BY <1>1, <1>2, <1>4, <1>6

\* Every step keeps the invariant.
LEMMA SigningStep ==
  ASSUME SigningInv, [SigningNext]_signingVars
  PROVE  SigningInv'
<1>1. CASE SigningNext
  <2>1. CASE \E s \in Services, k \in Kids : bootstrap_signing_key(s, k)
    BY <2>1, BootstrapInv
  <2>2. CASE \E s \in Services : needs_rotation(s)
    BY <2>2, NeedsRotationInv
  <2>3. CASE \E s \in Services : ensure_active_signing_key(s)
    BY <2>3, EnsureInv
  <2>4. CASE \E s \in Services : Killed(s)
    BY <2>4, KilledInv
  <2>5. CASE \E s \in Services, t \in Tokens : token_manager(s, t)
    BY <2>5, TokenManagerInv
  <2>6. CASE \E t \in Tokens : sign(t)
    BY <2>6, SignInv
  <2>7. CASE JwksFetched
    BY <2>7, FetchInv
  <2>8. CASE ClockTick
    BY <2>8, TickInv, Zenon
  <2> QED
    BY <1>1, <2>1, <2>2, <2>3, <2>4, <2>5, <2>6, <2>7, <2>8 DEF SigningNext
<1>2. CASE UNCHANGED signingVars
  BY <1>2, Zenon DEF SigningInv, TypeInv, KeyInv, BootInv, TokenInv, signingVars,
              Row, Active, Generating, Least
<1> QED
  BY <1>1, <1>2

\* The invariant holds of every state the signing keys reach.
LEMMA SigningInvariant == SigningSpec => []SigningInv
  BY SigningInitInv, SigningStep, PTL DEF SigningSpec

-------------------------------------------------------------------------------
\* Every state bootstraps, issuances and verifiers reach is well formed, and the
\* advisory lock is held exactly while a transaction that will activate a key
\* is open.
THEOREM SigningTypeCorrect == SigningSpec => []SigningTypeOK
<1>1. SigningInv => SigningTypeOK
  BY DEF SigningInv, TypeInv, SigningTypeOK
<1> QED
  BY <1>1, SigningInvariant, PTL

\* The active row is alone.
LEMMA AtMostOneActive ==
  ASSUME SigningInv, NEW j \in Active, NEW k \in Active
  PROVE  j = k
<1> USE DEF SigningInv
<1>1. j \in Kids /\ k \in Kids /\ Row(j) /\ Row(k)
  BY Zenon DEF Active, Row
<1>2. rows[j].created \in Int /\ rows[k].created \in Int
  BY <1>1 DEF TypeInv, Row, Rows
<1>3. rows[j].created <= rows[k].created /\ rows[k].created <= rows[j].created
  BY <1>1, Zenon DEF KeyInv
<1> QED
  BY <1>1, <1>2, <1>3 DEF KeyInv

\* ensure_active_signing_key under whatever number of services, ages and
\* crashes: one active key at most, the one each open transaction read, and one
\* at least once a service is up.
THEOREM OneActiveKeyAlways == SigningSpec => []OneActiveKey
<1>1. SigningInv => OneActiveKey
  BY AtMostOneActive DEF SigningInv, OneActiveKey, BootInv, TokenInv
<1> QED
  BY <1>1, SigningInvariant, PTL

\* However the births and the commits of candidates interleave, every stale key
\* was retired at the birth of exactly one other key, after its own.
THEOREM TermsFollow == SigningSpec => []TermsChain
<1>1. ASSUME SigningInv PROVE TermsChain
  <2> USE <1>1 DEF SigningInv
  <2> SUFFICES ASSUME NEW k \in Kids, Row(k)
               PROVE  /\ rows[k].status = "active" <=> rows[k].retired = Nil
                      /\ rows[k].status = "stale" =>
                           /\ rows[k].created < rows[k].retired
                           /\ \E j \in Kids : {i \in Kids : rows[i] # Nil
                                                 /\ rows[i].created = rows[k].retired} = {j}
    BY DEF TermsChain, Row
  <2>1. rows[k].status \in {"active", "stale"}
    BY DEF TypeInv, Row, Rows
  <2>2. rows[k].status = "active" <=> rows[k].retired = Nil
    BY <2>1, SigningAssumption DEF KeyInv
  <2>3. ASSUME rows[k].status = "stale"
        PROVE  \E j \in Kids : {i \in Kids : rows[i] # Nil
                                    /\ rows[i].created = rows[k].retired} = {j}
    <3>1. PICK j \in Kids : Row(j) /\ rows[j].created = rows[k].retired
      BY <2>3 DEF KeyInv
    <3>2. {i \in Kids : rows[i] # Nil /\ rows[i].created = rows[k].retired} = {j}
      BY <3>1 DEF KeyInv, Row
    <3> QED
      BY <3>1, <3>2
  <2> QED
    BY <2>2, <2>3 DEF KeyInv
<1> QED
  BY <1>1, SigningInvariant, PTL

\* A verifier that fetched the JWKS since a token was issued accepts it until it
\* expires, for any lifetimes and any rotations in between.
THEOREM TokensVerify == SigningSpec => []IssuedTokensVerify
<1>1. SigningInv => IssuedTokensVerify
  BY DEF SigningInv, TokenInv, IssuedTokensVerify, validate_bearer_token
<1> QED
  BY <1>1, SigningInvariant, PTL

\* Bootstraps retire no key before it was in service for a day, nor before the
\* maximal age of the service that replaces it.
THEOREM KeysServeTheirTerm == SigningSpec => NoPrematureRetirement
<1> DEFINE Retires ==
      \A k \in Kids : (k \in Active /\ k \notin Active') =>
        \E s \in Services : clock - rows[k].created >= MaxOf(MaxKeyAge[s], 1)
<1>1. ASSUME SigningInv, [SigningNext]_signingVars PROVE [Retires]_signingVars
  <2> USE <1>1 DEF SigningInv
  <2>1. CASE UNCHANGED rows
    BY <2>1 DEF Active
  <2>2. CASE \E s \in Services : ensure_active_signing_key(s)
    <3>1. PICK s \in Services : ensure_active_signing_key(s)
      BY <2>2
    <3> SUFFICES ASSUME NEW k \in Active PROVE clock - rows[k].created >= Least(s)
      BY Zenon DEF Least
    <3>2. boots[s].at = "locked" /\ boots[s].created \in Int
      BY <3>1, RotatedTable
    <3>3. rows[k].created <= boots[s].created - Least(s) /\ boots[s].created <= clock
      BY <3>2 DEF BootInv, Generating
    <3>4. rows[k].created \in Int /\ clock \in Int
      BY DEF TypeInv, Active, Rows
    <3> QED
      BY <3>2, <3>3, <3>4, LeastPositive
  <2> QED
    BY <1>1, <2>1, <2>2, Zenon DEF SigningNext, signingVars, bootstrap_signing_key, needs_rotation,
       Killed, token_manager, sign, JwksFetched, ClockTick
<1> QED
  BY <1>1, SigningInvariant, PTL DEF SigningSpec, NoPrematureRetirement

-------------------------------------------------------------------------------
\* What a call in flight knows: before its transaction, a document that
\* validates; from the repoint of a rollback, the row it read; from the commit
\* on, a row that has been active.
CallInv(c) ==
    /\ c.pc = "write" => c.doc.valid
    /\ c.pc \in {"repoint", "load"} => c.id \in DOMAIN revisions /\ c.doc = revisions[c.id]
    /\ c.pc = "load" => c.id \in activated

\* The inductive invariant behind ServesOnceActive.
Inv ==
    /\ TypeOK
    /\ active \in activated
    /\ \A a \in Admins : CallInv(call[a])
    /\ ServesOnceActive

\* The seeded revisions are documents, and the active one validates.
LEMMA SeedFacts ==
    /\ Seed \in Seq(Document) /\ Len(Seed) = 2 /\ DOMAIN Seed = 1 .. 2
    /\ Seed[2] \in Document /\ Seed[2].valid
<1> DEFINE first == [name |-> "budget-policy-v1", valid |-> FALSE]
           second == [name |-> "budget-policy-v2-adr0015", valid |-> TRUE]
<1>0. Seed[1] = first /\ Seed[2] = second
  BY DEF Seed
<1>1. Seed[1] \in Document /\ Seed[2] \in Document
  <2>1. first \in Document
    BY ConstantsAssumption DEF Document
  <2>2. second \in Document
    BY ConstantsAssumption DEF Document
  <2> QED
    BY <1>0, <2>1, <2>2
<1>2. Seed = <<Seed[1], Seed[2]>> /\ Seed[2].valid
  BY DEF Seed
<1> HIDE DEF Seed
<1>3. <<Seed[1], Seed[2]>> \in Seq(Document)
  BY <1>1
<1>4. Len(<<Seed[1], Seed[2]>>) = 2 /\ DOMAIN <<Seed[1], Seed[2]>> = 1 .. 2
  OBVIOUS
<1> QED
  BY <1>1, <1>2, <1>3, <1>4, Zenon

\* Appending a row keeps the rows there are.
LEMMA AppendRow ==
    ASSUME NEW s \in Seq(Document), NEW d \in Document
    PROVE  /\ Append(s, d) \in Seq(Document)
           /\ Len(s) + 1 \in DOMAIN Append(s, d)
           /\ DOMAIN s \subseteq DOMAIN Append(s, d)
           /\ Append(s, d)[Len(s) + 1] = d
           /\ \A i \in DOMAIN s : Append(s, d)[i] = s[i]
OBVIOUS

\* Init establishes the invariant: the migrations leave a valid revision active.
LEMMA InitInv == Init => Inv
<1> SUFFICES ASSUME Init PROVE Inv
  OBVIOUS
<1> USE SeedFacts, ConstantsAssumption
<1>1. TypeOK
  BY DEF Init, TypeOK, NoCall
<1>2. active \in activated
  BY DEF Init
<1>3. \A a \in Admins : CallInv(call[a])
  BY DEF Init, CallInv, NoCall
<1>4. ServesOnceActive
  BY DEF Init, ServesOnceActive, Running
<1> QED
  BY <1>1, <1>2, <1>3, <1>4 DEF Inv

\* Every step preserves the invariant: rows are only appended, a transaction
\* makes active the row its call carries, and an engine takes only the document
\* of a call that has committed, or of the active revision.
LEMMA NextInv == Inv /\ [Next]_vars => Inv'
<1> SUFFICES ASSUME Inv, [Next]_vars PROVE Inv'
  OBVIOUS
<1> USE ConstantsAssumption
<1>T. TypeOK /\ active \in activated /\ ServesOnceActive /\ \A a \in Admins : CallInv(call[a])
  BY DEF Inv
<1>1. ASSUME NEW a \in Admins, NEW p \in Servers, NEW d \in Submissions, Activate(a, p, d)
      PROVE  Inv'
  <2>1. /\ UNCHANGED <<revisions, active, engine, activated, unreconciled>>
        /\ call' = [call EXCEPT ![a] = [pc |-> "write", server |-> p, id |-> 0, doc |-> d]]
        /\ d.valid /\ d \in Document /\ p \in Hosts
    BY <1>1 DEF Activate
  <2>2. [pc |-> "write", server |-> p, id |-> 0, doc |-> d] \in Calls
    BY <2>1 DEF Calls
  <2>3. TypeOK'
    BY <1>T, <2>1, <2>2, Zenon DEF TypeOK
  <2>4. \A b \in Admins : CallInv(call[b])'
    BY <1>T, <2>1, Zenon DEF CallInv, TypeOK
  <2>5. ServesOnceActive'
    BY <1>T, <2>1, Zenon DEF ServesOnceActive, Running
  <2> QED
    BY <1>T, <2>1, <2>3, <2>4, <2>5 DEF Inv
<1>2. ASSUME NEW a \in Admins, NEW p \in Servers, NEW id \in Targets, SelectRevision(a, p, id)
      PROVE  Inv'
  <2>1. /\ UNCHANGED <<revisions, active, engine, activated, unreconciled>>
        /\ call' = [call EXCEPT ![a] = [pc |-> "repoint", server |-> p, id |-> id, doc |-> revisions[id]]]
        /\ id \in DOMAIN revisions /\ p \in Hosts
    BY <1>2 DEF SelectRevision
  <2>2. id \in Nat /\ revisions[id] \in Document
    <3>1. revisions \in Seq(Document)
      BY <1>T DEF TypeOK
    <3> QED
      BY <2>1, <3>1
  <2>3. [pc |-> "repoint", server |-> p, id |-> id, doc |-> revisions[id]] \in Calls
    BY <2>1, <2>2 DEF Calls
  <2>4. TypeOK'
    BY <1>T, <2>1, <2>3 DEF TypeOK
  <2>5. \A b \in Admins : CallInv(call[b])'
    BY <1>T, <2>1 DEF CallInv, TypeOK
  <2>6. ServesOnceActive'
    BY <1>T, <2>1 DEF ServesOnceActive, Running
  <2> QED
    BY <1>T, <2>1, <2>4, <2>5, <2>6 DEF Inv
<1>3. ASSUME NEW a \in Admins, CommitActivation(a)
      PROVE  Inv'
  <2>0. call[a].pc = "write" /\ UNCHANGED <<engine, unreconciled>>
    BY <1>3 DEF CommitActivation
  <2>c. call[a] \in Calls /\ call[a].doc \in Document /\ call[a].doc.valid
    BY <1>T, <2>0 DEF TypeOK, Calls, NoCall, CallInv
  <2>1. CASE NameTaken(call[a].doc)
    <3>1. call' = [call EXCEPT ![a] = NoCall] /\ UNCHANGED <<revisions, active, activated>>
      BY <1>3, <2>1 DEF CommitActivation, Return
    <3>2. TypeOK'
      BY <1>T, <2>0, <3>1 DEF TypeOK
    <3>3. \A b \in Admins : CallInv(call[b])'
      BY <1>T, <3>1 DEF CallInv, TypeOK, NoCall
    <3>4. ServesOnceActive'
      BY <1>T, <2>0, <3>1 DEF ServesOnceActive, Running
    <3> QED
      BY <1>T, <3>1, <3>2, <3>3, <3>4 DEF Inv
  <2>2. CASE ~ NameTaken(call[a].doc)
    <3> DEFINE new == Len(revisions) + 1
               moved == [call[a] EXCEPT !.pc = "load", !.id = new]
    <3>1. /\ revisions' = Append(revisions, call[a].doc)
          /\ active' = new /\ activated' = activated \union {new}
          /\ call' = [call EXCEPT ![a] = moved]
      BY <1>3, <2>2, Zenon DEF CommitActivation, MakeActive
    <3>2. /\ revisions' \in Seq(Document) /\ new \in DOMAIN revisions' /\ new \in Nat
          /\ DOMAIN revisions \subseteq DOMAIN revisions'
          /\ revisions'[new] = call[a].doc
          /\ \A i \in DOMAIN revisions : revisions'[i] = revisions[i]
      BY <1>T, <2>c, <3>1, AppendRow DEF TypeOK
    <3> HIDE DEF new
    <3>3. moved \in Calls /\ moved.pc = "load" /\ moved.id = new /\ moved.doc = call[a].doc
      BY <2>c, <3>2, Zenon DEF Calls
    <3> HIDE DEF moved
    <3>4. TypeOK'
      BY <1>T, <2>0, <3>1, <3>2, <3>3 DEF TypeOK
    <3>5. \A b \in Admins : CallInv(call[b])'
      <4> SUFFICES ASSUME NEW b \in Admins PROVE CallInv(call[b])'
        OBVIOUS
      <4>1. CASE b = a
        <5>1. call'[b] = moved
          BY <1>T, <3>1, <4>1, Zenon DEF TypeOK
        <5> QED
          BY <3>1, <3>2, <3>3, <5>1 DEF CallInv
      <4>2. CASE b # a
        <5>1. call'[b] = call[b] /\ CallInv(call[b])
          BY <1>T, <3>1, <4>2 DEF TypeOK
        <5> QED
          BY <3>1, <3>2, <5>1 DEF CallInv
      <4> QED
        BY <4>1, <4>2
    <3>6. ServesOnceActive'
      <4> SUFFICES ASSUME NEW p \in Servers, engine[p] # Down
                   PROVE  engine[p].valid /\ \E i \in activated' : revisions'[i] = engine[p]
        BY <2>0 DEF ServesOnceActive, Running
      <4>1. PICK i \in activated : revisions[i] = engine[p]
        BY <1>T DEF ServesOnceActive, Running
      <4>2. i \in activated' /\ revisions'[i] = engine[p]
        BY <1>T, <3>1, <3>2, <4>1 DEF TypeOK
      <4> QED
        BY <1>T, <4>2 DEF ServesOnceActive, Running
    <3> QED
      BY <3>1, <3>4, <3>5, <3>6 DEF Inv
  <2> QED
    BY <2>1, <2>2
<1>4. ASSUME NEW a \in Admins, Repoint(a)
      PROVE  Inv'
  <2> DEFINE id == call[a].id
             moved == [call[a] EXCEPT !.pc = "load"]
  <2>1. /\ call[a].pc = "repoint" /\ UNCHANGED <<revisions, engine, unreconciled>>
        /\ active' = id /\ activated' = activated \union {id}
        /\ call' = [call EXCEPT ![a] = moved]
    BY <1>4 DEF Repoint, MakeActive
  <2>2. call[a] \in Calls /\ id \in DOMAIN revisions /\ call[a].doc = revisions[id]
    BY <1>T, <2>1 DEF TypeOK, Calls, NoCall, CallInv
  <2>3. moved \in Calls /\ moved.pc = "load" /\ moved.id = id /\ moved.doc = revisions[id]
    BY <2>2, Zenon DEF Calls
  <2> HIDE DEF moved, id
  <2>4. TypeOK'
    BY <1>T, <2>1, <2>2, <2>3 DEF TypeOK
  <2>5. \A b \in Admins : CallInv(call[b])'
    <3> SUFFICES ASSUME NEW b \in Admins PROVE CallInv(call[b])'
      OBVIOUS
    <3>1. CASE b = a
      <4>1. call'[b] = moved
        BY <1>T, <2>1, <3>1 DEF TypeOK
      <4> QED
        BY <2>1, <2>2, <2>3, <4>1 DEF CallInv
    <3>2. CASE b # a
      BY <1>T, <2>1, <3>2, Zenon DEF TypeOK, CallInv
    <3> QED
      BY <3>1, <3>2
  <2>6. ServesOnceActive'
    BY <1>T, <2>1 DEF ServesOnceActive, Running
  <2> QED
    BY <2>1, <2>4, <2>5, <2>6 DEF Inv
<1>5. ASSUME NEW a \in Admins, Load(a)
      PROVE  Inv'
  <2> DEFINE p == call[a].server
  <2>1. /\ call[a].pc = "load" /\ UNCHANGED <<revisions, active, activated>>
        /\ call' = [call EXCEPT ![a] = NoCall]
        /\ \/ /\ call[a].doc.valid
              /\ engine' = [engine EXCEPT ![p] = call[a].doc]
              /\ unreconciled' = unreconciled \ {p}
           \/ engine' = engine /\ unreconciled' = unreconciled \union {p}
    BY <1>5, Zenon DEF Load, Return
  <2>2. /\ call[a] \in Calls /\ p \in Servers /\ call[a].doc \in Document
        /\ call[a].id \in activated /\ call[a].doc = revisions[call[a].id]
    BY <1>T, <2>1 DEF TypeOK, Calls, NoCall, CallInv
  <2>3. TypeOK'
    BY <1>T, <2>1, <2>2, Zenon DEF TypeOK
  <2>4. \A b \in Admins : CallInv(call[b])'
    BY <1>T, <2>1, Zenon DEF CallInv, TypeOK, NoCall
  <2>5. ServesOnceActive'
    BY <1>T, <2>1, <2>2 DEF ServesOnceActive, Running, TypeOK
  <2> QED
    BY <1>T, <2>1, <2>3, <2>4, <2>5 DEF Inv
<1>6. ASSUME NEW a \in Admins, CallStops(a)
      PROVE  Inv'
  <2>1. /\ call[a] # NoCall /\ UNCHANGED <<revisions, active, engine, activated>>
        /\ call' = [call EXCEPT ![a] = NoCall]
        /\ unreconciled' \in {unreconciled, unreconciled \union {call[a].server}}
    BY <1>6 DEF CallStops, Return
  <2>2. call[a].server \in Servers
    BY <1>T, <2>1 DEF TypeOK, Calls
  <2>3. TypeOK'
    BY <1>T, <2>1, <2>2, Zenon DEF TypeOK
  <2>4. \A b \in Admins : CallInv(call[b])'
    BY <1>T, <2>1 DEF CallInv, TypeOK, NoCall
  <2>5. ServesOnceActive'
    BY <1>T, <2>1 DEF ServesOnceActive, Running
  <2> QED
    BY <1>T, <2>1, <2>3, <2>4, <2>5 DEF Inv
<1>7. ASSUME NEW p \in Servers, NEW d \in Submissions, CreateRevision(p, d)
      PROVE  Inv'
  <2>1. /\ revisions' = Append(revisions, d) /\ d \in Document
        /\ UNCHANGED <<active, engine, call, activated, unreconciled>>
    BY <1>7 DEF CreateRevision
  <2>2. /\ revisions' \in Seq(Document)
        /\ DOMAIN revisions \subseteq DOMAIN revisions'
        /\ \A i \in DOMAIN revisions : revisions'[i] = revisions[i]
    BY <1>T, <2>1, AppendRow DEF TypeOK
  <2>3. TypeOK'
    BY <1>T, <2>1, <2>2, Zenon DEF TypeOK
  <2>4. \A b \in Admins : CallInv(call[b])'
    BY <1>T, <2>1, <2>2 DEF CallInv
  <2>5. ServesOnceActive'
    BY <1>T, <2>1, <2>2 DEF ServesOnceActive, Running, TypeOK
  <2> QED
    BY <1>T, <2>1, <2>3, <2>4, <2>5 DEF Inv
<1>8. ASSUME NEW p \in Servers, Crash(p)
      PROVE  Inv'
  <2>1. /\ UNCHANGED <<revisions, active, activated>>
        /\ engine' = [engine EXCEPT ![p] = Down]
        /\ unreconciled' = unreconciled \ {p}
        /\ call' = [a \in Admins |-> IF call[a] # NoCall /\ call[a].server = p THEN NoCall ELSE call[a]]
    BY <1>8 DEF Crash
  <2>2. \A b \in Admins : call'[b] \in {NoCall, call[b]}
    BY <2>1
  <2>3. TypeOK'
    BY <1>T, <2>1, <2>2, Zenon DEF TypeOK
  <2>4. \A b \in Admins : CallInv(call[b])'
    BY <1>T, <2>1, <2>2 DEF CallInv, NoCall
  <2>5. ServesOnceActive'
    BY <1>T, <2>1 DEF ServesOnceActive, Running, TypeOK
  <2> QED
    BY <1>T, <2>1, <2>3, <2>4, <2>5 DEF Inv
<1>9. ASSUME NEW p \in Servers, Start(p)
      PROVE  Inv'
  <2>1. /\ revisions[active].valid
        /\ engine' = [engine EXCEPT ![p] = revisions[active]]
        /\ UNCHANGED <<revisions, active, call, activated, unreconciled>>
    BY <1>9 DEF Start
  <2>2. revisions[active] \in Document
    BY <1>T DEF TypeOK
  <2>3. TypeOK'
    BY <1>T, <2>1, <2>2 DEF TypeOK
  <2>4. \A b \in Admins : CallInv(call[b])'
    BY <1>T, <2>1 DEF CallInv
  <2>5. ServesOnceActive'
    BY <1>T, <2>1, <2>2, Zenon DEF ServesOnceActive, Running, TypeOK
  <2> QED
    BY <1>T, <2>1, <2>3, <2>4, <2>5 DEF Inv
<1>10. CASE UNCHANGED vars
  BY <1>T, <1>10 DEF vars, Inv, TypeOK, CallInv, ServesOnceActive, Running
<1> QED
  BY <1>1, <1>2, <1>3, <1>4, <1>5, <1>6, <1>7, <1>8, <1>9, <1>10 DEF Next, AdminStep

\* The tables, engines and calls keep their types, whatever the constants.
THEOREM TypeCorrect == Spec => []TypeOK
<1>1. Inv => TypeOK
  BY DEF Inv
<1> QED
  BY <1>1, InitInv, NextInv, PTL DEF Spec

\* Every engine serves only rule data that validates and that the database has
\* had as its active revision: RuleDataEngine::load runs after the commit.
THEOREM EngineServesOnceActive == Spec => []ServesOnceActive
<1>1. Inv => ServesOnceActive
  BY DEF Inv
<1> QED
  BY <1>1, InitInv, NextInv, PTL DEF Spec

-------------------------------------------------------------------------------
\* Every row but the first validates, and a rollback in flight names a row that
\* validates.
RowsInv ==
    /\ \A i \in DOMAIN revisions : i # 1 => revisions[i].valid
    /\ \A a \in Admins : call[a].pc = "repoint" => call[a].doc.valid
    /\ ActiveLoads

\* activate validates what it inserts and create_revision does too, so only a
\* rollback to the row seeded before validate required amounts can leave an
\* active revision that no server starts from.
LEMMA RowsNext ==
    ASSUME 1 \notin Targets
    PROVE  Inv /\ RowsInv /\ [Next]_vars => RowsInv'
<1> SUFFICES ASSUME Inv, RowsInv, [Next]_vars PROVE RowsInv'
  OBVIOUS
<1> USE ConstantsAssumption
<1>T. TypeOK /\ \A a \in Admins : CallInv(call[a])
  BY DEF Inv
<1>1. ASSUME NEW a \in Admins, NEW p \in Servers, NEW d \in Submissions, Activate(a, p, d)
      PROVE  RowsInv'
  BY <1>T, <1>1 DEF Activate, RowsInv, ActiveLoads, TypeOK
<1>2. ASSUME NEW a \in Admins, NEW p \in Servers, NEW id \in Targets, SelectRevision(a, p, id)
      PROVE  RowsInv'
  <2>1. id # 1
    BY <1>2
  <2> QED
    BY <1>T, <1>2, <2>1 DEF SelectRevision, RowsInv, ActiveLoads, TypeOK
<1>3. ASSUME NEW a \in Admins, CommitActivation(a)
      PROVE  RowsInv'
  <2>0. call[a].pc = "write"
    BY <1>3, Zenon DEF CommitActivation
  <2>c. call[a] \in Calls /\ call[a].doc \in Document /\ call[a].doc.valid
    BY <1>T, <2>0 DEF TypeOK, Calls, NoCall, CallInv
  <2>1. CASE NameTaken(call[a].doc)
    BY <1>T, <1>3, <2>1 DEF CommitActivation, Return, NoCall, RowsInv, ActiveLoads, TypeOK
  <2>2. CASE ~ NameTaken(call[a].doc)
    <3>1. /\ revisions' = Append(revisions, call[a].doc) /\ active' = Len(revisions) + 1
          /\ call' = [call EXCEPT ![a].pc = "load", ![a].id = Len(revisions) + 1]
      BY <1>3, <2>2 DEF CommitActivation, MakeActive
    <3>2. \A i \in DOMAIN revisions' : i \in DOMAIN revisions \/ i = Len(revisions) + 1
      BY <1>T, <2>c, <3>1 DEF TypeOK
    <3>3. /\ revisions'[Len(revisions) + 1] = call[a].doc
          /\ \A i \in DOMAIN revisions : revisions'[i] = revisions[i]
      BY <1>T, <2>c, <3>1, AppendRow DEF TypeOK
    <3>4. \A b \in Admins : call'[b].pc = "repoint" => call'[b] = call[b]
      BY <1>T, <2>c, <3>1 DEF TypeOK, Calls
    <3> QED
      BY <2>c, <3>1, <3>2, <3>3, <3>4, Zenon DEF RowsInv, ActiveLoads
  <2> QED
    BY <2>1, <2>2
<1>4. ASSUME NEW a \in Admins, Repoint(a)
      PROVE  RowsInv'
  <2>1. /\ call[a].pc = "repoint" /\ active' = call[a].id /\ revisions' = revisions
        /\ call' = [call EXCEPT ![a].pc = "load"]
    BY <1>4 DEF Repoint, MakeActive
  <2>2. call[a].doc = revisions[call[a].id] /\ call[a] \in Calls
    BY <1>T, <2>1 DEF CallInv, TypeOK, NoCall
  <2>3. \A b \in Admins : call'[b].pc = "repoint" => call'[b] = call[b]
    BY <1>T, <2>1, <2>2 DEF TypeOK, Calls
  <2> QED
    BY <2>1, <2>2, <2>3 DEF RowsInv, ActiveLoads
<1>5. ASSUME NEW a \in Admins, Load(a) \/ CallStops(a)
      PROVE  RowsInv'
  <2>1. /\ UNCHANGED <<revisions, active>>
        /\ call' = [call EXCEPT ![a] = NoCall]
    BY <1>5, Zenon DEF Load, CallStops, Return
  <2> QED
    BY <1>T, <2>1 DEF NoCall, RowsInv, ActiveLoads, TypeOK
<1>6. ASSUME NEW p \in Servers, NEW d \in Submissions, CreateRevision(p, d)
      PROVE  RowsInv'
  <2>1. /\ revisions' = Append(revisions, d) /\ d \in Document /\ d.valid
        /\ active' = active /\ call' = call
    BY <1>6 DEF CreateRevision
  <2>2. /\ \A i \in DOMAIN revisions' : i \in DOMAIN revisions \/ i = Len(revisions) + 1
        /\ active \in DOMAIN revisions
    BY <1>T, <2>1 DEF TypeOK
  <2>3. /\ revisions'[Len(revisions) + 1] = d
        /\ \A i \in DOMAIN revisions : revisions'[i] = revisions[i]
    BY <1>T, <2>1, AppendRow DEF TypeOK
  <2> QED
    BY <2>1, <2>2, <2>3 DEF RowsInv, ActiveLoads
<1>7. ASSUME NEW p \in Servers, Crash(p) \/ Start(p)
      PROVE  RowsInv'
  BY <1>T, <1>7 DEF Crash, Start, NoCall, RowsInv, ActiveLoads, TypeOK
<1>8. CASE UNCHANGED vars
  BY <1>8 DEF vars, RowsInv, ActiveLoads
<1> QED
  BY <1>1, <1>2, <1>3, <1>4, <1>5, <1>6, <1>7, <1>8 DEF Next, AdminStep

\* data-model.md's promise that a bad revision never displaces a good one holds
\* when no rollback names the first seeded row.
THEOREM ActiveRevisionLoads ==
    ASSUME 1 \notin Targets
    PROVE  Spec => []ActiveLoads
<1>1. Init => RowsInv
  BY SeedFacts DEF Init, RowsInv, ActiveLoads, NoCall
<1>2. RowsInv => ActiveLoads
  BY DEF RowsInv
<1> QED
  BY <1>1, <1>2, InitInv, NextInv, RowsNext, PTL DEF Spec
===============================================================================
