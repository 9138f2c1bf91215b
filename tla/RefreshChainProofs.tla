-------------------------- MODULE RefreshChainProofs --------------------------
(***************************************************************************)
(* RefreshChain, for any tokens, chains, subjects, clients, requests and   *)
(* lifetimes: a session is one thing, single-use, keeps its identity, ends *)
(* at its cap and stays ended.                                             *)
(*                                                                         *)
(* Only three steps start or carry on a session: StoreToken, Consume and   *)
(* Rotate.  Every other step is quiet, and a quiet step preserves all of   *)
(* the invariant at once (QuietPreserves).                                 *)
(***************************************************************************)
EXTENDS RefreshChain, TLAPS

\* A refresh under way holds a rotated row of its own client, read within the
\* cap, that nothing has replaced yet.
RefreshInv ==
    \A c \in Calls : InFlight(c) =>
        LET old == row[call[c].token]
        IN  /\ old.status = "rotated"
            /\ old.client = call[c].client
            /\ call[c].now < old.chain_expires_at
            /\ \A t \in DOMAIN row : row[t].parent # call[c].token

\* A row that was replaced is no longer active.
ParentInv ==
    \A t \in DOMAIN row : row[t].parent # Nil =>
        row[t].parent \in DOMAIN row /\ ~Active(row[t].parent)

\* Each row respects the cap it carries.
CapInv ==
    \A t \in DOMAIN row :
        /\ row[t].parent = Nil => row[t].chain_expires_at <= row[t].created_at + AbsoluteTtl
        /\ row[t].parent # Nil => row[t].created_at < row[t].chain_expires_at

\* A request read the clock before now.
NowInv == \A c \in Calls : call[c].at # "idle" => call[c].now <= clock

\* The inductive invariant behind the theorems on chains.
Inv ==
    /\ TypeOK
    /\ NowInv
    /\ RefreshInv
    /\ ParentInv
    /\ CapInv
    /\ OneLive
    /\ SingleSuccessor
    /\ ChainKeepsIdentity

\* No row appears and none becomes active, and no refresh gets under way.
Quiet ==
    /\ DOMAIN row' = DOMAIN row
    /\ \A t \in DOMAIN row :
          /\ row'[t].chain = row[t].chain
          /\ row'[t].subject = row[t].subject
          /\ row'[t].client = row[t].client
          /\ row'[t].created_at = row[t].created_at
          /\ row'[t].chain_expires_at = row[t].chain_expires_at
          /\ row'[t].parent = row[t].parent
          /\ row'[t].status # row[t].status => Active(t) /\ row'[t].status # "active"
    /\ \A c \in Calls : call'[c].at \in Rotating =>
          /\ call[c].at \in Rotating
          /\ call'[c].token = call[c].token
          /\ call'[c].client = call[c].client
          /\ call'[c].now = call[c].now

-------------------------------------------------------------------------------
\* Every table, call and clock starts with its type.
LEMMA InitInv == Init => Inv
<1> SUFFICES ASSUME Init PROVE Inv
  OBVIOUS
<1>1. DOMAIN row = {} /\ \A c \in Calls : call[c] = NoCall
  BY DEF Init
<1>2. NoCall \in Call /\ NoCall.at = "idle"
  BY DEF NoCall, Call, Stages
<1>3. TypeOK
  <2>1. row \in [DOMAIN row -> Row]
    BY <1>1 DEF Init
  <2>2. call \in [Calls -> Call]
    BY <1>2 DEF Init
  <2>3. standing \in [Subjects -> SUBSET Facets]
    BY DEF Init
  <2> QED
    BY <1>1, <1>2, <2>1, <2>2, <2>3 DEF Init, TypeOK
<1>4. \A c \in Calls : ~InFlight(c)
  BY <1>1, <1>2 DEF InFlight, Rotating
<1>5. NowInv /\ RefreshInv
  BY <1>1, <1>2, <1>4 DEF NowInv, RefreshInv
<1>6. ParentInv /\ CapInv /\ OneLive /\ SingleSuccessor /\ ChainKeepsIdentity
  BY <1>1, <1>4 DEF ParentInv, CapInv, OneLive, SingleSuccessor, ChainKeepsIdentity
<1> QED
  BY <1>3, <1>5, <1>6 DEF Inv

\* A quiet step keeps whatever is said of chains.
LEMMA QuietPreserves ==
    ASSUME Inv, TypeOK', NowInv', Quiet
    PROVE  Inv'
<1> USE DEF Quiet, InFlight, Active, ChainOf
<1>1. \A c \in Calls : InFlight(c)' => InFlight(c) /\ call[c].token \in DOMAIN row
  BY DEF Inv, TypeOK, Rotating, Stages
<1>2. RefreshInv'
  BY <1>1 DEF Inv, RefreshInv
<1>3. ParentInv'
  BY DEF Inv, ParentInv
<1>4. CapInv'
  BY DEF Inv, CapInv
<1>5. OneLive'
  BY <1>1 DEF Inv, OneLive
<1>6. SingleSuccessor'
  BY DEF Inv, SingleSuccessor
<1>7. ChainKeepsIdentity'
  BY DEF Inv, ChainKeepsIdentity
<1> QED
  BY <1>2, <1>3, <1>4, <1>5, <1>6, <1>7 DEF Inv

-------------------------------------------------------------------------------
\* A call that ends leaves the rows alone and holds nothing.
LEMMA ReturnTypes ==
    ASSUME call \in [Calls -> Call], NEW c \in Calls, Return(c)
    PROVE  /\ call' \in [Calls -> Call]
           /\ call'[c] = NoCall
           /\ \A d \in Calls \ {c} : call'[d] = call[d]
<1>1. NoCall \in Call
  BY DEF NoCall, Call, Stages
<1> QED
  BY <1>1 DEF Return

\* Moving a call to another stage changes only its stage.
LEMMA GoToTypes ==
    ASSUME call \in [Calls -> Call], NEW c \in Calls, NEW stage \in Stages, GoTo(c, stage)
    PROVE  /\ call' \in [Calls -> Call]
           /\ call'[c] = [call[c] EXCEPT !.at = stage]
           /\ call'[c].at = stage
           /\ call'[c].token = call[c].token
           /\ call'[c].client = call[c].client
           /\ call'[c].subject = call[c].subject
           /\ call'[c].now = call[c].now
           /\ call'[c].seen = call[c].seen
           /\ \A d \in Calls \ {c} : call'[d] = call[d]
<1>1. call[c] \in Call
  OBVIOUS
<1>2. [call[c] EXCEPT !.at = stage] \in Call
  BY <1>1 DEF Call
<1> QED
  BY <1>1, <1>2 DEF GoTo, Call

\* Revoking rows changes nothing of them but the status of active ones.
LEMMA RevokeTypes ==
    ASSUME row \in [DOMAIN row -> Row], NEW ts, Revoke(ts)
    PROVE  /\ DOMAIN row' = DOMAIN row
           /\ row' \in [DOMAIN row' -> Row]
           /\ \A t \in DOMAIN row :
                 \/ row'[t] = row[t]
                 \/ Active(t) /\ row'[t] = [row[t] EXCEPT !.status = "revoked"]
<1>1. DOMAIN row' = DOMAIN row
  BY DEF Revoke
<1>2. \A t \in DOMAIN row : row[t] \in Row /\ [row[t] EXCEPT !.status = "revoked"] \in Row
  BY DEF Row
<1>3. row' \in [DOMAIN row -> Row]
  BY <1>2 DEF Revoke
<1> QED
  BY <1>1, <1>3 DEF Revoke, Active

\* Revocation is quiet for the rows.
LEMMA RevokeQuiet ==
    ASSUME row \in [DOMAIN row -> Row], NEW ts, Revoke(ts), NEW t \in DOMAIN row
    PROVE  /\ row'[t].chain = row[t].chain
           /\ row'[t].subject = row[t].subject
           /\ row'[t].client = row[t].client
           /\ row'[t].created_at = row[t].created_at
           /\ row'[t].chain_expires_at = row[t].chain_expires_at
           /\ row'[t].parent = row[t].parent
           /\ row'[t].status # row[t].status => Active(t) /\ row'[t].status # "active"
<1>1. row[t] \in Row
  OBVIOUS
<1>2. row'[t] = row[t] \/ (Active(t) /\ row'[t] = [row[t] EXCEPT !.status = "revoked"])
  BY RevokeTypes
<1> QED
  BY <1>1, <1>2 DEF Row

\* The steps of a call that start or carry on no session are quiet.
LEMMA QuietCall ==
    ASSUME TypeOK, NowInv, NEW c \in Calls,
           \/ \E k \in Clients, s \in Subjects : Exchange(c, k, s)
           \/ \E k \in Clients, t \in Tokens : Present(c, k, t)
           \/ Burn(c) \/ Miss(c)
           \/ ResolveContext(c) \/ ReadProject(c) \/ ReadAccount(c)
           \/ FindReused(c) \/ RevokeChain(c) \/ Stop(c)
    PROVE  TypeOK' /\ NowInv' /\ Quiet
<1>0. call \in [Calls -> Call] /\ row \in [DOMAIN row -> Row] /\ NoCall.at = "idle"
  BY DEF TypeOK, NoCall
<1>1. ASSUME NEW k \in Clients, NEW s \in Subjects, Exchange(c, k, s)
      PROVE  TypeOK' /\ NowInv' /\ Quiet
  <2> DEFINE new == [NoCall EXCEPT !.at = "exchange", !.client = k, !.subject = s, !.now = clock]
  <2>1. /\ new \in Call
        /\ new.at = "exchange" /\ new.client = k /\ new.subject = s /\ new.now = clock
    BY Zenon DEF TypeOK, NoCall, Call, Stages
  <2>2. call' = [call EXCEPT ![c] = new] /\ UNCHANGED <<clock, row, delivered, standing>>
    BY <1>1, Zenon DEF Exchange
  <2> HIDE DEF new
  <2>3. TypeOK'
    BY <1>0, <2>1, <2>2 DEF TypeOK, Stages
  <2>4. NowInv'
    BY <1>0, <2>1, <2>2 DEF NowInv, TypeOK
  <2>5. Quiet
    BY <1>0, <2>1, <2>2 DEF Quiet, Rotating
  <2> QED
    BY <2>3, <2>4, <2>5
<1>2. ASSUME NEW k \in Clients, NEW t \in Tokens, Present(c, k, t)
      PROVE  TypeOK' /\ NowInv' /\ Quiet
  <2> DEFINE new == [NoCall EXCEPT !.at = "presented", !.token = t, !.client = k, !.now = clock]
  <2>1. /\ new \in Call
        /\ new.at = "presented" /\ new.client = k /\ new.token = t /\ new.now = clock
    BY Zenon DEF TypeOK, NoCall, Call, Stages
  <2>2. /\ call' = [call EXCEPT ![c] = new] /\ UNCHANGED <<clock, row, delivered, standing>>
        /\ t \in delivered
    BY <1>2, Zenon DEF Present
  <2> HIDE DEF new
  <2>3. TypeOK'
    BY <1>0, <2>1, <2>2 DEF TypeOK, Stages
  <2>4. NowInv'
    BY <1>0, <2>1, <2>2 DEF NowInv, TypeOK
  <2>5. Quiet
    BY <1>0, <2>1, <2>2 DEF Quiet, Rotating
  <2> QED
    BY <2>3, <2>4, <2>5
<1>3. ASSUME Return(c), UNCHANGED <<clock, delivered, standing>>, DOMAIN row' = DOMAIN row,
             row' \in [DOMAIN row' -> Row],
             \A t \in DOMAIN row :
                /\ row'[t].chain = row[t].chain
                /\ row'[t].subject = row[t].subject
                /\ row'[t].client = row[t].client
                /\ row'[t].created_at = row[t].created_at
                /\ row'[t].chain_expires_at = row[t].chain_expires_at
                /\ row'[t].parent = row[t].parent
                /\ row'[t].status # row[t].status => Active(t) /\ row'[t].status # "active"
      PROVE  TypeOK' /\ NowInv' /\ Quiet
  <2>1. /\ call' \in [Calls -> Call] /\ call'[c].at = "idle"
        /\ \A d \in Calls \ {c} : call'[d] = call[d]
    BY <1>0, <1>3, ReturnTypes
  <2>2. TypeOK'
    BY <1>3, <2>1 DEF TypeOK, Stages
  <2>3. NowInv'
    BY <1>3, <2>1 DEF NowInv
  <2>4. Quiet
    BY <1>3, <2>1 DEF Quiet, Rotating
  <2> QED
    BY <2>2, <2>3, <2>4
<1>4. CASE Burn(c)
  <2> DEFINE old == call[c].token
  <2>1. /\ old \in DOMAIN row /\ Active(old) /\ Return(c)
        /\ row' = [row EXCEPT ![old].status = "rotated"]
        /\ UNCHANGED <<clock, delivered, standing>>
    BY <1>4 DEF Burn, Consumed, Consumable, Active, TypeOK, Stages
  <2>2. row[old] \in Row /\ [row[old] EXCEPT !.status = "rotated"] \in Row
    BY <1>0, <2>1 DEF Row
  <2> HIDE DEF old
  <2>3. /\ DOMAIN row' = DOMAIN row /\ row'[old] = [row[old] EXCEPT !.status = "rotated"]
        /\ \A t \in DOMAIN row \ {old} : row'[t] = row[t]
    BY <2>1
  <2>4. row' \in [DOMAIN row' -> Row]
    BY <1>0, <2>1, <2>2, <2>3
  <2>5. /\ row'[old].chain = row[old].chain
        /\ row'[old].subject = row[old].subject
        /\ row'[old].client = row[old].client
        /\ row'[old].created_at = row[old].created_at
        /\ row'[old].chain_expires_at = row[old].chain_expires_at
        /\ row'[old].parent = row[old].parent
        /\ row'[old].status = "rotated"
    BY <2>2, <2>3 DEF Row
  <2> QED
    BY <1>3, <2>1, <2>3, <2>4, <2>5
<1>5. CASE RevokeChain(c)
  BY <1>0, <1>3, <1>5, RevokeTypes, RevokeQuiet DEF RevokeChain
<1>6. CASE Stop(c)
  BY <1>0, <1>3, <1>6 DEF Stop
<1>7. ASSUME NEW stage \in Stages, GoTo(c, stage), UNCHANGED <<clock, row, delivered, standing>>,
             call[c].at \in Stages \ {"idle", "exchange"}, stage # "exchange",
             stage \in Rotating => call[c].at \in Rotating
      PROVE  TypeOK' /\ NowInv' /\ Quiet
  <2>1. /\ call' \in [Calls -> Call] /\ call'[c].at = stage
        /\ call'[c].token = call[c].token /\ call'[c].client = call[c].client
        /\ call'[c].now = call[c].now
        /\ \A d \in Calls \ {c} : call'[d] = call[d]
    BY <1>0, <1>7, GoToTypes, Zenon
  <2>2. TypeOK'
    BY <1>7, <2>1 DEF TypeOK
  <2>3. NowInv'
    BY <1>7, <2>1 DEF NowInv
  <2>4. Quiet
    BY <1>7, <2>1 DEF Quiet
  <2> QED
    BY <2>2, <2>3, <2>4
<1>8. CASE Miss(c)
  BY <1>7, <1>8 DEF Miss, Stages, Rotating
<1>9. CASE FindReused(c)
  BY <1>7, <1>9 DEF FindReused, Stages, Rotating
<1>10. CASE ResolveContext(c)
  BY <1>7, <1>10 DEF ResolveContext, Revalidate, Stages, Rotating
<1>11. CASE ReadProject(c)
  BY <1>7, <1>11 DEF ReadProject, Revalidate, Stages, Rotating
<1>12. CASE ReadAccount(c)
  BY <1>7, <1>12 DEF ReadAccount, Revalidate, Stages, Rotating
<1> QED
  BY <1>1, <1>2, <1>4, <1>5, <1>6, <1>8, <1>9, <1>10, <1>11, <1>12

\* So are revocation, log-out, a change of standing and time.
LEMMA QuietAround ==
    ASSUME TypeOK, NowInv,
           \/ \E k \in Clients, t \in Tokens : RevokeToken(k, t)
           \/ \E s \in Subjects : RevokeSessions(s)
           \/ \E s \in Subjects, f \in Changing : ChangeStanding(s, f)
           \/ Tick
           \/ UNCHANGED vars
    PROVE  TypeOK' /\ NowInv' /\ Quiet
<1>0. call \in [Calls -> Call] /\ row \in [DOMAIN row -> Row]
  BY DEF TypeOK
<1>1. ASSUME NEW ts, Revoke(ts), UNCHANGED <<clock, delivered, standing, call>>
      PROVE  TypeOK' /\ NowInv' /\ Quiet
  <2>1. DOMAIN row' = DOMAIN row /\ row' \in [DOMAIN row' -> Row]
    BY <1>0, <1>1, RevokeTypes
  <2>2. TypeOK' /\ NowInv'
    BY <1>1, <2>1 DEF TypeOK, NowInv
  <2>3. Quiet
    BY <1>0, <1>1, <2>1, RevokeQuiet DEF Quiet
  <2> QED
    BY <2>2, <2>3
<1>2. ASSUME NEW s \in Subjects, NEW f \in Changing, ChangeStanding(s, f)
      PROVE  TypeOK' /\ NowInv' /\ Quiet
  <2>1. standing' \in [Subjects -> SUBSET Facets]
    BY <1>2, ConstantsAssumption DEF ChangeStanding, TypeOK, Facets
  <2>2. standing'[s] \in SUBSET Facets
    BY <2>1
  <2>3. \A c \in Calls : [call[c] EXCEPT !.seen = @ \union standing'[s]] \in Call
    BY <1>0, <2>2 DEF Call
  <2>4. /\ call' = [c \in Calls |-> IF RefreshOf(c, s)
                        THEN [call[c] EXCEPT !.seen = @ \union standing'[s]] ELSE call[c]]
        /\ UNCHANGED <<clock, row, delivered>>
    BY <1>2 DEF ChangeStanding
  <2>5. call' \in [Calls -> Call]
    BY <1>0, <2>3, <2>4
  <2>6. \A c \in Calls : /\ call'[c].at = call[c].at
                         /\ call'[c].token = call[c].token
                         /\ call'[c].client = call[c].client
                         /\ call'[c].subject = call[c].subject
                         /\ call'[c].now = call[c].now
    BY <1>0, <2>4 DEF Call
  <2>7. TypeOK'
    BY <2>1, <2>4, <2>5, <2>6 DEF TypeOK
  <2>8. NowInv' /\ Quiet
    BY <2>4, <2>6 DEF NowInv, Quiet
  <2> QED
    BY <2>7, <2>8
<1>3. ASSUME Tick PROVE TypeOK' /\ NowInv' /\ Quiet
  <2>1. \A c \in Calls : call[c].now \in Nat
    BY <1>0 DEF Call
  <2> QED
    BY <1>3, <2>1 DEF Tick, TypeOK, NowInv, Quiet
<1>4. ASSUME UNCHANGED vars PROVE TypeOK' /\ NowInv' /\ Quiet
  BY <1>4 DEF vars, TypeOK, NowInv, Quiet
<1> QED
  BY <1>1, <1>2, <1>3, <1>4, Zenon DEF RevokeToken, RevokeSessions

-------------------------------------------------------------------------------
\* Consuming an active token turns it into the one refresh under way.
LEMMA ConsumePreserves ==
    ASSUME Inv, NEW c \in Calls, Consume(c)
    PROVE  Inv'
<1> DEFINE p == call[c].token
<1>0. /\ call \in [Calls -> Call] /\ row \in [DOMAIN row -> Row] /\ call[c] \in Call
      /\ p \in DOMAIN row /\ Active(p) /\ Honored(c) /\ row[p] \in Row
      /\ row' = [row EXCEPT ![p].status = "rotated"]
      /\ call' = [call EXCEPT ![c].at = "consumed", ![c].seen = standing[row[p].subject]]
      /\ UNCHANGED <<clock, delivered, standing>>
  BY DEF Consume, Consumed, Consumable, Active, Inv, TypeOK, Stages
<1>1. [row[p] EXCEPT !.status = "rotated"] \in Row
  BY <1>0 DEF Row
<1>2. /\ DOMAIN row' = DOMAIN row /\ row' \in [DOMAIN row' -> Row]
      /\ row'[p] = [row[p] EXCEPT !.status = "rotated"]
      /\ \A t \in DOMAIN row \ {p} : row'[t] = row[t]
  BY <1>0, <1>1
<1>3. /\ row'[p].status = "rotated"
      /\ \A t \in DOMAIN row :
            /\ row'[t].chain = row[t].chain
            /\ row'[t].subject = row[t].subject
            /\ row'[t].client = row[t].client
            /\ row'[t].created_at = row[t].created_at
            /\ row'[t].chain_expires_at = row[t].chain_expires_at
            /\ row'[t].parent = row[t].parent
  BY <1>0, <1>2 DEF Row
<1>4. standing[row[p].subject] \in SUBSET Facets
  BY <1>0 DEF Inv, TypeOK, Row
<1>5. /\ call' \in [Calls -> Call] /\ call'[c].at = "consumed"
      /\ call'[c].token = p /\ call'[c].client = call[c].client /\ call'[c].now = call[c].now
      /\ \A d \in Calls \ {c} : call'[d] = call[d]
  BY <1>0, <1>4, Zenon DEF Call, Stages, Rotating
<1>6. ~InFlight(c) /\ InFlight(c)' /\ call[c].at = "presented"
  BY <1>5 DEF Consume, Consumed, InFlight, Rotating
<1>7. \A d \in Calls : InFlight(d) => call[d].token \in DOMAIN row
  BY DEF Inv, TypeOK, InFlight, Rotating, Stages
<1>8. TypeOK'
  BY <1>0, <1>2, <1>5, <1>6 DEF Inv, TypeOK, Stages, Rotating
<1>9. NowInv'
  BY <1>0, <1>5, <1>6 DEF Inv, NowInv
<1> HIDE DEF p
<1>10. RefreshInv'
  <2>1. \A t \in DOMAIN row : row[t].parent # p
    BY <1>0, ConstantsAssumption DEF Inv, ParentInv, TypeOK
  <2>2. row[p].client = call[c].client /\ call[c].now < row[p].chain_expires_at
    BY <1>0 DEF Honored, p
  <2>3. \A d \in Calls \ {c} : InFlight(d)' => InFlight(d) /\ call[d].token # p
    BY <1>0, <1>5, <1>7 DEF Inv, RefreshInv, InFlight, Active
  <2>4. ASSUME NEW d \in Calls \ {c}, InFlight(d)'
        PROVE  LET old == row'[call'[d].token]
               IN  /\ old.status = "rotated"
                   /\ old.client = call'[d].client
                   /\ call'[d].now < old.chain_expires_at
                   /\ \A t \in DOMAIN row' : row'[t].parent # call'[d].token
    BY <1>2, <1>3, <1>5, <1>7, <2>3, <2>4 DEF Inv, RefreshInv
  <2> QED
    BY <1>0, <1>2, <1>3, <1>5, <2>1, <2>2, <2>4 DEF RefreshInv
<1>11. ParentInv' /\ CapInv' /\ SingleSuccessor' /\ ChainKeepsIdentity'
  <2>1. \A t \in DOMAIN row : Active(t)' => Active(t)
    BY <1>2, <1>3, Zenon DEF Active
  <2>2. ParentInv'
    BY <1>2, <1>3, <2>1 DEF Inv, ParentInv
  <2> QED
    BY <1>2, <1>3, <2>2 DEF Inv, CapInv, SingleSuccessor, ChainKeepsIdentity
<1>12. OneLive'
  <2>1. \A t \in DOMAIN row : Active(t)' => Active(t) /\ t # p
    BY <1>2, <1>3, Zenon DEF Active
  <2>2. \A d \in Calls \ {c} : InFlight(d)' => InFlight(d) /\ ChainOf(d)' = ChainOf(d)
    BY <1>3, <1>5, <1>7 DEF InFlight, ChainOf
  <2>3. ChainOf(c)' = row[p].chain
    BY <1>0, <1>3, <1>5 DEF ChainOf
  <2>4. \A t \in DOMAIN row : Active(t)' => row[t].chain # row[p].chain
    BY <1>0, <2>1 DEF Inv, OneLive
  <2>5. \A d \in Calls \ {c} : InFlight(d)' => ChainOf(d)' # row[p].chain
    BY <1>0, <2>2 DEF Inv, OneLive
  <2> QED
    BY <1>2, <1>3, <2>1, <2>2, <2>3, <2>4, <2>5 DEF Inv, OneLive
<1> QED
  BY <1>8, <1>9, <1>10, <1>11, <1>12 DEF Inv

\* What both inserts have in common: the table grows by one row, the call ends.
LEMMA InsertFacts ==
    ASSUME TypeOK, NowInv, NEW c \in Calls, NEW t \in Tokens \ DOMAIN row, NEW r \in Row,
           Insert(t, r), Return(c), UNCHANGED <<clock, standing>>
    PROVE  /\ TypeOK' /\ NowInv'
           /\ DOMAIN row' = DOMAIN row \union {t}
           /\ row'[t] = r
           /\ \A u \in DOMAIN row : row'[u] = row[u]
           /\ \A d \in Calls : InFlight(d)' =>
                 /\ InFlight(d) /\ d # c /\ call'[d] = call[d] /\ call[d].token \in DOMAIN row
                 /\ ChainOf(d)' = ChainOf(d)
<1>1. /\ DOMAIN row' = DOMAIN row \union {t} /\ row'[t] = r
      /\ \A u \in DOMAIN row : row'[u] = row[u]
  BY DEF Insert
<1>2. row' \in [DOMAIN row' -> Row]
  BY <1>1 DEF Insert, TypeOK
<1>3. delivered' \subseteq DOMAIN row'
  BY <1>1 DEF Insert, TypeOK
<1>4. /\ call' \in [Calls -> Call] /\ call'[c] = NoCall /\ NoCall.at = "idle"
      /\ \A d \in Calls \ {c} : call'[d] = call[d]
  BY ReturnTypes, Zenon DEF TypeOK, NoCall
<1>5. TypeOK'
  BY <1>1, <1>2, <1>3, <1>4 DEF TypeOK, Stages
<1>6. NowInv'
  BY <1>4 DEF NowInv
<1>7. \A d \in Calls : InFlight(d)' => InFlight(d) /\ d # c /\ call'[d] = call[d]
  BY <1>4 DEF InFlight, Rotating
<1>8. \A d \in Calls : InFlight(d) => call[d].token \in DOMAIN row
  BY DEF TypeOK, InFlight, Rotating, Stages
<1> QED
  BY <1>1, <1>5, <1>6, <1>7, <1>8 DEF ChainOf

\* A first token starts a chain no row had.
LEMMA StoreTokenPreserves ==
    ASSUME Inv, NEW c \in Calls, StoreToken(c)
    PROVE  Inv'
<1>1. PICK t \in Tokens \ DOMAIN row, ch \in Chains \ {row[u].chain : u \in DOMAIN row} :
         Insert(t, FirstToken(c, ch))
  BY DEF StoreToken
<1> DEFINE r == FirstToken(c, ch)
<1>2. call[c] \in Call /\ call[c].at = "exchange" /\ Return(c) /\ UNCHANGED <<clock, standing>>
  BY DEF StoreToken, Inv, TypeOK
<1>3. /\ call[c].subject \in Subjects /\ call[c].client \in Clients
      /\ call[c].now \in Nat /\ clock \in Nat /\ call[c].now <= clock
  BY <1>2 DEF Inv, TypeOK, NowInv, Call
<1>4. /\ r \in Row /\ r.chain = ch /\ r.parent = Nil /\ r.status = "active"
      /\ r.chain_expires_at <= r.created_at + AbsoluteTtl
  BY <1>3, ConstantsAssumption DEF FirstToken, Row
<1>5. \A u \in DOMAIN row : row[u].chain # ch
  BY <1>1
<1> HIDE DEF r
<1>6. /\ TypeOK' /\ NowInv'
      /\ DOMAIN row' = DOMAIN row \union {t}
      /\ row'[t] = r
      /\ \A u \in DOMAIN row : row'[u] = row[u]
      /\ \A d \in Calls : InFlight(d)' =>
            /\ InFlight(d) /\ d # c /\ call'[d] = call[d] /\ call[d].token \in DOMAIN row
            /\ ChainOf(d)' = ChainOf(d)
  BY <1>1, <1>2, <1>4, InsertFacts DEF Inv, r
<1>7. RefreshInv'
  BY <1>4, <1>6, ConstantsAssumption DEF Inv, RefreshInv, TypeOK
<1>8. ParentInv'
  BY <1>4, <1>6 DEF Inv, ParentInv, Active
<1>9. CapInv'
  BY <1>4, <1>6 DEF Inv, CapInv
<1>10. OneLive'
  <2>1. \A d \in Calls : InFlight(d) /\ call[d].token \in DOMAIN row => ChainOf(d) # ch
    BY <1>5 DEF ChainOf
  <2> QED
    BY <1>4, <1>5, <1>6, <2>1 DEF Inv, OneLive, Active
<1>11. SingleSuccessor'
  BY <1>4, <1>6 DEF Inv, SingleSuccessor
<1>12. ChainKeepsIdentity'
  BY <1>4, <1>5, <1>6 DEF Inv, ChainKeepsIdentity
<1> QED
  BY <1>6, <1>7, <1>8, <1>9, <1>10, <1>11, <1>12 DEF Inv

\* A rotation puts one active row where one refresh was under way.
LEMMA RotatePreserves ==
    ASSUME Inv, NEW c \in Calls, Rotate(c)
    PROVE  Inv'
<1>1. PICK t \in Tokens \ DOMAIN row : Insert(t, Successor(c))
  BY DEF Rotate
<1> DEFINE p == call[c].token
           r == Successor(c)
<1>2. /\ call[c] \in Call /\ InFlight(c) /\ Return(c) /\ UNCHANGED <<clock, standing>>
      /\ p \in DOMAIN row /\ row[p] \in Row /\ p \in Tokens
      /\ call[c].client \in Clients /\ call[c].now \in Nat
  BY DEF Rotate, Inv, TypeOK, InFlight, Rotating, Stages, Call
<1>3. /\ r \in Row /\ r.status = "active" /\ r.parent = p
      /\ r.chain = row[p].chain /\ r.subject = row[p].subject
      /\ r.client = call[c].client /\ r.created_at = call[c].now
      /\ r.chain_expires_at = row[p].chain_expires_at
  <2>1. row[p].chain \in Chains /\ row[p].subject \in Subjects /\ row[p].chain_expires_at \in Nat
    BY <1>2 DEF Row
  <2>2. r \in Row
    BY <1>2, <2>1, ConstantsAssumption DEF Successor, Row
  <2> QED
    BY <2>2 DEF Successor
<1>4. /\ row[p].status = "rotated" /\ row[p].client = call[c].client
      /\ call[c].now < row[p].chain_expires_at
      /\ \A u \in DOMAIN row : row[u].parent # p
  BY <1>2 DEF Inv, RefreshInv
<1>5. p # Nil
  BY <1>2, ConstantsAssumption
<1> HIDE DEF r
<1>6. /\ TypeOK' /\ NowInv'
      /\ DOMAIN row' = DOMAIN row \union {t}
      /\ row'[t] = r
      /\ \A u \in DOMAIN row : row'[u] = row[u]
      /\ \A d \in Calls : InFlight(d)' =>
            /\ InFlight(d) /\ d # c /\ call'[d] = call[d] /\ call[d].token \in DOMAIN row
            /\ ChainOf(d)' = ChainOf(d)
  BY <1>1, <1>2, <1>3, InsertFacts, Zenon DEF Inv, r
<1>7. \A d \in Calls : InFlight(d)' => ChainOf(d) # row[p].chain /\ call[d].token # p
  BY <1>2, <1>6 DEF Inv, OneLive, ChainOf
<1>8. \A u \in DOMAIN row : Active(u) => row[u].chain # row[p].chain
  BY <1>2 DEF Inv, OneLive, ChainOf
<1> HIDE DEF p
<1>9. RefreshInv'
  BY <1>3, <1>6, <1>7 DEF Inv, RefreshInv
<1>10. ParentInv'
  <2>1. p \in DOMAIN row' /\ row'[t].parent = p /\ row'[p].status = "rotated"
    BY <1>2, <1>3, <1>4, <1>6
  <2>2. \A u \in DOMAIN row : row[u].parent # Nil =>
           row[u].parent \in DOMAIN row' /\ row'[row[u].parent].status # "active"
    BY <1>6 DEF Inv, ParentInv, Active
  <2> QED
    BY <1>6, <2>1, <2>2 DEF ParentInv, Active
<1>11. CapInv'
  BY <1>3, <1>4, <1>5, <1>6 DEF Inv, CapInv
<1>12. OneLive'
  BY <1>3, <1>6, <1>7, <1>8 DEF Inv, OneLive, Active
<1>13. SingleSuccessor'
  BY <1>3, <1>4, <1>6 DEF Inv, SingleSuccessor
<1>14. ChainKeepsIdentity'
  BY <1>2, <1>3, <1>4, <1>6 DEF Inv, ChainKeepsIdentity
<1> QED
  BY <1>6, <1>9, <1>10, <1>11, <1>12, <1>13, <1>14 DEF Inv

-------------------------------------------------------------------------------
\* Every step is quiet or one of the three that are not.
LEMMA StepCases ==
    ASSUME TypeOK, NowInv, [Next]_vars
    PROVE  \/ TypeOK' /\ NowInv' /\ Quiet
           \/ \E c \in Calls : StoreToken(c) \/ Consume(c) \/ Rotate(c)
<1>1. ASSUME NEW c \in Calls, CallStep(c)
      PROVE  \/ TypeOK' /\ NowInv' /\ Quiet
             \/ StoreToken(c) \/ Consume(c) \/ Rotate(c)
  BY <1>1, QuietCall DEF CallStep
<1>2. CASE \/ \E k \in Clients, t \in Tokens : RevokeToken(k, t)
           \/ \E s \in Subjects : RevokeSessions(s)
           \/ \E s \in Subjects, f \in Changing : ChangeStanding(s, f)
           \/ Tick
           \/ UNCHANGED vars
  BY <1>2, QuietAround
<1> QED
  BY <1>1, <1>2 DEF Next

\* The invariant is inductive.
LEMMA StepInv == Inv /\ [Next]_vars => Inv'
<1> SUFFICES ASSUME Inv, [Next]_vars PROVE Inv'
  OBVIOUS
<1>1. TypeOK /\ NowInv
  BY DEF Inv
<1>2. CASE TypeOK' /\ NowInv' /\ Quiet
  BY <1>2, QuietPreserves
<1>3. ASSUME NEW c \in Calls, StoreToken(c) \/ Consume(c) \/ Rotate(c) PROVE Inv'
  BY <1>3, StoreTokenPreserves, ConsumePreserves, RotatePreserves
<1> QED
  BY <1>1, <1>2, <1>3, StepCases

\* What the three facts say of every behaviour.
LEMMA Invariance == Spec => []Inv
BY InitInv, StepInv, PTL DEF Spec

\* Rows, calls and standings keep their types in every behaviour.
THEOREM TypeCorrect == Spec => []TypeOK
<1>1. Inv => TypeOK
  BY DEF Inv
<1> QED
  BY <1>1, Invariance, PTL

\* However many requests present a token at once, a chain has at most one
\* active token or one refresh under way: the conditional update that consumes
\* a token is enough, although the successor is inserted by a later statement.
THEOREM OneLiveSession == Spec => []OneLive
<1>1. Inv => OneLive
  BY DEF Inv
<1> QED
  BY <1>1, Invariance, PTL

\* No refresh token is ever replaced twice.
THEOREM RefreshIsSingleUse == Spec => []SingleSuccessor
<1>1. Inv => SingleSuccessor
  BY DEF Inv
<1> QED
  BY <1>1, Invariance, PTL

\* Rotation changes neither subject nor client nor cap of a chain.
THEOREM IdentityIsKept == Spec => []ChainKeepsIdentity
<1>1. Inv => ChainKeepsIdentity
  BY DEF Inv
<1> QED
  BY <1>1, Invariance, PTL

\* No refresh is granted to a chain as old as the absolute lifetime.
THEOREM CapHolds == Spec => []WithinCap
<1>1. Inv => WithinCap
  <2> SUFFICES ASSUME Inv, NEW t \in DOMAIN row, NEW u \in DOMAIN row,
                      row[t].chain = row[u].chain, row[u].parent = Nil, row[t].parent # Nil
               PROVE  row[t].created_at < row[u].created_at + AbsoluteTtl
    BY DEF WithinCap
  <2>1. row[t] \in Row /\ row[u] \in Row
    BY DEF Inv, TypeOK
  <2>2. /\ row[t].created_at \in Nat /\ row[u].created_at \in Nat
        /\ row[t].chain_expires_at \in Nat /\ row[u].chain_expires_at \in Nat
    BY <2>1 DEF Row
  <2>3. row[t].created_at < row[t].chain_expires_at
    BY DEF Inv, CapInv
  <2>4. row[u].chain_expires_at <= row[u].created_at + AbsoluteTtl
    BY DEF Inv, CapInv
  <2>5. row[t].chain_expires_at = row[u].chain_expires_at
    BY DEF Inv, ChainKeepsIdentity
  <2> QED
    BY <2>2, <2>3, <2>4, <2>5, ConstantsAssumption
<1> QED
  BY <1>1, Invariance, PTL

\* A chain that has ended stays ended: only an active token can be consumed,
\* only a refresh under way inserts into a chain there is.
THEOREM EndedForGood == Spec => EndedStaysEnded
<1>1. ASSUME Inv, [Next]_vars, NEW ch \in Chains, Born(ch), Ended(ch)
      PROVE  Ended(ch)'
  <2>0. TypeOK /\ NowInv
    BY <1>1 DEF Inv
  <2>1. \A d \in Calls : InFlight(d) => call[d].token \in DOMAIN row
    BY <2>0 DEF TypeOK, InFlight, Rotating, Stages
  <2>2. CASE Quiet
    BY <1>1, <2>1, <2>2 DEF Quiet, Ended, Active, InFlight, ChainOf
  <2>3. ASSUME NEW c \in Calls, Consume(c) PROVE Ended(ch)'
    <3> DEFINE p == call[c].token
    <3>1. /\ p \in DOMAIN row /\ Active(p) /\ row[p] \in Row /\ call[c] \in Call
          /\ row' = [row EXCEPT ![p].status = "rotated"]
          /\ call' = [call EXCEPT ![c].at = "consumed", ![c].seen = standing[row[p].subject]]
      BY <2>0, <2>3 DEF Consume, Consumed, Consumable, Active, TypeOK, Stages
    <3>2. row[p].chain # ch
      BY <1>1, <3>1 DEF Ended
    <3>3. /\ DOMAIN row' = DOMAIN row /\ row'[p] = [row[p] EXCEPT !.status = "rotated"]
          /\ \A t \in DOMAIN row \ {p} : row'[t] = row[t]
      BY <3>1
    <3>4. row'[p].chain = row[p].chain
      BY <3>1, <3>3 DEF Row
    <3>5. /\ call'[c].token = p
          /\ \A d \in Calls \ {c} : call'[d] = call[d]
      BY <2>0, <3>1 DEF TypeOK, Call
    <3> HIDE DEF p
    <3>6. \A t \in DOMAIN row' : row'[t].chain = ch => ~Active(t)'
      BY <1>1, <3>2, <3>3, <3>4, Zenon DEF Ended, Active
    <3>7. \A d \in Calls \ {c} : InFlight(d)' => InFlight(d) /\ ChainOf(d)' = ChainOf(d)
      BY <2>1, <3>3, <3>4, <3>5, ZenonT(40) DEF InFlight, ChainOf
    <3>8. ChainOf(c)' = row[p].chain
      BY <3>4, <3>5 DEF ChainOf
    <3> QED
      BY <1>1, <3>2, <3>6, <3>7, <3>8 DEF Ended
  <2>4. ASSUME NEW c \in Calls, NEW t \in Tokens \ DOMAIN row, NEW r \in Row, r.chain # ch,
               Insert(t, r), Return(c), UNCHANGED <<clock, standing>>
        PROVE  Ended(ch)'
    <3>1. /\ DOMAIN row' = DOMAIN row \union {t}
          /\ row'[t] = r
          /\ \A u \in DOMAIN row : row'[u] = row[u]
          /\ \A d \in Calls : InFlight(d)' => InFlight(d) /\ ChainOf(d)' = ChainOf(d)
      BY <2>0, <2>4, InsertFacts
    <3> QED
      BY <1>1, <2>4, <3>1 DEF Ended, Active
  <2>5. ASSUME NEW c \in Calls, StoreToken(c) PROVE Ended(ch)'
    <3>1. PICK t \in Tokens \ DOMAIN row, new \in Chains \ {row[u].chain : u \in DOMAIN row} :
             Insert(t, FirstToken(c, new))
      BY <2>5 DEF StoreToken
    <3>2. /\ call[c].subject \in Subjects /\ call[c].client \in Clients
          /\ call[c].now \in Nat /\ clock \in Nat
      BY <2>0, <2>5 DEF StoreToken, TypeOK, Call
    <3>3. FirstToken(c, new) \in Row /\ FirstToken(c, new).chain = new
      BY <3>2, ConstantsAssumption DEF FirstToken, Row
    <3>4. new # ch
      BY <1>1 DEF Born
    <3> QED
      BY <2>4, <2>5, <3>1, <3>3, <3>4 DEF StoreToken
  <2>6. ASSUME NEW c \in Calls, Rotate(c) PROVE Ended(ch)'
    <3>1. PICK t \in Tokens \ DOMAIN row : Insert(t, Successor(c))
      BY <2>6 DEF Rotate
    <3>2. /\ InFlight(c) /\ row[call[c].token] \in Row /\ call[c].token \in Tokens
          /\ call[c].client \in Clients /\ call[c].now \in Nat
      BY <2>0, <2>6 DEF Rotate, TypeOK, InFlight, Rotating, Stages, Call
    <3>3. Successor(c) \in Row /\ Successor(c).chain = ChainOf(c)
      BY <3>2, ConstantsAssumption DEF Successor, Row, ChainOf
    <3>4. ChainOf(c) # ch
      BY <1>1, <3>2 DEF Ended
    <3> QED
      BY <2>4, <2>6, <3>1, <3>3, <3>4 DEF Rotate
  <2> QED
    BY <1>1, <2>0, <2>2, <2>3, <2>5, <2>6, StepCases
<1>2. Inv /\ [Next]_vars => [\A ch \in Chains : Born(ch) /\ Ended(ch) => Ended(ch)']_vars
  BY <1>1
<1> QED
  BY <1>2, Invariance, PTL DEF Spec, EndedStaysEnded

-------------------------------------------------------------------------------
\* What a refresh under way has seen: its subject's standing now, and each facet
\* it has checked.
SeenBy(d) ==
    /\ standing[row[call[d].token].subject] \subseteq call[d].seen
    /\ call[d].at \in {"member", "project", "account"} => "member" \in call[d].seen
    /\ call[d].at \in {"project", "account"} => "project" \in call[d].seen
    /\ call[d].at = "account" => "account" \in call[d].seen

SeenInv == \A d \in Calls : InFlight(d) => SeenBy(d)

\* No step makes a row change its subject.
LEMMA SubjectsStay ==
    ASSUME Inv, [Next]_vars
    PROVE  \A t \in DOMAIN row : t \in DOMAIN row' /\ row'[t].subject = row[t].subject
<1>0. TypeOK /\ NowInv /\ row \in [DOMAIN row -> Row]
  BY DEF Inv, TypeOK
<1>1. CASE Quiet
  BY <1>1 DEF Quiet
<1>2. ASSUME NEW c \in Calls, Consume(c)
      PROVE  \A t \in DOMAIN row : t \in DOMAIN row' /\ row'[t].subject = row[t].subject
  BY <1>0, <1>2 DEF Consume, Consumed, Row
<1>3. ASSUME NEW t, NEW r, Insert(t, r), t \notin DOMAIN row
      PROVE  \A u \in DOMAIN row : u \in DOMAIN row' /\ row'[u].subject = row[u].subject
  BY <1>3 DEF Insert
<1>4. ASSUME NEW c \in Calls, StoreToken(c) \/ Rotate(c)
      PROVE  \A t \in DOMAIN row : t \in DOMAIN row' /\ row'[t].subject = row[t].subject
  BY <1>3, <1>4 DEF StoreToken, Rotate
<1> QED
  BY <1>0, <1>1, <1>2, <1>4, StepCases

\* SeenInv is preserved: a standing is recorded when it changes, and a facet is
\* checked against the standing of the moment.
LEMMA SeenStep == Inv /\ SeenInv /\ [Next]_vars => SeenInv'
<1> SUFFICES ASSUME Inv, SeenInv, [Next]_vars, NEW d \in Calls, InFlight(d)'
             PROVE  SeenBy(d)'
  BY DEF SeenInv
<1>0. TypeOK /\ call \in [Calls -> Call] /\ call[d] \in Call
  BY DEF Inv, TypeOK
<1>1. \A c \in Calls : InFlight(c) => call[c].token \in DOMAIN row /\ row[call[c].token].subject \in Subjects
  BY <1>0 DEF TypeOK, InFlight, Rotating, Stages, Row
<1>2. ASSUME call'[d] = call[d], standing' = standing PROVE SeenBy(d)'
  <2>1. InFlight(d) /\ SeenBy(d)
    BY <1>2 DEF SeenInv, InFlight
  <2>2. row'[call[d].token].subject = row[call[d].token].subject
    BY <1>1, <2>1, SubjectsStay
  <2> QED
    BY <1>2, <2>1, <2>2 DEF SeenBy
<1>3. ASSUME NEW c \in Calls, Return(c), standing' = standing PROVE SeenBy(d)'
  <2>1. d # c /\ call'[d] = call[d]
    BY <1>0, <1>3, ReturnTypes DEF InFlight, Rotating, NoCall
  <2> QED
    BY <1>2, <1>3, <2>1
<1>4. ASSUME NEW c \in Calls, NEW from, NEW facet \in Facets, Revalidate(c, from, facet),
             <<from, facet>> \in {<<"consumed", "member">>, <<"member", "project">>, <<"project", "account">>}
      PROVE  SeenBy(d)'
  <2>1. /\ call'[c].at = facet /\ call'[c].token = call[c].token /\ call'[c].seen = call[c].seen
        /\ \A e \in Calls \ {c} : call'[e] = call[e]
        /\ UNCHANGED <<row, standing>>
    <3>1. facet \in Stages /\ GoTo(c, facet) /\ UNCHANGED <<row, standing>>
      BY <1>4 DEF Revalidate, Stages, Rotating, Facets
    <3> QED
      BY <1>0, <3>1, GoToTypes, Zenon
  <2>2. CASE d # c
    BY <1>2, <2>1, <2>2
  <2>3. CASE d = c
    <3>1. InFlight(c) /\ SeenBy(c) /\ call[c].at = from /\ facet \in standing[row[call[c].token].subject]
      BY <1>4, Zenon DEF Revalidate, InFlight, Rotating, SeenInv
    <3> QED
      BY <1>4, <2>1, <2>3, <3>1 DEF SeenBy
  <2> QED
    BY <2>2, <2>3
<1>5. ASSUME NEW c \in Calls, Consume(c) PROVE SeenBy(d)'
  <2>1. /\ call'[c].at = "consumed" /\ call'[c].token = call[c].token
        /\ call'[c].seen = standing[row[call[c].token].subject]
        /\ \A e \in Calls \ {c} : call'[e] = call[e]
        /\ standing' = standing /\ call[c].token \in DOMAIN row
    BY <1>0, <1>5 DEF Consume, Consumed, TypeOK, Call, Stages
  <2>2. row'[call[c].token].subject = row[call[c].token].subject
    BY <2>1, SubjectsStay
  <2> QED
    BY <1>2, <2>1, <2>2 DEF SeenBy
<1>6. ASSUME NEW s \in Subjects, NEW f \in Changing, ChangeStanding(s, f) PROVE SeenBy(d)'
  <2>1. /\ \A u \in Subjects \ {s} : standing'[u] = standing[u]
        /\ call'[d] = IF RefreshOf(d, s)
                      THEN [call[d] EXCEPT !.seen = @ \union standing'[s]] ELSE call[d]
        /\ row' = row
    BY <1>0, <1>6 DEF ChangeStanding, TypeOK
  <2>2. /\ call'[d].at = call[d].at /\ call'[d].token = call[d].token
        /\ call[d].seen \subseteq call'[d].seen
        /\ RefreshOf(d, s) => standing'[s] \subseteq call'[d].seen
    BY <1>0, <2>1 DEF Call
  <2>3. InFlight(d) /\ SeenBy(d)
    BY <2>2 DEF SeenInv, InFlight
  <2>4. standing'[row[call[d].token].subject] \subseteq call'[d].seen
    BY <1>1, <2>1, <2>2, <2>3 DEF SeenBy, RefreshOf, InFlight
  <2> QED
    BY <2>1, <2>2, <2>3, <2>4 DEF SeenBy
<1>7. ASSUME NEW c \in Calls, CallStep(c) PROVE SeenBy(d)'
  <2>1. ASSUME NEW k \in Clients, NEW s \in Subjects, Exchange(c, k, s) PROVE SeenBy(d)'
    <3>1. d # c
      BY <1>0, <2>1 DEF Exchange, InFlight, Rotating, NoCall
    <3> QED
      BY <1>0, <1>2, <2>1, <3>1 DEF Exchange
  <2>2. ASSUME NEW k \in Clients, NEW t \in Tokens, Present(c, k, t) PROVE SeenBy(d)'
    <3>1. d # c
      BY <1>0, <2>2 DEF Present, InFlight, Rotating, NoCall
    <3> QED
      BY <1>0, <1>2, <2>2, <3>1 DEF Present
  <2>3. CASE Miss(c) \/ FindReused(c)
    <3>1. d # c
      BY <1>0, <2>3 DEF Miss, FindReused, GoTo, InFlight, Rotating, Call
    <3> QED
      BY <1>0, <1>2, <2>3, <3>1 DEF Miss, FindReused, GoTo
  <2>4. CASE StoreToken(c) \/ Burn(c) \/ Rotate(c) \/ RevokeChain(c) \/ Stop(c)
    BY <1>3, <2>4 DEF StoreToken, Burn, Consumed, Rotate, RevokeChain, Stop
  <2>5. CASE ResolveContext(c) \/ ReadProject(c) \/ ReadAccount(c)
    BY <1>4, <2>5 DEF ResolveContext, ReadProject, ReadAccount, Facets
  <2> QED
    BY <1>5, <1>7, <2>1, <2>2, <2>3, <2>4, <2>5 DEF CallStep
<1>8. CASE \/ \E k \in Clients, t \in Tokens : RevokeToken(k, t)
           \/ \E s \in Subjects : RevokeSessions(s)
           \/ Tick \/ UNCHANGED vars
  BY <1>2, <1>8, Zenon DEF RevokeToken, RevokeSessions, Tick, vars
<1> QED
  BY <1>6, <1>7, <1>8 DEF Next

\* A refresh is granted only to a subject whose place on the project, project
\* and account were each found good after the token was consumed.
THEOREM RefreshRevalidates == Spec => StandingChecked
<1>1. Init => SeenInv
  BY DEF Init, SeenInv, InFlight, Rotating, NoCall
<1>2. Inv /\ SeenInv => \A c \in Calls : call[c].at = "account" => call[c].seen = Facets
  <2> SUFFICES ASSUME Inv, SeenInv, NEW c \in Calls, call[c].at = "account"
               PROVE  call[c].seen = Facets
    OBVIOUS
  <2>1. call[c].seen \subseteq Facets
    BY DEF Inv, TypeOK, Call
  <2>2. SeenBy(c)
    BY DEF SeenInv, InFlight, Rotating
  <2> QED
    BY <2>1, <2>2 DEF SeenBy, Facets
<1>3. Inv /\ SeenInv /\ [Next]_vars =>
        [\A c \in Calls : call[c].at = "account" /\ row' # row /\ call'[c].at = "idle" =>
              call[c].seen = Facets]_vars
  BY <1>2
<1> QED
  BY <1>1, <1>3, SeenStep, Invariance, PTL DEF Spec, StandingChecked
===============================================================================
