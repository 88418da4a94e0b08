----------------------------- MODULE OAuthProofs -----------------------------
(***************************************************************************)
(* Proofs about OAuthServer, for any handlers, clients and bounds.         *)
(***************************************************************************)
EXTENDS OAuthServer, TLAPS

\* What a handler that is about to store a token carries over from the code or
\* the token it was given.
InFlightKeepsGrant ==
  \A h \in Handlers : pc[h] = "issuing" =>
    /\ request[h].scope \subseteq allowed_scopes[request[h].client_id]
    /\ family[h] # 0 => /\ request[h].client_id = token[family[h]].client_id
                        /\ request[h].scope \subseteq token[family[h]].scope

CodesKeepGrant == \A n \in codes : code[n].scope \subseteq allowed_scopes[code[n].client_id]

\* A token that was Valid once is gone, and remembered or its family revoked.
RotatedIsRemembered ==
  \A t \in rotated :
    /\ t \notin active
    /\ clock < token[t].expires_at => t \in consumed \/ InRevokedFamily(t)

RequestsArePast == \A h \in Handlers : request[h].now <= clock

\* The empty request is a request.
LEMMA NoRequestType == NoRequest \in Request
<1>1. (CHOOSE c \in Clients : TRUE) \in Clients
  BY OAuthAssumption
<1> QED
  BY <1>1, OAuthAssumption DEF NoRequest, Request

\* Init is well typed.
LEMMA InitType == Init => TypeOK
<1> SUFFICES ASSUME Init PROVE TypeOK
  OBVIOUS
<1>1. code \in [1..issued -> AuthCode] /\ token \in [1..minted -> RefreshToken]
  BY DEF Init
<1> QED
  BY <1>1, NoRequestType, OAuthAssumption DEF Init, TypeOK

\* A handler that answers is well typed.
LEMMA FinishType ==
  ASSUME TypeOK, NEW h \in Handlers, Finish(h)
  PROVE  /\ pc' \in [Handlers -> {"idle", "rotating", "revoking", "issuing", "ending"}]
         /\ request' \in [Handlers -> Request]
         /\ family' \in [Handlers -> 0..minted]
         /\ \A g \in Handlers : pc'[g] = "ending" => family'[g] # 0
BY NoRequestType DEF TypeOK, Finish

\* The part of the type that concerns the stores of codes.
CodesType ==
  /\ issued \in 0..MaxCodes /\ code \in [1..issued -> AuthCode] /\ codes \subseteq 1..issued

StoreType ==
  /\ minted \in 0..MaxTokens /\ token \in [1..minted -> RefreshToken]
  /\ \A t \in 1..minted : token[t].family_id \in 1..minted
  /\ active \subseteq 1..minted /\ consumed \subseteq 1..minted
  /\ revoked_families \subseteq 1..minted /\ rotated \subseteq 1..minted

HandlerType ==
  /\ pc \in [Handlers -> {"idle", "rotating", "revoking", "issuing", "ending"}]
  /\ request \in [Handlers -> Request]
  /\ family \in [Handlers -> 0..minted]
  /\ \A h \in Handlers : pc[h] = "ending" => family[h] # 0

\* The type invariant by parts.
Parts == registered \subseteq Clients /\ CodesType /\ StoreType /\ HandlerType /\ clock \in 0..MaxTime

\* Every step keeps the type.
LEMMA NextType == TypeOK /\ [Next]_vars => TypeOK'
<1> SUFFICES ASSUME TypeOK, [Next]_vars PROVE TypeOK'
  OBVIOUS
<1> SUFFICES Parts'
  BY DEF Parts, TypeOK, CodesType, StoreType, HandlerType
<1>0. registered \subseteq Clients /\ CodesType /\ StoreType /\ HandlerType /\ clock \in 0..MaxTime
  BY DEF TypeOK, CodesType, StoreType, HandlerType
<1> USE OAuthAssumption DEF Parts
<1>1. ASSUME NEW c \in Clients, NEW scope \in SUBSET Scopes, authorize(c, scope)
      PROVE  Parts'
  <2>1. [client_id |-> c, scope |-> scope, expires_at |-> clock + CodeTtl] \in AuthCode
    BY <1>0 DEF AuthCode
  <2>2. issued' = issued + 1 /\ issued' \in 0..MaxCodes
    BY <1>0, <1>1 DEF authorize, CodesType
  <2>3. code' \in [1..issued' -> AuthCode]
    BY <1>0, <1>1, <2>1, <2>2 DEF authorize, CodesType
  <2>4. codes' \subseteq 1..issued'
    BY <1>0, <1>1, <2>2 DEF authorize, CodesType
  <2> QED
    BY <1>0, <1>1, <2>2, <2>3, <2>4 DEF authorize, storeVars, CodesType, StoreType, HandlerType
<1>2. ASSUME NEW h \in Handlers, NEW n \in 1..issued, NEW c \in Clients, NEW proved \in BOOLEAN,
             exchange_authorization_code(h, n, c, proved)
      PROVE  Parts'
  <2>1. CodesType' /\ StoreType' /\ registered' \subseteq Clients /\ clock' \in 0..MaxTime
    BY <1>0, <1>2 DEF exchange_authorization_code, storeVars, CodesType, StoreType
  <2>2. [token |-> 0, client_id |-> c, scope |-> code[n].scope, now |-> clock] \in Request
    BY <1>0 DEF Request, CodesType, AuthCode
  <2>3. CASE Finish(h)
    BY <1>0, <1>2, <2>1, <2>3, FinishType DEF exchange_authorization_code, storeVars, HandlerType
  <2>4. CASE ~Finish(h)
    <3>1. pc' = [pc EXCEPT ![h] = "issuing"] /\ family' = [family EXCEPT ![h] = 0]
          /\ request' = [request EXCEPT ![h] =
                [token |-> 0, client_id |-> c, scope |-> code[n].scope, now |-> clock]]
          /\ minted' = minted
      BY <1>2, <2>4 DEF exchange_authorization_code, storeVars
    <3>2. 0 \in 0..minted
      BY <1>0 DEF StoreType
    <3>3. HandlerType'
      BY <1>0, <3>1, <3>2, <2>2 DEF HandlerType
    <3> QED
      BY <2>1, <3>3
  <2> QED
    BY <2>3, <2>4
<1>3. ASSUME NEW h \in Handlers, NEW t \in 1..minted, NEW c \in Clients, NEW scope \in SUBSET Scopes,
             NEW step \in {"rotating", "revoking"}, present(h, t, c, scope, step)
      PROVE  Parts'
  <2>1. [token |-> t, client_id |-> c, scope |-> scope, now |-> clock] \in Request
    BY <1>0 DEF Request, StoreType
  <2> QED
    BY <1>0, <1>3, <2>1 DEF present, storeVars, codeVars, CodesType, StoreType, HandlerType
<1>4. ASSUME NEW h \in Handlers, consume_revoked(h)
      PROVE  Parts'
  BY <1>0, <1>4, FinishType DEF consume_revoked, codeVars, CodesType, StoreType, HandlerType
<1>5. ASSUME NEW h \in Handlers, consume_active(h)
      PROVE  Parts'
  <2>1. presented(h) \in 1..minted /\ token[presented(h)].family_id \in 1..minted
    BY <1>0, <1>5 DEF consume_active, Usable, StoreType
  <2>2. CodesType' /\ StoreType' /\ registered' \subseteq Clients /\ clock' \in 0..MaxTime
    BY <1>0, <1>5, <2>1 DEF consume_active, codeVars, CodesType, StoreType
  <2>3. minted' = minted
    BY <1>5 DEF consume_active
  <2>4. CASE Finish(h)
    BY <2>2, <2>3, <2>4, FinishType DEF HandlerType
  <2>5. CASE ~Finish(h)
    <3>1. pc' = [pc EXCEPT ![h] = IF pc[h] = "revoking" THEN "ending" ELSE "issuing"]
          /\ family' = [family EXCEPT ![h] = token[presented(h)].family_id] /\ request' = request
      BY <1>5, <2>5 DEF consume_active
    <3>2. HandlerType'
      BY <1>0, <2>1, <2>3, <3>1 DEF HandlerType, StoreType
    <3> QED
      BY <2>2, <3>2
  <2> QED
    BY <2>4, <2>5
<1>6. ASSUME NEW h \in Handlers, consume_replayed(h)
      PROVE  Parts'
  BY <1>0, <1>6, FinishType
  DEF consume_replayed, codeVars, Remembered, OfFamily, CodesType, StoreType, HandlerType
<1>7. ASSUME NEW h \in Handlers, consume_unknown(h)
      PROVE  Parts'
  BY <1>0, <1>7, FinishType
  DEF consume_unknown, codeVars, Remembered, CodesType, StoreType, HandlerType
<1>8. ASSUME NEW h \in Handlers, issue_refresh_token(h)
      PROVE  Parts'
  <2>1. minted' = minted + 1 /\ minted' \in 0..MaxTokens /\ minted \in Nat
    BY <1>0, <1>8 DEF issue_refresh_token, StoreType
  <2> DEFINE new == [family_id |-> IF family[h] = 0 THEN minted + 1 ELSE family[h],
                     client_id |-> request[h].client_id, scope |-> request[h].scope,
                     expires_at |-> clock + TokenTtl]
  <2>2. family[h] \in 0..minted /\ request[h] \in Request
    BY <1>0 DEF HandlerType
  <2>3. new \in RefreshToken /\ new.family_id \in 1..minted + 1
    BY <1>0, <2>1, <2>2 DEF RefreshToken, Request
  <2>4. token' = [n \in 1..minted + 1 |-> IF n <= minted THEN token[n] ELSE new]
    BY <1>8 DEF issue_refresh_token
  <2> HIDE DEF new
  <2>5. token' \in [1..minted' -> RefreshToken]
    BY <1>0, <2>1, <2>3, <2>4 DEF StoreType
  <2>6. \A t \in 1..minted' : token'[t].family_id \in 1..minted'
    BY <1>0, <2>1, <2>3, <2>4 DEF StoreType
  <2>7. StoreType'
    BY <1>0, <1>8, <2>1, <2>5, <2>6 DEF issue_refresh_token, StoreType
  <2>8. HandlerType'
    BY <1>0, <1>8, <2>1, FinishType DEF issue_refresh_token, HandlerType
  <2> QED
    BY <1>0, <1>8, <2>7, <2>8 DEF issue_refresh_token, codeVars, CodesType
<1>9. ASSUME NEW h \in Handlers, revoke_family(h)
      PROVE  Parts'
  <2>1. family[h] \in 1..minted
    BY <1>0, <1>9 DEF revoke_family, HandlerType, StoreType
  <2> QED
    BY <1>0, <1>9, <2>1, FinishType
    DEF revoke_family, codeVars, OfFamily, CodesType, StoreType, HandlerType
<1>10. ASSUME NEW h \in Handlers, abandon(h)
       PROVE  Parts'
  BY <1>0, <1>10, FinishType DEF abandon, codeVars, storeVars, CodesType, StoreType, HandlerType
<1>11. ASSUME NEW c \in Clients, register(c) \/ delete(c)
       PROVE  Parts'
  BY <1>0, <1>11 DEF register, delete, codeVars, storeVars, CodesType, StoreType, HandlerType
<1>12. CASE tick
  BY <1>0, <1>12 DEF tick, codeVars, storeVars, CodesType, StoreType, HandlerType
<1>13. CASE UNCHANGED vars
  BY <1>0, <1>13 DEF vars, CodesType, StoreType, HandlerType
<1> QED
  BY <1>1, <1>2, <1>3, <1>4, <1>5, <1>6, <1>7, <1>8, <1>9, <1>10, <1>11, <1>12, <1>13
  DEF Next, Step, consume

\* The server is well typed for any handlers, clients and bounds.
THEOREM TypeCorrect == Spec => []TypeOK
BY InitType, NextType, PTL DEF Spec
-----------------------------------------------------------------------------
\* A step that lets no handler rotate a token, and adds none, keeps families
\* chains.
LEMMA ChainsShrink ==
  ASSUME TypeOK, OneLiveTokenPerFamily, active' \subseteq active, token' = token,
         \A h \in Handlers : pc'[h] = "issuing" /\ family'[h] # 0 =>
           pc[h] = "issuing" /\ family[h] = family'[h]
  PROVE  OneLiveTokenPerFamily'
<1>1. \A t \in active : token[t].family_id # 0
  BY DEF TypeOK
<1> QED
  BY <1>1 DEF OneLiveTokenPerFamily, Rotating

\* What Finish does to the handlers.
LEMMA FinishIsIdle ==
  ASSUME TypeOK, NEW h \in Handlers, Finish(h)
  PROVE  /\ pc'[h] = "idle" /\ request'[h].now = 0
         /\ \A g \in Handlers : g # h => pc'[g] = pc[g] /\ family'[g] = family[g] /\ request'[g] = request[g]
BY DEF TypeOK, Finish, NoRequest

\* consume_active of a handler that goes on.
LEMMA ConsumeGoesOn ==
  ASSUME TypeOK, NEW h \in Handlers, consume_active(h), pc'[h] = "issuing"
  PROVE  /\ pc[h] = "rotating" /\ Rotates(h) /\ request' = request
         /\ family'[h] = token[presented(h)].family_id
         /\ \A g \in Handlers : g # h => pc'[g] = pc[g] /\ family'[g] = family[g]
<1>1. ~Finish(h)
  BY FinishIsIdle
<1>2. /\ pc[h] = "revoking" \/ Rotates(h)
      /\ pc' = [pc EXCEPT ![h] = IF pc[h] = "revoking" THEN "ending" ELSE "issuing"]
      /\ family' = [family EXCEPT ![h] = token[presented(h)].family_id]
      /\ request' = request
  BY <1>1 DEF consume_active
<1> QED
  BY <1>2 DEF consume_active, Consuming, TypeOK

\* consume_active of a handler that does not.
LEMMA ConsumeEnds ==
  ASSUME TypeOK, NEW h \in Handlers, consume_active(h)
  PROVE  \A g \in Handlers : g # h => pc'[g] = pc[g] /\ family'[g] = family[g] /\ request'[g] = request[g]
<1>1. CASE Finish(h)
  BY <1>1, FinishIsIdle
<1>2. CASE ~Finish(h)
  BY <1>2 DEF consume_active, TypeOK
<1> QED
  BY <1>1, <1>2

\* Every step keeps families chains.
LEMMA NextChains == TypeOK /\ OneLiveTokenPerFamily /\ [Next]_vars => OneLiveTokenPerFamily'
<1> SUFFICES ASSUME TypeOK, OneLiveTokenPerFamily, [Next]_vars
             PROVE  OneLiveTokenPerFamily'
  OBVIOUS
<1>1. ASSUME NEW c \in Clients, NEW scope \in SUBSET Scopes, authorize(c, scope)
      PROVE  OneLiveTokenPerFamily'
  BY <1>1, ChainsShrink DEF authorize, storeVars
<1>2. ASSUME NEW h \in Handlers, NEW n \in 1..issued, NEW c \in Clients, NEW proved \in BOOLEAN,
             exchange_authorization_code(h, n, c, proved)
      PROVE  OneLiveTokenPerFamily'
  <2>1. active' = active /\ token' = token
    BY <1>2 DEF exchange_authorization_code, storeVars
  <2>2. family'[h] = 0 /\ \A g \in Handlers : g # h => pc'[g] = pc[g] /\ family'[g] = family[g]
    BY <1>2 DEF exchange_authorization_code, Finish, TypeOK
  <2> QED
    BY <2>1, <2>2, ChainsShrink
<1>3. ASSUME NEW h \in Handlers, NEW t \in 1..minted, NEW c \in Clients, NEW scope \in SUBSET Scopes,
             NEW step \in {"rotating", "revoking"}, present(h, t, c, scope, step)
      PROVE  OneLiveTokenPerFamily'
  <2>1. active' = active /\ token' = token /\ family' = family
    BY <1>3 DEF present, storeVars
  <2>2. pc'[h] # "issuing" /\ \A g \in Handlers : g # h => pc'[g] = pc[g]
    BY <1>3 DEF present, TypeOK
  <2> QED
    BY <2>1, <2>2, ChainsShrink
<1>4. ASSUME NEW h \in Handlers, consume_active(h)
      PROVE  OneLiveTokenPerFamily'
  <2>1. presented(h) \in active /\ active' = active \ {presented(h)} /\ token' = token
    BY <1>4 DEF consume_active, Usable
  <2>2. CASE pc'[h] # "issuing"
    BY <1>4, <2>1, <2>2, ConsumeEnds, ChainsShrink
  <2>3. CASE pc'[h] = "issuing"
    <3> DEFINE f == token[presented(h)].family_id
    <3>1. /\ family'[h] = f
          /\ \A g \in Handlers : g # h => pc'[g] = pc[g] /\ family'[g] = family[g]
      BY <1>4, <2>3, ConsumeGoesOn
    <3>2. \A t \in active' : token[t].family_id # f
      BY <2>1 DEF OneLiveTokenPerFamily
    <3>3. \A g \in Handlers : ~Rotating(g, f)
      BY <2>1 DEF OneLiveTokenPerFamily
    <3>4. \A t \in active', g \in Handlers : ~(pc'[g] = "issuing" /\ family'[g] = token[t].family_id)
      BY <2>1, <3>1, <3>2 DEF OneLiveTokenPerFamily, Rotating
    <3>5. \A g, k \in Handlers : pc'[g] = "issuing" /\ family'[g] # 0 /\ pc'[k] = "issuing"
                                 /\ family'[k] = family'[g] => g = k
      BY <3>1, <3>3 DEF OneLiveTokenPerFamily, Rotating
    <3> QED
      BY <2>1, <3>4, <3>5 DEF OneLiveTokenPerFamily, Rotating
  <2> QED
    BY <2>2, <2>3
<1>5. ASSUME NEW h \in Handlers, consume_revoked(h) \/ consume_replayed(h) \/ consume_unknown(h)
                                 \/ revoke_family(h) \/ abandon(h)
      PROVE  OneLiveTokenPerFamily'
  <2>1. Finish(h) /\ active' \subseteq active /\ token' = token
    BY <1>5 DEF consume_revoked, consume_replayed, consume_unknown, revoke_family, abandon, storeVars
  <2> QED
    BY <2>1, FinishIsIdle, ChainsShrink
<1>6. ASSUME NEW h \in Handlers, issue_refresh_token(h)
      PROVE  OneLiveTokenPerFamily'
  <2> DEFINE new == minted + 1
             f == IF family[h] = 0 THEN new ELSE family[h]
  <2>1. pc[h] = "issuing" /\ active' = active \cup {new} /\ token'[new].family_id = f
        /\ \A t \in active : token'[t] = token[t]
    BY <1>6 DEF issue_refresh_token, TypeOK
  <2>2. /\ pc'[h] = "idle"
        /\ \A g \in Handlers : g # h => pc'[g] = pc[g] /\ family'[g] = family[g]
    BY <1>6, FinishIsIdle DEF issue_refresh_token
  <2>3. \A t \in active : token[t].family_id \in 1..minted
    BY DEF TypeOK
  <2>4. \A g \in Handlers : family[g] \in 0..minted
    BY DEF TypeOK
  <2>5. minted \in Nat /\ new \notin active
    BY DEF TypeOK
  <2>6. \A t \in active : token[t].family_id # f
    BY <2>1, <2>3, <2>5 DEF OneLiveTokenPerFamily, Rotating
  <2>7. \A g \in Handlers : g # h => ~(pc[g] = "issuing" /\ family[g] = f)
    BY <2>1, <2>4, <2>5 DEF OneLiveTokenPerFamily, Rotating
  <2> HIDE DEF f, new
  <2>8. \A t, u \in active' : token'[t].family_id = token'[u].family_id => t = u
    BY <2>1, <2>6 DEF OneLiveTokenPerFamily
  <2>9. \A t \in active', g \in Handlers : ~(pc'[g] = "issuing" /\ family'[g] = token'[t].family_id)
    BY <2>1, <2>2, <2>7 DEF OneLiveTokenPerFamily, Rotating
  <2>10. \A g, k \in Handlers : pc'[g] = "issuing" /\ family'[g] # 0 /\ pc'[k] = "issuing"
                                /\ family'[k] = family'[g] => g = k
    BY <2>2 DEF OneLiveTokenPerFamily, Rotating
  <2> QED
    BY <2>8, <2>9, <2>10 DEF OneLiveTokenPerFamily, Rotating
<1>7. ASSUME NEW c \in Clients, register(c) \/ delete(c)
      PROVE  OneLiveTokenPerFamily'
  BY <1>7, ChainsShrink DEF register, delete, storeVars
<1>8. CASE tick \/ UNCHANGED vars
  BY <1>8, ChainsShrink DEF tick, vars, storeVars
<1> QED
  BY <1>1, <1>2, <1>3, <1>4, <1>5, <1>6, <1>7, <1>8 DEF Next, Step, consume

\* "Single-use": a family of refresh tokens is a chain, whatever the handlers
\* do side by side (RefreshTokenStore::consume, issue_refresh_token).
THEOREM FamiliesAreChains == Spec => []OneLiveTokenPerFamily
<1>1. Init => OneLiveTokenPerFamily
  BY DEF Init, OneLiveTokenPerFamily, Rotating
<1> QED
  BY <1>1, NextChains, TypeCorrect, PTL DEF Spec
-----------------------------------------------------------------------------
Grants == FamilyKeepsGrant /\ InFlightKeepsGrant /\ CodesKeepGrant

\* A step that makes no code, lets no handler go on to issue and makes no token
\* keeps the grants.
LEMMA GrantsKept ==
  ASSUME Grants, token' = token, minted' = minted, code' = code, codes' \subseteq codes,
         \A h \in Handlers : pc'[h] = "issuing" =>
           pc[h] = "issuing" /\ request'[h] = request[h] /\ family'[h] = family[h]
  PROVE  Grants'
<1>1. FamilyKeepsGrant'
  BY DEF Grants, FamilyKeepsGrant
<1>2. InFlightKeepsGrant'
  BY DEF Grants, InFlightKeepsGrant
<1>3. CodesKeepGrant'
  BY DEF Grants, CodesKeepGrant
<1> QED
  BY <1>1, <1>2, <1>3 DEF Grants

\* Every step keeps the grants.
LEMMA NextGrants == TypeOK /\ Grants /\ [Next]_vars => Grants'
<1> SUFFICES ASSUME TypeOK, Grants, [Next]_vars PROVE Grants'
  OBVIOUS
<1>1. ASSUME NEW c \in Clients, NEW scope \in SUBSET Scopes, authorize(c, scope)
      PROVE  Grants'
  <2>1. UNCHANGED <<token, minted, pc, request, family>>
    BY <1>1 DEF authorize, storeVars
  <2>2. codes' = codes \cup {issued + 1} /\ scope \subseteq allowed_scopes[c]
    BY <1>1 DEF authorize
  <2>3. \A n \in codes : code'[n] = code[n]
    BY <1>1 DEF authorize, TypeOK
  <2>4. code'[issued + 1].scope = scope /\ code'[issued + 1].client_id = c
    BY <1>1 DEF authorize, TypeOK
  <2>5. CodesKeepGrant'
    BY <2>2, <2>3, <2>4 DEF Grants, CodesKeepGrant
  <2> QED
    BY <2>1, <2>5 DEF Grants, FamilyKeepsGrant, InFlightKeepsGrant
<1>2. ASSUME NEW h \in Handlers, NEW n \in 1..issued, NEW c \in Clients, NEW proved \in BOOLEAN,
             exchange_authorization_code(h, n, c, proved)
      PROVE  Grants'
  <2>1. UNCHANGED <<token, minted, code>> /\ codes' \subseteq codes /\ n \in codes
    BY <1>2 DEF exchange_authorization_code, storeVars
  <2>2. CASE Finish(h)
    BY <2>1, <2>2, FinishIsIdle, GrantsKept
  <2>3. CASE ~Finish(h)
    <3>1. /\ code[n].client_id = c /\ family'[h] = 0
          /\ request'[h].client_id = c /\ request'[h].scope = code[n].scope
          /\ \A g \in Handlers : g # h => pc'[g] = pc[g] /\ family'[g] = family[g] /\ request'[g] = request[g]
      BY <1>2, <2>3 DEF exchange_authorization_code, TypeOK
    <3>2. InFlightKeepsGrant'
      BY <2>1, <3>1 DEF Grants, InFlightKeepsGrant, CodesKeepGrant
    <3> QED
      BY <2>1, <3>2 DEF Grants, FamilyKeepsGrant, CodesKeepGrant
  <2> QED
    BY <2>2, <2>3
<1>3. ASSUME NEW h \in Handlers, NEW t \in 1..minted, NEW c \in Clients, NEW scope \in SUBSET Scopes,
             NEW step \in {"rotating", "revoking"}, present(h, t, c, scope, step)
      PROVE  Grants'
  <2>1. UNCHANGED <<token, minted, codes, code, family>>
    BY <1>3 DEF present, storeVars, codeVars
  <2>2. pc'[h] # "issuing" /\ \A g \in Handlers : g # h => pc'[g] = pc[g] /\ request'[g] = request[g]
    BY <1>3 DEF present, TypeOK
  <2> QED
    BY <2>1, <2>2, GrantsKept
<1>4. ASSUME NEW h \in Handlers, consume_active(h)
      PROVE  Grants'
  <2>1. presented(h) \in 1..minted /\ UNCHANGED <<token, minted, codes, code>>
    BY <1>4 DEF consume_active, Usable, codeVars, TypeOK
  <2>2. \A g \in Handlers : g # h => pc'[g] = pc[g] /\ family'[g] = family[g] /\ request'[g] = request[g]
    BY <1>4, ConsumeEnds
  <2>3. CASE pc'[h] # "issuing"
    BY <2>1, <2>2, <2>3, GrantsKept
  <2>4. CASE pc'[h] = "issuing"
    <3> DEFINE p == token[presented(h)]
    <3>1. Rotates(h) /\ request' = request /\ family'[h] = p.family_id
      BY <1>4, <2>4, ConsumeGoesOn
    <3>2. request[h].client_id = p.client_id /\ request[h].scope \subseteq p.scope
      BY <3>1 DEF Rotates
    <3>3. /\ p.client_id = token[p.family_id].client_id /\ p.scope \subseteq token[p.family_id].scope
          /\ p.scope \subseteq allowed_scopes[p.client_id]
      BY <2>1 DEF Grants, FamilyKeepsGrant
    <3>4. InFlightKeepsGrant'
      BY <2>1, <2>2, <3>1, <3>2, <3>3 DEF Grants, InFlightKeepsGrant
    <3> QED
      BY <2>1, <3>4 DEF Grants, FamilyKeepsGrant, CodesKeepGrant
  <2> QED
    BY <2>3, <2>4
<1>5. ASSUME NEW h \in Handlers, consume_revoked(h) \/ consume_replayed(h) \/ consume_unknown(h)
                                 \/ revoke_family(h) \/ abandon(h)
      PROVE  Grants'
  <2>1. Finish(h) /\ UNCHANGED <<token, minted, codes, code>>
    BY <1>5 DEF consume_revoked, consume_replayed, consume_unknown, revoke_family, abandon,
                storeVars, codeVars
  <2> QED
    BY <2>1, FinishIsIdle, GrantsKept
<1>6. ASSUME NEW h \in Handlers, issue_refresh_token(h)
      PROVE  Grants'
  <2> DEFINE new == minted + 1
             f == IF family[h] = 0 THEN new ELSE family[h]
  <2>1. /\ pc[h] = "issuing" /\ minted' = new /\ UNCHANGED <<codes, code>>
        /\ token'[new].family_id = f /\ token'[new].client_id = request[h].client_id
        /\ token'[new].scope = request[h].scope
    BY <1>6 DEF issue_refresh_token, codeVars, TypeOK
  <2>2. \A t \in 1..minted : token'[t] = token[t] /\ token[t].family_id \in 1..minted
    BY <1>6 DEF issue_refresh_token, TypeOK
  <2>3. /\ pc'[h] = "idle"
        /\ \A g \in Handlers : g # h => pc'[g] = pc[g] /\ family'[g] = family[g] /\ request'[g] = request[g]
    BY <1>6, FinishIsIdle DEF issue_refresh_token
  <2>4. \A g \in Handlers : family[g] \in 0..minted
    BY DEF TypeOK
  <2>5. minted \in Nat
    BY DEF TypeOK
  <2>6. /\ request[h].scope \subseteq allowed_scopes[request[h].client_id]
        /\ family[h] # 0 => /\ request[h].client_id = token[family[h]].client_id
                            /\ request[h].scope \subseteq token[family[h]].scope
    BY <2>1 DEF Grants, InFlightKeepsGrant
  <2>7. /\ token'[new].client_id = token'[f].client_id /\ token'[new].scope \subseteq token'[f].scope
    <3>1. CASE family[h] = 0
      BY <3>1
    <3>2. CASE family[h] # 0
      <4>1. family[h] \in 1..minted /\ f = family[h]
        BY <2>4, <2>5, <3>2
      <4> QED
        BY <2>1, <2>2, <2>6, <3>2, <4>1
    <3> QED
      BY <3>1, <3>2
  <2>8. \A t \in 1..minted' : t = new \/ t \in 1..minted
    BY <2>1, <2>5
  <2> HIDE DEF new, f
  <2>9. FamilyKeepsGrant'
    BY <2>1, <2>2, <2>6, <2>7, <2>8 DEF Grants, FamilyKeepsGrant
  <2>10. \A g \in Handlers : family[g] # 0 => token'[family[g]] = token[family[g]]
    BY <2>2, <2>4, <2>5
  <2>11. InFlightKeepsGrant'
    BY <2>3, <2>10 DEF Grants, InFlightKeepsGrant
  <2> QED
    BY <2>1, <2>9, <2>11 DEF Grants, CodesKeepGrant
<1>7. ASSUME NEW c \in Clients, register(c) \/ delete(c)
      PROVE  Grants'
  BY <1>7, GrantsKept DEF register, delete, storeVars, codeVars
<1>8. CASE tick \/ UNCHANGED vars
  BY <1>8, GrantsKept DEF tick, vars, storeVars, codeVars
<1> QED
  BY <1>1, <1>2, <1>3, <1>4, <1>5, <1>6, <1>7, <1>8 DEF Next, Step, consume

\* A rotation never widens what was granted (exchange_refresh_token).
THEOREM GrantsNeverWiden == Spec => []FamilyKeepsGrant
<1>1. Init => Grants
  BY DEF Init, Grants, FamilyKeepsGrant, InFlightKeepsGrant, CodesKeepGrant
<1> QED
  BY <1>1, NextGrants, TypeCorrect, PTL DEF Spec, Grants
-----------------------------------------------------------------------------
Memory == RotatedIsRemembered /\ RequestsArePast

\* A step that only forgets expired tokens, or those of revoked families, keeps
\* the memory of the tokens that were Valid.
LEMMA MemoryKept ==
  ASSUME TypeOK, Memory, token' = token, rotated' = rotated, active' \subseteq active,
         revoked_families \subseteq revoked_families', clock' \in Nat, clock <= clock',
         \A t \in consumed : t \in consumed' \/ token[t].expires_at <= clock
                             \/ token[t].family_id \in revoked_families',
         \A h \in Handlers : request'[h].now <= clock'
  PROVE  Memory'
<1>1. \A t \in rotated : token[t].expires_at \in Nat
  BY DEF TypeOK, RefreshToken
<1>2. clock \in Nat
  BY OAuthAssumption DEF TypeOK
<1>3. RotatedIsRemembered'
  BY <1>1, <1>2 DEF Memory, RotatedIsRemembered, InRevokedFamily
<1> QED
  BY <1>3 DEF Memory, RequestsArePast

\* Every step keeps that memory.
LEMMA NextMemory == TypeOK /\ Memory /\ [Next]_vars => Memory'
<1> SUFFICES ASSUME TypeOK, Memory, [Next]_vars PROVE Memory'
  OBVIOUS
<1>0. clock \in Nat /\ \A h \in Handlers : request[h].now \in Nat /\ request[h].now <= clock
  BY OAuthAssumption DEF TypeOK, Request, Memory, RequestsArePast
<1>1. ASSUME NEW c \in Clients, NEW scope \in SUBSET Scopes, authorize(c, scope)
      PROVE  Memory'
  BY <1>0, <1>1, MemoryKept DEF authorize, storeVars
<1>2. ASSUME NEW h \in Handlers, NEW n \in 1..issued, NEW c \in Clients, NEW proved \in BOOLEAN,
             exchange_authorization_code(h, n, c, proved)
      PROVE  Memory'
  <2>1. UNCHANGED <<token, rotated, active, consumed, revoked_families, clock>>
    BY <1>2 DEF exchange_authorization_code, storeVars
  <2>2. \A g \in Handlers : request'[g].now <= clock
    <3>1. CASE Finish(h)
      BY <1>0, <3>1, FinishIsIdle
    <3>2. CASE ~Finish(h)
      <4>1. request'[h].now = clock /\ \A g \in Handlers : g # h => request'[g] = request[g]
        BY <1>2, <3>2 DEF exchange_authorization_code, TypeOK
      <4> QED
        BY <1>0, <4>1
    <3> QED
      BY <3>1, <3>2
  <2> QED
    BY <1>0, <2>1, <2>2, MemoryKept
<1>3. ASSUME NEW h \in Handlers, NEW t \in 1..minted, NEW c \in Clients, NEW scope \in SUBSET Scopes,
             NEW step \in {"rotating", "revoking"}, present(h, t, c, scope, step)
      PROVE  Memory'
  <2>1. UNCHANGED <<token, rotated, active, consumed, revoked_families, clock>>
    BY <1>3 DEF present, storeVars
  <2>2. \A g \in Handlers : request'[g].now <= clock
    BY <1>0, <1>3 DEF present, TypeOK
  <2> QED
    BY <1>0, <2>1, <2>2, MemoryKept
<1>4. ASSUME NEW h \in Handlers, consume_active(h)
      PROVE  Memory'
  <2>1. /\ active' = active \ {presented(h)} /\ consumed' = consumed \cup {presented(h)}
        /\ rotated' \subseteq rotated \cup {presented(h)}
        /\ UNCHANGED <<token, revoked_families, clock>>
    BY <1>4 DEF consume_active
  <2>2. \A g \in Handlers : request'[g].now <= clock
    BY <1>0, <1>4 DEF consume_active, Finish, NoRequest, TypeOK
  <2>3. RotatedIsRemembered'
    BY <2>1 DEF Memory, RotatedIsRemembered, InRevokedFamily
  <2> QED
    BY <2>1, <2>2, <2>3 DEF Memory, RequestsArePast
<1>5. ASSUME NEW h \in Handlers, consume_revoked(h) \/ consume_replayed(h) \/ consume_unknown(h)
                                 \/ revoke_family(h) \/ abandon(h)
      PROVE  Memory'
  <2>1. Finish(h) /\ active' \subseteq active /\ UNCHANGED <<token, rotated, clock>>
        /\ revoked_families \subseteq revoked_families'
    BY <1>5 DEF consume_revoked, consume_replayed, consume_unknown, revoke_family, abandon, storeVars
  <2>2. \A g \in Handlers : request'[g].now <= clock
    BY <1>0, <2>1, FinishIsIdle
  <2>3. \A t \in consumed : token[t].expires_at \in Nat
    BY DEF TypeOK, RefreshToken
  <2>4. \A t \in consumed : t \in consumed' \/ token[t].expires_at <= clock
                            \/ token[t].family_id \in revoked_families'
    <3>1. CASE consumed' = consumed
      BY <3>1
    <3>2. CASE consume_replayed(h)
      <4>1. /\ consumed' = Remembered(request[h].now) \ {presented(h)}
            /\ token[presented(h)].family_id \in revoked_families'
        BY <3>2 DEF consume_replayed
      <4>2. \A t \in consumed : t \in Remembered(request[h].now) \/ token[t].expires_at <= clock
        BY <1>0, <2>3 DEF Remembered
      <4> QED
        BY <4>1, <4>2
    <3>3. CASE consume_unknown(h)
      <4>1. consumed' = Remembered(request[h].now)
        BY <3>3 DEF consume_unknown
      <4> QED
        BY <1>0, <2>3, <4>1 DEF Remembered
    <3> QED
      BY <1>5, <3>1, <3>2, <3>3 DEF consume_revoked, revoke_family, abandon, storeVars
  <2> QED
    BY <1>0, <2>1, <2>2, <2>4, MemoryKept
<1>6. ASSUME NEW h \in Handlers, issue_refresh_token(h)
      PROVE  Memory'
  <2>1. active' = active \cup {minted + 1} /\ UNCHANGED <<consumed, revoked_families, rotated, clock>>
    BY <1>6 DEF issue_refresh_token
  <2>2. \A t \in rotated : token'[t] = token[t] /\ t # minted + 1
    BY <1>6 DEF issue_refresh_token, TypeOK
  <2>3. \A g \in Handlers : request'[g].now <= clock
    BY <1>0, <1>6, FinishIsIdle DEF issue_refresh_token
  <2>4. RotatedIsRemembered'
    BY <2>1, <2>2 DEF Memory, RotatedIsRemembered, InRevokedFamily
  <2> QED
    BY <2>1, <2>3, <2>4 DEF Memory, RequestsArePast
<1>7. ASSUME NEW c \in Clients, register(c) \/ delete(c)
      PROVE  Memory'
  BY <1>0, <1>7, MemoryKept DEF register, delete, storeVars
<1>8. CASE tick
  <2>1. clock' = clock + 1 /\ UNCHANGED <<token, rotated, active, consumed, revoked_families, request>>
    BY <1>8 DEF tick, storeVars
  <2>2. \A g \in Handlers : request'[g].now <= clock'
    BY <1>0, <2>1
  <2> QED
    BY <1>0, <2>1, <2>2, MemoryKept
<1>9. CASE UNCHANGED vars
  BY <1>0, <1>9, MemoryKept DEF vars
<1> QED
  BY <1>1, <1>2, <1>3, <1>4, <1>5, <1>6, <1>7, <1>8, <1>9 DEF Next, Step, consume

\* A token presented again within its lifetime takes its family with it
\* (InMemoryRefreshTokenStore::consume).
THEOREM ReplaysAreDetected == Spec => ReplayIsDetected
<1>1. ASSUME TypeOK, Memory, NEW h \in Handlers, consume(h),
             presented(h) \in rotated, clock < token[presented(h)].expires_at
      PROVE  token[presented(h)].family_id \in revoked_families'
  <2>1. presented(h) \notin active /\ (presented(h) \in consumed \/ InRevokedFamily(presented(h)))
    BY <1>1 DEF Memory, RotatedIsRemembered
  <2>2. CASE consume_replayed(h)
    BY <2>2 DEF consume_replayed
  <2>3. CASE consume_unknown(h)
    <3>1. request[h].now <= clock
      BY <1>1 DEF Memory, RequestsArePast
    <3>2. clock \in Nat /\ request[h] \in Request
      BY <1>1, OAuthAssumption DEF TypeOK
    <3>3. token[presented(h)] \in RefreshToken
      BY <1>1 DEF TypeOK
    <3>4. request[h].now \in Nat /\ token[presented(h)].expires_at \in Nat
      BY <3>2, <3>3 DEF Request, RefreshToken
    <3>5. presented(h) \notin consumed
      BY <1>1, <2>3, <3>1, <3>2, <3>4 DEF consume_unknown, Remembered
    <3> QED
      BY <2>1, <2>3, <3>5 DEF consume_unknown, InRevokedFamily
  <2> QED
    BY <1>1, <2>1, <2>2, <2>3 DEF consume, consume_revoked, consume_active, Usable
<1>2. TypeOK /\ Memory /\ [Next]_vars =>
        [\A h \in Handlers :
           /\ consume(h) /\ presented(h) \in rotated /\ clock < token[presented(h)].expires_at
           => token[presented(h)].family_id \in revoked_families']_vars
  BY <1>1
<1>3. Init => Memory
  BY DEF Init, Memory, RotatedIsRemembered, RequestsArePast, NoRequest
<1> QED
  BY <1>2, <1>3, NextMemory, TypeCorrect, PTL DEF Spec, ReplayIsDetected

\* A revoked family is never rotated again, also by a rotation that was under
\* way when it was revoked (InMemoryRefreshTokenStore::consume).
THEOREM RevocationIsFinal == Spec => RevokedFamilyIsDead
<1>1. ASSUME [Next]_vars, NEW t \in rotated' \ rotated
      PROVE  token[t].family_id \notin revoked_families
  <2>1. ~UNCHANGED rotated
    OBVIOUS
  <2>2. PICK h \in Handlers : consume_active(h)
    BY <1>1, <2>1 DEF Next, Step, consume, vars, authorize, exchange_authorization_code, present,
         consume_revoked, consume_replayed, consume_unknown, issue_refresh_token, revoke_family,
         abandon, register, delete, tick
  <2>3. t = presented(h)
    BY <2>2 DEF consume_active
  <2> QED
    BY <2>2, <2>3 DEF consume_active, Usable, InRevokedFamily
<1>2. [Next]_vars =>
        [\A t \in rotated' \ rotated : token[t].family_id \notin revoked_families]_vars
  BY <1>1
<1> QED
  BY <1>2, PTL DEF Spec, RevokedFamilyIsDead
=============================================================================
