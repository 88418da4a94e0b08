----------------------------- MODULE OAuthServer -----------------------------
(***************************************************************************)
(* The grants of the authorization server of klauthed-web (oauth/) over    *)
(* the in-memory stores of klauthed-security: authorization codes          *)
(* (authz_code/) and refresh tokens with their families (refresh_token/).  *)
(* Every lock of a store is a step of its own, so the requests that        *)
(* exchange, rotate and revoke tokens interleave between them.             *)
(*                                                                         *)
(* A request that fails before it reaches a store changes nothing and is   *)
(* left out.  A bearer value is random; here it is the number of the token *)
(* and a family has the number of its first token.                         *)
(***************************************************************************)
EXTENDS Naturals, FiniteSets

CONSTANTS
  Handlers,        \* requests that are served at the same time
  Clients,
  Scopes,
  allowed_scopes,  \* the registrations: what each client may ask for
  refreshing,      \* the clients with ClientGrantType::RefreshToken
  CodeTtl, TokenTtl,
  MaxTime,         \* the clock stops here
  MaxCodes,        \* bound on the number of codes
  MaxTokens        \* bound on the number of refresh tokens

ASSUME OAuthAssumption ==
  /\ Clients # {}
  /\ allowed_scopes \in [Clients -> SUBSET Scopes]
  /\ refreshing \subseteq Clients
  /\ CodeTtl \in Nat /\ TokenTtl \in Nat
  /\ MaxTime \in Nat /\ MaxCodes \in Nat /\ MaxTokens \in Nat

VARIABLES
  registered,        \* InMemoryClientStore
  codes,             \* InMemoryAuthCodeStore: the unused codes
  code,              \* what each code issued so far stands for
  issued,            \* the number of codes issued so far
  active, consumed, revoked_families,   \* StoreState
  token,             \* what each refresh token made so far stands for
  minted,            \* the number of refresh tokens made so far
  pc, request, family,  \* where each handler is and what it carries
  clock,
  rotated            \* history: the refresh tokens that were Valid for a handler

storeVars == <<active, consumed, revoked_families, token, minted>>
codeVars == <<codes, code, issued>>
vars == <<registered, codes, code, issued, active, consumed, revoked_families,
          token, minted, pc, request, family, clock, rotated>>

AuthCode == [client_id : Clients, scope : SUBSET Scopes, expires_at : Nat]
RefreshToken == [family_id : Nat, client_id : Clients, scope : SUBSET Scopes,
                 expires_at : Nat]
Request == [token : 0..MaxTokens, client_id : Clients, scope : SUBSET Scopes, now : Nat]
NoRequest == [token |-> 0, client_id |-> CHOOSE c \in Clients : TRUE, scope |-> {}, now |-> 0]

TypeOK ==
  /\ registered \subseteq Clients
  /\ issued \in 0..MaxCodes
  /\ code \in [1..issued -> AuthCode]
  /\ codes \subseteq 1..issued
  /\ minted \in 0..MaxTokens
  /\ token \in [1..minted -> RefreshToken]
  /\ \A t \in 1..minted : token[t].family_id \in 1..minted
  /\ active \subseteq 1..minted
  /\ consumed \subseteq 1..minted
  /\ revoked_families \subseteq 1..minted
  /\ pc \in [Handlers -> {"idle", "rotating", "revoking", "issuing", "ending"}]
  /\ request \in [Handlers -> Request]
  /\ family \in [Handlers -> 0..minted]
  /\ \A h \in Handlers : pc[h] = "ending" => family[h] # 0
  /\ clock \in 0..MaxTime
  /\ rotated \subseteq 1..minted
-----------------------------------------------------------------------------
Init ==
  /\ registered = Clients
  /\ codes = {} /\ code = [n \in 1..0 |-> 0] /\ issued = 0
  /\ active = {} /\ consumed = {} /\ revoked_families = {}
  /\ token = [n \in 1..0 |-> 0] /\ minted = 0
  /\ pc = [h \in Handlers |-> "idle"]
  /\ request = [h \in Handlers |-> NoRequest]
  /\ family = [h \in Handlers |-> 0]
  /\ clock = 0
  /\ rotated = {}

\* The handler answers.
Finish(h) ==
  /\ pc' = [pc EXCEPT ![h] = "idle"]
  /\ request' = [request EXCEPT ![h] = NoRequest]
  /\ family' = [family EXCEPT ![h] = 0]

\* /oauth/authorize: a code for a registered client and scopes it may ask for.
\* A client deleted while the code is made is like one deleted right after.
authorize(c, scope) ==
  /\ c \in registered /\ issued < MaxCodes
  /\ scope \subseteq allowed_scopes[c]
  /\ issued' = issued + 1
  /\ code' = [n \in 1..issued + 1 |-> IF n <= issued THEN code[n]
                ELSE [client_id |-> c, scope |-> scope, expires_at |-> clock + CodeTtl]]
  /\ codes' = codes \cup {issued + 1}
  /\ UNCHANGED <<registered, storeVars, pc, request, family, clock, rotated>>

\* The code is used up whether or not the request goes with it: its client,
\* and its redirect_uri and PKCE verifier (proved).
exchange_authorization_code(h, n, c, proved) ==
  /\ pc[h] = "idle" /\ c \in registered /\ n \in codes
  /\ codes' = codes \ {n}
  /\ IF clock < code[n].expires_at /\ code[n].client_id = c /\ proved
     THEN /\ pc' = [pc EXCEPT ![h] = "issuing"]
          /\ request' = [request EXCEPT ![h] =
                [token |-> 0, client_id |-> c, scope |-> code[n].scope, now |-> clock]]
          /\ family' = [family EXCEPT ![h] = 0]
     ELSE Finish(h)
  /\ UNCHANGED <<registered, code, issued, storeVars, clock, rotated>>
-----------------------------------------------------------------------------
\* The refresh_token grant and /oauth/revoke up to the store: the client is
\* authenticated and consume has read its clock.  A request without a scope
\* asks for the scope of the token.
present(h, t, c, scope, step) ==
  /\ pc[h] = "idle" /\ c \in registered
  /\ IF step = "rotating" THEN c \in refreshing ELSE scope = {}
  /\ pc' = [pc EXCEPT ![h] = step]
  /\ request' = [request EXCEPT ![h] =
        [token |-> t, client_id |-> c, scope |-> scope, now |-> clock]]
  /\ UNCHANGED <<registered, codeVars, storeVars, family, clock, rotated>>

Consuming(h) == pc[h] \in {"rotating", "revoking"}
presented(h) == request[h].token
InRevokedFamily(t) == token[t].family_id \in revoked_families
OfFamily(tokens, f) == {t \in tokens : token[t].family_id = f}

\* consume, case 1: the family is revoked already; NotFound.
consume_revoked(h) ==
  /\ Consuming(h) /\ presented(h) \in active /\ InRevokedFamily(presented(h))
  /\ active' = active \ {presented(h)}
  /\ Finish(h)
  /\ UNCHANGED <<registered, codeVars, consumed, revoked_families, token, minted, clock, rotated>>

\* Faulty variant: a token of a revoked family is Valid.
Usable_in_revoked_family(t) == t \in active

Usable(t) == t \in active /\ ~InRevokedFamily(t)

\* Faulty variant: a request that asks for more is not refused.
Rotates_any_scope(h) ==
  LET rt == token[presented(h)] IN
    request[h].now < rt.expires_at /\ rt.client_id = request[h].client_id

\* Valid, the client's own, and no more scope than the token has.
Rotates(h) ==
  LET rt == token[presented(h)] IN
    /\ request[h].now < rt.expires_at /\ rt.client_id = request[h].client_id
    /\ request[h].scope \subseteq rt.scope

\* Faulty variant: the token stays active until its successor is stored.
consume_active_keeps(h) ==
  /\ Consuming(h) /\ Usable(presented(h))
  /\ consumed' = consumed \cup {presented(h)}
  /\ rotated' = IF request[h].now < token[presented(h)].expires_at
                THEN rotated \cup {presented(h)} ELSE rotated
  /\ IF pc[h] = "revoking" \/ Rotates(h)
     THEN /\ pc' = [pc EXCEPT ![h] = IF pc[h] = "revoking" THEN "ending" ELSE "issuing"]
          /\ family' = [family EXCEPT ![h] = token[presented(h)].family_id]
          /\ UNCHANGED request
     ELSE Finish(h)
  /\ UNCHANGED <<registered, codeVars, active, revoked_families, token, minted, clock>>

\* consume, case 2: Valid or Expired.  A rotation goes on with a Valid token,
\* a revocation with either.
consume_active(h) ==
  /\ Consuming(h) /\ Usable(presented(h))
  /\ active' = active \ {presented(h)}
  /\ consumed' = consumed \cup {presented(h)}
  /\ rotated' = IF request[h].now < token[presented(h)].expires_at
                THEN rotated \cup {presented(h)} ELSE rotated
  /\ IF pc[h] = "revoking" \/ Rotates(h)
     THEN /\ pc' = [pc EXCEPT ![h] = IF pc[h] = "revoking" THEN "ending" ELSE "issuing"]
          /\ family' = [family EXCEPT ![h] = token[presented(h)].family_id]
          /\ UNCHANGED request
     ELSE Finish(h)
  /\ UNCHANGED <<registered, codeVars, revoked_families, token, minted, clock>>

\* Faulty variant: entries are dropped one tick before they expire.
Remembered_too_short(now) == {t \in consumed : token[t].expires_at > now + 1}

\* evict_expired_consumed.
Remembered(now) == {t \in consumed : token[t].expires_at > now}

\* consume, case 3: the token was consumed before; its family is revoked.
consume_replayed(h) ==
  /\ Consuming(h) /\ presented(h) \notin active
  /\ presented(h) \in Remembered(request[h].now)
  /\ LET f == token[presented(h)].family_id IN
       /\ revoked_families' = revoked_families \cup {f}
       /\ active' = active \ OfFamily(active, f)
  /\ consumed' = Remembered(request[h].now) \ {presented(h)}
  /\ Finish(h)
  /\ UNCHANGED <<registered, codeVars, token, minted, clock, rotated>>

\* consume, case 4: unknown; NotFound.
consume_unknown(h) ==
  /\ Consuming(h) /\ presented(h) \notin active
  /\ presented(h) \notin Remembered(request[h].now)
  /\ consumed' = Remembered(request[h].now)
  /\ Finish(h)
  /\ UNCHANGED <<registered, codeVars, active, revoked_families, token, minted, clock, rotated>>

consume(h) ==
  consume_revoked(h) \/ consume_active(h) \/ consume_replayed(h) \/ consume_unknown(h)

\* Faulty variant: the token after a code starts no family.
issue_refresh_token_no_family(h) ==
  /\ pc[h] = "issuing" /\ minted < MaxTokens
  /\ minted' = minted + 1
  /\ token' = [n \in 1..minted + 1 |-> IF n <= minted THEN token[n]
                 ELSE [family_id |-> family[h],
                       client_id |-> request[h].client_id, scope |-> request[h].scope,
                       expires_at |-> clock + TokenTtl]]
  /\ active' = active \cup {minted + 1}
  /\ Finish(h)
  /\ UNCHANGED <<registered, codeVars, consumed, revoked_families, clock, rotated>>

\* issue_refresh_token: a new family after a code, the old one in a rotation.
issue_refresh_token(h) ==
  /\ pc[h] = "issuing" /\ minted < MaxTokens
  /\ minted' = minted + 1
  /\ token' = [n \in 1..minted + 1 |-> IF n <= minted THEN token[n]
                 ELSE [family_id |-> IF family[h] = 0 THEN minted + 1 ELSE family[h],
                       client_id |-> request[h].client_id, scope |-> request[h].scope,
                       expires_at |-> clock + TokenTtl]]
  /\ active' = active \cup {minted + 1}
  /\ Finish(h)
  /\ UNCHANGED <<registered, codeVars, consumed, revoked_families, clock, rotated>>

\* revoke_family, by a handler of /oauth/revoke.
revoke_family(h) ==
  /\ pc[h] = "ending"
  /\ revoked_families' = revoked_families \cup {family[h]}
  /\ active' = active \ OfFamily(active, family[h])
  /\ Finish(h)
  /\ UNCHANGED <<registered, codeVars, consumed, token, minted, clock, rotated>>

\* The request is dropped, signing fails, or the store does.
abandon(h) ==
  /\ pc[h] # "idle"
  /\ Finish(h)
  /\ UNCHANGED <<registered, codeVars, storeVars, clock, rotated>>

register(c) ==
  /\ c \notin registered
  /\ registered' = registered \cup {c}
  /\ UNCHANGED <<codeVars, storeVars, pc, request, family, clock, rotated>>

delete(c) ==
  /\ c \in registered
  /\ registered' = registered \ {c}
  /\ UNCHANGED <<codeVars, storeVars, pc, request, family, clock, rotated>>

tick ==
  /\ clock < MaxTime
  /\ clock' = clock + 1
  /\ UNCHANGED <<registered, codeVars, storeVars, pc, request, family, rotated>>

Step(h) ==
  \/ \E n \in 1..issued, c \in Clients, proved \in BOOLEAN :
       exchange_authorization_code(h, n, c, proved)
  \/ \E t \in 1..minted, c \in Clients, scope \in SUBSET Scopes, step \in {"rotating", "revoking"} :
       present(h, t, c, scope, step)
  \/ consume(h) \/ issue_refresh_token(h) \/ revoke_family(h) \/ abandon(h)

Next ==
  \/ \E h \in Handlers : Step(h)
  \/ \E c \in Clients : \/ \E scope \in SUBSET Scopes : authorize(c, scope)
                        \/ register(c) \/ delete(c)
  \/ tick

Spec == Init /\ [][Next]_vars
-----------------------------------------------------------------------------
\* A handler that is about to store the successor of a token of family f.
Rotating(h, f) == pc[h] = "issuing" /\ family[h] = f

\* "The critical invariant is single-use with replay detection"
\* (refresh_token/store.rs): a family is
\* a chain, it has one token that is active or about to be stored, however
\* many handlers are given the same token.
OneLiveTokenPerFamily ==
  /\ \A t, u \in active : token[t].family_id = token[u].family_id => t = u
  /\ \A t \in active, h \in Handlers : ~Rotating(h, token[t].family_id)
  /\ \A g, h \in Handlers : pc[g] = "issuing" /\ family[g] # 0 /\ Rotating(h, family[g]) => g = h

\* The tokens of a family are those of the client the first one was issued
\* to, with no more scope than it had, and scopes the client may ask for.
FamilyKeepsGrant ==
  \A t \in 1..minted :
    LET root == token[token[t].family_id] IN
      /\ token[t].client_id = root.client_id
      /\ token[t].scope \subseteq root.scope
      /\ token[t].scope \subseteq allowed_scopes[token[t].client_id]

\* "All tokens in these families are treated as revoked even if they appear in
\* active" (refresh_token/store.rs): no token of a revoked family is Valid,
\* also if a rotation was under way when the family was revoked.
RevokedFamilyIsDead ==
  [][\A t \in rotated' \ rotated : token[t].family_id \notin revoked_families]_vars

\* "If the same token is presented a second time within its natural lifetime,
\* the entire token family is revoked" (refresh_token/store.rs).
ReplayIsDetected ==
  [][\A h \in Handlers :
       /\ consume(h) /\ presented(h) \in rotated /\ clock < token[presented(h)].expires_at
       => token[presented(h)].family_id \in revoked_families']_vars
=============================================================================
