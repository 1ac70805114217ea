------------------------------ MODULE EdgeProofs ------------------------------
(***************************************************************************)
(* Theorems about the services at the edge: sessions of the auth service,  *)
(* idempotent mutations and compliance decisions of the gateway, signed    *)
(* requests between services, notifications, the rate limits of the        *)
(* Ricardian service, and the lists that the gateway shows: the pages of   *)
(* the governance queue and the history of a trade's decisions.  Each      *)
(* service runs beside the clock; the theorems hold for any number of      *)
(* wallets, sessions, keys, requests, messages, notifications, callers and *)
(* rows, and for every time limit, rate limit and page size.               *)
(***************************************************************************)
EXTENDS Compliance, AuthClient, RateLimiter, Notifications, GovernancePages, ListingProofs

-------------------------------------------------------------------------------
(* Sessions *)

authAndClock == <<authVars, clock>>

AuthNext ==
  \/ (AuthStep \/ AuthClientStep) /\ UNCHANGED clock
  \/ tick /\ UNCHANGED authVars

AuthSpec == ClockInit /\ AuthInit /\ [][AuthNext]_authAndClock

Session ==
  [wallet : Wallets, role : UserRoles, issuedAt : Int, expiresAt : Int,
   revokedAt : Int \cup {None}, parent : Int \cup {None}, answered : BOOLEAN]

SignCall   == [pc : {"sign"}, wallet : Wallets, signed : [wallet : Wallets, nonce : Int]]
UpsertCall == [pc : {"upsert"}, wallet : Wallets, role : UserRoles, ttl : Int]
IssueCall  == [pc : {"issue"}, wallet : Wallets, role : UserRoles, ttl : Int,
               parent : Int \cup {None}]
RetireCall == [pc : {"retire"}, session : Int, child : Int]
HeldCall   == [pc : {"refresh", "profile", "revoke"}, session : Int]

AuthCall == {NoAuthCall} \cup SignCall \cup UpsertCall \cup IssueCall \cup RetireCall \cup HeldCall

Profile == [role : UserRoles, active : BOOLEAN]

AuthTypeOK ==
  /\ clock \in Int
  /\ nonces \in Int
  /\ profiles \in [Wallets -> {None} \cup Profile]
  /\ sessions \in Seq(Session)
  /\ authCalls \in [AuthCalls -> AuthCall]

\* The sessions that a call refers to exist, and a refresh retires the session that its
\* new one replaces.
CallKnowsSessions(call) ==
  /\ call.pc \in {"refresh", "profile", "revoke", "retire"} => call.session \in DOMAIN sessions
  /\ call.pc = "issue" /\ call.parent # None => call.parent \in DOMAIN sessions
  /\ call.pc = "retire" =>
       call.child \in DOMAIN sessions /\ sessions[call.child].parent = call.session

\* A session id that was given out for an older session comes after its revocation.
AnsweredRetired ==
  \A s \in DOMAIN sessions :
    sessions[s].answered /\ sessions[s].parent # None =>
      /\ sessions[s].parent \in DOMAIN sessions
      /\ sessions[sessions[s].parent].revokedAt # None

AuthInv ==
  /\ AuthTypeOK
  /\ \A c \in AuthCalls : CallKnowsSessions(authCalls[c])
  /\ AnsweredRetired

USE DEF authVars, authAndClock, NoAuthCall

\* Sessions stay, with their parents, and are never reinstated.
SessionsStay ==
  /\ DOMAIN sessions \subseteq DOMAIN sessions'
  /\ \A s \in DOMAIN sessions :
       /\ sessions'[s].parent = sessions[s].parent
       /\ sessions[s].revokedAt # None => sessions'[s].revokedAt # None

LEMMA SessionsUnchanged ==
  ASSUME UNCHANGED sessions
  PROVE  SessionsStay
BY DEF SessionsStay

\* One call moves on, all others keep knowing their sessions.
LEMMA CallsStillKnow ==
  ASSUME AuthInv, NEW c \in AuthCalls, NEW call \in AuthCall, Goto(c, call), SessionsStay,
         CallKnowsSessions(call)'
  PROVE  /\ authCalls' \in [AuthCalls -> AuthCall]
         /\ \A d \in AuthCalls : CallKnowsSessions(authCalls[d])'
<1>1. authCalls' = [authCalls EXCEPT ![c] = call]
  BY DEF Goto
<1>2. authCalls' \in [AuthCalls -> AuthCall]
  BY <1>1 DEF AuthInv, AuthTypeOK
<1>3. ASSUME NEW d \in AuthCalls \ {c}
      PROVE  CallKnowsSessions(authCalls[d])'
  <2>1. authCalls'[d] = authCalls[d]
    BY <1>1 DEF AuthInv, AuthTypeOK
  <2>2. CallKnowsSessions(authCalls[d])
    BY DEF AuthInv
  <2> QED
    BY <2>1, <2>2 DEF CallKnowsSessions, SessionsStay
<1>4. CallKnowsSessions(authCalls[c])'
  <2>1. authCalls'[c] = call
    BY <1>1 DEF AuthInv, AuthTypeOK
  <2> QED
    BY <2>1 DEF CallKnowsSessions
<1> QED
  BY <1>2, <1>3, <1>4

\* A step of a call that leaves the sessions alone.
LEMMA CallMoves ==
  ASSUME AuthInv, NEW c \in AuthCalls, NEW call \in AuthCall, Goto(c, call),
         CallKnowsSessions(call), UNCHANGED <<sessions, clock>>,
         nonces' \in Int, profiles' \in [Wallets -> {None} \cup Profile]
  PROVE  AuthInv'
<1>1. CallKnowsSessions(call)'
  BY DEF CallKnowsSessions
<1>2. SessionsStay
  BY SessionsUnchanged
<1>3. /\ authCalls' \in [AuthCalls -> AuthCall]
      /\ \A d \in AuthCalls : CallKnowsSessions(authCalls[d])'
  BY <1>1, <1>2, CallsStillKnow
<1>4. AuthTypeOK'
  BY <1>3 DEF AuthInv, AuthTypeOK
<1>5. AnsweredRetired'
  BY DEF AuthInv, AnsweredRetired
<1> QED
  BY <1>3, <1>4, <1>5 DEF AuthInv

LEMMA SessionAt ==
  ASSUME sessions \in Seq(Session), NEW s \in DOMAIN sessions
  PROVE  sessions[s] \in Session
OBVIOUS

LEMMA SessionRevoked ==
  ASSUME NEW r \in Session, NEW n \in Int
  PROVE  /\ [r EXCEPT !.revokedAt = n] \in Session
         /\ [r EXCEPT !.revokedAt = n].revokedAt = n
         /\ [r EXCEPT !.revokedAt = n].parent = r.parent
         /\ [r EXCEPT !.revokedAt = n].answered = r.answered
BY DEF Session

LEMMA SessionAnswered ==
  ASSUME NEW r \in Session, NEW b \in BOOLEAN
  PROVE  /\ [r EXCEPT !.answered = b] \in Session
         /\ [r EXCEPT !.answered = b].revokedAt = r.revokedAt
         /\ [r EXCEPT !.answered = b].parent = r.parent
BY DEF Session

LEMMA IdleKnows == NoAuthCall \in AuthCall /\ CallKnowsSessions(NoAuthCall)
BY DEF AuthCall, CallKnowsSessions

LEMMA LoginKeepsInv ==
  ASSUME AuthInv, NEW c \in AuthCalls, UNCHANGED clock,
         \/ \E w \in Wallets, arrives \in BOOLEAN : requestChallenge(c, w, arrives)
         \/ \E role \in UserRoles, ttl \in RequestedTtls : postLogin(c, role, ttl)
         \/ abandon(c)
  PROVE  AuthInv'
<1>a. authCalls[c] \in AuthCall /\ nonces \in Int /\ profiles \in [Wallets -> {None} \cup Profile]
  BY DEF AuthInv, AuthTypeOK
<1>1. ASSUME NEW w \in Wallets, NEW arrives \in BOOLEAN, requestChallenge(c, w, arrives)
      PROVE  AuthInv'
  <2>1. nonces' = nonces + 1 /\ UNCHANGED <<profiles, sessions, authCrashes>>
    BY <1>1 DEF requestChallenge, getChallenge
  <2>2. PICK call : /\ Goto(c, call)
                    /\ call \in {NoAuthCall, [pc |-> "sign", wallet |-> w,
                                              signed |-> buildChallengeMessage(w, nonces')]}
    BY <1>1 DEF requestChallenge
  <2>3. call \in AuthCall /\ CallKnowsSessions(call)
    BY <1>a, <2>1, <2>2, IdleKnows
       DEF AuthCall, SignCall, buildChallengeMessage, CallKnowsSessions
  <2> QED
    BY <1>a, <2>1, <2>2, <2>3, CallMoves
<1>2. ASSUME NEW role \in UserRoles, NEW ttl \in RequestedTtls, postLogin(c, role, ttl)
      PROVE  AuthInv'
  <2>1. authCalls[c].pc = "sign" /\ login(c, authCalls[c].wallet, authCalls[c].signed, role, ttl)
    BY <1>2 DEF postLogin
  <2>2. authCalls[c].wallet \in Wallets
    BY <1>a, <2>1 DEF AuthCall, SignCall, UpsertCall, IssueCall, RetireCall, HeldCall
  <2>3. SafeTtl(ttl) \in Int
    BY AuthAssumption DEF SafeTtl
  <2>4. PICK call : /\ Goto(c, call)
                    /\ call \in {NoAuthCall, [pc |-> "upsert", wallet |-> authCalls[c].wallet,
                                              role |-> role, ttl |-> SafeTtl(ttl)]}
    BY <2>1 DEF login
  <2>5. call \in AuthCall /\ CallKnowsSessions(call)
    BY <2>2, <2>3, <2>4, IdleKnows DEF AuthCall, UpsertCall, CallKnowsSessions
  <2>6. UNCHANGED <<nonces, profiles, sessions, authCrashes>>
    BY <2>1 DEF login
  <2> QED
    BY <1>a, <2>4, <2>5, <2>6, CallMoves
<1>3. ASSUME abandon(c)
      PROVE  AuthInv'
  <2>1. Goto(c, NoAuthCall) /\ UNCHANGED <<nonces, profiles, sessions>>
    BY <1>3 DEF abandon
  <2> QED
    BY <1>a, <2>1, IdleKnows, CallMoves
<1> QED
  BY <1>1, <1>2, <1>3

LEMMA UpsertKeepsInv ==
  ASSUME AuthInv, NEW c \in AuthCalls, UNCHANGED clock, upsert(c)
  PROVE  AuthInv'
<1> DEFINE w == authCalls[c].wallet
           profile == upsertProfile(w, authCalls[c].role)
<1>1. authCalls[c] \in AuthCall /\ nonces \in Int /\ profiles \in [Wallets -> {None} \cup Profile]
  BY DEF AuthInv, AuthTypeOK
<1>2. /\ authCalls[c].pc = "upsert"
      /\ profiles' = [profiles EXCEPT ![w] = profile]
      /\ UNCHANGED <<challenges, nonces, sessions, authCrashes>>
  BY DEF upsert
<1>3. w \in Wallets /\ authCalls[c].role \in UserRoles /\ authCalls[c].ttl \in Int
  BY <1>1, <1>2 DEF AuthCall, SignCall, UpsertCall, IssueCall, RetireCall, HeldCall
<1>4. profiles[w] = None \/ profiles[w] \in Profile
  BY <1>1, <1>3
<1>5. profile \in Profile
  <2>1. profiles[w] # None => profiles[w].active \in BOOLEAN
    BY <1>4 DEF Profile
  <2>2. (profiles[w] = None \/ profiles[w].active) \in BOOLEAN
    BY <2>1, Zenon
  <2> QED
    BY <1>3, <2>2 DEF upsertProfile, Profile
<1>6. profiles' \in [Wallets -> {None} \cup Profile]
  BY <1>1, <1>2, <1>5
<1>7. PICK call : /\ Goto(c, call)
                  /\ call \in {NoAuthCall, [pc |-> "issue", wallet |-> w, role |-> profile.role,
                                            ttl |-> authCalls[c].ttl, parent |-> None]}
  BY Zenon DEF upsert
<1>8. profile.role \in UserRoles
  BY <1>5 DEF Profile
<1> HIDE DEF w, profile
<1>9. call \in AuthCall /\ CallKnowsSessions(call)
  BY <1>3, <1>7, <1>8, IdleKnows DEF AuthCall, IssueCall, CallKnowsSessions
<1> QED
  BY <1>1, <1>2, <1>6, <1>7, <1>9, CallMoves

LEMMA ReadKeepsInv ==
  ASSUME AuthInv, NEW c \in AuthCalls, UNCHANGED clock,
         refresh(c) \/ findProfile(c) \/ \E s \in Held : refreshSession(c, s) \/ logout(c, s)
  PROVE  AuthInv'
<1>a. authCalls[c] \in AuthCall /\ nonces \in Int /\ profiles \in [Wallets -> {None} \cup Profile]
      /\ sessions \in Seq(Session) /\ CallKnowsSessions(authCalls[c])
  BY DEF AuthInv, AuthTypeOK
<1>1. ASSUME refresh(c)
      PROVE  AuthInv'
  <2>1. authCalls[c].pc = "refresh" /\ UNCHANGED <<nonces, profiles, sessions>>
    BY <1>1 DEF refresh
  <2>2. PICK call : /\ Goto(c, call)
                    /\ call \in {NoAuthCall, [pc |-> "profile", session |-> authCalls[c].session]}
    BY <1>1, Zenon DEF refresh
  <2>3. authCalls[c].session \in DOMAIN sessions /\ authCalls[c].session \in Int
    BY <1>a, <2>1 DEF CallKnowsSessions
  <2>4. call \in AuthCall /\ CallKnowsSessions(call)
    BY <2>2, <2>3, IdleKnows DEF AuthCall, HeldCall, CallKnowsSessions
  <2> QED
    BY <1>a, <2>1, <2>2, <2>4, CallMoves
<1>2. ASSUME findProfile(c)
      PROVE  AuthInv'
  <2> DEFINE s == authCalls[c].session
             profile == profiles[sessions[s].wallet]
  <2>1. authCalls[c].pc = "profile" /\ UNCHANGED <<nonces, profiles, sessions>>
    BY <1>2 DEF findProfile
  <2>2. s \in DOMAIN sessions /\ s \in Int
    BY <1>a, <2>1 DEF CallKnowsSessions
  <2>3. sessions[s].wallet \in Wallets
    BY <1>a, <2>2, SessionAt DEF Session
  <2>4. \/ Goto(c, NoAuthCall)
        \/ /\ profile # None
           /\ Goto(c, [pc |-> "issue", wallet |-> sessions[s].wallet, role |-> profile.role,
                       ttl |-> DefaultTtlSeconds, parent |-> s])
    BY <1>2, Zenon DEF findProfile, findProfileById
  <2>5. profile # None => profile.role \in UserRoles
    BY <1>a, <2>3 DEF Profile
  <2>6. DefaultTtlSeconds \in Int
    BY AuthAssumption
  <2> HIDE DEF s, profile
  <2>7. CASE Goto(c, NoAuthCall)
    BY <1>a, <2>1, <2>7, IdleKnows, CallMoves
  <2>8. ASSUME profile # None, NEW call,
               call = [pc |-> "issue", wallet |-> sessions[s].wallet, role |-> profile.role,
                       ttl |-> DefaultTtlSeconds, parent |-> s],
               Goto(c, call)
        PROVE  AuthInv'
    <3>1. call \in AuthCall /\ CallKnowsSessions(call)
      BY <2>2, <2>3, <2>5, <2>6, <2>8 DEF AuthCall, IssueCall, CallKnowsSessions
    <3> QED
      BY <1>a, <2>1, <2>8, <3>1, CallMoves
  <2> QED
    BY <2>4, <2>7, <2>8
<1>3. ASSUME NEW s \in Held, refreshSession(c, s) \/ logout(c, s)
      PROVE  AuthInv'
  <2>1. PICK next \in {"refresh", "revoke"} : authenticated(c, s, next)
    BY <1>3 DEF refreshSession, logout
  <2>2. s \in DOMAIN sessions /\ s \in Int
    BY <1>a DEF Held
  <2>3. PICK call : call = [pc |-> next, session |-> s]
    OBVIOUS
  <2>4. call \in AuthCall /\ CallKnowsSessions(call)
    BY <2>2, <2>3 DEF AuthCall, HeldCall, CallKnowsSessions
  <2>5. Goto(c, call) /\ UNCHANGED <<nonces, profiles, sessions>>
    BY <2>1, <2>3 DEF authenticated
  <2> QED
    BY <1>a, <2>4, <2>5, CallMoves
<1> QED
  BY <1>1, <1>2, <1>3
\* A new session, whose parent, if any, is to be retired by the same call.
LEMMA IssueKeepsInv ==
  ASSUME AuthInv, NEW c \in AuthCalls, NEW arrives \in BOOLEAN, UNCHANGED clock,
         issueSession(c, arrives)
  PROVE  AuthInv'
<1> DEFINE p == authCalls[c].parent
           n == Len(sessions) + 1
           child == [wallet |-> authCalls[c].wallet, role |-> authCalls[c].role,
                     issuedAt |-> clock, expiresAt |-> clock + authCalls[c].ttl,
                     revokedAt |-> None, parent |-> p, answered |-> (p = None /\ arrives)]
           next == IF p = None THEN NoAuthCall
                   ELSE [pc |-> "retire", session |-> p, child |-> n]
<1>1. /\ authCalls[c] \in AuthCall
      /\ sessions \in Seq(Session)
      /\ CallKnowsSessions(authCalls[c])
      /\ clock \in Int /\ nonces \in Int /\ profiles \in [Wallets -> {None} \cup Profile]
  BY DEF AuthInv, AuthTypeOK
<1>2. /\ authCalls[c].pc = "issue"
      /\ sessions' = Append(sessions, child)
      /\ Goto(c, IF p = None THEN NoAuthCall
                 ELSE [pc |-> "retire", session |-> p, child |-> Len(sessions')])
      /\ UNCHANGED <<challenges, nonces, profiles, authCrashes>>
  BY Zenon DEF issueSession, insertSession
<1>3. /\ authCalls[c].wallet \in Wallets /\ authCalls[c].role \in UserRoles
      /\ authCalls[c].ttl \in Int /\ p \in Int \cup {None}
  BY <1>1, <1>2 DEF AuthCall, SignCall, UpsertCall, IssueCall, RetireCall, HeldCall
<1>4. p # None => p \in DOMAIN sessions
  BY <1>1, <1>2 DEF CallKnowsSessions
<1>5. child \in Session
  <2>1. (p = None /\ arrives) \in BOOLEAN
    OBVIOUS
  <2> QED
    BY <1>1, <1>3, <2>1 DEF Session
<1>6. PICK ses : ses = child
  OBVIOUS
<1>7. ses.parent = p /\ ses.answered = (p = None /\ arrives)
  BY <1>6
<1> HIDE DEF child
<1>8. /\ sessions' \in Seq(Session)
      /\ Len(sessions') = n
      /\ sessions'[n] = ses
      /\ \A s \in DOMAIN sessions : s \in DOMAIN sessions' /\ sessions'[s] = sessions[s]
      /\ DOMAIN sessions' = DOMAIN sessions \cup {n}
  BY <1>1, <1>2, <1>5, <1>6
<1>9. Goto(c, next)
  BY <1>2, <1>8
<1>10. PICK call : call = next
  OBVIOUS
<1>14. call \in AuthCall /\ CallKnowsSessions(call)'
  <2>1. CASE p = None
    <3>1. call = NoAuthCall
      BY <1>10, <2>1
    <3> QED
      BY <3>1, IdleKnows DEF CallKnowsSessions
  <2>2. CASE p # None
    <3>1. call = [pc |-> "retire", session |-> p, child |-> n]
      BY <1>10, <2>2
    <3>2. n \in Int
      BY <1>1
    <3>3. call \in RetireCall
      BY <1>3, <2>2, <3>1, <3>2 DEF RetireCall
    <3>4. call.session = p /\ call.child = n /\ call.pc = "retire"
      BY <3>1
    <3>5. p \in DOMAIN sessions' /\ n \in DOMAIN sessions' /\ sessions'[n].parent = p
      BY <1>4, <1>7, <1>8, <2>2
    <3> QED
      BY <3>3, <3>4, <3>5 DEF AuthCall, CallKnowsSessions
  <2> QED
    BY <2>1, <2>2
<1>11. SessionsStay
  BY <1>8 DEF SessionsStay
<1> HIDE DEF next
<1>12. /\ authCalls' \in [AuthCalls -> AuthCall]
       /\ \A d \in AuthCalls : CallKnowsSessions(authCalls[d])'
  BY <1>9, <1>10, <1>11, <1>14, CallsStillKnow
<1>13. AnsweredRetired'
  <2>1. AnsweredRetired
    BY DEF AuthInv
  <2>2. SUFFICES ASSUME NEW s \in DOMAIN sessions', sessions'[s].answered,
                        sessions'[s].parent # None
                 PROVE  /\ sessions'[s].parent \in DOMAIN sessions'
                        /\ sessions'[sessions'[s].parent].revokedAt # None
    BY DEF AnsweredRetired
  <2>3. s \in DOMAIN sessions
    BY <1>7, <1>8, <2>2
  <2> QED
    BY <1>8, <2>1, <2>2, <2>3 DEF AnsweredRetired
<1> QED
  BY <1>1, <1>2, <1>8, <1>12, <1>13 DEF AuthInv, AuthTypeOK

LEMMA RetireKeepsInv ==
  ASSUME AuthInv, NEW c \in AuthCalls, NEW arrives \in BOOLEAN, UNCHANGED clock,
         retire(c, arrives) \/ revoke(c)
  PROVE  AuthInv'
<1> DEFINE s == authCalls[c].session
           child == authCalls[c].child
<1>1. /\ authCalls[c] \in AuthCall
      /\ sessions \in Seq(Session)
      /\ CallKnowsSessions(authCalls[c])
      /\ clock \in Int /\ None \notin Int
      /\ nonces \in Int /\ profiles \in [Wallets -> {None} \cup Profile]
      /\ AnsweredRetired
  BY ClockAssumption DEF AuthInv, AuthTypeOK
<1>2. s \in DOMAIN sessions
  <2>1. authCalls[c].pc \in {"retire", "revoke"}
    BY DEF retire, revoke
  <2> QED
    BY <1>1, <2>1 DEF CallKnowsSessions
<1>3. /\ Goto(c, NoAuthCall)
      /\ UNCHANGED <<challenges, nonces, profiles, authCrashes>>
  BY DEF retire, revoke
<1>4. PICK revoked : revoked = revokeSession(s)
  OBVIOUS
<1>5. /\ revoked \in Seq(Session)
      /\ DOMAIN revoked = DOMAIN sessions
      /\ revoked[s] = [sessions[s] EXCEPT !.revokedAt = clock]
      /\ \A u \in DOMAIN sessions \ {s} : revoked[u] = sessions[u]
  <2>1. [sessions[s] EXCEPT !.revokedAt = clock] \in Session
    BY <1>1, <1>2, SessionAt, SessionRevoked
  <2> QED
    BY <1>1, <1>2, <1>4, <2>1 DEF revokeSession
<1>6. \A u \in DOMAIN sessions :
        /\ revoked[u].parent = sessions[u].parent
        /\ revoked[u].answered = sessions[u].answered
        /\ sessions[u].revokedAt # None => revoked[u].revokedAt # None
  <2>1. /\ revoked[s].parent = sessions[s].parent
        /\ revoked[s].answered = sessions[s].answered
        /\ revoked[s].revokedAt # None
    BY <1>1, <1>2, <1>5, SessionAt, SessionRevoked
  <2> QED
    BY <1>5, <2>1
<1>7. revoked[s].revokedAt # None
  BY <1>1, <1>2, <1>5, SessionAt, SessionRevoked
<1>8. /\ sessions' \in Seq(Session)
      /\ DOMAIN sessions' = DOMAIN sessions
      /\ \A u \in DOMAIN sessions :
           /\ sessions'[u].parent = revoked[u].parent
           /\ sessions'[u].revokedAt = revoked[u].revokedAt
           /\ \/ sessions'[u].answered = revoked[u].answered
              \/ revoked[u].parent = s
  <2>1. CASE revoke(c)
    <3>1. sessions' = revoked
      BY <1>4, <2>1 DEF revoke
    <3> QED
      BY <1>5, <3>1
  <2>2. CASE retire(c, arrives)
    <3>1. sessions' = [revoked EXCEPT ![child].answered = arrives]
      BY <1>4, <2>2 DEF retire
    <3>2. child \in DOMAIN sessions /\ sessions[child].parent = s
      BY <1>1, <2>2 DEF retire, CallKnowsSessions
    <3>0. revoked[child] \in Session
      BY <1>5, <3>2
    <3>3. [revoked[child] EXCEPT !.answered = arrives] \in Session
      BY <3>0, SessionAnswered
    <3>4. /\ sessions' \in Seq(Session)
          /\ DOMAIN sessions' = DOMAIN sessions
          /\ sessions'[child] = [revoked[child] EXCEPT !.answered = arrives]
          /\ \A u \in DOMAIN sessions \ {child} : sessions'[u] = revoked[u]
      BY <1>5, <3>1, <3>2, <3>3
    <3>5. /\ sessions'[child].parent = revoked[child].parent
          /\ sessions'[child].revokedAt = revoked[child].revokedAt
      BY <3>0, <3>4, SessionAnswered
    <3> QED
      BY <1>6, <3>2, <3>4, <3>5
  <2> QED
    BY <2>1, <2>2
<1>9. SessionsStay
  BY <1>6, <1>8 DEF SessionsStay
<1>10. /\ authCalls' \in [AuthCalls -> AuthCall]
       /\ \A d \in AuthCalls : CallKnowsSessions(authCalls[d])'
  <2>1. CallKnowsSessions(NoAuthCall)'
    BY DEF CallKnowsSessions
  <2> QED
    BY <1>3, <1>9, <2>1, IdleKnows, CallsStillKnow
<1>11. AnsweredRetired'
  <2> SUFFICES ASSUME NEW u \in DOMAIN sessions', sessions'[u].answered,
                      sessions'[u].parent # None
               PROVE  /\ sessions'[u].parent \in DOMAIN sessions'
                      /\ sessions'[sessions'[u].parent].revokedAt # None
    BY DEF AnsweredRetired
  <2>1. CASE sessions'[u].parent = s
    BY <1>2, <1>7, <1>8, <2>1
  <2>2. CASE sessions'[u].parent # s
    <3>1. sessions[u].answered /\ sessions[u].parent = sessions'[u].parent
      BY <1>6, <1>8, <2>2
    <3> QED
      BY <1>1, <1>6, <1>8, <3>1 DEF AnsweredRetired
  <2> QED
    BY <2>1, <2>2
<1> QED
  BY <1>1, <1>3, <1>8, <1>10, <1>11 DEF AuthInv, AuthTypeOK
LEMMA ProfilesKeepInv ==
  ASSUME AuthInv, UNCHANGED clock,
         purgeExpired \/ \E w \in Wallets : deactivateProfile(w)
  PROVE  AuthInv'
<1>1. UNCHANGED <<nonces, sessions, authCalls>>
  BY DEF purgeExpired, deactivateProfile
<1>2. profiles \in [Wallets -> {None} \cup Profile] /\ clock \in Int /\ nonces \in Int
  BY DEF AuthInv, AuthTypeOK
<1>3. profiles' \in [Wallets -> {None} \cup Profile]
  <2>1. CASE purgeExpired
    BY <1>2, <2>1 DEF purgeExpired
  <2>2. ASSUME NEW w \in Wallets, deactivateProfile(w)
        PROVE  profiles' \in [Wallets -> {None} \cup Profile]
    <3>1. profiles[w] \in Profile /\ profiles' = [profiles EXCEPT ![w].active = FALSE]
      BY <1>2, <2>2 DEF deactivateProfile
    <3>2. [profiles[w] EXCEPT !.active = FALSE] \in Profile
      BY <3>1 DEF Profile
    <3> QED
      BY <1>2, <3>1, <3>2
  <2> QED
    BY <2>1, <2>2
<1> QED
  BY <1>1, <1>2, <1>3 DEF AuthInv, AuthTypeOK, AnsweredRetired, CallKnowsSessions

\* What the process had under way is gone; the sessions are in the database.
LEMMA RestartKeepsInv ==
  ASSUME AuthInv, UNCHANGED clock, authRestart
  PROVE  AuthInv'
<1>1. /\ authCalls' = [c \in AuthCalls |->
                         IF authCalls[c].pc = "sign" THEN authCalls[c] ELSE NoAuthCall]
      /\ UNCHANGED <<nonces, profiles, sessions>>
  BY DEF authRestart
<1>2. ASSUME NEW c \in AuthCalls
      PROVE  authCalls'[c] \in {NoAuthCall, authCalls[c]}
  BY <1>1
<1>3. ASSUME NEW c \in AuthCalls
      PROVE  authCalls'[c] \in AuthCall /\ CallKnowsSessions(authCalls[c])'
  <2>1. authCalls[c] \in AuthCall /\ CallKnowsSessions(authCalls[c])
    BY DEF AuthInv, AuthTypeOK
  <2>2. CASE authCalls'[c] = NoAuthCall
    BY <2>2, IdleKnows DEF CallKnowsSessions
  <2>3. CASE authCalls'[c] = authCalls[c]
    BY <1>1, <2>1, <2>3 DEF CallKnowsSessions
  <2> QED
    BY <1>2, <2>2, <2>3
<1>4. authCalls' \in [AuthCalls -> AuthCall]
  BY <1>1, <1>3
<1> QED
  BY <1>1, <1>3, <1>4 DEF AuthInv, AuthTypeOK, AnsweredRetired

LEMMA AuthInvStep ==
  ASSUME AuthInv, [AuthNext]_authAndClock
  PROVE  AuthInv'
<1>1. ASSUME AuthStep, UNCHANGED clock
      PROVE  AuthInv'
  BY <1>1, UpsertKeepsInv, ReadKeepsInv, IssueKeepsInv, RetireKeepsInv, ProfilesKeepInv,
     RestartKeepsInv
     DEF AuthStep
<1>2. ASSUME AuthClientStep, UNCHANGED clock
      PROVE  AuthInv'
  <2>1. PICK c \in AuthCalls :
          \/ \E w \in Wallets, arrives \in BOOLEAN : requestChallenge(c, w, arrives)
          \/ \E role \in UserRoles, ttl \in RequestedTtls : postLogin(c, role, ttl)
          \/ \E s \in Held : refreshSession(c, s) \/ logout(c, s)
          \/ abandon(c)
    BY <1>2 DEF AuthClientStep
  <2> QED
    BY <1>2, <2>1, LoginKeepsInv, ReadKeepsInv
<1>3. ASSUME tick \/ UNCHANGED clock, UNCHANGED authVars
      PROVE  AuthInv'
  <2>1. clock' \in Int
    BY <1>3 DEF tick, AuthInv, AuthTypeOK
  <2> QED
    BY <1>3, <2>1 DEF AuthInv, AuthTypeOK, AnsweredRetired, CallKnowsSessions
<1> QED
  BY <1>1, <1>2, <1>3 DEF AuthNext

LEMMA AuthInvariance == AuthSpec => []AuthInv
<1>1. ClockInit /\ AuthInit => AuthInv
  <2> SUFFICES ASSUME ClockInit, AuthInit PROVE AuthInv
    OBVIOUS
  <2>1. AuthTypeOK
    BY IdleKnows DEF ClockInit, AuthInit, AuthTypeOK
  <2>2. \A c \in AuthCalls : CallKnowsSessions(authCalls[c])
    BY IdleKnows DEF AuthInit
  <2> QED
    BY <2>1, <2>2 DEF AuthInv, AnsweredRetired, AuthInit
<1>2. AuthInv /\ [AuthNext]_authAndClock => AuthInv'
  BY AuthInvStep
<1> QED
  BY <1>1, <1>2, PTL DEF AuthSpec

(***************************************************************************)
(* Whoever holds a refreshed session id cannot use the old one any more,   *)
(* for any number of wallets, sessions, calls side by side and restarts:   *)
(* refresh answers only after it has revoked the old session, and nothing  *)
(* clears revoked_at.                                                      *)
(***************************************************************************)
THEOREM OldSessionRetiredHolds == AuthSpec => []OldSessionRetired
<1>1. AuthInv => OldSessionRetired
  BY DEF AuthInv, AnsweredRetired, OldSessionRetired, resolveActive, findSessionById
<1> QED
  BY <1>1, AuthInvariance, PTL

-------------------------------------------------------------------------------
(* Idempotent mutations *)

gatewayAndClock == <<idempotencyVars, complianceVars, authAndClock>>

GatewayNext ==
  \/ ComplianceStep /\ UNCHANGED authAndClock
  \/ IdempotencyStep /\ UNCHANGED <<complianceVars, authAndClock>>
  \/ AuthNext /\ UNCHANGED <<idempotencyVars, complianceVars>>

GatewaySpec ==
  /\ ClockInit /\ AuthInit /\ IdempotencyInit /\ ComplianceInit
  /\ [][GatewayNext]_gatewayAndClock

USE DEF idempotencyVars, complianceVars, gatewayAndClock, NoRequest

\* What a request may have read.
Read == {Unread, None} \cup ComplianceDecisionRecord

NewRequest     == [pc : {"reserve", "conflict", "handle"}, key : IdempotencyKeys, body : Bodies]
SaveRequest    == [pc : {"save"}, key : IdempotencyKeys, body : DecisionBodies, decidedAt : Int,
                   seen : SUBSET Int]
ResolveRequest == [pc : {"resolve", "resume"}, key : IdempotencyKeys, body : Bodies,
                   requested : Read, latest : Read, seen : SUBSET Int]
DoneRequest    == [pc : {"readBack", "finish"}, key : IdempotencyKeys, status : Int]

GatewayRequest == {NoRequest} \cup NewRequest \cup SaveRequest \cup ResolveRequest \cup DoneRequest

\* One of the decisions on trade t comes last.
HasLatest(t) ==
  OfTradeUnderReview(t) # {} =>
    \E d \in OfTradeUnderReview(t) : \A e \in OfTradeUnderReview(t) \ {d} : Later(d, e)

DecisionsOK ==
  /\ decisions \in SUBSET ComplianceDecisionRecord
  /\ \A d, e \in decisions : d.id = e.id => d = e
  /\ \A t : HasLatest(t)

GatewayTypeOK ==
  /\ clock \in Int
  /\ DecisionsOK
  /\ effects \in [IdempotencyKeys -> Nat]
  /\ serverErrors \in [IdempotencyKeys -> Nat]
  /\ keys \in [IdempotencyKeys -> {None} \cup IdempotencyRecord]
  /\ requests \in [Requests -> GatewayRequest]

\* getLatestDecision is defined, and is the decision that comes last.
LEMMA LatestDecision ==
  ASSUME DecisionsOK, NEW t
  PROVE  \/ getLatestDecision(t) = None
         \/ /\ getLatestDecision(t) \in OfTradeUnderReview(t)
            /\ \A e \in OfTradeUnderReview(t) \ {getLatestDecision(t)} :
                 Later(getLatestDecision(t), e)
<1>1. HasLatest(t)
  BY DEF DecisionsOK
<1> QED
  BY <1>1 DEF HasLatest, getLatestDecision

LEMMA LatestType ==
  ASSUME DecisionsOK, NEW t
  PROVE  getLatestDecision(t) \in {None} \cup ComplianceDecisionRecord
BY LatestDecision DEF DecisionsOK, OfTradeUnderReview

LEMMA FoundDecision ==
  ASSUME DecisionsOK, NEW id
  PROVE  /\ getDecision(id) \in {None} \cup ComplianceDecisionRecord
         /\ \A d \in decisions : d.id = id => getDecision(id) = d
BY DEF DecisionsOK, getDecision

\* Decisions with different ids are ordered, whatever they are dated.
LEMMA AddDecision ==
  ASSUME DecisionsOK, NEW d \in ComplianceDecisionRecord, \A e \in decisions : e.id # d.id,
         decisions' = decisions \cup {d}
  PROVE  DecisionsOK'
<1>1. decisions' \in SUBSET ComplianceDecisionRecord
  BY DEF DecisionsOK
<1>2. \A e, f \in decisions' : e.id = f.id => e = f
  BY DEF DecisionsOK
<1>3. ASSUME NEW t
      PROVE  HasLatest(t)'
  <2>1. HasLatest(t) /\ decisions \in SUBSET ComplianceDecisionRecord
    BY DEF DecisionsOK
  <2>2. CASE d.trade # t
    <3>1. OfTradeUnderReview(t)' = OfTradeUnderReview(t)
      BY <2>2 DEF OfTradeUnderReview
    <3> QED
      BY <2>1, <3>1 DEF HasLatest, Later
  <2>3. CASE d.trade = t
    <3>1. OfTradeUnderReview(t)' = OfTradeUnderReview(t) \cup {d}
      BY <2>3 DEF OfTradeUnderReview
    <3>2. CASE OfTradeUnderReview(t) = {}
      BY <3>1, <3>2 DEF HasLatest
    <3>3. CASE OfTradeUnderReview(t) # {}
      <4>1. PICK m \in OfTradeUnderReview(t) :
                 \A e \in OfTradeUnderReview(t) \ {m} : Later(m, e)
        BY <2>1, <3>3 DEF HasLatest
      <4>2. /\ m.id \in Int /\ m.decidedAt \in Int /\ d.id \in Int /\ d.decidedAt \in Int
            /\ m.id # d.id
        BY <2>1, <4>1 DEF ComplianceDecisionRecord, OfTradeUnderReview
      <4>3. \A e \in OfTradeUnderReview(t) : e.id \in Int /\ e.decidedAt \in Int
        BY <2>1 DEF ComplianceDecisionRecord, OfTradeUnderReview
      <4>4. CASE Later(m, d)
        BY <3>1, <4>1, <4>4 DEF HasLatest, Later
      <4>5. CASE Later(d, m)
        <5>1. \A e \in OfTradeUnderReview(t) : Later(d, e)
          BY <4>1, <4>2, <4>3, <4>5 DEF Later
        <5> QED
          BY <3>1, <5>1 DEF HasLatest, Later
      <4> QED
        BY <4>2, <4>4, <4>5 DEF Later
    <3> QED
      BY <3>2, <3>3
  <2> QED
    BY <2>2, <2>3
<1> QED
  BY <1>1, <1>2, <1>3 DEF DecisionsOK

-------------------------------------------------------------------------------
(* What a handler does to its request *)

\* A handler at work that has not written yet.
Early == {"handle", "resolve", "save", "resume"}

\* A handler reads, or gets ready to write.
Reads(r) ==
  /\ requests[r].pc \in Early
  /\ \E q \in GatewayRequest :
       /\ Continue(r, q)
       /\ q.pc \in Early
       /\ q.key = requests[r].key
  /\ UNCHANGED <<decisions, keys, effects, serverErrors>>

\* It commits its one write.
Writes(r) ==
  /\ requests[r].pc \in Early
  /\ \E status \in Int :
       Continue(r, [pc |-> "readBack", key |-> requests[r].key, status |-> status])
  /\ effects' = [effects EXCEPT ![requests[r].key] = @ + 1]
  /\ UNCHANGED <<keys, serverErrors>>
  /\ DecisionsOK'

\* It answers.
Responds(r) ==
  /\ requests[r].pc \in {"readBack"} \cup Early
  /\ \E status \in Int : Respond(r, status)
  /\ UNCHANGED <<decisions, keys, effects>>

LEMMA RequestAt ==
  ASSUME GatewayTypeOK, NEW r \in Requests
  PROVE  /\ requests[r] \in GatewayRequest
         /\ requests[r].pc \in {"reserve", "conflict", "handle"} => requests[r] \in NewRequest
         /\ requests[r].pc = "save" => requests[r] \in SaveRequest
         /\ requests[r].pc \in {"resolve", "resume"} => requests[r] \in ResolveRequest
         /\ requests[r].pc \in {"readBack", "finish"} => requests[r] \in DoneRequest
<1>1. requests[r] \in GatewayRequest
  BY DEF GatewayTypeOK
<1> QED
  BY <1>1 DEF GatewayRequest, NewRequest, SaveRequest, ResolveRequest, DoneRequest

LEMMA SeenType ==
  ASSUME DecisionsOK, NEW t
  PROVE  Seen(t) \in SUBSET Int
BY DEF DecisionsOK, ComplianceDecisionRecord, Seen, OfTradeUnderReview

LEMMA RespondsInt ==
  ASSUME NEW r, requests[r].pc \in {"readBack"} \cup Early, NEW status \in Int,
         Respond(r, status), NoWrite, UNCHANGED keys
  PROVE  Responds(r)
BY DEF Responds, NoWrite

LEMMA CreateKind ==
  ASSUME GatewayTypeOK, NEW r \in Requests, createDecision(r)
  PROVE  Reads(r) \/ Responds(r)
<1> DEFINE body == requests[r].body
           saving == [pc |-> "save", key |-> requests[r].key, body |-> body,
                      decidedAt |-> nextDecisionTimestamp(body.trade), seen |-> Seen(body.trade)]
<1>1. requests[r].pc = "handle" /\ NoWrite /\ UNCHANGED keys
  BY DEF createDecision, Handling, Bookkeeping
<1>2. Go(r, saving) \/ Respond(r, 400)
  BY DEF createDecision
<1>3. requests[r] \in NewRequest
  BY <1>1, RequestAt
<1>4. nextDecisionTimestamp(body.trade) \in Int
  <2>1. clock \in Int /\ DecisionsOK
    BY DEF GatewayTypeOK
  <2>2. getLatestDecision(body.trade) # None => getLatestDecision(body.trade).decidedAt \in Int
    BY <2>1, LatestType DEF ComplianceDecisionRecord
  <2> QED
    BY <2>1, <2>2 DEF nextDecisionTimestamp
<1>5. Seen(body.trade) \in SUBSET Int
  BY SeenType DEF GatewayTypeOK
<1>6. saving \in SaveRequest
  <2>1. body \in DecisionBodies
    BY <1>3 DEF NewRequest, DecisionBodies, createDecision, Handling
  <2> QED
    BY <1>3, <1>4, <1>5, <2>1 DEF SaveRequest, NewRequest
<1>7. PICK q : q = saving
  OBVIOUS
<1>8. q \in GatewayRequest /\ q.pc = "save" /\ q.key = requests[r].key
  BY <1>6, <1>7 DEF GatewayRequest
<1>9. CASE Go(r, saving)
  BY <1>1, <1>7, <1>8, <1>9 DEF Reads, Go, NoWrite, Early
<1>10. CASE Respond(r, 400)
  BY <1>1, <1>10, RespondsInt DEF Early
<1> QED
  BY <1>2, <1>9, <1>10

LEMMA SaveKind ==
  ASSUME GatewayTypeOK, NEW r \in Requests, saveDecisionWithAudit(r)
  PROVE  Writes(r)
<1>1. PICK id \in DecisionIds \ {d.id : d \in decisions} :
           /\ insertComplianceDecision(id, requests[r])
           /\ runTransactionalWrite(r, decisionAuditMetadata(id), 201)
  BY DEF saveDecisionWithAudit
<1>2. requests[r].pc = "save" /\ UNCHANGED keys
  BY DEF saveDecisionWithAudit, Bookkeeping
<1>3. requests[r] \in SaveRequest
  BY <1>2, RequestAt
<1>4. PICK d : d = [id |-> id, trade |-> requests[r].body.trade,
                    result |-> requests[r].body.result, reason |-> requests[r].body.reason,
                    ends |-> requests[r].body.ends, decidedAt |-> requests[r].decidedAt,
                    seen |-> requests[r].seen]
  OBVIOUS
<1>5. id \in Int
  BY ComplianceAssumption DEF DecisionIds
<1>6. /\ requests[r].body \in DecisionBodies
      /\ requests[r].decidedAt \in Int
      /\ requests[r].seen \in SUBSET Int
  BY <1>3 DEF SaveRequest
<1>7. d \in ComplianceDecisionRecord
  BY <1>4, <1>5, <1>6 DEF ComplianceDecisionRecord
<1>8. decisions' = decisions \cup {d}
  BY <1>1, <1>4 DEF insertComplianceDecision
<1>9. \A e \in decisions : e.id # d.id
  BY <1>1, <1>4
<1>10. DecisionsOK'
  BY <1>7, <1>8, <1>9, AddDecision DEF GatewayTypeOK
<1> QED
  BY <1>1, <1>2, <1>10 DEF Writes, Early, runTransactionalWrite, Go

LEMMA ControlReads ==
  ASSUME GatewayTypeOK, NEW r \in Requests,
         readBlock(r) \/ refuseByBlock(r) \/ resolveDecisionForTrade(r) \/ readLatest(r)
           \/ checkResume(r) \/ readBack(r) \/ statementFails(r)
  PROVE  Reads(r) \/ Responds(r)
<1>a. DecisionsOK
  BY DEF GatewayTypeOK
<1>b. NoWrite /\ UNCHANGED keys
  BY DEF readBlock, refuseByBlock, resolveDecisionForTrade, readLatest, checkResume, readBack,
         statementFails, Bookkeeping
<1>1. ASSUME readBlock(r)
      PROVE  Reads(r)
  <2>1. PICK q : q = [pc |-> "resolve", key |-> requests[r].key, body |-> requests[r].body,
                      requested |-> Unread, latest |-> Unread, seen |-> {}]
    OBVIOUS
  <2>2. requests[r].pc = "handle" /\ Go(r, q)
    BY <1>1, <2>1 DEF readBlock, Handling
  <2>3. requests[r] \in NewRequest
    BY <2>2, RequestAt
  <2>4. q \in ResolveRequest
    BY <2>1, <2>3 DEF NewRequest, ResolveRequest, Read
  <2> QED
    BY <1>b, <2>1, <2>2, <2>4 DEF Reads, Go, NoWrite, Early, GatewayRequest
<1>2. ASSUME refuseByBlock(r)
      PROVE  Responds(r)
  <2>1. requests[r].pc = "handle" /\ Respond(r, 409)
    BY <1>2 DEF refuseByBlock, Handling
  <2> QED
    BY <1>b, <2>1, RespondsInt DEF Early
<1>3. ASSUME resolveDecisionForTrade(r)
      PROVE  Reads(r) \/ Responds(r)
  <2>1. PICK found : found \in {None} \cup ComplianceDecisionRecord
                     /\ \/ Respond(r, 404)
                        \/ Respond(r, 409)
                        \/ Go(r, [requests[r] EXCEPT !.requested = found])
    <3> DEFINE body == requests[r].body
               f == IF body.decision = None THEN getLatestDecision(body.trade)
                                            ELSE getDecision(body.decision)
    <3>1. f \in {None} \cup ComplianceDecisionRecord
      BY <1>a, LatestType, FoundDecision
    <3>2. \/ Respond(r, 404)
          \/ Respond(r, 409)
          \/ Go(r, [requests[r] EXCEPT !.requested = f])
      BY <1>3, Zenon DEF resolveDecisionForTrade
    <3> QED
      BY <3>1, <3>2
  <2>2. requests[r].pc = "resolve"
    BY <1>3 DEF resolveDecisionForTrade
  <2>3. CASE Respond(r, 404) \/ Respond(r, 409)
    BY <1>b, <2>2, <2>3, RespondsInt DEF Early
  <2>4. CASE Go(r, [requests[r] EXCEPT !.requested = found])
    <3>1. PICK q : q = [requests[r] EXCEPT !.requested = found]
      OBVIOUS
    <3>2. requests[r] \in ResolveRequest
      BY <2>2, RequestAt
    <3>3. q \in ResolveRequest /\ q.key = requests[r].key /\ q.pc = requests[r].pc
      BY <2>1, <3>1, <3>2 DEF ResolveRequest, Read
    <3> QED
      BY <1>b, <2>2, <2>4, <3>1, <3>3 DEF Reads, Go, NoWrite, Early, GatewayRequest
  <2> QED
    BY <2>1, <2>3, <2>4
<1>4. ASSUME readLatest(r)
      PROVE  Reads(r)
  <2> DEFINE t == requests[r].body.trade
  <2>1. PICK q : q = [requests[r] EXCEPT !.latest = getLatestDecision(t), !.seen = Seen(t)]
    OBVIOUS
  <2>2. requests[r].pc = "resolve" /\ Go(r, q)
    BY <1>4, <2>1, Zenon DEF readLatest
  <2>3. requests[r] \in ResolveRequest
    BY <2>2, RequestAt
  <2>4. getLatestDecision(t) \in Read /\ Seen(t) \in SUBSET Int
    BY <1>a, LatestType, SeenType DEF Read
  <2> HIDE DEF t
  <2>5. q \in ResolveRequest /\ q.key = requests[r].key /\ q.pc = requests[r].pc
    BY <2>1, <2>3, <2>4 DEF ResolveRequest
  <2> QED
    BY <1>b, <2>2, <2>5 DEF Reads, Go, NoWrite, Early, GatewayRequest
<1>5. ASSUME checkResume(r)
      PROVE  Reads(r) \/ Responds(r)
  <2>1. PICK q : q = [requests[r] EXCEPT !.pc = "resume"]
    OBVIOUS
  <2>2. requests[r].pc = "resolve" /\ (Go(r, q) \/ Respond(r, 409))
    BY <1>5, <2>1 DEF checkResume
  <2>3. requests[r] \in ResolveRequest
    BY <2>2, RequestAt
  <2>4. q \in ResolveRequest /\ q.key = requests[r].key /\ q.pc = "resume"
    BY <2>1, <2>3 DEF ResolveRequest
  <2>5. CASE Go(r, q)
    BY <1>b, <2>2, <2>4, <2>5 DEF Reads, Go, NoWrite, Early, GatewayRequest
  <2>6. CASE Respond(r, 409)
    BY <1>b, <2>2, <2>6, RespondsInt DEF Early
  <2> QED
    BY <2>2, <2>5, <2>6
<1>6. ASSUME readBack(r)
      PROVE  Responds(r)
  <2>1. requests[r].pc = "readBack" /\ Respond(r, requests[r].status)
    BY <1>6 DEF readBack
  <2>2. requests[r].status \in Int
    BY <2>1, RequestAt DEF DoneRequest
  <2> QED
    BY <1>b, <2>1, <2>2, RespondsInt
<1>7. ASSUME statementFails(r)
      PROVE  Responds(r)
  <2>1. requests[r].pc \in {"readBack"} \cup Early /\ Respond(r, 500)
    BY <1>7 DEF statementFails, Early
  <2> QED
    BY <1>b, <2>1, RespondsInt
<1> QED
  BY <1>1, <1>2, <1>3, <1>4, <1>5, <1>6, <1>7

LEMMA ControlWrites ==
  ASSUME GatewayTypeOK, NEW r \in Requests,
         blockOracleProgression(r) \/ resumeOracleProgression(r)
  PROVE  Writes(r) \/ Responds(r)
<1>1. ASSUME NEW state, NEW d, NEW seen, saveBlockStateWithAudit(r, state, d, seen), UNCHANGED keys,
             requests[r].pc \in Early
      PROVE  Writes(r)
  <2>1. UNCHANGED decisions
    BY <1>1 DEF saveBlockStateWithAudit
  <2>2. DecisionsOK'
    BY <2>1 DEF GatewayTypeOK, DecisionsOK, HasLatest, OfTradeUnderReview, Later
  <2> QED
    BY <1>1, <2>2 DEF Writes, saveBlockStateWithAudit, runTransactionalWrite, Go
<1>2. requests[r].pc \in Early /\ UNCHANGED keys
  BY DEF blockOracleProgression, resumeOracleProgression, Early, Bookkeeping
<1>3. CASE blockOracleProgression(r)
  BY <1>1, <1>2, <1>3, RespondsInt DEF blockOracleProgression
<1>4. CASE resumeOracleProgression(r)
  BY <1>1, <1>2, <1>4 DEF resumeOracleProgression
<1> QED
  BY <1>3, <1>4

LEMMA ComplianceKind ==
  ASSUME GatewayTypeOK, ComplianceStep
  PROVE  \E r \in Requests : Reads(r) \/ Writes(r) \/ Responds(r)
<1>1. PICK r \in Requests :
        \/ createDecision(r) \/ saveDecisionWithAudit(r) \/ readBack(r)
        \/ readBlock(r) \/ refuseByBlock(r)
        \/ resolveDecisionForTrade(r) \/ readLatest(r)
        \/ blockOracleProgression(r) \/ checkResume(r) \/ resumeOracleProgression(r)
        \/ statementFails(r)
  BY DEF ComplianceStep
<1> QED
  BY <1>1, CreateKind, SaveKind, ControlReads, ControlWrites

-------------------------------------------------------------------------------
(* One effect for each key *)

\* The request holds the reservation of its key.
Owns(q) == q.pc \in {"readBack", "finish"} \cup Early

\* What it wrote with the key, if anything, was answered by a 5xx, before or now.
Unwritten(q) == q.pc \in Early \/ (q.pc = "finish" /\ q.status >= 500)

\* A key is held by one request at a time, and as long as it is free, or its holder has
\* not written, counts no more writes than 5xx answers.
KeysInv ==
  /\ GatewayTypeOK
  /\ \A r \in Requests : Owns(requests[r]) => keys[requests[r].key] # None
  /\ \A r, s \in Requests :
       r # s /\ Owns(requests[r]) /\ Owns(requests[s]) => requests[r].key # requests[s].key
  /\ \A k \in IdempotencyKeys :
       /\ effects[k] <= 1 + serverErrors[k]
       /\ keys[k] = None => effects[k] <= serverErrors[k]
  /\ \A r \in Requests :
       Unwritten(requests[r]) => effects[requests[r].key] <= serverErrors[requests[r].key]

LEMMA KeyAt ==
  ASSUME GatewayTypeOK, NEW r \in Requests, requests[r] # NoRequest
  PROVE  /\ requests[r].key \in IdempotencyKeys
         /\ requests[r].pc \in {"readBack", "finish"} => requests[r].status \in Int
BY RequestAt DEF GatewayRequest, NewRequest, SaveRequest, ResolveRequest, DoneRequest

LEMMA OwnerAt ==
  ASSUME GatewayTypeOK, NEW r \in Requests, Owns(requests[r])
  PROVE  requests[r].key \in IdempotencyKeys
BY KeyAt DEF Owns, Early

LEMMA NewRow ==
  ASSUME NEW body \in Bodies
  PROVE  Reserved(body) \in IdempotencyRecord /\ Reserved(body) # None
<1>1. Reserved(body) \in IdempotencyRecord
  BY DEF IdempotencyRecord, Reserved
<1> QED
  BY <1>1, IdempotencyAssumption DEF IdempotencyRecord

LEMMA RequestContinues ==
  ASSUME GatewayTypeOK, NEW r \in Requests, NEW q \in GatewayRequest, Continue(r, q)
  PROVE  /\ requests' \in [Requests -> GatewayRequest]
         /\ requests'[r] = q
         /\ \A s \in Requests \ {r} : requests'[s] = requests[s]
BY DEF GatewayTypeOK, Continue

LEMMA ReadsKeepKeys ==
  ASSUME KeysInv, NEW r \in Requests, Reads(r), UNCHANGED clock
  PROVE  KeysInv'
<1>1. GatewayTypeOK
  BY DEF KeysInv
<1>2. PICK q \in GatewayRequest : /\ Continue(r, q)
                                  /\ q.pc \in Early
                                  /\ q.key = requests[r].key
  BY DEF Reads
<1>3. /\ requests' \in [Requests -> GatewayRequest]
      /\ requests'[r] = q
      /\ \A s \in Requests \ {r} : requests'[s] = requests[s]
  BY <1>1, <1>2, RequestContinues
<1>4. UNCHANGED <<decisions, keys, effects, serverErrors>> /\ requests[r].pc \in Early
  BY DEF Reads
<1>5. GatewayTypeOK'
  BY <1>1, <1>3, <1>4 DEF GatewayTypeOK, DecisionsOK, HasLatest, OfTradeUnderReview, Later
<1>6. Owns(requests[r]) /\ Owns(q) /\ Unwritten(requests[r]) /\ Unwritten(q)
  BY <1>2, <1>4 DEF Owns, Unwritten
<1>7. \A s \in Requests : /\ Owns(requests'[s]) <=> Owns(requests[s])
                          /\ Unwritten(requests'[s]) <=> Unwritten(requests[s])
                          /\ Owns(requests[s]) => requests'[s].key = requests[s].key
  BY <1>2, <1>3, <1>6
<1>8. \A s \in Requests : Unwritten(requests[s]) => Owns(requests[s])
  BY DEF Owns, Unwritten
<1> QED
  BY <1>4, <1>5, <1>7, <1>8 DEF KeysInv

LEMMA WritesKeepKeys ==
  ASSUME KeysInv, NEW r \in Requests, Writes(r), UNCHANGED clock
  PROVE  KeysInv'
<1> DEFINE k == requests[r].key
<1>1. GatewayTypeOK
  BY DEF KeysInv
<1>2. PICK status \in Int : Continue(r, [pc |-> "readBack", key |-> k, status |-> status])
  BY DEF Writes
<1>3. /\ UNCHANGED <<keys, serverErrors>>
      /\ requests[r].pc \in Early
      /\ effects' = [effects EXCEPT ![k] = @ + 1]
      /\ DecisionsOK'
  BY DEF Writes
<1>4. Owns(requests[r]) /\ Unwritten(requests[r])
  BY <1>3 DEF Owns, Unwritten
<1>5. k \in IdempotencyKeys
  BY <1>1, <1>4, OwnerAt
<1>6. PICK q : q = [pc |-> "readBack", key |-> k, status |-> status]
  OBVIOUS
<1>7. q \in GatewayRequest /\ q.key = k /\ q.pc = "readBack"
  BY <1>5, <1>6 DEF GatewayRequest, DoneRequest
<1>8. /\ requests' \in [Requests -> GatewayRequest]
      /\ requests'[r] = q
      /\ \A s \in Requests \ {r} : requests'[s] = requests[s]
  BY <1>1, <1>2, <1>6, <1>7, RequestContinues
<1>9. /\ effects' \in [IdempotencyKeys -> Nat]
      /\ effects'[k] = effects[k] + 1
      /\ \A j \in IdempotencyKeys \ {k} : effects'[j] = effects[j]
  BY <1>1, <1>3, <1>5 DEF GatewayTypeOK
<1>10. GatewayTypeOK'
  BY <1>1, <1>3, <1>8, <1>9 DEF GatewayTypeOK
<1>11. Owns(q) /\ ~Unwritten(q)
  BY <1>7 DEF Owns, Unwritten, Early
<1>12. effects[k] <= serverErrors[k] /\ keys[k] # None
  BY <1>4 DEF KeysInv
<1>13. effects[k] \in Nat /\ serverErrors[k] \in Nat
  BY <1>1, <1>5 DEF GatewayTypeOK
<1>14. \A j \in IdempotencyKeys :
         /\ effects'[j] <= 1 + serverErrors'[j]
         /\ keys'[j] = None => effects'[j] <= serverErrors'[j]
  BY <1>3, <1>9, <1>12, <1>13 DEF KeysInv
<1>15. \A s \in Requests : Owns(requests'[s]) => keys'[requests'[s].key] # None
  BY <1>3, <1>7, <1>8, <1>12 DEF KeysInv
<1>16. \A s \in Requests :
         Owns(requests'[s]) => Owns(requests[s]) /\ requests'[s].key = requests[s].key
  BY <1>4, <1>7, <1>8
<1>17. ASSUME NEW s \in Requests, Unwritten(requests'[s])
       PROVE  effects'[requests'[s].key] <= serverErrors'[requests'[s].key]
  <2>1. s # r /\ requests'[s] = requests[s]
    BY <1>8, <1>11, <1>17
  <2>2. Owns(requests[s])
    BY <1>17, <2>1 DEF Owns, Unwritten
  <2>3. requests[s].key # k /\ requests[s].key \in IdempotencyKeys
    BY <1>1, <1>4, <2>1, <2>2, OwnerAt DEF KeysInv
  <2> QED
    BY <1>3, <1>9, <1>17, <2>1, <2>3 DEF KeysInv
<1>18. \A s, u \in Requests :
         s # u /\ Owns(requests'[s]) /\ Owns(requests'[u]) => requests'[s].key # requests'[u].key
  BY <1>16 DEF KeysInv
<1> QED
  BY <1>10, <1>14, <1>15, <1>17, <1>18 DEF KeysInv

\* An error 5xx makes up for what may have been written.
LEMMA RespondsKeepKeys ==
  ASSUME KeysInv, NEW r \in Requests, Responds(r), UNCHANGED clock
  PROVE  KeysInv'
<1> DEFINE k == requests[r].key
<1>1. GatewayTypeOK
  BY DEF KeysInv
<1>2. PICK status \in Int : Respond(r, status)
  BY DEF Responds
<1>3. /\ UNCHANGED <<decisions, keys, effects>>
      /\ requests[r].pc \in {"readBack"} \cup Early
      /\ serverErrors' = [serverErrors EXCEPT ![k] = IF status >= 500 THEN @ + 1 ELSE @]
      /\ Continue(r, [pc |-> "finish", key |-> k, status |-> status])
  BY <1>2 DEF Responds, Respond
<1>4. Owns(requests[r])
  BY <1>3 DEF Owns
<1>5. k \in IdempotencyKeys
  BY <1>1, <1>4, OwnerAt
<1>6. PICK q : q = [pc |-> "finish", key |-> k, status |-> status]
  OBVIOUS
<1>7. q \in GatewayRequest /\ q.key = k /\ q.pc = "finish" /\ q.status = status
  BY <1>5, <1>6 DEF GatewayRequest, DoneRequest
<1>8. /\ requests' \in [Requests -> GatewayRequest]
      /\ requests'[r] = q
      /\ \A s \in Requests \ {r} : requests'[s] = requests[s]
  BY <1>1, <1>3, <1>6, <1>7, RequestContinues
<1>9. /\ serverErrors' \in [IdempotencyKeys -> Nat]
      /\ serverErrors'[k] = IF status >= 500 THEN serverErrors[k] + 1 ELSE serverErrors[k]
      /\ \A j \in IdempotencyKeys \ {k} : serverErrors'[j] = serverErrors[j]
  BY <1>1, <1>3, <1>5 DEF GatewayTypeOK
<1>10. GatewayTypeOK'
  BY <1>1, <1>3, <1>8, <1>9
     DEF GatewayTypeOK, DecisionsOK, HasLatest, OfTradeUnderReview, Later
<1>11. /\ \A j \in IdempotencyKeys : effects[j] \in Nat /\ serverErrors[j] \in Nat
       /\ \A j \in IdempotencyKeys : serverErrors[j] <= serverErrors'[j]
  BY <1>1, <1>9 DEF GatewayTypeOK
<1>12. \A j \in IdempotencyKeys :
         /\ effects'[j] <= 1 + serverErrors'[j]
         /\ keys'[j] = None => effects'[j] <= serverErrors'[j]
  <2>1. \A j \in IdempotencyKeys : serverErrors'[j] \in Nat
    BY <1>9
  <2> QED
    BY <1>3, <1>11, <2>1 DEF KeysInv
<1>13. \A s \in Requests :
         Owns(requests'[s]) => Owns(requests[s]) /\ requests'[s].key = requests[s].key
  BY <1>4, <1>7, <1>8
<1>14. \A s \in Requests : Owns(requests'[s]) => keys'[requests'[s].key] # None
  BY <1>3, <1>13 DEF KeysInv
<1>15. \A s, u \in Requests :
         s # u /\ Owns(requests'[s]) /\ Owns(requests'[u]) => requests'[s].key # requests'[u].key
  BY <1>13 DEF KeysInv
<1>16. ASSUME NEW s \in Requests, Unwritten(requests'[s])
       PROVE  effects'[requests'[s].key] <= serverErrors'[requests'[s].key]
  <2>1. CASE s = r
    <3>1. status >= 500
      BY <1>7, <1>8, <1>16, <2>1 DEF Unwritten, Early
    <3>2. effects[k] <= 1 + serverErrors[k]
      BY <1>5 DEF KeysInv
    <3> QED
      BY <1>3, <1>5, <1>7, <1>8, <1>9, <1>11, <2>1, <3>1, <3>2
  <2>2. CASE s # r
    <3>1. requests'[s] = requests[s] /\ Owns(requests[s])
      BY <1>8, <1>16, <2>2 DEF Owns, Unwritten
    <3>2. requests[s].key # k /\ requests[s].key \in IdempotencyKeys
      BY <1>1, <1>4, <2>2, <3>1, OwnerAt DEF KeysInv
    <3> QED
      BY <1>3, <1>9, <1>16, <3>1, <3>2 DEF KeysInv
  <2> QED
    BY <2>1, <2>2
<1> QED
  BY <1>10, <1>12, <1>14, <1>15, <1>16 DEF KeysInv

\* A request that holds no key, before and after.
LEMMA UnownedKeepsKeys ==
  ASSUME KeysInv, NEW r \in Requests, NEW q \in GatewayRequest, Continue(r, q), ~Owns(q),
         UNCHANGED <<decisions, keys, effects, serverErrors, clock>>
  PROVE  KeysInv'
<1>1. GatewayTypeOK
  BY DEF KeysInv
<1>2. /\ requests' \in [Requests -> GatewayRequest]
      /\ requests'[r] = q
      /\ \A s \in Requests \ {r} : requests'[s] = requests[s]
  BY <1>1, RequestContinues
<1>3. GatewayTypeOK'
  BY <1>1, <1>2 DEF GatewayTypeOK, DecisionsOK, HasLatest, OfTradeUnderReview, Later
<1>4. \A s \in Requests :
        Owns(requests'[s]) => Owns(requests[s]) /\ requests'[s] = requests[s]
  BY <1>2
<1>5. \A s \in Requests : Unwritten(requests'[s]) => Owns(requests'[s])
  BY DEF Owns, Unwritten
<1> QED
  BY <1>3, <1>4, <1>5 DEF KeysInv

LEMMA PendingKeepsKeys ==
  ASSUME KeysInv, NEW r \in Requests, createPending(r), UNCHANGED <<decisions, clock>>
  PROVE  KeysInv'
<1> DEFINE k == requests[r].key
           row == Reserved(requests[r].body)
<1>1. GatewayTypeOK
  BY DEF KeysInv
<1>2. requests[r].pc = "reserve" /\ UNCHANGED <<effects, serverErrors>>
  BY DEF createPending
<1>3. requests[r] \in NewRequest
  BY <1>1, <1>2, RequestAt
<1>4. k \in IdempotencyKeys /\ row \in IdempotencyRecord /\ row # None
  BY <1>3, NewRow DEF NewRequest
<1>5. \/ /\ keys[k] = None
         /\ keys' = [keys EXCEPT ![k] = row]
         /\ Continue(r, [requests[r] EXCEPT !.pc = "handle"])
      \/ /\ Continue(r, [requests[r] EXCEPT !.pc = "conflict"])
         /\ UNCHANGED keys
  BY DEF createPending
<1>6. ASSUME Continue(r, [requests[r] EXCEPT !.pc = "conflict"]), UNCHANGED keys
      PROVE  KeysInv'
  <2>1. PICK q : q = [requests[r] EXCEPT !.pc = "conflict"]
    OBVIOUS
  <2>2. q \in NewRequest /\ q.pc = "conflict"
    BY <1>3, <2>1 DEF NewRequest
  <2>3. q \in GatewayRequest /\ ~Owns(q)
    BY <2>2 DEF GatewayRequest, Owns, Early
  <2> QED
    BY <1>2, <1>6, <2>1, <2>3, UnownedKeepsKeys
<1>7. ASSUME keys[k] = None, keys' = [keys EXCEPT ![k] = row],
             Continue(r, [requests[r] EXCEPT !.pc = "handle"])
      PROVE  KeysInv'
  <2>1. PICK q : q = [requests[r] EXCEPT !.pc = "handle"]
    OBVIOUS
  <2>2. q \in NewRequest /\ q.pc = "handle" /\ q.key = k
    BY <1>3, <2>1 DEF NewRequest
  <2>3. q \in GatewayRequest
    BY <2>2 DEF GatewayRequest
  <2>4. /\ requests' \in [Requests -> GatewayRequest]
        /\ requests'[r] = q
        /\ \A s \in Requests \ {r} : requests'[s] = requests[s]
    BY <1>1, <1>7, <2>1, <2>3, RequestContinues
  <2>5. /\ keys' \in [IdempotencyKeys -> {None} \cup IdempotencyRecord]
        /\ keys'[k] # None
        /\ \A j \in IdempotencyKeys \ {k} : keys'[j] = keys[j]
    BY <1>1, <1>4, <1>7 DEF GatewayTypeOK
  <2>6. GatewayTypeOK'
    BY <1>1, <1>2, <2>4, <2>5 DEF GatewayTypeOK, DecisionsOK, HasLatest, OfTradeUnderReview, Later
  <2>7. ASSUME NEW s \in Requests \ {r}, Owns(requests'[s])
        PROVE  /\ Owns(requests[s])
               /\ requests'[s] = requests[s]
               /\ requests[s].key \in IdempotencyKeys \ {k}
    <3>1. requests'[s] = requests[s] /\ Owns(requests[s])
      BY <2>4, <2>7
    <3>2. keys[requests[s].key] # None
      BY <3>1 DEF KeysInv
    <3> QED
      BY <1>1, <1>7, <3>1, <3>2, OwnerAt
  <2>8. \A s \in Requests : Owns(requests'[s]) => keys'[requests'[s].key] # None
    <3>1. \A s \in Requests \ {r} : Owns(requests'[s]) => keys'[requests'[s].key] # None
      BY <2>5, <2>7 DEF KeysInv
    <3> QED
      BY <2>2, <2>4, <2>5, <3>1
  <2>9. \A s, u \in Requests :
          s # u /\ Owns(requests'[s]) /\ Owns(requests'[u]) => requests'[s].key # requests'[u].key
    <3>1. \A s, u \in Requests \ {r} :
            s # u /\ Owns(requests'[s]) /\ Owns(requests'[u])
              => requests'[s].key # requests'[u].key
      BY <2>7 DEF KeysInv
    <3>2. \A s \in Requests \ {r} : Owns(requests'[s]) => requests'[s].key # requests'[r].key
      BY <2>2, <2>4, <2>7
    <3> QED
      BY <3>1, <3>2
  <2>10. \A j \in IdempotencyKeys :
           /\ effects'[j] <= 1 + serverErrors'[j]
           /\ keys'[j] = None => effects'[j] <= serverErrors'[j]
    BY <1>2, <2>5 DEF KeysInv
  <2>11. \A s \in Requests :
           Unwritten(requests'[s]) => effects'[requests'[s].key] <= serverErrors'[requests'[s].key]
    <3>1. effects[k] <= serverErrors[k]
      BY <1>4, <1>7 DEF KeysInv
    <3>2. ASSUME NEW s \in Requests \ {r}, Unwritten(requests'[s])
          PROVE  effects'[requests'[s].key] <= serverErrors'[requests'[s].key]
      BY <1>2, <2>4, <3>2 DEF KeysInv
    <3> QED
      BY <1>2, <2>2, <2>4, <3>1, <3>2
  <2> QED
    BY <2>6, <2>8, <2>9, <2>10, <2>11 DEF KeysInv
<1> QED
  BY <1>5, <1>6, <1>7

LEMMA FinishedRow ==
  ASSUME NEW row \in {None} \cup IdempotencyRecord, NEW status \in Int
  PROVE  /\ complete(row, status) \in {None} \cup IdempotencyRecord
         /\ releasePending(row) \in {None} \cup IdempotencyRecord
         /\ row # None => complete(row, status) # None
<1>1. row \in IdempotencyRecord => [row EXCEPT !.response = status] \in IdempotencyRecord
  BY DEF IdempotencyRecord
<1>2. None \notin IdempotencyRecord
  BY IdempotencyAssumption DEF IdempotencyRecord
<1> QED
  BY <1>1, <1>2 DEF complete, releasePending

\* The key is written as the request ends: kept, or given back after a 5xx.
LEMMA FinishKeepsKeys ==
  ASSUME KeysInv, NEW r \in Requests, finish(r), UNCHANGED <<decisions, clock>>
  PROVE  KeysInv'
<1> DEFINE k == requests[r].key
           status == requests[r].status
<1>1. GatewayTypeOK
  BY DEF KeysInv
<1>2. /\ requests[r].pc = "finish"
      /\ keys' = [keys EXCEPT ![k] = IF status >= 500 THEN releasePending(@) ELSE complete(@, status)]
      /\ Continue(r, NoRequest)
      /\ UNCHANGED <<effects, serverErrors>>
  BY Zenon DEF finish
<1>3. requests[r] \in DoneRequest
  BY <1>1, <1>2, RequestAt
<1>4. k \in IdempotencyKeys /\ status \in Int /\ Owns(requests[r])
  BY <1>2, <1>3 DEF DoneRequest, Owns
<1>5. keys[k] \in {None} \cup IdempotencyRecord /\ keys[k] # None
  BY <1>1, <1>4 DEF GatewayTypeOK, KeysInv
<1>6. /\ keys' \in [IdempotencyKeys -> {None} \cup IdempotencyRecord]
      /\ \A j \in IdempotencyKeys \ {k} : keys'[j] = keys[j]
      /\ keys'[k] = None => status >= 500
  BY <1>1, <1>2, <1>4, <1>5, FinishedRow DEF GatewayTypeOK
<1>7. NoRequest \in GatewayRequest
  BY DEF GatewayRequest
<1>8. /\ requests' \in [Requests -> GatewayRequest]
      /\ requests'[r] = NoRequest
      /\ \A s \in Requests \ {r} : requests'[s] = requests[s]
  BY <1>1, <1>2, <1>7, RequestContinues
<1>9. GatewayTypeOK'
  BY <1>1, <1>2, <1>6, <1>8
     DEF GatewayTypeOK, DecisionsOK, HasLatest, OfTradeUnderReview, Later
<1>10. ~Owns(NoRequest)
  BY DEF Owns, Early
<1>11. ASSUME NEW s \in Requests, Owns(requests'[s])
       PROVE  /\ Owns(requests[s])
              /\ requests'[s] = requests[s]
              /\ requests[s].key \in IdempotencyKeys \ {k}
              /\ s # r
  <2>1. s # r /\ requests'[s] = requests[s] /\ Owns(requests[s])
    BY <1>8, <1>10, <1>11
  <2>2. requests[s].key # k
    BY <1>4, <2>1 DEF KeysInv
  <2> QED
    BY <1>1, <2>1, <2>2, OwnerAt
<1>12. \A j \in IdempotencyKeys :
         /\ effects'[j] <= 1 + serverErrors'[j]
         /\ keys'[j] = None => effects'[j] <= serverErrors'[j]
  <2>1. status >= 500 => effects[k] <= serverErrors[k]
    BY <1>2 DEF KeysInv, Unwritten
  <2> QED
    BY <1>2, <1>6, <2>1 DEF KeysInv
<1>13. \A s \in Requests : Owns(requests'[s]) => keys'[requests'[s].key] # None
  BY <1>6, <1>11 DEF KeysInv
<1>14. \A s, u \in Requests :
         s # u /\ Owns(requests'[s]) /\ Owns(requests'[u]) => requests'[s].key # requests'[u].key
  BY <1>11 DEF KeysInv
<1>15. \A s \in Requests : Unwritten(requests'[s]) => Owns(requests'[s])
  BY DEF Owns, Unwritten
<1> QED
  BY <1>2, <1>9, <1>11, <1>12, <1>13, <1>14, <1>15 DEF KeysInv

LEMMA CrashKeepsKeys ==
  ASSUME KeysInv, gatewayCrash, UNCHANGED <<decisions, clock>>
  PROVE  KeysInv'
<1>1. GatewayTypeOK
  BY DEF KeysInv
<1>2. /\ requests' = [r \in Requests |-> NoRequest]
      /\ UNCHANGED <<keys, effects, serverErrors>>
  BY DEF gatewayCrash
<1>3. NoRequest \in GatewayRequest /\ ~Owns(NoRequest) /\ ~Unwritten(NoRequest)
  BY DEF GatewayRequest, Owns, Unwritten, Early
<1>4. GatewayTypeOK'
  BY <1>1, <1>2, <1>3 DEF GatewayTypeOK, DecisionsOK, HasLatest, OfTradeUnderReview, Later
<1> QED
  BY <1>2, <1>3, <1>4 DEF KeysInv

LEMMA KeysInvStep ==
  ASSUME KeysInv, [GatewayNext]_gatewayAndClock
  PROVE  KeysInv'
<1>1. GatewayTypeOK
  BY DEF KeysInv
<1>2. ASSUME ComplianceStep, UNCHANGED authAndClock
      PROVE  KeysInv'
  BY <1>1, <1>2, ComplianceKind, ReadsKeepKeys, WritesKeepKeys, RespondsKeepKeys
<1>3. ASSUME IdempotencyStep, UNCHANGED <<complianceVars, authAndClock>>
      PROVE  KeysInv'
  <2>1. ASSUME NEW r \in Requests, NEW s \in DOMAIN sessions, NEW k \in IdempotencyKeys,
               NEW body \in Bodies, authenticate(r, s, k, body)
        PROVE  KeysInv'
    <3>1. PICK q : q = [pc |-> "reserve", key |-> k, body |-> body]
      OBVIOUS
    <3>2. q \in GatewayRequest /\ ~Owns(q)
      BY <3>1 DEF GatewayRequest, NewRequest, Owns, Early
    <3>3. Continue(r, q) /\ UNCHANGED <<keys, effects, serverErrors>>
      BY <2>1, <3>1 DEF authenticate
    <3> QED
      BY <1>3, <3>2, <3>3, UnownedKeepsKeys
  <2>2. ASSUME NEW r \in Requests, answerConflict(r)
        PROVE  KeysInv'
    <3>1. NoRequest \in GatewayRequest /\ ~Owns(NoRequest)
      BY DEF GatewayRequest, Owns, Early
    <3>2. Continue(r, NoRequest) /\ UNCHANGED <<keys, effects, serverErrors>>
      BY <2>2 DEF answerConflict
    <3> QED
      BY <1>3, <3>1, <3>2, UnownedKeepsKeys
  <2> QED
    BY <1>3, <2>1, <2>2, PendingKeepsKeys, FinishKeepsKeys, CrashKeepsKeys DEF IdempotencyStep
<1>4. ASSUME AuthNext \/ UNCHANGED authAndClock, UNCHANGED <<idempotencyVars, complianceVars>>
      PROVE  KeysInv'
  <2>1. clock' \in Int
    BY <1>1, <1>4 DEF AuthNext, tick, GatewayTypeOK
  <2>2. GatewayTypeOK'
    BY <1>1, <1>4, <2>1 DEF GatewayTypeOK, DecisionsOK, HasLatest, OfTradeUnderReview, Later
  <2> QED
    BY <1>4, <2>2 DEF KeysInv, Owns, Unwritten, Early
<1> QED
  BY <1>2, <1>3, <1>4 DEF GatewayNext

LEMMA KeysInit ==
  ASSUME ClockInit, IdempotencyInit, ComplianceInit
  PROVE  KeysInv
<1>1. NoRequest \in GatewayRequest /\ ~Owns(NoRequest) /\ ~Unwritten(NoRequest)
  BY DEF GatewayRequest, Owns, Unwritten, Early
<1>2. DecisionsOK
  BY DEF ComplianceInit, DecisionsOK, HasLatest, OfTradeUnderReview
<1>3. GatewayTypeOK
  BY <1>1, <1>2 DEF ClockInit, IdempotencyInit, GatewayTypeOK
<1> QED
  BY <1>1, <1>3 DEF KeysInv, IdempotencyInit

LEMMA KeysInvariance == GatewaySpec => []KeysInv
<1>1. ClockInit /\ IdempotencyInit /\ ComplianceInit => KeysInv
  BY KeysInit
<1>2. KeysInv /\ [GatewayNext]_gatewayAndClock => KeysInv'
  BY KeysInvStep
<1> QED
  BY <1>1, <1>2, PTL DEF GatewaySpec

(***************************************************************************)
(* However often requests are sent with a key, by any number of callers,   *)
(* at the same time, again after an answer, or after a crash, the write    *)
(* behind the key is carried out once, and once more only for each 5xx     *)
(* answer (createPending, complete and releasePending).                    *)
(***************************************************************************)
THEOREM OneEffectPerKeyHolds == GatewaySpec => []OneEffectPerKey
<1>1. KeysInv => OneEffectPerKey
  BY DEF KeysInv, OneEffectPerKey
<1> QED
  BY <1>1, KeysInvariance, PTL

-------------------------------------------------------------------------------
(* Progression is not resumed over a denial *)

\* Decision d of trade t comes after all others that were recorded by then.
Tells(d, t, seen) ==
  /\ d \in decisions
  /\ d.trade = t
  /\ seen \subseteq {e.id : e \in decisions}
  /\ \A e \in OfTradeUnderReview(t) \ {d} : e.id \in seen => Later(d, e)

\* What a resumption has read of the trade, and what it is about to write.
ReviewRequest(q) ==
  /\ q.pc \in {"resolve", "resume"} /\ q.body.op = "resume" =>
       q.latest \in {Unread, None} \/ Tells(q.latest, q.body.trade, q.seen)
  /\ q.pc = "resume" =>
       /\ q.body.op = "resume"
       /\ q.latest \notin {Unread, None}
       /\ q.latest.result = "ALLOW"

\* A trade that is not blocked any more was resumed on an ALLOW.
ResumedOnAllow(t) ==
  blocks[t] # None /\ blocks[t].state = "not_blocked" =>
    \E d \in decisions :
      /\ d.id = blocks[t].decision
      /\ d.result = "ALLOW"
      /\ Tells(d, t, blocks[t].seen)

ReviewInv ==
  /\ GatewayTypeOK
  /\ blocks = [t \in TradesUnderReview |-> blocks[t]]
  /\ \A r \in Requests : ReviewRequest(requests[r])
  /\ \A t \in TradesUnderReview : ResumedOnAllow(t)

\* Decisions are added, with new ids, and never changed.
DecisionsGrow ==
  /\ decisions \subseteq decisions'
  /\ \A e \in decisions' \ decisions : \A d \in decisions : e.id # d.id

LEMMA TellsStays ==
  ASSUME DecisionsGrow, NEW d, NEW t, NEW seen, Tells(d, t, seen)
  PROVE  Tells(d, t, seen)'
<1>1. ASSUME NEW e \in OfTradeUnderReview(t)' \ {d}, e.id \in seen
      PROVE  Later(d, e)
  <2>1. e \in decisions
    BY <1>1 DEF DecisionsGrow, Tells, OfTradeUnderReview
  <2> QED
    BY <1>1, <2>1 DEF Tells, OfTradeUnderReview
<1> QED
  BY <1>1 DEF Tells, DecisionsGrow, Later

LEMMA ReviewStays ==
  ASSUME DecisionsGrow, NEW q, ReviewRequest(q)
  PROVE  ReviewRequest(q)'
BY TellsStays DEF ReviewRequest

LEMMA ResumedStays ==
  ASSUME DecisionsGrow, NEW t, ResumedOnAllow(t), blocks'[t] = blocks[t]
  PROVE  ResumedOnAllow(t)'
<1> SUFFICES ASSUME blocks[t] # None, blocks[t].state = "not_blocked"
             PROVE  \E d \in decisions' : /\ d.id = blocks[t].decision
                                          /\ d.result = "ALLOW"
                                          /\ Tells(d, t, blocks[t].seen)'
  BY DEF ResumedOnAllow, Tells, OfTradeUnderReview, Later
<1>1. PICK d \in decisions : /\ d.id = blocks[t].decision
                             /\ d.result = "ALLOW"
                             /\ Tells(d, t, blocks[t].seen)
  BY DEF ResumedOnAllow
<1>2. Tells(d, t, blocks[t].seen)'
  <2>1. PICK seen : seen = blocks[t].seen
    OBVIOUS
  <2>2. Tells(d, t, seen)'
    BY <1>1, <2>1, TellsStays
  <2> QED
    BY <2>1, <2>2 DEF Tells, OfTradeUnderReview, Later
<1> QED
  BY <1>1, <1>2 DEF DecisionsGrow

\* One request goes on, and no block is written.
LEMMA ReviewMoves ==
  ASSUME ReviewInv, GatewayTypeOK', NEW r \in Requests, NEW q, Continue(r, q),
         ReviewRequest(q)', DecisionsGrow, UNCHANGED blocks
  PROVE  ReviewInv'
<1>1. ASSUME NEW s \in Requests
      PROVE  requests'[s] = requests[s] \/ (s = r /\ requests'[s] = q)
  BY DEF Continue, ReviewInv, GatewayTypeOK
<1>2. ASSUME NEW s \in Requests
      PROVE  ReviewRequest(requests[s])'
  <2>1. CASE requests'[s] = requests[s]
    <3>1. PICK p : p = requests[s]
      OBVIOUS
    <3>2. ReviewRequest(p)'
      BY <3>1, ReviewStays DEF ReviewInv
    <3> QED
      BY <2>1, <3>1, <3>2 DEF ReviewRequest
  <2>2. CASE requests'[s] = q
    BY <2>2 DEF ReviewRequest
  <2> QED
    BY <1>1, <2>1, <2>2
<1>3. \A t \in TradesUnderReview : ResumedOnAllow(t)'
  BY ResumedStays DEF ReviewInv
<1> QED
  BY <1>2, <1>3 DEF ReviewInv

\* One request writes the block of a trade.
LEMMA ReviewWrites ==
  ASSUME ReviewInv, GatewayTypeOK', NEW r \in Requests, NEW q, Continue(r, q),
         q.pc = "readBack", UNCHANGED decisions, NEW t, NEW state, NEW d, NEW seen,
         upsertOracleProgressionBlock(t, state, d, seen),
         state = "not_blocked" => d.result = "ALLOW" /\ Tells(d, t, seen)
  PROVE  ReviewInv'
<1>1. DecisionsGrow
  BY DEF DecisionsGrow
<1>2. ASSUME NEW s \in Requests
      PROVE  requests'[s] = requests[s] \/ (s = r /\ requests'[s] = q)
  BY DEF Continue, ReviewInv, GatewayTypeOK
<1>3. ASSUME NEW s \in Requests
      PROVE  ReviewRequest(requests[s])'
  <2>1. CASE requests'[s] = requests[s]
    <3>1. PICK p : p = requests[s]
      OBVIOUS
    <3>2. ReviewRequest(p)'
      BY <1>1, <3>1, ReviewStays DEF ReviewInv
    <3> QED
      BY <2>1, <3>1, <3>2 DEF ReviewRequest
  <2>2. CASE requests'[s] = q
    BY <2>2 DEF ReviewRequest
  <2> QED
    BY <1>2, <2>1, <2>2
<1>4. PICK b : b = [state |-> state, decision |-> d.id, seen |-> seen]
  OBVIOUS
<1>5. blocks' = [blocks EXCEPT ![t] = b]
  BY <1>4 DEF upsertOracleProgressionBlock
<1>6. ASSUME NEW u \in TradesUnderReview
      PROVE  ResumedOnAllow(u)'
  <2>1. CASE u # t
    <3>1. blocks'[u] = blocks[u]
      BY <1>5, <2>1 DEF ReviewInv
    <3> QED
      BY <1>1, <3>1, ResumedStays DEF ReviewInv
  <2>2. CASE u = t
    <3>1. blocks'[t] = b
      BY <1>5, <2>2 DEF ReviewInv
    <3>2. b.state = state /\ b.decision = d.id /\ b.seen = seen
      BY <1>4
    <3>3. state = "not_blocked" =>
            /\ d \in decisions'
            /\ d.result = "ALLOW"
            /\ Tells(d, t, seen)'
      BY DEF Tells, OfTradeUnderReview, Later
    <3>4. Tells(d, t, seen)' => Tells(d, t, blocks[t].seen)'
      BY <3>1, <3>2 DEF Tells, OfTradeUnderReview, Later
    <3> QED
      BY <2>2, <3>1, <3>2, <3>3, <3>4 DEF ResumedOnAllow
  <2> QED
    BY <2>1, <2>2
<1>7. blocks' = [u \in TradesUnderReview |-> blocks'[u]]
  BY <1>5 DEF ReviewInv
<1> QED
  BY <1>3, <1>6, <1>7 DEF ReviewInv

\* A request that resumes nothing.
LEMMA ReviewElse ==
  ASSUME NEW q, q.pc \notin {"resolve", "resume"}
  PROVE  ReviewRequest(q)'
BY DEF ReviewRequest

LEMMA ReviewResponds ==
  ASSUME ReviewInv, GatewayTypeOK', NEW r \in Requests, NEW status, Respond(r, status), NoWrite
  PROVE  ReviewInv'
<1>1. PICK q : q = [pc |-> "finish", key |-> requests[r].key, status |-> status]
  OBVIOUS
<1>2. Continue(r, q) /\ UNCHANGED <<decisions, blocks>>
  BY <1>1 DEF Respond, NoWrite
<1>3. DecisionsGrow
  BY <1>2 DEF DecisionsGrow
<1>4. ReviewRequest(q)'
  BY <1>1, ReviewElse
<1> QED
  BY <1>2, <1>3, <1>4, ReviewMoves

\* The latest decision, read together with all that were recorded.
LEMMA LatestTells ==
  ASSUME DecisionsOK, NEW t
  PROVE  getLatestDecision(t) = None \/ Tells(getLatestDecision(t), t, Seen(t))
<1> SUFFICES ASSUME getLatestDecision(t) # None
             PROVE  Tells(getLatestDecision(t), t, Seen(t))
  OBVIOUS
<1>1. PICK d : d = getLatestDecision(t)
  OBVIOUS
<1>2. d \in OfTradeUnderReview(t) /\ \A e \in OfTradeUnderReview(t) \ {d} : Later(d, e)
  BY <1>1, LatestDecision
<1>3. Seen(t) \subseteq {e.id : e \in decisions}
  BY DEF Seen, OfTradeUnderReview
<1> QED
  BY <1>1, <1>2, <1>3 DEF Tells, OfTradeUnderReview

LEMMA ReviewReads ==
  ASSUME ReviewInv, GatewayTypeOK', NEW r \in Requests,
         readBlock(r) \/ resolveDecisionForTrade(r) \/ readLatest(r) \/ checkResume(r)
  PROVE  ReviewInv'
<1>a. GatewayTypeOK /\ DecisionsOK /\ ReviewRequest(requests[r])
  BY DEF ReviewInv, GatewayTypeOK
<1>b. NoWrite
  BY DEF readBlock, resolveDecisionForTrade, readLatest, checkResume
<1>c. DecisionsGrow /\ UNCHANGED <<decisions, blocks>>
  BY <1>b DEF NoWrite, DecisionsGrow
<1>d. ASSUME NEW q, ReviewRequest(q), Continue(r, q)
      PROVE  ReviewInv'
  BY <1>c, <1>d, ReviewStays, ReviewMoves
<1>1. ASSUME readBlock(r)
      PROVE  ReviewInv'
  <2>1. PICK q : q = [pc |-> "resolve", key |-> requests[r].key, body |-> requests[r].body,
                      requested |-> Unread, latest |-> Unread, seen |-> {}]
    OBVIOUS
  <2>2. Continue(r, q)
    BY <1>1, <2>1 DEF readBlock, Go
  <2>3. ReviewRequest(q)
    BY <2>1 DEF ReviewRequest
  <2> QED
    BY <1>d, <2>2, <2>3
<1>2. ASSUME resolveDecisionForTrade(r)
      PROVE  ReviewInv'
  <2>1. PICK found : \/ Respond(r, 404)
                     \/ Respond(r, 409)
                     \/ Continue(r, [requests[r] EXCEPT !.requested = found])
    BY <1>2, Zenon DEF resolveDecisionForTrade, Go
  <2>2. CASE Respond(r, 404) \/ Respond(r, 409)
    BY <1>b, <2>2, ReviewResponds
  <2>3. CASE Continue(r, [requests[r] EXCEPT !.requested = found])
    <3>1. PICK q : q = [requests[r] EXCEPT !.requested = found]
      OBVIOUS
    <3>2. requests[r] \in ResolveRequest
      BY <1>2, <1>a, RequestAt DEF resolveDecisionForTrade
    <3>3. /\ q.pc = requests[r].pc /\ q.body = requests[r].body
          /\ q.latest = requests[r].latest /\ q.seen = requests[r].seen
      BY <3>1, <3>2 DEF ResolveRequest
    <3>4. ReviewRequest(q)
      BY <1>a, <3>3 DEF ReviewRequest
    <3> QED
      BY <1>d, <2>3, <3>1, <3>4
  <2> QED
    BY <2>1, <2>2, <2>3
<1>3. ASSUME readLatest(r)
      PROVE  ReviewInv'
  <2>1. PICK t : t = requests[r].body.trade
    OBVIOUS
  <2>2. PICK q : q = [requests[r] EXCEPT !.latest = getLatestDecision(t), !.seen = Seen(t)]
    OBVIOUS
  <2>3. requests[r].pc = "resolve" /\ Continue(r, q)
    BY <1>3, <2>1, <2>2, Zenon DEF readLatest, Go
  <2>4. requests[r] \in ResolveRequest
    BY <1>a, <2>3, RequestAt
  <2>5. /\ q.pc = "resolve" /\ q.body.trade = t
        /\ q.latest = getLatestDecision(t) /\ q.seen = Seen(t)
    BY <2>1, <2>2, <2>3, <2>4 DEF ResolveRequest
  <2>6. ReviewRequest(q)
    BY <1>a, <2>5, LatestTells DEF ReviewRequest
  <2> QED
    BY <1>d, <2>3, <2>6
<1>4. ASSUME checkResume(r)
      PROVE  ReviewInv'
  <2>1. PICK q : q = [requests[r] EXCEPT !.pc = "resume"]
    OBVIOUS
  <2>2. /\ requests[r].pc = "resolve" /\ requests[r].body.op = "resume"
        /\ requests[r].latest # Unread
        /\ \/ Resumable(requests[r]) /\ Continue(r, q)
           \/ Respond(r, 409)
    BY <1>4, <2>1 DEF checkResume, Go
  <2>3. CASE Respond(r, 409)
    BY <1>b, <2>3, ReviewResponds
  <2>4. CASE Resumable(requests[r]) /\ Continue(r, q)
    <3>1. requests[r] \in ResolveRequest
      BY <1>a, <2>2, RequestAt
    <3>2. /\ q.pc = "resume" /\ q.body = requests[r].body
          /\ q.latest = requests[r].latest /\ q.seen = requests[r].seen
      BY <2>1, <3>1 DEF ResolveRequest
    <3>3. q.latest # None /\ q.latest.result = "ALLOW"
      BY <2>4, <3>2 DEF Resumable
    <3>4. ReviewRequest(q)
      BY <1>a, <2>2, <3>2, <3>3 DEF ReviewRequest
    <3> QED
      BY <1>d, <2>4, <3>4
  <2> QED
    BY <2>2, <2>3, <2>4
<1> QED
  BY <1>1, <1>2, <1>3, <1>4

LEMMA ReviewSaves ==
  ASSUME ReviewInv, GatewayTypeOK', NEW r \in Requests, saveDecisionWithAudit(r)
  PROVE  ReviewInv'
<1>1. PICK id \in DecisionIds \ {d.id : d \in decisions} :
           /\ insertComplianceDecision(id, requests[r])
           /\ runTransactionalWrite(r, decisionAuditMetadata(id), 201)
  BY DEF saveDecisionWithAudit
<1>2. PICK d : d = [id |-> id, trade |-> requests[r].body.trade,
                    result |-> requests[r].body.result, reason |-> requests[r].body.reason,
                    ends |-> requests[r].body.ends, decidedAt |-> requests[r].decidedAt,
                    seen |-> requests[r].seen]
  OBVIOUS
<1>3. decisions' = decisions \cup {d} /\ d.id = id /\ UNCHANGED blocks
  BY <1>1, <1>2 DEF insertComplianceDecision, saveDecisionWithAudit
<1>4. DecisionsGrow
  BY <1>1, <1>3 DEF DecisionsGrow
<1>5. PICK q : q = [pc |-> "readBack", key |-> requests[r].key, status |-> 201]
  OBVIOUS
<1>6. Continue(r, q) /\ ReviewRequest(q)'
  BY <1>1, <1>5, ReviewElse DEF runTransactionalWrite, Go
<1> QED
  BY <1>3, <1>4, <1>6, ReviewMoves

\* The block of a trade is written: by a block, or by a resumption that was checked.
LEMMA ReviewBlocks ==
  ASSUME ReviewInv, GatewayTypeOK', NEW r \in Requests,
         blockOracleProgression(r) \/ resumeOracleProgression(r)
  PROVE  ReviewInv'
<1>1. ASSUME NEW state, NEW d, NEW seen,
             saveBlockStateWithAudit(r, state, d, seen),
             state = "not_blocked" =>
               d.result = "ALLOW" /\ Tells(d, requests[r].body.trade, seen)
      PROVE  ReviewInv'
  <2>1. PICK q : q = [pc |-> "readBack", key |-> requests[r].key, status |-> 202]
    OBVIOUS
  <2>2. Continue(r, q) /\ q.pc = "readBack" /\ UNCHANGED decisions
    BY <1>1, <2>1 DEF saveBlockStateWithAudit, runTransactionalWrite, Go
  <2>3. PICK t : t = requests[r].body.trade
    OBVIOUS
  <2>4. upsertOracleProgressionBlock(t, state, d, seen)
    BY <1>1, <2>3 DEF saveBlockStateWithAudit
  <2>5. state = "not_blocked" => d.result = "ALLOW" /\ Tells(d, t, seen)
    BY <1>1, <2>3
  <2> QED
    BY <2>2, <2>4, <2>5, ReviewWrites
<1>2. CASE blockOracleProgression(r)
  <2>1. CASE Respond(r, 409) /\ NoWrite
    BY <2>1, ReviewResponds
  <2>2. CASE saveBlockStateWithAudit(r, "blocked", requests[r].requested, {})
    BY <1>1, <2>2
  <2> QED
    BY <1>2, <2>1, <2>2 DEF blockOracleProgression
<1>3. CASE resumeOracleProgression(r)
  <2>1. /\ requests[r].pc = "resume"
        /\ saveBlockStateWithAudit(r, "not_blocked", requests[r].latest, requests[r].seen)
    BY <1>3 DEF resumeOracleProgression
  <2>2. /\ requests[r].latest.result = "ALLOW"
        /\ Tells(requests[r].latest, requests[r].body.trade, requests[r].seen)
    BY <2>1 DEF ReviewInv, ReviewRequest
  <2> QED
    BY <1>1, <2>1, <2>2
<1> QED
  BY <1>2, <1>3

LEMMA ReviewInvStep ==
  ASSUME ReviewInv, GatewayTypeOK', [GatewayNext]_gatewayAndClock
  PROVE  ReviewInv'
<1>1. ASSUME ComplianceStep
      PROVE  ReviewInv'
  <2>1. PICK r \in Requests :
          \/ createDecision(r) \/ saveDecisionWithAudit(r) \/ readBack(r)
          \/ readBlock(r) \/ refuseByBlock(r)
          \/ resolveDecisionForTrade(r) \/ readLatest(r)
          \/ blockOracleProgression(r) \/ checkResume(r) \/ resumeOracleProgression(r)
          \/ statementFails(r)
    BY <1>1 DEF ComplianceStep
  <2>2. ASSUME createDecision(r)
        PROVE  ReviewInv'
    <3>1. NoWrite
      BY <2>2 DEF createDecision
    <3>2. PICK q : q = [pc |-> "save", key |-> requests[r].key, body |-> requests[r].body,
                        decidedAt |-> nextDecisionTimestamp(requests[r].body.trade),
                        seen |-> Seen(requests[r].body.trade)]
      OBVIOUS
    <3>3. Continue(r, q) \/ Respond(r, 400)
      BY <2>2, <3>2 DEF createDecision, Go
    <3>4. ReviewRequest(q)'
      BY <3>2, ReviewElse
    <3>5. DecisionsGrow /\ UNCHANGED blocks
      BY <3>1 DEF NoWrite, DecisionsGrow
    <3> QED
      BY <3>1, <3>3, <3>4, <3>5, ReviewMoves, ReviewResponds
  <2>3. ASSUME readBack(r) \/ refuseByBlock(r) \/ statementFails(r)
        PROVE  ReviewInv'
    <3>1. NoWrite /\ \E status : Respond(r, status)
      BY <2>3 DEF readBack, refuseByBlock, statementFails
    <3> QED
      BY <3>1, ReviewResponds
  <2> QED
    BY <2>1, <2>2, <2>3, ReviewReads, ReviewSaves, ReviewBlocks
<1>2. ASSUME IdempotencyStep, UNCHANGED complianceVars
      PROVE  ReviewInv'
  <2>1. DecisionsGrow /\ UNCHANGED <<decisions, blocks>>
    BY <1>2 DEF DecisionsGrow
  <2>2. ASSUME NEW r \in Requests, NEW q, Continue(r, q), q.pc \notin {"resolve", "resume"}
        PROVE  ReviewInv'
    BY <2>1, <2>2, ReviewElse, ReviewMoves
  <2>3. ASSUME NEW r \in Requests, NEW s \in DOMAIN sessions, NEW k \in IdempotencyKeys,
               NEW body \in Bodies, authenticate(r, s, k, body)
        PROVE  ReviewInv'
    BY <2>2, <2>3 DEF authenticate
  <2>4. ASSUME NEW r \in Requests, createPending(r)
        PROVE  ReviewInv'
    <3>1. requests[r] \in NewRequest
      BY <2>4, RequestAt DEF createPending, ReviewInv
    <3>2. /\ [requests[r] EXCEPT !.pc = "handle"].pc = "handle"
          /\ [requests[r] EXCEPT !.pc = "conflict"].pc = "conflict"
      BY <3>1 DEF NewRequest
    <3>3. \/ Continue(r, [requests[r] EXCEPT !.pc = "handle"])
          \/ Continue(r, [requests[r] EXCEPT !.pc = "conflict"])
      BY <2>4 DEF createPending
    <3>4. PICK q : /\ q \in {[requests[r] EXCEPT !.pc = "handle"],
                             [requests[r] EXCEPT !.pc = "conflict"]}
                   /\ Continue(r, q)
      BY <3>3
    <3> QED
      BY <2>2, <3>2, <3>4
  <2>5. ASSUME NEW r \in Requests, answerConflict(r) \/ finish(r)
        PROVE  ReviewInv'
    BY <2>2, <2>5 DEF answerConflict, finish
  <2>6. ASSUME gatewayCrash
        PROVE  ReviewInv'
    <3>1. \A r \in Requests : ReviewRequest(requests[r])'
      BY <2>6 DEF gatewayCrash, ReviewRequest
    <3> QED
      BY <2>1, <3>1, ResumedStays DEF ReviewInv
  <2> QED
    BY <1>2, <2>3, <2>4, <2>5, <2>6 DEF IdempotencyStep
<1>3. ASSUME UNCHANGED <<idempotencyVars, complianceVars>>
      PROVE  ReviewInv'
  <2>1. DecisionsGrow
    BY <1>3 DEF DecisionsGrow
  <2>2. \A r \in Requests : ReviewRequest(requests[r])'
    BY <1>3, <2>1 DEF ReviewInv, ReviewRequest, Tells, OfTradeUnderReview, Later
  <2> QED
    BY <1>3, <2>1, <2>2, ResumedStays DEF ReviewInv
<1> QED
  BY <1>1, <1>2, <1>3 DEF GatewayNext

LEMMA ReviewInit ==
  ASSUME ClockInit, IdempotencyInit, ComplianceInit
  PROVE  ReviewInv
<1>1. GatewayTypeOK
  BY KeysInit DEF KeysInv
<1> QED
  BY <1>1 DEF ReviewInv, IdempotencyInit, ComplianceInit, ReviewRequest, ResumedOnAllow

(***************************************************************************)
(* The oracle's progression of a trade is resumed only on an ALLOW of that *)
(* trade, and never over a later denial that was recorded when the request *)
(* read the decisions, for any number of requests side by side             *)
(* (resumeOracleProgression, nextDecisionTimestamp, getLatestDecision).    *)
(***************************************************************************)
THEOREM NoResumeOverDenialHolds == GatewaySpec => []NoResumeOverDenial
<1>1. ClockInit /\ IdempotencyInit /\ ComplianceInit => ReviewInv
  BY ReviewInit
<1>2. KeysInv => GatewayTypeOK
  BY DEF KeysInv
<1>3. ReviewInv /\ GatewayTypeOK' /\ [GatewayNext]_gatewayAndClock => ReviewInv'
  BY ReviewInvStep
<1>4. GatewaySpec => []ReviewInv
  BY <1>1, <1>2, <1>3, KeysInvariance, PTL DEF GatewaySpec
<1>5. ReviewInv => NoResumeOverDenial
  <2> SUFFICES ASSUME ReviewInv, NEW t \in TradesUnderReview,
                      blocks[t] # None, blocks[t].state = "not_blocked"
               PROVE  LET d == getDecision(blocks[t].decision) IN
                        /\ d.trade = t /\ d.result = "ALLOW"
                        /\ \A e \in OfTradeUnderReview(t) :
                             Later(e, d) /\ e.result = "DENY" => e.id \notin blocks[t].seen
    BY DEF NoResumeOverDenial
  <2>1. PICK d \in decisions : /\ d.id = blocks[t].decision
                               /\ d.result = "ALLOW"
                               /\ Tells(d, t, blocks[t].seen)
    BY DEF ReviewInv, ResumedOnAllow
  <2>2. getDecision(blocks[t].decision) = d
    BY <2>1, FoundDecision DEF ReviewInv, GatewayTypeOK
  <2>3. \A e \in decisions : e.id \in Int /\ e.decidedAt \in Int
    BY DEF ReviewInv, GatewayTypeOK, DecisionsOK, ComplianceDecisionRecord
  <2>4. ASSUME NEW e \in OfTradeUnderReview(t), Later(e, d)
        PROVE  e.id \notin blocks[t].seen
    BY <2>1, <2>3, <2>4 DEF Tells, Later, OfTradeUnderReview
  <2> QED
    BY <2>1, <2>2, <2>4 DEF Tells
<1> QED
  BY <1>4, <1>5, PTL

-------------------------------------------------------------------------------
(* Signed requests between services *)

serviceAndClock == <<serviceAuthVars, clock>>

\* Any message that was signed is delivered, as often as the network likes.
DeliverMessage(i) ==
  \/ nonceStore # "oracle" /\ createServiceAuthMiddleware(i)
  \/ nonceStore = "oracle" /\ oracleAuthenticated(i)

ServiceNext ==
  \/ /\ \E key \in DOMAIN ApiKeys \cup {None}, content \in Contents, ahead \in 0 .. ClientAhead,
           withNonce \in BOOLEAN :
          createServiceAuthHeaders(key, content, ahead, withNonce)
     /\ UNCHANGED clock
  \/ \E i \in DOMAIN messages : DeliverMessage(i) /\ UNCHANGED clock
  \/ tick /\ UNCHANGED serviceAuthVars

ServiceSpec == ClockInit /\ ServiceAuthInit /\ [][ServiceNext]_serviceAndClock

USE DEF serviceAuthVars, serviceAndClock

Message == [apiKey : DOMAIN ApiKeys \cup {None}, content : Contents, timestamp : Int,
            nonce : Int \cup {NoNonce}]

ServiceTypeOK ==
  /\ clock \in Int
  /\ nonceStore \in NonceStores
  /\ messages \in Seq(Message)
  /\ accepted \in Seq(Seq(Int))
  /\ Len(accepted) = Len(messages)
  /\ \A e \in consumed : e.expiresAt \in Int

Evicted(m) == nonceStore = "memory" /\ nonceOf(m) \in evicted

\* Message m, accepted at time t, will not be accepted again before its nonce expires: this is
\* kept for as long, or was dropped, or has expired already.
RefusedSince(m, t) ==
  \/ \E e \in consumed : e.nonce = nonceOf(m) /\ e.expiresAt >= t + nonceTtlSeconds
  \/ Evicted(m)
  \/ clock >= t + nonceTtlSeconds

\* How long before and after its timestamp a message passes.
TimestampAhead == IF nonceStore = "oracle" THEN maxAhead ELSE maxSkewSeconds
TimestampOld  == IF nonceStore = "oracle" THEN maxAge ELSE maxSkewSeconds

Passes(m, t) == m.timestamp - TimestampAhead <= t /\ t <= m.timestamp + TimestampOld

OnceALifetime(times) ==
  \A k \in 1 .. Len(times) - 1 : times[k + 1] >= times[k] + nonceTtlSeconds

ServiceInv ==
  /\ ServiceTypeOK
  /\ \A n \in evicted : nonceStore = "memory"
  /\ \A i \in DOMAIN messages :
       /\ accepted[i] # <<>> => RefusedSince(messages[i], accepted[i][Len(accepted[i])])
       /\ \A k \in DOMAIN accepted[i] : Passes(messages[i], accepted[i][k])
       /\ Evicted(messages[i]) \/ OnceALifetime(accepted[i])

LEMMA LengthsOfTime ==
  /\ TimestampAhead \in Nat /\ TimestampOld \in Nat /\ nonceTtlSeconds \in Nat
  /\ TimestampLasts = TimestampAhead + TimestampOld /\ TimestampLasts \in Nat
BY ServiceAuthAssumption DEF TimestampAhead, TimestampOld, TimestampLasts

\* A store answers yes only if it keeps no entry of the nonce that is in force.
LEMMA AnswersYes ==
  ASSUME nonceStore \in NonceStores, NEW n, TRUE \in Answers(n), NEW e \in consumed, e.nonce = n,
         e.expiresAt \in Int, clock \in Int
  PROVE  e.expiresAt <= clock
<1>1. ~Keeps(pruneExpired, n)
  <2>1. nonceStore \in {"memory", "postgres", "redis", "oracle"}
    BY ServiceAuthAssumption
  <2>2. nonceStore = "memory" => Answers(n) = createInMemoryNonceStore(n)
    BY Zenon DEF Answers
  <2>3. nonceStore = "redis" => Answers(n) = createRedisNonceStore(n)
    BY Zenon DEF Answers
  <2>4. nonceStore = "postgres" => Answers(n) = createPostgresNonceStore(n)
    BY Zenon DEF Answers
  <2>5. nonceStore = "oracle" => Answers(n) = consumeHmacNonce(n)
    BY Zenon DEF Answers
  <2>6. Keeps(pruneExpired, n) => createPostgresNonceStore(n) = {FALSE}
    BY Zenon DEF createPostgresNonceStore
  <2>7. Keeps(pruneExpired, n) => /\ createInMemoryNonceStore(n) = {FALSE}
                                  /\ createRedisNonceStore(n) = {FALSE}
    BY Zenon DEF createInMemoryNonceStore, createRedisNonceStore
  <2>8. Keeps(pruneExpired, n) => Answers(n) = {FALSE}
    BY <2>1, <2>2, <2>3, <2>4, <2>5, <2>6, <2>7 DEF consumeHmacNonce
  <2> QED
    BY <2>8, Zenon
<1>2. e \notin pruneExpired
  BY <1>1 DEF Keeps
<1> QED
  BY <1>2 DEF pruneExpired

\* What is accepted passes at this time, and if its nonce was accepted at an earlier one and
\* was not dropped, then a lifetime ago.
LEMMA AcceptsFresh ==
  ASSUME ServiceInv, NEW i \in DOMAIN messages, DeliverMessage(i)
  PROVE  /\ letPass(i)
         /\ Passes(messages[i], clock)
         /\ \A t \in Int : RefusedSince(messages[i], t) =>
              Evicted(messages[i]) \/ clock >= t + nonceTtlSeconds
<1>1. letPass(i)
  BY DEF DeliverMessage, createServiceAuthMiddleware, oracleAuthenticated, hmacMiddleware
<1>2. ServiceTypeOK /\ messages[i].timestamp \in Int
  <2>1. ServiceTypeOK
    BY DEF ServiceInv
  <2>2. messages[i] \in Message
    BY <2>1 DEF ServiceTypeOK
  <2> QED
    BY <2>1, <2>2 DEF Message
<1>3. Passes(messages[i], clock)
  <2>0. /\ clock \in Int /\ messages[i].timestamp \in Int
        /\ maxSkewSeconds \in Int /\ maxAge \in Int /\ maxAhead \in Int
    BY <1>2, ServiceAuthAssumption DEF ServiceTypeOK
  <2>1. CASE createServiceAuthMiddleware(i) /\ nonceStore # "oracle"
    <3>1. skew(messages[i]) <= maxSkewSeconds
      BY <2>1 DEF createServiceAuthMiddleware
    <3>2. /\ clock - messages[i].timestamp <= maxSkewSeconds
          /\ messages[i].timestamp - clock <= maxSkewSeconds
      BY <2>0, <3>1 DEF skew
    <3> QED
      BY <2>0, <2>1, <3>2 DEF Passes, TimestampAhead, TimestampOld
  <2>2. CASE oracleAuthenticated(i) /\ nonceStore = "oracle"
    <3>1. clock <= messages[i].timestamp + maxAge /\ messages[i].timestamp <= clock + maxAhead
      BY <2>2 DEF oracleAuthenticated, hmacMiddleware, verifyRequestSignature
    <3> QED
      BY <2>0, <2>2, <3>1 DEF Passes, TimestampAhead, TimestampOld
  <2> QED
    BY <2>1, <2>2 DEF DeliverMessage
<1>4. ASSUME NEW t \in Int, NEW e \in consumed, e.nonce = nonceOf(messages[i]),
             e.expiresAt >= t + nonceTtlSeconds
      PROVE  clock >= t + nonceTtlSeconds
  <2>1. TRUE \in Answers(nonceOf(messages[i]))
    BY <1>1 DEF letPass, consume
  <2>2. e.expiresAt \in Int /\ clock \in Int /\ nonceStore \in NonceStores
    BY <1>2 DEF ServiceTypeOK
  <2>3. e.expiresAt <= clock
    BY <1>4, <2>1, <2>2, AnswersYes
  <2> QED
    BY <1>4, <2>2, <2>3, LengthsOfTime
<1> QED
  BY <1>1, <1>3, <1>4 DEF RefusedSince

LEMMA MessageAt ==
  ASSUME ServiceTypeOK, NEW i \in DOMAIN messages
  PROVE  messages[i] \in Message /\ messages[i].timestamp \in Int /\ accepted[i] \in Seq(Int)
<1>1. messages[i] \in Message /\ accepted[i] \in Seq(Int)
  BY DEF ServiceTypeOK
<1> QED
  BY <1>1 DEF Message

\* A refused message stays refused while the clock runs.
LEMMA RefusedStays ==
  ASSUME ServiceTypeOK, NEW m, NEW t \in Int, RefusedSince(m, t),
         tick \/ UNCHANGED clock, UNCHANGED <<nonceStore, consumed, evicted>>
  PROVE  RefusedSince(m, t)'
<1>1. nonceOf(m)' = nonceOf(m)
  BY DEF nonceOf, resolvePrincipal, deriveNonce
<1> QED
  BY <1>1, LengthsOfTime DEF RefusedSince, Evicted, tick, ServiceTypeOK

\* What the invariant says of one message, with the times at which it was accepted.
MessageInv(m, times) ==
  /\ times # <<>> => RefusedSince(m, times[Len(times)])
  /\ \A k \in DOMAIN times : Passes(m, times[k])
  /\ Evicted(m) \/ OnceALifetime(times)

LEMMA InvByMessage ==
  ServiceInv <=> /\ ServiceTypeOK
                 /\ \A n \in evicted : nonceStore = "memory"
                 /\ \A i \in DOMAIN messages : MessageInv(messages[i], accepted[i])
BY DEF ServiceInv, MessageInv

LEMMA InvByMessageNext ==
  ServiceInv' <=> /\ ServiceTypeOK'
                  /\ \A n \in evicted' : nonceStore' = "memory"
                  /\ \A i \in DOMAIN messages' : MessageInv(messages[i], accepted[i])'
BY DEF ServiceInv, MessageInv

\* Nothing is forgotten of a message when only others are signed, or time goes on.
LEMMA MessageInvStays ==
  ASSUME ServiceTypeOK, NEW m, NEW times \in Seq(Int), MessageInv(m, times),
         tick \/ UNCHANGED clock, UNCHANGED <<nonceStore, consumed, evicted>>
  PROVE  MessageInv(m, times)'
<1>1. times # <<>> => RefusedSince(m, times[Len(times)])'
  <2> SUFFICES ASSUME times # <<>> PROVE RefusedSince(m, times[Len(times)])'
    OBVIOUS
  <2>1. times[Len(times)] \in Int
    OBVIOUS
  <2>2. RefusedSince(m, times[Len(times)])
    BY DEF MessageInv
  <2> QED
    BY <2>1, <2>2, RefusedStays
<1>2. \A k \in DOMAIN times : Passes(m, times[k])'
  BY DEF MessageInv, Passes, TimestampAhead, TimestampOld
<1>3. Evicted(m)' = Evicted(m)
  BY DEF Evicted, nonceOf, resolvePrincipal, deriveNonce
<1> QED
  BY <1>1, <1>2, <1>3 DEF MessageInv, OnceALifetime

LEMMA SignKeepsInv ==
  ASSUME ServiceInv, NEW key \in DOMAIN ApiKeys \cup {None}, NEW content \in Contents,
         NEW ahead \in 0 .. ClientAhead, NEW withNonce \in BOOLEAN,
         createServiceAuthHeaders(key, content, ahead, withNonce), UNCHANGED clock
  PROVE  ServiceInv'
<1>1. PICK m : m = [apiKey |-> key, content |-> content, timestamp |-> clock + ahead,
                    nonce |-> IF withNonce THEN Len(messages) + 1 ELSE NoNonce]
  OBVIOUS
<1>2. ServiceTypeOK /\ clock \in Int /\ ahead \in Int
  BY ServiceAuthAssumption DEF ServiceInv, ServiceTypeOK
<1>3. /\ messages' = Append(messages, m)
      /\ accepted' = Append(accepted, <<>>)
      /\ UNCHANGED <<nonceStore, consumed, evicted>>
  BY <1>1 DEF createServiceAuthHeaders
<1>4. m \in Message
  <2>1. Len(messages) \in Nat
    BY <1>2 DEF ServiceTypeOK
  <2> QED
    BY <1>1, <1>2, <2>1 DEF Message
<1>5. ServiceTypeOK'
  BY <1>2, <1>3, <1>4 DEF ServiceTypeOK
<1>6. ASSUME NEW i \in DOMAIN messages'
      PROVE  \/ i \in DOMAIN messages /\ messages'[i] = messages[i] /\ accepted'[i] = accepted[i]
             \/ messages'[i] = m /\ accepted'[i] = <<>>
  BY <1>2, <1>3, <1>4 DEF ServiceTypeOK
<1>7. ASSUME NEW i \in DOMAIN messages'
      PROVE  MessageInv(messages[i], accepted[i])'
  <2>1. CASE messages'[i] = m /\ accepted'[i] = <<>>
    BY <2>1 DEF MessageInv, OnceALifetime
  <2>2. CASE i \in DOMAIN messages /\ messages'[i] = messages[i] /\ accepted'[i] = accepted[i]
    <3>1. PICK p, times : p = messages[i] /\ times = accepted[i]
      OBVIOUS
    <3>2. times \in Seq(Int) /\ MessageInv(p, times)
      BY <1>2, <2>2, <3>1, MessageAt, InvByMessage
    <3>3. MessageInv(p, times)'
      BY <1>2, <1>3, <3>2, MessageInvStays
    <3>4. messages'[i] = p /\ accepted'[i] = times
      BY <2>2, <3>1
    <3> QED
      BY <3>3, <3>4 DEF MessageInv, RefusedSince, Passes, OnceALifetime, Evicted, nonceOf
  <2> QED
    BY <1>6, <2>1, <2>2
<1>8. \A n \in evicted' : nonceStore' = "memory"
  BY <1>3 DEF ServiceInv
<1> QED
  BY <1>5, <1>7, <1>8, InvByMessageNext

\* What consume(n) does to the store: the entry of n is new, what is dropped has expired,
\* or was dropped for want of room in memory.
LEMMA ConsumeKeeps ==
  ASSUME ServiceTypeOK, NEW n, consume(n), UNCHANGED <<nonceStore, clock>>
  PROVE  /\ \A e \in consumed' : e.expiresAt \in Int
         /\ \A e \in consumed :
              e.expiresAt > clock =>
                e \in consumed' \/ (nonceStore = "memory" /\ e.nonce \in evicted')
         /\ \/ nonceStore = "memory" /\ n \in evicted'
            \/ \E e \in consumed' : e.nonce = n /\ e.expiresAt = clock + nonceTtlSeconds
         /\ evicted \subseteq evicted'
         /\ evicted' # evicted => nonceStore = "memory"
<1>1. PICK last : last = Max({e.number : e \in pruneExpired} \cup {0})
  OBVIOUS
<1>2. PICK new : new = [nonce |-> n, expiresAt |-> clock + nonceTtlSeconds, number |-> last + 1]
  OBVIOUS
<1>3. PICK kept : kept = pruneExpired \cup {new}
  OBVIOUS
<1>4. /\ consumed' = capStoreSize(kept)
      /\ evicted' = evicted \cup {e.nonce : e \in kept \ consumed'}
  BY <1>1, <1>2, <1>3, Zenon DEF consume
<1>5. new.nonce = n /\ new.expiresAt = clock + nonceTtlSeconds
  BY <1>2
<1>6. /\ consumed' \subseteq kept
      /\ nonceStore # "memory" => consumed' = kept
  BY <1>4 DEF capStoreSize
<1>7. clock + nonceTtlSeconds \in Int
  BY ServiceAuthAssumption DEF ServiceTypeOK
<1>8. \A e \in kept : e.expiresAt \in Int
  BY <1>3, <1>5, <1>7 DEF pruneExpired, ServiceTypeOK
<1>9. \A e \in kept : e \in consumed' \/ (nonceStore = "memory" /\ e.nonce \in evicted')
  BY <1>4, <1>6
<1>10. \A e \in consumed : e.expiresAt > clock => e \in kept
  BY <1>3 DEF pruneExpired
<1>11. new \in kept
  BY <1>3
<1>12. evicted \subseteq evicted' /\ (evicted' # evicted => nonceStore = "memory")
  BY <1>4, <1>6
<1> QED
  BY <1>5, <1>6, <1>8, <1>9, <1>10, <1>11, <1>12

LEMMA DeliverKeepsInv ==
  ASSUME ServiceInv, NEW i \in DOMAIN messages, DeliverMessage(i), UNCHANGED clock
  PROVE  ServiceInv'
<1>1. /\ letPass(i)
      /\ Passes(messages[i], clock)
      /\ \A t \in Int : RefusedSince(messages[i], t) =>
           Evicted(messages[i]) \/ clock >= t + nonceTtlSeconds
  BY AcceptsFresh
<1>2. PICK n : n = nonceOf(messages[i])
  OBVIOUS
<1>3. /\ consume(n)
      /\ accepted' = [accepted EXCEPT ![i] = Append(@, clock)]
      /\ UNCHANGED <<nonceStore, messages>>
  BY <1>1, <1>2 DEF letPass
<1>4. ServiceTypeOK /\ clock \in Int
  BY DEF ServiceInv, ServiceTypeOK
<1>5. /\ \A e \in consumed' : e.expiresAt \in Int
      /\ \A e \in consumed :
           e.expiresAt > clock => e \in consumed' \/ (nonceStore = "memory" /\ e.nonce \in evicted')
      /\ \/ nonceStore = "memory" /\ n \in evicted'
         \/ \E e \in consumed' : e.nonce = n /\ e.expiresAt = clock + nonceTtlSeconds
      /\ evicted \subseteq evicted'
      /\ evicted' # evicted => nonceStore = "memory"
  BY <1>3, <1>4, ConsumeKeeps
<1>6. /\ accepted' \in Seq(Seq(Int))
      /\ Len(accepted') = Len(accepted)
      /\ accepted'[i] = Append(accepted[i], clock)
      /\ \A j \in DOMAIN messages \ {i} : accepted'[j] = accepted[j]
  <2>1. i \in DOMAIN accepted /\ accepted[i] \in Seq(Int)
    BY <1>4 DEF ServiceTypeOK
  <2>2. Append(accepted[i], clock) \in Seq(Int)
    BY <1>4, <2>1
  <2> QED
    BY <1>3, <1>4, <2>1, <2>2 DEF ServiceTypeOK
<1>7. ServiceTypeOK'
  BY <1>3, <1>4, <1>5, <1>6 DEF ServiceTypeOK
<1>8. ASSUME NEW m
      PROVE  nonceOf(m)' = nonceOf(m) /\ (Evicted(m) => Evicted(m)')
  BY <1>3, <1>5 DEF Evicted, nonceOf, resolvePrincipal, deriveNonce
<1>9. ASSUME NEW m, NEW t \in Int, RefusedSince(m, t)
      PROVE  RefusedSince(m, t)'
  <2>1. CASE \E e \in consumed : e.nonce = nonceOf(m) /\ e.expiresAt >= t + nonceTtlSeconds
    <3>1. PICK e \in consumed : e.nonce = nonceOf(m) /\ e.expiresAt >= t + nonceTtlSeconds
      BY <2>1
    <3>2. e.expiresAt \in Int
      BY <1>4 DEF ServiceTypeOK
    <3>3. CASE e.expiresAt > clock
      BY <1>3, <1>5, <1>8, <3>1, <3>3 DEF RefusedSince, Evicted
    <3>4. CASE e.expiresAt <= clock
      <4>1. clock >= t + nonceTtlSeconds
        BY <1>4, <3>1, <3>2, <3>4, LengthsOfTime
      <4> QED
        BY <4>1 DEF RefusedSince
    <3> QED
      BY <1>4, <3>2, <3>3, <3>4
  <2>2. CASE Evicted(m)
    BY <1>8, <2>2 DEF RefusedSince
  <2>3. CASE clock >= t + nonceTtlSeconds
    BY <2>3 DEF RefusedSince
  <2> QED
    BY <1>9, <2>1, <2>2, <2>3 DEF RefusedSince
<1>10. ASSUME NEW m, NEW t
       PROVE  Passes(m, t)' = Passes(m, t)
  BY <1>3 DEF Passes, TimestampAhead, TimestampOld
<1>11. ASSUME NEW m, NEW times \in Seq(Int), MessageInv(m, times)
       PROVE  MessageInv(m, times)'
  <2>1. times # <<>> => times[Len(times)] \in Int
    BY <1>11
  <2>2. times # <<>> => RefusedSince(m, times[Len(times)])'
    BY <1>9, <1>11, <2>1 DEF MessageInv
  <2>3. \A k \in DOMAIN times : Passes(m, times[k])'
    BY <1>10, <1>11 DEF MessageInv
  <2>4. Evicted(m)' \/ OnceALifetime(times)
    BY <1>8, <1>11 DEF MessageInv
  <2> QED
    BY <2>2, <2>3, <2>4 DEF MessageInv, OnceALifetime
<1>12. ASSUME NEW m, m = messages[i], NEW times, times = accepted[i],
              NEW later, later = Append(times, clock)
       PROVE  MessageInv(m, later)'
  <2>1. times \in Seq(Int) /\ MessageInv(m, times)
    BY <1>4, <1>12, MessageAt, InvByMessage
  <2> PICK n_times \in Nat : n_times = Len(times)
    BY <2>1
  <2>2. /\ later \in Seq(Int) /\ Len(later) = n_times + 1 /\ later[n_times + 1] = clock
        /\ \A k \in 1 .. n_times : later[k] = times[k]
        /\ DOMAIN times = 1 .. n_times /\ DOMAIN later = 1 .. n_times + 1
    BY <1>4, <1>12, <2>1
  <2>3. RefusedSince(m, clock)'
    BY <1>2, <1>3, <1>5, <1>8, <1>12, LengthsOfTime, <1>4 DEF RefusedSince, Evicted
  <2>4. \A k \in 1 .. n_times + 1 : Passes(m, later[k])'
    <3>1. \A k \in 1 .. n_times : Passes(m, times[k])
      BY <2>1, <2>2 DEF MessageInv
    <3>2. Passes(m, clock)
      BY <1>1, <1>12
    <3> QED
      BY <1>10, <2>2, <3>1, <3>2
  <2>5. Evicted(m)' \/ OnceALifetime(later)
    <3>1. CASE Evicted(m)
      BY <1>8, <3>1
    <3>2. CASE ~Evicted(m)
      <4>1. OnceALifetime(times)
        BY <2>1, <3>2 DEF MessageInv
      <4>2. n_times > 0 => clock >= times[n_times] + nonceTtlSeconds
        <5> SUFFICES ASSUME n_times > 0 PROVE clock >= times[n_times] + nonceTtlSeconds
          OBVIOUS
        <5>1. times # <<>> /\ times[n_times] \in Int
          BY <2>1
        <5>2. RefusedSince(m, times[n_times])
          BY <2>1, <5>1 DEF MessageInv
        <5> QED
          BY <1>1, <1>12, <3>2, <5>1, <5>2
      <4>3. OnceALifetime(times) <=>
              \A k \in 1 .. n_times - 1 : times[k + 1] >= times[k] + nonceTtlSeconds
        BY DEF OnceALifetime
      <4>4. ASSUME NEW k \in 1 .. n_times
            PROVE  later[k + 1] >= later[k] + nonceTtlSeconds
        <5>1. CASE k = n_times
          BY <2>2, <4>2, <5>1
        <5>2. CASE k # n_times
          <6>1. k \in 1 .. n_times - 1 /\ k + 1 \in 1 .. n_times
            BY <2>2, <5>2
          <6> QED
            BY <2>2, <4>1, <4>3, <6>1
        <5> QED
          BY <5>1, <5>2
      <4>5. OnceALifetime(later)
        BY <2>2, <4>4 DEF OnceALifetime
      <4> QED
        BY <4>5
    <3> QED
      BY <3>1, <3>2
  <2>6. later[Len(later)] = clock /\ DOMAIN later = 1 .. n_times + 1
    BY <2>2
  <2>7. RefusedSince(m, later[Len(later)])'
    BY <1>4, <2>3, <2>6 DEF RefusedSince
  <2>8. MessageInv(m, later)'
    BY <2>4, <2>5, <2>6, <2>7 DEF MessageInv, OnceALifetime
  <2> QED
    BY <2>8
<1>13. ASSUME NEW j \in DOMAIN messages'
       PROVE  MessageInv(messages[j], accepted[j])'
  <2>1. j \in DOMAIN messages /\ messages'[j] = messages[j]
    BY <1>3
  <2>2. PICK m, times : m = messages[j] /\ times = accepted[j]
    OBVIOUS
  <2>3. CASE j = i
    <3>1. PICK later : later = Append(times, clock)
      OBVIOUS
    <3>2. MessageInv(m, later)'
      BY <1>12, <2>2, <2>3, <3>1
    <3>3. messages'[j] = m /\ accepted'[j] = later
      BY <1>6, <2>1, <2>2, <2>3, <3>1
    <3> QED
      BY <3>2, <3>3 DEF MessageInv, RefusedSince, Passes, OnceALifetime, Evicted, nonceOf
  <2>4. CASE j # i
    <3>1. times \in Seq(Int) /\ MessageInv(m, times)
      BY <1>4, <2>1, <2>2, MessageAt, InvByMessage
    <3>2. MessageInv(m, times)'
      BY <1>11, <3>1
    <3>3. messages'[j] = m /\ accepted'[j] = times
      BY <1>6, <2>1, <2>2, <2>4
    <3> QED
      BY <3>2, <3>3 DEF MessageInv, RefusedSince, Passes, OnceALifetime, Evicted, nonceOf
  <2> QED
    BY <2>3, <2>4
<1>14. \A k \in evicted' : nonceStore' = "memory"
  BY <1>3, <1>5 DEF ServiceInv
<1> QED
  BY <1>7, <1>13, <1>14, InvByMessageNext

LEMMA ServiceInvStep ==
  ASSUME ServiceInv, [ServiceNext]_serviceAndClock
  PROVE  ServiceInv'
<1>1. ASSUME tick \/ UNCHANGED clock, UNCHANGED serviceAuthVars
      PROVE  ServiceInv'
  <2>1. ServiceTypeOK /\ clock \in Int
    BY DEF ServiceInv, ServiceTypeOK
  <2>2. ServiceTypeOK'
    BY <1>1, <2>1 DEF ServiceTypeOK, tick
  <2>3. ASSUME NEW j \in DOMAIN messages'
        PROVE  MessageInv(messages[j], accepted[j])'
    <3>1. PICK m, times : m = messages[j] /\ times = accepted[j]
      OBVIOUS
    <3>2. times \in Seq(Int) /\ MessageInv(m, times)
      BY <1>1, <2>1, <3>1, MessageAt, InvByMessage
    <3>3. MessageInv(m, times)'
      BY <1>1, <2>1, <3>2, MessageInvStays
    <3>4. messages'[j] = m /\ accepted'[j] = times
      BY <1>1, <3>1
    <3> QED
      BY <3>3, <3>4 DEF MessageInv, RefusedSince, Passes, OnceALifetime, Evicted, nonceOf
  <2>4. \A n \in evicted' : nonceStore' = "memory"
    BY <1>1 DEF ServiceInv
  <2> QED
    BY <2>2, <2>3, <2>4, InvByMessageNext
<1> QED
  BY <1>1, SignKeepsInv, DeliverKeepsInv DEF ServiceNext

\* Two times at which a message passes are no further apart than its timestamp lasts.
LEMMA OnceForATimestamp ==
  ASSUME ServiceInv, NEW i \in DOMAIN messages, OnceALifetime(accepted[i]),
         nonceTtlSeconds > TimestampLasts
  PROVE  Len(accepted[i]) <= 1
<1> DEFINE times == accepted[i]
<1>1. times \in Seq(Int) /\ messages[i].timestamp \in Int
  BY MessageAt DEF ServiceInv
<1>2. \A k \in DOMAIN times : Passes(messages[i], times[k])
  BY DEF ServiceInv
<1>3. OnceALifetime(times)
  OBVIOUS
<1> HIDE DEF times
<1>4. ASSUME Len(times) > 1 PROVE FALSE
  <2>1. 1 \in DOMAIN times /\ 2 \in DOMAIN times /\ times[1] \in Int /\ times[2] \in Int
    BY <1>1, <1>4
  <2>2. times[2] >= times[1] + nonceTtlSeconds
    <3>1. 1 \in 1 .. Len(times) - 1 /\ 1 + 1 = 2
      BY <1>1, <1>4
    <3> QED
      BY <1>3, <3>1 DEF OnceALifetime
  <2>3. /\ messages[i].timestamp - TimestampAhead <= times[1]
        /\ times[2] <= messages[i].timestamp + TimestampOld
    BY <1>2, <2>1 DEF Passes
  <2> PICK t \in Int : t = messages[i].timestamp
    BY <1>1
  <2> PICK first \in Int, second \in Int : first = times[1] /\ second = times[2]
    BY <2>1
  <2>4. second - first <= TimestampLasts
    <3>1. t - TimestampAhead <= first /\ second <= t + TimestampOld
      BY <2>3
    <3> QED
      BY <3>1, LengthsOfTime
  <2> QED
    BY <2>1, <2>2, <2>4, LengthsOfTime
<1>5. Len(times) \in Nat
  BY <1>1
<1> QED
  BY <1>4, <1>5 DEF times

(***************************************************************************)
(* However often, and however late, the network delivers what a client     *)
(* signed, by every kind of store and by the oracle it is accepted once    *)
(* for each lifetime of a nonce, whatever the lifetimes, ages and limits,  *)
(* and once for all if a nonce outlives the timestamps: the in-memory      *)
(* store alone accepts a message sooner, when it has dropped the nonce for *)
(* want of room (consume, verifyRequestSignature and                       *)
(* createServiceAuthMiddleware).                                           *)
(***************************************************************************)
THEOREM AcceptedOnceHolds == ServiceSpec => []AcceptedOnce
<1>1. ClockInit /\ ServiceAuthInit => ServiceInv
  BY DEF ClockInit, ServiceAuthInit, ServiceInv, ServiceTypeOK
<1>2. ServiceInv /\ [ServiceNext]_serviceAndClock => ServiceInv'
  BY ServiceInvStep
<1>3. ServiceInv => AcceptedOnce
  <2> SUFFICES ASSUME ServiceInv, NEW i \in DOMAIN accepted, ~Evicted(messages[i])
               PROVE  /\ OnceALifetime(accepted[i])
                      /\ nonceTtlSeconds > TimestampLasts => Len(accepted[i]) <= 1
    BY DEF AcceptedOnce, Evicted, OnceALifetime
  <2>1. i \in DOMAIN messages
    BY DEF ServiceInv, ServiceTypeOK
  <2>2. OnceALifetime(accepted[i])
    BY <2>1 DEF ServiceInv
  <2> QED
    BY <2>1, <2>2, OnceForATimestamp
<1> QED
  BY <1>1, <1>2, <1>3, PTL DEF ServiceSpec

-------------------------------------------------------------------------------
(* Notifications *)

notificationAndClock == <<notificationVars, clock>>

NotificationNext ==
  \/ NotificationStep /\ UNCHANGED clock
  \/ tick /\ UNCHANGED notificationVars

NotificationSpec == ClockInit /\ NotificationsInit /\ [][NotificationNext]_notificationAndClock

USE DEF notificationVars, notificationAndClock, NoNotify

\* Alerts have one key exactly if they tell the same.
LEMMA OracleKeys ==
  ASSUME NEW e \in AlertsOf["oracle"]
  PROVE  \E key \in ActionKeys :
           /\ e.correlation = [actionKey |-> key]
           /\ e.source = "oracle"
           /\ e.severity = "critical"
           /\ \/ /\ e.type = "ORACLE_CONFIRMATION_TIMEOUT"
                 /\ e.dedupKey = <<"oracle", "confirmation-timeout", key>>
              \/ /\ e.type = "ORACLE_TRIGGER_TERMINAL_FAILURE"
                 /\ e.dedupKey = <<"oracle", "TERMINAL_FAILURE", key>>
              \/ /\ e.type = "ORACLE_TRIGGER_EXHAUSTED_NEEDS_REDRIVE"
                 /\ e.dedupKey = <<"oracle", "EXHAUSTED_NEEDS_REDRIVE", key>>
<1>1. ASSUME NEW key \in ActionKeys
      PROVE  /\ notifyTimeout(key).type = "ORACLE_CONFIRMATION_TIMEOUT"
             /\ notifyTimeout(key).dedupKey = <<"oracle", "confirmation-timeout", key>>
             /\ notifyTimeout(key).correlation = [actionKey |-> key]
             /\ notifyTimeout(key).source = "oracle"
             /\ notifyTimeout(key).severity = "critical"
  BY DEF notifyTimeout
<1>2. ASSUME NEW status, NEW key \in ActionKeys
      PROVE  LET f == notifyTerminalStatus(status, key) IN
               /\ f.type = IF status = "TERMINAL_FAILURE" THEN "ORACLE_TRIGGER_TERMINAL_FAILURE"
                           ELSE "ORACLE_TRIGGER_EXHAUSTED_NEEDS_REDRIVE"
               /\ f.dedupKey = <<"oracle", status, key>>
               /\ f.correlation = [actionKey |-> key]
               /\ f.source = "oracle"
               /\ f.severity = "critical"
  BY DEF notifyTerminalStatus
<1>3. \/ \E key \in ActionKeys : e = notifyTimeout(key)
      \/ \E status \in {"TERMINAL_FAILURE", "EXHAUSTED_NEEDS_REDRIVE"}, key \in ActionKeys :
           e = notifyTerminalStatus(status, key)
  BY DEF AlertsOf
<1> QED
  BY <1>1, <1>2, <1>3

LEMMA DriftKeys ==
  ASSUME NEW e \in AlertsOf["reconciliation"]
  PROVE  \E finding \in Findings :
           /\ e.dedupKey = <<"reconciliation", "critical", finding.tradeId, finding.mismatchCode>>
           /\ e.correlation = [tradeId |-> finding.tradeId, mismatchCode |-> finding.mismatchCode]
           /\ e.source = "reconciliation"
           /\ e.severity = "critical"
           /\ e.type = "RECONCILIATION_CRITICAL_DRIFT"
<1>1. PICK finding \in Findings : e \in notifyCriticalDrift(finding)
  BY DEF AlertsOf
<1> QED
  BY <1>1 DEF notifyCriticalDrift

LEMMA KeysTellAlerts ==
  ASSUME NEW owner \in DOMAIN AlertsOf, NEW e \in AlertsOf[owner], NEW f \in AlertsOf[owner]
  PROVE  e.dedupKey = f.dedupKey <=> toSlackPayload(e) = toSlackPayload(f)
<1>1. owner \in {"oracle", "reconciliation"}
  BY DEF AlertsOf
<1>2. ASSUME toSlackPayload(e) = toSlackPayload(f)
      PROVE  e.type = f.type /\ e.correlation = f.correlation
  <2>1. /\ toSlackPayload(e).text = <<e.source, e.type, e.severity>>
        /\ toSlackPayload(f).text = <<f.source, f.type, f.severity>>
        /\ toSlackPayload(e).fields = e.correlation
        /\ toSlackPayload(f).fields = f.correlation
    BY DEF toSlackPayload
  <2> QED
    BY <1>2, <2>1
<1>3. ASSUME e.source = f.source, e.type = f.type, e.severity = f.severity,
             e.correlation = f.correlation
      PROVE  toSlackPayload(e) = toSlackPayload(f)
  BY <1>3 DEF toSlackPayload
<1>4. ASSUME owner = "oracle"
      PROVE  e.dedupKey = f.dedupKey <=> toSlackPayload(e) = toSlackPayload(f)
  <2>1. e \in AlertsOf["oracle"] /\ f \in AlertsOf["oracle"]
    BY <1>4
  <2>2. PICK key \in ActionKeys :
           /\ e.correlation = [actionKey |-> key]
           /\ e.source = "oracle"
           /\ e.severity = "critical"
           /\ \/ /\ e.type = "ORACLE_CONFIRMATION_TIMEOUT"
                 /\ e.dedupKey = <<"oracle", "confirmation-timeout", key>>
              \/ /\ e.type = "ORACLE_TRIGGER_TERMINAL_FAILURE"
                 /\ e.dedupKey = <<"oracle", "TERMINAL_FAILURE", key>>
              \/ /\ e.type = "ORACLE_TRIGGER_EXHAUSTED_NEEDS_REDRIVE"
                 /\ e.dedupKey = <<"oracle", "EXHAUSTED_NEEDS_REDRIVE", key>>
    BY <2>1, OracleKeys
  <2>3. PICK other \in ActionKeys :
           /\ f.correlation = [actionKey |-> other]
           /\ f.source = "oracle"
           /\ f.severity = "critical"
           /\ \/ /\ f.type = "ORACLE_CONFIRMATION_TIMEOUT"
                 /\ f.dedupKey = <<"oracle", "confirmation-timeout", other>>
              \/ /\ f.type = "ORACLE_TRIGGER_TERMINAL_FAILURE"
                 /\ f.dedupKey = <<"oracle", "TERMINAL_FAILURE", other>>
              \/ /\ f.type = "ORACLE_TRIGGER_EXHAUSTED_NEEDS_REDRIVE"
                 /\ f.dedupKey = <<"oracle", "EXHAUSTED_NEEDS_REDRIVE", other>>
    BY <2>1, OracleKeys
  <2>4. e.dedupKey = f.dedupKey <=> e.type = f.type /\ key = other
    BY <2>2, <2>3
  <2>5. e.correlation = f.correlation <=> key = other
    <3>1. [actionKey |-> key].actionKey = key /\ [actionKey |-> other].actionKey = other
      OBVIOUS
    <3> QED
      BY <2>2, <2>3, <3>1
  <2> QED
    BY <1>2, <1>3, <2>2, <2>3, <2>4, <2>5
<1>5. ASSUME owner = "reconciliation"
      PROVE  e.dedupKey = f.dedupKey <=> toSlackPayload(e) = toSlackPayload(f)
  <2>1. e \in AlertsOf["reconciliation"] /\ f \in AlertsOf["reconciliation"]
    BY <1>5
  <2>2. PICK x \in Findings :
           /\ e.dedupKey = <<"reconciliation", "critical", x.tradeId, x.mismatchCode>>
           /\ e.correlation = [tradeId |-> x.tradeId, mismatchCode |-> x.mismatchCode]
           /\ e.source = "reconciliation"
           /\ e.severity = "critical"
           /\ e.type = "RECONCILIATION_CRITICAL_DRIFT"
    BY <2>1, DriftKeys
  <2>3. PICK y \in Findings :
           /\ f.dedupKey = <<"reconciliation", "critical", y.tradeId, y.mismatchCode>>
           /\ f.correlation = [tradeId |-> y.tradeId, mismatchCode |-> y.mismatchCode]
           /\ f.source = "reconciliation"
           /\ f.severity = "critical"
           /\ f.type = "RECONCILIATION_CRITICAL_DRIFT"
    BY <2>1, DriftKeys
  <2>4. e.dedupKey = f.dedupKey <=> x.tradeId = y.tradeId /\ x.mismatchCode = y.mismatchCode
    BY <2>2, <2>3
  <2>5. e.correlation = f.correlation <=> x.tradeId = y.tradeId /\ x.mismatchCode = y.mismatchCode
    <3>1. /\ e.correlation.tradeId = x.tradeId /\ e.correlation.mismatchCode = x.mismatchCode
          /\ f.correlation.tradeId = y.tradeId /\ f.correlation.mismatchCode = y.mismatchCode
      BY <2>2, <2>3
    <3> QED
      BY <2>2, <2>3, <3>1
  <2> QED
    BY <1>2, <1>3, <2>2, <2>3, <2>4, <2>5
<1> QED
  BY <1>1, <1>4, <1>5

Alerts   == AlertsOf["oracle"] \cup AlertsOf["reconciliation"]
Payloads == {toSlackPayload(event) : event \in Alerts}
Delays   == {c + retryDelayForAttempt(a) : c \in Int, a \in Int}

NotifyCall ==
  [pc : {"post", "answer", "sleep"}, event : Alerts, attempt : Int, since : Int,
   known : SUBSET Int, got : Int \cup {None}, until : Delays \cup {None}]

Delivery ==
  [payload : Payloads, since : Int, known : SUBSET Int, acked : Int \cup {None}, life : Int]

NotifyTypeOK ==
  /\ clock \in Int
  /\ service \in {"oracle", "reconciliation"}
  /\ dedupCache \in [{event.dedupKey : event \in AlertsOf[service]} -> Int \cup {None}]
  /\ notifies \in [Notifies -> {NoNotify} \cup NotifyCall]
  /\ received \in Seq(Delivery)
  /\ suppressed \in Seq([payload : Payloads, at : Int])
  /\ restarts \in Int

\* What was known to be delivered when a call began was delivered a cooldown before.
LongAgo(known, since) ==
  \A i \in known :
    /\ i \in DOMAIN received
    /\ received[i].acked # None
    /\ since - received[i].acked >= cooldownMs

\* A call under way waits for the answer to a delivery of its own alert, of this process.
CallsHold ==
  \A n \in Notifies : notifies[n] # NoNotify =>
    /\ notifies[n].event \in AlertsOf[service]
    /\ LongAgo(notifies[n].known, notifies[n].since)
    /\ notifies[n].got # None =>
         /\ notifies[n].got \in DOMAIN received
         /\ received[notifies[n].got].acked = None
         /\ received[notifies[n].got].payload = toSlackPayload(notifies[n].event)
         /\ received[notifies[n].got].life = restarts

AnswersApart ==
  \A n, m \in Notifies :
    n # m /\ notifies[n] # NoNotify /\ notifies[m] # NoNotify /\ notifies[n].got # None =>
      notifies[n].got # notifies[m].got

\* The cache is true: a key is marked with the time of an answered delivery of its alert ...
CacheTold ==
  \A event \in AlertsOf[service] : dedupCache[event.dedupKey] # None =>
    /\ dedupCache[event.dedupKey] <= clock
    /\ \E j \in DOMAIN received :
         /\ received[j].payload = toSlackPayload(event)
         /\ received[j].acked = dedupCache[event.dedupKey]

\* ... and with the latest of those that this process saw succeed.
CacheLatest ==
  \A event \in AlertsOf[service] : \A j \in Known(event) :
    /\ dedupCache[event.dedupKey] # None
    /\ received[j].acked <= dedupCache[event.dedupKey]

LivesPast == \A j \in DOMAIN received : received[j].life <= restarts

SuppressedTold ==
  \A i \in DOMAIN suppressed :
    \E j \in DOMAIN received :
      /\ received[j].payload = suppressed[i].payload
      /\ received[j].acked # None
      /\ suppressed[i].at - received[j].acked \in 0 .. cooldownMs - 1

ReceivedLongAgo == \A j \in DOMAIN received : LongAgo(received[j].known, received[j].since)

NotifyInv ==
  /\ NotifyTypeOK
  /\ CallsHold
  /\ AnswersApart
  /\ CacheTold
  /\ CacheLatest
  /\ LivesPast
  /\ SuppressedTold
  /\ ReceivedLongAgo

\* Deliveries stay, and an answer is got once.
DeliveriesStay ==
  /\ DOMAIN received \subseteq DOMAIN received'
  /\ \A j \in DOMAIN received :
       /\ received'[j].payload = received[j].payload
       /\ received'[j].since = received[j].since
       /\ received'[j].known = received[j].known
       /\ received'[j].life = received[j].life
       /\ received[j].acked # None => received'[j].acked = received[j].acked

LEMMA DeliveryAt ==
  ASSUME NotifyTypeOK, NEW j \in DOMAIN received
  PROVE  received[j] \in Delivery
BY DEF NotifyTypeOK

LEMMA DeliveryFields ==
  ASSUME NEW d \in Delivery
  PROVE  /\ d.payload \in Payloads
         /\ d.since \in Int
         /\ d.known \in SUBSET Int
         /\ d.acked \in Int \cup {None}
         /\ d.life \in Int
BY DEF Delivery

LEMMA CallAt ==
  ASSUME NotifyTypeOK, NEW n \in Notifies, notifies[n] # NoNotify
  PROVE  notifies[n] \in NotifyCall
BY DEF NotifyTypeOK

LEMMA CallFields ==
  ASSUME NEW call \in NotifyCall
  PROVE  /\ call.pc \in {"post", "answer", "sleep"}
         /\ call.event \in Alerts
         /\ call.attempt \in Int
         /\ call.since \in Int
         /\ call.known \in SUBSET Int
         /\ call.got \in Int \cup {None}
         /\ call.until \in Delays \cup {None}
         /\ call # NoNotify
<1>1. call.pc \in {"post", "answer", "sleep"}
  BY DEF NotifyCall
<1>2. NoNotify.pc = "idle"
  OBVIOUS
<1> QED
  BY <1>1, <1>2 DEF NotifyCall

\* A call in one of the steps of a notification is one.
LEMMA CallInStep ==
  ASSUME NotifyTypeOK, NEW n \in Notifies, notifies[n].pc # "idle"
  PROVE  notifies[n] \in NotifyCall /\ notifies[n] # NoNotify
<1>1. NoNotify.pc = "idle"
  OBVIOUS
<1> QED
  BY <1>1, CallAt

LEMMA LongAgoStays ==
  ASSUME DeliveriesStay, NEW known, NEW since, LongAgo(known, since)
  PROVE  LongAgo(known, since)'
BY DEF LongAgo, DeliveriesStay

\* What holds of the deliveries and the cache when a step changes neither.
LEMMA DeliveriesUntouched ==
  ASSUME NotifyInv, clock' \in Int, clock <= clock',
         UNCHANGED <<service, dedupCache, received, restarts>>
  PROVE  CacheTold' /\ CacheLatest' /\ LivesPast' /\ ReceivedLongAgo' /\ DeliveriesStay
<1>1. CacheTold'
  <2> SUFFICES ASSUME NEW event \in AlertsOf[service], dedupCache[event.dedupKey] # None
               PROVE  dedupCache[event.dedupKey] <= clock'
    BY DEF NotifyInv, CacheTold
  <2>1. dedupCache[event.dedupKey] \in Int /\ dedupCache[event.dedupKey] <= clock
    BY DEF NotifyInv, NotifyTypeOK, CacheTold
  <2> QED
    BY <2>1 DEF NotifyInv, NotifyTypeOK
<1>2. CacheLatest'
  BY DEF NotifyInv, CacheLatest, Known
<1>3. LivesPast' /\ ReceivedLongAgo'
  BY DEF NotifyInv, LivesPast, ReceivedLongAgo, LongAgo
<1> QED
  BY <1>1, <1>2, <1>3 DEF DeliveriesStay

LEMMA SuppressedStays ==
  ASSUME SuppressedTold, DeliveriesStay, UNCHANGED suppressed
  PROVE  SuppressedTold'
BY DEF SuppressedTold, DeliveriesStay

\* A call that is not suppressed knows of no delivery within the cooldown.
LEMMA KnownLongAgo ==
  ASSUME NotifyInv, NEW event \in AlertsOf[service], ~isInCooldown(event.dedupKey)
  PROVE  LongAgo(Known(event), clock)
<1> SUFFICES ASSUME NEW i \in Known(event)
             PROVE  clock - received[i].acked >= cooldownMs
  BY DEF LongAgo, Known
<1>1. i \in DOMAIN received /\ received[i].acked # None
  BY DEF Known
<1>2. received[i].acked \in Int
  BY <1>1, DeliveryAt, DeliveryFields DEF NotifyInv
<1>3. dedupCache[event.dedupKey] # None /\ received[i].acked <= dedupCache[event.dedupKey]
  BY DEF NotifyInv, CacheLatest
<1>4. dedupCache[event.dedupKey] \in Int /\ clock \in Int
  BY <1>3 DEF NotifyInv, NotifyTypeOK
<1>5. ~(clock - dedupCache[event.dedupKey] < cooldownMs) /\ cooldownMs \in Int
  BY <1>3, NotificationsAssumption DEF isInCooldown
<1> QED
  BY <1>2, <1>3, <1>4, <1>5

LEMMA NotifyKeeps ==
  ASSUME NotifyInv, NEW n \in Notifies, NEW event \in AlertsOf[service], notify(n, event),
         UNCHANGED clock
  PROVE  NotifyInv'
<1> DEFINE call == [pc |-> "post", event |-> event, attempt |-> 1, since |-> clock,
                    known |-> Known(event), got |-> None, until |-> None]
<1>1. /\ notifies[n] = NoNotify
      /\ UNCHANGED <<service, dedupCache, received, restarts, clock>>
      /\ \/ /\ isInCooldown(event.dedupKey)
            /\ suppressed' = Append(suppressed, [payload |-> toSlackPayload(event), at |-> clock])
            /\ UNCHANGED notifies
         \/ /\ ~isInCooldown(event.dedupKey)
            /\ notifies' = [notifies EXCEPT ![n] = call]
            /\ UNCHANGED suppressed
  BY Zenon DEF notify
<1>2. clock \in Int /\ clock <= clock' /\ clock' \in Int
  BY <1>1 DEF NotifyInv, NotifyTypeOK
<1>3. CacheTold' /\ CacheLatest' /\ LivesPast' /\ ReceivedLongAgo' /\ DeliveriesStay
  BY <1>1, <1>2, DeliveriesUntouched
<1>4. event \in Alerts
  BY DEF Alerts, NotifyInv, NotifyTypeOK
<1>5. CASE isInCooldown(event.dedupKey)
  <2> DEFINE record == [payload |-> toSlackPayload(event), at |-> clock]
  <2>1. suppressed' = Append(suppressed, record) /\ UNCHANGED notifies
    BY <1>1, <1>5
  <2>2. record \in [payload : Payloads, at : Int]
    BY <1>2, <1>4 DEF Payloads
  <2>3. NotifyTypeOK'
    <3>1. suppressed' \in Seq([payload : Payloads, at : Int])
      BY <2>1, <2>2 DEF NotifyInv, NotifyTypeOK
    <3> QED
      BY <3>1, <1>1, <2>1 DEF NotifyInv, NotifyTypeOK
  <2>4. CallsHold' /\ AnswersApart'
    BY <1>1, <2>1 DEF NotifyInv, CallsHold, AnswersApart, LongAgo
  <2>5. SuppressedTold'
    <3>1. PICK j \in DOMAIN received :
            /\ received[j].payload = toSlackPayload(event)
            /\ received[j].acked = dedupCache[event.dedupKey]
      BY <1>5 DEF NotifyInv, CacheTold, isInCooldown
    <3>2. /\ dedupCache[event.dedupKey] # None
          /\ clock - dedupCache[event.dedupKey] < cooldownMs
          /\ dedupCache[event.dedupKey] <= clock
          /\ dedupCache[event.dedupKey] \in Int
      BY <1>5 DEF NotifyInv, NotifyTypeOK, CacheTold, isInCooldown
    <3>3. clock - received[j].acked \in 0 .. cooldownMs - 1
      BY <1>2, <3>1, <3>2, NotificationsAssumption
    <3>4. ASSUME NEW i \in DOMAIN suppressed', i \notin DOMAIN suppressed
          PROVE  suppressed'[i] = record
      BY <2>1, <3>4 DEF NotifyInv, NotifyTypeOK
    <3>5. ASSUME NEW i \in DOMAIN suppressed
          PROVE  suppressed'[i] = suppressed[i]
      BY <2>1 DEF NotifyInv, NotifyTypeOK
    <3>6. record.payload = toSlackPayload(event) /\ record.at = clock
      OBVIOUS
    <3> HIDE DEF record
    <3>7. ASSUME NEW i \in DOMAIN suppressed'
          PROVE  \E k \in DOMAIN received :
                   /\ received[k].payload = suppressed'[i].payload
                   /\ received[k].acked # None
                   /\ suppressed'[i].at - received[k].acked \in 0 .. cooldownMs - 1
      <4>1. CASE i \in DOMAIN suppressed
        BY <3>5, <4>1 DEF NotifyInv, SuppressedTold
      <4>2. CASE i \notin DOMAIN suppressed
        BY <3>1, <3>2, <3>3, <3>4, <3>6, <4>2
      <4> QED
        BY <4>1, <4>2
    <3> QED
      BY <1>1, <3>7 DEF SuppressedTold
  <2> QED
    BY <1>3, <2>3, <2>4, <2>5 DEF NotifyInv
<1>6. CASE ~isInCooldown(event.dedupKey)
  <2>1. notifies' = [notifies EXCEPT ![n] = call] /\ UNCHANGED suppressed
    BY <1>1, <1>6
  <2>2. call \in NotifyCall
    <3>1. Known(event) \in SUBSET Int
      BY DEF Known, NotifyInv, NotifyTypeOK
    <3> QED
      BY <1>2, <1>4, <3>1 DEF NotifyCall
  <2>3. NotifyTypeOK'
    BY <1>1, <2>1, <2>2 DEF NotifyInv, NotifyTypeOK
  <2>4. call.event = event /\ call.known = Known(event) /\ call.since = clock /\ call.got = None
    OBVIOUS
  <2>5. LongAgo(Known(event), clock)
    BY <1>6, KnownLongAgo
  <2> HIDE DEF call
  <2>6. ASSUME NEW m \in Notifies
        PROVE  notifies'[m] = IF m = n THEN call ELSE notifies[m]
    BY <2>1 DEF NotifyInv, NotifyTypeOK
  <2>7. CallsHold'
    BY <1>1, <2>4, <2>5, <2>6 DEF NotifyInv, CallsHold, LongAgo
  <2>8. AnswersApart'
    BY <1>1, <2>4, <2>6 DEF NotifyInv, AnswersApart, CallsHold
  <2>9. SuppressedTold'
    BY <1>3, <2>1, SuppressedStays DEF NotifyInv
  <2> QED
    BY <1>3, <2>3, <2>7, <2>8, <2>9 DEF NotifyInv
<1> QED
  BY <1>5, <1>6

\* A call that waits, or ends, changes nothing but itself.
LEMMA CallMovesKeeps ==
  ASSUME NotifyInv, NEW n \in Notifies, NEW call, notifies[n] # NoNotify,
         notifies' = [notifies EXCEPT ![n] = call],
         \/ call = NoNotify
         \/ /\ call \in NotifyCall
            /\ call.event = notifies[n].event
            /\ call.known = notifies[n].known /\ call.since = notifies[n].since
            /\ call.got \in {notifies[n].got, None},
         UNCHANGED <<service, dedupCache, received, suppressed, restarts, clock>>
  PROVE  NotifyInv'
<1>1. clock \in Int /\ clock <= clock' /\ clock' \in Int
  BY DEF NotifyInv, NotifyTypeOK
<1>2. CacheTold' /\ CacheLatest' /\ LivesPast' /\ ReceivedLongAgo' /\ DeliveriesStay
  BY <1>1, DeliveriesUntouched
<1>3. NotifyTypeOK'
  BY DEF NotifyInv, NotifyTypeOK
<1>4. ASSUME NEW m \in Notifies
      PROVE  notifies'[m] = IF m = n THEN call ELSE notifies[m]
  BY DEF NotifyInv, NotifyTypeOK
<1>5. CallsHold'
  BY <1>4 DEF NotifyInv, CallsHold, LongAgo
<1>6. AnswersApart'
  BY <1>4 DEF NotifyInv, AnswersApart
<1>7. SuppressedTold'
  BY <1>2, SuppressedStays DEF NotifyInv
<1> QED
  BY <1>2, <1>3, <1>5, <1>6, <1>7 DEF NotifyInv

LEMMA FailedKeeps ==
  ASSUME NotifyInv, NEW n \in Notifies, failed(n), UNCHANGED clock
  PROVE  NotifyInv'
<1> DEFINE sleeping == [notifies[n] EXCEPT
                          !.pc = "sleep", !.got = None,
                          !.until = clock + retryDelayForAttempt(notifies[n].attempt)]
           call     == IF notifies[n].attempt < totalAttempts THEN sleeping ELSE NoNotify
<1>1. /\ notifies[n].pc = "answer"
      /\ notifies' = [notifies EXCEPT ![n] = call]
      /\ UNCHANGED <<service, dedupCache, received, suppressed, restarts, clock>>
  BY Zenon DEF failed
<1>2. notifies[n] \in NotifyCall /\ notifies[n] # NoNotify
  BY <1>1, CallInStep DEF NotifyInv
<1>3. clock + retryDelayForAttempt(notifies[n].attempt) \in Delays
  BY <1>2, CallFields DEF Delays, NotifyInv, NotifyTypeOK
<1>4. /\ sleeping \in NotifyCall
      /\ sleeping.event = notifies[n].event
      /\ sleeping.known = notifies[n].known /\ sleeping.since = notifies[n].since
      /\ sleeping.got = None
  <2> PICK until \in Delays : until = clock + retryDelayForAttempt(notifies[n].attempt)
    BY <1>3
  <2> QED
    BY <1>2 DEF NotifyCall
<1> QED
  BY <1>1, <1>2, <1>4, CallMovesKeeps

LEMMA RetryKeeps ==
  ASSUME NotifyInv, NEW n \in Notifies, retry(n), UNCHANGED clock
  PROVE  NotifyInv'
<1> DEFINE call == [notifies[n] EXCEPT
                      !.pc = "post", !.attempt = notifies[n].attempt + 1, !.until = None]
<1>1. /\ notifies[n].pc = "sleep"
      /\ notifies' = [notifies EXCEPT ![n] = call]
      /\ UNCHANGED <<service, dedupCache, received, suppressed, restarts, clock>>
  BY Zenon DEF retry
<1>2. notifies[n] \in NotifyCall /\ notifies[n] # NoNotify
  BY <1>1, CallInStep DEF NotifyInv
<1>3. /\ call \in NotifyCall
      /\ call.event = notifies[n].event
      /\ call.known = notifies[n].known /\ call.since = notifies[n].since
      /\ call.got = notifies[n].got
  <2> PICK next \in Int : next = notifies[n].attempt + 1
    BY <1>2, CallFields
  <2> QED
    BY <1>2 DEF NotifyCall
<1> QED
  BY <1>1, <1>2, <1>3, CallMovesKeeps

LEMMA PostKeeps ==
  ASSUME NotifyInv, NEW n \in Notifies, post(n), UNCHANGED clock
  PROVE  NotifyInv'
<1> DEFINE record == [payload |-> toSlackPayload(notifies[n].event),
                      since |-> notifies[n].since, known |-> notifies[n].known,
                      acked |-> None, life |-> restarts]
           got    == Len(received) + 1
           told   == [notifies[n] EXCEPT !.pc = "answer", !.got = got]
           lost   == [notifies[n] EXCEPT !.pc = "answer"]
<1>1. /\ notifies[n].pc = "post"
      /\ \/ /\ received' = Append(received, record)
            /\ notifies' = [notifies EXCEPT ![n].pc = "answer", ![n].got = Len(received')]
         \/ /\ notifies' = [notifies EXCEPT ![n].pc = "answer"]
            /\ UNCHANGED received
      /\ UNCHANGED <<service, dedupCache, suppressed, restarts, clock>>
  BY Zenon DEF post
<1>2. notifies[n] \in NotifyCall /\ notifies[n] # NoNotify
  BY <1>1, CallInStep DEF NotifyInv
<1>3. CASE notifies' = [notifies EXCEPT ![n].pc = "answer"] /\ UNCHANGED received
  <2>1. notifies' = [notifies EXCEPT ![n] = lost]
    BY <1>2, <1>3 DEF NotifyInv, NotifyTypeOK
  <2>2. /\ lost \in NotifyCall
        /\ lost.event = notifies[n].event
        /\ lost.known = notifies[n].known /\ lost.since = notifies[n].since
        /\ lost.got = notifies[n].got
    BY <1>2 DEF NotifyCall
  <2> QED
    BY <1>1, <1>2, <1>3, <2>1, <2>2, CallMovesKeeps
<1>4. CASE /\ received' = Append(received, record)
           /\ notifies' = [notifies EXCEPT ![n].pc = "answer", ![n].got = Len(received')]
  <2>1. record \in Delivery
    <3>1. toSlackPayload(notifies[n].event) \in Payloads
      BY <1>2, CallFields DEF Payloads
    <3> PICK payload \in Payloads : payload = toSlackPayload(notifies[n].event)
      BY <3>1
    <3> QED
      BY <1>2, CallFields DEF Delivery, NotifyInv, NotifyTypeOK
  <2>2. /\ record.payload = toSlackPayload(notifies[n].event)
        /\ record.since = notifies[n].since /\ record.known = notifies[n].known
        /\ record.acked = None /\ record.life = restarts
    OBVIOUS
  <2> HIDE DEF record
  <2>3. /\ received' \in Seq(Delivery)
        /\ DOMAIN received' = DOMAIN received \cup {got}
        /\ got \notin DOMAIN received
        /\ got \in Int
        /\ Len(received') = got
        /\ received'[got] = record
        /\ \A j \in DOMAIN received : received'[j] = received[j]
    BY <1>4, <2>1 DEF NotifyInv, NotifyTypeOK
  <2>4. notifies' = [notifies EXCEPT ![n] = told]
    BY <1>2, <1>4, <2>3 DEF NotifyInv, NotifyTypeOK
  <2> HIDE DEF got
  <2>5. /\ told \in NotifyCall
        /\ told.event = notifies[n].event
        /\ told.known = notifies[n].known /\ told.since = notifies[n].since
        /\ told.got = got
    BY <1>2, <2>3 DEF NotifyCall
  <2> HIDE DEF told
  <2>6. NotifyTypeOK'
    BY <1>1, <2>3, <2>4, <2>5 DEF NotifyInv, NotifyTypeOK
  <2>7. DeliveriesStay
    BY <2>3 DEF DeliveriesStay
  <2>8. ASSUME NEW m \in Notifies
        PROVE  notifies'[m] = IF m = n THEN told ELSE notifies[m]
    BY <2>4 DEF NotifyInv, NotifyTypeOK
  <2>9. LongAgo(notifies[n].known, notifies[n].since)
    BY <1>2 DEF NotifyInv, CallsHold
  <2>10. CallsHold'
    <3> SUFFICES ASSUME NEW m \in Notifies, notifies'[m] # NoNotify
                 PROVE  /\ notifies'[m].event \in AlertsOf[service]
                        /\ LongAgo(notifies[m].known, notifies[m].since)'
                        /\ notifies'[m].got # None =>
                             /\ notifies'[m].got \in DOMAIN received'
                             /\ received'[notifies'[m].got].acked = None
                             /\ received'[notifies'[m].got].payload
                                  = toSlackPayload(notifies'[m].event)
                             /\ received'[notifies'[m].got].life = restarts
      BY <1>1 DEF CallsHold
    <3>1. CASE m = n
      <4>1. notifies[n].event \in AlertsOf[service]
        BY <1>2 DEF NotifyInv, CallsHold
      <4>2. /\ notifies'[m].event = notifies[n].event
            /\ notifies'[m].known = notifies[n].known
            /\ notifies'[m].since = notifies[n].since
            /\ notifies'[m].got = got
        BY <2>5, <2>8, <3>1
      <4>3. LongAgo(notifies[m].known, notifies[m].since)'
        <5>1. \A i \in notifies[n].known :
                /\ i \in DOMAIN received'
                /\ received'[i].acked # None
                /\ notifies[n].since - received'[i].acked >= cooldownMs
          BY <2>3, <2>9 DEF LongAgo
        <5> QED
          BY <4>2, <5>1 DEF LongAgo
      <4> QED
        BY <2>2, <2>3, <4>1, <4>2, <4>3
    <3>2. CASE m # n
      BY <2>3, <2>8, <3>2 DEF NotifyInv, CallsHold, LongAgo
    <3> QED
      BY <3>1, <3>2
  <2>11. AnswersApart'
    <3>1. ASSUME NEW m \in Notifies, notifies[m] # NoNotify, notifies[m].got # None
          PROVE  notifies[m].got # got
      BY <2>3, <3>1 DEF NotifyInv, CallsHold
    <3>2. got # None
      BY <2>3, ClockAssumption
    <3> QED
      BY <2>5, <2>8, <3>1, <3>2, <1>2 DEF NotifyInv, AnswersApart
  <2>12. CacheTold'
    BY <1>1, <2>3 DEF NotifyInv, CacheTold
  <2>13. CacheLatest'
    BY <1>1, <2>2, <2>3 DEF NotifyInv, CacheLatest, Known
  <2>14. LivesPast'
    BY <1>1, <2>2, <2>3 DEF NotifyInv, NotifyTypeOK, LivesPast
  <2>15. SuppressedTold'
    BY <1>1, <2>7, SuppressedStays DEF NotifyInv
  <2>16. ReceivedLongAgo'
    BY <2>2, <2>3, <2>9 DEF NotifyInv, ReceivedLongAgo, LongAgo
  <2> QED
    BY <2>6, <2>10, <2>11, <2>12, <2>13, <2>14, <2>15, <2>16 DEF NotifyInv
<1> QED
  BY <1>1, <1>3, <1>4

LEMMA AnsweredKeeps ==
  ASSUME NotifyInv, NEW n \in Notifies, answered(n), UNCHANGED clock
  PROVE  NotifyInv'
<1> DEFINE got   == notifies[n].got
           event == notifies[n].event
           key   == event.dedupKey
<1>1. /\ notifies[n].pc = "answer" /\ got # None
      /\ dedupCache' = [dedupCache EXCEPT ![key] = clock]
      /\ received' = [received EXCEPT ![got].acked = clock]
      /\ notifies' = [notifies EXCEPT ![n] = NoNotify]
      /\ UNCHANGED <<service, suppressed, restarts, clock>>
  BY Zenon DEF answered, markSent
<1>2. notifies[n] \in NotifyCall /\ notifies[n] # NoNotify
  BY <1>1, CallInStep DEF NotifyInv
<1>3. /\ event \in AlertsOf[service]
      /\ got \in DOMAIN received
      /\ received[got].acked = None
      /\ received[got].payload = toSlackPayload(event)
      /\ received[got].life = restarts
  BY <1>1, <1>2 DEF NotifyInv, CallsHold
<1>4. clock \in Int /\ clock # None
  BY ClockAssumption DEF NotifyInv, NotifyTypeOK
<1> HIDE DEF got
<1>5. /\ received' \in Seq(Delivery)
      /\ DOMAIN received' = DOMAIN received
      /\ received'[got].acked = clock
      /\ received'[got].payload = received[got].payload
      /\ received'[got].since = received[got].since
      /\ received'[got].known = received[got].known
      /\ received'[got].life = received[got].life
      /\ \A j \in DOMAIN received : j # got => received'[j] = received[j]
  <2> DEFINE record == [received[got] EXCEPT !.acked = clock]
  <2>1. received[got] \in Delivery
    BY <1>3, DeliveryAt DEF NotifyInv
  <2>2. /\ record \in Delivery
        /\ record.acked = clock
        /\ record.payload = received[got].payload
        /\ record.since = received[got].since
        /\ record.known = received[got].known
        /\ record.life = received[got].life
    BY <1>4, <2>1 DEF Delivery
  <2>3. received' = [received EXCEPT ![got] = record]
    BY <1>1, <1>3 DEF NotifyInv, NotifyTypeOK
  <2> HIDE DEF record
  <2>4. /\ received' \in Seq(Delivery)
        /\ DOMAIN received' = DOMAIN received
        /\ received'[got] = record
        /\ \A j \in DOMAIN received : j # got => received'[j] = received[j]
    BY <1>3, <2>2, <2>3 DEF NotifyInv, NotifyTypeOK
  <2> QED
    BY <2>2, <2>4
<1>6. DeliveriesStay
  BY <1>3, <1>5 DEF DeliveriesStay
<1>7. ASSUME NEW m \in Notifies
      PROVE  notifies'[m] = IF m = n THEN NoNotify ELSE notifies[m]
  BY <1>1 DEF NotifyInv, NotifyTypeOK
<1>8. ASSUME NEW other \in AlertsOf[service]
      PROVE  /\ dedupCache'[other.dedupKey]
                  = IF other.dedupKey = key THEN clock ELSE dedupCache[other.dedupKey]
             /\ other.dedupKey = key <=> toSlackPayload(other) = toSlackPayload(event)
  <2>1. service \in DOMAIN AlertsOf
    BY DEF NotifyInv, NotifyTypeOK, AlertsOf
  <2>2. other.dedupKey = key <=> toSlackPayload(other) = toSlackPayload(event)
    BY <1>3, <2>1, KeysTellAlerts
  <2>3. other.dedupKey \in DOMAIN dedupCache
    BY DEF NotifyInv, NotifyTypeOK
  <2> QED
    BY <1>1, <2>2, <2>3
<1>9. NotifyTypeOK'
  <2>1. dedupCache' \in [{e.dedupKey : e \in AlertsOf[service]} -> Int \cup {None}]
    BY <1>1, <1>4 DEF NotifyInv, NotifyTypeOK
  <2>2. notifies' \in [Notifies -> {NoNotify} \cup NotifyCall]
    BY <1>1 DEF NotifyInv, NotifyTypeOK
  <2> QED
    BY <1>1, <1>5, <2>1, <2>2 DEF NotifyInv, NotifyTypeOK
<1> HIDE DEF event, key
<1>10. CallsHold'
  <2> SUFFICES ASSUME NEW m \in Notifies, m # n, notifies[m] # NoNotify
               PROVE  /\ notifies[m].event \in AlertsOf[service]
                      /\ LongAgo(notifies[m].known, notifies[m].since)'
                      /\ notifies[m].got # None =>
                           /\ notifies[m].got \in DOMAIN received'
                           /\ received'[notifies[m].got].acked = None
                           /\ received'[notifies[m].got].payload
                                = toSlackPayload(notifies[m].event)
                           /\ received'[notifies[m].got].life = restarts
    BY <1>1, <1>7 DEF CallsHold
  <2>1. notifies'[m] = notifies[m]
    BY <1>7
  <2>2. LongAgo(notifies[m].known, notifies[m].since)'
    <3>1. LongAgo(notifies[m].known, notifies[m].since)
      BY DEF NotifyInv, CallsHold
    <3> QED
      BY <2>1, <3>1, <1>6 DEF LongAgo, DeliveriesStay
  <2>3. notifies[m].got # got
    BY <1>1, <1>2 DEF NotifyInv, AnswersApart, got
  <2> QED
    BY <1>5, <2>2, <2>3 DEF NotifyInv, CallsHold
<1>11. AnswersApart'
  BY <1>7 DEF NotifyInv, AnswersApart
<1>12. CacheTold'
  <2> SUFFICES ASSUME NEW other \in AlertsOf[service], dedupCache'[other.dedupKey] # None
               PROVE  /\ dedupCache'[other.dedupKey] <= clock
                      /\ \E j \in DOMAIN received' :
                           /\ received'[j].payload = toSlackPayload(other)
                           /\ received'[j].acked = dedupCache'[other.dedupKey]
    BY <1>1 DEF CacheTold
  <2>1. CASE other.dedupKey = key
    BY <1>3, <1>4, <1>5, <1>8, <2>1
  <2>2. CASE other.dedupKey # key
    <3>1. dedupCache'[other.dedupKey] = dedupCache[other.dedupKey]
      BY <1>8, <2>2
    <3>2. PICK j \in DOMAIN received :
            /\ received[j].payload = toSlackPayload(other)
            /\ received[j].acked = dedupCache[other.dedupKey]
      BY <3>1 DEF NotifyInv, CacheTold
    <3>3. dedupCache[other.dedupKey] <= clock
      BY <3>1 DEF NotifyInv, CacheTold
    <3> QED
      BY <1>5, <1>6, <3>1, <3>2, <3>3 DEF DeliveriesStay
  <2> QED
    BY <2>1, <2>2
<1>13. CacheLatest'
  <2> SUFFICES ASSUME NEW other \in AlertsOf[service], NEW j \in DOMAIN received',
                      received'[j].payload = toSlackPayload(other),
                      received'[j].acked # None, received'[j].life = restarts
               PROVE  /\ dedupCache'[other.dedupKey] # None
                      /\ received'[j].acked <= dedupCache'[other.dedupKey]
    BY <1>1 DEF CacheLatest, Known
  <2>1. CASE j = got
    BY <1>3, <1>4, <1>5, <1>8, <2>1
  <2>2. CASE j # got
    <3>1. received'[j] = received[j] /\ j \in DOMAIN received
      BY <1>5, <2>2
    <3>2. /\ dedupCache[other.dedupKey] # None
          /\ received[j].acked <= dedupCache[other.dedupKey]
      BY <3>1 DEF NotifyInv, CacheLatest, Known
    <3>3. dedupCache[other.dedupKey] <= clock /\ dedupCache[other.dedupKey] \in Int
      BY <3>2 DEF NotifyInv, CacheTold, NotifyTypeOK
    <3>4. received[j].acked \in Int
      BY <3>1, DeliveryAt, DeliveryFields DEF NotifyInv
    <3> QED
      BY <1>4, <1>8, <3>1, <3>2, <3>3, <3>4
  <2> QED
    BY <2>1, <2>2
<1>14. LivesPast'
  BY <1>1, <1>5, <1>6 DEF NotifyInv, LivesPast, DeliveriesStay
<1>15. SuppressedTold'
  BY <1>1, <1>6, SuppressedStays DEF NotifyInv
<1>16. ReceivedLongAgo'
  <2>1. ASSUME NEW j \in DOMAIN received
        PROVE  \A i \in received[j].known :
                 /\ i \in DOMAIN received'
                 /\ received'[i].acked # None
                 /\ received[j].since - received'[i].acked >= cooldownMs
    BY <1>6 DEF NotifyInv, ReceivedLongAgo, LongAgo, DeliveriesStay
  <2> QED
    BY <1>5, <1>6, <2>1 DEF ReceivedLongAgo, LongAgo, DeliveriesStay
<1> QED
  BY <1>9, <1>10, <1>11, <1>12, <1>13, <1>14, <1>15, <1>16 DEF NotifyInv

LEMMA NotifierRestartKeeps ==
  ASSUME NotifyInv, restart, UNCHANGED clock
  PROVE  NotifyInv'
<1>1. /\ restarts' = restarts + 1
      /\ dedupCache' = [k \in DOMAIN dedupCache |-> None]
      /\ notifies' = [n \in Notifies |-> NoNotify]
      /\ UNCHANGED <<service, received, suppressed, clock>>
  BY DEF restart
<1>2. NotifyTypeOK'
  BY <1>1 DEF NotifyInv, NotifyTypeOK
<1>3. CallsHold' /\ AnswersApart'
  BY <1>1 DEF CallsHold, AnswersApart
<1>4. CacheTold'
  <2>1. \A event \in AlertsOf[service] : dedupCache'[event.dedupKey] = None
    BY <1>1 DEF NotifyInv, NotifyTypeOK
  <2> QED
    BY <1>1, <2>1 DEF CacheTold
<1>5. CacheLatest'
  <2>1. ASSUME NEW j \in DOMAIN received
        PROVE  received[j].life # restarts'
    <3>1. received[j].life \in Int
      BY DeliveryAt, DeliveryFields DEF NotifyInv
    <3> QED
      BY <1>1, <3>1 DEF NotifyInv, LivesPast, NotifyTypeOK
  <2> QED
    BY <1>1, <2>1 DEF CacheLatest, Known
<1>6. LivesPast'
  <2>1. ASSUME NEW j \in DOMAIN received
        PROVE  received[j].life <= restarts'
    <3>1. received[j].life \in Int
      BY DeliveryAt, DeliveryFields DEF NotifyInv
    <3> QED
      BY <1>1, <3>1 DEF NotifyInv, LivesPast, NotifyTypeOK
  <2> QED
    BY <1>1, <2>1 DEF LivesPast
<1>7. SuppressedTold' /\ ReceivedLongAgo'
  BY <1>1 DEF NotifyInv, SuppressedTold, ReceivedLongAgo, LongAgo
<1> QED
  BY <1>2, <1>3, <1>4, <1>5, <1>6, <1>7 DEF NotifyInv

LEMMA NotifierTickKeeps ==
  ASSUME NotifyInv, tick, UNCHANGED notificationVars
  PROVE  NotifyInv'
<1>1. clock' \in Int /\ clock <= clock'
  BY DEF tick, NotifyInv, NotifyTypeOK
<1>2. CacheTold' /\ CacheLatest' /\ LivesPast' /\ ReceivedLongAgo' /\ DeliveriesStay
  BY <1>1, DeliveriesUntouched
<1>3. NotifyTypeOK'
  BY <1>1 DEF NotifyInv, NotifyTypeOK
<1>4. CallsHold' /\ AnswersApart' /\ SuppressedTold'
  BY DEF NotifyInv, CallsHold, AnswersApart, SuppressedTold, LongAgo
<1> QED
  BY <1>2, <1>3, <1>4 DEF NotifyInv

(* An alert is suppressed only if the webhook answered one that tells the  *)
(* same within the cooldown, and a call that begins within the cooldown of *)
(* a delivery its process saw succeed posts nothing (index.ts:147, :208,   *)
(* :240), for any number of calls, restarts, keys, and any delays.         *)
THEOREM CooldownRespectedHolds == NotificationSpec => []CooldownRespected
<1>1. ClockInit /\ NotificationsInit => NotifyInv
  <2> SUFFICES ASSUME ClockInit, NotificationsInit
               PROVE  NotifyInv
    OBVIOUS
  <2>1. received = <<>> /\ suppressed = <<>>
    BY DEF NotificationsInit
  <2>2. NotifyTypeOK
    <3>1. service \in {"oracle", "reconciliation"}
      BY DEF NotificationsInit, AlertsOf
    <3>2. dedupCache \in [{event.dedupKey : event \in AlertsOf[service]} -> Int \cup {None}]
      BY DEF NotificationsInit
    <3>3. notifies \in [Notifies -> {NoNotify} \cup NotifyCall]
      BY DEF NotificationsInit
    <3>4. clock \in Int /\ restarts \in Int
      BY DEF ClockInit, NotificationsInit
    <3> QED
      BY <2>1, <3>1, <3>2, <3>3, <3>4 DEF NotifyTypeOK
  <2>3. CallsHold /\ AnswersApart /\ CacheTold /\ CacheLatest
    <3>1. \A n \in Notifies : notifies[n] = NoNotify
      BY DEF NotificationsInit
    <3>2. \A event \in AlertsOf[service] : dedupCache[event.dedupKey] = None
      BY DEF NotificationsInit
    <3>3. \A event \in AlertsOf[service] : Known(event) = {}
      BY <2>1 DEF Known
    <3> QED
      BY <3>1, <3>2, <3>3, Zenon DEF CallsHold, AnswersApart, CacheTold, CacheLatest
  <2>4. LivesPast /\ SuppressedTold /\ ReceivedLongAgo
    BY <2>1 DEF LivesPast, SuppressedTold, ReceivedLongAgo
  <2> QED
    BY <2>2, <2>3, <2>4 DEF NotifyInv
<1>2. NotifyInv /\ [NotificationNext]_notificationAndClock => NotifyInv'
  <2> SUFFICES ASSUME NotifyInv, [NotificationNext]_notificationAndClock
               PROVE  NotifyInv'
    OBVIOUS
  <2>1. CASE NotificationStep /\ UNCHANGED clock
    <3>1. ASSUME NEW n \in Notifies, NEW event \in AlertsOf[service], notify(n, event)
          PROVE  NotifyInv'
      BY <2>1, <3>1, NotifyKeeps
    <3>2. ASSUME NEW n \in Notifies, post(n) \/ answered(n) \/ failed(n) \/ retry(n)
          PROVE  NotifyInv'
      BY <2>1, <3>2, PostKeeps, AnsweredKeeps, FailedKeeps, RetryKeeps
    <3>3. ASSUME restart
          PROVE  NotifyInv'
      BY <2>1, <3>3, NotifierRestartKeeps
    <3> QED
      BY <2>1, <3>1, <3>2, <3>3, Zenon DEF NotificationStep
  <2>2. CASE tick /\ UNCHANGED notificationVars
    BY <2>2, NotifierTickKeeps
  <2>3. CASE UNCHANGED notificationAndClock
    BY <2>3 DEF NotifyInv, NotifyTypeOK, CallsHold, AnswersApart, CacheTold, CacheLatest,
                LivesPast, SuppressedTold, ReceivedLongAgo, LongAgo, Known
  <2> QED
    BY <2>1, <2>2, <2>3, Zenon DEF NotificationNext
<1>3. NotifyInv => CooldownRespected
  <2> SUFFICES ASSUME NotifyInv
               PROVE  CooldownRespected
    OBVIOUS
  <2> QED
    BY DEF NotifyInv, SuppressedTold, ReceivedLongAgo, LongAgo, CooldownRespected
<1> QED
  BY <1>1, <1>2, <1>3, PTL DEF NotificationSpec

-------------------------------------------------------------------------------
(* Rate limits *)

limiterAndClock == <<limiterVars, clock>>

\* A request of the Ricardian service, as far as its rate limiter sees it.
LimiterStep ==
  \E caller \in Callers, route \in Routes :
    admit(caller, route) \/ refuse(caller, route) \/ limiterFails(caller, route)

LimiterNext ==
  \/ LimiterStep /\ UNCHANGED clock
  \/ tick /\ UNCHANGED limiterVars

LimiterSpec == ClockInit /\ LimiterInit /\ [][LimiterNext]_limiterAndClock

Admission == [caller : Callers, route : Routes, at : Nat]

\* What was admitted of a caller on a route in a span of time.
Of(entry, caller, route) == entry.caller = caller /\ entry.route = route

Span(log, caller, route, start, length) ==
  {i \in DOMAIN log : /\ Of(log[i], caller, route)
                       /\ start <= log[i].at /\ log[i].at < start + length}

\* A counted window ends at "until" and has begun.  What was admitted in it was counted, and
\* neither it nor the window before it, which may have been any earlier one, let more pass
\* than the limit.
WindowInv(log, caller, route, window, count, until, now) ==
  /\ count \in Nat /\ until \in Int
  /\ \A i \in DOMAIN log : Of(log[i], caller, route) => log[i].at < until /\ log[i].at <= now
  /\ until - window.windowSeconds <= now
  /\ Cardinality(Span(log, caller, route, until - window.windowSeconds, window.windowSeconds))
       <= count
  /\ \A start \in {until - window.windowSeconds, (until - window.windowSeconds) - window.windowSeconds} :
       Cardinality(Span(log, caller, route, start, window.windowSeconds)) <= window.limit
  /\ \A start \in Int :
       Cardinality(Span(log, caller, route, start, window.windowSeconds)) <= 2 * window.limit

IsWindow(window) ==
  /\ window.limit \in Nat /\ window.limit > 0
  /\ window.windowSeconds \in Nat /\ window.windowSeconds > 0

\* An admission carries the time at which it was made.
LEMMA AdmittedAt ==
  ASSUME NEW log \in Seq(Admission)
  PROVE  \A i \in DOMAIN log : log[i].at \in Nat
<1> SUFFICES ASSUME NEW i \in DOMAIN log PROVE log[i].at \in Nat
  OBVIOUS
<1>1. log[i] \in Admission
  OBVIOUS
<1> QED BY <1>1 DEF Admission

\* What was admitted in a span of time can be counted.
LEMMA SpanFinite ==
  ASSUME NEW log \in Seq(Admission), NEW caller, NEW route, NEW start, NEW length
  PROVE  /\ IsFiniteSet(Span(log, caller, route, start, length))
         /\ Cardinality(Span(log, caller, route, start, length)) \in Nat
<1>1. Span(log, caller, route, start, length) \subseteq 1 .. Len(log) /\ Len(log) \in Nat
  BY DEF Span
<1>2. IsFiniteSet(1 .. Len(log))
  BY <1>1, FS_Interval
<1> QED BY <1>1, <1>2, FS_Subset, FS_CardinalityType

\* A span of time within another admitted no more.
LEMMA SpanWithin ==
  ASSUME NEW log \in Seq(Admission), NEW caller, NEW route, NEW start, NEW length,
         NEW from, NEW span,
         \A i \in DOMAIN log :
           Of(log[i], caller, route) /\ start <= log[i].at /\ log[i].at < start + length =>
             from <= log[i].at /\ log[i].at < from + span
  PROVE  Cardinality(Span(log, caller, route, start, length))
           <= Cardinality(Span(log, caller, route, from, span))
<1>1. Span(log, caller, route, start, length) \subseteq Span(log, caller, route, from, span)
  BY DEF Span
<1> QED BY <1>1, SpanFinite, FS_Subset

\* A request that was counted later, and time that passes.
LEMMA WindowGoesOn ==
  ASSUME NEW log \in Seq(Admission), NEW caller, NEW route, NEW window, IsWindow(window),
         NEW count \in Nat, NEW more \in Nat, count <= more, NEW until \in Int,
         NEW now \in Nat, NEW later \in Nat, now <= later,
         WindowInv(log, caller, route, window, count, until, now)
  PROVE  WindowInv(log, caller, route, window, more, until, later)
<1>1. \A i \in DOMAIN log : log[i].at \in Nat
  BY AdmittedAt
<1>2. window.windowSeconds \in Nat /\ window.limit \in Nat
  BY DEF IsWindow
<1>3. Cardinality(Span(log, caller, route, until - window.windowSeconds, window.windowSeconds)) \in Nat
  BY SpanFinite
<1> QED BY <1>1, <1>2, <1>3, SMTT(30) DEF WindowInv

\* A new window, empty as yet: those admitted before it were counted by earlier ones, of
\* which the last one alone reaches into the time as long as a window before it.
LEMMA WindowBegins ==
  ASSUME NEW log \in Seq(Admission), NEW caller, NEW route, NEW window, IsWindow(window),
         NEW count \in Nat, NEW until \in Int, NEW now \in Nat,
         WindowInv(log, caller, route, window, count, until, now),
         NEW next \in Int, until <= next - window.windowSeconds, next - window.windowSeconds <= now
  PROVE  WindowInv(log, caller, route, window, 0, next, now)
<1> DEFINE L == window.windowSeconds
           N == window.limit
<1>1. \A i \in DOMAIN log : log[i].at \in Nat
  BY AdmittedAt
<1>2. L \in Nat /\ N \in Nat /\ L > 0
  BY DEF IsWindow
<1>3. \A i \in DOMAIN log : Of(log[i], caller, route) => log[i].at < until /\ log[i].at <= now
  BY DEF WindowInv
<1>4. /\ Cardinality(Span(log, caller, route, until - L, L)) <= N
      /\ \A start \in Int : Cardinality(Span(log, caller, route, start, L)) <= 2 * N
  BY DEF WindowInv
<1> HIDE DEF L, N
<1> PICK begin \in Int : begin = next - L
  BY <1>2
<1> PICK before \in Int : before = begin - L
  BY <1>2
<1> PICK earlier \in Int : earlier = until - L
  BY <1>2
<1>5. until <= begin /\ begin <= now /\ begin + L = next
  BY <1>2, SMTT(30) DEF L
<1>6. Span(log, caller, route, begin, L) = {}
  BY <1>1, <1>3, <1>5 DEF Span
<1>7. Cardinality(Span(log, caller, route, begin, L)) = 0
  BY <1>6, FS_EmptySet
<1>8. Cardinality(Span(log, caller, route, before, L)) <= N
  <2>1. \A i \in DOMAIN log :
          Of(log[i], caller, route) /\ before <= log[i].at /\ log[i].at < before + L =>
            earlier <= log[i].at /\ log[i].at < earlier + L
    BY <1>1, <1>2, <1>3, <1>5
  <2>2. Cardinality(Span(log, caller, route, before, L)) <= Cardinality(Span(log, caller, route, earlier, L))
    BY <2>1, SpanWithin
  <2>3. Cardinality(Span(log, caller, route, before, L)) \in Nat
        /\ Cardinality(Span(log, caller, route, earlier, L)) \in Nat
    BY SpanFinite
  <2>4. Cardinality(Span(log, caller, route, earlier, L)) <= N
    BY <1>4
  <2> QED BY <1>2, <2>2, <2>3, <2>4
<1>9. \A i \in DOMAIN log : Of(log[i], caller, route) => log[i].at < next /\ log[i].at <= now
  BY <1>1, <1>2, <1>3, <1>5
<1>10. \A start \in {next - L, (next - L) - L} : Cardinality(Span(log, caller, route, start, L)) <= N
  BY <1>2, <1>7, <1>8
<1>11. next - L <= now /\ Cardinality(Span(log, caller, route, next - L, L)) <= 0
  BY <1>5, <1>7
<1> QED BY <1>4, <1>9, <1>10, <1>11 DEF WindowInv, L, N

\* A request of somebody else, or on the other route.
LEMMA OthersAdmitted ==
  ASSUME NEW log \in Seq(Admission), NEW caller, NEW route, NEW window, IsWindow(window),
         NEW count \in Nat, NEW until \in Int, NEW now \in Nat,
         WindowInv(log, caller, route, window, count, until, now),
         NEW entry \in Admission, ~Of(entry, caller, route)
  PROVE  WindowInv(Append(log, entry), caller, route, window, count, until, now)
<1> DEFINE longer == Append(log, entry)
<1>1. /\ DOMAIN longer = DOMAIN log \cup {Len(log) + 1} /\ Len(log) + 1 \notin DOMAIN log
      /\ longer[Len(log) + 1] = entry /\ \A i \in DOMAIN log : longer[i] = log[i]
  OBVIOUS
<1> HIDE DEF longer
<1>2. \A start, length : Span(longer, caller, route, start, length) = Span(log, caller, route, start, length)
  BY <1>1 DEF Span
<1>3. \A i \in DOMAIN longer : Of(longer[i], caller, route) => i \in DOMAIN log /\ longer[i] = log[i]
  BY <1>1
<1>4. \A i \in DOMAIN longer : Of(longer[i], caller, route) => longer[i].at < until /\ longer[i].at <= now
  BY <1>3 DEF WindowInv
<1> QED BY <1>2, <1>4 DEF WindowInv, longer

\* A request that is counted as one of those within the limit.
LEMMA OneAdmitted ==
  ASSUME NEW log \in Seq(Admission), NEW caller, NEW route, NEW window, IsWindow(window),
         NEW count \in Nat, count < window.limit, NEW until \in Int, NEW now \in Nat, now < until,
         WindowInv(log, caller, route, window, count, until, now),
         NEW entry \in Admission, Of(entry, caller, route), entry.at = now
  PROVE  WindowInv(Append(log, entry), caller, route, window, count + 1, until, now)
<1> DEFINE longer == Append(log, entry)
           L == window.windowSeconds
           N == window.limit
           new == Len(log) + 1
<1>1. /\ DOMAIN longer = DOMAIN log \cup {new} /\ new \notin DOMAIN log
      /\ longer[new] = entry /\ \A i \in DOMAIN log : longer[i] = log[i]
      /\ longer \in Seq(Admission)
  OBVIOUS
<1>2. L \in Nat /\ N \in Nat /\ L > 0
  BY DEF IsWindow
<1>3. /\ \A i \in DOMAIN log : log[i].at \in Nat
      /\ \A i \in DOMAIN longer : longer[i].at \in Nat
  BY <1>1, AdmittedAt
<1> HIDE DEF longer, new, L, N
<1> PICK begin \in Int : begin = until - L
  BY <1>2
<1> PICK before \in Int : before = begin - L
  BY <1>2
<1>4. /\ begin <= now /\ begin + L = until
      /\ Cardinality(Span(log, caller, route, begin, L)) <= count
      /\ Cardinality(Span(log, caller, route, before, L)) <= N
      /\ \A start \in Int : Cardinality(Span(log, caller, route, start, L)) <= 2 * N
      /\ \A i \in DOMAIN log : Of(log[i], caller, route) => log[i].at < until /\ log[i].at <= now
  BY <1>2 DEF WindowInv, L, N
<1>5. ASSUME NEW start \in Int, start > now \/ start + L <= now
      PROVE  Span(longer, caller, route, start, L) = Span(log, caller, route, start, L)
  BY <1>1, <1>2, <1>3, <1>5, SMTT(30) DEF Span
<1>6. ASSUME NEW start \in Int, start <= now, now < start + L
      PROVE  /\ Span(longer, caller, route, start, L) = Span(log, caller, route, start, L) \cup {new}
             /\ Cardinality(Span(longer, caller, route, start, L))
                  = Cardinality(Span(log, caller, route, start, L)) + 1
  <2>1. Span(longer, caller, route, start, L) = Span(log, caller, route, start, L) \cup {new}
    BY <1>1, <1>2, <1>3, <1>6 DEF Span
  <2>2. new \notin Span(log, caller, route, start, L)
    BY <1>1 DEF Span
  <2> QED BY <2>1, <2>2, SpanFinite, FS_AddElement
<1>7. Cardinality(Span(longer, caller, route, begin, L)) <= count + 1
  <2>1. Cardinality(Span(log, caller, route, begin, L)) \in Nat
    BY SpanFinite
  <2> QED BY <1>2, <1>4, <1>6, <2>1
<1>8. Cardinality(Span(longer, caller, route, before, L)) <= N
  BY <1>2, <1>4, <1>5, SMTT(30)
<1>9. ASSUME NEW start \in Int PROVE Cardinality(Span(longer, caller, route, start, L)) <= 2 * N
  <2>1. CASE start > now \/ start + L <= now
    BY <1>4, <1>5, <2>1
  <2>2. CASE ~(start > now \/ start + L <= now)
    <3> DEFINE here == Span(longer, caller, route, begin, L)
               there == Span(longer, caller, route, before, L)
    <3>1. \A i \in DOMAIN longer : Of(longer[i], caller, route) => longer[i].at <= now /\ longer[i].at < until
      BY <1>1, <1>3, <1>4
    <3>2. Span(longer, caller, route, start, L) \subseteq here \cup there
      BY <1>2, <1>3, <1>4, <2>2, <3>1 DEF Span
    <3>3. /\ IsFiniteSet(here) /\ IsFiniteSet(there) /\ Cardinality(here) \in Nat /\ Cardinality(there) \in Nat
          /\ Cardinality(Span(longer, caller, route, start, L)) \in Nat
      BY <1>1, SpanFinite
    <3>4. Cardinality(here) <= N /\ Cardinality(there) <= N
      <4>1. count + 1 <= N
        BY <1>2 DEF N
      <4> QED BY <1>2, <1>7, <1>8, <3>3, <4>1
    <3> HIDE DEF here, there
    <3>5. /\ IsFiniteSet(here \cup there)
          /\ Cardinality(here \cup there) = Cardinality(here) + Cardinality(there) - Cardinality(here \cap there)
          /\ Cardinality(here \cap there) \in Nat
      <4>1. IsFiniteSet(here \cap there)
        BY <3>3, FS_Subset
      <4> QED BY <3>3, <4>1, FS_Union, FS_CardinalityType
    <3>6. Cardinality(Span(longer, caller, route, start, L)) <= Cardinality(here \cup there)
      BY <3>2, <3>5, FS_Subset
    <3> QED BY <1>2, <3>3, <3>4, <3>5, <3>6
  <2> QED BY <2>1, <2>2
<1>10. \A i \in DOMAIN longer : Of(longer[i], caller, route) => longer[i].at < until /\ longer[i].at <= now
  BY <1>1, <1>4
<1>11. Cardinality(Span(longer, caller, route, begin, L)) <= N
  <2>1. count + 1 <= N /\ Cardinality(Span(longer, caller, route, begin, L)) \in Nat
    BY <1>1, <1>2, SpanFinite, SMTT(30) DEF N
  <2> QED BY <1>2, <1>7, <2>1
<1>12. \A start \in {until - L, (until - L) - L} : Cardinality(Span(longer, caller, route, start, L)) <= N
  BY <1>8, <1>11
<1>13. until - L <= now /\ Cardinality(Span(longer, caller, route, until - L, L)) <= count + 1
  BY <1>4, <1>7
<1>14. count + 1 \in Nat
  OBVIOUS
<1> QED BY <1>9, <1>10, <1>12, <1>13, <1>14 DEF WindowInv, longer, L, N

\* A window on the clock ends at a multiple of its length.
LEMMA WindowOnTheClock ==
  ASSUME NEW length \in Nat, length > 0, NEW now \in Nat, NEW k \in Nat, k * length <= now
  PROVE  \E n \in Nat : /\ (now \div length + 1) * length = n * length
                        /\ k * length <= n * length - length
                        /\ n * length - length <= now /\ now < n * length /\ n * length \in Nat
<1> DEFINE q == now \div length
<1>1. q \in Nat /\ q * length <= now /\ now < (q + 1) * length
  OBVIOUS
<1> HIDE DEF q
<1> PICK n \in Nat : n = q + 1
  BY <1>1
<1>2. n * length = q * length + length
  BY <1>1
<1>3. k <= q
  <2> SUFFICES ASSUME ~(k <= q) PROVE FALSE
    OBVIOUS
  <2>1. q + 1 <= k
    BY <1>1
  <2>2. (q + 1) * length <= k * length
    BY <1>1, <2>1
  <2> QED BY <1>1, <2>2
<1>4. k * length <= q * length
  BY <1>1, <1>3
<1>5. n * length \in Nat /\ q * length \in Nat /\ k * length \in Nat
  BY <1>1
<1> QED BY <1>1, <1>2, <1>4, <1>5 DEF q

\* A multiple of a window's length.
OnTheClock(until, length) == \E k \in Nat : until = k * length

Counter == [count : Nat, until : Nat]

\* The windows of the Redis store are those of the clock.
CounterInv(caller, route, name) ==
  LET window  == Policy[route][name]
      counter == counters[<<caller, route, name>>]
  IN /\ WindowInv(admissions, caller, route, window, counter.count, counter.until, clock)
     /\ limitStore = "redis" => OnTheClock(counter.until, window.windowSeconds)

(***************************************************************************)
(* The inductive invariant.  Two windows overlap any span of a window's    *)
(* length, so the bound follows once neither the window that is counted    *)
(* nor the one before it can have let more than its limit pass.            *)
(***************************************************************************)
LimiterInv ==
  /\ clock \in Nat /\ limitStore \in {"memory", "redis"}
  /\ admissions \in Seq(Admission)
  /\ counters \in [Windows -> Counter]
  /\ \A caller \in Callers, route \in Routes, name \in Names : CounterInv(caller, route, name)

\* Limits and windows are positive integers, as the configuration is parsed (validateConfig).
LEMMA PolicyTyped ==
  ASSUME NEW route \in Routes, NEW name \in Names
  PROVE  IsWindow(Policy[route][name])
BY RateLimiterAssumption DEF validateConfig, IsWindow

Entered(caller, route) == [caller |-> caller, route |-> route, at |-> clock]

\* A request counted in a window: the window as it is, or a new one.
Counted(caller, route, name, counter) ==
  LET window == Policy[route][name]
  IN /\ counter \in Counter
     /\ WindowInv(admissions, caller, route, window, counter.count, counter.until, clock)
     /\ counter.count <= window.limit =>
          WindowInv(Append(admissions, Entered(caller, route)), caller, route, window,
                    counter.count, counter.until, clock)
     /\ limitStore = "redis" => OnTheClock(counter.until, window.windowSeconds)

\* Either store's incrementAndGet counts a request in the window that runs, or begins one
\* where the last has ended.
LEMMA WindowCounts ==
  ASSUME LimiterInv, NEW caller \in Callers, NEW route \in Routes, NEW name \in Names
  PROVE  Counted(caller, route, name,
                 incrementAndGet(<<caller, route, name>>, Policy[route][name].windowSeconds))
<1> DEFINE window == Policy[route][name]
           L == window.windowSeconds
           w == <<caller, route, name>>
           old == counters[w]
           new == incrementAndGet(w, L)
           entry == Entered(caller, route)
<1>1. /\ IsWindow(window) /\ L \in Nat /\ L > 0 /\ window.limit \in Nat /\ clock \in Nat
      /\ limitStore \in {"memory", "redis"} /\ admissions \in Seq(Admission)
  BY PolicyTyped DEF LimiterInv, IsWindow
<1>2. old \in Counter /\ old.count \in Nat /\ old.until \in Nat
  <2>1. w \in Windows
    BY DEF Windows
  <2>2. old \in Counter
    BY <2>1 DEF LimiterInv
  <2> QED BY <2>2 DEF Counter
<1>3. /\ WindowInv(admissions, caller, route, window, old.count, old.until, clock)
      /\ limitStore = "redis" => OnTheClock(old.until, L)
  BY DEF LimiterInv, CounterInv
<1>4. entry \in Admission /\ Of(entry, caller, route) /\ entry.at = clock
  BY <1>1 DEF Admission, Of, Entered
<1>5. new = IF old.until > clock THEN [old EXCEPT !.count = @ + 1]
            ELSE IF limitStore = "memory" THEN [count |-> 1, until |-> clock + L]
            ELSE [count |-> 1, until |-> (clock \div L + 1) * L]
  BY DEF incrementAndGet, InMemoryRateLimitStore, RedisRateLimitStore
<1> SUFFICES Counted(caller, route, name, new)
  OBVIOUS
<1> HIDE DEF window, L, old, new, entry
<1>6. ASSUME NEW n \in Nat, NEW until \in Nat, clock < until, new.count = n + 1, new.until = until,
             new \in Counter,
             WindowInv(admissions, caller, route, window, n, until, clock),
             limitStore = "redis" => OnTheClock(until, L)
      PROVE  Counted(caller, route, name, new)
  <2> PICK m \in Nat : m = n + 1
    OBVIOUS
  <2>1. WindowInv(admissions, caller, route, window, m, until, clock)
    BY <1>1, <1>6, WindowGoesOn
  <2>2. ASSUME m <= window.limit
        PROVE  WindowInv(Append(admissions, entry), caller, route, window, m, until, clock)
    <3>1. n < window.limit
      BY <1>1, <2>2
    <3>2. WindowInv(Append(admissions, entry), caller, route, window, n + 1, until, clock)
      BY <1>1, <1>4, <1>6, <3>1, OneAdmitted
    <3> QED BY <3>2
  <2> QED BY <1>6, <2>1, <2>2 DEF Counted, window, L, entry
<1>7. CASE old.until > clock
  <2>1. new = [old EXCEPT !.count = old.count + 1]
    BY <1>5, <1>7
  <2>2. new \in Counter /\ new.count = old.count + 1 /\ new.until = old.until
    BY <1>2, <2>1 DEF Counter
  <2> QED BY <1>1, <1>2, <1>3, <1>6, <1>7, <2>2
<1>8. ASSUME ~(old.until > clock), NEW next \in Nat, new = [count |-> 1, until |-> next],
             old.until <= next - L, next - L <= clock, clock < next,
             limitStore = "redis" => OnTheClock(next, L)
      PROVE  Counted(caller, route, name, new)
  <2>1. WindowInv(admissions, caller, route, window, 0, next, clock)
    BY <1>1, <1>2, <1>3, <1>8, WindowBegins DEF L
  <2>2. new \in Counter /\ new.count = 0 + 1 /\ new.until = next
    BY <1>8 DEF Counter
  <2> QED BY <1>6, <1>8, <2>1, <2>2
<1>9. CASE ~(old.until > clock) /\ limitStore = "memory"
  <2> PICK next \in Nat : next = clock + L
    BY <1>1
  <2>1. new = [count |-> 1, until |-> next]
    BY <1>5, <1>9
  <2>2. old.until <= next - L /\ next - L <= clock /\ clock < next /\ limitStore # "redis"
    BY <1>1, <1>2, <1>9
  <2> QED BY <1>8, <1>9, <2>1, <2>2
<1>10. CASE ~(old.until > clock) /\ limitStore = "redis"
  <2>1. PICK k \in Nat : old.until = k * L
    BY <1>3, <1>10 DEF OnTheClock
  <2>2. k * L <= clock
    BY <1>1, <1>2, <1>10, <2>1
  <2>3. PICK n \in Nat : /\ (clock \div L + 1) * L = n * L
                        /\ k * L <= n * L - L /\ n * L - L <= clock /\ clock < n * L /\ n * L \in Nat
    BY <1>1, <2>2, WindowOnTheClock
  <2> PICK next \in Nat : next = n * L
    BY <2>3
  <2>4. new = [count |-> 1, until |-> next]
    BY <1>5, <1>10, <2>3
  <2>5. old.until <= next - L /\ next - L <= clock /\ clock < next
    BY <2>1, <2>3
  <2>6. OnTheClock(next, L)
    BY DEF OnTheClock
  <2> QED BY <1>8, <1>10, <2>4, <2>5, <2>6
<1> QED BY <1>1, <1>7, <1>9, <1>10

\* A request that passes counts in both windows, one that is refused or fails in both, in one
\* or in none.
LimiterChange(caller, route) ==
  /\ limitStore' = limitStore /\ clock' = clock
  /\ counters' \in [Windows -> Counter]
  /\ \A w \in Windows : w \notin {<<caller, route, name>> : name \in Names} => counters'[w] = counters[w]
  /\ \/ /\ admissions' = Append(admissions, Entered(caller, route))
        /\ \A name \in Names :
             /\ Counted(caller, route, name, counters'[<<caller, route, name>>])
             /\ counters'[<<caller, route, name>>].count <= Policy[route][name].limit
     \/ /\ admissions' = admissions
        /\ \A name \in Names :
             \/ Counted(caller, route, name, counters'[<<caller, route, name>>])
             \/ counters'[<<caller, route, name>>] = counters[<<caller, route, name>>]

\* evaluateRoute counts the burst window first and the sustained one only when the burst
\* window lets the request pass; a store that fails leaves either count behind.
LEMMA RequestCounts ==
  ASSUME LimiterInv, NEW caller \in Callers, NEW route \in Routes, UNCHANGED clock,
         admit(caller, route) \/ refuse(caller, route) \/ limiterFails(caller, route)
  PROVE  LimiterChange(caller, route)
<1> DEFINE b == <<caller, route, "burst">>
           s == <<caller, route, "sustained">>
           burst == incrementAndGet(b, Policy[route]["burst"].windowSeconds)
           sustained == incrementAndGet(s, Policy[route]["sustained"].windowSeconds)
           passes == burst.count <= Policy[route]["burst"].limit
           both == [[counters EXCEPT ![b] = burst]
                      EXCEPT ![s] = IF passes THEN sustained ELSE counters[s]]
           one == [counters EXCEPT ![b] = burst]
<1>1. /\ Counted(caller, route, "burst", burst) /\ Counted(caller, route, "sustained", sustained)
      /\ burst \in Counter /\ sustained \in Counter
  BY WindowCounts DEF Names, Counted
<1>2. /\ evaluateRoute(caller, route).counters = both
      /\ evaluateRoute(caller, route).limited
           = (~passes \/ sustained.count > Policy[route]["sustained"].limit)
  BY DEF evaluateRoute
<1>3. counters \in [Windows -> Counter] /\ b \in Windows /\ s \in Windows /\ b # s
  BY DEF LimiterInv, Windows, Names
<1>4. \A name \in Names : name = "burst" \/ name = "sustained"
  BY DEF Names
<1>5. /\ Policy[route]["sustained"].limit \in Nat /\ Policy[route]["burst"].limit \in Nat
      /\ burst.count \in Nat /\ sustained.count \in Nat
  BY <1>1, PolicyTyped DEF Names, IsWindow, Counter
<1> HIDE DEF burst, sustained, passes, b, s
<1>6. /\ both \in [Windows -> Counter] /\ both[b] = burst
      /\ both[s] = IF passes THEN sustained ELSE counters[s]
      /\ \A w \in Windows : w # b /\ w # s => both[w] = counters[w]
  BY <1>1, <1>3
<1>7. /\ one \in [Windows -> Counter] /\ one[b] = burst /\ one[s] = counters[s]
      /\ \A w \in Windows : w # b /\ w # s => one[w] = counters[w]
  BY <1>1, <1>3
<1> HIDE DEF both, one
<1>8. \A w : w \notin {<<caller, route, name>> : name \in Names} => w # b /\ w # s
  BY DEF Names, b, s
<1>9. CASE admit(caller, route)
  <2>1. /\ counters' = both /\ passes /\ ~(sustained.count > Policy[route]["sustained"].limit)
        /\ admissions' = Append(admissions, Entered(caller, route)) /\ limitStore' = limitStore
    BY <1>2, <1>9 DEF admit, Entered
  <2>2. /\ counters'[b] = burst /\ counters'[s] = sustained
        /\ burst.count <= Policy[route]["burst"].limit
        /\ sustained.count <= Policy[route]["sustained"].limit
    BY <1>5, <1>6, <2>1 DEF passes
  <2>3. ASSUME NEW name \in Names
        PROVE  /\ Counted(caller, route, name, counters'[<<caller, route, name>>])
               /\ counters'[<<caller, route, name>>].count <= Policy[route][name].limit
    BY <1>1, <1>4, <2>2 DEF b, s
  <2> QED BY <1>6, <1>8, <2>1, <2>3 DEF LimiterChange
<1>10. ASSUME counters' \in {both, one, counters}, UNCHANGED <<limitStore, admissions>>
       PROVE  LimiterChange(caller, route)
  <2>1. /\ counters' \in [Windows -> Counter]
        /\ counters'[b] = burst \/ counters'[b] = counters[b]
        /\ counters'[s] = sustained \/ counters'[s] = counters[s]
        /\ \A w \in Windows : w # b /\ w # s => counters'[w] = counters[w]
    BY <1>3, <1>6, <1>7, <1>10
  <2>2. ASSUME NEW name \in Names
        PROVE  \/ Counted(caller, route, name, counters'[<<caller, route, name>>])
               \/ counters'[<<caller, route, name>>] = counters[<<caller, route, name>>]
    BY <1>1, <1>4, <2>1 DEF b, s
  <2> QED BY <1>8, <1>10, <2>1, <2>2 DEF LimiterChange
<1>11. CASE refuse(caller, route)
  BY <1>2, <1>10, <1>11 DEF refuse
<1>12. CASE limiterFails(caller, route)
  <2>1. counters' = counters \/ counters' = one
    BY <1>12 DEF limiterFails, one, burst, b
  <2> QED BY <1>10, <1>12, <2>1 DEF limiterFails
<1> QED BY <1>9, <1>11, <1>12

\* Every request, and every second, keeps the windows as LimiterInv describes them.
LEMMA LimiterInvInductive == LimiterInv /\ [LimiterNext]_limiterAndClock => LimiterInv'
<1> SUFFICES ASSUME LimiterInv, [LimiterNext]_limiterAndClock
             PROVE  LimiterInv'
  OBVIOUS
<1>1. clock \in Nat /\ admissions \in Seq(Admission) /\ counters \in [Windows -> Counter]
  BY DEF LimiterInv
<1>2. ASSUME NEW caller \in Callers, NEW route \in Routes, NEW name \in Names
      PROVE  /\ counters[<<caller, route, name>>].count \in Nat
             /\ counters[<<caller, route, name>>].until \in Nat
             /\ IsWindow(Policy[route][name])
             /\ CounterInv(caller, route, name)
  <2>1. <<caller, route, name>> \in Windows
    BY DEF Windows
  <2>2. counters[<<caller, route, name>>] \in Counter
    BY <1>1, <2>1
  <2> QED BY <2>2, PolicyTyped DEF Counter, LimiterInv
<1>3. CASE LimiterStep /\ UNCHANGED clock
  <2>1. PICK caller \in Callers, route \in Routes : LimiterChange(caller, route)
    BY <1>3, RequestCounts DEF LimiterStep
  <2>2. admissions' \in Seq(Admission) /\ Entered(caller, route) \in Admission
    <3>1. Entered(caller, route) \in Admission
      BY <1>1 DEF Entered, Admission
    <3> QED BY <1>1, <2>1, <3>1 DEF LimiterChange
  <2>3. ASSUME NEW other \in Callers, NEW way \in Routes, NEW name \in Names
        PROVE  CounterInv(other, way, name)'
    <3> DEFINE w == <<other, way, name>>
    <3>1. w \in Windows
      BY DEF Windows
    <3>2. CASE other = caller /\ way = route
      <4>1. \/ Counted(other, way, name, counters'[w]) /\ admissions' = admissions
            \/ Counted(other, way, name, counters'[w]) /\ counters'[w].count <= Policy[way][name].limit
               /\ admissions' = Append(admissions, Entered(other, way))
            \/ counters'[w] = counters[w] /\ admissions' = admissions
        BY <2>1, <3>2 DEF LimiterChange
      <4>2. clock' = clock /\ limitStore' = limitStore
        BY <2>1 DEF LimiterChange
      <4> QED BY <1>2, <4>1, <4>2 DEF Counted, CounterInv
    <3>3. CASE ~(other = caller /\ way = route)
      <4>1. counters'[w] = counters[w] /\ clock' = clock /\ limitStore' = limitStore
        <5>1. w \notin {<<caller, route, any>> : any \in Names}
          BY <3>3
        <5> QED BY <2>1, <3>1, <5>1 DEF LimiterChange
      <4>2. ~Of(Entered(caller, route), other, way)
        BY <3>3 DEF Of, Entered
      <4>3. admissions' = admissions \/ admissions' = Append(admissions, Entered(caller, route))
        BY <2>1 DEF LimiterChange
      <4> DEFINE counter == counters[w]
      <4>4. /\ WindowInv(admissions, other, way, Policy[way][name], counter.count, counter.until, clock)
            /\ counter.count \in Nat /\ counter.until \in Int
        BY <1>2 DEF CounterInv
      <4> HIDE DEF counter
      <4>5. WindowInv(admissions', other, way, Policy[way][name], counter.count, counter.until, clock)
        BY <1>1, <1>2, <2>2, <4>2, <4>3, <4>4, OthersAdmitted
      <4> QED BY <1>2, <4>1, <4>5 DEF CounterInv, counter
    <3> QED BY <3>2, <3>3
  <2> QED BY <2>1, <2>2, <2>3 DEF LimiterInv, LimiterChange
<1>4. CASE UNCHANGED limiterVars /\ clock' \in {clock, clock + 1}
  <2> PICK later \in Nat : later = clock'
    BY <1>1, <1>4
  <2>1. clock <= later
    BY <1>1, <1>4
  <2>2. ASSUME NEW caller \in Callers, NEW route \in Routes, NEW name \in Names
        PROVE  CounterInv(caller, route, name)'
    <3> DEFINE counter == counters[<<caller, route, name>>]
    <3>1. counter.count \in Nat /\ counter.until \in Int /\ counter.count <= counter.count
      BY <1>2
    <3>2. WindowInv(admissions, caller, route, Policy[route][name], counter.count, counter.until, clock)
      BY <1>2 DEF CounterInv
    <3> HIDE DEF counter
    <3>3. WindowInv(admissions, caller, route, Policy[route][name], counter.count, counter.until, later)
      BY <1>1, <1>2, <2>1, <3>1, <3>2, WindowGoesOn
    <3> QED BY <1>2, <1>4, <3>3 DEF CounterInv, counter, limiterVars
  <2> QED BY <1>1, <1>4, <2>2 DEF LimiterInv, limiterVars
<1> QED BY <1>3, <1>4 DEF LimiterNext, limiterAndClock, tick

\* The service starts with empty windows, in whichever store it chose.
LEMMA LimiterInvInitially == ClockInit /\ LimiterInit => LimiterInv
<1> SUFFICES ASSUME ClockInit, LimiterInit
             PROVE  LimiterInv
  OBVIOUS
<1>1. clock = 1 /\ limitStore \in {"memory", "redis"} /\ admissions = <<>>
      /\ counters = [w \in Windows |-> [count |-> 0, until |-> 0]]
  BY DEF ClockInit, LimiterInit, chooseStore
<1>2. counters \in [Windows -> Counter] /\ admissions \in Seq(Admission)
  BY <1>1 DEF Counter
<1>3. ASSUME NEW caller \in Callers, NEW route \in Routes, NEW name \in Names
      PROVE  CounterInv(caller, route, name)
  <2> DEFINE window == Policy[route][name]
  <2>1. /\ window.limit \in Nat /\ window.limit > 0
        /\ window.windowSeconds \in Nat /\ window.windowSeconds > 0
    BY PolicyTyped DEF IsWindow
  <2>2. counters[<<caller, route, name>>] = [count |-> 0, until |-> 0]
    BY <1>1 DEF Windows
  <2> HIDE DEF window
  <2>3. \A start, length : Span(admissions, caller, route, start, length) = {}
    BY <1>1 DEF Span
  <2>4. Cardinality({}) = 0
    BY FS_EmptySet
  <2>5. \A start, length : Cardinality(Span(admissions, caller, route, start, length)) = 0
    BY <2>3, <2>4
  <2>6. 0 - window.windowSeconds <= clock
    BY <1>1, <2>1
  <2>7. WindowInv(admissions, caller, route, window, 0, 0, clock)
    BY <1>1, <2>1, <2>5, <2>6 DEF WindowInv
  <2>8. 0 = 0 * window.windowSeconds
    BY <2>1
  <2> QED BY <2>2, <2>7, <2>8 DEF CounterInv, OnTheClock, window
<1> QED BY <1>1, <1>2, <1>3 DEF LimiterInv

(***************************************************************************)
(* Whatever the limits, and whoever asks how often: in any span as long as *)
(* a window, wherever it begins, at most twice the limit of the window     *)
(* passes the limiter, with the windows of the in-memory store, which      *)
(* begin at a request, as with those of Redis, which the clock begins      *)
(* (evaluateRoute and both incrementAndGet).                               *)
(***************************************************************************)
THEOREM AdmittedBoundHolds == LimiterSpec => []AdmittedBound
<1>1. LimiterInv => AdmittedBound
  <2> SUFFICES ASSUME LimiterInv, NEW caller \in Callers, NEW route \in Routes, NEW name \in Names,
                      NEW start \in 1 .. clock
               PROVE  Cardinality({i \in DOMAIN admissions :
                        /\ admissions[i].caller = caller /\ admissions[i].route = route
                        /\ admissions[i].at \in start .. start + Policy[route][name].windowSeconds - 1})
                          <= 2 * Policy[route][name].limit
    BY DEF AdmittedBound
  <2> DEFINE window == Policy[route][name]
  <2>1. window.windowSeconds \in Nat /\ start \in Int
    BY PolicyTyped DEF IsWindow, LimiterInv
  <2>2. Cardinality(Span(admissions, caller, route, start, window.windowSeconds)) <= 2 * window.limit
    BY <2>1 DEF LimiterInv, CounterInv, WindowInv
  <2>3. \A i \in DOMAIN admissions : admissions[i].at \in Nat
    BY AdmittedAt DEF LimiterInv
  <2> HIDE DEF window
  <2>4. Span(admissions, caller, route, start, window.windowSeconds) =
          {i \in DOMAIN admissions :
             /\ admissions[i].caller = caller /\ admissions[i].route = route
             /\ admissions[i].at \in start .. start + window.windowSeconds - 1}
    BY <2>1, <2>3 DEF Span, Of
  <2> QED BY <2>2, <2>4 DEF window
<1> QED BY <1>1, LimiterInvInitially, LimiterInvInductive, PTL DEF LimiterSpec

-------------------------------------------------------------------------------
(* The pages of the governance queue *)

pagesAndClock == <<pagesVars, clock>>

PagesNext ==
  \/ PagesStep /\ UNCHANGED clock
  \/ tick /\ UNCHANGED pagesVars

PagesSpec == ClockInit /\ PagesInit /\ [][PagesNext]_pagesAndClock

USE DEF pagesVars, pagesAndClock

StoredAction ==
  [category : GOVERNANCE_ACTION_CATEGORIES, status : GOVERNANCE_ACTION_STATUSES,
   tradeId : {None}, createdAt : Int]

ShownAction ==
  [actionId : ActionIds, category : GOVERNANCE_ACTION_CATEGORIES,
   status : GOVERNANCE_ACTION_STATUSES, tradeId : {None}, createdAt : Int]

PageCursor == [createdAt : Int, actionId : ActionIds]

PagesTypes ==
  /\ clock \in Int
  /\ actions \in [ActionIds -> StoredAction \cup {None}]
  /\ walk \in [pc : {"idle", "paging", "done"}, query : Queries \cup {None},
               cursor : PageCursor \cup {None}, shown : Seq(ShownAction),
               stable : SUBSET ActionIds]
  /\ walk.pc # "idle" => ValidQuery(walk.query)

\* What was shown is in order, and the cursor is at its end.
ShownInOrder ==
  /\ \A i, j \in DOMAIN walk.shown : i < j => Newer(walk.shown[i], walk.shown[j])
  /\ walk.pc = "paging" =>
       \/ walk.shown = <<>> /\ walk.cursor = None
       \/ walk.shown # <<>> /\ walk.cursor = CursorAt(walk.shown[Len(walk.shown)])

HasShown(id) == \E i \in DOMAIN walk.shown : walk.shown[i].actionId = id

\* An action that met the filter all along was shown, or comes after the cursor.
StableIsAhead ==
  \A id \in walk.stable :
    /\ get(id) # None /\ Meets(mapRow(id), walk.query)
    /\ \/ HasShown(id)
       \/ walk.pc = "paging" /\ (walk.cursor # None => Newer(walk.cursor, mapRow(id)))

(***************************************************************************)
(* The inductive invariant: the walk has shown what is ahead of its cursor *)
(* and still met the filter, newest first, and what is not shown is behind *)
(* the cursor, wherever rows are inserted.                                 *)
(***************************************************************************)
PagesInv == PagesTypes /\ ShownInOrder /\ StableIsAhead

NewerRows == {p \in Rows \X Rows : Newer(p[1], p[2])}

LEMMA RowTypes ==
  ASSUME PagesTypes
  PROVE  /\ Rows \subseteq ShownAction
         /\ IsFiniteSet(Rows)
         /\ \A id \in ActionIds : get(id) # None => mapRow(id) \in Rows /\ mapRow(id).actionId = id
         /\ \A row \in Rows : row.actionId \in ActionIds /\ get(row.actionId) # None
                              /\ row = mapRow(row.actionId)
<1>1. ASSUME NEW id \in ActionIds, get(id) # None
      PROVE  mapRow(id) \in ShownAction /\ mapRow(id).actionId = id
  <2>1. actions[id] \in StoredAction
    BY <1>1 DEF PagesTypes, get
  <2> QED
    BY <2>1 DEF StoredAction, ShownAction, mapRow, get
<1>2. \A row \in Rows : \E id \in ActionIds : get(id) # None /\ row = mapRow(id)
  BY DEF Rows
<1>3. \A id \in ActionIds : get(id) # None => mapRow(id) \in Rows
  BY DEF Rows
<1>4. Rows \subseteq ShownAction
  BY <1>1, <1>2
<1>5. IsFiniteSet(Rows)
  <2> DEFINE f == [row \in Rows |-> row.actionId]
  <2>1. f \in Injection(Rows, ActionIds)
    BY <1>1, <1>2 DEF Injection, IsInjective
  <2>2. IsFiniteSet(ActionIds)
    BY PagesAssumption
  <2> HIDE DEF f
  <2> QED
    BY <2>1, <2>2, FS_Injection
<1> QED
  BY <1>1, <1>2, <1>3, <1>4, <1>5

LEMMA NewerIsAnOrder ==
  ASSUME PagesTypes, NEW S \in SUBSET Rows
  PROVE  StrictOrder(S, NewerRows) /\ IsFiniteSet(S)
<1>1. \A row \in Rows : row.createdAt \in Int /\ row.actionId \in Nat
  BY RowTypes, PagesAssumption DEF ShownAction
<1>2. \A x, y \in Rows : <<x, y>> \in NewerRows <=> Newer(x, y)
  BY DEF NewerRows
<1>3. \A x, y \in Rows : x.actionId = y.actionId => x = y
  BY RowTypes
<1>4. StrictOrder(Rows, NewerRows)
  <2>1. \A x \in Rows : ~Newer(x, x)
    BY <1>1 DEF Newer
  <2>2. \A x, y, z \in Rows : Newer(x, y) /\ Newer(y, z) => Newer(x, z)
    BY <1>1 DEF Newer
  <2>3. \A x, y \in Rows : x = y \/ Newer(x, y) \/ Newer(y, x)
    BY <1>1, <1>3 DEF Newer
  <2> QED
    BY <1>2, <2>1, <2>2, <2>3 DEF StrictOrder
<1> QED
  BY <1>4, OrderWithin, RowTypes, FS_Subset

LEMMA OrderedRows ==
  ASSUME PagesTypes, NEW S \in SUBSET Rows
  PROVE  Ordered(S, Newer) = InOrder(S, NewerRows)
<1>1. \A x \in S : {y \in S : Newer(y, x)} = Ahead(x, S, NewerRows)
  BY DEF Ahead, NewerRows
<1>2. \A i : (CHOOSE x \in S : Cardinality({y \in S : Newer(y, x)}) = i - 1)
               = (CHOOSE x \in S : Rank(x, S, NewerRows) = i - 1)
  BY <1>1 DEF Rank
<1>3. Ordered(S, Newer) = [i \in 1 .. Cardinality(S) |->
         CHOOSE x \in S : Cardinality({y \in S : Newer(y, x)}) = i - 1]
  BY DEF Ordered
<1>4. InOrder(S, NewerRows) = [i \in 1 .. Cardinality(S) |->
         CHOOSE x \in S : Rank(x, S, NewerRows) = i - 1]
  BY DEF InOrder
<1> QED
  BY <1>2, <1>3, <1>4, Zenon

\* The list of some of the rows, and what its places hold.
LEMMA OrderedRowsList ==
  ASSUME PagesTypes, NEW S \in SUBSET Rows
  PROVE  /\ Cardinality(S) \in Nat
         /\ Ordered(S, Newer) \in [1 .. Cardinality(S) -> S]
         /\ \A i, j \in 1 .. Cardinality(S) :
              i < j <=> Newer(Ordered(S, Newer)[i], Ordered(S, Newer)[j])
         /\ \A x \in S : \E i \in 1 .. Cardinality(S) : Ordered(S, Newer)[i] = x
<1> DEFINE l == Ordered(S, Newer)
           n == Cardinality(S)
<1>1. Lists(l, n, S, NewerRows)
  BY OrderedRows, NewerIsAnOrder, InOrderLists
<1> HIDE DEF l, n
<1>2. \A i \in 1 .. n : l[i] \in Rows
  BY <1>1 DEF Lists
<1>3. \A i, j \in 1 .. n : i < j <=> Newer(l[i], l[j])
  BY <1>1, <1>2 DEF Lists, NewerRows
<1>4. \A x \in S : \E i \in 1 .. n : l[i] = x
  BY <1>1 DEF Lists
<1> QED
  BY <1>1, <1>3, <1>4 DEF Lists, l, n

LEMMA FirstOfIs ==
  ASSUME NEW E, NEW rows \in Seq(E), NEW n \in Nat
  PROVE  /\ FirstOf(rows, n) \in Seq(E)
         /\ Len(FirstOf(rows, n)) = IF Len(rows) < n THEN Len(rows) ELSE n
         /\ \A i \in 1 .. Len(FirstOf(rows, n)) : FirstOf(rows, n)[i] = rows[i]
<1> DEFINE k == IF Len(rows) < n THEN Len(rows) ELSE n
<1>1. k \in Nat /\ k <= Len(rows)
  OBVIOUS
<1>2. FirstOf(rows, n) = SubSeq(rows, 1, k)
  BY DEF FirstOf
<1> HIDE DEF k
<1>3. /\ SubSeq(rows, 1, k) \in Seq(E) /\ Len(SubSeq(rows, 1, k)) = k
      /\ \A i \in 1 .. k : SubSeq(rows, 1, k)[i] = rows[i]
  BY <1>1
<1> QED
  BY <1>2, <1>3 DEF k

LEMMA PageIs ==
  ASSUME NEW E, NEW rows \in Seq(E), NEW limit \in Nat \ {0}
  PROVE  /\ Page(rows, limit).items \in Seq(E)
         /\ Len(Page(rows, limit).items) = IF Len(rows) < limit THEN Len(rows) ELSE limit
         /\ \A i \in 1 .. Len(Page(rows, limit).items) : Page(rows, limit).items[i] = rows[i]
         /\ Page(rows, limit).nextCursor
              = IF Len(rows) <= limit THEN None ELSE CursorAt(rows[limit])
<1> DEFINE mapped == FirstOf(rows, limit + 1)
           items == FirstOf(mapped, limit)
<1>1. /\ mapped \in Seq(E)
      /\ Len(mapped) = IF Len(rows) < limit + 1 THEN Len(rows) ELSE limit + 1
      /\ \A i \in 1 .. Len(mapped) : mapped[i] = rows[i]
  <2>1. limit + 1 \in Nat
    OBVIOUS
  <2> QED
    BY <2>1, FirstOfIs
<1> HIDE DEF mapped
<1>2. /\ items \in Seq(E)
      /\ Len(items) = IF Len(mapped) < limit THEN Len(mapped) ELSE limit
      /\ \A i \in 1 .. Len(items) : items[i] = mapped[i]
  BY <1>1, FirstOfIs
<1> HIDE DEF items
<1>3. Page(rows, limit) = [items |-> items, nextCursor |-> nextActionsCursor(mapped, limit)]
  BY DEF Page, mapped, items
<1>4. Len(items) = IF Len(rows) < limit THEN Len(rows) ELSE limit
  BY <1>1, <1>2
<1>5. \A i \in 1 .. Len(items) : items[i] = rows[i]
  BY <1>1, <1>2
<1>6. nextActionsCursor(mapped, limit) = IF Len(rows) <= limit THEN None ELSE CursorAt(rows[limit])
  <2>1. Len(mapped) <= limit <=> Len(rows) <= limit
    BY <1>1
  <2>2. ~(Len(rows) <= limit) => mapped[limit] = rows[limit]
    BY <1>1
  <2> QED
    BY <2>1, <2>2 DEF nextActionsCursor
<1> QED
  BY <1>2, <1>3, <1>4, <1>5, <1>6

\* What a page is taken from: the rows that meet the filter and come after the cursor.
BeyondCursor(query, cursor) ==
  {row \in Rows : Meets(row, query) /\ (cursor # None => Newer(cursor, row))}

LEMMA MeetsAsked ==
  ASSUME NEW row, NEW query, NEW cursor
  PROVE  Meets(row, Asked(query, cursor)) <=> Meets(row, query)
<1>1. \A column \in {"category", "status", "tradeId"} :
        Asked(query, cursor)[column] = query[column]
  BY DEF Asked
<1> QED
  BY <1>1 DEF Meets

LEMMA ListIsPage ==
  ASSUME NEW query, NEW cursor
  PROVE  list(Asked(query, cursor)) = Page(Ordered(BeyondCursor(query, cursor), Newer), parseLimit(query.limit))
<1>1. /\ Asked(query, cursor).cursor = cursor
      /\ Asked(query, cursor).limit = parseLimit(query.limit)
  BY DEF Asked
<1>2. {row \in Rows : /\ Meets(row, Asked(query, cursor))
                      /\ Asked(query, cursor).cursor # None => Newer(Asked(query, cursor).cursor, row)}
        = BeyondCursor(query, cursor)
  BY <1>1, MeetsAsked DEF BeyondCursor
<1> QED
  BY <1>1, <1>2 DEF list

\* A writer touches one row, which keeps its place.
LEMMA WritersKeep ==
  ASSUME PagesInv, PagesTypes', walk' = [walk EXCEPT !.stable = walk'.stable],
         \A id \in walk'.stable :
           /\ id \in walk.stable /\ get(id)' # None
           /\ mapRow(id)'.createdAt = mapRow(id).createdAt
           /\ mapRow(id)'.actionId = mapRow(id).actionId
           /\ Meets(mapRow(id)', walk.query)
  PROVE  PagesInv'
<1>1. /\ walk'.pc = walk.pc /\ walk'.query = walk.query
      /\ walk'.cursor = walk.cursor /\ walk'.shown = walk.shown
  BY DEF PagesInv, PagesTypes
<1>2. ShownInOrder'
  BY <1>1 DEF PagesInv, ShownInOrder
<1>3. StableIsAhead'
  <2> SUFFICES ASSUME NEW id \in walk'.stable
               PROVE  /\ get(id)' # None /\ Meets(mapRow(id), walk.query)'
                      /\ \/ HasShown(id)'
                         \/ /\ walk'.pc = "paging"
                            /\ walk'.cursor # None => Newer(walk'.cursor, mapRow(id)')
    BY DEF StableIsAhead
  <2>1. \/ HasShown(id)
        \/ walk.pc = "paging" /\ (walk.cursor # None => Newer(walk.cursor, mapRow(id)))
    BY DEF PagesInv, StableIsAhead
  <2>2. HasShown(id) => HasShown(id)'
    BY <1>1 DEF HasShown
  <2>3. Newer(walk.cursor, mapRow(id)) => Newer(walk.cursor, mapRow(id)')
    BY DEF Newer
  <2>4. Meets(mapRow(id), walk.query)'
    BY <1>1 DEF Meets
  <2> QED
    BY <1>1, <2>1, <2>2, <2>3, <2>4
<1> QED
  BY <1>2, <1>3 DEF PagesInv

LEMMA queueActionKeeps ==
  ASSUME PagesInv, NEW id \in ActionIds, NEW category \in Categories,
         NEW createdAt \in (clock - MaxDelay) .. clock,
         queueAction(id, category, createdAt), UNCHANGED clock
  PROVE  PagesInv'
<1> DEFINE row == GovernanceActionRow(category, createdAt)
<1>1. /\ actions[id] = None /\ actions' = [actions EXCEPT ![id] = row]
      /\ walk' = walk
  BY DEF queueAction, get, save
<1>2. row \in StoredAction
  <2>1. createdAt \in Int
    BY PagesAssumption DEF PagesInv, PagesTypes
  <2> QED
    BY <2>1, PagesAssumption
       DEF GovernanceActionRow, StoredAction, GOVERNANCE_ACTION_STATUSES
<1> HIDE DEF row
<1>3. PagesTypes'
  BY <1>1, <1>2 DEF PagesInv, PagesTypes
<1>4. ASSUME NEW other \in walk.stable
      PROVE  /\ get(other) # None /\ actions'[other] = actions[other]
             /\ Meets(mapRow(other), walk.query)
  <2>1. other \in ActionIds /\ actions[other] # None /\ Meets(mapRow(other), walk.query)
    BY DEF PagesInv, PagesTypes, StableIsAhead, get
  <2>2. actions \in [ActionIds -> StoredAction \cup {None}]
    BY DEF PagesInv, PagesTypes
  <2> QED
    BY <1>1, <2>1, <2>2 DEF get
<1>5. walk' = [walk EXCEPT !.stable = walk'.stable]
  BY <1>1 DEF PagesInv, PagesTypes
<1>6. ASSUME NEW other \in walk'.stable
      PROVE  /\ other \in walk.stable /\ get(other)' # None
             /\ mapRow(other)' = mapRow(other)
             /\ Meets(mapRow(other)', walk.query)
  <2>1. other \in walk.stable
    BY <1>1
  <2>2. mapRow(other)' = mapRow(other) /\ get(other)' # None
    BY <1>4, <2>1 DEF mapRow, get
  <2> QED
    BY <1>4, <2>1, <2>2
<1> QED
  BY <1>3, <1>5, <1>6, WritersKeep

LEMMA saveActionKeeps ==
  ASSUME PagesInv, NEW id \in ActionIds, NEW status \in Outcomes,
         saveActionWithAudit(id, status), UNCHANGED clock
  PROVE  PagesInv'
<1> DEFINE row == [get(id) EXCEPT !.status = status]
<1>1. /\ get(id) # None /\ actions' = [actions EXCEPT ![id] = row]
      /\ walk' = [walk EXCEPT !.stable =
           {other \in @ : other = id => Meets([mapRow(id) EXCEPT !.status = status], walk.query)}]
  BY DEF saveActionWithAudit, save
<1>2. /\ actions \in [ActionIds -> StoredAction \cup {None}]
      /\ walk.stable \in SUBSET ActionIds
  BY DEF PagesInv, PagesTypes
<1>3. get(id) \in StoredAction
  BY <1>1, <1>2 DEF get
<1>4. row \in StoredAction /\ row.createdAt = get(id).createdAt
  <2>1. status \in GOVERNANCE_ACTION_STATUSES
    BY PagesAssumption
  <2> QED
    BY <1>3, <2>1 DEF StoredAction
<1>5. None \notin StoredAction
  BY PagesAssumption DEF StoredAction
<1>6. walk'.stable = {other \in walk.stable :
        other = id => Meets([mapRow(id) EXCEPT !.status = status], walk.query)}
  BY <1>1 DEF PagesInv, PagesTypes
<1>7. mapRow(id)' = [mapRow(id) EXCEPT !.status = status]
  BY <1>1, <1>2, <1>3 DEF mapRow, get, StoredAction
<1> HIDE DEF row
<1>8. \A other \in ActionIds \ {id} : actions'[other] = actions[other]
  BY <1>1, <1>2
<1>9. actions'[id] = row
  BY <1>1, <1>2
<1>10. PagesTypes'
  <2>1. walk' = [walk EXCEPT !.stable = walk'.stable]
    BY <1>1, <1>6 DEF PagesInv, PagesTypes
  <2>2. walk'.stable \in SUBSET ActionIds
    BY <1>2, <1>6
  <2>3. actions' \in [ActionIds -> StoredAction \cup {None}]
    BY <1>1, <1>2, <1>4
  <2> QED
    BY <2>1, <2>2, <2>3 DEF PagesInv, PagesTypes
<1>11. walk' = [walk EXCEPT !.stable = walk'.stable]
  BY <1>1, <1>6 DEF PagesInv, PagesTypes
<1>12. ASSUME NEW other \in walk'.stable
       PROVE  /\ other \in walk.stable /\ get(other)' # None
              /\ mapRow(other)'.createdAt = mapRow(other).createdAt
              /\ mapRow(other)'.actionId = mapRow(other).actionId
              /\ Meets(mapRow(other)', walk.query)
  <2>1. other \in walk.stable /\ other \in ActionIds
    BY <1>2, <1>6
  <2>2. get(other) # None /\ Meets(mapRow(other), walk.query)
    BY <2>1 DEF PagesInv, StableIsAhead
  <2>3. CASE other = id
    <3>1. Meets(mapRow(other)', walk.query)
      BY <1>6, <1>7, <2>3
    <3>2. get(other)' = row /\ row # None
      BY <1>4, <1>5, <1>9, <2>3 DEF get
    <3> QED
      BY <1>4, <2>1, <2>3, <3>1, <3>2 DEF mapRow
  <2>4. CASE other # id
    <3>1. get(other)' = get(other)
      BY <1>8, <2>1, <2>4 DEF get
    <3>2. mapRow(other)' = mapRow(other)
      BY <3>1 DEF mapRow
    <3> QED
      BY <2>1, <2>2, <3>1, <3>2
  <2> QED
    BY <2>3, <2>4
<1> QED
  BY <1>10, <1>11, <1>12, WritersKeep

LEMMA startWalkKeeps ==
  ASSUME PagesInv, NEW query \in Queries, startWalk(query), UNCHANGED clock
  PROVE  PagesInv'
<1> DEFINE met == {row.actionId : row \in {r \in Rows : Meets(r, query)}}
<1>1. /\ ValidQuery(query) /\ actions' = actions
      /\ walk' = [pc |-> "paging", query |-> query, cursor |-> None, shown |-> <<>>, stable |-> met]
  BY DEF startWalk
<1>2. \A id \in met : /\ id \in ActionIds /\ get(id) # None /\ Meets(mapRow(id), query)
  BY RowTypes DEF PagesInv
<1> HIDE DEF met
<1>3. PagesTypes'
  BY <1>1, <1>2 DEF PagesInv, PagesTypes, ValidQuery, parseLimit
<1>4. ShownInOrder'
  BY <1>1 DEF ShownInOrder
<1>5. StableIsAhead'
  <2>1. \A id \in met : get(id)' # None /\ Meets(mapRow(id), walk.query)'
    BY <1>1, <1>2 DEF get, mapRow, Meets
  <2> QED
    BY <1>1, <2>1 DEF StableIsAhead
<1> QED
  BY <1>3, <1>4, <1>5 DEF PagesInv

\* What the next page is taken from, and its rows.
RowsBeyond == BeyondCursor(walk.query, walk.cursor)
NextRows == Ordered(RowsBeyond, Newer)
NextLimit == parseLimit(walk.query.limit)
NextItems == Page(NextRows, NextLimit).items

LEMMA NextPageIs ==
  ASSUME PagesInv, nextPage
  PROVE  /\ RowsBeyond \subseteq Rows /\ NextLimit \in Nat \ {0} /\ NextRows \in Seq(RowsBeyond) /\ NextItems \in Seq(RowsBeyond)
         /\ Len(NextItems) = IF Len(NextRows) < NextLimit THEN Len(NextRows) ELSE NextLimit
         /\ \A i \in 1 .. Len(NextItems) : NextItems[i] = NextRows[i]
         /\ \A i, j \in 1 .. Len(NextRows) : i < j <=> Newer(NextRows[i], NextRows[j])
         /\ \A x \in RowsBeyond : \E i \in 1 .. Len(NextRows) : NextRows[i] = x
         /\ actions' = actions
         /\ walk.pc = "paging"
         /\ Len(NextRows) <= NextLimit =>
              walk' = [walk EXCEPT !.pc = "done", !.cursor = None, !.shown = walk.shown \o NextItems]
         /\ ~(Len(NextRows) <= NextLimit) =>
              walk' = [walk EXCEPT !.cursor = CursorAt(NextRows[NextLimit]), !.shown = walk.shown \o NextItems]
<1>1. RowsBeyond \subseteq Rows
  BY DEF RowsBeyond, BeyondCursor
<1>2. walk.pc = "paging" /\ actions' = actions
  BY DEF nextPage
<1>3. NextLimit \in Nat \ {0}
  <2>1. ValidQuery(walk.query)
    BY <1>2 DEF PagesInv, PagesTypes
  <2>2. NextLimit \in 1 .. 200
    BY <2>1 DEF ValidQuery, NextLimit
  <2> QED
    BY <2>2
<1>4. /\ NextRows \in Seq(RowsBeyond)
      /\ \A i, j \in 1 .. Len(NextRows) : i < j <=> Newer(NextRows[i], NextRows[j])
      /\ \A x \in RowsBeyond : \E i \in 1 .. Len(NextRows) : NextRows[i] = x
  <2>1. /\ Cardinality(RowsBeyond) \in Nat /\ NextRows \in [1 .. Cardinality(RowsBeyond) -> RowsBeyond]
        /\ \A i, j \in 1 .. Cardinality(RowsBeyond) : i < j <=> Newer(NextRows[i], NextRows[j])
        /\ \A x \in RowsBeyond : \E i \in 1 .. Cardinality(RowsBeyond) : NextRows[i] = x
    BY <1>1, OrderedRowsList DEF PagesInv, NextRows
  <2>2. NextRows \in Seq(RowsBeyond) /\ Len(NextRows) = Cardinality(RowsBeyond)
    BY <2>1
  <2> QED
    BY <2>1, <2>2
<1>5. /\ NextItems \in Seq(RowsBeyond)
      /\ Len(NextItems) = IF Len(NextRows) < NextLimit THEN Len(NextRows) ELSE NextLimit
      /\ \A i \in 1 .. Len(NextItems) : NextItems[i] = NextRows[i]
      /\ Page(NextRows, NextLimit).nextCursor
           = IF Len(NextRows) <= NextLimit THEN None ELSE CursorAt(NextRows[NextLimit])
  BY <1>3, <1>4, PageIs DEF NextItems
<1>6. walk' = [walk EXCEPT
        !.pc = IF Page(NextRows, NextLimit).nextCursor = None THEN "done" ELSE "paging",
        !.cursor = Page(NextRows, NextLimit).nextCursor, !.shown = walk.shown \o NextItems]
  <2>1. list(Asked(walk.query, walk.cursor)) = Page(NextRows, NextLimit)
    BY ListIsPage DEF NextRows, NextLimit, RowsBeyond
  <2> QED
    BY <2>1 DEF nextPage, NextItems
<1>7. ~(Len(NextRows) <= NextLimit) => NextRows[NextLimit] \in Rows /\ CursorAt(NextRows[NextLimit]) # None
  <2> HAVE ~(Len(NextRows) <= NextLimit)
  <2>1. NextRows[NextLimit] \in Rows
    BY <1>1, <1>3, <1>4
  <2>2. CursorAt(NextRows[NextLimit]) \in [createdAt : Int, actionId : Nat]
    BY <2>1, RowTypes, PagesAssumption DEF PagesInv, CursorAt, ShownAction
  <2> QED
    BY <2>1, <2>2, PagesAssumption
<1>8. ~(Len(NextRows) <= NextLimit) =>
        walk' = [walk EXCEPT !.cursor = CursorAt(NextRows[NextLimit]), !.shown = walk.shown \o NextItems]
  <2> HAVE ~(Len(NextRows) <= NextLimit)
  <2>1. walk' = [walk EXCEPT !.pc = "paging", !.cursor = CursorAt(NextRows[NextLimit]),
                             !.shown = walk.shown \o NextItems]
    BY <1>5, <1>6, <1>7
  <2> QED
    BY <1>2, <2>1 DEF PagesInv, PagesTypes
<1> QED
  BY <1>1, <1>2, <1>3, <1>4, <1>5, <1>6, <1>8

\* Where the items of a page of at most n of the rows are.
LEMMA FirstPlaces ==
  ASSUME NEW S, NEW all \in Seq(S), NEW first \in Seq(S), NEW n \in Nat \ {0},
         Len(first) = IF Len(all) < n THEN Len(all) ELSE n,
         \A i \in 1 .. Len(first) : first[i] = all[i]
  PROVE  /\ Len(all) \in Nat /\ Len(first) \in Nat /\ Len(first) <= Len(all)
         /\ \A i \in 1 .. Len(first) : i \in 1 .. Len(all) /\ first[i] = all[i] /\ all[i] \in S
         /\ ~(Len(all) <= n) =>
              n \in 1 .. Len(all) /\ Len(first) = n /\ first[n] = all[n] /\ all[n] \in S
<1>1. Len(all) \in Nat /\ Len(first) \in Nat /\ Len(first) <= Len(all)
  OBVIOUS
<1>2. \A i \in 1 .. Len(first) : i \in 1 .. Len(all)
  BY <1>1
<1>3. \A i \in 1 .. Len(all) : all[i] \in S
  OBVIOUS
<1>4. ~(Len(all) <= n) => n \in 1 .. Len(all) /\ n \in 1 .. Len(first) /\ Len(first) = n
  BY <1>1
<1> QED
  BY <1>1, <1>2, <1>3, <1>4

LEMMA nextPageKeeps ==
  ASSUME PagesInv, nextPage, UNCHANGED clock
  PROVE  PagesInv'
<1> DEFINE S == RowsBeyond
           rows == NextRows
           limit == NextLimit
           items == NextItems
           k == Len(walk.shown)
           last == Len(rows) <= limit
<1>1. /\ S \subseteq Rows /\ limit \in Nat \ {0} /\ rows \in Seq(S) /\ items \in Seq(S)
      /\ Len(items) = IF Len(rows) < limit THEN Len(rows) ELSE limit
      /\ \A i \in 1 .. Len(items) : items[i] = rows[i]
      /\ \A i, j \in 1 .. Len(rows) : i < j <=> Newer(rows[i], rows[j])
      /\ \A x \in S : \E i \in 1 .. Len(rows) : rows[i] = x
      /\ actions' = actions
      /\ walk.pc = "paging"
  BY NextPageIs
<1>2. /\ last => walk' = [walk EXCEPT !.pc = "done", !.cursor = None, !.shown = walk.shown \o items]
      /\ ~last => walk' = [walk EXCEPT !.cursor = CursorAt(rows[limit]),
                                       !.shown = walk.shown \o items]
  BY NextPageIs
<1>3. \A row \in S : Newer(walk.cursor, row) \/ walk.cursor = None
  BY DEF RowsBeyond, BeyondCursor
<1>4. \A row \in Rows : Meets(row, walk.query) /\ row \notin S
        => walk.cursor # None /\ ~Newer(walk.cursor, row)
  BY DEF RowsBeyond, BeyondCursor
<1> HIDE DEF S, rows, limit, items
<1>5. /\ walk.shown \in Seq(ShownAction) /\ walk.stable \in SUBSET ActionIds
      /\ Rows \subseteq ShownAction
      /\ items \in Seq(ShownAction)
      /\ walk.shown \o items \in Seq(ShownAction)
  <2>1. walk.shown \in Seq(ShownAction) /\ walk.stable \in SUBSET ActionIds
    BY DEF PagesInv, PagesTypes
  <2>2. S \subseteq ShownAction /\ Rows \subseteq ShownAction
    BY <1>1, RowTypes DEF PagesInv
  <2>3. items \in Seq(ShownAction)
    BY <1>1, <2>2
  <2> QED
    BY <2>1, <2>2, <2>3
<1>6. \A row \in ShownAction : row.createdAt \in Int /\ row.actionId \in Nat
  BY PagesAssumption DEF ShownAction
<1>7. /\ Len(rows) \in Nat /\ Len(items) <= Len(rows)
      /\ \A p \in 1 .. Len(items) : p \in 1 .. Len(rows) /\ items[p] = rows[p]
      /\ ~last => /\ rows[limit] \in Rows /\ limit \in 1 .. Len(rows)
                  /\ Len(items) = limit /\ items[limit] = rows[limit]
  <2>1. /\ Len(rows) \in Nat /\ Len(items) <= Len(rows)
        /\ \A p \in 1 .. Len(items) : p \in 1 .. Len(rows) /\ items[p] = rows[p]
        /\ ~last => /\ rows[limit] \in S /\ limit \in 1 .. Len(rows)
                    /\ Len(items) = limit /\ items[limit] = rows[limit]
    <3>1. rows \in Seq(S) /\ items \in Seq(S) /\ limit \in Nat \ {0}
      BY <1>1
    <3>2. /\ Len(items) = IF Len(rows) < limit THEN Len(rows) ELSE limit
          /\ \A i \in 1 .. Len(items) : items[i] = rows[i]
      BY <1>1
    <3> HIDE DEF last
    <3>3. /\ Len(rows) \in Nat /\ Len(items) <= Len(rows)
          /\ \A p \in 1 .. Len(items) : p \in 1 .. Len(rows) /\ items[p] = rows[p] /\ rows[p] \in S
          /\ ~(Len(rows) <= limit) =>
               limit \in 1 .. Len(rows) /\ Len(items) = limit /\ items[limit] = rows[limit] /\ rows[limit] \in S
      BY <3>1, <3>2, FirstPlaces
    <3> QED
      BY <3>3 DEF last
  <2> QED
    BY <1>1, <2>1
<1>8. /\ walk'.query = walk.query /\ walk'.stable = walk.stable
      /\ walk'.shown = walk.shown \o items
      /\ last => walk'.pc = "done" /\ walk'.cursor = None
      /\ ~last => walk'.pc = "paging" /\ walk'.cursor = CursorAt(rows[limit])
  BY <1>1, <1>2 DEF PagesInv, PagesTypes
<1>9. PagesTypes'
  <2>1. ~last => CursorAt(rows[limit]) \in PageCursor
    BY <1>7, <1>5 DEF CursorAt, PageCursor, ShownAction
  <2>2. walk' \in [pc : {"idle", "paging", "done"}, query : Queries \cup {None},
               cursor : PageCursor \cup {None}, shown : Seq(ShownAction),
               stable : SUBSET ActionIds]
    <3>1. CASE last
      BY <1>2, <1>5, <3>1 DEF PagesInv, PagesTypes
    <3>2. CASE ~last
      BY <1>2, <1>5, <2>1, <3>2 DEF PagesInv, PagesTypes
    <3> QED
      BY <3>1, <3>2
  <2>3. ValidQuery(walk.query)'
    BY <1>1, <1>8 DEF PagesInv, PagesTypes, ValidQuery, parseLimit
  <2> QED
    BY <1>1, <2>2, <2>3 DEF PagesInv, PagesTypes
<1>10. /\ k \in Nat /\ Len(items) \in Nat /\ Len(walk'.shown) = k + Len(items)
       /\ DOMAIN walk'.shown = 1 .. k + Len(items) /\ DOMAIN walk.shown = 1 .. k
       /\ \A i \in 1 .. k : walk'.shown[i] = walk.shown[i] /\ walk.shown[i] \in ShownAction
       /\ \A i \in 1 .. k + Len(items) :
            i > k => /\ i - k \in 1 .. Len(rows) /\ walk'.shown[i] = rows[i - k]
                     /\ rows[i - k] \in S /\ rows[i - k] \in ShownAction
  <2>1. walk'.shown = walk.shown \o items
    BY <1>8
  <2>2. /\ k \in Nat /\ Len(items) \in Nat /\ Len(walk'.shown) = k + Len(items)
        /\ DOMAIN walk'.shown = 1 .. k + Len(items) /\ DOMAIN walk.shown = 1 .. k
        /\ \A i \in 1 .. k : walk'.shown[i] = walk.shown[i] /\ walk.shown[i] \in ShownAction
        /\ \A i \in 1 .. k + Len(items) : i > k => walk'.shown[i] = items[i - k]
    BY <1>5, <2>1
  <2>3. ASSUME NEW i \in 1 .. k + Len(items), i > k
        PROVE  /\ i - k \in 1 .. Len(rows) /\ items[i - k] = rows[i - k]
               /\ rows[i - k] \in S /\ rows[i - k] \in ShownAction
    <3>1. i - k \in 1 .. Len(items)
      BY <2>2, <2>3
    <3>2. \A p \in 1 .. Len(items) : p \in 1 .. Len(rows) /\ items[p] = rows[p]
      BY <1>7
    <3>3. \A p \in 1 .. Len(rows) : rows[p] \in S
      BY <1>1
    <3> QED
      BY <1>1, <1>5, <3>1, <3>2, <3>3
  <2> QED
    BY <2>2, <2>3
<1> HIDE DEF k
<1>11. ASSUME NEW i \in DOMAIN walk'.shown, NEW j \in DOMAIN walk'.shown, i < j
       PROVE  Newer(walk'.shown[i], walk'.shown[j])
  <2>1. CASE j <= k
    BY <1>10, <1>11, <2>1 DEF PagesInv, ShownInOrder
  <2>2. CASE i > k
    <3>1. i - k \in 1 .. Len(rows) /\ j - k \in 1 .. Len(rows) /\ i - k < j - k
      BY <1>10, <1>11, <2>2
    <3>2. walk'.shown[i] = rows[i - k] /\ walk'.shown[j] = rows[j - k]
      <4>1. /\ i \in 1 .. k + Len(items) /\ j \in 1 .. k + Len(items)
            /\ i > k /\ j > k
        BY <1>10, <1>11, <2>2
      <4>2. \A p \in 1 .. k + Len(items) : p > k => walk'.shown[p] = rows[p - k]
        BY <1>10
      <4> QED
        BY <4>1, <4>2
    <3>3. Newer(rows[i - k], rows[j - k])
      BY <1>1, <3>1
    <3> QED
      BY <3>2, <3>3
  <2>3. CASE i <= k /\ j > k
    <3>1. i \in 1 .. k /\ k \in 1 .. k /\ walk.shown # <<>>
      BY <1>10, <2>3
    <3>2. walk.cursor = CursorAt(walk.shown[k])
      BY <1>1, <3>1 DEF PagesInv, ShownInOrder, k
    <3>3. walk.shown[k] \in ShownAction
      BY <1>10, <3>1
    <3>4. CursorAt(walk.shown[k]) # None
      <4>1. CursorAt(walk.shown[k]) \in [createdAt : Int, actionId : Nat]
        BY <1>6, <3>3 DEF CursorAt
      <4> QED
        BY <4>1, PagesAssumption
    <3>5. walk'.shown[j] \in S /\ walk'.shown[j] \in ShownAction
      BY <1>10, <2>3
    <3>6. Newer(walk.shown[k], walk'.shown[j])
      BY <1>3, <3>2, <3>4, <3>5 DEF Newer, CursorAt
    <3>7. i = k \/ Newer(walk.shown[i], walk.shown[k])
      <4>1. i \in DOMAIN walk.shown /\ k \in DOMAIN walk.shown /\ (i = k \/ i < k)
        BY <1>10, <3>1
      <4> QED
        BY <4>1 DEF PagesInv, ShownInOrder
    <3>8. walk.shown[i] \in ShownAction /\ walk'.shown[i] = walk.shown[i]
      BY <1>10, <3>1
    <3> QED
      BY <1>6, <3>3, <3>5, <3>6, <3>7, <3>8 DEF Newer
  <2> QED
    BY <1>10, <2>1, <2>2, <2>3
<1>12. ShownInOrder'
  <2>1. walk'.pc = "paging" =>
          walk'.shown # <<>> /\ walk'.cursor = CursorAt(walk'.shown[Len(walk'.shown)])
    <3> HAVE walk'.pc = "paging"
    <3>1. ~last
      BY <1>8
    <3>2. limit \in Nat \ {0} /\ Len(walk'.shown) = k + limit
      BY <1>1, <1>7, <1>10, <3>1
    <3>3. walk'.shown[k + limit] = rows[limit]
      <4>1. /\ k + limit \in 1 .. k + Len(items) /\ k + limit > k
            /\ (k + limit) - k = limit
        BY <1>7, <1>10, <3>1, <3>2
      <4>2. \A i \in 1 .. k + Len(items) : i > k => walk'.shown[i] = rows[i - k]
        BY <1>10
      <4> QED
        BY <4>1, <4>2
    <3>4. walk'.shown # <<>>
      BY <1>10, <3>2
    <3> QED
      BY <1>8, <3>1, <3>2, <3>3, <3>4
  <2> QED
    BY <1>11, <2>1 DEF ShownInOrder
<1>13. StableIsAhead'
  <2> SUFFICES ASSUME NEW id \in walk'.stable
               PROVE  /\ get(id)' # None /\ Meets(mapRow(id), walk.query)'
                      /\ \/ HasShown(id)'
                         \/ /\ walk'.pc = "paging"
                            /\ walk'.cursor # None => Newer(walk'.cursor, mapRow(id)')
    BY DEF StableIsAhead
  <2>1. /\ get(id) # None /\ Meets(mapRow(id), walk.query)
        /\ HasShown(id) \/ (walk.cursor # None => Newer(walk.cursor, mapRow(id)))
        /\ id \in ActionIds
    BY <1>5, <1>8 DEF PagesInv, StableIsAhead
  <2>2. get(id)' = get(id) /\ mapRow(id)' = mapRow(id)
    BY <1>1 DEF get, mapRow
  <2>3. Meets(mapRow(id), walk.query)'
    BY <1>8, <2>1, <2>2 DEF Meets
  <2>4. HasShown(id) => HasShown(id)'
    <3> SUFFICES ASSUME HasShown(id)
                 PROVE  \E i \in DOMAIN walk'.shown : walk'.shown[i].actionId = id
      BY DEF HasShown
    <3>1. PICK i \in DOMAIN walk.shown : walk.shown[i].actionId = id
      BY DEF HasShown
    <3>2. i \in 1 .. k /\ i \in 1 .. k + Len(items)
      BY <1>10
    <3>3. walk'.shown[i] = walk.shown[i] /\ i \in DOMAIN walk'.shown
      BY <1>10, <3>2
    <3> QED
      BY <3>1, <3>3
  <2>5. ASSUME walk.cursor # None => Newer(walk.cursor, mapRow(id))
        PROVE  \/ HasShown(id)'
               \/ /\ walk'.pc = "paging"
                  /\ walk'.cursor # None => Newer(walk'.cursor, mapRow(id)')
    <3>1. mapRow(id) \in Rows /\ mapRow(id).actionId = id
      BY <2>1, RowTypes DEF PagesInv
    <3>2. mapRow(id) \in S
      BY <1>4, <2>1, <2>5, <3>1
    <3>3. PICK p \in 1 .. Len(rows) : rows[p] = mapRow(id)
      BY <1>1, <3>2
    <3>4. CASE p \in 1 .. Len(items)
      <4>1. k + p \in DOMAIN walk'.shown /\ k + p > k
        BY <1>10, <3>4
      <4>2. walk'.shown[k + p].actionId = id
        BY <1>10, <3>1, <3>3, <4>1
      <4> QED
        BY <4>1, <4>2 DEF HasShown
    <3>5. CASE p \notin 1 .. Len(items)
      <4>1. ~last /\ limit < p
        BY <1>1, <3>5
      <4>2. Newer(rows[limit], mapRow(id))
        BY <1>1, <1>7, <3>3, <4>1
      <4>3. Newer(CursorAt(rows[limit]), mapRow(id))
        BY <4>2 DEF Newer, CursorAt
      <4> QED
        BY <1>8, <2>2, <4>1, <4>3
    <3> QED
      BY <3>4, <3>5
  <2> QED
    BY <2>1, <2>2, <2>3, <2>4, <2>5
<1> QED
  BY <1>9, <1>12, <1>13 DEF PagesInv

\* The filter and the cursor leave of the sorted rows what the query asks for, in order.
LEMMA MemoryIsPage ==
  ASSUME PagesTypes, NEW query, NEW cursor \in {CursorAt(row) : row \in Rows} \cup {None}
  PROVE  listInMemory(Asked(query, cursor))
           = Page(Ordered(BeyondCursor(query, cursor), Newer), parseLimit(query.limit))
<1> DEFINE asked == Asked(query, cursor)
           n == Cardinality(Rows)
           met == {row \in Rows : Meets(row, query)}
           m == Cardinality(met)
           left == BeyondCursor(query, cursor)
           filtered == Filtered(sorted, LAMBDA row : Meets(row, asked))
           beyond == Filtered(filtered, LAMBDA row :
                       \/ asked.cursor = None
                       \/ row.createdAt < asked.cursor.createdAt
                       \/ /\ row.createdAt = asked.cursor.createdAt
                          /\ row.actionId < asked.cursor.actionId)
<1>1. /\ asked.cursor = cursor /\ asked.limit = parseLimit(query.limit)
      /\ \A row : Meets(row, asked) <=> Meets(row, query)
  <2>1. asked.cursor = cursor /\ asked.limit = parseLimit(query.limit)
    BY DEF Asked
  <2>2. \A row : Meets(row, asked) <=> Meets(row, query)
    BY MeetsAsked
  <2> QED
    BY <2>1, <2>2
<1>2. listInMemory(asked) = Page(beyond, asked.limit)
  BY DEF listInMemory
<1> HIDE DEF asked
<1>3. Lists(sorted, n, Rows, NewerRows)
  BY OrderedRows, NewerIsAnOrder, InOrderLists DEF sorted
<1>4. filtered = InOrder(met, NewerRows)
  <2>1. {i \in DOMAIN sorted : Meets(sorted[i], asked)} = {i \in 1 .. n : sorted[i] \in met}
    BY <1>1, <1>3 DEF Lists
  <2>2. filtered = KeptAt(sorted, {i \in DOMAIN sorted : Meets(sorted[i], asked)})
    BY Zenon DEF Filtered, KeptAt
  <2>3. KeptAt(sorted, {i \in 1 .. n : sorted[i] \in met}) = InOrder(met, NewerRows)
    <3> HIDE DEF met, n
    <3>1. met \in SUBSET Rows
      BY DEF met
    <3> QED
      BY <1>3, <3>1, NewerIsAnOrder, KeptInOrder
  <2> QED
    BY <2>1, <2>2, <2>3
<1> HIDE DEF filtered
<1>5. Lists(filtered, m, met, NewerRows) /\ left \in SUBSET met
  <2>1. left \in SUBSET met
    BY DEF BeyondCursor
  <2> QED
    BY <1>4, <2>1, NewerIsAnOrder, InOrderLists
<1>6. \A row \in met :
        row \in left <=> \/ asked.cursor = None
                         \/ row.createdAt < asked.cursor.createdAt
                         \/ /\ row.createdAt = asked.cursor.createdAt
                            /\ row.actionId < asked.cursor.actionId
  <2> SUFFICES ASSUME NEW row \in met
               PROVE  row \in left <=> \/ cursor = None
                                       \/ row.createdAt < cursor.createdAt
                                       \/ /\ row.createdAt = cursor.createdAt
                                          /\ row.actionId < cursor.actionId
    BY <1>1
  <2>1. row \in left <=> (cursor # None => Newer(cursor, row))
    BY DEF BeyondCursor
  <2>2. \A r \in Rows : r.createdAt \in Int /\ r.actionId \in Nat
    BY RowTypes, PagesAssumption DEF ShownAction
  <2>3. CASE cursor = None
    BY <2>1, <2>3
  <2>4. CASE cursor # None
    <3>1. cursor.createdAt \in Int /\ cursor.actionId \in Nat
      BY <2>2, <2>4 DEF CursorAt
    <3> QED
      BY <2>1, <2>2, <2>4, <3>1 DEF Newer
  <2> QED
    BY <2>3, <2>4
<1>7. beyond = InOrder(left, NewerRows)
  <2> DEFINE places == {i \in DOMAIN filtered :
                          \/ asked.cursor = None
                          \/ filtered[i].createdAt < asked.cursor.createdAt
                          \/ /\ filtered[i].createdAt = asked.cursor.createdAt
                             /\ filtered[i].actionId < asked.cursor.actionId}
  <2>1. beyond = KeptAt(filtered, places)
    BY Zenon DEF Filtered, KeptAt
  <2>2. DOMAIN filtered = 1 .. m /\ \A i \in 1 .. m : filtered[i] \in met
    <3> HIDE DEF met, m
    <3> QED
      BY <1>5 DEF Lists
  <2>3. places = {i \in 1 .. m : filtered[i] \in left}
    <3> HIDE DEF met, m, left
    <3> QED
      BY <1>6, <2>2
  <2>4. KeptAt(filtered, {i \in 1 .. m : filtered[i] \in left}) = InOrder(left, NewerRows)
    <3>1. StrictOrder(met, NewerRows) /\ IsFiniteSet(met)
      BY NewerIsAnOrder
    <3> HIDE DEF met, m, left
    <3> QED
      BY <1>5, <3>1, KeptInOrder
  <2> QED
    BY <2>1, <2>3, <2>4
<1> HIDE DEF beyond
<1>8. left \in SUBSET Rows
  BY DEF BeyondCursor
<1>9. beyond = Ordered(left, Newer)
  BY <1>7, <1>8, OrderedRows
<1> QED
  BY <1>1, <1>2, <1>9 DEF asked

LEMMA StoresAnswerAlikeAlways ==
  ASSUME PagesTypes
  PROVE  StoresAnswerAlike
  BY ListIsPage, MemoryIsPage DEF StoresAnswerAlike

LEMMA PagesInvariance == PagesSpec => []PagesInv
<1>1. ClockInit /\ PagesInit => PagesInv
  <2> SUFFICES ASSUME ClockInit, PagesInit
               PROVE  PagesInv
    OBVIOUS
  <2>1. PagesTypes
    BY ClockAssumption DEF PagesTypes, PagesInit, NoWalk, ClockInit
  <2>2. ShownInOrder /\ StableIsAhead
    BY DEF ShownInOrder, StableIsAhead, PagesInit, NoWalk
  <2> QED
    BY <2>1, <2>2 DEF PagesInv
<1>2. PagesInv /\ [PagesNext]_pagesAndClock => PagesInv'
  <2> SUFFICES ASSUME PagesInv, [PagesNext]_pagesAndClock
               PROVE  PagesInv'
    OBVIOUS
  <2>1. ASSUME NEW id \in ActionIds, NEW category \in Categories,
               NEW createdAt \in (clock - MaxDelay) .. clock,
               queueAction(id, category, createdAt), UNCHANGED clock
        PROVE  PagesInv'
    BY <2>1, queueActionKeeps
  <2>2. ASSUME NEW id \in ActionIds, NEW status \in Outcomes,
               saveActionWithAudit(id, status), UNCHANGED clock
        PROVE  PagesInv'
    BY <2>2, saveActionKeeps
  <2>3. ASSUME NEW query \in Queries, startWalk(query), UNCHANGED clock
        PROVE  PagesInv'
    BY <2>3, startWalkKeeps
  <2>4. ASSUME nextPage, UNCHANGED clock
        PROVE  PagesInv'
    BY <2>4, nextPageKeeps
  <2>5. ASSUME clock' \in Int, UNCHANGED pagesVars
        PROVE  PagesInv'
    <3>1. PagesTypes'
      BY <2>5 DEF PagesInv, PagesTypes, ValidQuery, parseLimit
    <3>2. ShownInOrder'
      BY <2>5 DEF PagesInv, ShownInOrder
    <3>3. StableIsAhead'
      BY <2>5 DEF PagesInv, StableIsAhead, HasShown, get, mapRow, Meets
    <3> QED
      BY <3>1, <3>2, <3>3 DEF PagesInv
  <2>6. CASE PagesStep /\ UNCHANGED clock
    BY <2>1, <2>2, <2>3, <2>4, <2>6 DEF PagesStep
  <2>7. CASE tick /\ UNCHANGED pagesVars
    <3>1. clock' \in Int
      BY <2>7 DEF PagesInv, PagesTypes, tick
    <3> QED
      BY <2>5, <2>7, <3>1
  <2>8. CASE UNCHANGED pagesAndClock
    <3>1. clock' \in Int
      BY <2>8 DEF PagesInv, PagesTypes
    <3> QED
      BY <2>5, <2>8, <3>1
  <2> QED
    BY <2>6, <2>7, <2>8 DEF PagesNext
<1> QED
  BY <1>1, <1>2, PTL DEF PagesSpec

(***************************************************************************)
(* An operator who follows the cursors of GET /governance/actions sees no  *)
(* action twice, the newest first, and by the last page every action that  *)
(* met the filter all along, with any number of rows, queries, page sizes  *)
(* and writers in between; and the store of the tests gives the pages that *)
(* the SQL gives (governanceStore.ts:437, 561).                            *)
(***************************************************************************)
THEOREM PagesShowEveryRowHolds == PagesSpec => []PagesShowEveryRow
<1>1. PagesInv => PagesShowEveryRow
  <2> SUFFICES ASSUME PagesInv
               PROVE  PagesShowEveryRow
    OBVIOUS
  <2>1. \A i, j \in DOMAIN walk.shown : i < j => Newer(walk.shown[i], walk.shown[j])
    BY DEF PagesInv, ShownInOrder
  <2>2. walk.pc = "done" =>
          walk.stable \subseteq {walk.shown[i].actionId : i \in DOMAIN walk.shown}
    BY DEF PagesInv, StableIsAhead, HasShown
  <2>3. StoresAnswerAlike
    BY StoresAnswerAlikeAlways DEF PagesInv
  <2> QED
    BY <2>1, <2>2, <2>3 DEF PagesShowEveryRow
<1> QED
  BY <1>1, PagesInvariance, PTL

-------------------------------------------------------------------------------
(* The history of the decisions *)

\* The decisions that a request had seen are recorded, and those of its trade dated before it.
DatedAfter(trade, seen, decidedAt) ==
  /\ seen \subseteq {e.id : e \in decisions}
  /\ \A e \in OfTradeUnderReview(trade) : e.id \in seen => e.decidedAt < decidedAt

SavingDated(q) == q.pc = "save" => DatedAfter(q.body.trade, q.seen, q.decidedAt)

\* Finitely many decisions, dated after what their requests had read of the trade.
OrderInv ==
  /\ GatewayTypeOK
  /\ IsFiniteSet(decisions)
  /\ \A d \in decisions : DatedAfter(d.trade, d.seen, d.decidedAt)
  /\ \A r \in Requests : SavingDated(requests[r])

LEMMA DatedStays ==
  ASSUME DecisionsGrow, NEW trade, NEW seen, NEW decidedAt, DatedAfter(trade, seen, decidedAt)
  PROVE  DatedAfter(trade, seen, decidedAt)'
<1>1. seen \subseteq {e.id : e \in decisions'}
  BY DEF DatedAfter, DecisionsGrow
<1>2. ASSUME NEW e \in OfTradeUnderReview(trade)', e.id \in seen
      PROVE  e.decidedAt < decidedAt
  <2>1. e \in decisions
    BY <1>2 DEF DatedAfter, DecisionsGrow, OfTradeUnderReview
  <2> QED
    BY <1>2, <2>1 DEF DatedAfter, OfTradeUnderReview
<1> QED
  BY <1>1, <1>2 DEF DatedAfter

\* One request goes on, and the decisions are finite and dated as they should be.
LEMMA OrderMoves ==
  ASSUME OrderInv, GatewayTypeOK', NEW r \in Requests, NEW q, Continue(r, q),
         SavingDated(q)', DecisionsGrow, IsFiniteSet(decisions'),
         \A d \in decisions' \ decisions : DatedAfter(d.trade, d.seen, d.decidedAt)'
  PROVE  OrderInv'
<1>1. ASSUME NEW s \in Requests
      PROVE  requests'[s] = requests[s] \/ (s = r /\ requests'[s] = q)
  BY DEF Continue, OrderInv, GatewayTypeOK
<1>2. ASSUME NEW s \in Requests
      PROVE  SavingDated(requests[s])'
  <2>1. CASE requests'[s] = requests[s]
    <3>1. PICK p : p = requests[s]
      OBVIOUS
    <3>2. SavingDated(p)
      BY <3>1 DEF OrderInv
    <3>3. SavingDated(p)'
      <4>1. PICK trade, seen, decidedAt :
               trade = p.body.trade /\ seen = p.seen /\ decidedAt = p.decidedAt
        OBVIOUS
      <4>2. p.pc = "save" => DatedAfter(trade, seen, decidedAt)'
        BY <3>2, <4>1, DatedStays DEF SavingDated
      <4> QED
        BY <4>1, <4>2 DEF SavingDated, DatedAfter, OfTradeUnderReview
    <3> QED
      BY <2>1, <3>1, <3>3 DEF SavingDated, DatedAfter, OfTradeUnderReview
  <2>2. CASE requests'[s] = q
    BY <2>2 DEF SavingDated, DatedAfter, OfTradeUnderReview
  <2> QED
    BY <1>1, <2>1, <2>2
<1>3. ASSUME NEW d \in decisions'
      PROVE  DatedAfter(d.trade, d.seen, d.decidedAt)'
  <2>1. CASE d \in decisions
    <3>1. DatedAfter(d.trade, d.seen, d.decidedAt)
      BY <2>1 DEF OrderInv
    <3> QED
      BY <3>1, DatedStays
  <2> QED
    BY <2>1
<1> QED
  BY <1>2, <1>3 DEF OrderInv

\* A request that saves no decision goes on, and the decisions are as they were.
LEMMA OrderElse ==
  ASSUME OrderInv, GatewayTypeOK', NEW r \in Requests, NEW q, Continue(r, q), q.pc # "save",
         UNCHANGED decisions
  PROVE  OrderInv'
<1>1. DecisionsGrow /\ IsFiniteSet(decisions') /\ decisions' \ decisions = {}
  BY DEF DecisionsGrow, OrderInv
<1>2. SavingDated(q)'
  BY DEF SavingDated
<1> QED
  BY <1>1, <1>2, OrderMoves

\* The date is after those of the decisions that the request has read.
LEMMA OrderCreates ==
  ASSUME OrderInv, GatewayTypeOK', NEW r \in Requests, createDecision(r)
  PROVE  OrderInv'
<1> DEFINE t == requests[r].body.trade
<1>1. UNCHANGED decisions
  BY DEF createDecision, NoWrite
<1>2. PICK q : q = [pc |-> "save", key |-> requests[r].key, body |-> requests[r].body,
                    decidedAt |-> nextDecisionTimestamp(t), seen |-> Seen(t)]
  OBVIOUS
<1>3. Continue(r, q) \/ Respond(r, 400)
  BY <1>2 DEF createDecision, Go
<1>4. /\ clock \in Int /\ DecisionsOK
      /\ \A e \in decisions : e.decidedAt \in Int
  BY DEF OrderInv, GatewayTypeOK, DecisionsOK, ComplianceDecisionRecord
<1>5. \A e \in OfTradeUnderReview(t) : e.decidedAt < nextDecisionTimestamp(t)
  <2>1. PICK latest : latest = getLatestDecision(t)
    OBVIOUS
  <2>2. CASE latest = None
    <3>1. OfTradeUnderReview(t) = {} \/ None \in OfTradeUnderReview(t)
      <4>1. HasLatest(t)
        BY <1>4 DEF DecisionsOK
      <4> QED
        BY <2>1, <2>2, <4>1 DEF HasLatest, getLatestDecision
    <3>2. None \notin OfTradeUnderReview(t)
      BY <1>4, ComplianceAssumption DEF DecisionsOK, OfTradeUnderReview
    <3> QED
      BY <3>1, <3>2
  <2>3. CASE latest # None
    <3>1. latest \in OfTradeUnderReview(t)
          /\ \A e \in OfTradeUnderReview(t) \ {latest} : Later(latest, e)
      BY <1>4, <2>1, <2>3, LatestDecision
    <3>2. \A e \in OfTradeUnderReview(t) : e.decidedAt \in Int
      BY <1>4 DEF OfTradeUnderReview
    <3>3. \A e \in OfTradeUnderReview(t) : e.decidedAt <= latest.decidedAt
      BY <3>1, <3>2 DEF Later
    <3>4. nextDecisionTimestamp(t) =
            IF latest.decidedAt < clock THEN clock ELSE latest.decidedAt + 1
      BY <2>1, <2>3 DEF nextDecisionTimestamp
    <3> QED
      BY <1>4, <3>1, <3>2, <3>3, <3>4
  <2> QED
    BY <2>2, <2>3
<1>6. Seen(t) \subseteq {e.id : e \in decisions}
  BY DEF Seen, OfTradeUnderReview
<1>7. SavingDated(q)
  <2>1. q.body.trade = t /\ q.seen = Seen(t) /\ q.decidedAt = nextDecisionTimestamp(t)
    BY <1>2
  <2> QED
    BY <1>5, <1>6, <2>1 DEF SavingDated, DatedAfter
<1>8. CASE Continue(r, q)
  <2>1. SavingDated(q)'
    BY <1>1, <1>7 DEF SavingDated, DatedAfter, OfTradeUnderReview
  <2>2. DecisionsGrow /\ IsFiniteSet(decisions') /\ decisions' \ decisions = {}
    BY <1>1 DEF DecisionsGrow, OrderInv
  <2> QED
    BY <1>8, <2>1, <2>2, OrderMoves
<1>9. CASE Respond(r, 400)
  <2>1. PICK p : p = [pc |-> "finish", key |-> requests[r].key, status |-> 400]
    OBVIOUS
  <2>2. Continue(r, p) /\ p.pc # "save"
    BY <1>9, <2>1 DEF Respond
  <2> QED
    BY <1>1, <2>2, OrderElse
<1> QED
  BY <1>3, <1>8, <1>9

LEMMA OrderSaves ==
  ASSUME OrderInv, GatewayTypeOK', NEW r \in Requests, saveDecisionWithAudit(r)
  PROVE  OrderInv'
<1>1. PICK id \in DecisionIds \ {d.id : d \in decisions} :
           /\ insertComplianceDecision(id, requests[r])
           /\ runTransactionalWrite(r, decisionAuditMetadata(id), 201)
  BY DEF saveDecisionWithAudit
<1>2. PICK d : d = [id |-> id, trade |-> requests[r].body.trade,
                    result |-> requests[r].body.result, reason |-> requests[r].body.reason,
                    ends |-> requests[r].body.ends, decidedAt |-> requests[r].decidedAt,
                    seen |-> requests[r].seen]
  OBVIOUS
<1>3. decisions' = decisions \cup {d} /\ d.id = id
  BY <1>1, <1>2 DEF insertComplianceDecision
<1>4. DecisionsGrow
  BY <1>1, <1>3 DEF DecisionsGrow
<1>5. IsFiniteSet(decisions')
  BY <1>3, FS_AddElement DEF OrderInv
<1>6. DatedAfter(d.trade, d.seen, d.decidedAt)'
  <2>1. DatedAfter(d.trade, d.seen, d.decidedAt)
    BY <1>2 DEF OrderInv, SavingDated, saveDecisionWithAudit
  <2> QED
    BY <1>4, <2>1, DatedStays
<1>7. PICK q : q = [pc |-> "readBack", key |-> requests[r].key, status |-> 201]
  OBVIOUS
<1>8. Continue(r, q) /\ SavingDated(q)'
  BY <1>1, <1>7 DEF runTransactionalWrite, Go, SavingDated
<1>9. \A e \in decisions' \ decisions : DatedAfter(e.trade, e.seen, e.decidedAt)'
  BY <1>3, <1>6
<1> QED
  BY <1>4, <1>5, <1>8, <1>9, OrderMoves

\* The other steps of a handler.
LEMMA OrderControls ==
  ASSUME OrderInv, GatewayTypeOK', NEW r \in Requests,
         \/ readBlock(r) \/ refuseByBlock(r) \/ resolveDecisionForTrade(r) \/ readLatest(r)
         \/ checkResume(r) \/ readBack(r) \/ statementFails(r)
         \/ blockOracleProgression(r) \/ resumeOracleProgression(r)
  PROVE  OrderInv'
<1>a. GatewayTypeOK
  BY DEF OrderInv
<1>1. UNCHANGED decisions
  BY DEF readBlock, refuseByBlock, resolveDecisionForTrade, readLatest, checkResume, readBack,
         statementFails, blockOracleProgression, resumeOracleProgression, NoWrite,
         saveBlockStateWithAudit
<1>2. ASSUME NEW q, Continue(r, q), q.pc # "save"
      PROVE  OrderInv'
  BY <1>1, <1>2, OrderElse
<1>3. ASSUME NEW status, Respond(r, status)
      PROVE  OrderInv'
  BY <1>2, <1>3 DEF Respond
<1>4. ASSUME NEW state, NEW d, NEW seen, saveBlockStateWithAudit(r, state, d, seen)
      PROVE  OrderInv'
  BY <1>2, <1>4 DEF saveBlockStateWithAudit, runTransactionalWrite, Go
<1>5. CASE readBlock(r)
  BY <1>2, <1>5 DEF readBlock, Go
<1>6. CASE refuseByBlock(r) \/ readBack(r) \/ statementFails(r)
  BY <1>3, <1>6 DEF refuseByBlock, readBack, statementFails
<1>7. CASE resolveDecisionForTrade(r)
  <2>1. PICK found : \/ Respond(r, 404)
                     \/ Respond(r, 409)
                     \/ Continue(r, [requests[r] EXCEPT !.requested = found])
    BY <1>7, Zenon DEF resolveDecisionForTrade, Go
  <2>2. requests[r] \in ResolveRequest /\ requests[r].pc = "resolve"
    BY <1>7, <1>a, RequestAt DEF resolveDecisionForTrade
  <2>3. [requests[r] EXCEPT !.requested = found].pc = "resolve"
    BY <2>2 DEF ResolveRequest
  <2> QED
    BY <1>2, <1>3, <2>1, <2>3
<1>8. CASE readLatest(r)
  <2>1. PICK latest, seen :
             Continue(r, [requests[r] EXCEPT !.latest = latest, !.seen = seen])
    BY <1>8, Zenon DEF readLatest, Go
  <2>2. requests[r] \in ResolveRequest /\ requests[r].pc = "resolve"
    BY <1>8, <1>a, RequestAt DEF readLatest
  <2>3. [requests[r] EXCEPT !.latest = latest, !.seen = seen].pc = "resolve"
    BY <2>2 DEF ResolveRequest
  <2> QED
    BY <1>2, <2>1, <2>3
<1>9. CASE checkResume(r)
  <2>1. Continue(r, [requests[r] EXCEPT !.pc = "resume"]) \/ Respond(r, 409)
    BY <1>9, Zenon DEF checkResume, Go
  <2>2. requests[r] \in ResolveRequest
    BY <1>9, <1>a, RequestAt DEF checkResume
  <2>3. [requests[r] EXCEPT !.pc = "resume"].pc = "resume"
    BY <2>2 DEF ResolveRequest
  <2> QED
    BY <1>2, <1>3, <2>1, <2>3
<1>10. CASE blockOracleProgression(r)
  BY <1>3, <1>4, <1>10 DEF blockOracleProgression
<1>11. CASE resumeOracleProgression(r)
  BY <1>4, <1>11 DEF resumeOracleProgression
<1> QED
  BY <1>5, <1>6, <1>7, <1>8, <1>9, <1>10, <1>11

LEMMA OrderInvStep ==
  ASSUME OrderInv, GatewayTypeOK', [GatewayNext]_gatewayAndClock
  PROVE  OrderInv'
<1>1. ASSUME ComplianceStep
      PROVE  OrderInv'
  <2>1. PICK r \in Requests :
          \/ createDecision(r) \/ saveDecisionWithAudit(r) \/ readBack(r)
          \/ readBlock(r) \/ refuseByBlock(r)
          \/ resolveDecisionForTrade(r) \/ readLatest(r)
          \/ blockOracleProgression(r) \/ checkResume(r) \/ resumeOracleProgression(r)
          \/ statementFails(r)
    BY <1>1 DEF ComplianceStep
  <2> QED
    BY <2>1, OrderCreates, OrderSaves, OrderControls
<1>2. ASSUME IdempotencyStep, UNCHANGED complianceVars
      PROVE  OrderInv'
  <2>1. UNCHANGED decisions
    BY <1>2
  <2>2. ASSUME NEW r \in Requests, NEW q, Continue(r, q), q.pc # "save"
        PROVE  OrderInv'
    BY <2>1, <2>2, OrderElse
  <2>3. ASSUME NEW r \in Requests, NEW s \in DOMAIN sessions, NEW k \in IdempotencyKeys,
               NEW body \in Bodies, authenticate(r, s, k, body)
        PROVE  OrderInv'
    BY <2>2, <2>3 DEF authenticate
  <2>4. ASSUME NEW r \in Requests, createPending(r)
        PROVE  OrderInv'
    <3>1. requests[r] \in NewRequest
      BY <2>4, RequestAt DEF createPending, OrderInv
    <3>2. /\ [requests[r] EXCEPT !.pc = "handle"].pc = "handle"
          /\ [requests[r] EXCEPT !.pc = "conflict"].pc = "conflict"
      BY <3>1 DEF NewRequest
    <3>3. \/ Continue(r, [requests[r] EXCEPT !.pc = "handle"])
          \/ Continue(r, [requests[r] EXCEPT !.pc = "conflict"])
      BY <2>4 DEF createPending
    <3>4. PICK q : /\ q \in {[requests[r] EXCEPT !.pc = "handle"],
                             [requests[r] EXCEPT !.pc = "conflict"]}
                   /\ Continue(r, q)
      BY <3>3
    <3> QED
      BY <2>2, <3>2, <3>4
  <2>5. ASSUME NEW r \in Requests, answerConflict(r) \/ finish(r)
        PROVE  OrderInv'
    BY <2>2, <2>5 DEF answerConflict, finish
  <2>6. ASSUME gatewayCrash
        PROVE  OrderInv'
    <3>1. \A r \in Requests : SavingDated(requests[r])'
      BY <2>6 DEF gatewayCrash, SavingDated
    <3>2. \A d \in decisions' : DatedAfter(d.trade, d.seen, d.decidedAt)'
      BY <2>1 DEF OrderInv, DatedAfter, OfTradeUnderReview
    <3> QED
      BY <2>1, <3>1, <3>2 DEF OrderInv
  <2> QED
    BY <1>2, <2>3, <2>4, <2>5, <2>6 DEF IdempotencyStep
<1>3. ASSUME UNCHANGED <<idempotencyVars, complianceVars>>
      PROVE  OrderInv'
  <2>1. \A r \in Requests : SavingDated(requests[r])'
    BY <1>3 DEF OrderInv, SavingDated, DatedAfter, OfTradeUnderReview
  <2>2. \A d \in decisions' : DatedAfter(d.trade, d.seen, d.decidedAt)'
    BY <1>3 DEF OrderInv, DatedAfter, OfTradeUnderReview
  <2> QED
    BY <1>3, <2>1, <2>2 DEF OrderInv
<1> QED
  BY <1>1, <1>2, <1>3 DEF GatewayNext

LEMMA OrderInvariance == GatewaySpec => []OrderInv
<1>1. ClockInit /\ IdempotencyInit /\ ComplianceInit => OrderInv
  <2> SUFFICES ASSUME ClockInit, IdempotencyInit, ComplianceInit
               PROVE  OrderInv
    OBVIOUS
  <2>1. GatewayTypeOK
    BY KeysInit DEF KeysInv
  <2>2. IsFiniteSet(decisions)
    BY FS_EmptySet DEF ComplianceInit
  <2> QED
    BY <2>1, <2>2 DEF OrderInv, IdempotencyInit, ComplianceInit, SavingDated
<1>2. KeysInv => GatewayTypeOK
  BY DEF KeysInv
<1>3. OrderInv /\ GatewayTypeOK' /\ [GatewayNext]_gatewayAndClock => OrderInv'
  BY OrderInvStep
<1> QED
  BY <1>1, <1>2, <1>3, KeysInvariance, PTL DEF GatewaySpec

LaterPairs == {p \in decisions \X decisions : Later(p[1], p[2])}

LEMMA LaterIsAnOrder ==
  ASSUME OrderInv, NEW S \in SUBSET decisions
  PROVE  StrictOrder(S, LaterPairs) /\ IsFiniteSet(S)
<1>1. /\ \A d \in decisions : d.id \in Int /\ d.decidedAt \in Int
      /\ \A d, e \in decisions : d.id = e.id => d = e
  BY DEF OrderInv, GatewayTypeOK, DecisionsOK, ComplianceDecisionRecord
<1>2. \A d, e \in decisions : <<d, e>> \in LaterPairs <=> Later(d, e)
  BY DEF LaterPairs
<1>3. StrictOrder(decisions, LaterPairs)
  <2>1. \A d \in decisions : ~Later(d, d)
    BY <1>1 DEF Later
  <2>2. \A d, e, f \in decisions : Later(d, e) /\ Later(e, f) => Later(d, f)
    BY <1>1 DEF Later
  <2>3. \A d, e \in decisions : d = e \/ Later(d, e) \/ Later(e, d)
    BY <1>1 DEF Later
  <2> QED
    BY <1>2, <2>1, <2>2, <2>3 DEF StrictOrder
<1> QED
  BY <1>3, OrderWithin, FS_Subset DEF OrderInv

LEMMA OrderedDecisions ==
  ASSUME OrderInv, NEW S \in SUBSET decisions
  PROVE  /\ Ordered(S, Later) = InOrder(S, LaterPairs)
         /\ Lists(Ordered(S, Later), Cardinality(S), S, LaterPairs)
<1>1. \A d \in S : {e \in S : Later(e, d)} = Ahead(d, S, LaterPairs)
  BY DEF Ahead, LaterPairs
<1>2. \A i : (CHOOSE d \in S : Cardinality({e \in S : Later(e, d)}) = i - 1)
               = (CHOOSE d \in S : Rank(d, S, LaterPairs) = i - 1)
  BY <1>1 DEF Rank
<1>3. Ordered(S, Later) = [i \in 1 .. Cardinality(S) |->
         CHOOSE d \in S : Cardinality({e \in S : Later(e, d)}) = i - 1]
  BY DEF Ordered
<1>4. InOrder(S, LaterPairs) = [i \in 1 .. Cardinality(S) |->
         CHOOSE d \in S : Rank(d, S, LaterPairs) = i - 1]
  BY DEF InOrder
<1>5. Ordered(S, Later) = InOrder(S, LaterPairs)
  BY <1>2, <1>3, <1>4, Zenon
<1> QED
  BY <1>5, LaterIsAnOrder, InOrderLists

\* The list l has every decision of S once, in order.
LatestFirst(l, S) ==
  /\ l \in Seq(S) /\ Len(l) = Cardinality(S) /\ Len(l) \in Nat
  /\ \A i \in 1 .. Len(l) : l[i] \in S
  /\ \A i, j \in 1 .. Len(l) : i < j <=> Later(l[i], l[j])
  /\ \A d \in S : \E i \in 1 .. Len(l) : l[i] = d

LEMMA OrderedDecisionsList ==
  ASSUME OrderInv, NEW S \in SUBSET decisions
  PROVE  LatestFirst(Ordered(S, Later), S)
<1> DEFINE n == Cardinality(S)
<1>0. PICK l : l = Ordered(S, Later)
  OBVIOUS
<1>1. Lists(l, n, S, LaterPairs)
  BY <1>0, OrderedDecisions
<1> HIDE DEF n
<1>2. n \in Nat /\ l \in [1 .. n -> S]
  BY <1>1 DEF Lists
<1>3. l \in Seq(S) /\ Len(l) = n
  BY <1>2
<1>4. \A i, j \in 1 .. n : i < j <=> Later(l[i], l[j])
  BY <1>1, <1>2 DEF Lists, LaterPairs
<1>5. \A d \in S : \E i \in 1 .. n : l[i] = d
  BY <1>1 DEF Lists
<1> QED
  BY <1>0, <1>2, <1>3, <1>4, <1>5 DEF LatestFirst, n

LEMMA LaterIsStrict ==
  ASSUME OrderInv, NEW d \in decisions, NEW e \in decisions
  PROVE  /\ ~(Later(d, e) /\ Later(e, d))
         /\ d # e => Later(d, e) \/ Later(e, d)
         /\ d # None
<1>1. /\ \A x \in decisions : x.id \in Int /\ x.decidedAt \in Int
      /\ d.id = e.id => d = e
      /\ decisions \subseteq ComplianceDecisionRecord
  BY DEF OrderInv, GatewayTypeOK, DecisionsOK, ComplianceDecisionRecord
<1> QED
  BY <1>1, ComplianceAssumption DEF Later

\* The latest decision is the head of the list.
LEMMA LatestIsHead ==
  ASSUME OrderInv, NEW t
  PROVE  getLatestDecision(t) = getLatestDecisionInMemory(t)
<1> DEFINE S == OfTradeUnderReview(t)
<1>1. S \in SUBSET decisions
  BY DEF OfTradeUnderReview
<1>2. PICK l : l = Ordered(S, Later)
  OBVIOUS
<1>3. /\ l \in Seq(S) /\ Len(l) \in Nat
      /\ \A i \in 1 .. Len(l) : l[i] \in S
      /\ \A i, j \in 1 .. Len(l) : i < j <=> Later(l[i], l[j])
      /\ \A d \in S : \E i \in 1 .. Len(l) : l[i] = d
  <2>1. LatestFirst(l, S)
    BY <1>1, <1>2, OrderedDecisionsList
  <2> QED
    BY <2>1 DEF LatestFirst
<1>4. sortedTradeDecisions(t) = l
  BY <1>2 DEF sortedTradeDecisions
<1>5. CASE S = {}
  <2>1. l = <<>>
    <3>1. Len(l) = 0
      BY <1>3, <1>5
    <3> QED
      BY <1>3, <3>1
  <2> QED
    BY <1>4, <1>5, <2>1 DEF getLatestDecision, getLatestDecisionInMemory
<1>6. CASE S # {}
  <2>1. 1 \in 1 .. Len(l) /\ l # <<>> /\ Head(l) = l[1]
    BY <1>3, <1>6
  <2>2. getLatestDecisionInMemory(t) = l[1]
    BY <1>4, <2>1 DEF getLatestDecisionInMemory
  <2>3. l[1] \in S /\ \A e \in S \ {l[1]} : Later(l[1], e)
    <3>1. l[1] \in S
      BY <1>3, <2>1
    <3>2. ASSUME NEW e \in S \ {l[1]}
          PROVE  Later(l[1], e)
      <4>1. PICK i \in 1 .. Len(l) : l[i] = e
        BY <1>3
      <4>2. 1 < i
        BY <1>3, <3>2, <4>1
      <4> QED
        BY <1>3, <2>1, <4>1, <4>2
    <3> QED
      BY <3>1, <3>2
  <2>4. \A d \in S : (\A e \in S \ {d} : Later(d, e)) => d = l[1]
    BY <1>1, <2>3, LaterIsStrict
  <2>5. getLatestDecision(t) = CHOOSE d \in S : \A e \in S \ {d} : Later(d, e)
    BY <1>6 DEF getLatestDecision
  <2> HIDE DEF S
  <2> QED
    BY <2>2, <2>3, <2>4, <2>5
<1> QED
  BY <1>5, <1>6

\* What a page of one decision is taken from: the decisions after the cursor.
BeyondDecision(t, cursor) ==
  {d \in OfTradeUnderReview(t) : cursor = None \/ Later(cursor, d)}

LEMMA MinIs ==
  ASSUME NEW a \in Int, NEW b \in Int
  PROVE  Min({a, b}) = IF a <= b THEN a ELSE b
  BY DEF Min

LEMMA OnePage ==
  ASSUME OrderInv, NEW t, NEW cursor, NEW l, l = Ordered(BeyondDecision(t, cursor), Later)
  PROVE  listTradeDecisions(t, 1, cursor)
           = [items |-> SubSeq(l, 1, IF Len(l) < 1 THEN Len(l) ELSE 1),
              nextCursor |-> IF Len(l) > 1 THEN l[1] ELSE None]
  BY DEF listTradeDecisions, BeyondDecision, nextCursorFromItems

LEMMA MemoryAnswersAlike ==
  ASSUME OrderInv, NEW t, NEW cursor
  PROVE  listTradeDecisions(t, 1, cursor) = listTradeDecisionsInMemory(t, 1, cursor)
<1> DEFINE S == OfTradeUnderReview(t)
           n == Cardinality(S)
           B == BeyondDecision(t, cursor)
<1>1. S \in SUBSET decisions /\ B \in SUBSET S /\ B \in SUBSET decisions
  BY DEF OfTradeUnderReview, BeyondDecision
<1>2. PICK s : s = sortedTradeDecisions(t)
  OBVIOUS
<1>3. Lists(s, n, S, LaterPairs)
  BY <1>1, <1>2, OrderedDecisions DEF sortedTradeDecisions
<1> DEFINE candidates == Filtered(s, LAMBDA d : cursor = None \/ Later(cursor, d))
<1>4. candidates = KeptAt(s, {i \in DOMAIN s : cursor = None \/ Later(cursor, s[i])})
  BY Zenon DEF Filtered, KeptAt
<1>5. {i \in DOMAIN s : cursor = None \/ Later(cursor, s[i])} = {i \in 1 .. n : s[i] \in B}
  <2>1. DOMAIN s = 1 .. n /\ \A i \in 1 .. n : s[i] \in S
    BY <1>3 DEF Lists
  <2> QED
    BY <2>1 DEF BeyondDecision
<1>6. StrictOrder(S, LaterPairs) /\ IsFiniteSet(S)
  BY <1>1, LaterIsAnOrder
<1>7. candidates = InOrder(B, LaterPairs)
  <2>1. KeptAt(s, {i \in 1 .. n : s[i] \in B}) = InOrder(B, LaterPairs)
    <3> HIDE DEF S, n, B
    <3> QED
      BY <1>1, <1>3, <1>6, KeptInOrder
  <2> QED
    BY <1>4, <1>5, <2>1
<1>8. PICK l : l = Ordered(B, Later)
  OBVIOUS
<1>9. candidates = l
  BY <1>1, <1>7, <1>8, OrderedDecisions
<1>10. l \in Seq(B) /\ Len(l) \in Nat
  <2>1. LatestFirst(l, B)
    BY <1>1, <1>8, OrderedDecisionsList
  <2> QED
    BY <2>1 DEF LatestFirst
<1>11. PICK page : page = SubSeq(l, 1, Min({1 + 1, Len(l)}))
  OBVIOUS
<1>12. listTradeDecisionsInMemory(t, 1, cursor)
         = [items |-> SubSeq(page, 1, Min({1, Len(page)})),
            nextCursor |-> IF Len(page) > 1 THEN page[1] ELSE None]
  BY <1>2, <1>9, <1>11 DEF listTradeDecisionsInMemory, nextCursorFromItems
<1> HIDE DEF B, candidates
<1>13. /\ Len(page) = IF Len(l) < 2 THEN Len(l) ELSE 2
       /\ \A i \in 1 .. Len(page) : page[i] = l[i]
       /\ page \in Seq(B)
  <2>1. Min({1 + 1, Len(l)}) = IF Len(l) < 2 THEN Len(l) ELSE 2
    BY <1>10, MinIs
  <2>2. PICK m : m = IF Len(l) < 2 THEN Len(l) ELSE 2
    OBVIOUS
  <2>3. m \in Nat /\ m <= Len(l)
    BY <1>10, <2>2
  <2>4. page = SubSeq(l, 1, m)
    BY <1>11, <2>1, <2>2, Zenon
  <2>5. /\ SubSeq(l, 1, m) \in Seq(B) /\ Len(SubSeq(l, 1, m)) = m
        /\ \A i \in 1 .. m : SubSeq(l, 1, m)[i] = l[i]
    BY <1>10, <2>3
  <2> QED
    BY <2>2, <2>4, <2>5
<1>14. /\ Len(page) > 1 <=> Len(l) > 1
       /\ Len(l) > 1 => page[1] = l[1]
  BY <1>10, <1>13
<1>15. SubSeq(page, 1, Min({1, Len(page)})) = SubSeq(l, 1, IF Len(l) < 1 THEN Len(l) ELSE 1)
  <2>1. Min({1, Len(page)}) = IF Len(l) < 1 THEN Len(l) ELSE 1
    BY <1>10, <1>13, MinIs
  <2>2. PICK m : m = IF Len(l) < 1 THEN Len(l) ELSE 1
    OBVIOUS
  <2>3. m \in Nat /\ m <= Len(l) /\ m <= Len(page)
    BY <1>10, <1>13, <2>2
  <2>4. SubSeq(page, 1, m) = SubSeq(l, 1, m)
    BY <1>10, <1>13, <2>3
  <2> QED
    BY <2>1, <2>2, <2>4
<1>16. listTradeDecisions(t, 1, cursor)
           = [items |-> SubSeq(l, 1, IF Len(l) < 1 THEN Len(l) ELSE 1),
              nextCursor |-> IF Len(l) > 1 THEN l[1] ELSE None]
  BY <1>8, OnePage DEF B
<1>17. (IF Len(page) > 1 THEN page[1] ELSE None) = (IF Len(l) > 1 THEN l[1] ELSE None)
  BY <1>14
<1>18. PICK items, next : /\ items = SubSeq(page, 1, Min({1, Len(page)}))
                          /\ next = IF Len(page) > 1 THEN page[1] ELSE None
  OBVIOUS
<1>19. listTradeDecisionsInMemory(t, 1, cursor) = [items |-> items, nextCursor |-> next]
  BY <1>12, <1>18
<1>20. listTradeDecisions(t, 1, cursor) = [items |-> items, nextCursor |-> next]
  BY <1>15, <1>16, <1>17, <1>18
<1> QED
  BY <1>19, <1>20

\* A cursor at place m of the list of the decisions on t, which has more.
CursorIn(t, l, m, cursor) ==
  /\ l = Ordered(OfTradeUnderReview(t), Later)
  /\ m \in 0 .. Len(l) - 1
  /\ cursor = IF m = 0 THEN None ELSE l[m]

\* The page after place m is the decision at place m + 1, with its cursor.
LEMMA PageAfter ==
  ASSUME OrderInv, NEW t, NEW l, NEW m, NEW cursor, CursorIn(t, l, m, cursor)
  PROVE  /\ Last(listTradeDecisions(t, 1, cursor).items) = l[m + 1]
         /\ listTradeDecisions(t, 1, cursor).nextCursor = IF m + 1 < Len(l) THEN l[m + 1] ELSE None
<1> DEFINE S == OfTradeUnderReview(t)
           B == BeyondDecision(t, cursor)
<1>0. /\ l = Ordered(OfTradeUnderReview(t), Later) /\ m \in 0 .. Len(l) - 1
      /\ cursor = IF m = 0 THEN None ELSE l[m]
  BY DEF CursorIn
<1>1. S \in SUBSET decisions /\ B \in SUBSET S /\ B \in SUBSET decisions
  BY DEF OfTradeUnderReview, BeyondDecision
<1>2. /\ l \in Seq(S) /\ Len(l) \in Nat
      /\ \A i \in 1 .. Len(l) : l[i] \in S
      /\ \A i, j \in 1 .. Len(l) : i < j <=> Later(l[i], l[j])
      /\ \A d \in S : \E i \in 1 .. Len(l) : l[i] = d
  <2>1. LatestFirst(l, S)
    BY <1>0, <1>1, OrderedDecisionsList
  <2> QED
    BY <2>1 DEF LatestFirst
<1>3. PICK r : r = Ordered(B, Later)
  OBVIOUS
<1>4. /\ r \in Seq(B) /\ Len(r) \in Nat
      /\ \A i \in 1 .. Len(r) : r[i] \in B
      /\ \A i, j \in 1 .. Len(r) : i < j <=> Later(r[i], r[j])
      /\ \A d \in B : \E i \in 1 .. Len(r) : r[i] = d
  <2>1. LatestFirst(r, B)
    BY <1>1, <1>3, OrderedDecisionsList
  <2> QED
    BY <2>1 DEF LatestFirst
<1>5. \A i \in 1 .. Len(l) : l[i] \in B <=> i > m
  <2> SUFFICES ASSUME NEW i \in 1 .. Len(l)
               PROVE  l[i] \in B <=> i > m
    OBVIOUS
  <2>1. l[i] \in B <=> cursor = None \/ Later(cursor, l[i])
    BY <1>2 DEF BeyondDecision
  <2>2. CASE m = 0
    BY <1>0, <2>1, <2>2
  <2>3. CASE m # 0
    <3>1. m \in 1 .. Len(l) /\ cursor = l[m]
      BY <1>0, <1>2, <2>3
    <3>2. cursor # None
      BY <1>1, <1>2, <3>1, LaterIsStrict
    <3>3. m < i <=> Later(l[m], l[i])
      BY <1>2, <3>1
    <3> QED
      BY <2>1, <3>1, <3>2, <3>3
  <2> QED
    BY <2>2, <2>3
<1>6. m + 1 \in 1 .. Len(l) /\ l[m + 1] \in B
  <2>1. m + 1 \in 1 .. Len(l) /\ m + 1 > m
    BY <1>0, <1>2
  <2> QED
    BY <1>5, <2>1
<1> HIDE DEF B, S
<1>7. 1 \in 1 .. Len(r) /\ r[1] = l[m + 1]
  <2>1. PICK i \in 1 .. Len(r) : r[i] = l[m + 1]
    BY <1>4, <1>6
  <2>2. 1 \in 1 .. Len(r) /\ r[1] \in B
    BY <1>4, <2>1
  <2>3. PICK j \in 1 .. Len(l) : l[j] = r[1]
    BY <1>1, <1>2, <2>2
  <2>4. j > m
    BY <1>5, <2>2, <2>3
  <2>5. ~(m + 1 < j)
    <3>1. m + 1 < j => Later(l[m + 1], l[j])
      BY <1>2, <1>6
    <3>2. m + 1 < j => Later(r[i], r[1])
      BY <2>1, <2>3, <3>1
    <3>3. ~(i < 1) /\ (i < 1 <=> Later(r[i], r[1]))
      BY <1>4, <2>2
    <3> QED
      BY <3>2, <3>3
  <2>6. j = m + 1
    BY <1>0, <1>2, <2>4, <2>5
  <2> QED
    BY <2>2, <2>3, <2>6
<1>8. Len(r) > 1 <=> m + 1 < Len(l)
  <2>1. ASSUME Len(r) > 1
        PROVE  m + 1 < Len(l)
    <3>1. 2 \in 1 .. Len(r) /\ r[2] \in B /\ Later(r[1], r[2])
      <4>1. 1 \in 1 .. Len(r) /\ 2 \in 1 .. Len(r) /\ 1 < 2
        BY <1>4, <2>1
      <4> QED
        BY <1>4, <4>1
    <3>2. PICK j \in 1 .. Len(l) : l[j] = r[2]
      BY <1>1, <1>2, <3>1
    <3>3. m + 1 < j
      BY <1>2, <1>6, <1>7, <3>1, <3>2
    <3> QED
      BY <1>0, <1>2, <3>3
  <2>2. ASSUME m + 1 < Len(l)
        PROVE  Len(r) > 1
    <3>1. m + 2 \in 1 .. Len(l) /\ m + 2 > m /\ m + 1 < m + 2
      BY <1>0, <1>2, <2>2
    <3>2. PICK i \in 1 .. Len(r) : r[i] = l[m + 2]
      BY <1>4, <1>5, <3>1
    <3>3. Later(r[1], r[i])
      BY <1>2, <1>6, <1>7, <3>1, <3>2
    <3>4. 1 < i
      BY <1>4, <1>7, <3>3
    <3> QED
      BY <1>4, <3>4
  <2> QED
    BY <2>1, <2>2
<1>9. listTradeDecisions(t, 1, cursor)
           = [items |-> SubSeq(r, 1, IF Len(r) < 1 THEN Len(r) ELSE 1),
              nextCursor |-> IF Len(r) > 1 THEN r[1] ELSE None]
  BY <1>3, OnePage DEF B
<1>10. Last(SubSeq(r, 1, 1)) = r[1]
  <2>1. Len(SubSeq(r, 1, 1)) = 1 /\ SubSeq(r, 1, 1)[1] = r[1]
    BY <1>4, <1>7
  <2> QED
    BY <2>1 DEF Last
<1>11. (IF Len(r) < 1 THEN Len(r) ELSE 1) = 1
  BY <1>4, <1>7
<1>12. listTradeDecisions(t, 1, cursor).items = SubSeq(r, 1, 1)
  BY <1>9, <1>11
<1>13. listTradeDecisions(t, 1, cursor).nextCursor = IF m + 1 < Len(l) THEN l[m + 1] ELSE None
  BY <1>7, <1>8, <1>9
<1> QED
  BY <1>7, <1>10, <1>12, <1>13

\* The pages, each begun at the cursor of the one before, are the list.
LEMMA HistoryIsList ==
  ASSUME OrderInv, NEW t
  PROVE  History(t) = Ordered(OfTradeUnderReview(t), Later)
<1> DEFINE n == Cardinality(OfTradeUnderReview(t))
           Followed(pages) == [i \in 1 .. n |->
             listTradeDecisions(t, 1, IF i = 1 THEN None ELSE pages[i - 1].nextCursor)]
           pages == CHOOSE g : g = Followed(g)
<1>1. PICK l : l = Ordered(OfTradeUnderReview(t), Later)
  OBVIOUS
<1>2. l \in Seq(OfTradeUnderReview(t)) /\ Len(l) = n /\ n \in Nat
  <2>1. OfTradeUnderReview(t) \in SUBSET decisions
    BY DEF OfTradeUnderReview
  <2>2. LatestFirst(l, OfTradeUnderReview(t))
    BY <1>1, <2>1, OrderedDecisionsList
  <2> QED
    BY <2>2 DEF LatestFirst
<1>3. History(t) = [i \in 1 .. n |-> Last(pages[i].items)]
  BY Zenon DEF History
<1> HIDE DEF n
<1>4. PICK told : told = [i \in 1 .. n |-> listTradeDecisions(t, 1, IF i = 1 THEN None ELSE l[i - 1])]
  OBVIOUS
<1>5. \A i \in 1 .. n : /\ Last(told[i].items) = l[i]
                        /\ told[i].nextCursor = IF i < n THEN l[i] ELSE None
  <2> SUFFICES ASSUME NEW i \in 1 .. n
               PROVE  /\ Last(told[i].items) = l[i]
                      /\ told[i].nextCursor = IF i < n THEN l[i] ELSE None
    OBVIOUS
  <2>1. PICK m : m = i - 1
    OBVIOUS
  <2>2. m \in 0 .. Len(l) - 1 /\ m + 1 = i /\ (m = 0 <=> i = 1)
    BY <1>2, <2>1
  <2>3. PICK cursor : cursor = IF m = 0 THEN None ELSE l[m]
    OBVIOUS
  <2>4. told[i] = listTradeDecisions(t, 1, cursor)
    BY <1>4, <2>1, <2>2, <2>3
  <2>5. /\ Last(listTradeDecisions(t, 1, cursor).items) = l[m + 1]
        /\ listTradeDecisions(t, 1, cursor).nextCursor
             = IF m + 1 < Len(l) THEN l[m + 1] ELSE None
    <3>1. CursorIn(t, l, m, cursor)
      BY <1>1, <2>2, <2>3 DEF CursorIn
    <3> QED
      BY <3>1, PageAfter
  <2> QED
    BY <1>2, <2>2, <2>4, <2>5
<1>6. \A i \in 1 .. n \ {1} : i - 1 \in 1 .. n /\ i - 1 < n /\ told[i - 1].nextCursor = l[i - 1]
  BY <1>2, <1>5
<1>7. told = Followed(told)
  BY <1>4, <1>6
<1>8. pages = Followed(pages)
  BY <1>7
<1> HIDE DEF pages
<1>9. \A i \in 1 .. n : pages[i] = told[i]
  <2> DEFINE astray == {i \in 1 .. n : pages[i] # told[i]}
  <2> SUFFICES ASSUME astray # {}
               PROVE  FALSE
    OBVIOUS
  <2>1. astray \in SUBSET Nat /\ IsFiniteSet(astray)
    <3>1. IsFiniteSet(1 .. n)
      BY <1>2, FS_Interval
    <3> QED
      BY <1>2, <3>1, FS_Subset
  <2>2. StrictOrder(astray, Less)
    BY <2>1, LessIsAnOrder
  <2>3. PICK first \in astray : \A j \in astray : ~(j < first)
    <3> HIDE DEF astray
    <3>1. Lists(InOrder(astray, Less), Cardinality(astray), astray, Less)
      BY <2>1, <2>2, InOrderLists
    <3>2. PICK f, c : f = InOrder(astray, Less) /\ c = Cardinality(astray)
      OBVIOUS
    <3>3. Lists(f, c, astray, Less)
      BY <3>1, <3>2
    <3>4. c \in Nat /\ f \in [1 .. c -> astray]
      BY <3>3 DEF Lists
    <3>5. \A j \in astray : \E k \in 1 .. c : f[k] = j
      BY <3>3 DEF Lists
    <3>6. 1 \in 1 .. c /\ f[1] \in astray
      BY <3>4, <3>5
    <3>7. ASSUME NEW j \in astray, j < f[1]
          PROVE  FALSE
      <4>1. PICK k \in 1 .. c : f[k] = j
        BY <3>5
      <4>2. <<f[k], f[1]>> \in Less
        BY <2>1, <3>6, <3>7, <4>1 DEF Less
      <4>3. k < 1
        BY <3>3, <3>6, <4>2 DEF Lists
      <4> QED
        BY <3>4, <4>3
    <3> QED
      BY <3>6, <3>7
  <2>4. first \in 1 .. n /\ pages[first] # told[first]
    OBVIOUS
  <2>5. first # 1 => pages[first - 1] = told[first - 1]
    BY <1>2, <2>3, <2>4
  <2>6. pages[first] = listTradeDecisions(t, 1, IF first = 1 THEN None ELSE pages[first - 1].nextCursor)
    BY <1>8, <2>4
  <2>7. told[first] = listTradeDecisions(t, 1, IF first = 1 THEN None ELSE told[first - 1].nextCursor)
    BY <1>7, <2>4
  <2> QED
    BY <2>4, <2>5, <2>6, <2>7
<1>10. History(t) = [i \in 1 .. n |-> l[i]]
  BY <1>3, <1>5, <1>9
<1>11. [i \in 1 .. n |-> l[i]] = l
  BY <1>2
<1> QED
  BY <1>1, <1>10, <1>11

(***************************************************************************)
(* The history that a client pages through holds every decision of the     *)
(* trade once, and a decision comes before each one that its request had   *)
(* read, for any number of requests, decisions and trades; and the store   *)
(* of the tests gives the same latest decision and the same pages          *)
(* (complianceService.ts:285, complianceStore.ts:410, 591).                *)
(***************************************************************************)
THEOREM DecisionsInOrderHolds == GatewaySpec => []DecisionsInOrder
<1>1. OrderInv => DecisionsInOrder
  <2> SUFFICES ASSUME OrderInv, NEW t \in TradesUnderReview
               PROVE  /\ ToSet(History(t)) = OfTradeUnderReview(t)
                      /\ StoresAgreeOn(t)
                      /\ \A i, j \in DOMAIN History(t) :
                           History(t)[j].id \in History(t)[i].seen => i < j
    BY DEF DecisionsInOrder
  <2> DEFINE S == OfTradeUnderReview(t)
  <2>1. PICK l : l = History(t)
    OBVIOUS
  <2>2. /\ l \in Seq(S) /\ Len(l) \in Nat
        /\ \A i \in 1 .. Len(l) : l[i] \in S
        /\ \A i, j \in 1 .. Len(l) : i < j <=> Later(l[i], l[j])
        /\ \A d \in S : \E i \in 1 .. Len(l) : l[i] = d
    <3>1. S \in SUBSET decisions
      BY DEF OfTradeUnderReview
    <3>2. l = Ordered(S, Later)
      BY <2>1, HistoryIsList
    <3>3. LatestFirst(l, S)
      BY <3>1, <3>2, OrderedDecisionsList
    <3> HIDE DEF S
    <3> QED
      BY <3>3 DEF LatestFirst
  <2>3. ToSet(l) = S
    BY <2>2 DEF ToSet
  <2>4. StoresAgreeOn(t)
    BY LatestIsHead, MemoryAnswersAlike DEF StoresAgreeOn
  <2>5. ASSUME NEW i \in DOMAIN l, NEW j \in DOMAIN l, l[j].id \in l[i].seen
        PROVE  i < j
    <3>1. i \in 1 .. Len(l) /\ j \in 1 .. Len(l)
      BY <2>2
    <3>2. /\ l[i] \in decisions /\ l[i].trade = t /\ l[i].decidedAt \in Int
          /\ l[j] \in S /\ l[j].decidedAt \in Int
      BY <2>2, <3>1
         DEF OfTradeUnderReview, OrderInv, GatewayTypeOK, DecisionsOK, ComplianceDecisionRecord
    <3>3. l[j].decidedAt < l[i].decidedAt
      BY <2>5, <3>2 DEF OrderInv, DatedAfter
    <3>4. Later(l[i], l[j])
      BY <3>2, <3>3 DEF Later
    <3> QED
      BY <2>2, <3>1, <3>4
  <2> QED
    BY <2>1, <2>3, <2>4, <2>5
<1> QED
  BY <1>1, OrderInvariance, PTL

===============================================================================
