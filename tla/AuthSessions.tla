----------------------------- MODULE AuthSessions -----------------------------
(***************************************************************************)
(* auth/src: wallets log in by signing a one-time challenge and get a      *)
(* session, which can be refreshed (exchanged for a new one) and revoked.  *)
(* Challenges are kept in memory, profiles and sessions in Postgres; every *)
(* statement of a call is a step of its own.                               *)
(***************************************************************************)
EXTENDS WallClock, Sequences

CONSTANTS
  Wallets,
  UserRoles,
  AuthCalls,            \* calls that may be under way at the same time
  CHALLENGE_TTL_SECONDS,
  MaxSessionTtlSeconds,
  DefaultTtlSeconds,
  RequestedTtls,        \* what a login may ask for; None is no ttlSeconds
  MaxSessions,          \* bound on the number of sessions
  MaxChallenges,        \* bound on the number of challenges
  MaxAuthCrashes

ASSUME AuthAssumption ==
  /\ {CHALLENGE_TTL_SECONDS, MaxSessionTtlSeconds, DefaultTtlSeconds} \subseteq Nat \ {0}
  /\ RequestedTtls \subseteq Int \cup {None}

VARIABLES
  challenges,           \* by wallet, in memory
  nonces,               \* number of nonces drawn so far
  profiles,             \* user_profiles, by wallet
  sessions,             \* user_sessions; the position is the random session id
  authCalls,
  authCrashes

authVars == <<challenges, nonces, profiles, sessions, authCalls, authCrashes>>

NoAuthCall == [pc |-> "idle"]

AuthInit ==
  /\ challenges = [w \in Wallets |-> None]
  /\ nonces = 0
  /\ profiles = [w \in Wallets |-> None]
  /\ sessions = <<>>
  /\ authCalls = [c \in AuthCalls |-> NoAuthCall]
  /\ authCrashes = 0

Goto(c, call) == authCalls' = [authCalls EXCEPT ![c] = call]

------------------------------------------------------------------------------
(* Login *)

setChallenge(w, nonce) ==
  challenges' = [challenges EXCEPT
                   ![w] = [nonce |-> nonce, expiresAt |-> clock + CHALLENGE_TTL_SECONDS]]

\* The nonce that the store holds for wallet w, None when missing or expired.
getNonce(w) ==
  IF challenges[w] # None /\ challenges[w].expiresAt > clock THEN challenges[w].nonce ELSE None

deleteChallenge(w) == challenges' = [challenges EXCEPT ![w] = None]

buildChallengeMessage(w, nonce) == [wallet |-> w, nonce |-> nonce]

\* A new challenge replaces the one that the wallet may have.
getChallenge(w) ==
  /\ nonces < MaxChallenges
  /\ nonces' = nonces + 1
  /\ setChallenge(w, nonces')
  /\ UNCHANGED <<profiles, sessions, authCrashes>>

purgeExpired ==
  /\ \E w \in Wallets : challenges[w] # None /\ getNonce(w) = None
  /\ challenges' = [w \in Wallets |-> IF getNonce(w) = None THEN None ELSE challenges[w]]
  /\ UNCHANGED <<nonces, profiles, sessions, authCalls, authCrashes>>

SafeTtl(ttl) ==
  CASE ttl = None -> DefaultTtlSeconds
    [] ttl > MaxSessionTtlSeconds -> MaxSessionTtlSeconds
    [] ttl < 1 -> 1
    [] OTHER -> ttl

\* The challenge of the wallet is checked against what was signed, and removed when it
\* is the one, before the first await.
login(c, w, signed, role, ttl) ==
  /\ IF getNonce(w) # None /\ signed = buildChallengeMessage(w, getNonce(w))
     THEN /\ deleteChallenge(w)
          /\ Goto(c, [pc |-> "upsert", wallet |-> w, role |-> role, ttl |-> SafeTtl(ttl)])
     ELSE Goto(c, NoAuthCall) /\ UNCHANGED challenges
  /\ UNCHANGED <<nonces, profiles, sessions, authCrashes>>

\* ON CONFLICT DO UPDATE: the role of an existing profile changes, `active' does not.
upsertProfile(w, role) ==
  [role |-> role, active |-> profiles[w] = None \/ profiles[w].active]

\* The service's login: the profile is saved, and a session follows if it is active.
upsert(c) ==
  /\ authCalls[c].pc = "upsert"
  /\ LET call == authCalls[c]
         profile == upsertProfile(call.wallet, call.role)
     IN /\ profiles' = [profiles EXCEPT ![call.wallet] = profile]
        /\ Goto(c, IF profile.active
                   THEN [pc |-> "issue", wallet |-> call.wallet, role |-> profile.role,
                         ttl |-> call.ttl, parent |-> None]
                   ELSE NoAuthCall)
  /\ UNCHANGED <<challenges, nonces, sessions, authCrashes>>

insertSession(wallet, role, expiresAt, parent, received) ==
  sessions' = Append(sessions,
    [wallet |-> wallet, role |-> role, issuedAt |-> clock, expiresAt |-> expiresAt,
     revokedAt |-> None, parent |-> parent, answered |-> received])

\* The answer to a login may be lost: `answered' says that the caller has the session id.
issueSession(c, received) ==
  /\ authCalls[c].pc = "issue"
  /\ Len(sessions) < MaxSessions
  /\ LET call == authCalls[c] IN
       /\ insertSession(call.wallet, call.role, clock + call.ttl, call.parent,
                        call.parent = None /\ received)
       /\ Goto(c, IF call.parent = None THEN NoAuthCall
                  ELSE [pc |-> "retire", session |-> call.parent, child |-> Len(sessions')])
  /\ UNCHANGED <<challenges, nonces, profiles, authCrashes>>

------------------------------------------------------------------------------
(* Sessions *)

findSessionById(s) == IF s \in DOMAIN sessions THEN sessions[s] ELSE None

resolveActive(s) ==
  LET session == findSessionById(s) IN
  session # None /\ session.revokedAt = None /\ session.expiresAt > clock

\* What the middleware attaches to the request.  A lookup that fails is answered like a
\* session that is not active, and changes nothing either.
createSessionMiddleware(s) == IF resolveActive(s) THEN sessions[s] ELSE None

\* GET /session: identity, role and expiry; None stands for the answer 401.
getSession(s) ==
  LET session == createSessionMiddleware(s) IN
  IF session = None THEN None
  ELSE [wallet |-> session.wallet, role |-> session.role, issuedAt |-> session.issuedAt,
        expiresAt |-> session.expiresAt]

\* A call to refresh or revoke, which the middleware lets pass.
authenticated(c, s, next) ==
  /\ createSessionMiddleware(s) # None
  /\ Goto(c, [pc |-> next, session |-> s])
  /\ UNCHANGED <<challenges, nonces, profiles, sessions, authCrashes>>

refresh(c) ==
  /\ authCalls[c].pc = "refresh"
  /\ LET s == authCalls[c].session IN
       Goto(c, IF resolveActive(s) THEN [pc |-> "profile", session |-> s] ELSE NoAuthCall)
  /\ UNCHANGED <<challenges, nonces, profiles, sessions, authCrashes>>

findProfileById(w) == profiles[w]

\* The new session takes the role that the profile has by now.
findProfile(c) ==
  /\ authCalls[c].pc = "profile"
  /\ LET s == authCalls[c].session
         profile == findProfileById(sessions[s].wallet)
     IN Goto(c, IF profile # None /\ profile.active
                THEN [pc |-> "issue", wallet |-> sessions[s].wallet, role |-> profile.role,
                      ttl |-> DefaultTtlSeconds, parent |-> s]
                ELSE NoAuthCall)
  /\ UNCHANGED <<challenges, nonces, profiles, sessions, authCrashes>>

revokeSession(s) == [sessions EXCEPT ![s].revokedAt = clock]

\* Mutant: the answer does not wait for the revocation.
retire_unawaited(c, received) ==
  /\ authCalls[c].pc = "retire"
  /\ sessions' = [sessions EXCEPT ![authCalls[c].child].answered = received]
  /\ Goto(c, [pc |-> "revoke", session |-> authCalls[c].session])
  /\ UNCHANGED <<challenges, nonces, profiles, authCrashes>>

\* The last lines of refresh: the old session is revoked, the new one returned.
retire(c, received) ==
  /\ authCalls[c].pc = "retire"
  /\ sessions' = [revokeSession(authCalls[c].session) EXCEPT ![authCalls[c].child].answered = received]
  /\ Goto(c, NoAuthCall)
  /\ UNCHANGED <<challenges, nonces, profiles, authCrashes>>

revoke(c) ==
  /\ authCalls[c].pc = "revoke"
  /\ sessions' = revokeSession(authCalls[c].session)
  /\ Goto(c, NoAuthCall)
  /\ UNCHANGED <<challenges, nonces, profiles, authCrashes>>

\* The store's deactivate, which an operator uses: no route calls it.
deactivateProfile(w) ==
  /\ profiles[w] # None /\ profiles[w].active
  /\ profiles' = [profiles EXCEPT ![w].active = FALSE]
  /\ UNCHANGED <<challenges, nonces, sessions, authCalls, authCrashes>>

\* Challenges are lost with the process, and so are the calls that it serves.
authRestart ==
  /\ authCrashes < MaxAuthCrashes
  /\ authCrashes' = authCrashes + 1
  /\ challenges' = [w \in Wallets |-> None]
  /\ authCalls' = [c \in AuthCalls |->
                     IF authCalls[c].pc = "sign" THEN authCalls[c] ELSE NoAuthCall]
  /\ UNCHANGED <<nonces, profiles, sessions>>

AuthStep ==
  \/ \E w \in Wallets : deactivateProfile(w)
  \/ \E c \in AuthCalls :
       \/ upsert(c) \/ refresh(c) \/ findProfile(c) \/ revoke(c)
       \/ \E received \in BOOLEAN : issueSession(c, received) \/ retire(c, received)
  \/ purgeExpired
  \/ authRestart

------------------------------------------------------------------------------

(***************************************************************************)
(* Whoever holds a refreshed session id cannot use the old one any more,   *)
(* whatever two refreshes of one session, a revocation and a crash do in   *)
(* between: refresh answers only after the old session is revoked, and     *)
(* nothing clears revoked_at (sessionService.ts:77).                       *)
(***************************************************************************)
OldSessionRetired ==
  \A s \in DOMAIN sessions :
    sessions[s].answered /\ sessions[s].parent # None =>
      ~resolveActive(sessions[s].parent)

===============================================================================
