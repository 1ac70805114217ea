------------------------------ MODULE AuthClient ------------------------------
(***************************************************************************)
(* sdk/src/modules/authClient.ts: what browsers ask of the auth service.   *)
(* A login takes two requests, with the wallet's signature in between; the *)
(* application keeps the session id and passes it to the other calls, from *)
(* as many tabs as it likes.  Any answer may be lost.                      *)
(***************************************************************************)
EXTENDS AuthSessions

Idle(c) == authCalls[c] = NoAuthCall

\* The first half of login: the challenge, which the wallet signs when it arrives.
requestChallenge(c, w, received) ==
  /\ Idle(c)
  /\ getChallenge(w)
  /\ Goto(c, IF received
             THEN [pc |-> "sign", wallet |-> w, signed |-> buildChallengeMessage(w, nonces')]
             ELSE NoAuthCall)

\* The second half.
postLogin(c, role, ttl) ==
  /\ authCalls[c].pc = "sign"
  /\ login(c, authCalls[c].wallet, authCalls[c].signed, role, ttl)

\* Sessions whose id an application has.
Held == {s \in DOMAIN sessions : sessions[s].answered}

refreshSession(c, s) == Idle(c) /\ authenticated(c, s, "refresh")

logout(c, s) == Idle(c) /\ authenticated(c, s, "revoke")

\* The user leaves the page before signing.
abandon(c) ==
  /\ authCalls[c].pc = "sign"
  /\ Goto(c, NoAuthCall)
  /\ UNCHANGED <<challenges, nonces, profiles, sessions, authCrashes>>

AuthClientStep ==
  \E c \in AuthCalls :
    \/ \E w \in Wallets, received \in BOOLEAN : requestChallenge(c, w, received)
    \/ \E role \in UserRoles, ttl \in RequestedTtls : postLogin(c, role, ttl)
    \/ \E s \in Held : refreshSession(c, s) \/ logout(c, s)
    \/ abandon(c)

===============================================================================
