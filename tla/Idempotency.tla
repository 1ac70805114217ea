----------------------------- MODULE Idempotency ------------------------------
(***************************************************************************)
(* The front of every mutation route of the gateway: the caller's session  *)
(* is resolved with the auth service (gateway/src/middleware/auth.ts), its *)
(* Idempotency-Key reserved in Postgres, and the answer stored under the   *)
(* key once it is sent (gateway/src/middleware/idempotency.ts).  Clients   *)
(* may send a request again at any time.                                   *)
(***************************************************************************)
EXTENDS AuthSessions

CONSTANTS
  Requests,        \* requests that may be under way at the same time
  IdempotencyKeys,
  Bodies,          \* what a request may ask for: method, path and body at once
  WriteAllowlist,  \* the wallets of the allowlist
  EnableMutations,
  MaxRequests,     \* bound on the number of requests
  MaxFaults        \* bound on failing database statements and crashes, together

\* A stored key: the request it was reserved for and, once it is sent, the answer.
IdempotencyRecord == [body : Bodies, response : Int \cup {None}]

ASSUME IdempotencyAssumption ==
  /\ EnableMutations \in BOOLEAN
  /\ WriteAllowlist \subseteq Wallets
  /\ None \notin IdempotencyRecord

VARIABLES
  keys,            \* idempotency_keys: None, or the body and the stored response
  requests,
  arrived, failures, gatewayCrashes,
  effects,         \* committed writes of the requests with each key
  serverErrors     \* 5xx answers to requests that had reserved each key

idempotencyVars ==
  <<keys, requests, arrived, failures, gatewayCrashes, effects, serverErrors>>

NoRequest == [pc |-> "idle"]

IdempotencyInit ==
  /\ keys = [k \in IdempotencyKeys |-> None]
  /\ requests = [r \in Requests |-> NoRequest]
  /\ arrived = 0
  /\ failures = 0
  /\ gatewayCrashes = 0
  /\ effects = [k \in IdempotencyKeys |-> 0]
  /\ serverErrors = [k \in IdempotencyKeys |-> 0]

Continue(r, request) == requests' = [requests EXCEPT ![r] = request]

mapGatewayRoles(session) ==
  IF session.role = "admin" THEN {"operator:read", "operator:write"} ELSE {}

matchesAllowlist(session) == session.wallet \in WriteAllowlist

requireMutationWriteAccess(session) ==
  /\ "operator:write" \in mapGatewayRoles(session)
  /\ EnableMutations /\ matchesAllowlist(session)

\* The session that the auth service resolves the bearer token to, None when it does not.
resolveSession(s) == getSession(s)

createAuthenticationMiddleware(s) ==
  LET session == resolveSession(s) IN
  session # None /\ requireMutationWriteAccess(session)

\* A request that is refused, or for which the auth service does not answer in time
\* (503), changes nothing.
authenticate(r, s, k, body) ==
  /\ requests[r] = NoRequest
  /\ arrived < MaxRequests
  /\ createAuthenticationMiddleware(s)
  /\ arrived' = arrived + 1
  /\ Continue(r, [pc |-> "reserve", key |-> k, body |-> body])
  /\ UNCHANGED <<keys, failures, gatewayCrashes, effects, serverErrors>>

Reserved(body) == [body |-> body, response |-> None]

\* Mutant: the key is looked up first and written, whatever is there by then, afterwards.
createPending_looked(r) ==
  LET q == requests[r] IN
  /\ \/ /\ q.pc = "reserve"
        /\ Continue(r, [q EXCEPT !.pc = IF keys[q.key] = None THEN "free" ELSE "conflict"])
        /\ UNCHANGED keys
     \/ /\ q.pc = "free"
        /\ keys' = [keys EXCEPT ![q.key] = Reserved(q.body)]
        /\ Continue(r, [q EXCEPT !.pc = "handle"])
  /\ UNCHANGED <<arrived, failures, gatewayCrashes, effects, serverErrors>>

\* INSERT ... ON CONFLICT DO NOTHING.
createPending(r) ==
  LET q == requests[r] IN
  /\ q.pc = "reserve"
  /\ IF keys[q.key] = None
     THEN /\ keys' = [keys EXCEPT ![q.key] = Reserved(q.body)]
          /\ Continue(r, [q EXCEPT !.pc = "handle"])
     ELSE /\ Continue(r, [q EXCEPT !.pc = "conflict"])
          /\ UNCHANGED keys
  /\ UNCHANGED <<arrived, failures, gatewayCrashes, effects, serverErrors>>

\* The key is read in a second statement and may be gone, or completed, by then: the
\* request is answered by the stored response, or by an error, and changes nothing.
answerConflict(r) ==
  /\ requests[r].pc = "conflict"
  /\ Continue(r, NoRequest)
  /\ UNCHANGED <<keys, arrived, failures, gatewayCrashes, effects, serverErrors>>

\* The handler's answer is sent; the key is written afterwards, and nobody waits for it.
Respond(r, status) ==
  LET q == requests[r] IN
  /\ Continue(r, [pc |-> "finish", key |-> q.key, status |-> status])
  /\ serverErrors' = [serverErrors EXCEPT ![q.key] = IF status >= 500 THEN @ + 1 ELSE @]

\* The row of a key after the UPDATE, and after the conditional DELETE.
complete(row, status) == IF row = None THEN None ELSE [row EXCEPT !.response = status]
releasePending(row)   == IF row = None \/ row.response = None THEN None ELSE row

finish(r) ==
  /\ requests[r].pc = "finish"
  /\ LET q == requests[r] IN
       keys' = [keys EXCEPT ![q.key] =
                  IF q.status >= 500 THEN releasePending(@) ELSE complete(@, q.status)]
  /\ Continue(r, NoRequest)
  /\ UNCHANGED <<arrived, failures, gatewayCrashes, effects, serverErrors>>

\* The process ends: what it had under way is gone, the reservations stay.
gatewayCrash ==
  /\ failures + gatewayCrashes < MaxFaults
  /\ gatewayCrashes' = gatewayCrashes + 1
  /\ requests' = [r \in Requests |-> NoRequest]
  /\ UNCHANGED <<keys, arrived, failures, effects, serverErrors>>

IdempotencyStep ==
  \/ \E r \in Requests :
       \/ \E s \in DOMAIN sessions, k \in IdempotencyKeys, body \in Bodies :
            authenticate(r, s, k, body)
       \/ createPending(r) \/ answerConflict(r) \/ finish(r)
  \/ gatewayCrash

------------------------------------------------------------------------------

(***************************************************************************)
(* However often a request is sent with a key, at the same time or again   *)
(* after an answer, a lost answer or a crash, it is carried out once, and  *)
(* once more only for each 5xx answer: those give the key back, also when  *)
(* the write had been committed before the error (idempotency.ts:62-132).  *)
(***************************************************************************)
OneEffectPerKey == \A k \in IdempotencyKeys : effects[k] <= 1 + serverErrors[k]

===============================================================================
