------------------------------ MODULE ServiceAuth -----------------------------
(***************************************************************************)
(* shared-auth, and the oracle's own middleware: how services authenticate *)
(* each other's requests.  A client signs what it sends together with a    *)
(* timestamp; the server accepts a timestamp within a skew and each nonce  *)
(* once while it keeps it.  The network delivers a message late, again, or *)
(* never.                                                                  *)
(***************************************************************************)
EXTENDS WallClock, Sequences, FiniteSets, FiniteSetsExt

CONSTANTS
  ApiKeys,           \* what the server is configured with: id -> active
  Contents,          \* what a message may ask for
  SharedSecret,      \* whether the server takes messages without an api key
  NonceStores,       \* the stores to try: "memory", "postgres", "redis", and the oracle's
  maxSkewSeconds,
  maxAge, maxAhead,  \* of a timestamp, for the oracle: 5 minutes and 1 minute
  nonceTtlSeconds,
  maxEntries,        \* of the in-memory store
  ClientAhead,       \* how far a client's clock is ahead at most
  NoNonce,           \* a message without a nonce header
  MaxMessages        \* bound on the messages that clients sign

ASSUME ServiceAuthAssumption ==
  /\ {maxSkewSeconds, nonceTtlSeconds, maxEntries, maxAge, maxAhead} \subseteq Nat \ {0}
  /\ ClientAhead \in Nat
  /\ NonceStores \subseteq {"memory", "postgres", "redis", "oracle"}

VARIABLES
  nonceStore,        \* the kind in use
  messages,          \* what was signed, in order
  consumed,          \* the nonces kept, numbered in the order in which they came
  evicted,           \* those dropped before their time
  accepted           \* ghost: when each message passed

serviceAuthVars == <<nonceStore, messages, consumed, evicted, accepted>>

ServiceAuthInit ==
  /\ nonceStore \in NonceStores
  /\ messages = <<>>
  /\ consumed = {}
  /\ evicted = {}
  /\ accepted = <<>>

\* A client signs a message by its own clock, with an api key or with the shared secret,
\* and with a fresh nonce or without one.
createServiceAuthHeaders(key, content, ahead, withNonce) ==
  /\ Len(messages) < MaxMessages
  /\ messages' = Append(messages,
       [apiKey |-> key, content |-> content, timestamp |-> clock + ahead,
        nonce |-> IF withNonce THEN Len(messages) + 1 ELSE NoNonce])
  /\ accepted' = Append(accepted, <<>>)
  /\ UNCHANGED <<nonceStore, consumed, evicted>>

\* Whose secret a message was signed with.
resolvePrincipal(key) ==
  IF key # None
  THEN IF key \in DOMAIN ApiKeys THEN [id |-> key, active |-> ApiKeys[key]] ELSE None
  ELSE IF SharedSecret THEN [id |-> "__shared_hmac__", active |-> TRUE] ELSE None

\* A hash of what is signed: two equal messages of one second have the same.
deriveNonce(m) == <<m.content, m.timestamp>>

\* The nonce header, or else the derived one, is kept for each principal.
nonceOf(m) ==
  <<resolvePrincipal(m.apiKey).id, IF m.nonce # NoNonce THEN <<m.nonce>> ELSE deriveNonce(m)>>

skew(m) == IF m.timestamp > clock THEN m.timestamp - clock ELSE clock - m.timestamp

\* Mutant: an entry goes one tick before its time.
pruneExpired_early == {e \in consumed : e.expiresAt > clock + 1}

pruneExpired == {e \in consumed : e.expiresAt > clock}

Keeps(entries, n) == \E e \in entries : e.nonce = n

\* Only the memory store drops entries for want of room: the oldest ones.
capStoreSize(entries) ==
  {e \in entries :
     nonceStore = "memory" => Cardinality({f \in entries : f.number > e.number}) < maxEntries}

\* The answers that a store may give.
createInMemoryNonceStore(n) == {~Keeps(pruneExpired, n)}

\* SET key EX ttl NX.
createRedisNonceStore(n) == {~Keeps(pruneExpired, n)}

\* Expired rows are deleted in the statement that inserts, which may meet the expired
\* row of the nonce itself.
createPostgresNonceStore(n) ==
  IF Keeps(pruneExpired, n) THEN {FALSE}
  ELSE IF Keeps(consumed, n) THEN BOOLEAN ELSE {TRUE}

\* The oracle's, with the same statement.
consumeHmacNonce(n) == createPostgresNonceStore(n)

Answers(n) ==
  CASE nonceStore = "memory"   -> createInMemoryNonceStore(n)
    [] nonceStore = "redis"    -> createRedisNonceStore(n)
    [] nonceStore = "postgres" -> createPostgresNonceStore(n)
    [] nonceStore = "oracle"   -> consumeHmacNonce(n)

consume(n) ==
  LET last == Max({e.number : e \in pruneExpired} \cup {0})
      kept == pruneExpired \cup {[nonce |-> n, expiresAt |-> clock + nonceTtlSeconds,
                                 number |-> last + 1]}
  IN /\ TRUE \in Answers(n)
     /\ consumed' = capStoreSize(kept)
     /\ evicted' = evicted \cup {e.nonce : e \in kept \ consumed'}

letPass(i) ==
  /\ consume(nonceOf(messages[i]))
  /\ accepted' = [accepted EXCEPT ![i] = Append(@, clock)]
  /\ UNCHANGED <<nonceStore, messages>>

\* createServiceAuthMiddleware lets message i pass; a refused message changes nothing
\* that a later answer could tell.
createServiceAuthMiddleware(i) ==
  LET m == messages[i] IN
    /\ skew(m) <= maxSkewSeconds
    /\ resolvePrincipal(m.apiKey) # None
    /\ resolvePrincipal(m.apiKey).active
    /\ letPass(i)

\* The oracle has one api key; its middlewares come in this order.
authMiddleware(m) == m.apiKey \in DOMAIN ApiKeys

verifyRequestSignature(m) ==
  /\ clock <= m.timestamp + maxAge
  /\ m.timestamp <= clock + maxAhead

hmacMiddleware(i) == verifyRequestSignature(messages[i]) /\ letPass(i)

oracleAuthenticated(i) == authMiddleware(messages[i]) /\ hmacMiddleware(i)

\* For how long the timestamp of a message passes, at most.
TimestampLasts == IF nonceStore = "oracle" THEN maxAge + maxAhead ELSE 2 * maxSkewSeconds

(***************************************************************************)
(* However often the network delivers what a client signed, it is accepted *)
(* once for each lifetime of a nonce, and so once if a nonce outlives the  *)
(* timestamps, which the configurations allow and do not enforce           *)
(* (oracle/src/config.ts:102, ricardian/src/config.ts:146).  The in-memory *)
(* store alone forgets nonces, the oldest ones, when it is full            *)
(* (nonceStore.js:28, serviceAuth.js:211, oracle middleware.ts:62).        *)
(***************************************************************************)
AcceptedOnce ==
  \A i \in DOMAIN accepted :
    \/ nonceStore = "memory" /\ nonceOf(messages[i]) \in evicted
    \/ /\ \A k \in 1 .. Len(accepted[i]) - 1 :
            accepted[i][k + 1] >= accepted[i][k] + nonceTtlSeconds
       /\ nonceTtlSeconds > TimestampLasts => Len(accepted[i]) <= 1

===============================================================================
