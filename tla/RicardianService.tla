--------------------------- MODULE RicardianService ---------------------------
(***************************************************************************)
(* ricardian/src: a message that passes the service authentication is held *)
(* against the rate limits of its caller, and then stores the hash of a    *)
(* document (POST /hash) or reads one (GET /hash/:hash).                   *)
(*                                                                         *)
(* JSON values are atoms, arrays and objects; an object is the sequence of *)
(* its members in the order in which they were sent.  The hash function    *)
(* tells different inputs apart, so that a hash is the text it was made    *)
(* from.                                                                   *)
(***************************************************************************)
EXTENDS RateLimiter, SequencesExt

CONSTANT MaxDeliveries    \* bound on the deliveries of messages

VARIABLES
  ricardianHashes, \* ricardian_hashes, in order of creation
  receipts,        \* what each stored document was answered
  deliveries

ricardianVars == <<limiterVars, ricardianHashes, receipts, deliveries>>

RicardianInit ==
  /\ LimiterInit
  /\ ricardianHashes = <<>>
  /\ receipts = {}
  /\ deliveries = 0

------------------------------------------------------------------------------
(* Canonical form *)

IsArray(v) == v.type = "array"
IsObject(v) == v.type = "object"

\* Mutant: the members keep the order in which they were sent.
SortedMembers_sent(members) == members

SortedMembers(members) == SetToSortSeq(ToSet(members), LAMBDA a, b : a.key < b.key)

RECURSIVE canonicalize(_), canonicalizeObject(_), canonicalizeArray(_)
canonicalizeObject(v) ==
  LET sorted == SortedMembers(v.members) IN
    [type |-> "object",
     members |-> [i \in DOMAIN sorted |->
                    [key |-> sorted[i].key, value |-> canonicalize(sorted[i].value)]]]

canonicalizeArray(v) ==
  [type |-> "array", items |-> [i \in DOMAIN v.items |-> canonicalize(v.items[i])]]

canonicalize(v) ==
  CASE IsArray(v)  -> canonicalizeArray(v)
    [] IsObject(v) -> canonicalizeObject(v)
    [] OTHER       -> v

\* What a JSON value means: the members of an object have no order.
RECURSIVE Meaning(_)
Meaning(v) ==
  CASE IsArray(v)  -> [type |-> "array", items |-> [i \in DOMAIN v.items |-> Meaning(v.items[i])]]
    [] IsObject(v) -> [type |-> "object",
                       members |-> {[key |-> m.key, value |-> Meaning(m.value)] : m \in ToSet(v.members)}]
    [] OTHER       -> v

buildRicardianHash(request) ==
  [documentRef |-> request.documentRef,
   metadata    |-> canonicalize(request.metadata),
   terms       |-> canonicalize(request.terms)]

------------------------------------------------------------------------------
(* The routes *)

\* INSERT ... ON CONFLICT (hash, document_ref) DO UPDATE SET metadata.
createRicardianHash(i, request) ==
  LET hash == buildRicardianHash(request)
      row  == [hash |-> hash, documentRef |-> request.documentRef,
               requestId |-> i, metadata |-> request.metadata]
      at   == {n \in DOMAIN ricardianHashes :
                 ricardianHashes[n].hash = hash /\ ricardianHashes[n].documentRef = request.documentRef}
  IN IF at = {} THEN Append(ricardianHashes, row)
     ELSE [n \in DOMAIN ricardianHashes |->
             IF n \in at THEN [ricardianHashes[n] EXCEPT !.metadata = request.metadata]
             ELSE ricardianHashes[n]]

\* The newest row with the hash.
getRicardianHash(hash) ==
  LET at == {n \in DOMAIN ricardianHashes : ricardianHashes[n].hash = hash} IN
    IF at = {} THEN None ELSE ricardianHashes[Max(at)]

routeKind(m) == IF m.content.op = "createHash" THEN "write" ELSE "read"

\* The controller.
createHash(i, request) ==
  /\ ricardianHashes' = createRicardianHash(i, request)
  /\ receipts' = receipts \cup {[request |-> request, hash |-> buildRicardianHash(request)]}

getHash == UNCHANGED <<ricardianHashes, receipts>>

controller(i) ==
  IF routeKind(messages[i]) = "write" THEN createHash(i, messages[i].content.request)
                                      ELSE getHash

\* What the limiter makes of message i, once authenticated.
limited(i) ==
  LET caller == callerContext(messages[i])
      route  == routeKind(messages[i])
  IN \/ admit(caller, route) /\ controller(i)
     \/ refuse(caller, route) /\ UNCHANGED <<ricardianHashes, receipts>>
     \/ limiterFails(caller, route) /\ UNCHANGED <<ricardianHashes, receipts>>

\* A delivery of message i: the middlewares and the controller, in this order.
handle(i) ==
  /\ deliveries < MaxDeliveries
  /\ deliveries' = deliveries + 1
  /\ createServiceAuthMiddleware(i)
  /\ limited(i)

------------------------------------------------------------------------------

(***************************************************************************)
(* Two requests are answered with the same hash exactly when they say the  *)
(* same, in whatever order they list the members of their objects, at any  *)
(* depth; and the hash that a client was given leads to the one row of its *)
(* document (canonicalize.ts:17, queries.ts:27).                           *)
(***************************************************************************)
OneRowPerDocument ==
  /\ \A a, b \in receipts :
       a.hash = b.hash <=>
         /\ a.request.documentRef = b.request.documentRef
         /\ Meaning(a.request.metadata) = Meaning(b.request.metadata)
         /\ Meaning(a.request.terms) = Meaning(b.request.terms)
  /\ \A a \in receipts :
       /\ getRicardianHash(a.hash) # None
       /\ getRicardianHash(a.hash).documentRef = a.request.documentRef
       /\ Cardinality({n \in DOMAIN ricardianHashes : ricardianHashes[n].hash = a.hash}) = 1

===============================================================================
