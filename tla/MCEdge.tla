-------------------------------- MODULE MCEdge --------------------------------
(***************************************************************************)
(* The services at the edge, on small instances.  Each scenario runs one   *)
(* of them beside the clock:                                               *)
(*   - sessions:      two calls at a time to the auth service,             *)
(*   - compliance:    two requests at a time to the gateway, which race    *)
(*                    over one trade and its oracle progression,           *)
(*   - signed:        messages, with and without nonces of their own, by   *)
(*                    clocks that are right or ahead, through one kind of  *)
(*                    store or another and the rate limits,                *)
(*   - documents:     documents that say the same, or nearly so,           *)
(*   - notifications: two notifications at a time,                         *)
(*   - operators:     one who pages through the governance queue.          *)
(***************************************************************************)
EXTENDS Compliance, AuthClient, RicardianService, Notifications, GovernancePages

CONSTANTS a1, a2, r1, r2, n1, n2, alice, k1, k2, svc

VARIABLE scenario

OneWallet == {alice}
LongTtl == {3}
TwoAuthCalls == {a1, a2}
TwoRequests == {r1, r2}
TwoKeys == {k1, k2}
TwoNotifies == {n1, n2}
SomeFindings ==
  {[tradeId |-> 1, mismatchCode |-> code,
    severity |-> IF code = "STATUS_MISMATCH" THEN "HIGH" ELSE "CRITICAL"] :
     code \in {"STATUS_MISMATCH", "AMOUNT_MISMATCH", "HASH_MISMATCH"}}
OneApiKey == [key \in {svc} |-> TRUE]

\* What requests to the gateway ask for: a denial, an override, a block, and resumptions
\* that name no decision, the old one of the trade or one of another trade.
Decide(t, result, reason, ends) ==
  [op |-> "decide", trade |-> t, result |-> result, reason |-> reason, ends |-> ends]
Control(op, t, d) == [op |-> op, trade |-> t, decision |-> d]

ReviewBodies ==
  {Decide(1, "DENY", "CMP_SANCTIONS_MATCH", None), Decide(1, "ALLOW", Override, 2),
   Control("block", 1, None),
   Control("resume", 1, None), Control("resume", 1, 3), Control("resume", 1, 2)}

\* What earlier requests left behind: an ALLOW of each trade, and the first one blocked.
Recorded(t, id) ==
  [id |-> id, trade |-> t, result |-> "ALLOW", reason |-> "CMP_OK", ends |-> None,
   decidedAt |-> 1, seen |-> {}]

UnderReview ==
  /\ decisions = {Recorded(1, 3), Recorded(2, 2)}
  /\ blocks = [t \in TradesUnderReview |->
                 IF t = 1 THEN [state |-> "blocked", decision |-> 3, seen |-> {}] ELSE None]
  /\ auditLog = SetToBag({[event |-> "recorded", decision |-> 3],
                          [event |-> "recorded", decision |-> 2],
                          [event |-> "blocked", decision |-> 3]})

\* Documents that say the same in another order, at the top and within, and others.
Atom(n) == [type |-> "atom", value |-> n]
Object(members) == [type |-> "object", members |-> members]
List(items) == [type |-> "array", items |-> items]
Member(k, v) == [key |-> k, value |-> v]

Nested(first, second) ==
  Object(<<Member(1, Object(<<Member(first, Atom(first)), Member(second, Atom(second))>>))>>)

Request(terms) == [documentRef |-> "doc", metadata |-> Object(<<>>), terms |-> terms]

SomeContents ==
  {[op |-> "createHash", request |-> Request(terms)] :
     terms \in {Object(<<Member(1, Atom(1)), Member(2, List(<<Atom(1), Atom(2)>>))>>),
                Object(<<Member(2, List(<<Atom(1), Atom(2)>>)), Member(1, Atom(1))>>),
                Object(<<Member(1, Atom(1)), Member(2, List(<<Atom(2), Atom(1)>>))>>),
                Nested(1, 2), Nested(2, 1)}}
  \cup {[op |-> "getHash"]}

\* The signed scenario is about two of them.
Plain == {content \in SomeContents :
            content.op = "getHash" \/ content.request.terms = Nested(1, 2)}

\* One client has an api key and a clock that is ahead, the other the shared secret and
\* only reads.
Clients ==
  {[key |-> svc, ahead |-> ClientAhead, sends |-> Plain],
   [key |-> None, ahead |-> 0, sends |-> {[op |-> "getHash"]}]}

NarrowPolicy ==
  [route \in {"write", "read"} |->
     [burst |-> [limit |-> 1, windowSeconds |-> 1],
      sustained |-> [limit |-> 1, windowSeconds |-> 3]]]

\* The queue by category and status, as a whole, for a trade, and with a limit of no rows.
Ask(category, status, trade, limit) ==
  [category |-> category, status |-> status, tradeId |-> trade, limit |-> limit]

SomeQueries ==
  {Ask("pause", "requested", None, 1), Ask(None, None, None, 2),
   Ask(None, None, 1, None), Ask(None, None, None, 0)}

\* How long each scenario lasts.
Ends == [sessions |-> 2, compliance |-> 2, signed |-> 4, documents |-> 5, notifications |-> 4,
         operators |-> 2]

AdminSession ==
  [wallet |-> alice, role |-> "admin", issuedAt |-> 1, expiresAt |-> 3, revokedAt |-> None,
   parent |-> None, answered |-> TRUE]

edgeVars == <<authVars, idempotencyVars, complianceVars, serviceAuthVars, ricardianVars,
              notificationVars, pagesVars>>
vars == <<edgeVars, clock, scenario>>

Init ==
  /\ ClockInit
  /\ scenario \in DOMAIN Ends
  /\ IdempotencyInit
  /\ IF scenario = "compliance" THEN UnderReview ELSE ComplianceInit
  /\ NotificationsInit
  /\ PagesInit
  /\ IF scenario = "compliance"
     THEN /\ sessions = <<AdminSession>>
          /\ authCalls = [c \in AuthCalls |-> NoAuthCall]
          /\ challenges = [w \in Wallets |-> None]
          /\ profiles = [w \in Wallets |-> [role |-> "admin", active |-> TRUE]]
          /\ nonces = 1
          /\ authCrashes = 0
     ELSE AuthInit
  /\ ServiceAuthInit /\ RicardianInit
  /\ IF scenario = "signed" THEN (limitStore = "memory") <=> (nonceStore = "memory")
     ELSE nonceStore = "memory" /\ limitStore = "memory"

Quiet(extra) == UNCHANGED <<extra, clock, scenario>>

Sessions ==
  /\ scenario = "sessions"
  /\ AuthStep \/ AuthClientStep
  /\ Quiet(<<idempotencyVars, complianceVars, serviceAuthVars, ricardianVars, notificationVars,
             pagesVars>>)

Gateway ==
  /\ scenario = "compliance"
  /\ \/ ComplianceStep
     \/ IdempotencyStep /\ UNCHANGED complianceVars
  /\ Quiet(<<authVars, serviceAuthVars, ricardianVars, notificationVars, pagesVars>>)

Sign ==
  /\ \/ /\ scenario = "signed" /\ Len(messages) < 2
        /\ \E client \in Clients, withNonce \in BOOLEAN : \E content \in client.sends :
             createServiceAuthHeaders(client.key, content, client.ahead, withNonce)
     \/ /\ scenario = "documents" /\ deliveries = Len(messages)
        /\ \E content \in Contents \ {[op |-> "getHash"]} :
             createServiceAuthHeaders(svc, content, 0, TRUE)
  /\ Quiet(<<authVars, idempotencyVars, complianceVars, ricardianVars, notificationVars, pagesVars>>)

\* To Ricardian, or to the oracle: what it does then is OracleService.
Deliver ==
  /\ scenario \in {"signed", "documents"}
  /\ \E i \in DOMAIN messages :
       \/ nonceStore # "oracle" /\ handle(i)
       \/ /\ nonceStore = "oracle"
          /\ deliveries < MaxDeliveries
          /\ oracleAuthenticated(i)
          /\ deliveries' = deliveries + 1
          /\ UNCHANGED <<limiterVars, ricardianHashes, receipts>>
  /\ Quiet(<<authVars, idempotencyVars, complianceVars, notificationVars, pagesVars>>)

Notifying ==
  /\ scenario = "notifications"
  /\ NotificationStep
  /\ Quiet(<<authVars, idempotencyVars, complianceVars, serviceAuthVars, ricardianVars, pagesVars>>)

Paging ==
  /\ scenario = "operators"
  /\ PagesStep
  /\ Quiet(<<authVars, idempotencyVars, complianceVars, serviceAuthVars, ricardianVars,
             notificationVars>>)

Clock == clock < Ends[scenario] /\ tick /\ UNCHANGED <<edgeVars, scenario>>

Next == Sessions \/ Gateway \/ Sign \/ Deliver \/ Notifying \/ Paging \/ Clock

Spec == Init /\ [][Next]_vars

Symmetry ==
  UNION {Permutations(S) : S \in {TwoAuthCalls, TwoRequests, TwoKeys, TwoNotifies}}

===============================================================================
