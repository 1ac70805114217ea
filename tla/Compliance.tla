------------------------------ MODULE Compliance ------------------------------
(***************************************************************************)
(* The compliance routes of the gateway (gateway/src/core/compliance*.ts): *)
(* decisions on a trade are recorded, and the progression of the trade by  *)
(* the oracle is blocked and resumed on the strength of them.  Reads and   *)
(* writes of a request are statements of their own; the write and its      *)
(* audit row are one transaction.                                          *)
(***************************************************************************)
EXTENDS Idempotency, SequencesExt, Listing

CONSTANTS
  TradesUnderReview,
  Unread,        \* what a request has not read yet
  MaxDecisions   \* bound on the decisions

VARIABLES
  decisions,     \* compliance_decisions
  blocks,        \* oracle_progression_blocks, by trade
  auditLog       \* audit_log, a bag of rows

complianceVars == <<decisions, blocks, auditLog>>

ComplianceInit ==
  /\ decisions = {}
  /\ blocks = [t \in TradesUnderReview |-> None]
  /\ auditLog = EmptyBag

\* Random ids: any order among themselves.
DecisionIds == 1 .. MaxDecisions

DecisionBodies == {body \in Bodies : body.op = "decide"}

\* A stored decision, and the ids of those of its trade recorded by then.
ComplianceDecisionRecord ==
  [id : Int, trade : {b.trade : b \in DecisionBodies}, result : {b.result : b \in DecisionBodies},
   reason : {b.reason : b \in DecisionBodies}, ends : {b.ends : b \in DecisionBodies},
   decidedAt : Int, seen : SUBSET Int]

ASSUME ComplianceAssumption ==
  /\ MaxDecisions \in Nat
  /\ None \notin ComplianceDecisionRecord

Override == "CMP_OVERRIDE_ACTIVE"
DENY_ONLY_REASON_CODES == {"CMP_SANCTIONS_MATCH"}

validateComplianceDecisionCreateRequest(body) ==
  /\ body.reason \in DENY_ONLY_REASON_CODES => body.result = "DENY"
  /\ body.reason = Override => body.result = "ALLOW" /\ body.ends # None /\ body.ends > clock
  /\ body.reason # Override => body.ends = None

------------------------------------------------------------------------------
(* The store *)

OfTradeUnderReview(t) == {d \in decisions : d.trade = t}

\* ORDER BY decided_at DESC, decision_id DESC.
Later(d, e) == d.decidedAt > e.decidedAt \/ (d.decidedAt = e.decidedAt /\ d.id > e.id)

getDecision(id) ==
  IF \E d \in decisions : d.id = id THEN CHOOSE d \in decisions : d.id = id ELSE None

getLatestDecision(t) ==
  IF OfTradeUnderReview(t) = {} THEN None
  ELSE CHOOSE d \in OfTradeUnderReview(t) : \A e \in OfTradeUnderReview(t) \ {d} : Later(d, e)

\* The last item of a full page, if there are more.
nextCursorFromItems(rows, limit) == IF Len(rows) > limit THEN rows[limit] ELSE None

\* A page of the history and the cursor of the next one.
listTradeDecisions(t, limit, cursor) ==
  LET beyond == {d \in OfTradeUnderReview(t) : cursor = None \/ Later(cursor, d)}
      rows   == Ordered(beyond, Later)
  IN [items |-> SubSeq(rows, 1, IF Len(rows) < limit THEN Len(rows) ELSE limit),
      nextCursor |-> nextCursorFromItems(rows, limit)]

\* The store of the tests keeps the decisions in a map and sorts those of a trade.
sortedTradeDecisions(t) == Ordered(OfTradeUnderReview(t), Later)

getLatestDecisionInMemory(t) ==
  IF sortedTradeDecisions(t) = <<>> THEN None ELSE Head(sortedTradeDecisions(t))

listTradeDecisionsInMemory(t, limit, cursor) ==
  LET candidates == Filtered(sortedTradeDecisions(t),
                             LAMBDA d : cursor = None \/ Later(cursor, d))
      page       == SubSeq(candidates, 1, Min({limit + 1, Len(candidates)}))
  IN [items |-> SubSeq(page, 1, Min({limit, Len(page)})),
      nextCursor |-> nextCursorFromItems(page, limit)]

\* A missing row means that the trade was never blocked.
blockState(t) == IF blocks[t] = None THEN "not_blocked" ELSE blocks[t].state

blockedFlag(state) == state \in {"blocked", "resume_pending"}

getTradeStatus(t) ==
  IF getLatestDecision(t) = None THEN None
  ELSE [latest |-> getLatestDecision(t).id, blocked |-> blockedFlag(blockState(t))]

------------------------------------------------------------------------------
(* The service *)

Handling(r, op) == requests[r].pc = "handle" /\ requests[r].body.op = op

Go(r, request) == Continue(r, request) /\ UNCHANGED serverErrors

Bookkeeping == UNCHANGED <<keys, arrived, failures, gatewayCrashes>>

insertAuditLog(entry) == auditLog' = auditLog (+) SetToBag({entry})

decisionAuditMetadata(id)    == [event |-> "recorded", decision |-> id]
blockAuditMetadata(state, d) == [event |-> state, decision |-> d.id]

\* A write and its audit row are committed, and the stored row is read for the answer.
runTransactionalWrite(r, entry, status) ==
  /\ insertAuditLog(entry)
  /\ effects' = [effects EXCEPT ![requests[r].key] = @ + 1]
  /\ Go(r, [pc |-> "readBack", key |-> requests[r].key, status |-> status])

NoWrite == UNCHANGED <<complianceVars, effects>>

\* Mutant: the decision is dated by the clock alone.
nextDecisionTimestamp_clock(t) == clock

nextDecisionTimestamp(t) ==
  LET latest == getLatestDecision(t) IN
    IF latest = None \/ latest.decidedAt < clock THEN clock ELSE latest.decidedAt + 1

\* `seen' is kept for the properties: what was recorded when the request read.
Seen(t) == {d.id : d \in OfTradeUnderReview(t)}

createDecision(r) ==
  /\ Handling(r, "decide")
  /\ LET body == requests[r].body IN
       IF validateComplianceDecisionCreateRequest(body)
       THEN Go(r, [pc |-> "save", key |-> requests[r].key, body |-> body,
                   decidedAt |-> nextDecisionTimestamp(body.trade), seen |-> Seen(body.trade)])
       ELSE Respond(r, 400)
  /\ NoWrite /\ Bookkeeping

insertComplianceDecision(id, q) ==
  decisions' = decisions \cup
    {[id |-> id, trade |-> q.body.trade, result |-> q.body.result, reason |-> q.body.reason,
      ends |-> q.body.ends, decidedAt |-> q.decidedAt, seen |-> q.seen]}

saveDecisionWithAudit(r) ==
  /\ requests[r].pc = "save"
  /\ \E id \in DecisionIds \ {d.id : d \in decisions} :
       /\ insertComplianceDecision(id, requests[r])
       /\ runTransactionalWrite(r, decisionAuditMetadata(id), 201)
  /\ UNCHANGED blocks
  /\ Bookkeeping

\* The stored decision, or requireTradeStatus, is read for the answer.
readBack(r) ==
  /\ requests[r].pc = "readBack"
  /\ Respond(r, requests[r].status)
  /\ NoWrite /\ Bookkeeping

readBlock(r) ==
  /\ \/ Handling(r, "block") /\ blockState(requests[r].body.trade) # "blocked"
     \/ Handling(r, "resume") /\ blockState(requests[r].body.trade) # "not_blocked"
  /\ Go(r, [pc |-> "resolve", key |-> requests[r].key, body |-> requests[r].body,
            requested |-> Unread, latest |-> Unread, seen |-> {}])
  /\ NoWrite /\ Bookkeeping

refuseByBlock(r) ==
  /\ \/ Handling(r, "block") /\ blockState(requests[r].body.trade) = "blocked"
     \/ Handling(r, "resume") /\ blockState(requests[r].body.trade) = "not_blocked"
  /\ Respond(r, 409)
  /\ NoWrite /\ Bookkeeping

\* The decision named by the request, which must exist and be about the trade, or else
\* the latest one.
resolveDecisionForTrade(r) ==
  /\ requests[r].pc = "resolve" /\ requests[r].requested = Unread
  /\ LET body == requests[r].body
         found == IF body.decision = None THEN getLatestDecision(body.trade)
                                          ELSE getDecision(body.decision)
     IN CASE body.decision # None /\ found = None -> Respond(r, 404)
          [] body.decision # None /\ found # None /\ found.trade # body.trade -> Respond(r, 409)
          [] OTHER -> Go(r, [requests[r] EXCEPT !.requested = found])
  /\ NoWrite /\ Bookkeeping

\* resume reads the latest decision beside the requested one, in either order.
readLatest(r) ==
  /\ requests[r].pc = "resolve" /\ requests[r].body.op = "resume"
  /\ requests[r].latest = Unread
  /\ LET t == requests[r].body.trade IN
       Go(r, [requests[r] EXCEPT !.latest = getLatestDecision(t), !.seen = Seen(t)])
  /\ NoWrite /\ Bookkeeping

upsertOracleProgressionBlock(t, state, d, seen) ==
  blocks' = [blocks EXCEPT ![t] = [state |-> state, decision |-> d.id, seen |-> seen]]

\* The write of a block or a resumption that cites decision d.
saveBlockStateWithAudit(r, state, d, seen) ==
  /\ upsertOracleProgressionBlock(requests[r].body.trade, state, d, seen)
  /\ runTransactionalWrite(r, blockAuditMetadata(state, d), 202)
  /\ UNCHANGED decisions

blockOracleProgression(r) ==
  LET q == requests[r] IN
  /\ q.pc = "resolve" /\ q.body.op = "block" /\ q.requested # Unread
  /\ IF q.requested = None
     THEN Respond(r, 409) /\ NoWrite
     ELSE saveBlockStateWithAudit(r, "blocked", q.requested, {})
  /\ Bookkeeping

\* Mutant: the decision named by the request is enough, also when a later one denies.
Resumable_requested(q) ==
  LET d == q.requested IN
    /\ d # None
    /\ d.result = "ALLOW"
    /\ d.reason = Override => d.ends > clock

Resumable(q) ==
  LET d == q.latest IN
    /\ d # None
    /\ q.requested # None => q.requested.id = d.id
    /\ d.result = "ALLOW"
    /\ d.reason = Override => d.ends > clock

\* The answer 409, or the write later on, when the decisions may have changed.
checkResume(r) ==
  LET q == requests[r] IN
  /\ q.pc = "resolve" /\ q.body.op = "resume"
  /\ q.requested # Unread /\ q.latest # Unread
  /\ IF Resumable(q) THEN Go(r, [q EXCEPT !.pc = "resume"]) ELSE Respond(r, 409)
  /\ NoWrite /\ Bookkeeping

resumeOracleProgression(r) ==
  /\ requests[r].pc = "resume"
  /\ saveBlockStateWithAudit(r, "not_blocked", requests[r].latest, requests[r].seen)
  /\ Bookkeeping

\* A statement of a handler fails: the transaction of a write is rolled back, and a read
\* after the commit fails with the write done.
statementFails(r) ==
  /\ failures + gatewayCrashes < MaxFaults
  /\ failures' = failures + 1
  /\ requests[r].pc \in {"handle", "resolve", "save", "resume", "readBack"}
  /\ Respond(r, 500)
  /\ NoWrite
  /\ UNCHANGED <<keys, arrived, gatewayCrashes>>

ComplianceStep ==
  \E r \in Requests :
    \/ createDecision(r) \/ saveDecisionWithAudit(r) \/ readBack(r)
    \/ readBlock(r) \/ refuseByBlock(r)
    \/ resolveDecisionForTrade(r) \/ readLatest(r)
    \/ blockOracleProgression(r) \/ checkResume(r) \/ resumeOracleProgression(r)
    \/ statementFails(r)

------------------------------------------------------------------------------
(* What the decisions and blocks amount to *)

\* The history as a client reads it: pages of one decision, joined by their cursors.
History(t) ==
  LET page[n \in 1 .. Cardinality(OfTradeUnderReview(t))] ==
        listTradeDecisions(t, 1, IF n = 1 THEN None ELSE page[n - 1].nextCursor)
  IN [n \in 1 .. Cardinality(OfTradeUnderReview(t)) |-> Last(page[n].items)]

\* Both stores answer alike.  The decisions alone make the answers, so that it is enough to
\* compare them when no request is in hand.
StoresAgreeOn(t) ==
  (\A r \in Requests : requests[r] = NoRequest) =>
    /\ getLatestDecision(t) = getLatestDecisionInMemory(t)
    /\ \A cursor \in OfTradeUnderReview(t) \cup {None} :
         listTradeDecisions(t, 1, cursor) = listTradeDecisionsInMemory(t, 1, cursor)

(***************************************************************************)
(* The history that a client pages through holds every decision of the     *)
(* trade once, and a decision comes before each one that was recorded when *)
(* its request read the trade, so that the latest decision is one that     *)
(* nobody knew to be superseded, although decisions made at the same time  *)
(* or by a slow clock may be dated alike (complianceService.ts:285,        *)
(* complianceStore.ts:410).  The store that the tests run on gives the same *)
(* pages (line 591).                                                       *)
(***************************************************************************)
DecisionsInOrder ==
  \A t \in TradesUnderReview :
    LET history == History(t) IN
      /\ ToSet(history) = OfTradeUnderReview(t)
      /\ StoresAgreeOn(t)
      /\ \A i, j \in DOMAIN history : history[j].id \in history[i].seen => i < j

(***************************************************************************)
(* The oracle's progression is resumed only on an ALLOW of the trade, and  *)
(* never over a later decision that was recorded when the request read:    *)
(* what may slip in is a denial recorded between the read and the write    *)
(* (complianceService.ts:404-465).                                         *)
(***************************************************************************)
NoResumeOverDenial ==
  \A t \in TradesUnderReview :
    blocks[t] # None /\ blocks[t].state = "not_blocked" =>
      LET d == getDecision(blocks[t].decision) IN
        /\ d.trade = t /\ d.result = "ALLOW"
        /\ \A e \in OfTradeUnderReview(t) :
             Later(e, d) /\ e.result = "DENY" => e.id \notin blocks[t].seen

===============================================================================
