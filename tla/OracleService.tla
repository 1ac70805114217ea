---------------------------- MODULE OracleService -----------------------------
(***************************************************************************)
(* The oracle service (oracle/src) working on one trade: HTTP handlers     *)
(* that create trigger rows, execute milestones on-chain with retries and  *)
(* record what happened (core/trigger-manager.ts, database/queries.ts),    *)
(* the operators' redrives, approvals and rejections (api/controller.ts),  *)
(* and the polls that confirm submitted triggers                           *)
(* (worker/confirmation-worker.ts).  A step is what happens between two    *)
(* awaits, so handlers and polls interleave at every database query, every *)
(* read of the chain and every transaction.  The trade is the one of       *)
(* TradeLifecycle; other parties move it too.                              *)
(***************************************************************************)
EXTENDS TradeLifecycle, Integers, FiniteSets, FiniteSetsExt

CONSTANTS
  TradeId,         \* the trade's number, a decimal string in the requests
  Requested,       \* the trigger types that callers ask for
  Handlers,        \* requests that can be in progress at the same time
  Polls,           \* polls of the confirmation worker that can overlap
  MaxAttempts,     \* RETRY_ATTEMPTS
  Redrives,        \* whether operators use POST /redrive
  FallbackAge,     \* ON_CHAIN_FALLBACK_THRESHOLD_MS, in clock ticks
  HardTimeout,     \* HARD_TIMEOUT_MS
  MinInterval,     \* ON_CHAIN_FALLBACK_MIN_INTERVAL_MS
  MaxRequests,     \* bound: number of trigger requests
  MaxCrashes       \* bound: number of crashes of the process

RowIds == 1 .. MaxRequests

ASSUME OracleAssumption ==
  /\ TradeId \in Nat
  /\ Requested \subseteq TriggerTypes
  /\ IsFiniteSet(Handlers)
  /\ MaxAttempts \in 0 .. 10
  /\ Redrives \in BOOLEAN
  /\ FallbackAge \in Nat
  /\ HardTimeout \in Nat
  /\ MinInterval \in Nat
  /\ MaxRequests \in Nat
  /\ MaxCrashes \in Nat

VARIABLES
  rows,          \* table oracle_triggers, in the order of created_at
  rowCount,
  handlers,      \* the requests in progress
  polls,         \* the polls in progress
  sinceCheck,    \* ticks since the last on-chain fallback check of this trade
  inFlight,      \* milestones whose transaction was sent and not waited for
  manualApproval,  \* ORACLE_MANUAL_APPROVAL_ENABLED, the same after each start
  requests,      \* number of trigger requests so far
  crashes        \* number of crashes so far

serviceVars == <<handlers, polls, sinceCheck>>
fixedVars   == <<manualApproval, requests, crashes>>
vars        == <<chainVars, rows, rowCount, serviceVars, inFlight, fixedVars>>

-------------------------------------------------------------------------------
(* State *)

\* The statuses of the partial unique index on action_key.
ActiveStatus == {"PENDING", "EXECUTING", "SUBMITTED", "PENDING_APPROVAL"}

\* tx: tx_hash is set; age: ticks since submitted_at; approved: approved_at is set.
NoRow == [type |-> "none", status |-> "none", tx |-> FALSE, age |-> 0, approved |-> FALSE]

\* pc: the await at which a handler is; row: the row it works on, 0 for none; settled
\* (history): the rows of its action that were settled when its request arrived.
IdleHandler ==
  [pc |-> "idle", type |-> "none", redrive |-> FALSE,
   row |-> 0, attempt |-> 0, terminal |-> FALSE, settled |-> {}]

\* batch: the ids that were read, with their ages; verdict: what the poll is about
\* to write for the oldest of them.
IdlePoll == [batch |-> {}, verdict |-> "none"]

Init ==
  /\ LifecycleInit
  /\ rows = [i \in RowIds |-> NoRow]
  /\ rowCount = 0
  /\ handlers = [h \in Handlers |-> IdleHandler]
  /\ polls = [p \in Polls |-> IdlePoll]
  /\ sinceCheck = MinInterval
  /\ inFlight = {}
  /\ manualApproval \in BOOLEAN
  /\ requests = 0
  /\ crashes = 0

-------------------------------------------------------------------------------
(* Queries *)

\* The newest row of an action, 0 if there is none.
Latest(type) == Max({i \in RowIds : rows[i].type = type} \cup {0})

\* The rows of an action that say that it was executed.
Settled           == {"SUBMITTED", "CONFIRMED"}
SettledRows(type) == {i \in RowIds : rows[i].type = type /\ rows[i].status \in Settled}

Active(type) == {i \in RowIds : rows[i].type = type /\ rows[i].status \in ActiveStatus}

\* The unique index lets row i have this status.
IndexAllows(i, newStatus) ==
  newStatus \in ActiveStatus => Active(rows[i].type) \subseteq {i}

\* The SDK's answer: the mapping's entry, made of zeros for a trade that is not there.
getTrade == [tradeId |-> IF status = "NONE" THEN 0 ELSE TradeId, status |-> status]

\* The service takes an entry numbered 0 for an absent trade.
Readable == getTrade.tradeId # 0

\* validateTradeState accepts the milestone in the state that getTrade returned.
Valid(type) ==
  /\ Readable
  /\ getTrade.status = Before(type)
  /\ type = "FINALIZE_TRADE" => windowOver

-------------------------------------------------------------------------------
(* Requests *)

\* Handler h answers its caller.
Answers(h) == handlers' = [handlers EXCEPT ![h] = IdleHandler]

GoesOn(h, pc) == handlers' = [handlers EXCEPT ![h].pc = pc]

Fails(h, terminal) ==
  handlers' = [handlers EXCEPT ![h].pc = "fail", ![h].terminal = terminal]

\* The newest row says that the action was executed or that its outcome is awaited.
isActionAlreadyCompleted(i) == i # 0 /\ rows[i].status \in {"CONFIRMED", "SUBMITTED"}

(***************************************************************************)
(* A trigger or redrive request arrives and reads the newest row of its    *)
(* action.  If that is SUBMITTED or CONFIRMED it is answered at once,      *)
(* which changes nothing.  The lookup by a freshly generated idempotency   *)
(* key finds nothing.                                                      *)
(***************************************************************************)
executeTrigger(h, type, redrive) ==
  LET latest    == Latest(type)
      exhausted == redrive /\ latest # 0 /\ rows[latest].status = "EXHAUSTED_NEEDS_REDRIVE"
  IN
  /\ handlers[h].pc = "idle"
  /\ requests < MaxRequests
  /\ ~isActionAlreadyCompleted(latest)
  /\ handlers' = [handlers EXCEPT ![h] =
       [IdleHandler EXCEPT !.type = type, !.redrive = redrive,
          !.row = IF exhausted THEN latest ELSE 0,
          !.settled = SettledRows(type),
          !.pc  = IF exhausted THEN "recheck" ELSE "validate"]]
  /\ requests' = requests + 1
  /\ UNCHANGED <<chainVars, rows, rowCount, polls, sinceCheck, inFlight, manualApproval, crashes>>

\* The trade is read and validated; an error of either kind ends the request.
ValidateTrade(h) ==
  /\ handlers[h].pc = "validate"
  /\ \/ Valid(handlers[h].type) /\ GoesOn(h, "create")
     \/ Answers(h)
  /\ UNCHANGED <<chainVars, rows, rowCount, polls, sinceCheck, inFlight, fixedVars>>

\* Mutant: the approval gate is forgotten.
AfterCreate_ungated(h) == "attempt"

\* Where a request continues once it has its row.
AfterCreate(h) ==
  IF manualApproval /\ ~handlers[h].redrive THEN "gate" ELSE "attempt"

\* Handler h has row i from now on.
Takes(h, i) ==
  handlers' = [handlers EXCEPT ![h].row = i, ![h].pc = AfterCreate(h), ![h].attempt = 1]

\* Handler h has inserted a row with this status.
Inserts(h, newStatus) ==
  /\ rowCount' = rowCount + 1
  /\ rows' = [rows EXCEPT ![rowCount + 1] =
       [type |-> handlers[h].type, status |-> newStatus, tx |-> FALSE,
        age |-> 0, approved |-> FALSE]]
  /\ Takes(h, rowCount + 1)

\* The INSERT; the unique index refuses a second active row of an action.
createTrigger(h) ==
  /\ handlers[h].pc = "create"
  /\ \/ Active(handlers[h].type) = {} /\ Inserts(h, "PENDING")
     \/ /\ Active(handlers[h].type) # {}
        /\ GoesOn(h, "reuse")
        /\ UNCHANGED <<rows, rowCount>>
  /\ UNCHANGED <<chainVars, polls, sinceCheck, inFlight, fixedVars>>

\* After a refused INSERT the newest row of the action, whatever it is by now.
ReuseLatest(h) ==
  /\ handlers[h].pc = "reuse"
  /\ Takes(h, Latest(handlers[h].type))
  /\ UNCHANGED <<chainVars, rows, rowCount, polls, sinceCheck, inFlight, fixedVars>>

\* updateTrigger of the status of row i.
SetStatus(i, newStatus) == rows' = [rows EXCEPT ![i].status = newStatus]

\* Manual approval mode: the row waits for a decision, the request is answered.
AwaitApproval(h) ==
  /\ handlers[h].pc = "gate"
  /\ IF IndexAllows(handlers[h].row, "PENDING_APPROVAL")
       THEN SetStatus(handlers[h].row, "PENDING_APPROVAL")
       ELSE UNCHANGED rows
  /\ Answers(h)
  /\ UNCHANGED <<chainVars, rowCount, polls, sinceCheck, inFlight, fixedVars>>

-------------------------------------------------------------------------------
(* Execution with retries *)

\* The loop's head: the trade is read and validated again before each attempt.
Attempt(h) ==
  /\ handlers[h].pc = "attempt"
  /\ \/ handlers[h].attempt > MaxAttempts /\ Answers(h)
     \/ /\ handlers[h].attempt <= MaxAttempts
        /\ \/ Valid(handlers[h].type) /\ GoesOn(h, "mark")
           \/ ~Valid(handlers[h].type) /\ Fails(h, TRUE)
           \/ Fails(h, FALSE)                               \* the read failed
  /\ UNCHANGED <<chainVars, rows, rowCount, polls, sinceCheck, inFlight, fixedVars>>

\* A refusal by the unique index counts as a network error.
MarkExecuting(h) ==
  /\ handlers[h].pc = "mark"
  /\ \/ /\ IndexAllows(handlers[h].row, "EXECUTING")
        /\ SetStatus(handlers[h].row, "EXECUTING")
        /\ GoesOn(h, "send")
     \/ /\ ~IndexAllows(handlers[h].row, "EXECUTING")
        /\ Fails(h, FALSE)
        /\ UNCHANGED rows
  /\ UNCHANGED <<chainVars, rowCount, polls, sinceCheck, inFlight, fixedVars>>

\* Mutant: the receipt is not awaited.
executeBlockchainAction_noReceipt(h) ==
  /\ handlers[h].pc = "send"
  /\ inFlight' = inFlight \cup {handlers[h].type}
  /\ GoesOn(h, "record")
  /\ UNCHANGED <<chainVars, rows, rowCount, polls, sinceCheck, fixedVars>>

\* The calls of the SDK, each of which the contract accepts and the receipt tells of.
releaseFundsStage1         == Milestone("RELEASE_STAGE_1")
sdkConfirmArrival          == Milestone("CONFIRM_ARRIVAL")
finalizeAfterDisputeWindow == Milestone("FINALIZE_TRADE")

Executes(type) ==
  \/ type = "RELEASE_STAGE_1" /\ releaseFundsStage1
  \/ type = "CONFIRM_ARRIVAL" /\ sdkConfirmArrival
  \/ type = "FINALIZE_TRADE"  /\ finalizeAfterDisputeWindow

(***************************************************************************)
(* The transaction is sent and its receipt awaited.  It lands; or it is    *)
(* refused, for good if the reason is known by then and is the pause or    *)
(* the disabled oracle, otherwise as a retryable contract error; or the    *)
(* connection fails before or after the transaction left.                  *)
(***************************************************************************)
executeBlockchainAction(h) ==
  LET type == handlers[h].type IN
  /\ handlers[h].pc = "send"
  /\ \/ Executes(type) /\ GoesOn(h, "record") /\ UNCHANGED inFlight
     \/ /\ ~Accepts(type)
        /\ \E terminal \in BOOLEAN :
             /\ terminal => paused \/ (~oracleActive /\ type # "FINALIZE_TRADE")
             /\ Fails(h, terminal)
        /\ UNCHANGED <<chainVars, inFlight>>
     \/ Fails(h, FALSE) /\ UNCHANGED <<chainVars, inFlight>>
     \/ Fails(h, FALSE) /\ inFlight' = inFlight \cup {type} /\ UNCHANGED chainVars
  /\ UNCHANGED <<rows, rowCount, polls, sinceCheck, fixedVars>>

RecordSubmitted(h) ==
  LET i == handlers[h].row IN
  /\ handlers[h].pc = "record"
  /\ \/ /\ IndexAllows(i, "SUBMITTED")
        /\ rows' = [rows EXCEPT ![i].status = "SUBMITTED", ![i].tx = TRUE, ![i].age = 0]
        /\ Answers(h)
     \/ /\ ~IndexAllows(i, "SUBMITTED")
        /\ Fails(h, FALSE)
        /\ UNCHANGED rows
  /\ UNCHANGED <<chainVars, rowCount, polls, sinceCheck, inFlight, fixedVars>>

\* Mutant: off by one, the last attempt still counts as retryable.
determineNextStatus_offByOne(terminal, attempt) ==
  CASE terminal              -> "TERMINAL_FAILURE"
    [] ~terminal /\ attempt > MaxAttempts -> "EXHAUSTED_NEEDS_REDRIVE"
    [] OTHER                 -> "FAILED"

determineNextStatus(terminal, attempt) ==
  CASE terminal                            -> "TERMINAL_FAILURE"
    [] ~terminal /\ attempt >= MaxAttempts -> "EXHAUSTED_NEEDS_REDRIVE"
    [] OTHER                               -> "FAILED"

\* The catch block: the row gets the failure, whatever its status is by now.
HandleFailure(h) ==
  LET nextStatus == determineNextStatus(handlers[h].terminal, handlers[h].attempt) IN
  /\ handlers[h].pc = "fail"
  /\ SetStatus(handlers[h].row, nextStatus)
  /\ handlers' = [handlers EXCEPT ![h] =
       IF nextStatus = "FAILED" /\ handlers[h].attempt < MaxAttempts
         THEN [handlers[h] EXCEPT !.pc = "attempt", !.attempt = @ + 1, !.terminal = FALSE]
         ELSE IdleHandler]
  /\ UNCHANGED <<chainVars, rowCount, polls, sinceCheck, inFlight, fixedVars>>

-------------------------------------------------------------------------------
(* Redrive and manual decisions *)

(***************************************************************************)
(* A redrive of an exhausted row reads the trade again: if the milestone   *)
(* is valid a new row is made, if it is not the action is taken to have    *)
(* been executed, and if the read fails the request fails.                 *)
(***************************************************************************)
RecheckTrade(h) ==
  /\ handlers[h].pc = "recheck"
  /\ \/ Valid(handlers[h].type) /\ GoesOn(h, "create")
     \/ ~Valid(handlers[h].type) /\ GoesOn(h, "confirm")
     \/ Answers(h)
  /\ UNCHANGED <<chainVars, rows, rowCount, polls, sinceCheck, inFlight, fixedVars>>

ConfirmRedriven(h) ==
  /\ handlers[h].pc = "confirm"
  /\ SetStatus(handlers[h].row, "CONFIRMED")
  /\ Answers(h)
  /\ UNCHANGED <<chainVars, rowCount, polls, sinceCheck, inFlight, fixedVars>>

\* The two conditional UPDATEs.
ApproveRow(i) ==
  /\ rows[i].status = "PENDING_APPROVAL"
  /\ rows' = [rows EXCEPT ![i].status = "PENDING", ![i].approved = TRUE]

\* Mutant: the UPDATE is not conditional.
RejectRow_any(i) ==
  /\ rows[i].status # "none"
  /\ SetStatus(i, "REJECTED")

RejectRow(i) ==
  /\ rows[i].status = "PENDING_APPROVAL"
  /\ SetStatus(i, "REJECTED")

\* The approver's request then executes the row.
resumeAfterApproval(h, i) ==
  /\ handlers[h].pc = "idle"
  /\ ApproveRow(i)
  /\ handlers' = [handlers EXCEPT ![h] =
       [IdleHandler EXCEPT !.pc = "attempt", !.type = rows[i].type, !.row = i, !.attempt = 1,
          !.settled = SettledRows(rows[i].type)]]
  /\ UNCHANGED <<chainVars, rowCount, polls, sinceCheck, inFlight, fixedVars>>

rejectPendingTrigger(i) ==
  /\ RejectRow(i)
  /\ UNCHANGED <<chainVars, rowCount, serviceVars, inFlight, fixedVars>>

-------------------------------------------------------------------------------
(* Confirmation worker *)

pollConfirmations(p) ==
  /\ polls[p] = IdlePoll
  /\ \E i \in RowIds : rows[i].status = "SUBMITTED"
  /\ polls' = [polls EXCEPT ![p].batch =
       {[id |-> i, age |-> rows[i].age] : i \in {j \in RowIds : rows[j].status = "SUBMITTED"}}]
  /\ UNCHANGED <<chainVars, rows, rowCount, handlers, sinceCheck, inFlight, fixedVars>>

\* The entry of the batch that is next, in the order of created_at.
Head(p) == CHOOSE e \in polls[p].batch : \A f \in polls[p].batch : e.id <= f.id

isTradeStateAdvanced(type) == getTrade.status # Before(type)

\* Mutant: the hard timeout is not looked at.
TimedOut_never(e) == FALSE

TimedOut(e) == e.age > HardTimeout

\* Old enough, and the trade was not checked lately.
shouldRunOnChainCheck(e) == e.age >= FallbackAge /\ sinceCheck >= MinInterval

\* The possible answers of the check on-chain; it is FALSE too when the read fails.
tryOnChainFallback(e) ==
  {advanced \in BOOLEAN :
     advanced => /\ shouldRunOnChainCheck(e)
                 /\ Readable
                 /\ isTradeStateAdvanced(rows[e.id].type)}

\* The possible answers of the indexer, which knows of a transaction only after it
\* landed, and maybe late, and which may not answer.
findConfirmationEvent(e) == {found \in BOOLEAN : found => rows[e.id].type \in done}

(***************************************************************************)
(* One row is checked: on-chain, then against the hard timeout, then in    *)
(* the indexer.  A submitted row has its transaction's hash.               *)
(***************************************************************************)
checkConfirmation(p) ==
  LET e == Head(p) IN
  /\ polls[p].batch # {} /\ polls[p].verdict = "none"
  /\ sinceCheck' = IF shouldRunOnChainCheck(e) THEN 0 ELSE sinceCheck
  /\ \E advanced \in tryOnChainFallback(e), found \in findConfirmationEvent(e) :
       polls' = [polls EXCEPT ![p] =
         CASE advanced                           -> [@ EXCEPT !.verdict = "CONFIRMED"]
           [] ~advanced /\ TimedOut(e)           -> [@ EXCEPT !.verdict = "EXHAUSTED_NEEDS_REDRIVE"]
           [] ~advanced /\ ~TimedOut(e) /\ found -> [@ EXCEPT !.verdict = "CONFIRMED"]
           [] OTHER                              -> [polls[p] EXCEPT !.batch = @ \ {e}]]
  /\ UNCHANGED <<chainVars, rows, rowCount, handlers, inFlight, fixedVars>>

\* The verdict is written, whatever the row's status is by now.
WriteVerdict(p) ==
  /\ polls[p].verdict # "none"
  /\ SetStatus(Head(p).id, polls[p].verdict)
  /\ polls' = [polls EXCEPT ![p].batch = @ \ {Head(p)}, ![p].verdict = "none"]
  /\ UNCHANGED <<chainVars, rowCount, handlers, sinceCheck, inFlight, fixedVars>>

-------------------------------------------------------------------------------
(* Time, the network, crashes and the other parties *)

Older(age) == Min({age + 1, HardTimeout + 1})

\* A row, or a poll's entry for it, one tick later.
Aged(entry) == [entry EXCEPT !.age = Older(@)]

\* A tick of the clock; ages stop where no later one is told apart.
Tick ==
  /\ rows' = [i \in RowIds |->
       IF rows[i].status = "SUBMITTED" THEN Aged(rows[i]) ELSE rows[i]]
  /\ polls' = [p \in Polls |-> [polls[p] EXCEPT !.batch = {Aged(e) : e \in @}]]
  /\ sinceCheck' = Min({sinceCheck + 1, MinInterval})
  /\ <<rows, polls, sinceCheck>>' # <<rows, polls, sinceCheck>>
  /\ UNCHANGED <<chainVars, rowCount, handlers, inFlight, fixedVars>>

\* A transaction that nobody waits for any more is mined or dropped.
Lands(type) ==
  /\ type \in inFlight
  /\ inFlight' = inFlight \ {type}
  /\ Milestone(type) \/ UNCHANGED chainVars
  /\ UNCHANGED <<rows, rowCount, serviceVars, fixedVars>>

\* The process dies and starts again; what it had sent may still be mined.
Crash ==
  /\ crashes < MaxCrashes
  /\ crashes' = crashes + 1
  /\ handlers' = [h \in Handlers |-> IdleHandler]
  /\ polls' = [p \in Polls |-> IdlePoll]
  /\ sinceCheck' = MinInterval
  /\ \E sent \in SUBSET {handlers[h].type : h \in {g \in Handlers : handlers[g].pc = "send"}} :
       inFlight' = inFlight \cup sent
  /\ UNCHANGED <<chainVars, rows, rowCount, manualApproval, requests>>

\* What the parties, the admins and time do to the trade; anybody may finalize it.
OthersAct ==
  /\ \/ Create
     \/ Milestone("FINALIZE_TRADE")
     \/ Withdraw
     \/ Dispute
     \/ Decide
     \/ WindowPasses
     \/ Switch
  /\ UNCHANGED <<rows, rowCount, serviceVars, inFlight, fixedVars>>

-------------------------------------------------------------------------------
(* The routes; a request that lacks a field is refused before all this. *)

releaseStage1(h)  == "RELEASE_STAGE_1" \in Requested /\ executeTrigger(h, "RELEASE_STAGE_1", FALSE)
confirmArrival(h) == "CONFIRM_ARRIVAL" \in Requested /\ executeTrigger(h, "CONFIRM_ARRIVAL", FALSE)
finalizeTrade(h)  == "FINALIZE_TRADE"  \in Requested /\ executeTrigger(h, "FINALIZE_TRADE", FALSE)

redriveTrigger(h) == Redrives /\ \E type \in Requested : executeTrigger(h, type, TRUE)

approveTrigger(h) == \E i \in RowIds : resumeAfterApproval(h, i)
rejectTrigger     == \E i \in RowIds : rejectPendingTrigger(i)

HandlerStep(h) ==
  \/ releaseStage1(h)
  \/ confirmArrival(h)
  \/ finalizeTrade(h)
  \/ redriveTrigger(h)
  \/ ValidateTrade(h)
  \/ createTrigger(h)
  \/ ReuseLatest(h)
  \/ AwaitApproval(h)
  \/ Attempt(h)
  \/ MarkExecuting(h)
  \/ executeBlockchainAction(h)
  \/ RecordSubmitted(h)
  \/ HandleFailure(h)
  \/ RecheckTrade(h)
  \/ ConfirmRedriven(h)
  \/ approveTrigger(h)

PollStep(p) == pollConfirmations(p) \/ checkConfirmation(p) \/ WriteVerdict(p)

Next ==
  \/ \E h \in Handlers : HandlerStep(h)
  \/ rejectTrigger
  \/ \E p \in Polls : PollStep(p)
  \/ Tick
  \/ \E type \in TriggerTypes : Lands(type)
  \/ Crash
  \/ OthersAct

Spec == Init /\ [][Next]_vars

\* The clock runs and setInterval starts poll after poll, each of which gets
\* its answers from the database, the node and the indexer or an error.
Fairness == WF_vars(Tick) /\ \A p \in Polls : WF_vars(PollStep(p))

FairSpec == Spec /\ Fairness

-------------------------------------------------------------------------------
(* Properties *)

(***************************************************************************)
(* A transaction hash is recorded, and a trigger is confirmed, only for a  *)
(* milestone that was executed on-chain: whatever a retry, a poll or a     *)
(* redrive concluded from the status of the trade it read                  *)
(* (confirmation-worker.ts:245 and trigger-manager.ts:185 infer execution  *)
(* from a status that others change too).                                  *)
(***************************************************************************)
ConfirmedIsOnChain ==
  \A i \in 1 .. rowCount :
    rows[i].tx \/ rows[i].status \in {"SUBMITTED", "CONFIRMED"} => rows[i].type \in done

(***************************************************************************)
(* A row that says SUBMITTED or CONFIRMED is written only by those who     *)
(* overlapped with its becoming so: by a request of its action that        *)
(* arrived before, or by a poll that had read it as SUBMITTED.  A request  *)
(* that arrives later leaves it alone, a redrive or a decision too,        *)
(* whichever row it takes in the end; that the UPDATEs of those who        *)
(* overlap are unconditional (queries.ts:169) and that an INSERT that is   *)
(* refused takes the newest row as it is (queries.ts:33) is why they are   *)
(* excepted.                                                               *)
(***************************************************************************)
SettledYieldsToOverlap ==
  [][\A i \in RowIds :
       rows[i].status \in Settled /\ rows'[i].status # rows[i].status =>
         \/ \E h \in Handlers : handlers[h].row = i /\ i \notin handlers[h].settled
         \/ \E p \in Polls : polls[p].verdict = rows'[i].status /\ Head(p).id = i]_vars

(***************************************************************************)
(* With manual approval on, nothing is sent for an action that nobody ever *)
(* approved (trigger-manager.ts:90).                                       *)
(***************************************************************************)
ApprovedBeforeSend ==
  manualApproval =>
    \A i \in 1 .. rowCount :
      rows[i].status \in {"EXECUTING", "SUBMITTED"} =>
        \E j \in 1 .. rowCount : rows[j].type = rows[i].type /\ rows[j].approved

(***************************************************************************)
(* Unless the process crashed, a row that says that it waits, runs or will *)
(* be retried has a handler that works on it: executeWithRetry never       *)
(* leaves without a final status (trigger-manager.ts:348-465).             *)
(***************************************************************************)
NoOrphanRows ==
  crashes = 0 =>
    \A i \in 1 .. rowCount :
      rows[i].status \in {"PENDING", "EXECUTING", "FAILED"} =>
        \E h \in Handlers : handlers[h].row = i

(***************************************************************************)
(* A submitted trigger does not stay so: the worker confirms it or gives   *)
(* it back for a redrive, however late the indexer is, whatever reads fail *)
(* and although the checks of a trade are rate-limited                     *)
(* (confirmation-worker.ts:147, :231).                                     *)
(***************************************************************************)
SubmittedIsResolved ==
  \A i \in RowIds :
    rows[i].status = "SUBMITTED" ~>
      rows[i].status \in {"CONFIRMED", "EXHAUSTED_NEEDS_REDRIVE"}

===============================================================================
