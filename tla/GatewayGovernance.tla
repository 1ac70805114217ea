-------------------------- MODULE GatewayGovernance ---------------------------
(***************************************************************************)
(* The governance side of the dashboard gateway (gateway/src): operators   *)
(* queue governance actions over HTTP, an executor process run by hand     *)
(* signs and sends them, and a cleanup job closes what stayed in the queue *)
(* too long.  The queue is one table.  The contract is the one of          *)
(* EscrowGovernance, reached through AdminSDK; block time and host time    *)
(* are one clock.                                                          *)
(***************************************************************************)
EXTENDS AdminSDK

CONSTANTS
  ActionIds,       \* 1 .. n, in the order of creation; bounds the rows
  QueueTTL,        \* governanceQueueTtlSeconds, in clock ticks
  MaxQueuedMethods, \* bound: how many different methods are queued in a behaviour
  Executors,       \* executor processes that may run at the same time
  MaxSends,        \* bound: transactions broadcast by executors
  MaxCrashes,      \* bound: executor processes that die or fail to save, and
                   \* direct calls, together
  ChainHistories   \* the states of the contract the gateway may find

GOVERNANCE_ACTION_STATUSES ==
  {"requested", "submitted", "pending_approvals", "approved", "executed", "cancelled",
   "expired", "stale", "failed"}

Targets == Accounts \cup {ZeroAddress, None}

\* A transaction, with the action and the attempt it was broadcast for.
Transaction ==
  [action : ActionIds, attempt : Nat, method : Methods, signer : Accounts,
   proposalId : Nat \cup {None}, target : Targets]

GovernanceActionRecord ==
  [status : GOVERNANCE_ACTION_STATUSES, method : Methods, proposalId : Nat \cup {None},
   target : Targets,
   intentKey : Methods \X (Nat \cup {None}) \X Targets \X (Accounts \cup {None}),
   audit : [actorWallet : Accounts], expiresAt : Nat,
   txHash : Transaction \cup {None}]

\* What the contract may have gone through: its proposals are numbered in order.
ChainHistory ==
  [now : Nat \ {0}, paused : BOOLEAN, claimsPaused : BOOLEAN, oracleActive : BOOLEAN,
   approvedUnpause : SUBSET InitialAdmins, proposals : [Kinds -> [ProposalIds -> GovProposal]]]

MadeIds(history, kind) == {id \in ProposalIds : history.proposals[kind][id] # NoProposal}

ASSUME GatewayAssumption ==
  /\ None \notin Int \cup Transaction \cup GovernanceActionRecord
  /\ ActionIds = 1 .. Cardinality(ActionIds) /\ Cardinality(ActionIds) \in Nat
  /\ QueueTTL \in Nat \ {0}
  /\ ProposalTargets \subseteq Accounts
  /\ MaxQueuedMethods \in Nat
  /\ MaxSends \in Nat
  /\ MaxCrashes \in Nat
  /\ MaxDirectCalls \in Nat
  /\ ChainHistories \subseteq ChainHistory
  /\ \A history \in ChainHistories, kind \in Kinds :
       MadeIds(history, kind) = 0 .. Cardinality(MadeIds(history, kind)) - 1

VARIABLES
  actions,         \* governance_actions, by action id
  executors,       \* what each executor process holds
  cleanup,         \* the row the cleanup read and is about to save, or None
  sends,           \* how often each action was broadcast (history)
  crashes          \* how often an executor died on each action (history)

gatewayVars == <<actions, executors, cleanup, sends, crashes>>
vars        == <<chainVars, txVars, gatewayVars>>

OpenStatuses == {"requested", "submitted", "pending_approvals", "approved"}

Exists(id) == actions[id] # None

isExpiredRequested(row) == row.status = "requested" /\ row.expiresAt <= now

isApprovalGovernanceContractMethod(method) == method \in ApprovalMethods

\* buildGovernanceIntentKey: only approvals tell their callers apart.
buildIntentKey(method, proposalId, target, wallet) ==
  <<method, proposalId, target,
    IF isApprovalGovernanceContractMethod(method) THEN wallet ELSE None>>

Idle == [id |-> None, row |-> None, signer |-> None, tx |-> None]

\* What earlier transactions left in the contract; no role has changed hands.
ChainInit ==
  \E h \in ChainHistories :
    /\ now = h.now
    /\ paused = h.paused
    /\ claimsPaused = h.claimsPaused
    /\ oracleActive = h.oracleActive
    /\ oracleAddress = InitialOracle
    /\ treasuryPayoutAddress = Treasury
    /\ admins = InitialAdmins
    /\ unpauseProposal =
         [approvalCount |-> Cardinality(h.approvedUnpause), executed |-> FALSE]
    /\ unpauseHasApproved = h.approvedUnpause
    /\ hasActiveUnpauseProposal = (h.approvedUnpause # {})
    /\ govProposals = h.proposals
    /\ govCounter = [kind \in Kinds |-> Cardinality(MadeIds(h, kind))]

GatewayInit ==
  /\ ChainInit
  /\ treasuryDue = TRUE
  /\ mempool = {}
  /\ mined = {}
  /\ directCalls = 0
  /\ actions = [id \in ActionIds |-> None]
  /\ executors = [e \in Executors |-> Idle]
  /\ cleanup = None
  /\ sends = [id \in ActionIds |-> 0]
  /\ crashes = [id \in ActionIds |-> 0]

-------------------------------------------------------------------------------
(* The mutation routes: what they read of the chain before they queue *)

\* What the preflights read of getGovernanceStatus; the lists of proposals are for the
\* dashboard.
getGovernanceStatus ==
  [paused |-> paused, claimsPaused |-> claimsPaused, oracleActive |-> oracleActive,
   oracleAddress |-> oracleAddress, treasuryPayoutAddress |-> treasuryPayoutAddress,
   governanceApprovalsRequired |-> governanceApprovals]

getUnpauseProposalState ==
  [hasActiveProposal |-> hasActiveUnpauseProposal,
   approvalCount |-> IF hasActiveUnpauseProposal THEN unpauseProposal.approvalCount ELSE 0]

hasApprovedUnpause(wallet) == wallet \in unpauseHasApproved

getTreasuryClaimableBalance == IF treasuryDue THEN 1 ELSE 0

\* getOracleProposalState and its twin: what is left of the mappings, None for
\* an id that was never made.
ProposalState(kind, id) ==
  LET proposal == govProposals[kind][id]
  IN  IF id >= govCounter[kind] \/ proposal.createdAt = 0 THEN None
      ELSE [approvalCount |-> proposal.approvalCount,
            executed      |-> proposal.executed,
            cancelled     |-> proposal.cancelled,
            expired       |-> proposal.expiresAt < now,
            eta           |-> proposal.eta]

\* hasApprovedOracleProposal and its twin.
hasApprovedProposal(kind, id, wallet) == wallet \in govProposals[kind][id].approvedBy

Undecided(kind, id) ==
  LET proposal == ProposalState(kind, id)
  IN  proposal # None /\ ~proposal.executed /\ ~proposal.cancelled

Approvable(kind, wallet, id) ==
  /\ Undecided(kind, id)
  /\ ~ProposalState(kind, id).expired
  /\ ~hasApprovedProposal(kind, id, wallet)

Executable(kind, id) ==
  /\ Undecided(kind, id)
  /\ ~ProposalState(kind, id).expired
  /\ ProposalState(kind, id).approvalCount >= getGovernanceStatus.governanceApprovalsRequired
  /\ ProposalState(kind, id).eta <= now

CancellableAsExpired(kind, id) == Undecided(kind, id) /\ ProposalState(kind, id).expired

validateAddressInput(target) == target \in Accounts \ {ZeroAddress}

PreflightUnpause(method, wallet) ==
  LET status == getGovernanceStatus IN
  \/ method = "pause" /\ ~status.paused
  \/ method = "proposeUnpause" /\ status.paused /\ status.oracleActive
  \/ /\ method = "approveUnpause"
     /\ getUnpauseProposalState.hasActiveProposal /\ ~hasApprovedUnpause(wallet)
  \/ method = "cancelUnpauseProposal" /\ getUnpauseProposalState.hasActiveProposal

PreflightClaims(method) ==
  LET status == getGovernanceStatus IN
  \/ method = "pauseClaims" /\ ~status.claimsPaused
  \/ method = "unpauseClaims" /\ status.claimsPaused
  \/ method = "claimTreasury" /\ ~status.claimsPaused /\ getTreasuryClaimableBalance > 0

PreflightPayout(method, wallet, id, target) ==
  \/ /\ method = "proposeTreasuryPayoutAddressUpdate"
     /\ validateAddressInput(target) /\ target # getGovernanceStatus.treasuryPayoutAddress
  \/ method = "approveTreasuryPayoutAddressUpdate" /\ Approvable("payout", wallet, id)
  \/ method = "executeTreasuryPayoutAddressUpdate" /\ Executable("payout", id)
  \/ /\ method = "cancelExpiredTreasuryPayoutAddressUpdateProposal"
     /\ CancellableAsExpired("payout", id)

PreflightOracle(method, wallet, id, target) ==
  \/ method = "disableOracleEmergency" /\ getGovernanceStatus.oracleActive
  \/ /\ method = "proposeOracleUpdate"
     /\ validateAddressInput(target) /\ target # getGovernanceStatus.oracleAddress
  \/ method = "approveOracleUpdate" /\ Approvable("oracle", wallet, id)
  \/ method = "executeOracleUpdate" /\ Executable("oracle", id)
  \/ method = "cancelExpiredOracleUpdateProposal" /\ CancellableAsExpired("oracle", id)

\* The targetAddress a route hands to queueAction.
QueuedTarget(method, id, target) ==
  CASE TakesProposal(method)              -> govProposals[KindOf(method)][id].target
    [] method = "disableOracleEmergency" -> oracleAddress
    [] method \in ProposeMethods         -> target
    [] OTHER                              -> None

-------------------------------------------------------------------------------
(* The queue *)

\* Mutant: rows still in the queue do not count as open.
OpenIntent_started(key) ==
  {id \in ActionIds :
     /\ Exists(id)
     /\ actions[id].intentKey = key
     /\ actions[id].status \in OpenStatuses \ {"requested"}}

\* loadExistingOpenIntentAction: a requested row that expired does not count.
OpenIntent(key) ==
  {id \in ActionIds :
     /\ Exists(id)
     /\ actions[id].intentKey = key
     /\ actions[id].status \in OpenStatuses
     /\ ~isExpiredRequested(actions[id])}

\* The upsert writes every column of the row.
upsertGovernanceAction(id, row) == actions' = [actions EXCEPT ![id] = row]

\* One transaction under the advisory lock of the intent key.  With an open row
\* for the intent it only writes an audit entry: no step.
saveQueuedActionWithIntentDedupe(row) ==
  /\ OpenIntent(row.intentKey) = {}
  /\ \E id \in ActionIds :
       /\ ~Exists(id)
       /\ \A other \in 1 .. (id - 1) : Exists(other)
       /\ upsertGovernanceAction(id, row)

\* The audit metadata: of the principal only the wallet is read again.
buildAuditRecord(wallet) == [actorWallet |-> wallet]

QueuedRow(wallet, method, proposalId, target) ==
  [status |-> "requested", method |-> method, proposalId |-> proposalId, target |-> target,
   intentKey |-> buildIntentKey(method, proposalId, target, wallet),
   audit |-> buildAuditRecord(wallet), expiresAt |-> now + QueueTTL, txHash |-> None]

Queued == {id \in ActionIds : Exists(id)}

QueuedMethods == {actions[id].method : id \in Queued}

\* POST /governance/...: preflight, then queueAction.  The first two conjuncts are bounds.
queueAction(wallet, method, id, target) ==
  /\ Cardinality(QueuedMethods \cup {method}) <= MaxQueuedMethods
  /\ directCalls = 0
  /\ \/ PreflightUnpause(method, wallet)
     \/ PreflightClaims(method)
     \/ PreflightPayout(method, wallet, id, target)
     \/ PreflightOracle(method, wallet, id, target)
  /\ saveQueuedActionWithIntentDedupe(
       QueuedRow(wallet, method, IF TakesProposal(method) THEN id ELSE None,
                 QueuedTarget(method, id, target)))
  /\ UNCHANGED <<chainVars, txVars, executors, cleanup, crashes, sends>>

\* saveActionWithAudit: an upsert of the whole row the caller read earlier.
saveActionWithAudit(id, row) == upsertGovernanceAction(id, row)

-------------------------------------------------------------------------------
(* The executor *)

Locked(id) == \E e \in Executors : executors[e].id = id

\* Mutant: a row in any open status is executed.
Runnable_open(id) == Exists(id) /\ ~Locked(id) /\ actions[id].status \in OpenStatuses

\* The advisory lock on the action id, and the first early return.
Runnable(id) == Exists(id) /\ ~Locked(id) /\ actions[id].status = "requested"

\* Mutant: whoever runs the executor signs.
SignerAllowed_any(row, signer) == TRUE

\* Only the wallet that queued an approval may sign it.
SignerAllowed(row, signer) ==
  isApprovalGovernanceContractMethod(row.method) => signer = row.audit.actorWallet

executeStart(e, id, signer) ==
  /\ executors[e] = Idle
  /\ Runnable(id)
  /\ ~isExpiredRequested(actions[id])
  /\ SignerAllowed(actions[id], signer)
  /\ executors' = [executors EXCEPT ![e] =
       [id |-> id, row |-> actions[id], signer |-> signer, tx |-> None]]
  /\ UNCHANGED <<chainVars, txVars, actions, cleanup, crashes, sends>>

persistStale(id) ==
  /\ Runnable(id)
  /\ isExpiredRequested(actions[id])
  /\ saveActionWithAudit(id,
       [actions[id] EXCEPT !.status = "stale"])
  /\ UNCHANGED <<chainVars, txVars, executors, cleanup, crashes, sends>>

\* chainExecutor.execute: the SDK method for the contract method is called.
execute(e) ==
  LET run == executors[e]
      tx  == [action |-> run.id, attempt |-> sends[run.id], method |-> run.row.method,
              signer |-> run.signer, proposalId |-> run.row.proposalId, target |-> run.row.target]
  IN  /\ run.id # None
      /\ run.tx = None
      /\ verifyAdmin(run.row.method, run.signer)
      /\ Cardinality(mempool) + Cardinality(mined) < MaxSends
      /\ mempool' = mempool \cup {tx}
      /\ executors' = [executors EXCEPT ![e].tx = tx]
      /\ sends' = [sends EXCEPT ![run.id] = @ + 1]
      /\ UNCHANGED <<chainVars, mined, directCalls, actions, cleanup, crashes>>

\* What the executor writes: its own copy of the row, changed.
Finish(e, row) ==
  /\ saveActionWithAudit(executors[e].id, row)
  /\ executors' = [executors EXCEPT ![e] = Idle]
  /\ UNCHANGED <<chainVars, txVars, cleanup, crashes, sends>>

\* The signer, the send or the wait failed; what was sent may still be mined.
persistFailure(e) ==
  /\ executors[e].id # None
  /\ Finish(e, [executors[e].row EXCEPT !.status = "failed"])

\* What was sent is waited for.
Awaits(e) == executors[e].tx # None

\* Mutant: a timeout after the broadcast counts as success.
persistExecutionTimeout_executed(e) ==
  /\ Awaits(e)
  /\ Finish(e, [executors[e].row EXCEPT !.status = "executed", !.txHash = executors[e].tx])

(***************************************************************************)
(* withTimeout: the call is given up at any time, before its broadcast or  *)
(* after it, and goes on all the same; the outcome is unknown.  One that   *)
(* is broadcast later is in the mempool already, where it can wait for any *)
(* length of time and nothing but a block looks for it; one that never is, *)
(* is given up before execute.                                             *)
(***************************************************************************)
persistExecutionTimeout(e) ==
  /\ executors[e].id # None
  /\ Finish(e, [executors[e].row EXCEPT !.status = "submitted"])

resolveUnpauseApprovalStatus ==
  LET status == getGovernanceStatus  proposal == getUnpauseProposalState IN
  IF ~status.paused /\ ~proposal.hasActiveProposal THEN "executed"
  ELSE IF proposal.approvalCount >= status.governanceApprovalsRequired
       THEN "approved" ELSE "pending_approvals"

resolveProposalStatus(kind, id) ==
  LET proposal == ProposalState(kind, id)
  IN  CASE proposal.executed  -> "executed"
        [] ~proposal.executed /\ proposal.cancelled -> "cancelled"
        [] ~proposal.executed /\ ~proposal.cancelled /\ proposal.expired -> "expired"
        [] OTHER -> IF proposal.approvalCount >= getGovernanceStatus.governanceApprovalsRequired
                    THEN "approved" ELSE "pending_approvals"

resolvePostExecutionStatus(row) ==
  CASE row.method \in {"proposeUnpause"} \cup ProposeMethods -> "pending_approvals"
    [] row.method = "approveUnpause" -> resolveUnpauseApprovalStatus
    [] row.method \in ApprovalMethods \ {"approveUnpause"} ->
         resolveProposalStatus(KindOf(row.method), row.proposalId)
    [] row.method \in {"cancelUnpauseProposal",
                       "cancelExpiredTreasuryPayoutAddressUpdateProposal",
                       "cancelExpiredOracleUpdateProposal"} -> "cancelled"
    [] OTHER -> "executed"

\* fallbackPostExecutionStatus: the methods whose status may be unreadable.
HasFallback(row) == row.method \in {"proposeUnpause"} \cup ProposeMethods \cup ApprovalMethods

\* The read of the final status may fail; the fallback then stands in for it.
Outcomes(row) ==
  {resolvePostExecutionStatus(row)}
    \cup (IF HasFallback(row) THEN {"pending_approvals"} ELSE {})

persistExecution(e) ==
  LET run == executors[e]
  IN  /\ Awaits(e)
      /\ \E receipt \in mined, outcome \in Outcomes(run.row) :
           /\ receipt.tx = run.tx
           /\ Finish(e, [run.row EXCEPT
                !.status = outcome, !.txHash = run.tx,
                !.proposalId = IF receipt.proposalId # None THEN receipt.proposalId ELSE @])

\* The process dies or cannot save; its locks go with its connection.  One that dies
\* before the send leaves all as it was.
executorCrash(e) ==
  /\ Awaits(e)
  /\ \A id \in ActionIds : crashes[id] + directCalls < MaxCrashes
  /\ crashes' = [crashes EXCEPT ![executors[e].id] = @ + 1]
  /\ executors' = [executors EXCEPT ![e] = Idle]
  /\ UNCHANGED <<chainVars, txVars, actions, cleanup, sends>>

-------------------------------------------------------------------------------
(* The cleanup job *)

\* The candidates, as the query finds them; its limit is not reached.
listRequestedExpired == {id \in ActionIds : Exists(id) /\ isExpiredRequested(actions[id])}

\* apply: the candidate is read again and is still requested and expired.
cleanupCheck(id) ==
  /\ cleanup = None
  /\ id \in listRequestedExpired
  /\ cleanup' = [id |-> id, row |-> actions[id]]
  /\ UNCHANGED <<chainVars, txVars, actions, executors, crashes, sends>>

\* ... and is saved as stale, in a transaction of its own.
cleanupSave ==
  /\ cleanup # None
  /\ saveActionWithAudit(cleanup.id,
       [cleanup.row EXCEPT !.status = "stale"])
  /\ cleanup' = None
  /\ UNCHANGED <<chainVars, txVars, executors, crashes, sends>>

-------------------------------------------------------------------------------
(* Specification *)

\* Earlier direct calls are in the histories, later ones meet no executor: the bounds let
\* an admin call while a transaction of the queue is under way that another one signed,
\* and nothing else is queued.
ChainStep ==
  /\ \/ Tick /\ UNCHANGED <<treasuryDue, txVars>>
     \/ \E tx \in mempool : Mine(tx)
     \/ /\ \E e \in Executors : Awaits(e)
        /\ \A id \in ActionIds : crashes[id] + directCalls < MaxCrashes
        /\ Cardinality(Queued) = 1
        /\ DirectCall({a \in Accounts : \A e \in Executors : executors[e].signer # a})
  /\ UNCHANGED gatewayVars

ExecutorStep(e) ==
  \/ \E id \in ActionIds, signer \in InitialAdmins : executeStart(e, id, signer)
  \/ execute(e)
  \/ persistFailure(e)
  \/ persistExecutionTimeout(e)
  \/ persistExecution(e)
  \/ executorCrash(e)

GatewayNext ==
  \/ ChainStep
  \/ \E wallet \in admins, method \in Methods, id \in ProposalIds, target \in ProposalTargets :
       /\ TakesProposal(method) \/ id = 0
       /\ queueAction(wallet, method, id, target)
  \/ \E e \in Executors : ExecutorStep(e)
  \/ \E id \in ActionIds : persistStale(id) \/ cleanupCheck(id)
  \/ cleanupSave

GatewaySpec == GatewayInit /\ [][GatewayNext]_vars

-------------------------------------------------------------------------------
(* Properties *)

Sent == mempool \cup {receipt.tx : receipt \in mined}

\* However executors, cleanup and requests interleave, an action is broadcast
\* once, and again only after an executor died on it (the lock on the action id
\* and the early return on its status in executeAction).
SentOncePerRun == \A id \in ActionIds : sends[id] <= 1 + crashes[id]

\* A row that reports an outcome names a transaction of its own that was mined,
\* and a row that reports a proposal decided is right about it, whichever admin
\* decided it (persistExecution, resolvePostExecutionStatus).
RecordedOutcomeHappened ==
  \A id \in ActionIds :
    LET row == actions[id]
    IN  Exists(id) /\ row.status \in {"pending_approvals", "approved", "executed",
                                      "cancelled", "expired"} =>
          /\ \E receipt \in mined : receipt.tx = row.txHash /\ receipt.tx.action = id
          /\ TakesProposal(row.method) =>
               LET proposal == govProposals[KindOf(row.method)][row.proposalId]
               IN  /\ row.status = "executed" => proposal.executed
                   /\ row.status = "cancelled" => proposal.cancelled
                   /\ row.status = "approved" => proposal.approvalCount >= governanceApprovals

\* An approval reaches the chain only under the key of the operator who queued
\* it, whoever runs the executor (the signer check of executeAction).
ApprovalSignedByItsApprover ==
  \A tx \in Sent : tx.method \in ApprovalMethods => tx.signer = actions[tx.action].audit.actorWallet

\* Two open rows of one intent lie a whole queue lifetime apart: the older one
\* had expired in the queue before the younger was accepted, although it may
\* have been opened again since by an executor that started in time
\* (saveQueuedActionWithIntentDedupe).
OpenIntentsApart ==
  \A i, j \in ActionIds :
    /\ i < j /\ Exists(i) /\ Exists(j)
    /\ actions[i].intentKey = actions[j].intentKey
    /\ actions[i].status \in OpenStatuses /\ actions[j].status \in OpenStatuses
    => actions[i].expiresAt + QueueTTL <= actions[j].expiresAt

\* What the operations runbook says of the cleanup job: it marks requested
\* actions as stale, and no others.
CleanupOnlyMarksRequested ==
  [][\A id \in ActionIds :
       Exists(id) /\ actions'[id].status = "stale" /\ actions[id].status # "stale"
         => actions[id].status = "requested"]_vars

===============================================================================
