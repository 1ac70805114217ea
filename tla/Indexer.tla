-------------------------------- MODULE Indexer --------------------------------
(***************************************************************************)
(* indexer/src/main.ts: the processor that turns the contract's events     *)
(* into tables.  A batch is any number of new blocks, and every event of   *)
(* it a step.  The handlers work on the rows they have made or changed in  *)
(* this batch and fall back to the store; at the end everything is written *)
(* in one database transaction, together with the processor's position, so *)
(* that a crash repeats the batch and nothing else.                        *)
(***************************************************************************)
EXTENDS EscrowEvents, SequencesExt

VARIABLES
  store,            \* the tables
  batch,            \* the batch under way, its size in transactions, none between batches
  asOf,             \* ghost: the contract's state at the last block processed
  processed         \* ghost: the events of all blocks processed

indexerVars == <<store, batch, asOf, processed>>

\* An address is an account written in some mixture of cases.
toLowerCase(address) == [address EXCEPT !.form = "lower"]

Lowered(terms) ==
  [terms EXCEPT !.buyer = toLowerCase(terms.buyer), !.supplier = toLowerCase(terms.supplier)]

\* The rows of trades, of disputes and of updates.
TradeRow ==
  [status : Statuses, arrived : BOOLEAN, terms : {Lowered(Terms[t]) : t \in TradeIds}]

DisputeRow ==
  [trade : TradeIds, outcome : Outcomes, approvals : Nat, executed : BOOLEAN, cancelled : BOOLEAN]

UpdateRow == [approvals : Nat, executed : BOOLEAN, cancelled : BOOLEAN]

ASSUME RowAssumption == None \notin TradeRow \cup DisputeRow \cup UpdateRow

\* Trade rows and proposal rows by id, and the rows of the five event tables.
EmptyTables ==
  [trades    |-> [t \in TradeIds |-> None],
   disputes  |-> [p \in ProposalIds |-> None],
   oracle    |-> [p \in ProposalIds |-> None],
   admin     |-> [p \in ProposalIds |-> None],
   events    |-> {}]

NoBatch == [rows |-> EmptyTables, size |-> 0, tx |-> 1, event |-> 1]

IndexerInit ==
  /\ store = EmptyTables
  /\ batch = NoBatch
  /\ asOf = chain
  /\ processed = {}

------------------------------------------------------------------------------
(* What the handlers share: w is what the batch has so far. *)

getOrLoad(w, table, id) == IF w[table][id] # None THEN w[table][id] ELSE store[table][id]

\* An event row has the id of its event and names the trade or proposal it belongs to.
EventRow(table, e) ==
  [id |-> e.id, table |-> table, name |-> e.name, trade |-> e.trade, proposal |-> e.proposal,
   hash |-> e.hash, time |-> e.time, block |-> e.block]

Insert(table, w, e) == [w EXCEPT !.events = @ \cup {EventRow(table, e)}]

\* row is what the handler makes of the row of the trade or proposal; when there is none it
\* logs an error and does no more.
Change(w, table, id, events, e, row) ==
  IF getOrLoad(w, table, id) = None THEN w ELSE Insert(events, [w EXCEPT ![table][id] = row], e)

TradeOf(w, e) == getOrLoad(w, "trades", e.trade)

OnTrade(w, e, row) == Change(w, "trades", e.trade, "tradeEvents", e, row)

WithStatus(w, e, s) == OnTrade(w, e, [TradeOf(w, e) EXCEPT !.status = s])

\* What the handlers of the three kinds of proposals have in common.
ProposalOf(w, table, e) == getOrLoad(w, table, e.proposal)

OnApproval(w, table, events, e) ==
  Change(w, table, e.proposal, events, e,
         [ProposalOf(w, table, e) EXCEPT !.approvals = e.approvals])

OnCancellation(w, table, events, e) ==
  Change(w, table, e.proposal, events, e, [ProposalOf(w, table, e) EXCEPT !.cancelled = TRUE])

------------------------------------------------------------------------------
(* Trades *)

handleTradeLocked(w, e) ==
  LET row == [status |-> "LOCKED", arrived |-> FALSE, terms |-> Lowered(e.terms)]
  IN Insert("tradeEvents", [w EXCEPT !.trades[e.trade] = row], e)

handleFundsReleasedStage1(w, e) == WithStatus(w, e, "IN_TRANSIT")

handlePlatformFeesPaidStage1(w, e) == OnTrade(w, e, TradeOf(w, e))

handleArrivalConfirmed(w, e) ==
  OnTrade(w, e, [TradeOf(w, e) EXCEPT !.status = "ARRIVAL_CONFIRMED", !.arrived = TRUE])

handleFinalTrancheReleased(w, e) == WithStatus(w, e, "CLOSED")

handleDisputeOpenedByBuyer(w, e) == WithStatus(w, e, "FROZEN")

handleTradeCancelledAfterLockTimeout(w, e) == WithStatus(w, e, "CLOSED")

handleInTransitTimeoutRefunded(w, e) == WithStatus(w, e, "CLOSED")

\* Mutant: the trade is looked for among the rows of this batch only.
handleClaimableAccrued_cached(w, e) ==
  IF w.trades[e.trade] = None THEN w ELSE Insert("tradeEvents", w, e)

handleClaimableAccrued(w, e) == OnTrade(w, e, TradeOf(w, e))

------------------------------------------------------------------------------
(* Disputes.  The handlers compare the decoded status, which ethers gives as a *)
(* bigint, with the number 0 by ===: no status is a refund.                     *)

DisputeStatusEnum(outcome) == "RESOLVE"

handleDisputeSolutionProposed(w, e) ==
  IF TradeOf(w, e) = None
  THEN w
  ELSE Insert("disputeEvents",
              [w EXCEPT !.trades[e.trade] = TradeOf(w, e),
                        !.disputes[e.proposal] =
                           [trade |-> e.trade, outcome |-> DisputeStatusEnum(e.outcome),
                            approvals |-> 1, executed |-> FALSE, cancelled |-> FALSE]], e)

handleDisputeApproved(w, e) == OnApproval(w, "disputes", "disputeEvents", e)

\* The trade is left as it is.
handleDisputeFinalized(w, e) ==
  Change(w, "disputes", e.proposal, "disputeEvents", e,
         [ProposalOf(w, "disputes", e) EXCEPT !.executed = TRUE])

handleDisputeProposalExpiredCancelled(w, e) == OnCancellation(w, "disputes", "disputeEvents", e)

\* Neither does the payout change the trade.
handleDisputePayout(w, e) == OnTrade(w, e, TradeOf(w, e))

------------------------------------------------------------------------------
(* Oracle updates and admin additions *)

NewProposal == [approvals |-> 1, executed |-> FALSE, cancelled |-> FALSE]

handleOracleUpdateProposed(w, e) ==
  Insert("oracleEvents", [w EXCEPT !.oracle[e.proposal] = NewProposal], e)

handleOracleUpdateApproved(w, e) == OnApproval(w, "oracle", "oracleEvents", e)

\* The row of the proposal is not known here and stays unexecuted.
handleOracleUpdated(w, e) == Insert("oracleEvents", w, e)

handleOracleUpdateProposalExpiredCancelled(w, e) == OnCancellation(w, "oracle", "oracleEvents", e)

handleOracleDisabledEmergency(w, e) == Insert("oracleEvents", w, e)

handleAdminAddProposed(w, e) ==
  Insert("adminEvents", [w EXCEPT !.admin[e.proposal] = NewProposal], e)

handleAdminAddApproved(w, e) == OnApproval(w, "admin", "adminEvents", e)

handleAdminAdded(w, e) == Insert("adminEvents", w, e)

handleAdminAddProposalExpiredCancelled(w, e) == OnCancellation(w, "admin", "adminEvents", e)

------------------------------------------------------------------------------
(* Switches, claims and payout receiver updates are only recorded. *)

handlePaused(w, e) == Insert("systemEvents", w, e)

handleUnpauseProposed(w, e) == Insert("systemEvents", w, e)

handleUnpauseApproved(w, e) == Insert("systemEvents", w, e)

handleUnpauseProposalCancelled(w, e) == Insert("systemEvents", w, e)

handleUnpaused(w, e) == Insert("systemEvents", w, e)

handleClaimed(w, e) == Insert("systemEvents", w, e)

handleTreasuryClaimed(w, e) == Insert("systemEvents", w, e)

handleTreasuryPayoutAddressUpdateProposed(w, e) == Insert("systemEvents", w, e)

handleTreasuryPayoutAddressUpdateApproved(w, e) == Insert("systemEvents", w, e)

handleTreasuryPayoutAddressUpdated(w, e) == Insert("systemEvents", w, e)

handleTreasuryPayoutAddressUpdateProposalExpiredCancelled(w, e) == Insert("systemEvents", w, e)

handleClaimsPaused(w, e) == Insert("systemEvents", w, e)

handleClaimsUnpaused(w, e) == Insert("systemEvents", w, e)

------------------------------------------------------------------------------
(* The batch *)

handle(w, e) ==
  CASE e.name = "TradeLocked" -> handleTradeLocked(w, e)
    [] e.name = "FundsReleasedStage1" -> handleFundsReleasedStage1(w, e)
    [] e.name = "PlatformFeesPaidStage1" -> handlePlatformFeesPaidStage1(w, e)
    [] e.name = "ArrivalConfirmed" -> handleArrivalConfirmed(w, e)
    [] e.name = "FinalTrancheReleased" -> handleFinalTrancheReleased(w, e)
    [] e.name = "DisputeOpenedByBuyer" -> handleDisputeOpenedByBuyer(w, e)
    [] e.name = "TradeCancelledAfterLockTimeout" -> handleTradeCancelledAfterLockTimeout(w, e)
    [] e.name = "InTransitTimeoutRefunded" -> handleInTransitTimeoutRefunded(w, e)
    [] e.name = "DisputeSolutionProposed" -> handleDisputeSolutionProposed(w, e)
    [] e.name = "DisputeApproved" -> handleDisputeApproved(w, e)
    [] e.name = "DisputeFinalized" -> handleDisputeFinalized(w, e)
    [] e.name = "DisputeProposalExpiredCancelled" -> handleDisputeProposalExpiredCancelled(w, e)
    [] e.name = "DisputePayout" -> handleDisputePayout(w, e)
    [] e.name = "OracleUpdateProposed" -> handleOracleUpdateProposed(w, e)
    [] e.name = "OracleUpdateApproved" -> handleOracleUpdateApproved(w, e)
    [] e.name = "OracleUpdated" -> handleOracleUpdated(w, e)
    [] e.name = "OracleUpdateProposalExpiredCancelled" ->
         handleOracleUpdateProposalExpiredCancelled(w, e)
    [] e.name = "OracleDisabledEmergency" -> handleOracleDisabledEmergency(w, e)
    [] e.name = "AdminAddProposed" -> handleAdminAddProposed(w, e)
    [] e.name = "AdminAddApproved" -> handleAdminAddApproved(w, e)
    [] e.name = "AdminAdded" -> handleAdminAdded(w, e)
    [] e.name = "AdminAddProposalExpiredCancelled" -> handleAdminAddProposalExpiredCancelled(w, e)
    [] e.name = "Paused" -> handlePaused(w, e)
    [] e.name = "UnpauseProposed" -> handleUnpauseProposed(w, e)
    [] e.name = "UnpauseApproved" -> handleUnpauseApproved(w, e)
    [] e.name = "UnpauseProposalCancelled" -> handleUnpauseProposalCancelled(w, e)
    [] e.name = "Unpaused" -> handleUnpaused(w, e)
    [] e.name = "ClaimsPaused" -> handleClaimsPaused(w, e)
    [] e.name = "ClaimsUnpaused" -> handleClaimsUnpaused(w, e)
    [] e.name = "Claimed" -> handleClaimed(w, e)
    [] e.name = "TreasuryClaimed" -> handleTreasuryClaimed(w, e)
    [] e.name = "TreasuryPayoutAddressUpdateProposed" -> handleTreasuryPayoutAddressUpdateProposed(w, e)
    [] e.name = "TreasuryPayoutAddressUpdateApproved" -> handleTreasuryPayoutAddressUpdateApproved(w, e)
    [] e.name = "TreasuryPayoutAddressUpdated" -> handleTreasuryPayoutAddressUpdated(w, e)
    [] e.name = "TreasuryPayoutAddressUpdateProposalExpiredCancelled" ->
         handleTreasuryPayoutAddressUpdateProposalExpiredCancelled(w, e)
    [] e.name = "ClaimableAccrued" -> handleClaimableAccrued(w, e)
    [] OTHER -> w

\* The rows of the batch replace those of the store, its events are added to them.
Upserted(w, table) == [id \in DOMAIN store[table] |-> getOrLoad(w, table, id)]

Saved(w) ==
  [trades   |-> Upserted(w, "trades"),
   disputes |-> Upserted(w, "disputes"),
   oracle   |-> Upserted(w, "oracle"),
   admin    |-> Upserted(w, "admin"),
   events   |-> store.events \cup w.events]

\* The processor is given the next blocks, none of them in part.
startBatch ==
  /\ batch.size = 0
  /\ \E n \in 1 .. Len(pending) : pending[n].last /\ batch' = [NoBatch EXCEPT !.size = n]
  /\ UNCHANGED <<store, asOf, processed>>

\* The next event of the batch, in the order of transactions and of events in a transaction.
handleEvent ==
  /\ batch.tx <= batch.size
  /\ LET events == pending[batch.tx].events
         last   == batch.event = Len(events)
     IN batch' = [rows  |-> handle(batch.rows, events[batch.event]),
                  size  |-> batch.size,
                  tx    |-> IF last THEN batch.tx + 1 ELSE batch.tx,
                  event |-> IF last THEN 1 ELSE batch.event + 1]
  /\ UNCHANGED <<store, asOf, processed>>

\* What a reader can ask of an event: which one it is, what it says and of what.
KeyOf(e) == [id |-> e.id, name |-> e.name, trade |-> e.trade, proposal |-> e.proposal]

KeysOf(tx) == {KeyOf(tx.events[i]) : i \in DOMAIN tx.events}

\* The batch is saved, and with it that its blocks are done.
saveBatch ==
  /\ batch.size > 0
  /\ batch.tx > batch.size
  /\ store' = Saved(batch.rows)
  /\ asOf' = pending[batch.size].after
  /\ processed' = processed \cup UNION {KeysOf(pending[i]) : i \in 1 .. batch.size}
  /\ pending' = SubSeq(pending, batch.size + 1, Len(pending))
  /\ batch' = NoBatch

\* Mutant: the rows are saved although the batch is not done.
batchFails_saved ==
  /\ batch.size > 0
  /\ store' = Saved(batch.rows)
  /\ batch' = NoBatch
  /\ UNCHANGED <<asOf, processed>>

\* The process stops or the transaction is rolled back: the blocks will be processed again.
batchFails ==
  /\ batch.size > 0
  /\ batch' = NoBatch
  /\ UNCHANGED <<store, asOf, processed>>

processBatch ==
  \/ startBatch /\ UNCHANGED chainVars
  \/ handleEvent /\ UNCHANGED chainVars
  \/ saveBatch /\ UNCHANGED <<chain, mined>>
  \/ batchFails /\ UNCHANGED chainVars

------------------------------------------------------------------------------
(* What the tables promise their readers *)

\* The contract's dispute of this trade that was executed.
Decided(contract, t) ==
  {p \in ProposalIds : contract.disputes[p] # None /\ contract.disputes[p].subject = t
                        /\ contract.disputes[p].executed}

TradeAgrees(row, contract, t) ==
  IF contract.status[t] = "NONE"
  THEN row = None
  ELSE /\ row # None
       /\ row.status = IF Decided(contract, t) # {} THEN "FROZEN" ELSE contract.status[t]
       /\ row.arrived = contract.arrived[t]
       /\ row.terms = Lowered(Terms[t])

ProposalAgrees(row, onchain) ==
  IF onchain = None
  THEN row = None
  ELSE /\ row # None
       /\ row.approvals = onchain.approvals
       /\ row.cancelled = onchain.cancelled

ExecutionAgrees(row, onchain) == onchain # None => row.executed = onchain.executed

\* The tables are those of a contract in this state.
Show(tables, contract) ==
  /\ \A t \in TradeIds : TradeAgrees(tables.trades[t], contract, t)
  /\ \A p \in ProposalIds :
       /\ ProposalAgrees(tables.disputes[p], contract.disputes[p])
       /\ ProposalAgrees(tables.oracle[p], contract.updates["oracle"][p])
       /\ ProposalAgrees(tables.admin[p], contract.updates["admin"][p])
       /\ ExecutionAgrees(tables.disputes[p], contract.disputes[p])

\* The event rows are those of the events processed: none is dropped because its trade or
\* proposal was met in another batch, and none is there of a batch that was not saved.
EveryEventHasItsRow == {KeyOf(row) : row \in store.events} = processed

\* However the blocks were cut into batches, and whichever batches failed half-way, the
\* tables show the contract as it was at the last block processed, and every event up to
\* there once (getOrLoadTrade and the handlers).  Two things they do not follow: the status
\* of a trade whose dispute was decided, which stays FROZEN, and the execution of an
\* oracle update or an admin addition.
TablesShowTheChain == Show(store, asOf) /\ EveryEventHasItsRow

\* The index shows the final outcome of a dispute and the settlement of its trade.
DisputeOutcomeIndexed ==
  \A p \in ProposalIds :
    (store.disputes[p] # None /\ store.disputes[p].executed) =>
       /\ store.disputes[p].outcome = asOf.disputes[p].outcome
       /\ store.trades[store.disputes[p].trade].status = "CLOSED"

===============================================================================
