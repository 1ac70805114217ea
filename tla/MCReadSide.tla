------------------------------ MODULE MCReadSide ------------------------------
(***************************************************************************)
(* The services that read the chain, on small instances.  The chain and    *)
(* the indexer run in every one of them, together with                     *)
(*   - disputes:   nothing else, one trade and its disputes,               *)
(*   - governance: nothing else, proposals and switches,                   *)
(*   - fees:       two ingestions and two operators of the treasury, from  *)
(*                 two locked trades on,                                   *)
(*   - audit:      two reconciliation workers, from a trade in dispute on. *)
(***************************************************************************)
EXTENDS Reconciliation, TradeRead

CONSTANTS i1, i2, p1, p2, w1, w2

VARIABLE scenario

TwoTrades == 1 .. 2
TwoProposals == 1 .. 2
TwoIngestions == {i1, i2}
TwoOperators == {p1, p2}
TwoWorkers == {w1, w2}
OneKey == {"daemon-1"}

\* Buyers and suppliers in the form in which the contract's answers show them.
TermsOf ==
  [t \in TwoTrades |->
     [buyer |-> [account |-> "buyer", form |-> "checksum"],
      supplier |-> [account |-> "supplier", form |-> "checksum"],
      amounts |-> [supplierFirstTranche |-> t, supplierSecondTranche |-> t + 1],
      hash |-> t]]

vars == <<chainVars, indexerVars, treasuryVars, reconciliationVars, scenario>>

\* The treasury starts with two locked trades, the audit with a trade that an admin has
\* proposed to refund.
LockedChain ==
  [status |-> [t \in TradeIds |-> "LOCKED"],
   arrived |-> [t \in TradeIds |-> FALSE],
   disputes |-> [p \in ProposalIds |-> None],
   updates |-> [k \in UpdateKinds |-> [p \in ProposalIds |-> None]]]

FrozenChain ==
  [LockedChain EXCEPT !.status = [t \in TradeIds |-> IF t = 1 THEN "FROZEN" ELSE "NONE"],
                      !.arrived[1] = TRUE,
                      !.disputes[1] = Proposed(1, "REFUND")]

\* The events that led there, and what the indexer has made of them.
At(time, name) == [Event(name) EXCEPT !.trade = 1, !.time = time]

LockedBlocks == [t \in TradeIds |-> Numbered(<<[At(1, "TradeLocked") EXCEPT !.trade = t]>>, t, t)]

ReleaseEvents ==
  <<At(2, "ClaimableAccrued"), At(2, "ClaimableAccrued"), At(2, "ClaimableAccrued"),
    At(2, "FundsReleasedStage1"), At(2, "PlatformFeesPaidStage1")>>

FrozenBlocks ==
  <<Numbered(<<At(1, "TradeLocked")>>, 1, 1), Numbered(ReleaseEvents, 2, 2),
    Numbered(<<At(3, "ArrivalConfirmed")>>, 3, 3),
    Numbered(<<At(4, "DisputeOpenedByBuyer")>>, 4, 4)>>

FrozenProposal ==
  Numbered(<<[At(5, "DisputeSolutionProposed") EXCEPT !.proposal = 1, !.outcome = "REFUND"]>>, 5, 5)

EventsOf(blocks) == UNION {ToSet(blocks[i]) : i \in DOMAIN blocks}

IndexedTrade(t, status, arrived) ==
  [status |-> status, arrived |-> arrived,
   terms |-> [Terms[t] EXCEPT !.buyer.form = "lower", !.supplier.form = "lower"]]

TradeEventRows(events) == {EventRow("tradeEvents", e) : e \in events}

LockedTables ==
  [EmptyTables EXCEPT
     !.trades = [t \in TradeIds |-> IndexedTrade(t, "LOCKED", FALSE)],
     !.events = TradeEventRows(EventsOf(LockedBlocks))]

FrozenTables ==
  [EmptyTables EXCEPT
     !.trades[1] = IndexedTrade(1, "FROZEN", TRUE),
     !.disputes[1] = [trade |-> 1, outcome |-> "RESOLVE", approvals |-> 1,
                      executed |-> FALSE, cancelled |-> FALSE],
     !.events = TradeEventRows(EventsOf(FrozenBlocks))
                \cup {EventRow("disputeEvents", e) : e \in ToSet(FrozenProposal)}]

\* Every event of the past has been read.
Indexed(past, tables, blocks) ==
  /\ chain = past
  /\ pending = <<>>
  /\ mined = Len(blocks)
  /\ store = tables
  /\ batch = NoBatch
  /\ asOf = chain
  /\ processed = {KeyOf(e) : e \in EventsOf(blocks)}

Init ==
  /\ TreasuryInit
  /\ ReconciliationInit
  /\ \/ scenario \in {"disputes", "governance"} /\ EventsInit /\ IndexerInit
     \/ scenario = "fees" /\ Indexed(LockedChain, LockedTables, LockedBlocks)
     \/ scenario = "audit" /\ Indexed(FrozenChain, FrozenTables, Append(FrozenBlocks, FrozenProposal))

Quiet(extra) == UNCHANGED <<extra, scenario>>

\* Each scenario has its own bound on transactions, those of its past included.
Transactions == [disputes |-> 8, governance |-> 3, fees |-> 4, audit |-> 7]

\* Nobody sees the rows of a batch before they are saved.  Beside the treasury and the audit
\* the indexer therefore handles the events of a block at once, and others wait until it may
\* save.
Undisturbed ==
  scenario \in {"fees", "audit"} => IF batch.size = 0 THEN pending = <<>> ELSE batch.tx > batch.size

\* To the indexer a block of several transactions is a batch that is not cut between them.
\* Only the treasury, which reads fees in the order of blocks, meets such blocks here: the
\* second release may be in the block of the first.
BlockIsOpen == scenario = "fees" /\ batch.size = 0 /\ pending # <<>> /\ ~Last(pending).last

BlocksClose == Last(pending').last \/ (scenario = "fees" /\ mined' < Transactions[scenario])

Chain ==
  /\ mined < Transactions[scenario]
  /\ Undisturbed \/ BlockIsOpen
  /\ \/ scenario = "disputes" /\ TradeTransaction /\ \A t \in TradeIds : chain'.status[t] # "NONE" => t = 1
     \/ scenario = "disputes" /\ DisputeTransaction
     \/ scenario = "governance" /\ GovernanceTransaction
     \/ scenario = "fees" /\ \E t \in TradeIds : releaseFundsStage1(t)
     \/ scenario = "audit" /\ (TradeTransaction \/ DisputeTransaction)
  /\ BlocksClose
  /\ Quiet(<<indexerVars, treasuryVars, reconciliationVars>>)

Index == processBatch /\ Quiet(<<treasuryVars, reconciliationVars>>)

ReleasesShareABlock ==
  \E row, other \in FeeEvents : row.trade # other.trade /\ BlockOf(row) = BlockOf(other)

\* The operators work on one entry: payouts of different entries do not meet.  Nor do they
\* depend on how the entries were fetched, and so they rest where releases share a block.
Fees ==
  /\ scenario = "fees"
  /\ Undisturbed
  /\ IngestionStep \/ PayoutStep
  /\ \A c \in PayoutCalls : paying'[c] # NoCall => paying'[c].entry = <<<<3, 4>>, "LOGISTICS">>
  /\ ReleasesShareABlock => paying' = paying
  /\ Quiet(<<chainVars, indexerVars, reconciliationVars>>)

Audit ==
  /\ scenario = "audit"
  /\ Undisturbed
  /\ ReconciliationStep
  /\ Quiet(<<chainVars, indexerVars, treasuryVars>>)

Next == Chain \/ Index \/ Fees \/ Audit

Spec == Init /\ [][Next]_vars

Symmetry == Permutations(TwoIngestions) \cup Permutations(TwoOperators) \cup Permutations(TwoWorkers)

===============================================================================
