----------------------------- MODULE EscrowEvents -----------------------------
(***************************************************************************)
(* The event stream of contracts/src/AgroasysEscrow.sol as the services    *)
(* that read the chain see it: every transaction that succeeds, with the   *)
(* events it emits in the order in which it emits them, and the block it   *)
(* is in, which it may share with others.  What a transaction requires is  *)
(* reduced to the statuses and the flags of proposals; clocks, callers and *)
(* balances are AgroasysEscrow's and EscrowGovernance's.                   *)
(***************************************************************************)
EXTENDS Integers, Sequences

CONSTANTS
  TradeIds,
  ProposalIds,      \* the dispute proposals, and the proposals of each kind of update
  None,             \* an absent value or row
  Terms,            \* Terms[t]: parties, amounts and document hash of trade t
  Quorum,           \* requiredApprovals
  MaxTransactions   \* bound on the number of transactions

Outcomes == {"REFUND", "RESOLVE"}

\* A proposal on-chain: of a dispute of the trade subject, or of an update, without either.
Proposal ==
  [subject : TradeIds \cup {None}, outcome : Outcomes \cup {None}, approvals : Nat,
   executed : BOOLEAN, cancelled : BOOLEAN]

ASSUME EventsAssumption ==
  /\ TradeIds \subseteq Nat
  /\ ProposalIds \subseteq Nat
  /\ None \notin Proposal
  /\ Quorum \in Nat \ {0}
  /\ MaxTransactions \in Nat

VARIABLES
  chain,            \* the state of the contract
  pending,          \* the transactions that the indexer has not processed
  mined             \* how many transactions there have been

chainVars == <<chain, pending, mined>>

Statuses == {"NONE", "LOCKED", "IN_TRANSIT", "ARRIVAL_CONFIRMED", "FROZEN", "CLOSED"}

\* Oracle updates and admin additions; payout receiver updates are told by name only.
UpdateKinds == {"oracle", "admin"}

EventsInit ==
  /\ chain = [status   |-> [t \in TradeIds |-> "NONE"],
              arrived  |-> [t \in TradeIds |-> FALSE],
              disputes |-> [p \in ProposalIds |-> None],
              updates  |-> [k \in UpdateKinds |-> [p \in ProposalIds |-> None]]]
  /\ pending = <<>>
  /\ mined = 0

\* An event; what it does not carry is None.  hash says whether the transaction came as
\* an EVM transaction, whose hash the indexer can derive.
Event(name) ==
  [id |-> None, name |-> name, trade |-> None, proposal |-> None, approvals |-> None,
   outcome |-> None, terms |-> None, hash |-> TRUE, time |-> None, block |-> None]

\* When the next transaction of a trade is made, on a clock of the trade's own.
Moment(t) == [NONE |-> 1, LOCKED |-> 2, IN_TRANSIT |-> 3, ARRIVAL_CONFIRMED |-> 4, FROZEN |-> 5][chain.status[t]]

OfTrade(name, t) == [Event(name) EXCEPT !.trade = t, !.time = Moment(t)]

OfProposal(name, p, approvals) == [Event(name) EXCEPT !.proposal = p, !.approvals = approvals]

\* The events of the n-th transaction: their ids are different in all of the chain.
Numbered(events, n, block) ==
  [i \in DOMAIN events |-> [events[i] EXCEPT !.id = <<n, i>>, !.block = block]]

\* The block of the next transaction: that of the one before unless it was the last of its
\* block.  A block has the number of its first transaction.
NextBlock ==
  IF pending # <<>> /\ ~pending[Len(pending)].last THEN pending[Len(pending)].block ELSE mined + 1

\* A transaction that leaves the contract in state next and emits these events.
Transaction(next, events) ==
  /\ chain' = next
  /\ mined' = mined + 1
  /\ \E last \in BOOLEAN :
       pending' = Append(pending, [events |-> Numbered(events, mined + 1, NextBlock),
                                   after |-> next, block |-> NextBlock, last |-> last])

Accepts(t, before) ==
  /\ chain.status[t] = before
  /\ mined < MaxTransactions

StatusSet(t, after) == [chain EXCEPT !.status[t] = after]

\* Trades are numbered in the order of their creation.
createTrade(t) ==
  /\ Accepts(t, "NONE")
  /\ \A earlier \in TradeIds : earlier < t => chain.status[earlier] # "NONE"
  /\ Transaction(StatusSet(t, "LOCKED"), <<[OfTrade("TradeLocked", t) EXCEPT !.terms = Terms[t]]>>)

\* The only transaction whose hash matters to a reader (the treasury).
releaseFundsStage1(t) ==
  /\ Accepts(t, "LOCKED")
  /\ \E evm \in BOOLEAN :
       LET Emit(name) == [OfTrade(name, t) EXCEPT !.hash = evm] IN
       Transaction(StatusSet(t, "IN_TRANSIT"),
                   <<Emit("ClaimableAccrued"), Emit("ClaimableAccrued"), Emit("ClaimableAccrued"),
                     Emit("FundsReleasedStage1"), Emit("PlatformFeesPaidStage1")>>)

confirmArrival(t) ==
  /\ Accepts(t, "IN_TRANSIT")
  /\ Transaction([StatusSet(t, "ARRIVAL_CONFIRMED") EXCEPT !.arrived[t] = TRUE],
                 <<OfTrade("ArrivalConfirmed", t)>>)

openDispute(t) ==
  /\ Accepts(t, "ARRIVAL_CONFIRMED")
  /\ Transaction(StatusSet(t, "FROZEN"), <<OfTrade("DisputeOpenedByBuyer", t)>>)

\* The three settlements without a dispute accrue a claim before they report.
Settle(t, before, name) ==
  /\ Accepts(t, before)
  /\ Transaction(StatusSet(t, "CLOSED"), <<OfTrade("ClaimableAccrued", t), OfTrade(name, t)>>)

finalizeAfterDisputeWindow(t) == Settle(t, "ARRIVAL_CONFIRMED", "FinalTrancheReleased")

cancelLockedTradeAfterTimeout(t) == Settle(t, "LOCKED", "TradeCancelledAfterLockTimeout")

refundInTransitAfterTimeout(t) == Settle(t, "IN_TRANSIT", "InTransitTimeoutRefunded")

Proposed(subject, outcome) ==
  [subject |-> subject, outcome |-> outcome, approvals |-> 1, executed |-> FALSE, cancelled |-> FALSE]

IsOpen(row) == row # None /\ ~row.executed /\ ~row.cancelled

FirstFree(rows) ==
  CHOOSE p \in ProposalIds : rows[p] = None /\ \A q \in ProposalIds : q < p => rows[q] # None

OfDispute(name, p, row) ==
  [OfTrade(name, row.subject) EXCEPT !.proposal = p, !.outcome = row.outcome]

\* The events of a dispute that is executed, after the approval that decided it.
Execution(p, row) ==
  <<OfTrade("ClaimableAccrued", row.subject),
    OfDispute("DisputePayout", p, row), OfDispute("DisputeFinalized", p, row)>>

\* With a quorum of one a dispute is executed as it is proposed.  An open proposal of
\* the trade has expired, and is cancelled on the way.
proposeDisputeSolution(t, outcome) ==
  /\ Accepts(t, "FROZEN")
  /\ \E p \in ProposalIds : chain.disputes[p] = None
  /\ LET p       == FirstFree(chain.disputes)
         expired == {q \in ProposalIds : IsOpen(chain.disputes[q]) /\ chain.disputes[q].subject = t}
         row     == Proposed(t, outcome)
         decided == Quorum = 1
         cleaned == [q \in ProposalIds |-> IF q \in expired
                                           THEN [chain.disputes[q] EXCEPT !.cancelled = TRUE]
                                           ELSE chain.disputes[q]]
         Cancel(q) == [OfProposal("DisputeProposalExpiredCancelled", q, None) EXCEPT !.trade = t]
     IN Transaction(
          [chain EXCEPT !.disputes = [cleaned EXCEPT ![p] = [row EXCEPT !.executed = decided]],
                        !.status[t] = IF decided THEN "CLOSED" ELSE @],
          (IF expired = {} THEN <<>> ELSE <<Cancel(CHOOSE q \in expired : TRUE)>>)
            \o <<OfDispute("DisputeSolutionProposed", p, row)>>
            \o (IF decided THEN Execution(p, row) ELSE <<>>))

approveDisputeSolution(p) ==
  /\ mined < MaxTransactions
  /\ IsOpen(chain.disputes[p])
  /\ LET row     == [chain.disputes[p] EXCEPT !.approvals = @ + 1]
         decided == row.approvals >= Quorum
     IN Transaction(
          [chain EXCEPT !.disputes[p] = [row EXCEPT !.executed = decided],
                        !.status[row.subject] = IF decided THEN "CLOSED" ELSE @],
          <<OfProposal("DisputeApproved", p, row.approvals)>>
            \o (IF decided THEN Execution(p, row) ELSE <<>>))

cancelExpiredDisputeProposal(p) ==
  /\ mined < MaxTransactions
  /\ IsOpen(chain.disputes[p])
  /\ Transaction([chain EXCEPT !.disputes[p].cancelled = TRUE],
                 <<[OfProposal("DisputeProposalExpiredCancelled", p, None)
                      EXCEPT !.trade = chain.disputes[p].subject]>>)

\* How the events of an update of each kind are called.
NameOf(kind, step) ==
  IF kind = "oracle"
  THEN [propose |-> "OracleUpdateProposed", approve |-> "OracleUpdateApproved",
        execute |-> "OracleUpdated", cancel |-> "OracleUpdateProposalExpiredCancelled"][step]
  ELSE [propose |-> "AdminAddProposed", approve |-> "AdminAddApproved",
        execute |-> "AdminAdded", cancel |-> "AdminAddProposalExpiredCancelled"][step]

proposeUpdate(kind) ==
  /\ mined < MaxTransactions
  /\ \E p \in ProposalIds : chain.updates[kind][p] = None
  /\ LET p == FirstFree(chain.updates[kind])
     IN Transaction([chain EXCEPT !.updates[kind][p] = Proposed(None, None)],
                    <<OfProposal(NameOf(kind, "propose"), p, None),
                      OfProposal(NameOf(kind, "approve"), p, 1)>>)

approveUpdate(kind, p) ==
  /\ mined < MaxTransactions
  /\ IsOpen(chain.updates[kind][p])
  /\ LET approvals == chain.updates[kind][p].approvals + 1
     IN Transaction([chain EXCEPT !.updates[kind][p].approvals = approvals],
                    <<OfProposal(NameOf(kind, "approve"), p, approvals)>>)

\* The event does not say which proposal was executed.
executeUpdate(kind, p) ==
  /\ mined < MaxTransactions
  /\ IsOpen(chain.updates[kind][p])
  /\ chain.updates[kind][p].approvals >= Quorum
  /\ Transaction([chain EXCEPT !.updates[kind][p].executed = TRUE],
                 <<Event(NameOf(kind, "execute"))>>)

cancelExpiredUpdate(kind, p) ==
  /\ mined < MaxTransactions
  /\ IsOpen(chain.updates[kind][p])
  /\ Transaction([chain EXCEPT !.updates[kind][p].cancelled = TRUE],
                 <<OfProposal(NameOf(kind, "cancel"), p, None)>>)

\* The transactions whose events nothing is derived from.
Announcements ==
  {"Paused", "UnpauseProposed", "UnpauseApproved", "UnpauseProposalCancelled", "Unpaused",
   "ClaimsPaused", "ClaimsUnpaused", "Claimed", "TreasuryClaimed", "OracleDisabledEmergency",
   "TreasuryPayoutAddressUpdateProposed", "TreasuryPayoutAddressUpdateApproved",
   "TreasuryPayoutAddressUpdated", "TreasuryPayoutAddressUpdateProposalExpiredCancelled"}

announce(name) ==
  /\ mined < MaxTransactions
  /\ Transaction(chain, <<Event(name)>>)

TradeTransaction ==
  \E t \in TradeIds :
    \/ createTrade(t)
    \/ releaseFundsStage1(t)
    \/ confirmArrival(t)
    \/ openDispute(t)
    \/ finalizeAfterDisputeWindow(t)
    \/ cancelLockedTradeAfterTimeout(t)
    \/ refundInTransitAfterTimeout(t)

DisputeTransaction ==
  \/ \E t \in TradeIds, outcome \in Outcomes : proposeDisputeSolution(t, outcome)
  \/ \E p \in ProposalIds : approveDisputeSolution(p) \/ cancelExpiredDisputeProposal(p)

GovernanceTransaction ==
  \/ \E kind \in UpdateKinds : proposeUpdate(kind)
  \/ \E kind \in UpdateKinds, p \in ProposalIds :
       \/ approveUpdate(kind, p)
       \/ executeUpdate(kind, p)
       \/ cancelExpiredUpdate(kind, p)
  \/ \E name \in Announcements : announce(name)

===============================================================================
