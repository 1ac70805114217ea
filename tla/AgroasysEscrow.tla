---------------------------- MODULE AgroasysEscrow ----------------------------
(***************************************************************************)
(* contracts/src/AgroasysEscrow.sol: milestone escrow of USDC.  A buyer    *)
(* locks the amounts of a trade; the oracle releases the first tranche and *)
(* the fees (stage 1) and confirms the arrival of the goods; the buyer may *)
(* freeze the trade within the dispute window, and admins then decide; the *)
(* remaining tranche goes to the supplier or back to the buyer.  Payments  *)
(* only accrue; each recipient pulls what it is owed.  The administrative  *)
(* state and its operations come from EscrowGovernance.                    *)
(***************************************************************************)
EXTENDS EscrowGovernance, FiniteSetsExt

CONSTANTS
  Escrow,              \* address(this)
  Hashes,              \* ricardian hashes, bytes32 values other than zero
  ZeroHash,            \* bytes32(0)
  Orders,              \* the createTrade arguments that callers try
  InitialUsdc,         \* USDC balances (and allowances) of the accounts
  DisputeWindow,       \* 24 hours, in clock ticks
  LockTimeout,         \* 7 days
  InTransitTimeout,    \* 14 days
  DisputeProposalTTL,  \* 7 days
  MaxTrades,           \* bound: number of trades
  MaxDisputes,         \* bound: number of dispute proposals
  LastInputTime        \* bound: no trade or oracle milestone after this time

TradeIds == 0 .. (MaxTrades - 1)

DisputeIds == 0 .. (MaxDisputes - 1)

\* The amounts and the parties a createTrade call names.
Order ==
  [supplier : Accounts \cup {ZeroAddress}, ricardianHash : Hashes \cup {ZeroHash},
   total : Nat, logistics : Nat, platformFees : Nat,
   firstTranche : Nat, secondTranche : Nat]

ASSUME EscrowAssumption ==
  /\ Escrow \notin Accounts \cup {ZeroAddress}
  /\ ZeroHash \notin Hashes
  /\ Orders \subseteq Order
  /\ InitialUsdc \in [Accounts -> Nat]
  /\ DisputeWindow \in Nat
  /\ LockTimeout \in Nat
  /\ InTransitTimeout \in Nat
  /\ DisputeProposalTTL \in Nat
  /\ MaxTrades \in Nat
  /\ MaxDisputes \in Nat
  /\ LastInputTime \in Nat

\* An address is 160 bits wide.
ASSUME AddressAssumption == IsFiniteSet(Accounts)

VARIABLES
  trades,
  tradeCounter,
  nonces,
  inTransitSince,
  disputeProposals,
  disputeCounter,
  tradeHasActiveDisputeProposal,
  tradeActiveDisputeProposalId,
  claimableUsdc,
  totalClaimableUsdc,
  claimableAccrued,     \* the ClaimableAccrued events: sums by trade and claim type
  usdc                  \* balances of the USDC token

tradeRecordVars == <<trades, tradeCounter, nonces, inTransitSince>>
disputeVars     == <<disputeProposals, disputeCounter,
                     tradeHasActiveDisputeProposal, tradeActiveDisputeProposalId>>
accountVars     == <<claimableUsdc, totalClaimableUsdc, claimableAccrued>>
tradeVars       == <<tradeRecordVars, disputeVars, accountVars, usdc>>
vars            == <<govVars, tradeVars>>

-------------------------------------------------------------------------------
(* State *)

TradeStatus == {"LOCKED", "IN_TRANSIT", "ARRIVAL_CONFIRMED", "FROZEN", "CLOSED"}

DisputeStatus == {"REFUND", "RESOLVE"}

ClaimType ==
  {"STAGE1_SUPPLIER", "STAGE1_LOGISTICS_FEE", "STAGE1_PLATFORM_FEE", "STAGE2_SUPPLIER",
   "LOCK_TIMEOUT_BUYER_REFUND", "IN_TRANSIT_TIMEOUT_BUYER_REFUND",
   "DISPUTE_REFUND_BUYER", "DISPUTE_RESOLVE_SUPPLIER"}

Trade ==
  [status : TradeStatus, ricardianHash : Hashes \cup {ZeroHash},
   buyerAddress : Accounts \cup {ZeroAddress}, supplierAddress : Accounts \cup {ZeroAddress},
   totalAmountLocked : Nat, logisticsAmount : Nat, platformFeesAmount : Nat,
   supplierFirstTranche : Nat, supplierSecondTranche : Nat,
   createdAt : Nat, arrivalTimestamp : Nat]

\* A proposal together with its HasApproved, ExpiresAt and Cancelled entries.
MadeDispute ==
  [tradeId : TradeIds, disputeStatus : DisputeStatus,
   approvedBy : SUBSET Accounts, approvalCount : Nat,
   executed : BOOLEAN, cancelled : BOOLEAN, createdAt : Nat \ {0}, expiresAt : Nat]

\* Mapping entries that were never written: all zeros.
NoTrade ==
  [status |-> "LOCKED", ricardianHash |-> ZeroHash,
   buyerAddress |-> ZeroAddress, supplierAddress |-> ZeroAddress,
   totalAmountLocked |-> 0, logisticsAmount |-> 0, platformFeesAmount |-> 0,
   supplierFirstTranche |-> 0, supplierSecondTranche |-> 0,
   createdAt |-> 0, arrivalTimestamp |-> 0]

NoDispute ==
  [tradeId |-> 0, disputeStatus |-> "REFUND", approvedBy |-> {}, approvalCount |-> 0,
   executed |-> FALSE, cancelled |-> FALSE, createdAt |-> 0, expiresAt |-> 0]

DisputeProposal == MadeDispute \cup {NoDispute}

TradeInit ==
  /\ trades = [t \in TradeIds |-> NoTrade]
  /\ tradeCounter = 0
  /\ nonces = [a \in Accounts |-> 0]
  /\ inTransitSince = [t \in TradeIds |-> 0]
  /\ disputeProposals = [d \in DisputeIds |-> NoDispute]
  /\ disputeCounter = 0
  /\ tradeHasActiveDisputeProposal = [t \in TradeIds |-> FALSE]
  /\ tradeActiveDisputeProposalId = [t \in TradeIds |-> 0]
  /\ claimableUsdc = [a \in Accounts |-> 0]
  /\ totalClaimableUsdc = 0
  /\ claimableAccrued = [t \in TradeIds |-> [c \in ClaimType |-> 0]]
  /\ usdc = [a \in Accounts \cup {Escrow} |-> IF a = Escrow THEN 0 ELSE InitialUsdc[a]]

Init == GovInit /\ TradeInit

-------------------------------------------------------------------------------
(* Trade creation *)

\* Mutant: the parts need not add up to the total.
ValidOrder_anySum(o) ==
  /\ o.ricardianHash # ZeroHash
  /\ o.supplier # ZeroAddress
  /\ o.firstTranche > 0
  /\ o.secondTranche > 0

ValidOrder(o) ==
  /\ o.ricardianHash # ZeroHash
  /\ o.supplier # ZeroAddress
  /\ o.total = o.logistics + o.platformFees + o.firstTranche + o.secondTranche
  /\ o.firstTranche > 0
  /\ o.secondTranche > 0

\* Mutant: the nonce is not compared with the stored one.
Authorised_anyNonce(buyer, buyerNonce, deadline, signer) ==
  /\ now <= deadline
  /\ signer = buyer

(***************************************************************************)
(* The address that ECDSA.recover finds is the caller's exactly when the   *)
(* caller signed these arguments and this nonce for this contract, chain   *)
(* and treasury: signer is the address that did.                           *)
(***************************************************************************)
Authorised(buyer, buyerNonce, deadline, signer) ==
  /\ buyerNonce = nonces[buyer]
  /\ now <= deadline
  /\ signer = buyer

\* What createTrade requires: it reverts otherwise.
AcceptsTrade(s, o, buyerNonce, deadline, signer) ==
  /\ ~paused
  /\ ValidOrder(o)
  /\ Authorised(s, buyerNonce, deadline, signer)
  /\ usdc[s] >= o.total
  /\ tradeCounter < MaxTrades
  /\ now <= LastInputTime

createTrade(s, o, buyerNonce, deadline, signer) ==
  /\ AcceptsTrade(s, o, buyerNonce, deadline, signer)
  /\ nonces' = [nonces EXCEPT ![s] = buyerNonce + 1]
  /\ tradeCounter' = tradeCounter + 1
  /\ trades' = [trades EXCEPT ![tradeCounter] =
       [status |-> "LOCKED", ricardianHash |-> o.ricardianHash,
        buyerAddress |-> s, supplierAddress |-> o.supplier,
        totalAmountLocked |-> o.total, logisticsAmount |-> o.logistics,
        platformFeesAmount |-> o.platformFees,
        supplierFirstTranche |-> o.firstTranche,
        supplierSecondTranche |-> o.secondTranche,
        createdAt |-> now, arrivalTimestamp |-> 0]]
  /\ usdc' = [usdc EXCEPT ![s] = @ - o.total, ![Escrow] = @ + o.total]
  /\ UNCHANGED <<govVars, inTransitSince, disputeVars, accountVars>>

-------------------------------------------------------------------------------
(* Claims *)

\* Mutant: a new claim replaces the balance.
Credit_replaces(balances, recipient, amount) == [balances EXCEPT ![recipient] = amount]

\* _accrueClaimable on the balance of one recipient; an amount of zero is skipped.
Credit(balances, recipient, amount) == [balances EXCEPT ![recipient] = @ + amount]

AccrueClaimable(t, recipient, amount, claimType) ==
  /\ claimableUsdc' = Credit(claimableUsdc, recipient, amount)
  /\ totalClaimableUsdc' = totalClaimableUsdc + amount
  /\ claimableAccrued' = [claimableAccrued EXCEPT ![t][claimType] = @ + amount]

\* Pays the whole claimable balance of identity to receiver.
PayOut(identity, receiver) ==
  /\ ~claimsPaused
  /\ claimableUsdc[identity] > 0
  /\ claimableUsdc[identity] <= totalClaimableUsdc   \* checked subtraction
  /\ claimableUsdc[identity] <= usdc[Escrow]         \* checked transfer
  /\ claimableUsdc' = [claimableUsdc EXCEPT ![identity] = 0]
  /\ totalClaimableUsdc' = totalClaimableUsdc - claimableUsdc[identity]
  /\ usdc' = [usdc EXCEPT ![Escrow] = @ - claimableUsdc[identity],
                          ![receiver] = @ + claimableUsdc[identity]]
  /\ UNCHANGED <<govVars, tradeRecordVars, disputeVars, claimableAccrued>>

claim(s) == PayOut(s, s)

\* Mutant: whoever calls it is paid.
claimTreasury_toCaller == \E s \in Accounts : PayOut(Treasury, s)

\* Anybody may call it; the payout receiver gets what the treasury is owed.
claimTreasury == PayOut(Treasury, treasuryPayoutAddress)

-------------------------------------------------------------------------------
(* Milestones *)

\* Mutant: off by one.
Exists_butLast(t) == t + 1 < tradeCounter

Exists(t) == t < tradeCounter

\* The three modifiers of the oracle's milestones.
OracleMay(s) ==
  /\ s = oracleAddress
  /\ oracleActive
  /\ ~paused

releaseFundsStage1(s, t) ==
  LET trade == trades[t] IN
  /\ OracleMay(s)
  /\ Exists(t)
  /\ trade.status = "LOCKED"
  /\ now <= LastInputTime
  /\ trades' = [trades EXCEPT ![t].status = "IN_TRANSIT"]
  /\ inTransitSince' = [inTransitSince EXCEPT ![t] = now]
  /\ claimableUsdc' =
       Credit(Credit(Credit(claimableUsdc, trade.supplierAddress, trade.supplierFirstTranche),
                     Treasury, trade.logisticsAmount),
              Treasury, trade.platformFeesAmount)
  /\ totalClaimableUsdc' = totalClaimableUsdc + trade.supplierFirstTranche
                             + trade.logisticsAmount + trade.platformFeesAmount
  /\ claimableAccrued' = [claimableAccrued EXCEPT
       ![t]["STAGE1_SUPPLIER"]      = @ + trade.supplierFirstTranche,
       ![t]["STAGE1_LOGISTICS_FEE"] = @ + trade.logisticsAmount,
       ![t]["STAGE1_PLATFORM_FEE"]  = @ + trade.platformFeesAmount]
  /\ UNCHANGED <<govVars, tradeCounter, nonces, disputeVars, usdc>>

confirmArrival(s, t) ==
  /\ OracleMay(s)
  /\ Exists(t)
  /\ trades[t].status = "IN_TRANSIT"
  /\ now <= LastInputTime
  /\ trades' = [trades EXCEPT ![t].status = "ARRIVAL_CONFIRMED", ![t].arrivalTimestamp = now]
  /\ inTransitSince' = [inTransitSince EXCEPT ![t] = 0]
  /\ UNCHANGED <<govVars, tradeCounter, nonces, disputeVars, accountVars, usdc>>

\* Mutant: the window is not checked.
AcceptsDispute_late(s, t) ==
  /\ ~paused
  /\ Exists(t)
  /\ s = trades[t].buyerAddress
  /\ trades[t].status = "ARRIVAL_CONFIRMED"

\* What openDispute requires.
AcceptsDispute(s, t) ==
  /\ ~paused
  /\ Exists(t)
  /\ s = trades[t].buyerAddress
  /\ trades[t].status = "ARRIVAL_CONFIRMED"
  /\ trades[t].arrivalTimestamp > 0
  /\ now <= trades[t].arrivalTimestamp + DisputeWindow

openDispute(s, t) ==
  /\ AcceptsDispute(s, t)
  /\ trades' = [trades EXCEPT ![t].status = "FROZEN"]
  /\ UNCHANGED <<govVars, tradeCounter, nonces, inTransitSince, disputeVars, accountVars, usdc>>

\* Mutant: the status is left as it is.
Close_stays(t, recipient, amount, claimType) ==
  /\ AccrueClaimable(t, recipient, amount, claimType)
  /\ UNCHANGED <<govVars, trades, tradeCounter, nonces, usdc>>

\* Mutant: nothing accrues.
Close_unpaid(t, recipient, amount, claimType) ==
  /\ trades' = [trades EXCEPT ![t].status = "CLOSED"]
  /\ UNCHANGED <<govVars, tradeCounter, nonces, accountVars, usdc>>

\* Closes trade t and accrues amount to recipient.
Close(t, recipient, amount, claimType) ==
  /\ trades' = [trades EXCEPT ![t].status = "CLOSED"]
  /\ AccrueClaimable(t, recipient, amount, claimType)
  /\ UNCHANGED <<govVars, tradeCounter, nonces, usdc>>

\* Mutant: the last tick of the window already counts as over.
AcceptsFinalization_early(t) ==
  /\ ~paused
  /\ Exists(t)
  /\ trades[t].status = "ARRIVAL_CONFIRMED"
  /\ trades[t].arrivalTimestamp > 0
  /\ now >= trades[t].arrivalTimestamp + DisputeWindow

\* Mutant: a disputed trade is finalized too.
AcceptsFinalization_frozen(t) ==
  /\ ~paused
  /\ Exists(t)
  /\ trades[t].status \in {"ARRIVAL_CONFIRMED", "FROZEN"}
  /\ trades[t].arrivalTimestamp > 0
  /\ now > trades[t].arrivalTimestamp + DisputeWindow

\* What finalizeAfterDisputeWindow requires.
AcceptsFinalization(t) ==
  /\ ~paused
  /\ Exists(t)
  /\ trades[t].status = "ARRIVAL_CONFIRMED"
  /\ trades[t].arrivalTimestamp > 0
  /\ now > trades[t].arrivalTimestamp + DisputeWindow

\* Permissionless.
finalizeAfterDisputeWindow(t) ==
  /\ AcceptsFinalization(t)
  /\ Close(t, trades[t].supplierAddress, trades[t].supplierSecondTranche, "STAGE2_SUPPLIER")
  /\ inTransitSince' = [inTransitSince EXCEPT ![t] = 0]
  /\ UNCHANGED disputeVars

cancelLockedTradeAfterTimeout(s, t) ==
  /\ ~paused
  /\ Exists(t)
  /\ s = trades[t].buyerAddress
  /\ trades[t].status = "LOCKED"
  /\ now > trades[t].createdAt + LockTimeout
  /\ Close(t, trades[t].buyerAddress, trades[t].totalAmountLocked, "LOCK_TIMEOUT_BUYER_REFUND")
  /\ UNCHANGED <<inTransitSince, disputeVars>>

refundInTransitAfterTimeout(s, t) ==
  /\ ~paused
  /\ Exists(t)
  /\ s = trades[t].buyerAddress
  /\ trades[t].status = "IN_TRANSIT"
  /\ inTransitSince[t] > 0
  /\ now > inTransitSince[t] + InTransitTimeout
  /\ Close(t, trades[t].buyerAddress, trades[t].supplierSecondTranche,
           "IN_TRANSIT_TIMEOUT_BUYER_REFUND")
  /\ inTransitSince' = [inTransitSince EXCEPT ![t] = 0]
  /\ UNCHANGED disputeVars

-------------------------------------------------------------------------------
(* Disputes *)

(***************************************************************************)
(* _executeDispute, called at the end of a transaction that has turned the *)
(* proposals into table.                                                   *)
(***************************************************************************)
ExecuteDispute(table, d) ==
  LET t      == table[d].tradeId
      refund == table[d].disputeStatus = "REFUND"
  IN
  /\ ~table[d].executed
  /\ ~table[d].cancelled
  /\ now <= table[d].expiresAt
  /\ table[d].approvalCount >= RequiredApprovals
  /\ trades[t].status = "FROZEN"
  /\ disputeProposals' = [table EXCEPT ![d].executed = TRUE]
  /\ tradeHasActiveDisputeProposal' = [tradeHasActiveDisputeProposal EXCEPT ![t] = FALSE]
  /\ tradeActiveDisputeProposalId' = [tradeActiveDisputeProposalId EXCEPT ![t] = 0]
  /\ inTransitSince' = [inTransitSince EXCEPT ![t] = 0]
  /\ Close(t,
           IF refund THEN trades[t].buyerAddress ELSE trades[t].supplierAddress,
           trades[t].supplierSecondTranche,
           IF refund THEN "DISPUTE_REFUND_BUYER" ELSE "DISPUTE_RESOLVE_SUPPLIER")

\* The active proposal of trade t, if there is one, has expired.
ActiveExpired(t) ==
  LET active == disputeProposals[tradeActiveDisputeProposalId[t]] IN
    tradeHasActiveDisputeProposal[t] => now > active.expiresAt /\ ~active.cancelled

\* Mutant: the expired proposal is replaced but not cancelled.
WithoutExpired_kept(t) == disputeProposals

\* The proposals once an expired active proposal of trade t is cancelled.
WithoutExpired(t) ==
  IF tradeHasActiveDisputeProposal[t]
    THEN [disputeProposals EXCEPT ![tradeActiveDisputeProposalId[t]].cancelled = TRUE]
    ELSE disputeProposals

proposeDisputeSolution(a, t, disputeStatus) ==
  LET d     == disputeCounter
      table == [WithoutExpired(t) EXCEPT ![d] =
                  [tradeId |-> t, disputeStatus |-> disputeStatus,
                   approvedBy |-> {a}, approvalCount |-> 1,
                   executed |-> FALSE, cancelled |-> FALSE,
                   createdAt |-> now, expiresAt |-> now + DisputeProposalTTL]]
  IN
  /\ a \in admins
  /\ ~paused
  /\ Exists(t)
  /\ trades[t].status = "FROZEN"
  /\ ActiveExpired(t)
  /\ disputeCounter < MaxDisputes
  /\ disputeCounter' = disputeCounter + 1
  /\ \/ /\ RequiredApprovals = 1
        /\ ExecuteDispute(table, d)
     \/ /\ RequiredApprovals # 1
        /\ disputeProposals' = table
        /\ tradeHasActiveDisputeProposal' = [tradeHasActiveDisputeProposal EXCEPT ![t] = TRUE]
        /\ tradeActiveDisputeProposalId' = [tradeActiveDisputeProposalId EXCEPT ![t] = d]
        /\ UNCHANGED <<govVars, tradeRecordVars, accountVars, usdc>>

\* Mutant: an executed proposal still counts.
LiveDispute_executed(d) ==
  /\ d < disputeCounter
  /\ disputeProposals[d].createdAt > 0
  /\ ~disputeProposals[d].cancelled

\* Proposal d was made, and neither executed nor cancelled since.
LiveDispute(d) ==
  /\ d < disputeCounter
  /\ disputeProposals[d].createdAt > 0
  /\ ~disputeProposals[d].executed
  /\ ~disputeProposals[d].cancelled

approveDisputeSolution(a, d) ==
  LET p     == disputeProposals[d]
      table == [disputeProposals EXCEPT ![d] =
                  [p EXCEPT !.approvedBy = @ \cup {a}, !.approvalCount = @ + 1]]
  IN
  /\ a \in admins
  /\ ~paused
  /\ LiveDispute(d)
  /\ now <= p.expiresAt
  /\ trades[p.tradeId].status = "FROZEN"
  /\ a \notin p.approvedBy
  /\ \/ /\ table[d].approvalCount >= RequiredApprovals
        /\ ExecuteDispute(table, d)
     \/ /\ table[d].approvalCount < RequiredApprovals
        /\ disputeProposals' = table
        /\ UNCHANGED <<govVars, tradeRecordVars, accountVars, usdc,
                       tradeHasActiveDisputeProposal, tradeActiveDisputeProposalId>>
  /\ UNCHANGED disputeCounter

cancelExpiredDisputeProposal(a, d) ==
  LET t       == disputeProposals[d].tradeId
      current == tradeHasActiveDisputeProposal[t] /\ tradeActiveDisputeProposalId[t] = d
  IN
  /\ a \in admins
  /\ ~paused
  /\ LiveDispute(d)
  /\ now > disputeProposals[d].expiresAt
  /\ disputeProposals' = [disputeProposals EXCEPT ![d].cancelled = TRUE]
  /\ tradeHasActiveDisputeProposal' =
       [tradeHasActiveDisputeProposal EXCEPT ![t] = @ /\ ~current]
  /\ tradeActiveDisputeProposalId' =
       [tradeActiveDisputeProposalId EXCEPT ![t] = IF current THEN 0 ELSE @]
  /\ UNCHANGED <<govVars, tradeRecordVars, disputeCounter, accountVars, usdc>>

-------------------------------------------------------------------------------
(* Specification *)

\* Any address may send any of these transactions about trade t.
TradeStep(s, t) ==
  \/ releaseFundsStage1(s, t)
  \/ confirmArrival(s, t)
  \/ openDispute(s, t)
  \/ cancelLockedTradeAfterTimeout(s, t)
  \/ refundInTransitAfterTimeout(s, t)
  \/ \E disputeStatus \in DisputeStatus : proposeDisputeSolution(s, t, disputeStatus)

\* The clock and the administrative operations leave the trades alone.
Clock == Tick /\ UNCHANGED tradeVars

AdminStep == GovStep /\ UNCHANGED tradeVars

Next ==
  \/ Clock
  \/ AdminStep
  \/ \E s \in Accounts, o \in Orders, buyerNonce \in 0 .. MaxTrades,
        deadline \in {now - 1, now}, signer \in Accounts :
       createTrade(s, o, buyerNonce, deadline, signer)
  \/ \E s \in Accounts : claim(s)
  \/ claimTreasury
  \/ \E s \in Accounts, t \in TradeIds : TradeStep(s, t)
  \/ \E t \in TradeIds : finalizeAfterDisputeWindow(t)
  \/ \E s \in Accounts, d \in DisputeIds :
       approveDisputeSolution(s, d) \/ cancelExpiredDisputeProposal(s, d)

Spec == Init /\ [][Next]_vars

(***************************************************************************)
(* Time passes; a buyer whose escape hatch stays open uses it; somebody    *)
(* calls the permissionless finalization.  Nothing is assumed of the       *)
(* oracle, the admins or the suppliers.                                    *)
(***************************************************************************)
Fairness ==
  /\ WF_vars(Clock)
  /\ \A t \in TradeIds :
       /\ WF_vars(\E s \in Accounts : cancelLockedTradeAfterTimeout(s, t))
       /\ WF_vars(\E s \in Accounts : refundInTransitAfterTimeout(s, t))
       /\ WF_vars(finalizeAfterDisputeWindow(t))

FairSpec == Spec /\ Fairness

-------------------------------------------------------------------------------
(* Properties *)

(***************************************************************************)
(* Type invariant of the trade state (contract storage, lines 129-202).    *)
(***************************************************************************)
TypeOK ==
  /\ GovTypeOK
  /\ trades \in [TradeIds -> Trade]
  /\ tradeCounter \in 0 .. MaxTrades
  /\ nonces \in [Accounts -> Nat]
  /\ inTransitSince \in [TradeIds -> Nat]
  /\ disputeProposals \in [DisputeIds -> DisputeProposal]
  /\ disputeCounter \in 0 .. MaxDisputes
  /\ tradeHasActiveDisputeProposal \in [TradeIds -> BOOLEAN]
  /\ tradeActiveDisputeProposalId \in [TradeIds -> Nat]
  /\ claimableUsdc \in [Accounts -> Nat]
  /\ totalClaimableUsdc \in Nat
  /\ claimableAccrued \in [TradeIds -> [ClaimType -> Nat]]
  /\ usdc \in [Accounts \cup {Escrow} -> Nat]

Created == {t \in TradeIds : t < tradeCounter}

\* What the contract still holds for trade t.
Held(t) ==
  CASE trades[t].status = "LOCKED" -> trades[t].totalAmountLocked
    [] trades[t].status = "CLOSED" -> 0
    [] OTHER                       -> trades[t].supplierSecondTranche

Stage1Claims == {"STAGE1_SUPPLIER", "STAGE1_LOGISTICS_FEE", "STAGE1_PLATFORM_FEE"}

Stage2Claims == {"STAGE2_SUPPLIER", "IN_TRANSIT_TIMEOUT_BUYER_REFUND",
                 "DISPUTE_REFUND_BUYER", "DISPUTE_RESOLVE_SUPPLIER"}

\* No claim of the types in types accrued for trade t.
NothingAccrued(t, types) == \A c \in types : claimableAccrued[t][c] = 0

Stage1Accrued(t) ==
  /\ claimableAccrued[t]["STAGE1_SUPPLIER"] = trades[t].supplierFirstTranche
  /\ claimableAccrued[t]["STAGE1_LOGISTICS_FEE"] = trades[t].logisticsAmount
  /\ claimableAccrued[t]["STAGE1_PLATFORM_FEE"] = trades[t].platformFeesAmount

(***************************************************************************)
(* What the ClaimableAccrued events of a trade amount to at each status:   *)
(* nothing while LOCKED; stage 1 exactly once after the release; and for a *)
(* CLOSED trade either the full refund alone, or stage 1 and exactly one   *)
(* of the four ways in which the second tranche can leave.                 *)
(***************************************************************************)
SettledOnce ==
  \A t \in Created :
    CASE trades[t].status = "LOCKED" -> NothingAccrued(t, ClaimType)
      [] trades[t].status = "CLOSED" ->
           \/ /\ claimableAccrued[t]["LOCK_TIMEOUT_BUYER_REFUND"] = trades[t].totalAmountLocked
              /\ NothingAccrued(t, Stage1Claims \cup Stage2Claims)
           \/ /\ Stage1Accrued(t)
              /\ \E c \in Stage2Claims :
                   /\ claimableAccrued[t][c] = trades[t].supplierSecondTranche
                   /\ NothingAccrued(t, ClaimType \ (Stage1Claims \cup {c}))
      [] OTHER ->
           /\ Stage1Accrued(t)
           /\ NothingAccrued(t, ClaimType \ Stage1Claims)

\* Everything that accrued for trade t.
Accrued(t) ==
  claimableAccrued[t]["STAGE1_SUPPLIER"] + claimableAccrued[t]["STAGE1_LOGISTICS_FEE"]
    + claimableAccrued[t]["STAGE1_PLATFORM_FEE"] + claimableAccrued[t]["STAGE2_SUPPLIER"]
    + claimableAccrued[t]["LOCK_TIMEOUT_BUYER_REFUND"]
    + claimableAccrued[t]["IN_TRANSIT_TIMEOUT_BUYER_REFUND"]
    + claimableAccrued[t]["DISPUTE_REFUND_BUYER"]
    + claimableAccrued[t]["DISPUTE_RESOLVE_SUPPLIER"]

(***************************************************************************)
(* Every unit a buyer locked in a trade is either still held for that      *)
(* trade or has accrued to somebody, never both and never twice, on every  *)
(* path through the milestones, the timeouts and the disputes.             *)
(***************************************************************************)
TradeConservation ==
  \A t \in Created : Accrued(t) + Held(t) = trades[t].totalAmountLocked

(***************************************************************************)
(* Solvency: the contract's USDC balance is what it holds for open trades  *)
(* plus everything claimable, and totalClaimableUsdc is the sum of the     *)
(* claimable balances; so no claim() or claimTreasury() can fail for want  *)
(* of funds, whoever claims first.                                         *)
(***************************************************************************)
Solvency ==
  /\ totalClaimableUsdc = MapThenSumSet(LAMBDA a : claimableUsdc[a], Accounts)
  /\ usdc[Escrow] = MapThenSumSet(Held, Created) + totalClaimableUsdc

\* Who a claim of type c of trade t accrued to.
Recipient(t, c) ==
  CASE c \in {"STAGE1_SUPPLIER", "STAGE2_SUPPLIER", "DISPUTE_RESOLVE_SUPPLIER"} ->
         trades[t].supplierAddress
    [] c \in {"STAGE1_LOGISTICS_FEE", "STAGE1_PLATFORM_FEE"} -> Treasury
    [] OTHER -> trades[t].buyerAddress

\* What accrued to account a by trade t, and what a locked in it.
Gain(a, t) == MapThenSumSet(LAMBDA c : claimableAccrued[t][c],
                            {c \in ClaimType : Recipient(t, c) = a})

Cost(a, t) == IF trades[t].buyerAddress = a THEN trades[t].totalAmountLocked ELSE 0

\* What account a gained (or lost) by the trades so far, paid out or not.
Due(a) == MapThenSumSet(LAMBDA t : Gain(a, t) - Cost(a, t), Created)

\* The accounts that claimTreasury may have paid.
PayoutReceivers ==
  {Treasury, treasuryPayoutAddress}
    \cup {p.target : p \in {q \in Range(govProposals["payout"]) : q.executed}}

\* What account a owns, paid out or not, and what it should own.
Worth(a) == usdc[a] + claimableUsdc[a]

Owed(a) == InitialUsdc[a] + Due(a)

(***************************************************************************)
(* What an account owns in USDC and in claims is what it started with plus *)
(* what its trades earned it: a claim pays its owner and nobody else, in   *)
(* full and once, in whatever order claims, milestones, pauses and changes *)
(* of the payout receiver come.  The treasury's fees end up with the       *)
(* treasury or with receivers that an executed proposal named.             *)
(***************************************************************************)
PartiesMadeWhole ==
  /\ \A a \in Accounts \ PayoutReceivers : Worth(a) = Owed(a)
  /\ MapThenSumSet(Worth, PayoutReceivers) = MapThenSumSet(Owed, PayoutReceivers)

\* A dispute proposal that was made and is neither executed nor cancelled.
OpenDispute(d) ==
  d < disputeCounter /\ ~disputeProposals[d].executed /\ ~disputeProposals[d].cancelled

(***************************************************************************)
(* The active-proposal bookkeeping: an open proposal is the active one of  *)
(* its trade, and that trade is FROZEN; the active entry of a trade is an  *)
(* open proposal about that trade.  So a trade has at most one open        *)
(* proposal, none survives the settlement, and a stale entry can neither   *)
(* block a new proposal nor let an old one execute.                        *)
(***************************************************************************)
OneOpenDispute ==
  /\ \A d \in DisputeIds : OpenDispute(d) =>
       LET t == disputeProposals[d].tradeId IN
         /\ t \in Created
         /\ trades[t].status = "FROZEN"
         /\ tradeHasActiveDisputeProposal[t]
         /\ tradeActiveDisputeProposalId[t] = d
  /\ \A t \in TradeIds : tradeHasActiveDisputeProposal[t] =>
       LET d == tradeActiveDisputeProposalId[t] IN
         /\ d \in DisputeIds
         /\ OpenDispute(d)
         /\ disputeProposals[d].tradeId = t

(***************************************************************************)
(* Four eyes on disputes: the approvals of a proposal are counted once per *)
(* distinct admin; an executed proposal has requiredApprovals of them and  *)
(* its trade is CLOSED; an open one has fewer.                             *)
(***************************************************************************)
DisputeQuorum ==
  \A d \in DisputeIds :
    LET p == disputeProposals[d] IN
      /\ p.approvedBy \subseteq admins
      /\ p.approvalCount = Cardinality(p.approvedBy)
      /\ p.executed => /\ ~p.cancelled
                       /\ p.approvalCount >= RequiredApprovals
                       /\ trades[p.tradeId].status = "CLOSED"
      /\ OpenDispute(d) => p.approvalCount < RequiredApprovals

(***************************************************************************)
(* A FROZEN trade leaves that state only when a proposal about it that has *)
(* not expired gets the last of its requiredApprovals; neither the clock,  *)
(* the buyer, the oracle nor one admin alone can close it (unless one      *)
(* approval is all that is required).                                      *)
(***************************************************************************)
FrozenNeedsDecision ==
  [][\A t \in Created :
       trades[t].status = "FROZEN" /\ trades'[t].status # "FROZEN" =>
         /\ trades'[t].status = "CLOSED"
         /\ \E d \in DisputeIds :
              LET p == disputeProposals'[d] IN
                /\ p.executed /\ ~disputeProposals[d].executed
                /\ p.tradeId = t
                /\ now <= p.expiresAt
                /\ p.approvedBy \subseteq admins
                /\ Cardinality(p.approvedBy) >= RequiredApprovals]_vars

(***************************************************************************)
(* At every time exactly one of openDispute (by the buyer) and             *)
(* finalizeAfterDisputeWindow is possible for an arrived trade of a        *)
(* protocol that is not paused: the window's last tick belongs to the      *)
(* buyer, and no tick belongs to neither or to both.                       *)
(***************************************************************************)
WindowHasNoGap ==
  \A t \in Created :
    ~paused /\ trades[t].status = "ARRIVAL_CONFIRMED" =>
      AcceptsDispute(trades[t].buyerAddress, t) # AcceptsFinalization(t)

(***************************************************************************)
(* No trade is stuck: if the protocol is not paused for ever, then every   *)
(* trade is eventually CLOSED, or FROZEN and in the hands of the admins,   *)
(* even if the oracle stops at any point.                                  *)
(***************************************************************************)
TradesLeaveEscrow ==
  <>[](~paused) =>
    \A t \in TradeIds : t \in Created ~> trades[t].status \in {"FROZEN", "CLOSED"}

-------------------------------------------------------------------------------
(* Refinement *)

\* The money of trade t as TradeCustody sees it.
BooksOf(t) ==
  LET trade == trades[t]
      got   == claimableAccrued[t]
  IN [fees       |-> trade.logisticsAmount + trade.platformFeesAmount,
      first      |-> trade.supplierFirstTranche,
      second     |-> trade.supplierSecondTranche,
      held       |-> Held(t),
      toBuyer    |-> got["LOCK_TIMEOUT_BUYER_REFUND"] + got["IN_TRANSIT_TIMEOUT_BUYER_REFUND"]
                       + got["DISPUTE_REFUND_BUYER"],
      toSupplier |-> got["STAGE1_SUPPLIER"] + got["STAGE2_SUPPLIER"]
                       + got["DISPUTE_RESOLVE_SUPPLIER"],
      toTreasury |-> got["STAGE1_LOGISTICS_FEE"] + got["STAGE1_PLATFORM_FEE"]]

\* The amounts that the orders can be made of.
OrderAmounts ==
  UNION {{o.logistics + o.platformFees, o.firstTranche, o.secondTranche} : o \in Orders}

Custody == INSTANCE TradeCustody
             WITH Trades <- TradeIds, Amounts <- OrderAmounts,
                  books <- [t \in TradeIds |-> BooksOf(t)]

(***************************************************************************)
(* The escrow contract implements TradeCustody: each transaction moves the *)
(* money of at most one trade, and by one of the moves allowed there.      *)
(***************************************************************************)
ImplementsCustody == Custody!Spec

\* The milestones of trade t that were executed, told from what they leave behind.
MilestonesOf(t) ==
  {m \in {"RELEASE_STAGE_1", "CONFIRM_ARRIVAL", "FINALIZE_TRADE"} :
     CASE m = "RELEASE_STAGE_1" -> claimableAccrued[t]["STAGE1_SUPPLIER"] > 0
       [] m = "CONFIRM_ARRIVAL" -> trades[t].arrivalTimestamp > 0
       [] m = "FINALIZE_TRADE"  -> claimableAccrued[t]["STAGE2_SUPPLIER"] > 0}

Lifecycle(t) == INSTANCE TradeLifecycle
  WITH status     <- IF t < tradeCounter THEN trades[t].status ELSE "NONE",
       done       <- MilestonesOf(t),
       windowOver <- /\ trades[t].arrivalTimestamp > 0
                     /\ now > trades[t].arrivalTimestamp + DisputeWindow

(***************************************************************************)
(* Each trade of the contract lives the life of module TradeLifecycle,     *)
(* which is all that the oracle service knows of it: no other order of     *)
(* milestones, and no milestone without what it leaves on-chain.           *)
(***************************************************************************)
ImplementsLifecycle ==
  /\ \A t \in TradeIds : Lifecycle(t)!LifecycleInit
  /\ [][\A t \in TradeIds :
          [Lifecycle(t)!LifecycleNext]_(Lifecycle(t)!chainVars)]_vars

===============================================================================
