------------------------- MODULE AgroasysEscrowProofs -------------------------
(***************************************************************************)
(* Theorems about AgroasysEscrow, for every number of trades, accounts and *)
(* admins, all orders, amounts and durations: first the types, the money   *)
(* and its custody, then the disputes (the bookkeeping of the active       *)
(* proposals, the quorum behind each decision, for every                   *)
(* requiredApprovals) and the life of a trade as the other services see    *)
(* it.  The administrative part rests on the invariant proved in           *)
(* EscrowGovernanceProofs.                                                 *)
(***************************************************************************)
EXTENDS AgroasysEscrow, EscrowGovernanceProofs

USE DEF switchVars, roleVars, unpauseVars, proposalVars, govVars,
        tradeRecordVars, disputeVars, accountVars, tradeVars, vars

-------------------------------------------------------------------------------
(* Type correctness *)

\* The types of the variables this module adds, in three groups.
RecordTypes ==
  /\ trades \in [TradeIds -> Trade]
  /\ tradeCounter \in 0 .. MaxTrades
  /\ nonces \in [Accounts -> Nat]
  /\ inTransitSince \in [TradeIds -> Nat]

DisputeTypes ==
  /\ disputeProposals \in [DisputeIds -> DisputeProposal]
  /\ disputeCounter \in 0 .. MaxDisputes
  /\ tradeHasActiveDisputeProposal \in [TradeIds -> BOOLEAN]
  /\ tradeActiveDisputeProposalId \in [TradeIds -> Nat]

AccountTypes ==
  /\ claimableUsdc \in [Accounts -> Nat]
  /\ totalClaimableUsdc \in Nat
  /\ claimableAccrued \in [TradeIds -> [ClaimType -> Nat]]

MoneyTypes == usdc \in [Accounts \cup {Escrow} -> Nat]

LEMMA TypeGroups ==
  TypeOK <=> GovTypeOK /\ RecordTypes /\ DisputeTypes /\ AccountTypes /\ MoneyTypes
  BY Zenon DEF TypeOK, RecordTypes, DisputeTypes, AccountTypes, MoneyTypes

LEMMA StatusType ==
  ASSUME NEW r \in Trade, NEW st \in TradeStatus
  PROVE  [r EXCEPT !.status = st] \in Trade
  BY DEF Trade

LEMMA TradeTermTypes ==
  ASSUME RecordTypes, NEW t \in TradeIds
  PROVE  /\ trades[t] \in Trade
         /\ trades[t].totalAmountLocked \in Nat
         /\ trades[t].logisticsAmount \in Nat
         /\ trades[t].platformFeesAmount \in Nat
         /\ trades[t].supplierFirstTranche \in Nat
         /\ trades[t].supplierSecondTranche \in Nat
  BY DEF RecordTypes, Trade

LEMMA CreditType ==
  ASSUME NEW f \in [Accounts -> Nat], NEW r, NEW n \in Nat
  PROVE  Credit(f, r, n) \in [Accounts -> Nat]
<1>1. CASE r \in Accounts
  BY <1>1 DEF Credit
<1>2. CASE r \notin Accounts
  <2>1. Credit(f, r, n) = [x \in Accounts |-> IF x = r THEN f[r] + n ELSE f[x]]
    BY DEF Credit
  <2>2. \A x \in Accounts : x # r
    BY <1>2
  <2> QED
    BY <2>1, <2>2
<1> QED
  BY <1>1, <1>2

\* Closing a trade keeps the records and the claims typed.
LEMMA CloseType ==
  ASSUME RecordTypes, AccountTypes, NEW t \in TradeIds, NEW r, NEW n \in Nat,
         NEW c \in ClaimType, Close(t, r, n, c)
  PROVE  /\ trades' \in [TradeIds -> Trade]
         /\ AccountTypes'
<1>1. "CLOSED" \in TradeStatus
  BY DEF TradeStatus
<1>2. trades' \in [TradeIds -> Trade]
  <2>1. [trades[t] EXCEPT !.status = "CLOSED"] \in Trade
    BY <1>1, StatusType, TradeTermTypes
  <2>2. trades' = [trades EXCEPT ![t] = [trades[t] EXCEPT !.status = "CLOSED"]]
    BY Zenon DEF Close
  <2> QED
    BY <2>1, <2>2 DEF RecordTypes
<1>3. claimableUsdc' \in [Accounts -> Nat]
  BY CreditType DEF Close, AccrueClaimable, AccountTypes
<1>4. totalClaimableUsdc' \in Nat
  BY DEF Close, AccrueClaimable, AccountTypes
<1>5. claimableAccrued' \in [TradeIds -> [ClaimType -> Nat]]
  BY DEF Close, AccrueClaimable, AccountTypes
<1> QED
  BY <1>2, <1>3, <1>4, <1>5 DEF AccountTypes

LEMMA TypeInit == Init => TypeOK
<1> SUFFICES ASSUME Init PROVE TypeOK
  OBVIOUS
<1>1. NoTrade \in Trade
  BY DEF NoTrade, Trade, TradeStatus
<1>2. RecordTypes
  BY <1>1, EscrowAssumption DEF Init, TradeInit, RecordTypes
<1>3. DisputeTypes
  <2>1. NoDispute \in DisputeProposal
    BY DEF DisputeProposal
  <2>2. disputeProposals \in [DisputeIds -> DisputeProposal]
    BY <2>1 DEF Init, TradeInit
  <2>3. tradeHasActiveDisputeProposal \in [TradeIds -> BOOLEAN]
    BY DEF Init, TradeInit
  <2> QED
    BY <2>2, <2>3, EscrowAssumption DEF Init, TradeInit, DisputeTypes
<1>4. AccountTypes
  BY DEF Init, TradeInit, AccountTypes
<1>5. MoneyTypes
  BY EscrowAssumption DEF Init, TradeInit, MoneyTypes
<1>6. GovTypeOK
  BY GovTypeInit DEF Init
<1> QED
  BY <1>2, <1>3, <1>4, <1>5, <1>6, TypeGroups

LEMMA UpdatedDispute ==
  ASSUME NEW p \in MadeDispute, NEW a \in Accounts
  PROVE  /\ [p EXCEPT !.approvedBy = @ \cup {a}, !.approvalCount = @ + 1] \in MadeDispute
         /\ [p EXCEPT !.executed = TRUE] \in MadeDispute
         /\ [p EXCEPT !.cancelled = TRUE] \in MadeDispute
<1>1. p.approvedBy \cup {a} \in SUBSET Accounts /\ p.approvalCount + 1 \in Nat
  BY DEF MadeDispute
<1> QED
  BY <1>1 DEF MadeDispute

\* Only the default entry has no creation time.
LEMMA DisputeIsMade ==
  ASSUME NEW p \in DisputeProposal, p.createdAt > 0
  PROVE  p \in MadeDispute
  BY DEF DisputeProposal, NoDispute

LEMMA FlagTypes ==
  ASSUME DisputeTypes, NEW t, NEW b \in BOOLEAN, NEW n \in Nat
  PROVE  /\ [tradeHasActiveDisputeProposal EXCEPT ![t] = b] \in [TradeIds -> BOOLEAN]
         /\ [tradeActiveDisputeProposalId EXCEPT ![t] = n] \in [TradeIds -> Nat]
<1>1. [tradeActiveDisputeProposalId EXCEPT ![t] = n] \in [TradeIds -> Nat]
  BY DEF DisputeTypes
<1>2. [tradeHasActiveDisputeProposal EXCEPT ![t] = b] \in [TradeIds -> BOOLEAN]
  BY DEF DisputeTypes
<1> QED
  BY <1>1, <1>2

\* Every proposal that was made in one table was made in the other.
KeepsMade(table, after) ==
  \A x \in DisputeIds : table[x] \in MadeDispute => after[x] \in MadeDispute

\* Replacing the entry of one proposal.
LEMMA ReplaceDispute ==
  ASSUME NEW table \in [DisputeIds -> DisputeProposal], NEW d \in DisputeIds,
         NEW q \in MadeDispute
  PROVE  /\ [table EXCEPT ![d] = q] \in [DisputeIds -> DisputeProposal]
         /\ [table EXCEPT ![d] = q][d] = q
         /\ KeepsMade(table, [table EXCEPT ![d] = q])
  BY DEF KeepsMade, DisputeProposal

\* _executeDispute keeps types, whatever table its caller made.
LEMMA ExecuteDisputeType ==
  ASSUME RecordTypes, AccountTypes, DisputeTypes,
         NEW table \in [DisputeIds -> DisputeProposal], NEW d \in DisputeIds,
         table[d] \in MadeDispute, ExecuteDispute(table, d)
  PROVE  /\ RecordTypes' /\ AccountTypes' /\ UNCHANGED <<govVars, usdc>>
         /\ disputeProposals' \in [DisputeIds -> DisputeProposal]
         /\ tradeHasActiveDisputeProposal' \in [TradeIds -> BOOLEAN]
         /\ tradeActiveDisputeProposalId' \in [TradeIds -> Nat]
         /\ KeepsMade(table, disputeProposals')
         /\ \A u \in TradeIds : tradeHasActiveDisputeProposal'[u] =>
              /\ tradeHasActiveDisputeProposal[u]
              /\ tradeActiveDisputeProposalId'[u] = tradeActiveDisputeProposalId[u]
<1> DEFINE t == table[d].tradeId
           refund == table[d].disputeStatus = "REFUND"
           recipient == IF refund THEN trades[t].buyerAddress ELSE trades[t].supplierAddress
           type == IF refund THEN "DISPUTE_REFUND_BUYER" ELSE "DISPUTE_RESOLVE_SUPPLIER"
<1>1. t \in TradeIds /\ type \in ClaimType /\ trades[t].supplierSecondTranche \in Nat
  BY TradeTermTypes DEF MadeDispute, ClaimType
<1>2. Close(t, recipient, trades[t].supplierSecondTranche, type)
  BY Zenon DEF ExecuteDispute
<1>3. trades' \in [TradeIds -> Trade] /\ AccountTypes'
  <2> HIDE DEF t, recipient, type
  <2> QED
    BY <1>1, <1>2, CloseType
<1>4. inTransitSince' \in [TradeIds -> Nat]
  <2>1. inTransitSince' = [inTransitSince EXCEPT ![t] = 0]
    BY Zenon DEF ExecuteDispute
  <2> QED
    BY <2>1 DEF RecordTypes
<1>5. UNCHANGED <<govVars, tradeCounter, nonces, usdc>>
  BY <1>2, Zenon DEF Close
<1>6. disputeProposals' \in [DisputeIds -> DisputeProposal] /\ KeepsMade(table, disputeProposals')
  <2>1. disputeProposals' = [table EXCEPT ![d] = [table[d] EXCEPT !.executed = TRUE]]
    BY Zenon DEF ExecuteDispute
  <2>2. Treasury \in Accounts
    BY GovernanceAssumption
  <2>3. [table[d] EXCEPT !.executed = TRUE] \in MadeDispute
    BY <2>2, UpdatedDispute, Zenon
  <2> QED
    BY <2>1, <2>3, ReplaceDispute
<1>7. /\ tradeHasActiveDisputeProposal' \in [TradeIds -> BOOLEAN]
      /\ tradeActiveDisputeProposalId' \in [TradeIds -> Nat]
  BY FlagTypes DEF ExecuteDispute
<1>8. \A u \in TradeIds : tradeHasActiveDisputeProposal'[u] =>
        /\ tradeHasActiveDisputeProposal[u]
        /\ tradeActiveDisputeProposalId'[u] = tradeActiveDisputeProposalId[u]
  <2>1. /\ tradeHasActiveDisputeProposal' = [tradeHasActiveDisputeProposal EXCEPT ![t] = FALSE]
        /\ tradeActiveDisputeProposalId' = [tradeActiveDisputeProposalId EXCEPT ![t] = 0]
    BY Zenon DEF ExecuteDispute
  <2> HIDE DEF t
  <2> QED
    BY <2>1 DEF DisputeTypes
<1> QED
  BY <1>3, <1>4, <1>5, <1>6, <1>7, <1>8 DEF RecordTypes

\* The active entry of a trade is a proposal that was made.
ActiveIsMade ==
  \A t \in TradeIds : tradeHasActiveDisputeProposal[t] =>
    /\ tradeActiveDisputeProposalId[t] \in DisputeIds
    /\ disputeProposals[tradeActiveDisputeProposalId[t]] \in MadeDispute

LEMMA WithoutExpiredType ==
  ASSUME DisputeTypes, ActiveIsMade, NEW t \in TradeIds
  PROVE  /\ WithoutExpired(t) \in [DisputeIds -> DisputeProposal]
         /\ KeepsMade(disputeProposals, WithoutExpired(t))
<1> DEFINE d == tradeActiveDisputeProposalId[t]
<1>1. CASE ~tradeHasActiveDisputeProposal[t]
  BY <1>1 DEF WithoutExpired, DisputeTypes, KeepsMade
<1>2. CASE tradeHasActiveDisputeProposal[t]
  <2> DEFINE q == [disputeProposals[d] EXCEPT !.cancelled = TRUE]
  <2>1. WithoutExpired(t) = [disputeProposals EXCEPT ![d] = q]
    BY <1>2, Zenon DEF WithoutExpired
  <2>2. d \in DisputeIds /\ disputeProposals[d] \in MadeDispute
    BY <1>2 DEF ActiveIsMade
  <2>3. Treasury \in Accounts
    BY GovernanceAssumption
  <2>4. q \in MadeDispute
    BY <2>2, <2>3, UpdatedDispute, Zenon
  <2>5. disputeProposals \in [DisputeIds -> DisputeProposal]
    BY DEF DisputeTypes
  <2> HIDE DEF q, d
  <2>6. /\ [disputeProposals EXCEPT ![d] = q] \in [DisputeIds -> DisputeProposal]
        /\ KeepsMade(disputeProposals, [disputeProposals EXCEPT ![d] = q])
    BY <2>2, <2>4, <2>5, ReplaceDispute
  <2> QED
    BY <2>1, <2>6, Zenon
<1> QED
  BY <1>1, <1>2

\* A table that keeps the made proposals keeps the active entries made.
LEMMA ActiveStays ==
  ASSUME ActiveIsMade, KeepsMade(disputeProposals, disputeProposals'),
         \A u \in TradeIds : tradeHasActiveDisputeProposal'[u] =>
           /\ tradeHasActiveDisputeProposal[u]
           /\ tradeActiveDisputeProposalId'[u] = tradeActiveDisputeProposalId[u]
  PROVE  ActiveIsMade'
  BY DEF ActiveIsMade, KeepsMade

TypeInv == TypeOK /\ ActiveIsMade

LEMMA ProposeDisputeType ==
  ASSUME TypeInv, NEW a \in Accounts, NEW t \in TradeIds, NEW ds \in DisputeStatus,
         proposeDisputeSolution(a, t, ds)
  PROVE  TypeInv'
<1> DEFINE d == disputeCounter
           q == [tradeId |-> t, disputeStatus |-> ds,
                 approvedBy |-> {a}, approvalCount |-> 1,
                 executed |-> FALSE, cancelled |-> FALSE,
                 createdAt |-> now, expiresAt |-> now + DisputeProposalTTL]
           table == [WithoutExpired(t) EXCEPT ![d] = q]
<1>0. GovTypeOK /\ RecordTypes /\ DisputeTypes /\ AccountTypes /\ MoneyTypes /\ ActiveIsMade
  BY TypeGroups DEF TypeInv
<1>1. d \in DisputeIds /\ disputeCounter' \in 0 .. MaxDisputes
  BY <1>0, EscrowAssumption DEF proposeDisputeSolution, DisputeTypes, DisputeIds
<1>2. q \in MadeDispute
  BY <1>0, EscrowAssumption DEF MadeDispute, GovTypeOK
<1>3. /\ table \in [DisputeIds -> DisputeProposal] /\ table[d] = q
      /\ KeepsMade(disputeProposals, table)
  <2>1. /\ WithoutExpired(t) \in [DisputeIds -> DisputeProposal]
        /\ KeepsMade(disputeProposals, WithoutExpired(t))
    BY <1>0, WithoutExpiredType
  <2> HIDE DEF q, d
  <2>2. /\ table \in [DisputeIds -> DisputeProposal] /\ table[d] = q
        /\ KeepsMade(WithoutExpired(t), table)
    BY <1>1, <1>2, <2>1, ReplaceDispute
  <2> QED
    BY <2>1, <2>2 DEF KeepsMade
<1>4. CASE ExecuteDispute(table, d)
  <2> HIDE DEF table, d, q
  <2>1. /\ RecordTypes' /\ AccountTypes' /\ UNCHANGED <<govVars, usdc>>
        /\ disputeProposals' \in [DisputeIds -> DisputeProposal]
        /\ tradeHasActiveDisputeProposal' \in [TradeIds -> BOOLEAN]
        /\ tradeActiveDisputeProposalId' \in [TradeIds -> Nat]
        /\ KeepsMade(table, disputeProposals')
        /\ \A u \in TradeIds : tradeHasActiveDisputeProposal'[u] =>
             /\ tradeHasActiveDisputeProposal[u]
             /\ tradeActiveDisputeProposalId'[u] = tradeActiveDisputeProposalId[u]
    BY <1>0, <1>1, <1>2, <1>3, <1>4, ExecuteDisputeType
  <2>2. KeepsMade(disputeProposals, disputeProposals')
    BY <1>3, <2>1 DEF KeepsMade
  <2>3. ActiveIsMade'
    BY <1>0, <2>1, <2>2, ActiveStays
  <2>4. GovTypeOK' /\ MoneyTypes'
    BY <1>0, <2>1 DEF GovTypeOK, MoneyTypes
  <2>5. DisputeTypes'
    BY <1>1, <2>1 DEF DisputeTypes
  <2> QED
    BY <2>1, <2>3, <2>4, <2>5, TypeGroups, PTL DEF TypeInv
<1>5. CASE ~ExecuteDispute(table, d)
  <2>1. /\ disputeProposals' = table
        /\ tradeHasActiveDisputeProposal' = [tradeHasActiveDisputeProposal EXCEPT ![t] = TRUE]
        /\ tradeActiveDisputeProposalId' = [tradeActiveDisputeProposalId EXCEPT ![t] = d]
        /\ UNCHANGED <<govVars, tradeRecordVars, accountVars, usdc>>
    BY <1>5, Zenon DEF proposeDisputeSolution
  <2> HIDE DEF table, q
  <2>2. DisputeTypes'
    <3>1. d \in Nat
      BY <1>0 DEF DisputeTypes
    <3>2. /\ tradeHasActiveDisputeProposal' \in [TradeIds -> BOOLEAN]
          /\ tradeActiveDisputeProposalId' \in [TradeIds -> Nat]
      BY <1>0, <2>1, <3>1, FlagTypes
    <3> QED
      BY <1>1, <1>3, <2>1, <3>2 DEF DisputeTypes
  <2>3. ActiveIsMade'
    <3> SUFFICES ASSUME NEW u \in TradeIds, tradeHasActiveDisputeProposal'[u]
                 PROVE  /\ tradeActiveDisputeProposalId'[u] \in DisputeIds
                        /\ disputeProposals'[tradeActiveDisputeProposalId'[u]] \in MadeDispute
      BY DEF ActiveIsMade
    <3>1. CASE u = t
      BY <1>0, <1>1, <1>2, <1>3, <2>1, <3>1 DEF DisputeTypes
    <3>2. CASE u # t
      <4>1. /\ tradeHasActiveDisputeProposal[u]
            /\ tradeActiveDisputeProposalId'[u] = tradeActiveDisputeProposalId[u]
        BY <1>0, <2>1, <3>2 DEF DisputeTypes
      <4> QED
        BY <1>0, <1>3, <2>1, <4>1 DEF ActiveIsMade, KeepsMade
    <3> QED
      BY <3>1, <3>2
  <2>4. GovTypeOK' /\ MoneyTypes' /\ RecordTypes' /\ AccountTypes'
    BY <1>0, <2>1 DEF GovTypeOK, MoneyTypes, RecordTypes, AccountTypes
  <2> QED
    BY <2>2, <2>3, <2>4, TypeGroups, PTL DEF TypeInv
<1> QED
  BY <1>4, <1>5

LEMMA CreateTradeType ==
  ASSUME TypeOK, NEW s \in Accounts, NEW o \in Orders, NEW n \in Nat, NEW dl, NEW sg,
         createTrade(s, o, n, dl, sg)
  PROVE  RecordTypes' /\ MoneyTypes'
<1> DEFINE r == [status |-> "LOCKED", ricardianHash |-> o.ricardianHash,
                 buyerAddress |-> s, supplierAddress |-> o.supplier,
                 totalAmountLocked |-> o.total, logisticsAmount |-> o.logistics,
                 platformFeesAmount |-> o.platformFees,
                 supplierFirstTranche |-> o.firstTranche,
                 supplierSecondTranche |-> o.secondTranche,
                 createdAt |-> now, arrivalTimestamp |-> 0]
<1>0. GovTypeOK /\ RecordTypes /\ MoneyTypes
  BY TypeGroups
<1>1. o \in Order /\ now \in Nat
  BY <1>0, EscrowAssumption DEF GovTypeOK
<1>2. r \in Trade
  BY <1>1 DEF Order, Trade, TradeStatus
<1>3. trades' = [trades EXCEPT ![tradeCounter] = r]
  BY Zenon DEF createTrade, AcceptsTrade
<1>4. RecordTypes'
  <2> HIDE DEF r
  <2>1. trades' \in [TradeIds -> Trade]
    BY <1>0, <1>2, <1>3 DEF RecordTypes
  <2>2. tradeCounter' \in 0 .. MaxTrades
    BY <1>0, EscrowAssumption DEF createTrade, AcceptsTrade, RecordTypes
  <2>3. nonces' \in [Accounts -> Nat]
    BY <1>0 DEF createTrade, AcceptsTrade, RecordTypes
  <2>4. inTransitSince' = inTransitSince
    BY Zenon DEF createTrade, AcceptsTrade
  <2> QED
    BY <1>0, <2>1, <2>2, <2>3, <2>4 DEF RecordTypes
<1>5. MoneyTypes'
  BY <1>0, <1>1, EscrowAssumption DEF createTrade, AcceptsTrade, MoneyTypes, Order
<1> QED
  BY <1>4, <1>5

LEMMA PayOutType ==
  ASSUME TypeOK, NEW i \in Accounts, NEW r \in Accounts, PayOut(i, r)
  PROVE  AccountTypes' /\ MoneyTypes'
<1>0. AccountTypes /\ MoneyTypes
  BY TypeGroups
<1>1. claimableUsdc[i] \in Nat /\ r # Escrow
  BY <1>0, EscrowAssumption DEF AccountTypes
<1>2. AccountTypes'
  BY <1>0, <1>1 DEF PayOut, AccountTypes
<1>3. MoneyTypes'
  BY <1>0, <1>1 DEF PayOut, MoneyTypes, AccountTypes
<1> QED
  BY <1>2, <1>3

LEMMA AccrueOnce ==
  ASSUME NEW F \in [TradeIds -> [ClaimType -> Nat]], NEW t \in TradeIds,
         NEW c \in ClaimType, NEW n \in Nat,
         NEW G, G = [F EXCEPT ![t] = [F[t] EXCEPT ![c] = @ + n]]
  PROVE  /\ G \in [TradeIds -> [ClaimType -> Nat]]
         /\ \A u \in TradeIds \ {t} : G[u] = F[u]
         /\ G[t][c] = F[t][c] + n
         /\ \A e \in ClaimType \ {c} : G[t][e] = F[t][e]
<1> DEFINE row == [F[t] EXCEPT ![c] = @ + n]
<1>1. F[t] \in [ClaimType -> Nat]
  OBVIOUS
<1>2. row \in [ClaimType -> Nat] /\ row[c] = F[t][c] + n
  BY <1>1
<1>3. \A e \in ClaimType \ {c} : row[e] = F[t][e]
  BY <1>1
<1>4. G = [F EXCEPT ![t] = row]
  BY Zenon
<1> HIDE DEF row
<1>5. G[t] = row /\ \A u \in TradeIds \ {t} : G[u] = F[u]
  BY <1>4
<1>6. G \in [TradeIds -> [ClaimType -> Nat]]
  BY <1>2, <1>4
<1> QED
  BY <1>2, <1>3, <1>5, <1>6

\* What releaseFundsStage1 adds to the sums of the ClaimableAccrued events.
LEMMA ReleaseAccrues ==
  ASSUME RecordTypes, AccountTypes, NEW s, NEW t \in TradeIds, releaseFundsStage1(s, t)
  PROVE  /\ claimableAccrued' \in [TradeIds -> [ClaimType -> Nat]]
         /\ \A u \in TradeIds \ {t} : claimableAccrued'[u] = claimableAccrued[u]
         /\ \A c \in ClaimType \ Stage1Claims :
              claimableAccrued'[t][c] = claimableAccrued[t][c]
         /\ claimableAccrued'[t]["STAGE1_SUPPLIER"] =
              claimableAccrued[t]["STAGE1_SUPPLIER"] + trades[t].supplierFirstTranche
         /\ claimableAccrued'[t]["STAGE1_LOGISTICS_FEE"] =
              claimableAccrued[t]["STAGE1_LOGISTICS_FEE"] + trades[t].logisticsAmount
         /\ claimableAccrued'[t]["STAGE1_PLATFORM_FEE"] =
              claimableAccrued[t]["STAGE1_PLATFORM_FEE"] + trades[t].platformFeesAmount
<1> DEFINE x == trades[t].supplierFirstTranche
           y == trades[t].logisticsAmount
           z == trades[t].platformFeesAmount
           f == [claimableAccrued EXCEPT
                   ![t] = [claimableAccrued[t] EXCEPT !["STAGE1_SUPPLIER"] = @ + x]]
           g == [f EXCEPT ![t] = [f[t] EXCEPT !["STAGE1_LOGISTICS_FEE"] = @ + y]]
           h == [g EXCEPT ![t] = [g[t] EXCEPT !["STAGE1_PLATFORM_FEE"] = @ + z]]
<1>1. x \in Nat /\ y \in Nat /\ z \in Nat
  BY TradeTermTypes
<1>2. claimableAccrued' = h
  BY Zenon DEF releaseFundsStage1
<1>3. claimableAccrued \in [TradeIds -> [ClaimType -> Nat]]
  BY DEF AccountTypes
<1> HIDE DEF x, y, z
<1>4. "STAGE1_SUPPLIER" \in ClaimType /\ "STAGE1_LOGISTICS_FEE" \in ClaimType
        /\ "STAGE1_PLATFORM_FEE" \in ClaimType
  BY DEF ClaimType
<1>5. /\ f \in [TradeIds -> [ClaimType -> Nat]]
      /\ \A u \in TradeIds \ {t} : f[u] = claimableAccrued[u]
      /\ f[t]["STAGE1_SUPPLIER"] = claimableAccrued[t]["STAGE1_SUPPLIER"] + x
      /\ \A e \in ClaimType \ {"STAGE1_SUPPLIER"} : f[t][e] = claimableAccrued[t][e]
  BY <1>1, <1>3, <1>4, AccrueOnce
<1> HIDE DEF f
<1>6. /\ g \in [TradeIds -> [ClaimType -> Nat]]
      /\ \A u \in TradeIds \ {t} : g[u] = f[u]
      /\ g[t]["STAGE1_LOGISTICS_FEE"] = f[t]["STAGE1_LOGISTICS_FEE"] + y
      /\ \A e \in ClaimType \ {"STAGE1_LOGISTICS_FEE"} : g[t][e] = f[t][e]
  BY <1>1, <1>4, <1>5, AccrueOnce
<1> HIDE DEF g
<1>7. /\ h \in [TradeIds -> [ClaimType -> Nat]]
      /\ \A u \in TradeIds \ {t} : h[u] = g[u]
      /\ h[t]["STAGE1_PLATFORM_FEE"] = g[t]["STAGE1_PLATFORM_FEE"] + z
      /\ \A e \in ClaimType \ {"STAGE1_PLATFORM_FEE"} : h[t][e] = g[t][e]
  BY <1>1, <1>4, <1>6, AccrueOnce
<1> HIDE DEF h
<1>8. /\ \A c \in ClaimType \ Stage1Claims : h[t][c] = claimableAccrued[t][c]
      /\ h[t]["STAGE1_SUPPLIER"] = claimableAccrued[t]["STAGE1_SUPPLIER"] + x
      /\ h[t]["STAGE1_LOGISTICS_FEE"] = claimableAccrued[t]["STAGE1_LOGISTICS_FEE"] + y
      /\ h[t]["STAGE1_PLATFORM_FEE"] = claimableAccrued[t]["STAGE1_PLATFORM_FEE"] + z
  BY <1>4, <1>5, <1>6, <1>7 DEF Stage1Claims
<1>9. \A u \in TradeIds \ {t} : h[u] = claimableAccrued[u]
  BY <1>5, <1>6, <1>7
<1> QED
  BY <1>2, <1>7, <1>8, <1>9 DEF x, y, z

LEMMA ReleaseType ==
  ASSUME TypeOK, NEW s, NEW t \in TradeIds, releaseFundsStage1(s, t)
  PROVE  RecordTypes' /\ AccountTypes'
<1>0. GovTypeOK /\ RecordTypes /\ AccountTypes
  BY TypeGroups
<1>1. /\ trades[t] \in Trade
      /\ trades[t].supplierFirstTranche \in Nat
      /\ trades[t].logisticsAmount \in Nat
      /\ trades[t].platformFeesAmount \in Nat
  BY <1>0, TradeTermTypes
<1>2. trades' \in [TradeIds -> Trade]
  <2>1. trades' = [trades EXCEPT ![t] = [trades[t] EXCEPT !.status = "IN_TRANSIT"]]
    BY Zenon DEF releaseFundsStage1
  <2>2. [trades[t] EXCEPT !.status = "IN_TRANSIT"] \in Trade
    BY <1>1, StatusType DEF TradeStatus
  <2> QED
    BY <1>0, <2>1, <2>2 DEF RecordTypes
<1>3. RecordTypes'
  BY <1>0, <1>2 DEF releaseFundsStage1, RecordTypes, GovTypeOK
<1>4. claimableUsdc' \in [Accounts -> Nat]
  <2> DEFINE f == Credit(claimableUsdc, trades[t].supplierAddress,
                         trades[t].supplierFirstTranche)
             g == Credit(f, Treasury, trades[t].logisticsAmount)
             h == Credit(g, Treasury, trades[t].platformFeesAmount)
  <2>1. claimableUsdc' = h
    BY Zenon DEF releaseFundsStage1
  <2>2. f \in [Accounts -> Nat]
    BY <1>0, <1>1, CreditType DEF AccountTypes
  <2>3. g \in [Accounts -> Nat]
    <3> HIDE DEF f
    <3> QED
      BY <1>1, <2>2, CreditType
  <2>4. h \in [Accounts -> Nat]
    <3> HIDE DEF g
    <3> QED
      BY <1>1, <2>3, CreditType
  <2> QED
    BY <2>1, <2>4
<1>5. totalClaimableUsdc' \in Nat
  BY <1>0, <1>1 DEF releaseFundsStage1, AccountTypes
<1>6. claimableAccrued' \in [TradeIds -> [ClaimType -> Nat]]
  BY <1>0, ReleaseAccrues DEF AccountTypes
<1> QED
  BY <1>3, <1>4, <1>5, <1>6 DEF AccountTypes

LEMMA ConfirmArrivalType ==
  ASSUME TypeOK, NEW s, NEW t \in TradeIds, confirmArrival(s, t)
  PROVE  RecordTypes'
<1> DEFINE r == [trades[t] EXCEPT !.status = "ARRIVAL_CONFIRMED", !.arrivalTimestamp = now]
<1>0. GovTypeOK /\ RecordTypes
  BY TypeGroups
<1>1. trades[t] \in Trade /\ now \in Nat
  BY <1>0, TradeTermTypes DEF GovTypeOK
<1>2. r \in Trade
  BY <1>1 DEF Trade, TradeStatus
<1>3. /\ trades' = [trades EXCEPT ![t] = r]
      /\ inTransitSince' = [inTransitSince EXCEPT ![t] = 0]
      /\ UNCHANGED <<tradeCounter, nonces>>
  BY Zenon DEF confirmArrival
<1> HIDE DEF r
<1> QED
  BY <1>0, <1>2, <1>3 DEF RecordTypes

LEMMA OpenDisputeType ==
  ASSUME TypeOK, NEW s, NEW t \in TradeIds, openDispute(s, t)
  PROVE  RecordTypes'
<1>0. RecordTypes
  BY TypeGroups
<1>1. [trades[t] EXCEPT !.status = "FROZEN"] \in Trade
  BY <1>0, StatusType, TradeTermTypes DEF TradeStatus
<1>2. /\ trades' = [trades EXCEPT ![t] = [trades[t] EXCEPT !.status = "FROZEN"]]
      /\ UNCHANGED <<tradeCounter, nonces, inTransitSince>>
  BY Zenon DEF openDispute, AcceptsDispute
<1> QED
  BY <1>0, <1>1, <1>2 DEF RecordTypes

\* The three ways to close a trade without the admins.
SimpleClose(s, t) ==
  \/ finalizeAfterDisputeWindow(t)
  \/ cancelLockedTradeAfterTimeout(s, t)
  \/ refundInTransitAfterTimeout(s, t)

LEMMA SimpleCloseEffect ==
  ASSUME RecordTypes, NEW s, NEW t \in TradeIds, SimpleClose(s, t)
  PROVE  /\ \E r : \E n \in Nat, c \in ClaimType : Close(t, r, n, c)
         /\ inTransitSince' \in [TradeIds -> Nat]
         /\ UNCHANGED <<govVars, tradeCounter, nonces, disputeVars, usdc>>
<1>0. trades[t].supplierSecondTranche \in Nat /\ trades[t].totalAmountLocked \in Nat
  BY TradeTermTypes
<1>1. CASE finalizeAfterDisputeWindow(t)
  <2>1. Close(t, trades[t].supplierAddress, trades[t].supplierSecondTranche, "STAGE2_SUPPLIER")
    BY <1>1, Zenon DEF finalizeAfterDisputeWindow, AcceptsFinalization
  <2>2. "STAGE2_SUPPLIER" \in ClaimType
    BY DEF ClaimType
  <2>3. inTransitSince' = [inTransitSince EXCEPT ![t] = 0] /\ UNCHANGED disputeVars
    BY <1>1, Zenon DEF finalizeAfterDisputeWindow, AcceptsFinalization
  <2>4. inTransitSince' \in [TradeIds -> Nat]
    BY <2>3 DEF RecordTypes
  <2>5. UNCHANGED <<govVars, tradeCounter, nonces, usdc>>
    BY <2>1, Zenon DEF Close
  <2> QED
    BY <1>0, <2>1, <2>2, <2>3, <2>4, <2>5, Zenon
<1>2. CASE cancelLockedTradeAfterTimeout(s, t)
  <2>1. Close(t, trades[t].buyerAddress, trades[t].totalAmountLocked, "LOCK_TIMEOUT_BUYER_REFUND")
    BY <1>2, Zenon DEF cancelLockedTradeAfterTimeout
  <2>2. "LOCK_TIMEOUT_BUYER_REFUND" \in ClaimType
    BY DEF ClaimType
  <2>3. UNCHANGED <<inTransitSince, disputeVars>>
    BY <1>2, Zenon DEF cancelLockedTradeAfterTimeout
  <2>4. inTransitSince' \in [TradeIds -> Nat]
    BY <2>3 DEF RecordTypes
  <2>5. UNCHANGED <<govVars, tradeCounter, nonces, usdc>>
    BY <2>1, Zenon DEF Close
  <2> QED
    BY <1>0, <2>1, <2>2, <2>3, <2>4, <2>5, Zenon
<1>3. CASE refundInTransitAfterTimeout(s, t)
  <2>1. Close(t, trades[t].buyerAddress, trades[t].supplierSecondTranche,
              "IN_TRANSIT_TIMEOUT_BUYER_REFUND")
    BY <1>3, Zenon DEF refundInTransitAfterTimeout
  <2>2. "IN_TRANSIT_TIMEOUT_BUYER_REFUND" \in ClaimType
    BY DEF ClaimType
  <2>3. inTransitSince' = [inTransitSince EXCEPT ![t] = 0] /\ UNCHANGED disputeVars
    BY <1>3, Zenon DEF refundInTransitAfterTimeout
  <2>4. inTransitSince' \in [TradeIds -> Nat]
    BY <2>3 DEF RecordTypes
  <2>5. UNCHANGED <<govVars, tradeCounter, nonces, usdc>>
    BY <2>1, Zenon DEF Close
  <2> QED
    BY <1>0, <2>1, <2>2, <2>3, <2>4, <2>5, Zenon
<1> QED
  BY <1>1, <1>2, <1>3 DEF SimpleClose

LEMMA ApproveDisputeType ==
  ASSUME TypeInv, NEW a \in Accounts, NEW d \in DisputeIds, approveDisputeSolution(a, d)
  PROVE  TypeInv'
<1> DEFINE p == disputeProposals[d]
           q == [p EXCEPT !.approvedBy = @ \cup {a}, !.approvalCount = @ + 1]
           table == [disputeProposals EXCEPT ![d] = q]
<1>0. GovTypeOK /\ RecordTypes /\ DisputeTypes /\ AccountTypes /\ MoneyTypes /\ ActiveIsMade
  BY TypeGroups DEF TypeInv
<1>1. q \in MadeDispute
  <2>1. p \in DisputeProposal
    BY <1>0 DEF DisputeTypes
  <2>2. p.createdAt > 0
    BY Zenon DEF approveDisputeSolution, LiveDispute
  <2>3. p \in MadeDispute
    <3> HIDE DEF p
    <3> QED
      BY <2>1, <2>2, DisputeIsMade
  <2> QED
    BY <2>3, UpdatedDispute, Zenon
<1>2. UNCHANGED disputeCounter
  BY Zenon DEF approveDisputeSolution
<1>3. /\ table \in [DisputeIds -> DisputeProposal] /\ table[d] = q
      /\ KeepsMade(disputeProposals, table)
  <2>1. disputeProposals \in [DisputeIds -> DisputeProposal]
    BY <1>0 DEF DisputeTypes
  <2> HIDE DEF q
  <2> QED
    BY <1>1, <2>1, ReplaceDispute
<1>4. CASE ExecuteDispute(table, d)
  <2> HIDE DEF table, q, p
  <2>1. /\ RecordTypes' /\ AccountTypes' /\ UNCHANGED <<govVars, usdc>>
        /\ disputeProposals' \in [DisputeIds -> DisputeProposal]
        /\ tradeHasActiveDisputeProposal' \in [TradeIds -> BOOLEAN]
        /\ tradeActiveDisputeProposalId' \in [TradeIds -> Nat]
        /\ KeepsMade(table, disputeProposals')
        /\ \A u \in TradeIds : tradeHasActiveDisputeProposal'[u] =>
             /\ tradeHasActiveDisputeProposal[u]
             /\ tradeActiveDisputeProposalId'[u] = tradeActiveDisputeProposalId[u]
    BY <1>0, <1>1, <1>3, <1>4, ExecuteDisputeType
  <2>2. KeepsMade(disputeProposals, disputeProposals')
    BY <1>3, <2>1 DEF KeepsMade
  <2>3. ActiveIsMade'
    BY <1>0, <2>1, <2>2, ActiveStays
  <2>4. GovTypeOK' /\ MoneyTypes'
    BY <1>0, <2>1 DEF GovTypeOK, MoneyTypes
  <2>5. DisputeTypes'
    BY <1>0, <1>2, <2>1 DEF DisputeTypes
  <2> QED
    BY <2>1, <2>3, <2>4, <2>5, TypeGroups, PTL DEF TypeInv
<1>5. CASE ~ExecuteDispute(table, d)
  <2>1. /\ disputeProposals' = table
        /\ UNCHANGED <<govVars, tradeRecordVars, accountVars, usdc,
                       tradeHasActiveDisputeProposal, tradeActiveDisputeProposalId>>
    BY <1>5, Zenon DEF approveDisputeSolution
  <2> HIDE DEF table, q, p
  <2>2. DisputeTypes'
    BY <1>0, <1>2, <1>3, <2>1 DEF DisputeTypes
  <2>3. ActiveIsMade'
    BY <1>0, <1>3, <2>1, ActiveStays
  <2>4. GovTypeOK' /\ MoneyTypes' /\ RecordTypes' /\ AccountTypes'
    BY <1>0, <2>1 DEF GovTypeOK, MoneyTypes, RecordTypes, AccountTypes
  <2> QED
    BY <2>2, <2>3, <2>4, TypeGroups, PTL DEF TypeInv
<1> QED
  BY <1>4, <1>5

LEMMA CancelDisputeType ==
  ASSUME TypeInv, NEW a \in Accounts, NEW d \in DisputeIds,
         cancelExpiredDisputeProposal(a, d)
  PROVE  TypeInv'
<1> DEFINE p == disputeProposals[d]
           q == [p EXCEPT !.cancelled = TRUE]
           t == p.tradeId
           current == tradeHasActiveDisputeProposal[t] /\ tradeActiveDisputeProposalId[t] = d
<1>0. GovTypeOK /\ RecordTypes /\ DisputeTypes /\ AccountTypes /\ MoneyTypes /\ ActiveIsMade
  BY TypeGroups DEF TypeInv
<1>1. q \in MadeDispute
  <2>1. p \in DisputeProposal
    BY <1>0 DEF DisputeTypes
  <2>2. p.createdAt > 0
    BY Zenon DEF cancelExpiredDisputeProposal, LiveDispute
  <2>3. p \in MadeDispute
    <3> HIDE DEF p
    <3> QED
      BY <2>1, <2>2, DisputeIsMade
  <2> QED
    BY <2>3, UpdatedDispute, Zenon
<1>2. /\ disputeProposals' = [disputeProposals EXCEPT ![d] = q]
      /\ tradeHasActiveDisputeProposal' =
           [tradeHasActiveDisputeProposal EXCEPT
              ![t] = tradeHasActiveDisputeProposal[t] /\ ~current]
      /\ tradeActiveDisputeProposalId' =
           [tradeActiveDisputeProposalId EXCEPT
              ![t] = IF current THEN 0 ELSE tradeActiveDisputeProposalId[t]]
      /\ UNCHANGED <<govVars, tradeRecordVars, disputeCounter, accountVars, usdc>>
  BY Zenon DEF cancelExpiredDisputeProposal
<1> HIDE DEF q
<1>3. /\ disputeProposals' \in [DisputeIds -> DisputeProposal]
      /\ KeepsMade(disputeProposals, disputeProposals')
  <2>1. disputeProposals \in [DisputeIds -> DisputeProposal]
    BY <1>0 DEF DisputeTypes
  <2> HIDE DEF p
  <2> QED
    BY <1>1, <1>2, <2>1, ReplaceDispute
<1> HIDE DEF t
<1>4. tradeHasActiveDisputeProposal' \in [TradeIds -> BOOLEAN]
  <2> DEFINE b == tradeHasActiveDisputeProposal[t] /\ ~current
  <2>1. b \in BOOLEAN
    BY Zenon
  <2>2. tradeHasActiveDisputeProposal' = [tradeHasActiveDisputeProposal EXCEPT ![t] = b]
    BY <1>2, Zenon
  <2> HIDE DEF b
  <2>3. 0 \in Nat
    OBVIOUS
  <2> QED
    BY <1>0, <2>1, <2>2, <2>3, FlagTypes
<1>5. tradeActiveDisputeProposalId' \in [TradeIds -> Nat]
  BY <1>0, <1>2 DEF DisputeTypes
<1>6. \A u \in TradeIds : tradeHasActiveDisputeProposal'[u] =>
        /\ tradeHasActiveDisputeProposal[u]
        /\ tradeActiveDisputeProposalId'[u] = tradeActiveDisputeProposalId[u]
  BY <1>0, <1>2 DEF DisputeTypes
<1>7. ActiveIsMade'
  BY <1>0, <1>3, <1>6, ActiveStays
<1>8. DisputeTypes'
  BY <1>0, <1>2, <1>3, <1>4, <1>5 DEF DisputeTypes
<1>9. GovTypeOK' /\ MoneyTypes' /\ RecordTypes' /\ AccountTypes'
  BY <1>0, <1>2 DEF GovTypeOK, MoneyTypes, RecordTypes, AccountTypes
<1> QED
  BY <1>7, <1>8, <1>9, TypeGroups, PTL DEF TypeInv

\* A step that leaves the disputes alone keeps the active entries made.
LEMMA DisputesUntouched ==
  ASSUME DisputeTypes, ActiveIsMade, UNCHANGED disputeVars
  PROVE  DisputeTypes' /\ ActiveIsMade'
<1>1. DisputeTypes'
  BY DEF DisputeTypes
<1>2. ActiveIsMade'
  BY DEF ActiveIsMade
<1> QED
  BY <1>1, <1>2

LEMMA SimpleCloseType ==
  ASSUME TypeInv, NEW s, NEW t \in TradeIds, SimpleClose(s, t)
  PROVE  TypeInv'
<1>0. GovTypeOK /\ RecordTypes /\ DisputeTypes /\ AccountTypes /\ MoneyTypes /\ ActiveIsMade
  BY TypeGroups DEF TypeInv
<1>1. /\ \E r : \E n \in Nat, c \in ClaimType : Close(t, r, n, c)
      /\ inTransitSince' \in [TradeIds -> Nat]
      /\ UNCHANGED <<govVars, tradeCounter, nonces, disputeVars, usdc>>
  BY <1>0, SimpleCloseEffect
<1>2. trades' \in [TradeIds -> Trade] /\ AccountTypes'
  BY <1>0, <1>1, CloseType
<1>3. RecordTypes'
  BY <1>0, <1>1, <1>2 DEF RecordTypes
<1>4. DisputeTypes' /\ ActiveIsMade'
  BY <1>0, <1>1, DisputesUntouched
<1>5. GovTypeOK' /\ MoneyTypes'
  BY <1>0, <1>1 DEF GovTypeOK, MoneyTypes
<1> QED
  BY <1>2, <1>3, <1>4, <1>5, TypeGroups, PTL DEF TypeInv

\* A step of the contract is a step, or no step, of its administrative part.
LEMMA GovernancePart ==
  ASSUME [Next]_vars
  PROVE  [GovNext]_govVars
<1>1. ASSUME NEW a, NEW t, NEW ds, proposeDisputeSolution(a, t, ds)
      PROVE  UNCHANGED govVars
  BY <1>1, Zenon DEF proposeDisputeSolution, ExecuteDispute, Close
<1>2. ASSUME NEW a, NEW d, approveDisputeSolution(a, d)
      PROVE  UNCHANGED govVars
  BY <1>2, Zenon DEF approveDisputeSolution, ExecuteDispute, Close
<1>3. ASSUME NEW s, NEW t, TradeStep(s, t)
      PROVE  UNCHANGED govVars
  BY <1>1, <1>3, Zenon DEF TradeStep, releaseFundsStage1, confirmArrival, openDispute,
     cancelLockedTradeAfterTimeout, refundInTransitAfterTimeout, Close
<1>4. ASSUME NEW i, NEW r, PayOut(i, r)
      PROVE  UNCHANGED govVars
  BY <1>4, Zenon DEF PayOut
<1>5. ASSUME NEW s, NEW o, NEW n, NEW dl, NEW sg, createTrade(s, o, n, dl, sg)
      PROVE  UNCHANGED govVars
  BY <1>5, Zenon DEF createTrade, AcceptsTrade
<1>6. ASSUME NEW t, finalizeAfterDisputeWindow(t)
      PROVE  UNCHANGED govVars
  BY <1>6, Zenon DEF finalizeAfterDisputeWindow, AcceptsFinalization, Close
<1>7. ASSUME NEW a, NEW d, cancelExpiredDisputeProposal(a, d)
      PROVE  UNCHANGED govVars
  BY <1>7, Zenon DEF cancelExpiredDisputeProposal
<1>8. CASE Clock \/ AdminStep
  BY <1>8, Zenon DEF Clock, AdminStep, GovNext
<1>9. CASE UNCHANGED vars
  BY <1>9, Zenon
<1> QED
  BY <1>2, <1>3, <1>4, <1>5, <1>6, <1>7, <1>8, <1>9, Zenon DEF Next, claim, claimTreasury

LEMMA TypeStep ==
  ASSUME TypeInv, [Next]_vars
  PROVE  TypeInv'
<1>0. TypeOK /\ GovTypeOK /\ RecordTypes /\ DisputeTypes /\ AccountTypes /\ MoneyTypes
        /\ ActiveIsMade
  BY TypeGroups DEF TypeInv
<1>1. GovTypeOK'
  BY <1>0, GovernancePart, GovTypeStep
<1>2. CASE UNCHANGED tradeVars
  <2>1. DisputeTypes' /\ ActiveIsMade'
    BY <1>0, <1>2, DisputesUntouched
  <2>2. RecordTypes' /\ AccountTypes' /\ MoneyTypes'
    BY <1>0, <1>2 DEF RecordTypes, AccountTypes, MoneyTypes
  <2> QED
    BY <1>1, <2>1, <2>2, TypeGroups, PTL DEF TypeInv
<1>3. ASSUME NEW s \in Accounts, NEW o \in Orders, NEW n \in 0 .. MaxTrades,
             NEW dl, NEW sg, createTrade(s, o, n, dl, sg)
      PROVE  TypeInv'
  <2>1. UNCHANGED <<disputeVars, accountVars>>
    BY <1>3, Zenon DEF createTrade, AcceptsTrade
  <2>2. RecordTypes' /\ MoneyTypes'
    BY <1>0, <1>3, CreateTradeType
  <2>3. DisputeTypes' /\ ActiveIsMade'
    BY <1>0, <2>1, DisputesUntouched
  <2>4. AccountTypes'
    BY <1>0, <2>1 DEF AccountTypes
  <2> QED
    BY <1>1, <2>2, <2>3, <2>4, TypeGroups, PTL DEF TypeInv
<1>4. ASSUME NEW i \in Accounts, NEW r \in Accounts, PayOut(i, r)
      PROVE  TypeInv'
  <2>1. UNCHANGED <<tradeRecordVars, disputeVars>>
    BY <1>4, Zenon DEF PayOut
  <2>2. AccountTypes' /\ MoneyTypes'
    BY <1>0, <1>4, PayOutType
  <2>3. DisputeTypes' /\ ActiveIsMade'
    BY <1>0, <2>1, DisputesUntouched
  <2>4. RecordTypes'
    BY <1>0, <2>1 DEF RecordTypes
  <2> QED
    BY <1>1, <2>2, <2>3, <2>4, TypeGroups, PTL DEF TypeInv
<1>5. ASSUME NEW s \in Accounts, NEW t \in TradeIds, TradeStep(s, t)
      PROVE  TypeInv'
  <2>1. CASE releaseFundsStage1(s, t)
    <3>1. UNCHANGED <<disputeVars, usdc>>
      BY <2>1, Zenon DEF releaseFundsStage1
    <3>2. RecordTypes' /\ AccountTypes'
      BY <1>0, <2>1, ReleaseType
    <3>3. DisputeTypes' /\ ActiveIsMade' /\ MoneyTypes'
      BY <1>0, <3>1, DisputesUntouched DEF MoneyTypes
    <3> QED
      BY <1>1, <3>2, <3>3, TypeGroups, PTL DEF TypeInv
  <2>2. CASE confirmArrival(s, t)
    <3>1. UNCHANGED <<disputeVars, accountVars, usdc>>
      BY <2>2, Zenon DEF confirmArrival
    <3>2. RecordTypes'
      BY <1>0, <2>2, ConfirmArrivalType
    <3>3. DisputeTypes' /\ ActiveIsMade' /\ MoneyTypes' /\ AccountTypes'
      BY <1>0, <3>1, DisputesUntouched DEF MoneyTypes, AccountTypes
    <3> QED
      BY <1>1, <3>2, <3>3, TypeGroups, PTL DEF TypeInv
  <2>3. CASE openDispute(s, t)
    <3>1. UNCHANGED <<disputeVars, accountVars, usdc>>
      BY <2>3, Zenon DEF openDispute, AcceptsDispute
    <3>2. RecordTypes'
      BY <1>0, <2>3, OpenDisputeType
    <3>3. DisputeTypes' /\ ActiveIsMade' /\ MoneyTypes' /\ AccountTypes'
      BY <1>0, <3>1, DisputesUntouched DEF MoneyTypes, AccountTypes
    <3> QED
      BY <1>1, <3>2, <3>3, TypeGroups, PTL DEF TypeInv
  <2>4. CASE SimpleClose(s, t)
    BY <2>4, SimpleCloseType
  <2>5. ASSUME NEW ds \in DisputeStatus, proposeDisputeSolution(s, t, ds)
        PROVE  TypeInv'
    BY <2>5, ProposeDisputeType
  <2> QED
    BY <1>5, <2>1, <2>2, <2>3, <2>4, <2>5, Zenon DEF TradeStep, SimpleClose
<1>6. ASSUME NEW t \in TradeIds, finalizeAfterDisputeWindow(t)
      PROVE  TypeInv'
  BY <1>6, SimpleCloseType DEF SimpleClose
<1>7. ASSUME NEW s \in Accounts, NEW d \in DisputeIds,
             approveDisputeSolution(s, d) \/ cancelExpiredDisputeProposal(s, d)
      PROVE  TypeInv'
  BY <1>7, ApproveDisputeType, CancelDisputeType
<1>8. Treasury \in Accounts /\ treasuryPayoutAddress \in Accounts
  BY <1>0, GovernanceAssumption DEF GovTypeOK
<1>9. ASSUME NEW s \in Accounts, NEW o \in Orders, NEW n \in 0 .. MaxTrades,
             NEW dl \in {now - 1, now}, NEW sg \in Accounts, createTrade(s, o, n, dl, sg)
      PROVE  TypeInv'
  BY <1>3, <1>9, Zenon
<1>10. CASE Clock \/ AdminStep \/ UNCHANGED vars
  BY <1>2, <1>10, Zenon DEF Clock, AdminStep
<1> QED
  BY <1>4, <1>5, <1>6, <1>7, <1>8, <1>9, <1>10, Zenon DEF Next, claim, claimTreasury

(***************************************************************************)
(* Every reachable state of the contract is well typed; in particular no   *)
(* checked subtraction (claims, transfers) can leave a negative balance.   *)
(***************************************************************************)
THEOREM TypeCorrect == Spec => []TypeOK
<1>1. Init => TypeInv
  <2>1. Init => ActiveIsMade
    BY DEF Init, TradeInit, ActiveIsMade
  <2> QED
    BY <2>1, TypeInit DEF TypeInv
<1>2. TypeInv /\ [Next]_vars => TypeInv'
  BY TypeStep
<1>3. TypeInv => TypeOK
  BY DEF TypeInv
<1> QED
  BY <1>1, <1>2, <1>3, PTL DEF Spec

-------------------------------------------------------------------------------
(* What one step does to the money of the trades *)

\* The step leaves the parties, the amounts and the date of trade t as they are.
SameTerms(t) ==
  /\ trades'[t].createdAt = trades[t].createdAt
  /\ trades'[t].buyerAddress = trades[t].buyerAddress
  /\ trades'[t].supplierAddress = trades[t].supplierAddress
  /\ trades'[t].totalAmountLocked = trades[t].totalAmountLocked
  /\ trades'[t].logisticsAmount = trades[t].logisticsAmount
  /\ trades'[t].platformFeesAmount = trades[t].platformFeesAmount
  /\ trades'[t].supplierFirstTranche = trades[t].supplierFirstTranche
  /\ trades'[t].supplierSecondTranche = trades[t].supplierSecondTranche

\* amount accrues for trade t as a claim of type c.
Accrues(t, c, amount) ==
  /\ claimableAccrued'[t][c] = claimableAccrued[t][c] + amount
  /\ \A e \in ClaimType \ {c} : claimableAccrued'[t][e] = claimableAccrued[t][e]

\* Trade t comes into being with the terms of a valid order.
BecomesTrade(t) ==
  /\ t = tradeCounter
  /\ tradeCounter' = tradeCounter + 1
  /\ trades'[t].status = "LOCKED"
  /\ \E o \in Orders :
       /\ ValidOrder(o)
       /\ trades'[t].totalAmountLocked = o.total
       /\ trades'[t].logisticsAmount = o.logistics
       /\ trades'[t].platformFeesAmount = o.platformFees
       /\ trades'[t].supplierFirstTranche = o.firstTranche
       /\ trades'[t].supplierSecondTranche = o.secondTranche
  /\ claimableAccrued'[t] = claimableAccrued[t]

Released(t) ==
  /\ trades[t].status = "LOCKED"
  /\ trades'[t].status = "IN_TRANSIT"
  /\ SameTerms(t)
  /\ \A c \in ClaimType \ Stage1Claims : claimableAccrued'[t][c] = claimableAccrued[t][c]
  /\ claimableAccrued'[t]["STAGE1_SUPPLIER"] =
       claimableAccrued[t]["STAGE1_SUPPLIER"] + trades[t].supplierFirstTranche
  /\ claimableAccrued'[t]["STAGE1_LOGISTICS_FEE"] =
       claimableAccrued[t]["STAGE1_LOGISTICS_FEE"] + trades[t].logisticsAmount
  /\ claimableAccrued'[t]["STAGE1_PLATFORM_FEE"] =
       claimableAccrued[t]["STAGE1_PLATFORM_FEE"] + trades[t].platformFeesAmount

Advanced(t) ==
  /\ trades[t].status \in {"IN_TRANSIT", "ARRIVAL_CONFIRMED"}
  /\ trades'[t].status \in {"ARRIVAL_CONFIRMED", "FROZEN"}
  /\ SameTerms(t)
  /\ claimableAccrued'[t] = claimableAccrued[t]

Refunded(t) ==
  /\ trades[t].status = "LOCKED"
  /\ trades'[t].status = "CLOSED"
  /\ SameTerms(t)
  /\ Accrues(t, "LOCK_TIMEOUT_BUYER_REFUND", trades[t].totalAmountLocked)

SecondPaid(t) ==
  /\ trades[t].status \in {"IN_TRANSIT", "ARRIVAL_CONFIRMED", "FROZEN"}
  /\ trades'[t].status = "CLOSED"
  /\ SameTerms(t)
  /\ \E c \in Stage2Claims : Accrues(t, c, trades[t].supplierSecondTranche)

\* An existing trade t makes one of its moves.
Moves(t) == Exists(t) /\ (Released(t) \/ Advanced(t) \/ Refunded(t) \/ SecondPaid(t))

\* Only trade t is touched.
OnlyTouches(t) ==
  \A u \in TradeIds \ {t} :
    trades'[u] = trades[u] /\ claimableAccrued'[u] = claimableAccrued[u]

\* Trades that were not created yet are untouched storage.
FreshTrades ==
  \A t \in TradeIds : ~Exists(t) =>
    trades[t] = NoTrade /\ NothingAccrued(t, ClaimType)

LEMMA StatusEffect ==
  ASSUME RecordTypes, NEW t \in TradeIds, NEW st \in TradeStatus,
         trades' = [trades EXCEPT ![t] = [trades[t] EXCEPT !.status = st]]
  PROVE  /\ trades'[t].status = st
         /\ SameTerms(t)
         /\ \A u \in TradeIds \ {t} : trades'[u] = trades[u]
  BY DEF RecordTypes, SameTerms, Trade

LEMMA CloseEffect ==
  ASSUME RecordTypes, AccountTypes, NEW t \in TradeIds, NEW r, NEW n \in Nat,
         NEW c \in ClaimType, Close(t, r, n, c)
  PROVE  /\ trades'[t].status = "CLOSED"
         /\ SameTerms(t)
         /\ Accrues(t, c, n)
         /\ OnlyTouches(t)
         /\ tradeCounter' = tradeCounter
<1>1. /\ trades' = [trades EXCEPT ![t] = [trades[t] EXCEPT !.status = "CLOSED"]]
      /\ claimableAccrued' =
           [claimableAccrued EXCEPT ![t] = [claimableAccrued[t] EXCEPT ![c] = @ + n]]
      /\ tradeCounter' = tradeCounter
  BY Zenon DEF Close, AccrueClaimable
<1>2. "CLOSED" \in TradeStatus
  BY DEF TradeStatus
<1>3. /\ trades'[t].status = "CLOSED"
      /\ SameTerms(t)
      /\ \A u \in TradeIds \ {t} : trades'[u] = trades[u]
  BY <1>1, <1>2, StatusEffect
<1>4. claimableAccrued \in [TradeIds -> [ClaimType -> Nat]]
  BY DEF AccountTypes
<1>5. Accrues(t, c, n) /\ \A u \in TradeIds \ {t} : claimableAccrued'[u] = claimableAccrued[u]
  BY <1>1, <1>4, AccrueOnce DEF Accrues
<1> QED
  BY <1>1, <1>3, <1>5 DEF OnlyTouches

\* The step does one of the things below to the money of the trades.
MoneyStep ==
  \/ UNCHANGED <<trades, tradeCounter, claimableAccrued>>
  \/ \E t \in TradeIds : BecomesTrade(t) /\ OnlyTouches(t)
  \/ \E t \in TradeIds : Moves(t) /\ OnlyTouches(t) /\ UNCHANGED tradeCounter

LEMMA CreateMoney ==
  ASSUME TypeOK, NEW s \in Accounts, NEW o \in Orders, NEW n, NEW dl, NEW sg,
         createTrade(s, o, n, dl, sg)
  PROVE  MoneyStep
<1> DEFINE r == [status |-> "LOCKED", ricardianHash |-> o.ricardianHash,
                 buyerAddress |-> s, supplierAddress |-> o.supplier,
                 totalAmountLocked |-> o.total, logisticsAmount |-> o.logistics,
                 platformFeesAmount |-> o.platformFees,
                 supplierFirstTranche |-> o.firstTranche,
                 supplierSecondTranche |-> o.secondTranche,
                 createdAt |-> now, arrivalTimestamp |-> 0]
<1>0. RecordTypes
  BY TypeGroups
<1>1. /\ trades' = [trades EXCEPT ![tradeCounter] = r]
      /\ tradeCounter' = tradeCounter + 1
      /\ claimableAccrued' = claimableAccrued
      /\ ValidOrder(o)
      /\ tradeCounter < MaxTrades
  BY Zenon DEF createTrade, AcceptsTrade
<1>2. tradeCounter \in TradeIds
  BY <1>0, <1>1, EscrowAssumption DEF RecordTypes, TradeIds
<1>3. trades'[tradeCounter] = r /\ OnlyTouches(tradeCounter)
  <2> HIDE DEF r
  <2> QED
    BY <1>0, <1>1, <1>2 DEF RecordTypes, OnlyTouches
<1>4. BecomesTrade(tradeCounter)
  <2>1. /\ r.status = "LOCKED" /\ r.totalAmountLocked = o.total
        /\ r.logisticsAmount = o.logistics /\ r.platformFeesAmount = o.platformFees
        /\ r.supplierFirstTranche = o.firstTranche
        /\ r.supplierSecondTranche = o.secondTranche
    OBVIOUS
  <2> HIDE DEF r
  <2> QED
    BY <1>1, <1>3, <2>1, Zenon DEF BecomesTrade
<1> QED
  BY <1>2, <1>3, <1>4 DEF MoneyStep

LEMMA ReleaseMoney ==
  ASSUME TypeOK, NEW s, NEW t \in TradeIds, releaseFundsStage1(s, t)
  PROVE  MoneyStep
<1>0. RecordTypes /\ AccountTypes
  BY TypeGroups
<1>1. /\ trades[t].status = "LOCKED" /\ Exists(t)
      /\ trades' = [trades EXCEPT ![t] = [trades[t] EXCEPT !.status = "IN_TRANSIT"]]
      /\ UNCHANGED tradeCounter
  BY Zenon DEF releaseFundsStage1
<1>2. "IN_TRANSIT" \in TradeStatus
  BY DEF TradeStatus
<1>3. /\ trades'[t].status = "IN_TRANSIT"
      /\ SameTerms(t)
      /\ \A u \in TradeIds \ {t} : trades'[u] = trades[u]
  BY <1>0, <1>1, <1>2, StatusEffect
<1>4. /\ \A u \in TradeIds \ {t} : claimableAccrued'[u] = claimableAccrued[u]
      /\ \A c \in ClaimType \ Stage1Claims :
           claimableAccrued'[t][c] = claimableAccrued[t][c]
      /\ claimableAccrued'[t]["STAGE1_SUPPLIER"] =
           claimableAccrued[t]["STAGE1_SUPPLIER"] + trades[t].supplierFirstTranche
      /\ claimableAccrued'[t]["STAGE1_LOGISTICS_FEE"] =
           claimableAccrued[t]["STAGE1_LOGISTICS_FEE"] + trades[t].logisticsAmount
      /\ claimableAccrued'[t]["STAGE1_PLATFORM_FEE"] =
           claimableAccrued[t]["STAGE1_PLATFORM_FEE"] + trades[t].platformFeesAmount
  BY <1>0, ReleaseAccrues
<1>5. Released(t) /\ OnlyTouches(t)
  BY <1>1, <1>3, <1>4, Zenon DEF Released, OnlyTouches
<1> QED
  BY <1>1, <1>5, Zenon DEF MoneyStep, Moves

LEMMA AdvanceMoney ==
  ASSUME TypeOK, NEW s, NEW t \in TradeIds, confirmArrival(s, t) \/ openDispute(s, t)
  PROVE  MoneyStep
<1>0. RecordTypes
  BY TypeGroups
<1>1. CASE openDispute(s, t)
  <2>1. /\ trades[t].status = "ARRIVAL_CONFIRMED" /\ Exists(t)
        /\ trades' = [trades EXCEPT ![t] = [trades[t] EXCEPT !.status = "FROZEN"]]
        /\ UNCHANGED <<tradeCounter, claimableAccrued>>
    BY <1>1, Zenon DEF openDispute, AcceptsDispute
  <2>2. "FROZEN" \in TradeStatus
    BY DEF TradeStatus
  <2>3. /\ trades'[t].status = "FROZEN"
        /\ SameTerms(t)
        /\ \A u \in TradeIds \ {t} : trades'[u] = trades[u]
    BY <1>0, <2>1, <2>2, StatusEffect
  <2>4. Advanced(t) /\ OnlyTouches(t)
    BY <2>1, <2>3 DEF Advanced, OnlyTouches
  <2> QED
    BY <2>1, <2>4, Zenon DEF MoneyStep, Moves
<1>2. CASE confirmArrival(s, t)
  <2> DEFINE r == [trades[t] EXCEPT !.status = "ARRIVAL_CONFIRMED", !.arrivalTimestamp = now]
  <2>1. /\ trades[t].status = "IN_TRANSIT" /\ Exists(t)
        /\ trades' = [trades EXCEPT ![t] = r]
        /\ UNCHANGED <<tradeCounter, claimableAccrued>>
    BY <1>2, Zenon DEF confirmArrival
  <2>2. trades'[t] = r /\ \A u \in TradeIds \ {t} : trades'[u] = trades[u]
    <3> HIDE DEF r
    <3> QED
      BY <1>0, <2>1 DEF RecordTypes
  <2>3. trades[t] \in Trade
    BY <1>0, TradeTermTypes
  <2>4. r.status = "ARRIVAL_CONFIRMED" /\ SameTerms(t)
    BY <2>2, <2>3 DEF SameTerms, Trade
  <2>5. Advanced(t) /\ OnlyTouches(t)
    BY <2>1, <2>2, <2>4 DEF Advanced, OnlyTouches
  <2> QED
    BY <2>1, <2>5, Zenon DEF MoneyStep, Moves
<1> QED
  BY <1>1, <1>2

LEMMA CloseMoney ==
  ASSUME TypeOK, NEW t \in TradeIds, NEW r, NEW n \in Nat, NEW c \in ClaimType,
         Close(t, r, n, c), Exists(t),
         \/ /\ trades[t].status = "LOCKED"
            /\ n = trades[t].totalAmountLocked
            /\ c = "LOCK_TIMEOUT_BUYER_REFUND"
         \/ /\ trades[t].status \in {"IN_TRANSIT", "ARRIVAL_CONFIRMED", "FROZEN"}
            /\ n = trades[t].supplierSecondTranche
            /\ c \in Stage2Claims
  PROVE  MoneyStep
<1>1. RecordTypes /\ AccountTypes
  BY TypeGroups
<1>2. /\ trades'[t].status = "CLOSED" /\ SameTerms(t) /\ Accrues(t, c, n)
      /\ OnlyTouches(t) /\ tradeCounter' = tradeCounter
  BY <1>1, CloseEffect
<1>3. CASE trades[t].status = "LOCKED"
  <2>1. n = trades[t].totalAmountLocked /\ c = "LOCK_TIMEOUT_BUYER_REFUND"
    BY <1>3
  <2>2. Refunded(t)
    BY <1>2, <1>3, <2>1 DEF Refunded
  <2> QED
    BY <1>2, <2>2, Zenon DEF MoneyStep, Moves
<1>4. CASE trades[t].status # "LOCKED"
  <2>1. SecondPaid(t)
    BY <1>2, <1>4, Zenon DEF SecondPaid
  <2> QED
    BY <1>2, <2>1, Zenon DEF MoneyStep, Moves
<1> QED
  BY <1>3, <1>4

LEMMA SimpleCloseMoney ==
  ASSUME TypeOK, NEW s, NEW t \in TradeIds, SimpleClose(s, t)
  PROVE  MoneyStep
<1>0. trades[t].supplierSecondTranche \in Nat /\ trades[t].totalAmountLocked \in Nat
  BY TradeTermTypes, TypeGroups
<1>1. CASE finalizeAfterDisputeWindow(t)
  <2>1. /\ Close(t, trades[t].supplierAddress, trades[t].supplierSecondTranche, "STAGE2_SUPPLIER")
        /\ Exists(t)
        /\ trades[t].status = "ARRIVAL_CONFIRMED"
    BY <1>1, Zenon DEF finalizeAfterDisputeWindow, AcceptsFinalization
  <2>2. "STAGE2_SUPPLIER" \in ClaimType /\ "STAGE2_SUPPLIER" \in Stage2Claims
    BY DEF ClaimType, Stage2Claims
  <2> QED
    BY <1>0, <2>1, <2>2, CloseMoney
<1>2. CASE cancelLockedTradeAfterTimeout(s, t)
  <2>1. /\ Close(t, trades[t].buyerAddress, trades[t].totalAmountLocked,
                 "LOCK_TIMEOUT_BUYER_REFUND")
        /\ Exists(t)
        /\ trades[t].status = "LOCKED"
    BY <1>2, Zenon DEF cancelLockedTradeAfterTimeout
  <2>2. "LOCK_TIMEOUT_BUYER_REFUND" \in ClaimType
    BY DEF ClaimType
  <2> QED
    BY <1>0, <2>1, <2>2, CloseMoney
<1>3. CASE refundInTransitAfterTimeout(s, t)
  <2>1. /\ Close(t, trades[t].buyerAddress, trades[t].supplierSecondTranche,
                 "IN_TRANSIT_TIMEOUT_BUYER_REFUND")
        /\ Exists(t)
        /\ trades[t].status = "IN_TRANSIT"
    BY <1>3, Zenon DEF refundInTransitAfterTimeout
  <2>2. /\ "IN_TRANSIT_TIMEOUT_BUYER_REFUND" \in ClaimType
        /\ "IN_TRANSIT_TIMEOUT_BUYER_REFUND" \in Stage2Claims
    BY DEF ClaimType, Stage2Claims
  <2> QED
    BY <1>0, <2>1, <2>2, CloseMoney
<1> QED
  BY <1>1, <1>2, <1>3 DEF SimpleClose

\* FROZEN is no default: a decision is about a trade that exists.
LEMMA DisputeMoney ==
  ASSUME TypeOK, FreshTrades, NEW table, NEW d, table[d] \in MadeDispute,
         ExecuteDispute(table, d)
  PROVE  MoneyStep
<1> DEFINE t == table[d].tradeId
           refund == table[d].disputeStatus = "REFUND"
           recipient == IF refund THEN trades[t].buyerAddress ELSE trades[t].supplierAddress
           type == IF refund THEN "DISPUTE_REFUND_BUYER" ELSE "DISPUTE_RESOLVE_SUPPLIER"
<1>1. t \in TradeIds
  BY DEF MadeDispute
<1>2. type \in ClaimType /\ type \in Stage2Claims
  BY DEF ClaimType, Stage2Claims
<1>3. trades[t].supplierSecondTranche \in Nat
  BY <1>1, TradeTermTypes, TypeGroups
<1>4. /\ Close(t, recipient, trades[t].supplierSecondTranche, type)
      /\ trades[t].status = "FROZEN"
  BY Zenon DEF ExecuteDispute
<1> HIDE DEF t, recipient, type
<1>5. Exists(t)
  BY <1>1, <1>4 DEF FreshTrades, NoTrade
<1> QED
  BY <1>1, <1>2, <1>3, <1>4, <1>5, CloseMoney

\* Proposing and approving either execute an entry that was made, or leave the
\* trades and the money alone.
LEMMA DisputeActionKinds ==
  ASSUME TypeInv,
         \/ \E a \in Accounts, t \in TradeIds, ds \in DisputeStatus :
              proposeDisputeSolution(a, t, ds)
         \/ \E a \in Accounts, d \in DisputeIds : approveDisputeSolution(a, d)
  PROVE  /\ ~paused
         /\ \/ \E table, d : table[d] \in MadeDispute /\ ExecuteDispute(table, d)
            \/ UNCHANGED tradeRecordVars /\ UNCHANGED accountVars /\ UNCHANGED <<govVars, usdc>>
<1>0. TypeOK /\ GovTypeOK /\ DisputeTypes /\ ActiveIsMade
  BY TypeGroups DEF TypeInv
<1> DEFINE Goal ==
             /\ ~paused
             /\ \/ \E table, d : table[d] \in MadeDispute /\ ExecuteDispute(table, d)
                \/ UNCHANGED tradeRecordVars /\ UNCHANGED accountVars
                     /\ UNCHANGED <<govVars, usdc>>
<1>1. ASSUME NEW a \in Accounts, NEW t \in TradeIds, NEW ds \in DisputeStatus,
             proposeDisputeSolution(a, t, ds)
      PROVE  Goal
  <2> DEFINE d == disputeCounter
             q == [tradeId |-> t, disputeStatus |-> ds,
                   approvedBy |-> {a}, approvalCount |-> 1,
                   executed |-> FALSE, cancelled |-> FALSE,
                   createdAt |-> now, expiresAt |-> now + DisputeProposalTTL]
             table == [WithoutExpired(t) EXCEPT ![d] = q]
  <2>1. d \in DisputeIds /\ ~paused
    BY <1>0, <1>1, EscrowAssumption DEF proposeDisputeSolution, DisputeTypes, DisputeIds
  <2>2. q \in MadeDispute
    BY <1>0, EscrowAssumption DEF MadeDispute, GovTypeOK
  <2>3. WithoutExpired(t) \in [DisputeIds -> DisputeProposal]
    BY <1>0, WithoutExpiredType
  <2>4. CASE ExecuteDispute(table, d)
    <3> HIDE DEF q, d
    <3>1. table[d] \in MadeDispute
      BY <2>1, <2>2, <2>3, ReplaceDispute
    <3> HIDE DEF table
    <3> QED
      BY <2>1, <2>4, <3>1, Zenon
  <2>5. CASE ~ExecuteDispute(table, d)
    <3>1. UNCHANGED tradeRecordVars /\ UNCHANGED accountVars /\ UNCHANGED <<govVars, usdc>>
      BY <1>1, <2>5, Zenon DEF proposeDisputeSolution
    <3> QED
      BY <2>1, <3>1
  <2> QED
    BY <2>4, <2>5
<1>2. ASSUME NEW a \in Accounts, NEW d \in DisputeIds, approveDisputeSolution(a, d)
      PROVE  Goal
  <2> DEFINE p == disputeProposals[d]
             q == [p EXCEPT !.approvedBy = @ \cup {a}, !.approvalCount = @ + 1]
             table == [disputeProposals EXCEPT ![d] = q]
  <2>1. p \in DisputeProposal /\ disputeProposals \in [DisputeIds -> DisputeProposal]
    BY <1>0 DEF DisputeTypes
  <2>2. p.createdAt > 0 /\ ~paused
    BY <1>2, Zenon DEF approveDisputeSolution, LiveDispute
  <2>3. p \in MadeDispute
    <3> HIDE DEF p
    <3> QED
      BY <2>1, <2>2, DisputeIsMade
  <2>4. q \in MadeDispute
    BY <2>3, UpdatedDispute, Zenon
  <2>5. CASE ExecuteDispute(table, d)
    <3> HIDE DEF q
    <3>1. table[d] \in MadeDispute
      BY <2>1, <2>4, ReplaceDispute
    <3> HIDE DEF table
    <3> QED
      BY <2>2, <2>5, <3>1, Zenon
  <2>6. CASE ~ExecuteDispute(table, d)
    <3>1. UNCHANGED tradeRecordVars /\ UNCHANGED accountVars /\ UNCHANGED <<govVars, usdc>>
      BY <1>2, <2>6, Zenon DEF approveDisputeSolution
    <3> QED
      BY <2>2, <3>1
  <2> QED
    BY <2>5, <2>6
<1> HIDE DEF Goal
<1>3. Goal
  BY <1>1, <1>2
<1> QED
  BY <1>3 DEF Goal

LEMMA DisputeActionMoney ==
  ASSUME TypeInv, FreshTrades,
         \/ \E a \in Accounts, t \in TradeIds, ds \in DisputeStatus :
              proposeDisputeSolution(a, t, ds)
         \/ \E a \in Accounts, d \in DisputeIds : approveDisputeSolution(a, d)
  PROVE  MoneyStep
<1>1. CASE \E table, d : table[d] \in MadeDispute /\ ExecuteDispute(table, d)
  BY <1>1, DisputeMoney DEF TypeInv
<1>2. CASE UNCHANGED tradeRecordVars /\ UNCHANGED accountVars
  BY <1>2 DEF MoneyStep
<1> QED
  BY <1>1, <1>2, DisputeActionKinds

LEMMA NextMoney ==
  ASSUME TypeInv, FreshTrades, [Next]_vars
  PROVE  MoneyStep
<1>0. TypeOK
  BY DEF TypeInv
<1>1. CASE Clock \/ AdminStep \/ UNCHANGED vars
  BY <1>1, Zenon DEF Clock, AdminStep, MoneyStep
<1>2. ASSUME NEW i, NEW r, PayOut(i, r)
      PROVE  MoneyStep
  BY <1>2, Zenon DEF PayOut, MoneyStep
<1>3. ASSUME NEW s \in Accounts, NEW d \in DisputeIds, cancelExpiredDisputeProposal(s, d)
      PROVE  MoneyStep
  BY <1>3, Zenon DEF cancelExpiredDisputeProposal, MoneyStep
<1>4. ASSUME NEW s \in Accounts, NEW t \in TradeIds, TradeStep(s, t)
      PROVE  MoneyStep
  <2>1. CASE releaseFundsStage1(s, t)
    BY <1>0, <2>1, ReleaseMoney
  <2>2. CASE confirmArrival(s, t) \/ openDispute(s, t)
    BY <1>0, <2>2, AdvanceMoney
  <2>3. CASE SimpleClose(s, t)
    BY <1>0, <2>3, SimpleCloseMoney
  <2>4. CASE \E ds \in DisputeStatus : proposeDisputeSolution(s, t, ds)
    BY <2>4, DisputeActionMoney
  <2> QED
    BY <1>4, <2>1, <2>2, <2>3, <2>4, Zenon DEF TradeStep, SimpleClose
<1>5. ASSUME NEW t \in TradeIds, finalizeAfterDisputeWindow(t)
      PROVE  MoneyStep
  BY <1>0, <1>5, SimpleCloseMoney DEF SimpleClose
<1>6. ASSUME NEW s \in Accounts, NEW d \in DisputeIds, approveDisputeSolution(s, d)
      PROVE  MoneyStep
  BY <1>6, DisputeActionMoney
<1>7. ASSUME NEW s \in Accounts, NEW o \in Orders, NEW n \in 0 .. MaxTrades,
             NEW dl \in {now - 1, now}, NEW sg \in Accounts, createTrade(s, o, n, dl, sg)
      PROVE  MoneyStep
  BY <1>0, <1>7, CreateMoney
<1> QED
  BY <1>1, <1>2, <1>3, <1>4, <1>5, <1>6, <1>7, Zenon DEF Next, claim, claimTreasury

-------------------------------------------------------------------------------
(* The money of a trade *)

\* The amounts of an existing trade add up to what its buyer locked, and
\* both tranches are positive.
AmountsAddUp ==
  \A t \in Created :
    /\ trades[t].totalAmountLocked =
         trades[t].logisticsAmount + trades[t].platformFeesAmount
           + trades[t].supplierFirstTranche + trades[t].supplierSecondTranche
    /\ trades[t].supplierFirstTranche > 0
    /\ trades[t].supplierSecondTranche > 0

(***************************************************************************)
(* The inductive invariant behind the theorems about trades: SettledOnce   *)
(* says what has accrued at each status, FreshTrades that a new trade      *)
(* starts from untouched storage, AmountsAddUp that stage 1 and the second *)
(* tranche make up the deposit.                                            *)
(***************************************************************************)
MoneyInv == TypeInv /\ FreshTrades /\ AmountsAddUp /\ SettledOnce

\* The conjunct of SettledOnce for one trade, over its record and its accruals.
SettledTrade(trade, got) ==
  LET nothing(types) == \A c \in types : got[c] = 0
      stage1 == /\ got["STAGE1_SUPPLIER"] = trade.supplierFirstTranche
                /\ got["STAGE1_LOGISTICS_FEE"] = trade.logisticsAmount
                /\ got["STAGE1_PLATFORM_FEE"] = trade.platformFeesAmount
  IN /\ trade.status = "LOCKED" => nothing(ClaimType)
     /\ trade.status = "CLOSED" =>
          \/ /\ got["LOCK_TIMEOUT_BUYER_REFUND"] = trade.totalAmountLocked
             /\ nothing(Stage1Claims \cup Stage2Claims)
          \/ /\ stage1
             /\ \E c \in Stage2Claims :
                  /\ got[c] = trade.supplierSecondTranche
                  /\ nothing(ClaimType \ (Stage1Claims \cup {c}))
     /\ trade.status \notin {"LOCKED", "CLOSED"} =>
          stage1 /\ nothing(ClaimType \ Stage1Claims)

SettledTrades == \A t \in Created : SettledTrade(trades[t], claimableAccrued[t])

LEMMA SettledByTrade == SettledOnce <=> SettledTrades
<1>1. ASSUME NEW t \in Created
      PROVE  SettledTrade(trades[t], claimableAccrued[t]) <=>
    CASE trades[t].status = "LOCKED" -> NothingAccrued(t, ClaimType)
      [] trades[t].status = "CLOSED" ->
           \/ /\ claimableAccrued[t]["LOCK_TIMEOUT_BUYER_REFUND"] = trades[t].totalAmountLocked
              /\ NothingAccrued(t, Stage1Claims \cup Stage2Claims)
           \/ /\ Stage1Accrued(t)
              /\ \E c \in Stage2Claims :
                   /\ claimableAccrued[t][c] = trades[t].supplierSecondTranche
                   /\ NothingAccrued(t, ClaimType \ (Stage1Claims \cup {c}))
      [] OTHER ->
           /\ Stage1Accrued(t)
           /\ NothingAccrued(t, ClaimType \ Stage1Claims)
  BY DEF SettledTrade, NothingAccrued, Stage1Accrued
<1> QED
  BY <1>1, Zenon DEF SettledOnce, SettledTrades

LEMMA MoveSettles ==
  ASSUME MoneyInv, NEW t \in Created, Moves(t)
  PROVE  SettledTrade(trades'[t], claimableAccrued'[t]) /\ SameTerms(t)
<1> DEFINE p == trades[t]
           q == trades'[t]
           f == claimableAccrued[t]
           g == claimableAccrued'[t]
<1>0. SettledTrade(p, f) /\ t \in TradeIds
  BY SettledByTrade DEF MoneyInv, Created, SettledTrades
<1>1. /\ p.totalAmountLocked \in Nat /\ p.logisticsAmount \in Nat
      /\ p.platformFeesAmount \in Nat /\ p.supplierFirstTranche \in Nat
      /\ p.supplierSecondTranche \in Nat
  BY <1>0, TypeGroups, TradeTermTypes DEF MoneyInv, TypeInv
<1>2. CASE Released(t)
  <2>1. \A c \in ClaimType : f[c] = 0
    BY <1>0, <1>2 DEF Released, SettledTrade
  <2>2. \A c \in ClaimType \ Stage1Claims : g[c] = 0
    BY <1>2, <2>1 DEF Released
  <2>3. /\ g["STAGE1_SUPPLIER"] = p.supplierFirstTranche
        /\ g["STAGE1_LOGISTICS_FEE"] = p.logisticsAmount
        /\ g["STAGE1_PLATFORM_FEE"] = p.platformFeesAmount
    BY <1>1, <1>2, <2>1 DEF Released, ClaimType
  <2>4. q.status = "IN_TRANSIT" /\ SameTerms(t)
    BY <1>2 DEF Released
  <2> QED
    BY <2>2, <2>3, <2>4 DEF SettledTrade, SameTerms
<1>3. CASE Advanced(t)
  <2>1. /\ p.status \notin {"LOCKED", "CLOSED"} /\ q.status \notin {"LOCKED", "CLOSED"}
        /\ SameTerms(t) /\ g = f
    BY <1>3 DEF Advanced
  <2> QED
    BY <1>0, <2>1 DEF SettledTrade, SameTerms
<1>4. CASE Refunded(t)
  <2>1. \A c \in ClaimType : f[c] = 0
    BY <1>0, <1>4 DEF Refunded, SettledTrade
  <2>2. \A c \in ClaimType \ {"LOCK_TIMEOUT_BUYER_REFUND"} : g[c] = 0
    BY <1>4, <2>1 DEF Refunded, Accrues
  <2>3. g["LOCK_TIMEOUT_BUYER_REFUND"] = p.totalAmountLocked
    BY <1>1, <1>4, <2>1 DEF Refunded, Accrues, ClaimType
  <2>4. q.status = "CLOSED" /\ SameTerms(t)
    BY <1>4 DEF Refunded
  <2>5. \A c \in Stage1Claims \cup Stage2Claims : g[c] = 0
    BY <2>2 DEF ClaimType, Stage1Claims, Stage2Claims
  <2> QED
    BY <2>3, <2>4, <2>5 DEF SettledTrade, SameTerms
<1>5. CASE SecondPaid(t)
  <2>1. PICK c \in Stage2Claims : Accrues(t, c, p.supplierSecondTranche)
    BY <1>5 DEF SecondPaid
  <2>2. p.status \notin {"LOCKED", "CLOSED"} /\ q.status = "CLOSED" /\ SameTerms(t)
    BY <1>5 DEF SecondPaid
  <2>3. /\ f["STAGE1_SUPPLIER"] = p.supplierFirstTranche
        /\ f["STAGE1_LOGISTICS_FEE"] = p.logisticsAmount
        /\ f["STAGE1_PLATFORM_FEE"] = p.platformFeesAmount
        /\ \A e \in ClaimType \ Stage1Claims : f[e] = 0
    BY <1>0, <2>2 DEF SettledTrade
  <2>4. c \in ClaimType \ Stage1Claims
    BY DEF ClaimType, Stage1Claims, Stage2Claims
  <2>5. g[c] = p.supplierSecondTranche
    BY <1>1, <2>1, <2>3, <2>4 DEF Accrues
  <2>6. \A e \in ClaimType \ (Stage1Claims \cup {c}) : g[e] = 0
    BY <2>1, <2>3 DEF Accrues
  <2>7. /\ g["STAGE1_SUPPLIER"] = p.supplierFirstTranche
        /\ g["STAGE1_LOGISTICS_FEE"] = p.logisticsAmount
        /\ g["STAGE1_PLATFORM_FEE"] = p.platformFeesAmount
    BY <2>1, <2>3, <2>4 DEF Accrues, ClaimType, Stage1Claims
  <2> QED
    BY <2>2, <2>5, <2>6, <2>7 DEF SettledTrade, SameTerms
<1> QED
  BY <1>2, <1>3, <1>4, <1>5 DEF Moves

LEMMA CreateSettles ==
  ASSUME MoneyInv, NEW t \in TradeIds, BecomesTrade(t)
  PROVE  /\ SettledTrade(trades'[t], claimableAccrued'[t])
         /\ trades'[t].totalAmountLocked =
              trades'[t].logisticsAmount + trades'[t].platformFeesAmount
                + trades'[t].supplierFirstTranche + trades'[t].supplierSecondTranche
         /\ trades'[t].supplierFirstTranche > 0
         /\ trades'[t].supplierSecondTranche > 0
<1>1. ~Exists(t)
  BY TypeGroups DEF MoneyInv, TypeInv, RecordTypes, BecomesTrade, Exists
<1>2. \A c \in ClaimType : claimableAccrued'[t][c] = 0
  BY <1>1 DEF MoneyInv, FreshTrades, NothingAccrued, BecomesTrade
<1>3. SettledTrade(trades'[t], claimableAccrued'[t])
  BY <1>2 DEF SettledTrade, BecomesTrade
<1> QED
  BY <1>3 DEF BecomesTrade, ValidOrder

LEMMA MoneyInvStep ==
  ASSUME MoneyInv, [Next]_vars
  PROVE  MoneyInv'
<1>0. TypeInv /\ FreshTrades /\ AmountsAddUp /\ SettledOnce /\ tradeCounter \in Nat
  BY TypeGroups DEF MoneyInv, TypeInv, RecordTypes
<1>1. TypeInv'
  BY <1>0, TypeStep
<1>2. \A t \in Created : SettledTrade(trades[t], claimableAccrued[t])
  BY <1>0, SettledByTrade DEF SettledTrades
<1>3. CASE UNCHANGED <<trades, tradeCounter, claimableAccrued>>
  BY <1>0, <1>1, <1>3 DEF MoneyInv, FreshTrades, AmountsAddUp, SettledOnce, Created,
     Exists, NothingAccrued, Stage1Accrued
<1>4. ASSUME NEW t \in TradeIds, BecomesTrade(t), OnlyTouches(t)
      PROVE  MoneyInv'
  <2>1. t = tradeCounter /\ tradeCounter' = tradeCounter + 1
    BY <1>4 DEF BecomesTrade
  <2>2. FreshTrades'
    <3> SUFFICES ASSUME NEW u \in TradeIds, ~Exists(u)'
                 PROVE  trades'[u] = NoTrade /\ NothingAccrued(u, ClaimType)'
      BY DEF FreshTrades
    <3>1. u # t /\ ~Exists(u)
      BY <1>0, <2>1 DEF Exists, TradeIds
    <3> QED
      BY <1>0, <1>4, <3>1 DEF FreshTrades, OnlyTouches, NothingAccrued
  <2>3. \A u \in Created' : u = t \/ u \in Created
    BY <1>0, <2>1 DEF Created, TradeIds
  <2>4. /\ SettledTrade(trades'[t], claimableAccrued'[t])
        /\ trades'[t].totalAmountLocked =
             trades'[t].logisticsAmount + trades'[t].platformFeesAmount
               + trades'[t].supplierFirstTranche + trades'[t].supplierSecondTranche
        /\ trades'[t].supplierFirstTranche > 0
        /\ trades'[t].supplierSecondTranche > 0
    BY <1>4, CreateSettles
  <2>5. \A u \in Created : u # t => /\ trades'[u] = trades[u]
                                    /\ claimableAccrued'[u] = claimableAccrued[u]
    BY <1>4 DEF OnlyTouches, Created
  <2>6. AmountsAddUp'
    BY <1>0, <2>3, <2>4, <2>5 DEF AmountsAddUp
  <2>7. SettledTrades'
    BY <1>2, <2>3, <2>4, <2>5 DEF SettledTrades
  <2>8. SettledOnce'
    BY <2>7, SettledByTrade, PTL
  <2> QED
    BY <1>1, <2>2, <2>6, <2>8 DEF MoneyInv
<1>5. ASSUME NEW t \in TradeIds, Moves(t), OnlyTouches(t), UNCHANGED tradeCounter
      PROVE  MoneyInv'
  <2>1. t \in Created /\ Created' = Created
    BY <1>5 DEF Created, Moves, Exists
  <2>2. SettledTrade(trades'[t], claimableAccrued'[t]) /\ SameTerms(t)
    BY <1>5, <2>1, MoveSettles
  <2>3. \A u \in TradeIds : u # t => /\ trades'[u] = trades[u]
                                     /\ claimableAccrued'[u] = claimableAccrued[u]
    BY <1>5 DEF OnlyTouches
  <2>4. FreshTrades'
    BY <1>0, <1>5, <2>1, <2>3 DEF FreshTrades, Exists, Created, NothingAccrued
  <2>5. AmountsAddUp'
    BY <1>0, <2>1, <2>2, <2>3 DEF AmountsAddUp, SameTerms, Created
  <2>6. SettledTrades'
    BY <1>2, <2>1, <2>2, <2>3 DEF Created, SettledTrades
  <2>7. SettledOnce'
    BY <2>6, SettledByTrade, PTL
  <2> QED
    BY <1>1, <2>4, <2>5, <2>7 DEF MoneyInv
<1>6. MoneyStep
  BY <1>0, NextMoney
<1> QED
  BY <1>3, <1>4, <1>5, <1>6, Zenon DEF MoneyStep

LEMMA MoneyInvInit == Init => MoneyInv
<1> SUFFICES ASSUME Init PROVE MoneyInv
  OBVIOUS
<1>1. TypeInv
  <2>1. ActiveIsMade
    BY DEF Init, TradeInit, ActiveIsMade
  <2> QED
    BY <2>1, TypeInit DEF TypeInv
<1>2. Created = {}
  BY DEF Init, TradeInit, Created, TradeIds
<1>3. FreshTrades
  BY DEF Init, TradeInit, FreshTrades, NothingAccrued
<1> QED
  BY <1>1, <1>2, <1>3 DEF MoneyInv, AmountsAddUp, SettledOnce

LEMMA MoneyInvariance == Spec => []MoneyInv
  BY MoneyInvInit, MoneyInvStep, PTL DEF Spec

(***************************************************************************)
(* For any number of trades and on every path through releases, timeouts   *)
(* and disputes, stage 1 and the second tranche (or the full refund)       *)
(* accrue exactly once and in full, as the status of the trade says        *)
(* (releaseFundsStage1, _executeDispute and the three closing calls).      *)
(***************************************************************************)
THEOREM SettledOnceHolds == Spec => []SettledOnce
<1>1. MoneyInv => SettledOnce
  BY DEF MoneyInv
<1> QED
  BY <1>1, MoneyInvariance, PTL

\* What has left trade t and what is held for it, when it is settled as it should be.
LEMMA SettledConserves ==
  ASSUME MoneyInv, NEW t \in Created
  PROVE  Accrued(t) + Held(t) = trades[t].totalAmountLocked
<1> DEFINE p == trades[t]
           f == claimableAccrued[t]
<1>1. SettledTrade(p, f) /\ t \in TradeIds
  BY SettledByTrade DEF MoneyInv, Created, SettledTrades
<1>2. /\ p.totalAmountLocked \in Nat /\ p.logisticsAmount \in Nat
      /\ p.platformFeesAmount \in Nat /\ p.supplierFirstTranche \in Nat
      /\ p.supplierSecondTranche \in Nat
  BY <1>1, TypeGroups, TradeTermTypes DEF MoneyInv, TypeInv
<1>3. p.totalAmountLocked = p.logisticsAmount + p.platformFeesAmount
                              + p.supplierFirstTranche + p.supplierSecondTranche
  BY DEF MoneyInv, AmountsAddUp
<1>4. CASE p.status = "LOCKED"
  <2>1. \A c \in ClaimType : f[c] = 0
    BY <1>1, <1>4 DEF SettledTrade
  <2>2. Accrued(t) = 0 /\ Held(t) = p.totalAmountLocked
    BY <1>4, <2>1 DEF Accrued, Held, ClaimType
  <2> QED
    BY <1>2, <2>2
<1>5. CASE p.status \notin {"LOCKED", "CLOSED"}
  <2>1. /\ f["STAGE1_SUPPLIER"] = p.supplierFirstTranche
        /\ f["STAGE1_LOGISTICS_FEE"] = p.logisticsAmount
        /\ f["STAGE1_PLATFORM_FEE"] = p.platformFeesAmount
        /\ \A e \in ClaimType \ Stage1Claims : f[e] = 0
    BY <1>1, <1>5 DEF SettledTrade
  <2>2. Held(t) = p.supplierSecondTranche
    BY <1>5 DEF Held
  <2>3. Accrued(t) = p.supplierFirstTranche + p.logisticsAmount + p.platformFeesAmount
    BY <1>2, <2>1 DEF Accrued, ClaimType, Stage1Claims
  <2> QED
    BY <1>2, <1>3, <2>2, <2>3
<1>6. CASE p.status = "CLOSED"
  <2>1. Held(t) = 0
    BY <1>6 DEF Held
  <2>2. CASE /\ f["LOCK_TIMEOUT_BUYER_REFUND"] = p.totalAmountLocked
             /\ \A c \in Stage1Claims \cup Stage2Claims : f[c] = 0
    <3>1. Accrued(t) = p.totalAmountLocked
      BY <1>2, <2>2 DEF Accrued, Stage1Claims, Stage2Claims
    <3> QED
      BY <1>2, <2>1, <3>1
  <2>3. ASSUME NEW c \in Stage2Claims, f[c] = p.supplierSecondTranche,
               \A e \in ClaimType \ (Stage1Claims \cup {c}) : f[e] = 0,
               f["STAGE1_SUPPLIER"] = p.supplierFirstTranche,
               f["STAGE1_LOGISTICS_FEE"] = p.logisticsAmount,
               f["STAGE1_PLATFORM_FEE"] = p.platformFeesAmount
        PROVE  Accrued(t) = p.totalAmountLocked
    BY <1>2, <1>3, <2>3 DEF Accrued, ClaimType, Stage1Claims, Stage2Claims
  <2> QED
    BY <1>1, <1>2, <1>6, <2>1, <2>2, <2>3 DEF SettledTrade
<1> QED
  BY <1>4, <1>5, <1>6

(***************************************************************************)
(* Conservation per trade, for any number of trades and any amounts: what  *)
(* accrued plus what is still held is what the buyer locked.               *)
(***************************************************************************)
THEOREM TradeConservationHolds == Spec => []TradeConservation
<1>1. MoneyInv => TradeConservation
  BY SettledConserves DEF TradeConservation
<1> QED
  BY <1>1, MoneyInvariance, PTL

-------------------------------------------------------------------------------
(* Refinement of TradeCustody *)

\* The books of one trade as a record.
Book(fees, first, second, held, toBuyer, toSupplier, toTreasury) ==
  [fees |-> fees, first |-> first, second |-> second, held |-> held,
   toBuyer |-> toBuyer, toSupplier |-> toSupplier, toTreasury |-> toTreasury]

\* The function that TradeCustody's variable stands for.
Books == [t \in TradeIds |-> BooksOf(t)]

\* The books of an existing trade that is not CLOSED.
LEMMA OpenBooks ==
  ASSUME MoneyInv, NEW t \in Created, trades[t].status # "CLOSED"
  PROVE  LET p == trades[t]
             fees == p.logisticsAmount + p.platformFeesAmount
         IN /\ p.status = "LOCKED" =>
                 BooksOf(t) = Book(fees, p.supplierFirstTranche, p.supplierSecondTranche,
                                   p.totalAmountLocked, 0, 0, 0)
            /\ p.status # "LOCKED" =>
                 BooksOf(t) = Book(fees, p.supplierFirstTranche, p.supplierSecondTranche,
                                   p.supplierSecondTranche, 0, p.supplierFirstTranche, fees)
<1> DEFINE p == trades[t]
           f == claimableAccrued[t]
<1>1. SettledTrade(p, f) /\ t \in TradeIds
  BY SettledByTrade DEF MoneyInv, Created, SettledTrades
<1>2. /\ p.totalAmountLocked \in Nat /\ p.logisticsAmount \in Nat
      /\ p.platformFeesAmount \in Nat /\ p.supplierFirstTranche \in Nat
      /\ p.supplierSecondTranche \in Nat
  BY <1>1, TypeGroups, TradeTermTypes DEF MoneyInv, TypeInv
<1>3. CASE p.status = "LOCKED"
  <2>1. \A c \in ClaimType : f[c] = 0
    BY <1>1, <1>3 DEF SettledTrade
  <2>2. Held(t) = p.totalAmountLocked
    BY <1>3 DEF Held
  <2> QED
    BY <1>2, <1>3, <2>1, <2>2 DEF BooksOf, Book, ClaimType
<1>4. CASE p.status # "LOCKED"
  <2>1. /\ f["STAGE1_SUPPLIER"] = p.supplierFirstTranche
        /\ f["STAGE1_LOGISTICS_FEE"] = p.logisticsAmount
        /\ f["STAGE1_PLATFORM_FEE"] = p.platformFeesAmount
        /\ \A e \in ClaimType \ Stage1Claims : f[e] = 0
    BY <1>1, <1>4 DEF SettledTrade
  <2>2. Held(t) = p.supplierSecondTranche
    BY <1>4 DEF Held
  <2> QED
    BY <1>2, <1>4, <2>1, <2>2 DEF BooksOf, Book, ClaimType, Stage1Claims
<1> QED
  BY <1>3, <1>4

\* The books of every trade between the release and the end.
ReleasedBooks ==
  \A t \in Created : trades[t].status \notin {"LOCKED", "CLOSED"} =>
    LET p == trades[t]
        fees == p.logisticsAmount + p.platformFeesAmount
    IN BooksOf(t) = Book(fees, p.supplierFirstTranche, p.supplierSecondTranche,
                         p.supplierSecondTranche, 0, p.supplierFirstTranche, fees)

LEMMA ReleasedBooksHold == MoneyInv => ReleasedBooks
  BY OpenBooks DEF ReleasedBooks

\* The same of the state after a step.
LEMMA BooksAfter ==
  ASSUME MoneyInv', NEW t, t \in Created', trades'[t].status \notin {"LOCKED", "CLOSED"}
  PROVE  LET q == trades'[t]
             fees == q.logisticsAmount + q.platformFeesAmount
         IN BooksOf(t)' = Book(fees, q.supplierFirstTranche, q.supplierSecondTranche,
                               q.supplierSecondTranche, 0, q.supplierFirstTranche, fees)
<1>1. ReleasedBooks'
  BY ReleasedBooksHold, PTL
<1> QED
  BY <1>1 DEF ReleasedBooks

\* The books that the closing moves leave.
LEMMA ClosedBooks ==
  ASSUME MoneyInv, NEW t \in Created, Moves(t), trades'[t].status = "CLOSED"
  PROVE  LET p == trades[t]
             fees == p.logisticsAmount + p.platformFeesAmount
             first == p.supplierFirstTranche
             second == p.supplierSecondTranche
         IN \/ /\ p.status = "LOCKED"
               /\ BooksOf(t)' = Book(fees, first, second, 0, p.totalAmountLocked, 0, 0)
            \/ /\ p.status \notin {"LOCKED", "CLOSED"}
               /\ \/ BooksOf(t)' = Book(fees, first, second, 0, second, first, fees)
                  \/ BooksOf(t)' = Book(fees, first, second, 0, 0, first + second, fees)
<1> DEFINE p == trades[t]
           f == claimableAccrued[t]
           g == claimableAccrued'[t]
<1>1. SettledTrade(p, f) /\ t \in TradeIds
  BY SettledByTrade DEF MoneyInv, Created, SettledTrades
<1>2. /\ p.totalAmountLocked \in Nat /\ p.logisticsAmount \in Nat
      /\ p.platformFeesAmount \in Nat /\ p.supplierFirstTranche \in Nat
      /\ p.supplierSecondTranche \in Nat
  BY <1>1, TypeGroups, TradeTermTypes DEF MoneyInv, TypeInv
<1>3. Held(t)' = 0
  BY DEF Held
<1>4. CASE Refunded(t)
  <2>1. \A c \in ClaimType : f[c] = 0
    BY <1>1, <1>4 DEF Refunded, SettledTrade
  <2>2. /\ \A c \in ClaimType \ {"LOCK_TIMEOUT_BUYER_REFUND"} : g[c] = 0
        /\ g["LOCK_TIMEOUT_BUYER_REFUND"] = p.totalAmountLocked
    BY <1>2, <1>4, <2>1 DEF Refunded, Accrues, ClaimType
  <2>3. SameTerms(t) /\ p.status = "LOCKED"
    BY <1>4 DEF Refunded
  <2> QED
    BY <1>2, <1>3, <2>2, <2>3 DEF BooksOf, Book, ClaimType, SameTerms
<1>5. CASE SecondPaid(t)
  <2>1. PICK c \in Stage2Claims : Accrues(t, c, p.supplierSecondTranche)
    BY <1>5 DEF SecondPaid
  <2>2. p.status \notin {"LOCKED", "CLOSED"} /\ SameTerms(t)
    BY <1>5 DEF SecondPaid
  <2>3. /\ f["STAGE1_SUPPLIER"] = p.supplierFirstTranche
        /\ f["STAGE1_LOGISTICS_FEE"] = p.logisticsAmount
        /\ f["STAGE1_PLATFORM_FEE"] = p.platformFeesAmount
        /\ \A e \in ClaimType \ Stage1Claims : f[e] = 0
    BY <1>1, <2>2 DEF SettledTrade
  <2>4. c \in ClaimType \ Stage1Claims
    BY DEF ClaimType, Stage1Claims, Stage2Claims
  <2>5. g[c] = p.supplierSecondTranche
    BY <1>2, <2>1, <2>3, <2>4 DEF Accrues
  <2>6. \A e \in ClaimType \ (Stage1Claims \cup {c}) : g[e] = 0
    BY <2>1, <2>3 DEF Accrues
  <2>7. /\ g["STAGE1_SUPPLIER"] = p.supplierFirstTranche
        /\ g["STAGE1_LOGISTICS_FEE"] = p.logisticsAmount
        /\ g["STAGE1_PLATFORM_FEE"] = p.platformFeesAmount
    BY <2>1, <2>3, <2>4 DEF Accrues, ClaimType, Stage1Claims
  <2>8. CASE c \in {"STAGE2_SUPPLIER", "DISPUTE_RESOLVE_SUPPLIER"}
    BY <1>2, <1>3, <2>2, <2>5, <2>6, <2>7, <2>8
       DEF BooksOf, Book, ClaimType, Stage1Claims, SameTerms
  <2>9. CASE c \in {"IN_TRANSIT_TIMEOUT_BUYER_REFUND", "DISPUTE_REFUND_BUYER"}
    BY <1>2, <1>3, <2>2, <2>5, <2>6, <2>7, <2>9
       DEF BooksOf, Book, ClaimType, Stage1Claims, SameTerms
  <2> QED
    BY <2>8, <2>9 DEF Stage2Claims
<1> QED
  BY <1>4, <1>5 DEF Moves, Released, Advanced

\* Changing the books of one trade.
LEMMA BooksUpdate ==
  ASSUME NEW t \in TradeIds, OnlyTouches(t), NEW b, BooksOf(t)' = b
  PROVE  Books' = [Books EXCEPT ![t] = b]
<1>1. \A u \in TradeIds \ {t} : BooksOf(u)' = BooksOf(u)
  BY DEF OnlyTouches, BooksOf, Held
<1> QED
  BY <1>1 DEF Books

BookType ==
  [fees : Nat, first : Nat, second : Nat, held : Nat,
   toBuyer : Nat, toSupplier : Nat, toTreasury : Nat]

LEMMA SameBook ==
  ASSUME NEW r \in BookType, NEW s \in BookType,
         r.fees = s.fees, r.first = s.first, r.second = s.second, r.held = s.held,
         r.toBuyer = s.toBuyer, r.toSupplier = s.toSupplier, r.toTreasury = s.toTreasury
  PROVE  r = s
  BY DEF BookType

\* The three edits of a book that TradeCustody's steps make.
LEMMA EditBook ==
  ASSUME NEW r \in BookType, NEW b \in BookType,
         b.fees = r.fees, b.first = r.first, b.second = r.second
  PROVE  /\ /\ b.toSupplier = r.toSupplier /\ b.toTreasury = r.toTreasury
            => b = [r EXCEPT !.held = b.held, !.toBuyer = b.toBuyer]
         /\ /\ b.toBuyer = r.toBuyer /\ b.toTreasury = r.toTreasury
            => b = [r EXCEPT !.held = b.held, !.toSupplier = b.toSupplier]
         /\ b.toBuyer = r.toBuyer
            => b = [r EXCEPT !.held = b.held, !.toSupplier = b.toSupplier,
                             !.toTreasury = b.toTreasury]
<1> DEFINE e1 == [r EXCEPT !.held = b.held, !.toBuyer = b.toBuyer]
           e2 == [r EXCEPT !.held = b.held, !.toSupplier = b.toSupplier]
           e3 == [r EXCEPT !.held = b.held, !.toSupplier = b.toSupplier,
                           !.toTreasury = b.toTreasury]
<1>1. /\ e1 \in BookType /\ e1.fees = r.fees /\ e1.first = r.first /\ e1.second = r.second
      /\ e1.held = b.held /\ e1.toBuyer = b.toBuyer /\ e1.toSupplier = r.toSupplier
      /\ e1.toTreasury = r.toTreasury
  BY DEF BookType
<1>2. /\ e2 \in BookType /\ e2.fees = r.fees /\ e2.first = r.first /\ e2.second = r.second
      /\ e2.held = b.held /\ e2.toBuyer = r.toBuyer /\ e2.toSupplier = b.toSupplier
      /\ e2.toTreasury = r.toTreasury
  BY DEF BookType
<1>3. /\ e3 \in BookType /\ e3.fees = r.fees /\ e3.first = r.first /\ e3.second = r.second
      /\ e3.held = b.held /\ e3.toBuyer = r.toBuyer /\ e3.toSupplier = b.toSupplier
      /\ e3.toTreasury = b.toTreasury
  BY DEF BookType
<1> HIDE DEF e1, e2, e3
<1>4. b.toSupplier = r.toSupplier /\ b.toTreasury = r.toTreasury => b = e1
  BY <1>1, SameBook
<1>5. b.toBuyer = r.toBuyer /\ b.toTreasury = r.toTreasury => b = e2
  BY <1>2, SameBook
<1>6. b.toBuyer = r.toBuyer => b = e3
  BY <1>3, SameBook
<1> QED
  BY <1>4, <1>5, <1>6 DEF e1, e2, e3

\* The steps of TradeCustody, on the books as records.
LEMMA BookSteps ==
  ASSUME NEW t \in TradeIds, NEW fees \in Nat, NEW first \in Nat \ {0},
         NEW second \in Nat \ {0}, NEW b, Books' = [Books EXCEPT ![t] = b]
  PROVE  /\ /\ Books[t] = Book(fees, first, second, fees + first + second, 0, 0, 0)
            /\ b = Book(fees, first, second, 0, fees + first + second, 0, 0)
            => Custody!Next
         /\ /\ Books[t] = Book(fees, first, second, fees + first + second, 0, 0, 0)
            /\ b = Book(fees, first, second, second, 0, first, fees)
            => Custody!Next
         /\ /\ Books[t] = Book(fees, first, second, second, 0, first, fees)
            /\ b \in {Book(fees, first, second, 0, second, first, fees),
                      Book(fees, first, second, 0, 0, first + second, fees)}
            => Custody!Next
<1>0. /\ first \in Nat /\ second \in Nat /\ 0 \in Nat
      /\ fees + first + second \in Nat /\ first + second \in Nat
  OBVIOUS
<1>1. ASSUME Books[t] = Book(fees, first, second, fees + first + second, 0, 0, 0),
             b = Book(fees, first, second, 0, fees + first + second, 0, 0)
      PROVE  Custody!Next
  <2> DEFINE r == Books[t]
  <2>1. /\ r \in BookType
        /\ r.fees = fees /\ r.first = first /\ r.second = second
        /\ r.held = fees + first + second
        /\ r.toBuyer = 0 /\ r.toSupplier = 0 /\ r.toTreasury = 0
    BY <1>0, <1>1 DEF Book, BookType
  <2>2. /\ b \in BookType
        /\ b.fees = fees /\ b.first = first /\ b.second = second /\ b.held = 0
        /\ b.toBuyer = fees + first + second /\ b.toSupplier = 0 /\ b.toTreasury = 0
    BY <1>0, <1>1 DEF Book, BookType
  <2> HIDE DEF r
  <2>3. b = [r EXCEPT !.held = b.held, !.toBuyer = b.toBuyer]
    <3>1. /\ b.fees = r.fees /\ b.first = r.first /\ b.second = r.second
          /\ b.toSupplier = r.toSupplier /\ b.toTreasury = r.toTreasury
      BY <2>1, <2>2
    <3> QED
      BY <2>1, <2>2, <3>1, EditBook, Zenon
  <2>4. b = [r EXCEPT !.held = 0, !.toBuyer = r.held]
    BY <2>1, <2>2, <2>3
  <2>5. Custody!Untouched(t)
    BY <2>1 DEF Custody!Untouched, Books, r
  <2>6. Custody!Refund(t)
    BY <2>4, <2>5, Zenon DEF Custody!Refund, Books, r
  <2> QED
    BY <2>6, Zenon DEF Custody!Next
<1>2. ASSUME Books[t] = Book(fees, first, second, fees + first + second, 0, 0, 0),
             b = Book(fees, first, second, second, 0, first, fees)
      PROVE  Custody!Next
  <2> DEFINE r == Books[t]
  <2>1. /\ r \in BookType
        /\ r.fees = fees /\ r.first = first /\ r.second = second
        /\ r.held = fees + first + second
        /\ r.toBuyer = 0 /\ r.toSupplier = 0 /\ r.toTreasury = 0
    BY <1>0, <1>2 DEF Book, BookType
  <2>2. /\ b \in BookType
        /\ b.fees = fees /\ b.first = first /\ b.second = second /\ b.held = second
        /\ b.toBuyer = 0 /\ b.toSupplier = first /\ b.toTreasury = fees
    BY <1>0, <1>2 DEF Book, BookType
  <2> HIDE DEF r
  <2>3. b = [r EXCEPT !.held = b.held, !.toSupplier = b.toSupplier,
                      !.toTreasury = b.toTreasury]
    <3>1. /\ b.fees = r.fees /\ b.first = r.first /\ b.second = r.second
          /\ b.toBuyer = r.toBuyer
      BY <2>1, <2>2
    <3> QED
      BY <2>1, <2>2, <3>1, EditBook, Zenon
  <2>4. b = [r EXCEPT !.held = r.second, !.toSupplier = r.first, !.toTreasury = r.fees]
    BY <2>1, <2>2, <2>3
  <2>5. Custody!Untouched(t)
    BY <2>1 DEF Custody!Untouched, Books, r
  <2>6. Custody!Release(t)
    BY <2>4, <2>5, Zenon DEF Custody!Release, Books, r
  <2> QED
    BY <2>6, Zenon DEF Custody!Next
<1>3. ASSUME Books[t] = Book(fees, first, second, second, 0, first, fees),
             \/ b = Book(fees, first, second, 0, second, first, fees)
             \/ b = Book(fees, first, second, 0, 0, first + second, fees)
      PROVE  Custody!Next
  <2> DEFINE r == Books[t]
  <2>1. /\ r \in BookType
        /\ r.fees = fees /\ r.first = first /\ r.second = second /\ r.held = second
        /\ r.toBuyer = 0 /\ r.toSupplier = first /\ r.toTreasury = fees
    BY <1>0, <1>3 DEF Book, BookType
  <2> HIDE DEF r
  <2>2. ASSUME b = Book(fees, first, second, 0, second, first, fees)
        PROVE  b = [r EXCEPT !.held = 0, !.toBuyer = r.second]
    <3>1. /\ b \in BookType
          /\ b.fees = fees /\ b.first = first /\ b.second = second /\ b.held = 0
          /\ b.toBuyer = second /\ b.toSupplier = first /\ b.toTreasury = fees
      BY <1>0, <2>2 DEF Book, BookType
    <3>2. b = [r EXCEPT !.held = b.held, !.toBuyer = b.toBuyer]
      <4>1. /\ b.fees = r.fees /\ b.first = r.first /\ b.second = r.second
            /\ b.toSupplier = r.toSupplier /\ b.toTreasury = r.toTreasury
        BY <2>1, <3>1
      <4> QED
        BY <2>1, <3>1, <4>1, EditBook, Zenon
    <3> QED
      BY <2>1, <3>1, <3>2
  <2>3. ASSUME b = Book(fees, first, second, 0, 0, first + second, fees)
        PROVE  b = [r EXCEPT !.held = 0, !.toSupplier = r.toSupplier + r.second]
    <3>1. /\ b \in BookType
          /\ b.fees = fees /\ b.first = first /\ b.second = second /\ b.held = 0
          /\ b.toBuyer = 0 /\ b.toSupplier = first + second /\ b.toTreasury = fees
      BY <1>0, <2>3 DEF Book, BookType
    <3>2. b = [r EXCEPT !.held = b.held, !.toSupplier = b.toSupplier]
      <4>1. /\ b.fees = r.fees /\ b.first = r.first /\ b.second = r.second
            /\ b.toBuyer = r.toBuyer /\ b.toTreasury = r.toTreasury
        BY <2>1, <3>1
      <4> QED
        BY <2>1, <3>1, <4>1, EditBook, Zenon
    <3> QED
      BY <2>1, <3>1, <3>2
  <2>4. \/ b = [r EXCEPT !.held = 0, !.toSupplier = r.toSupplier + r.second]
        \/ b = [r EXCEPT !.held = 0, !.toBuyer = r.second]
    BY <1>3, <2>2, <2>3
  <2>5. r.held > 0 /\ r.held = r.second
    BY <2>1
  <2>6. Custody!Settle(t)
    BY <2>4, <2>5, Zenon DEF Custody!Settle, Books, r
  <2> QED
    BY <2>6, Zenon DEF Custody!Next
<1> QED
  BY <1>1, <1>2, <1>3

LEMMA CustodyStep ==
  ASSUME MoneyInv, MoneyInv', [Next]_vars
  PROVE  [Custody!Next]_Books
<1>0. MoneyStep
  BY NextMoney DEF MoneyInv
<1>1. CASE UNCHANGED <<trades, tradeCounter, claimableAccrued>>
  BY <1>1 DEF Books, BooksOf, Held
<1>2. ASSUME NEW t \in TradeIds, BecomesTrade(t), OnlyTouches(t)
      PROVE  Custody!Next
  <2>1. PICK o \in Orders :
          /\ ValidOrder(o)
          /\ trades'[t].totalAmountLocked = o.total
          /\ trades'[t].logisticsAmount = o.logistics
          /\ trades'[t].platformFeesAmount = o.platformFees
          /\ trades'[t].supplierFirstTranche = o.firstTranche
          /\ trades'[t].supplierSecondTranche = o.secondTranche
    BY <1>2 DEF BecomesTrade
  <2>2. ~Exists(t)
    BY <1>2, TypeGroups DEF MoneyInv, TypeInv, RecordTypes, BecomesTrade, Exists
  <2>3. trades[t] = NoTrade /\ \A c \in ClaimType : claimableAccrued[t][c] = 0
    BY <2>2 DEF MoneyInv, FreshTrades, NothingAccrued
  <2>4. Books[t] = Custody!NoBooks
    BY <2>3 DEF Books, BooksOf, Held, NoTrade, ClaimType, Custody!NoBooks
  <2> DEFINE fees == o.logistics + o.platformFees
             b == Book(fees, o.firstTranche, o.secondTranche,
                       fees + o.firstTranche + o.secondTranche, 0, 0, 0)
  <2>5. o \in Order
    BY EscrowAssumption
  <2>6. /\ fees \in OrderAmounts
        /\ o.firstTranche \in OrderAmounts \ {0} /\ o.secondTranche \in OrderAmounts \ {0}
    BY <2>1, <2>5 DEF OrderAmounts, ValidOrder, Order
  <2>7. BooksOf(t)' = b
    <3>1. trades'[t].status = "LOCKED" /\ \A c \in ClaimType : claimableAccrued'[t][c] = 0
      BY <1>2, <2>3 DEF BecomesTrade
    <3>2. Held(t)' = o.total
      BY <2>1, <3>1 DEF Held
    <3>3. o.total = fees + o.firstTranche + o.secondTranche
      BY <2>1, <2>5 DEF ValidOrder, Order
    <3> QED
      BY <2>1, <3>1, <3>2, <3>3 DEF BooksOf, Book, ClaimType
  <2>8. Books' = [Books EXCEPT ![t] = b]
    <3> HIDE DEF b
    <3> QED
      BY <1>2, <2>7, BooksUpdate
  <2>9. Custody!Deposit(t)
    <3>1. PICK f, first, second :
            /\ f = fees /\ first = o.firstTranche /\ second = o.secondTranche
      OBVIOUS
    <3>2. f \in OrderAmounts /\ first \in OrderAmounts \ {0} /\ second \in OrderAmounts \ {0}
      BY <2>6, <3>1
    <3>3. Books' = [Books EXCEPT ![t] = [fees |-> f, first |-> first, second |-> second,
                                         held |-> f + first + second,
                                         toBuyer |-> 0, toSupplier |-> 0, toTreasury |-> 0]]
      BY <2>8, <3>1 DEF Book
    <3>4. \E g \in OrderAmounts, x, y \in OrderAmounts \ {0} :
            Books' = [Books EXCEPT ![t] = [fees |-> g, first |-> x, second |-> y,
                                           held |-> g + x + y,
                                           toBuyer |-> 0, toSupplier |-> 0, toTreasury |-> 0]]
      BY <3>2, <3>3
    <3> HIDE DEF fees, b
    <3> QED BY <2>4, <3>4 DEF Custody!Deposit, Books
  <2> QED
    BY <2>9 DEF Custody!Next
<1>3. ASSUME NEW t \in TradeIds, Moves(t), OnlyTouches(t), UNCHANGED tradeCounter
      PROVE  [Custody!Next]_Books
  <2> DEFINE p == trades[t]
             fees == p.logisticsAmount + p.platformFeesAmount
             first == p.supplierFirstTranche
             second == p.supplierSecondTranche
  <2>1. t \in Created /\ t \in Created'
    BY <1>3 DEF Moves, Exists, Created
  <2>2. /\ fees \in Nat /\ first \in Nat \ {0} /\ second \in Nat \ {0}
        /\ p.totalAmountLocked = fees + first + second
    BY <2>1, TypeGroups, TradeTermTypes DEF MoneyInv, TypeInv, AmountsAddUp, Created
  <2>3. Books' = [Books EXCEPT ![t] = BooksOf(t)']
    BY <1>3, BooksUpdate
  <2>4. p.status # "CLOSED"
    BY <1>3 DEF Moves, Released, Advanced, Refunded, SecondPaid
  <2>5. Books[t] = BooksOf(t)
    BY DEF Books
  <2>6. CASE trades'[t].status = "CLOSED"
    <3>1. CASE p.status = "LOCKED"
      <4>1. BooksOf(t)' = Book(fees, first, second, 0, fees + first + second, 0, 0)
        BY <1>3, <2>1, <2>2, <2>6, <3>1, ClosedBooks
      <4>2. BooksOf(t) = Book(fees, first, second, fees + first + second, 0, 0, 0)
        BY <2>1, <2>2, <2>4, <3>1, OpenBooks
      <4> HIDE DEF fees, first, second
      <4> QED
        BY <2>2, <2>3, <2>5, <4>1, <4>2, BookSteps
    <3>2. CASE p.status # "LOCKED"
      <4>1. BooksOf(t)' \in {Book(fees, first, second, 0, second, first, fees),
                             Book(fees, first, second, 0, 0, first + second, fees)}
        BY <1>3, <2>1, <2>6, <3>2, ClosedBooks
      <4>2. BooksOf(t) = Book(fees, first, second, second, 0, first, fees)
        BY <2>1, <2>4, <3>2, OpenBooks
      <4> HIDE DEF fees, first, second
      <4> QED
        BY <2>2, <2>3, <2>5, <4>1, <4>2, BookSteps
    <3> QED
      BY <3>1, <3>2
  <2>7. CASE trades'[t].status # "CLOSED"
    <3>1. CASE Released(t)
      <4>1. BooksOf(t) = Book(fees, first, second, fees + first + second, 0, 0, 0)
        BY <2>1, <2>2, <2>4, <3>1, OpenBooks DEF Released
      <4>2. BooksOf(t)' = Book(fees, first, second, second, 0, first, fees)
        BY <2>1, <2>7, <3>1, BooksAfter DEF Released, SameTerms
      <4> HIDE DEF fees, first, second
      <4> QED
        BY <2>2, <2>3, <2>5, <4>1, <4>2, BookSteps
    <3>2. CASE Advanced(t)
      <4>1. BooksOf(t)' = BooksOf(t)
        BY <3>2 DEF Advanced, SameTerms, BooksOf, Held
      <4> QED
        BY <2>3, <2>5, <4>1 DEF Books
    <3> QED
      BY <1>3, <2>7, <3>1, <3>2 DEF Moves, Refunded, SecondPaid
  <2> QED
    BY <2>6, <2>7
<1> QED
  BY <1>0, <1>1, <1>2, <1>3, Zenon DEF MoneyStep

(***************************************************************************)
(* The contract implements TradeCustody: whatever the milestones, timeouts *)
(* and disputes, the money of a trade only makes the moves allowed there,  *)
(* for any number of trades and any orders.                                *)
(***************************************************************************)
THEOREM CustodyImplemented == Spec => ImplementsCustody
<1>1. Init => Custody!Init
  BY DEF Init, TradeInit, Custody!Init, Custody!NoBooks, BooksOf, Held, NoTrade, ClaimType
<1>2. MoneyInv /\ MoneyInv' /\ [Next]_vars => [Custody!Next]_Books
  BY CustodyStep
<1> QED
  BY <1>1, <1>2, MoneyInvariance, PTL DEF Spec, ImplementsCustody, Custody!Spec, Books

-------------------------------------------------------------------------------
(* What one step does to the disputes *)

\* Trade t is decided: it was FROZEN and is CLOSED, and no other trade changes.
ClosesFrozen(t) ==
  /\ trades[t].status = "FROZEN"
  /\ trades'[t].status = "CLOSED"
  /\ \A u \in TradeIds \ {t} : trades'[u] = trades[u]

\* The active entries of the trades other than t stay.
OtherEntriesStay(t) ==
  \A u \in TradeIds \ {t} :
    /\ tradeHasActiveDisputeProposal'[u] = tradeHasActiveDisputeProposal[u]
    /\ tradeActiveDisputeProposalId'[u] = tradeActiveDisputeProposalId[u]

\* Proposal d is cancelled; its other fields stay.
BecomesCancelled(d) ==
  LET p == disputeProposals[d]
      q == disputeProposals'[d]
  IN /\ q.cancelled
     /\ q.tradeId = p.tradeId
     /\ q.executed = p.executed
     /\ q.approvedBy = p.approvedBy
     /\ q.approvalCount = p.approvalCount

\* e is the active proposal of trade t.
IsActive(t, e) == tradeHasActiveDisputeProposal[t] /\ tradeActiveDisputeProposalId[t] = e

\* proposeDisputeSolution: a makes proposal d about the FROZEN trade t.
Proposed(a, t, d) ==
  LET q == disputeProposals'[d] IN
    /\ a \in admins
    /\ Exists(t)
    /\ trades[t].status = "FROZEN"
    /\ d = disputeCounter
    /\ disputeCounter' = d + 1
    /\ \A e \in DisputeIds \ {d} :
         \/ disputeProposals'[e] = disputeProposals[e] /\ ~IsActive(t, e)
         \/ BecomesCancelled(e) /\ IsActive(t, e)
    /\ q.tradeId = t
    /\ q.approvedBy = {a}
    /\ q.approvalCount = 1
    /\ ~q.cancelled
    /\ now <= q.expiresAt
    /\ \/ /\ RequiredApprovals # 1
          /\ ~q.executed
          /\ tradeHasActiveDisputeProposal'[t]
          /\ tradeActiveDisputeProposalId'[t] = d
          /\ trades' = trades
       \/ /\ RequiredApprovals = 1
          /\ q.executed
          /\ ~tradeHasActiveDisputeProposal'[t]
          /\ ClosesFrozen(t)
    /\ OtherEntriesStay(t)

\* approveDisputeSolution: a adds its approval to proposal d.
Approved(a, d) ==
  LET p == disputeProposals[d]
      q == disputeProposals'[d]
      t == p.tradeId
  IN
    /\ a \in admins \ p.approvedBy
    /\ OpenDispute(d)
    /\ UNCHANGED disputeCounter
    /\ \A e \in DisputeIds \ {d} : disputeProposals'[e] = disputeProposals[e]
    /\ q.tradeId = t
    /\ q.approvedBy = p.approvedBy \cup {a}
    /\ q.approvalCount = p.approvalCount + 1
    /\ ~q.cancelled
    /\ now <= q.expiresAt
    /\ \/ /\ q.approvalCount < RequiredApprovals
          /\ ~q.executed
          /\ UNCHANGED <<trades, tradeHasActiveDisputeProposal, tradeActiveDisputeProposalId>>
       \/ /\ q.approvalCount >= RequiredApprovals
          /\ q.executed
          /\ ~tradeHasActiveDisputeProposal'[t]
          /\ ClosesFrozen(t)
          /\ OtherEntriesStay(t)

\* cancelExpiredDisputeProposal: the open proposal d is cancelled.
Dropped(d) ==
  LET t == disputeProposals[d].tradeId IN
    /\ OpenDispute(d)
    /\ UNCHANGED <<trades, disputeCounter>>
    /\ \A e \in DisputeIds \ {d} : disputeProposals'[e] = disputeProposals[e]
    /\ BecomesCancelled(d)
    /\ tradeHasActiveDisputeProposal'[t] => tradeHasActiveDisputeProposal[t] /\ ~IsActive(t, d)
    /\ ~IsActive(t, d) => tradeActiveDisputeProposalId'[t] = tradeActiveDisputeProposalId[t]
    /\ OtherEntriesStay(t)

\* Every other step: no dispute changes, and no trade leaves FROZEN or CLOSED.
DisputesRest ==
  /\ UNCHANGED disputeVars
  /\ \A t \in TradeIds : trades[t].status \in {"FROZEN", "CLOSED"} =>
       trades'[t].status = trades[t].status

\* _executeDispute settles the proposal in the table it gets, and closes its trade.
LEMMA ExecuteDecides ==
  ASSUME RecordTypes, AccountTypes, DisputeTypes,
         NEW table \in [DisputeIds -> DisputeProposal], NEW d \in DisputeIds,
         table[d] \in MadeDispute, ExecuteDispute(table, d)
  PROVE  LET t == table[d].tradeId
             q == disputeProposals'[d]
         IN /\ ClosesFrozen(t)
            /\ tradeCounter' = tradeCounter
            /\ ~table[d].cancelled
            /\ now <= table[d].expiresAt
            /\ table[d].approvalCount >= RequiredApprovals
            /\ q.executed
            /\ q.tradeId = t
            /\ q.approvedBy = table[d].approvedBy
            /\ q.approvalCount = table[d].approvalCount
            /\ q.cancelled = table[d].cancelled
            /\ q.expiresAt = table[d].expiresAt
            /\ \A e \in DisputeIds \ {d} : disputeProposals'[e] = table[e]
            /\ ~tradeHasActiveDisputeProposal'[t]
            /\ OtherEntriesStay(t)
<1> DEFINE t == table[d].tradeId
           refund == table[d].disputeStatus = "REFUND"
           recipient == IF refund THEN trades[t].buyerAddress ELSE trades[t].supplierAddress
           type == IF refund THEN "DISPUTE_REFUND_BUYER" ELSE "DISPUTE_RESOLVE_SUPPLIER"
<1>1. t \in TradeIds /\ type \in ClaimType /\ trades[t].supplierSecondTranche \in Nat
  BY TradeTermTypes DEF MadeDispute, ClaimType
<1>2. /\ Close(t, recipient, trades[t].supplierSecondTranche, type)
      /\ trades[t].status = "FROZEN"
      /\ disputeProposals' = [table EXCEPT ![d] = [table[d] EXCEPT !.executed = TRUE]]
      /\ tradeHasActiveDisputeProposal' = [tradeHasActiveDisputeProposal EXCEPT ![t] = FALSE]
      /\ tradeActiveDisputeProposalId' = [tradeActiveDisputeProposalId EXCEPT ![t] = 0]
      /\ ~table[d].cancelled
      /\ now <= table[d].expiresAt
      /\ table[d].approvalCount >= RequiredApprovals
  BY Zenon DEF ExecuteDispute
<1>3. /\ disputeProposals'[d] = [table[d] EXCEPT !.executed = TRUE]
      /\ \A e \in DisputeIds \ {d} : disputeProposals'[e] = table[e]
  BY <1>2
<1>4. LET q == disputeProposals'[d] IN
        /\ q.executed
        /\ q.tradeId = t
        /\ q.approvedBy = table[d].approvedBy
        /\ q.approvalCount = table[d].approvalCount
        /\ q.cancelled = table[d].cancelled
        /\ q.expiresAt = table[d].expiresAt
  BY <1>3 DEF MadeDispute
<1> HIDE DEF t, recipient, type
<1>5. /\ trades'[t].status = "CLOSED"
      /\ OnlyTouches(t)
      /\ tradeCounter' = tradeCounter
  BY <1>1, <1>2, CloseEffect
<1>6. ~tradeHasActiveDisputeProposal'[t] /\ OtherEntriesStay(t)
  BY <1>1, <1>2 DEF DisputeTypes, OtherEntriesStay
<1>7. ClosesFrozen(t)
  BY <1>2, <1>5 DEF ClosesFrozen, OnlyTouches
<1> QED
  BY <1>2, <1>3, <1>4, <1>5, <1>6, <1>7, Zenon DEF t

\* Cancelling the expired active proposal of t changes that entry alone.
LEMMA WithoutExpiredEffect ==
  ASSUME DisputeTypes, ActiveIsMade, NEW t \in TradeIds, NEW e \in DisputeIds
  PROVE  LET p == disputeProposals[e]
             q == WithoutExpired(t)[e]
         IN \/ q = p /\ ~IsActive(t, e)
            \/ /\ IsActive(t, e)
               /\ q.cancelled
               /\ q.tradeId = p.tradeId
               /\ q.executed = p.executed
               /\ q.approvedBy = p.approvedBy
               /\ q.approvalCount = p.approvalCount
<1>1. CASE ~tradeHasActiveDisputeProposal[t]
  BY <1>1 DEF WithoutExpired, IsActive
<1>2. CASE tradeHasActiveDisputeProposal[t]
  <2> DEFINE d == tradeActiveDisputeProposalId[t]
             r == [disputeProposals[d] EXCEPT !.cancelled = TRUE]
  <2>1. WithoutExpired(t) = [disputeProposals EXCEPT ![d] = r]
    BY <1>2, Zenon DEF WithoutExpired
  <2>2. d \in DisputeIds /\ disputeProposals[d] \in MadeDispute
    BY <1>2 DEF ActiveIsMade
  <2>3. CASE e = d
    <3>1. WithoutExpired(t)[e] = r
      BY <2>1, <2>2, <2>3 DEF DisputeTypes
    <3> QED
      BY <1>2, <2>2, <2>3, <3>1 DEF IsActive, MadeDispute
  <2>4. CASE e # d
    BY <1>2, <2>1, <2>4 DEF DisputeTypes, IsActive
  <2> QED
    BY <2>3, <2>4
<1> QED
  BY <1>1, <1>2

LEMMA ProposeEffect ==
  ASSUME TypeInv, NEW a \in Accounts, NEW t \in TradeIds, NEW ds \in DisputeStatus,
         proposeDisputeSolution(a, t, ds)
  PROVE  /\ disputeCounter \in DisputeIds
         /\ Proposed(a, t, disputeCounter)
         /\ UNCHANGED tradeCounter
<1> DEFINE d == disputeCounter
           q == [tradeId |-> t, disputeStatus |-> ds,
                 approvedBy |-> {a}, approvalCount |-> 1,
                 executed |-> FALSE, cancelled |-> FALSE,
                 createdAt |-> now, expiresAt |-> now + DisputeProposalTTL]
           table == [WithoutExpired(t) EXCEPT ![d] = q]
<1>0. GovTypeOK /\ RecordTypes /\ DisputeTypes /\ AccountTypes /\ ActiveIsMade
  BY TypeGroups DEF TypeInv
<1>1. d \in DisputeIds /\ d \in Nat
  BY <1>0, EscrowAssumption DEF proposeDisputeSolution, DisputeTypes, DisputeIds
<1>2. q \in MadeDispute /\ now <= q.expiresAt
  BY <1>0, EscrowAssumption DEF MadeDispute, GovTypeOK
<1>3. /\ a \in admins
      /\ Exists(t)
      /\ trades[t].status = "FROZEN"
      /\ disputeCounter' = d + 1
      /\ \/ RequiredApprovals = 1 /\ ExecuteDispute(table, d)
         \/ /\ RequiredApprovals # 1
            /\ disputeProposals' = table
            /\ tradeHasActiveDisputeProposal' = [tradeHasActiveDisputeProposal EXCEPT ![t] = TRUE]
            /\ tradeActiveDisputeProposalId' = [tradeActiveDisputeProposalId EXCEPT ![t] = d]
            /\ UNCHANGED tradeRecordVars
  BY Zenon DEF proposeDisputeSolution
<1>4. /\ q.tradeId = t /\ q.approvedBy = {a} /\ q.approvalCount = 1
      /\ ~q.executed /\ ~q.cancelled
  OBVIOUS
<1> HIDE DEF q
<1>5. WithoutExpired(t) \in [DisputeIds -> DisputeProposal]
  BY <1>0, WithoutExpiredType
<1> HIDE DEF d
<1>6. /\ table \in [DisputeIds -> DisputeProposal]
      /\ table[d] = q
      /\ \A e \in DisputeIds \ {d} : table[e] = WithoutExpired(t)[e]
  BY <1>1, <1>2, <1>5 DEF DisputeProposal
<1> HIDE DEF table
<1>7. ASSUME \A e \in DisputeIds \ {d} : disputeProposals'[e] = table[e]
      PROVE  \A e \in DisputeIds \ {d} :
               \/ disputeProposals'[e] = disputeProposals[e] /\ ~IsActive(t, e)
               \/ BecomesCancelled(e) /\ IsActive(t, e)
  <2> SUFFICES ASSUME NEW e \in DisputeIds \ {d}
               PROVE  \/ disputeProposals'[e] = disputeProposals[e] /\ ~IsActive(t, e)
                      \/ BecomesCancelled(e) /\ IsActive(t, e)
    OBVIOUS
  <2>1. disputeProposals'[e] = WithoutExpired(t)[e]
    BY <1>6, <1>7
  <2> QED
    BY <1>0, <2>1, WithoutExpiredEffect DEF BecomesCancelled
<1>8. CASE RequiredApprovals = 1 /\ ExecuteDispute(table, d)
  <2>1. LET r == disputeProposals'[d] IN
          /\ ClosesFrozen(t)
          /\ tradeCounter' = tradeCounter
          /\ r.executed
          /\ r.tradeId = t
          /\ r.approvedBy = {a}
          /\ r.approvalCount = 1
          /\ ~r.cancelled
          /\ r.expiresAt = q.expiresAt
          /\ \A e \in DisputeIds \ {d} : disputeProposals'[e] = table[e]
          /\ ~tradeHasActiveDisputeProposal'[t]
          /\ OtherEntriesStay(t)
    BY <1>0, <1>1, <1>2, <1>4, <1>6, <1>8, ExecuteDecides
  <2>2. \A e \in DisputeIds \ {d} :
          \/ disputeProposals'[e] = disputeProposals[e] /\ ~IsActive(t, e)
          \/ BecomesCancelled(e) /\ IsActive(t, e)
    BY <1>7, <2>1
  <2>3. now <= disputeProposals'[d].expiresAt
    BY <1>2, <2>1
  <2>4. d = disputeCounter
    BY DEF d
  <2>5. Proposed(a, t, d)
    BY <1>3, <1>8, <2>1, <2>2, <2>3, <2>4 DEF Proposed
  <2> QED
    BY <1>1, <2>1, <2>4, <2>5
<1>9. CASE /\ RequiredApprovals # 1
           /\ disputeProposals' = table
           /\ tradeHasActiveDisputeProposal' = [tradeHasActiveDisputeProposal EXCEPT ![t] = TRUE]
           /\ tradeActiveDisputeProposalId' = [tradeActiveDisputeProposalId EXCEPT ![t] = d]
           /\ UNCHANGED tradeRecordVars
  <2>1. /\ tradeHasActiveDisputeProposal'[t]
        /\ tradeActiveDisputeProposalId'[t] = d
        /\ OtherEntriesStay(t)
    BY <1>0, <1>9 DEF DisputeTypes, OtherEntriesStay
  <2>2. \A e \in DisputeIds \ {d} :
          \/ disputeProposals'[e] = disputeProposals[e] /\ ~IsActive(t, e)
          \/ BecomesCancelled(e) /\ IsActive(t, e)
    BY <1>7, <1>9
  <2>3. disputeProposals'[d] = q /\ UNCHANGED <<trades, tradeCounter>>
    BY <1>6, <1>9
  <2>4. d = disputeCounter
    BY DEF d
  <2>5. Proposed(a, t, d)
    BY <1>2, <1>3, <1>4, <1>9, <2>1, <2>2, <2>3, <2>4 DEF Proposed
  <2> QED
    BY <1>1, <2>3, <2>4, <2>5
<1> QED
  BY <1>3, <1>8, <1>9 DEF d, table, q

LEMMA ApproveDisputeEffect ==
  ASSUME TypeInv, NEW a \in Accounts, NEW d \in DisputeIds, approveDisputeSolution(a, d)
  PROVE  Approved(a, d) /\ UNCHANGED tradeCounter /\ disputeProposals[d] \in MadeDispute
<1> DEFINE p == disputeProposals[d]
           q == [p EXCEPT !.approvedBy = @ \cup {a}, !.approvalCount = @ + 1]
           table == [disputeProposals EXCEPT ![d] = q]
<1>0. RecordTypes /\ DisputeTypes /\ AccountTypes
  BY TypeGroups DEF TypeInv
<1>1. /\ a \in admins
      /\ LiveDispute(d)
      /\ now <= p.expiresAt
      /\ a \notin p.approvedBy
      /\ UNCHANGED disputeCounter
      /\ \/ /\ table[d].approvalCount >= RequiredApprovals
            /\ ExecuteDispute(table, d)
         \/ /\ table[d].approvalCount < RequiredApprovals
            /\ disputeProposals' = table
            /\ UNCHANGED tradeRecordVars
            /\ UNCHANGED tradeHasActiveDisputeProposal
            /\ UNCHANGED tradeActiveDisputeProposalId
  BY Zenon DEF approveDisputeSolution
<1>2. p \in MadeDispute
  <2>1. p \in DisputeProposal /\ p.createdAt > 0
    BY <1>0, <1>1 DEF DisputeTypes, LiveDispute
  <2> HIDE DEF p
  <2> QED
    BY <2>1, DisputeIsMade
<1>3. q \in MadeDispute
  BY <1>2, UpdatedDispute, Zenon
<1>4. /\ q.approvedBy = p.approvedBy \cup {a}
      /\ q.approvalCount = p.approvalCount + 1
      /\ q.tradeId = p.tradeId
      /\ q.executed = p.executed
      /\ q.cancelled = p.cancelled
      /\ q.expiresAt = p.expiresAt
  BY <1>2 DEF MadeDispute
<1>5. OpenDispute(d) /\ ~p.executed /\ ~p.cancelled
  BY <1>1 DEF LiveDispute, OpenDispute
<1> HIDE DEF q
<1>6. /\ table \in [DisputeIds -> DisputeProposal]
      /\ table[d] = q
      /\ \A e \in DisputeIds \ {d} : table[e] = disputeProposals[e]
  BY <1>0, <1>3 DEF DisputeTypes, DisputeProposal
<1> HIDE DEF table, p
<1>7. CASE table[d].approvalCount >= RequiredApprovals /\ ExecuteDispute(table, d)
  <2>1. LET r == disputeProposals'[d] IN
          /\ ClosesFrozen(q.tradeId)
          /\ tradeCounter' = tradeCounter
          /\ r.executed
          /\ r.tradeId = q.tradeId
          /\ r.approvedBy = q.approvedBy
          /\ r.approvalCount = q.approvalCount
          /\ r.cancelled = q.cancelled
          /\ r.expiresAt = q.expiresAt
          /\ \A e \in DisputeIds \ {d} : disputeProposals'[e] = table[e]
          /\ ~tradeHasActiveDisputeProposal'[q.tradeId]
          /\ OtherEntriesStay(q.tradeId)
    BY <1>0, <1>3, <1>6, <1>7, ExecuteDecides
  <2> QED
    BY <1>1, <1>2, <1>4, <1>5, <1>6, <1>7, <2>1 DEF Approved, p
<1>8. CASE /\ table[d].approvalCount < RequiredApprovals
           /\ disputeProposals' = table
           /\ UNCHANGED tradeRecordVars
           /\ UNCHANGED tradeHasActiveDisputeProposal
           /\ UNCHANGED tradeActiveDisputeProposalId
  <2>1. disputeProposals'[d] = q /\ UNCHANGED <<trades, tradeCounter>>
    BY <1>6, <1>8
  <2>2. \A e \in DisputeIds \ {d} : disputeProposals'[e] = disputeProposals[e]
    BY <1>6, <1>8
  <2>3. p = disputeProposals[d]
    BY DEF p
  <2>4. Approved(a, d)
    BY <1>1, <1>4, <1>5, <1>6, <1>8, <2>1, <2>2, <2>3 DEF Approved
  <2> QED
    BY <1>2, <2>1, <2>3, <2>4
<1> QED
  BY <1>1, <1>7, <1>8

LEMMA CancelDisputeEffect ==
  ASSUME TypeInv, NEW a \in Accounts, NEW d \in DisputeIds,
         cancelExpiredDisputeProposal(a, d)
  PROVE  Dropped(d) /\ UNCHANGED tradeCounter /\ disputeProposals[d] \in MadeDispute
<1> DEFINE p == disputeProposals[d]
           t == p.tradeId
           q == [p EXCEPT !.cancelled = TRUE]
           current == tradeHasActiveDisputeProposal[t] /\ tradeActiveDisputeProposalId[t] = d
<1>0. DisputeTypes
  BY TypeGroups DEF TypeInv
<1>1. /\ LiveDispute(d)
      /\ disputeProposals' = [disputeProposals EXCEPT ![d] = q]
      /\ tradeHasActiveDisputeProposal' =
           [tradeHasActiveDisputeProposal EXCEPT
              ![t] = tradeHasActiveDisputeProposal[t] /\ ~current]
      /\ tradeActiveDisputeProposalId' =
           [tradeActiveDisputeProposalId EXCEPT
              ![t] = IF current THEN 0 ELSE tradeActiveDisputeProposalId[t]]
      /\ UNCHANGED tradeRecordVars
      /\ UNCHANGED disputeCounter
  BY Zenon DEF cancelExpiredDisputeProposal
<1>2. p \in MadeDispute
  <2>1. p \in DisputeProposal /\ p.createdAt > 0
    BY <1>0, <1>1 DEF DisputeTypes, LiveDispute
  <2> HIDE DEF p
  <2> QED
    BY <2>1, DisputeIsMade
<1>3. /\ disputeProposals'[d] = q
      /\ \A e \in DisputeIds \ {d} : disputeProposals'[e] = disputeProposals[e]
  BY <1>0, <1>1 DEF DisputeTypes
<1>4. BecomesCancelled(d)
  BY <1>2, <1>3 DEF BecomesCancelled, MadeDispute
<1>5. t \in TradeIds
  BY <1>2 DEF MadeDispute
<1> HIDE DEF t, q
<1>6. OtherEntriesStay(t)
  BY <1>0, <1>1, <1>5 DEF DisputeTypes, OtherEntriesStay
<1>7. tradeHasActiveDisputeProposal'[t] = (tradeHasActiveDisputeProposal[t] /\ ~current)
  BY <1>0, <1>1, <1>5 DEF DisputeTypes
<1>8. ~current => tradeActiveDisputeProposalId'[t] = tradeActiveDisputeProposalId[t]
  BY <1>0, <1>1, <1>5 DEF DisputeTypes
<1>9. current <=> IsActive(t, d)
  BY DEF IsActive
<1>10. OpenDispute(d)
  BY <1>1 DEF LiveDispute, OpenDispute
<1>11. UNCHANGED <<trades, tradeCounter, disputeCounter>> /\ t = disputeProposals[d].tradeId
  BY <1>1 DEF t
<1>12. Dropped(d)
  BY <1>3, <1>4, <1>6, <1>7, <1>8, <1>9, <1>10, <1>11 DEF Dropped
<1> QED
  BY <1>2, <1>11, <1>12

\* A step that moves the status of trade t alone, out of a status before FROZEN.
LEMMA EarlyMoveRests ==
  ASSUME NEW t \in TradeIds, trades[t].status \notin {"FROZEN", "CLOSED"},
         \A u \in TradeIds \ {t} : trades'[u] = trades[u], UNCHANGED disputeVars
  PROVE  DisputesRest
  BY DEF DisputesRest

LEMMA SimpleCloseRests ==
  ASSUME TypeOK, NEW s, NEW t \in TradeIds, SimpleClose(s, t)
  PROVE  DisputesRest /\ UNCHANGED tradeCounter
<1>0. RecordTypes /\ AccountTypes
  BY TypeGroups
<1>1. /\ \E r : \E n \in Nat, c \in ClaimType : Close(t, r, n, c)
      /\ UNCHANGED <<tradeCounter, disputeVars>>
  BY <1>0, SimpleCloseEffect
<1>2. OnlyTouches(t)
  BY <1>0, <1>1, CloseEffect
<1>3. trades[t].status \in {"LOCKED", "IN_TRANSIT", "ARRIVAL_CONFIRMED"}
  BY Zenon DEF SimpleClose, finalizeAfterDisputeWindow, AcceptsFinalization, cancelLockedTradeAfterTimeout,
               refundInTransitAfterTimeout
<1> QED
  BY <1>1, <1>2, <1>3, EarlyMoveRests DEF OnlyTouches

\* Each step is one of the three operations on disputes or leaves the disputes alone.
LEMMA DisputeStep ==
  ASSUME TypeInv, FreshTrades, [Next]_vars
  PROVE  \/ DisputesRest /\ tradeCounter' \in {tradeCounter, tradeCounter + 1}
         \/ /\ UNCHANGED tradeCounter
            /\ \/ \E a \in Accounts, t \in TradeIds, d \in DisputeIds : Proposed(a, t, d)
               \/ \E a \in Accounts, d \in DisputeIds :
                    Approved(a, d) /\ disputeProposals[d] \in MadeDispute
               \/ \E d \in DisputeIds : Dropped(d) /\ disputeProposals[d] \in MadeDispute
<1> DEFINE Rests == DisputesRest /\ tradeCounter' \in {tradeCounter, tradeCounter + 1}
<1>0. TypeOK /\ RecordTypes /\ AccountTypes
  BY TypeGroups DEF TypeInv
<1>1. ASSUME Clock \/ AdminStep \/ UNCHANGED vars
      PROVE  Rests
  <2>1. UNCHANGED tradeVars
    BY <1>1, Zenon DEF Clock, AdminStep
  <2> QED
    BY <2>1 DEF DisputesRest
<1>2. ASSUME NEW i, NEW r, PayOut(i, r)
      PROVE  Rests
  <2>1. UNCHANGED <<tradeRecordVars, disputeVars>>
    BY <1>2, Zenon DEF PayOut
  <2> QED
    BY <2>1 DEF DisputesRest
<1>3. ASSUME NEW s \in Accounts, NEW t \in TradeIds, releaseFundsStage1(s, t)
      PROVE  Rests
  <2>1. /\ trades[t].status = "LOCKED"
        /\ trades' = [trades EXCEPT ![t] = [trades[t] EXCEPT !.status = "IN_TRANSIT"]]
        /\ UNCHANGED <<tradeCounter, disputeVars>>
    BY <1>3, Zenon DEF releaseFundsStage1
  <2>2. \A u \in TradeIds \ {t} : trades'[u] = trades[u]
    BY <1>0, <2>1 DEF RecordTypes
  <2> QED
    BY <2>1, <2>2, EarlyMoveRests
<1>4. ASSUME NEW s \in Accounts, NEW t \in TradeIds, confirmArrival(s, t)
      PROVE  Rests
  <2>1. /\ trades[t].status = "IN_TRANSIT"
        /\ trades' = [trades EXCEPT ![t].status = "ARRIVAL_CONFIRMED",
                                   ![t].arrivalTimestamp = now]
        /\ UNCHANGED <<tradeCounter, disputeVars>>
    BY <1>4, Zenon DEF confirmArrival
  <2>2. \A u \in TradeIds \ {t} : trades'[u] = trades[u]
    BY <1>0, <2>1 DEF RecordTypes
  <2> QED
    BY <2>1, <2>2, EarlyMoveRests
<1>5. ASSUME NEW s \in Accounts, NEW t \in TradeIds, openDispute(s, t)
      PROVE  Rests
  <2>1. /\ trades[t].status = "ARRIVAL_CONFIRMED"
        /\ trades' = [trades EXCEPT ![t] = [trades[t] EXCEPT !.status = "FROZEN"]]
        /\ UNCHANGED <<tradeCounter, disputeVars>>
    BY <1>5, Zenon DEF openDispute, AcceptsDispute
  <2>2. \A u \in TradeIds \ {t} : trades'[u] = trades[u]
    BY <1>0, <2>1 DEF RecordTypes
  <2> QED
    BY <2>1, <2>2, EarlyMoveRests
<1>6. ASSUME NEW s, NEW t \in TradeIds, SimpleClose(s, t)
      PROVE  Rests
  BY <1>0, <1>6, SimpleCloseRests
<1>7. ASSUME NEW s \in Accounts, NEW o \in Orders, NEW n \in 0 .. MaxTrades,
             NEW dl \in {now - 1, now}, NEW sg \in Accounts, createTrade(s, o, n, dl, sg)
      PROVE  Rests
  <2> DEFINE t == tradeCounter
  <2>1. /\ t < MaxTrades
        /\ tradeCounter' = tradeCounter + 1
        /\ \E r : trades' = [trades EXCEPT ![t] = r]
        /\ UNCHANGED disputeVars
    BY <1>7, Zenon DEF createTrade, AcceptsTrade
  <2>2. t \in TradeIds /\ ~Exists(t)
    BY <1>0, <2>1, EscrowAssumption DEF RecordTypes, TradeIds, Exists
  <2>3. trades[t].status = "LOCKED"
    BY <2>2 DEF FreshTrades, NoTrade
  <2>4. \A u \in TradeIds \ {t} : trades'[u] = trades[u]
    BY <1>0, <2>1 DEF RecordTypes
  <2>5. DisputesRest
    BY <2>1, <2>2, <2>3, <2>4, EarlyMoveRests
  <2> QED
    BY <2>1, <2>5
<1>8. ASSUME NEW s \in Accounts, NEW t \in TradeIds, TradeStep(s, t)
      PROVE  \/ Rests
             \/ /\ UNCHANGED tradeCounter
                /\ \E d \in DisputeIds : Proposed(s, t, d)
  BY <1>3, <1>4, <1>5, <1>6, <1>8, ProposeEffect DEF TradeStep, SimpleClose
<1>9. ASSUME NEW t \in TradeIds, finalizeAfterDisputeWindow(t)
      PROVE  Rests
  BY <1>6, <1>9 DEF SimpleClose
<1>10. ASSUME NEW s \in Accounts, NEW d \in DisputeIds,
              approveDisputeSolution(s, d) \/ cancelExpiredDisputeProposal(s, d)
       PROVE  /\ UNCHANGED tradeCounter
              /\ disputeProposals[d] \in MadeDispute
              /\ Approved(s, d) \/ Dropped(d)
  BY <1>10, ApproveDisputeEffect, CancelDisputeEffect
<1>11. CASE \/ \E s \in Accounts, t \in TradeIds : TradeStep(s, t)
            \/ \E s \in Accounts, d \in DisputeIds :
                 approveDisputeSolution(s, d) \/ cancelExpiredDisputeProposal(s, d)
  BY <1>8, <1>10, <1>11, Zenon
<1>12. Rests \/ \/ \E s \in Accounts, t \in TradeIds : TradeStep(s, t)
                \/ \E s \in Accounts, d \in DisputeIds :
                     approveDisputeSolution(s, d) \/ cancelExpiredDisputeProposal(s, d)
  <2> HIDE DEF Rests
  <2>1. CASE Clock \/ AdminStep \/ UNCHANGED vars
    BY <1>1, <2>1 DEF Rests
  <2>2. CASE (\E s \in Accounts : claim(s)) \/ claimTreasury
    BY <1>2, <2>2, Zenon DEF claim, claimTreasury
  <2>3. CASE \E s \in Accounts, o \in Orders, n \in 0 .. MaxTrades,
               dl \in {now - 1, now}, sg \in Accounts : createTrade(s, o, n, dl, sg)
    BY <1>7, <2>3, Zenon
  <2>4. CASE \E t \in TradeIds : finalizeAfterDisputeWindow(t)
    BY <1>9, <2>4, Zenon
  <2> QED
    BY <2>1, <2>2, <2>3, <2>4, Zenon DEF Next
<1> QED
  BY <1>11, <1>12

-------------------------------------------------------------------------------
(* The inductive invariant *)

\* Proposals that were not made yet are untouched storage.
FreshDisputes ==
  \A d \in DisputeIds : ~(d < disputeCounter) => disputeProposals[d] = NoDispute

(***************************************************************************)
(* Neither property of the disputes is inductive alone: that the trade of  *)
(* an executed proposal stays CLOSED takes FreshTrades (createTrade writes *)
(* an entry that held no settled trade), that a new proposal overwrites no *)
(* open one takes FreshDisputes, and that the approvals are admins takes   *)
(* the invariant of the governance.                                        *)
(***************************************************************************)
DisputeInv == MoneyInv /\ GovInv /\ FreshDisputes /\ OneOpenDispute /\ DisputeQuorum

\* An executed proposal was made, for a trade the contract has an entry for.
LEMMA ExecutedIsMade ==
  ASSUME DisputeTypes, NEW d \in DisputeIds, disputeProposals[d].executed
  PROVE  disputeProposals[d].tradeId \in TradeIds
  BY DEF DisputeTypes, DisputeProposal, NoDispute, MadeDispute

LEMMA FreshDisputesStep ==
  ASSUME DisputeTypes, FreshDisputes, TypeInv, FreshTrades, OneOpenDispute, [Next]_vars
  PROVE  FreshDisputes'
<1>0. disputeCounter \in Nat /\ DisputeIds \subseteq Nat
  BY EscrowAssumption DEF DisputeTypes, DisputeIds
<1>1. CASE DisputesRest
  BY <1>1 DEF DisputesRest, FreshDisputes
<1>2. ASSUME NEW a, NEW t \in TradeIds, NEW d \in DisputeIds, Proposed(a, t, d)
      PROVE  FreshDisputes'
  <2> SUFFICES ASSUME NEW e \in DisputeIds, ~(e < disputeCounter')
               PROVE  disputeProposals'[e] = NoDispute
    BY DEF FreshDisputes
  <2>1. e # d /\ ~(e < disputeCounter)
    BY <1>0, <1>2 DEF Proposed
  <2>2. ~IsActive(t, e)
    BY <2>1 DEF OneOpenDispute, OpenDispute, IsActive
  <2> QED
    BY <1>2, <2>1, <2>2 DEF Proposed, FreshDisputes
<1>3. ASSUME NEW d \in DisputeIds, OpenDispute(d), UNCHANGED disputeCounter,
             \A e \in DisputeIds \ {d} : disputeProposals'[e] = disputeProposals[e]
      PROVE  FreshDisputes'
  BY <1>3 DEF OpenDispute, FreshDisputes
<1>4. ASSUME NEW a, NEW d \in DisputeIds, Approved(a, d)
      PROVE  FreshDisputes'
  BY <1>3, <1>4 DEF Approved
<1>5. ASSUME NEW d \in DisputeIds, Dropped(d)
      PROVE  FreshDisputes'
  BY <1>3, <1>5 DEF Dropped
<1> QED
  BY <1>1, <1>2, <1>4, <1>5, DisputeStep

\* A step that leaves the disputes alone keeps both properties.
LEMMA RestKeepsDisputes ==
  ASSUME DisputeInv, DisputesRest, admins \subseteq admins',
         tradeCounter' \in {tradeCounter, tradeCounter + 1}
  PROVE  OneOpenDispute' /\ DisputeQuorum'
<1>0. DisputeTypes /\ tradeCounter \in Nat /\ TradeIds \subseteq Nat
  BY TypeGroups, EscrowAssumption DEF DisputeInv, MoneyInv, TypeInv, RecordTypes, TradeIds
<1>1. UNCHANGED disputeVars
  BY DEF DisputesRest
<1>2. ASSUME NEW t \in Created PROVE t \in Created'
  <2>1. t \in Nat /\ t < tradeCounter
    BY <1>0 DEF Created
  <2>2. t < tradeCounter'
    BY <1>0, <2>1
  <2> QED
    BY <2>2 DEF Created
<1>3. OneOpenDispute'
  <2>1. \A d \in DisputeIds : OpenDispute(d)' => OpenDispute(d)
    BY <1>1 DEF OpenDispute
  <2>2. \A d \in DisputeIds : OpenDispute(d) => OpenDispute(d)'
    BY <1>1 DEF OpenDispute
  <2>3. ASSUME NEW t \in Created, trades[t].status = "FROZEN"
        PROVE  trades'[t].status = "FROZEN"
    BY <2>3 DEF DisputesRest, Created
  <2> QED
    BY <1>1, <1>2, <2>1, <2>2, <2>3 DEF DisputeInv, OneOpenDispute
<1>4. DisputeQuorum'
  <2> SUFFICES ASSUME NEW d \in DisputeIds
               PROVE  LET p == disputeProposals'[d] IN
                        /\ p.approvedBy \subseteq admins'
                        /\ p.approvalCount = Cardinality(p.approvedBy)
                        /\ p.executed => /\ ~p.cancelled
                                         /\ p.approvalCount >= RequiredApprovals
                                         /\ trades'[p.tradeId].status = "CLOSED"
                        /\ OpenDispute(d)' => p.approvalCount < RequiredApprovals
    BY DEF DisputeQuorum
  <2>1. disputeProposals[d].executed => disputeProposals[d].tradeId \in TradeIds
    BY <1>0, ExecutedIsMade
  <2>2. OpenDispute(d)' => OpenDispute(d)
    BY <1>1 DEF OpenDispute
  <2> QED
    BY <1>1, <2>1, <2>2 DEF DisputeInv, DisputeQuorum, DisputesRest
<1> QED
  BY <1>3, <1>4

\* What a proposal must be, pointwise, for the two properties to hold after a step.
QuorumBehind(d) ==
  LET p == disputeProposals[d] IN
    /\ p.approvedBy \subseteq admins
    /\ p.approvalCount = Cardinality(p.approvedBy)
    /\ p.executed => /\ ~p.cancelled
                     /\ p.approvalCount >= RequiredApprovals
                     /\ trades[p.tradeId].status = "CLOSED"
    /\ OpenDispute(d) => p.approvalCount < RequiredApprovals

OpenIsActive(d) ==
  LET t == disputeProposals[d].tradeId IN
    OpenDispute(d) =>
      /\ t \in Created
      /\ trades[t].status = "FROZEN"
      /\ IsActive(t, d)

ActiveIsOpen(t) ==
  LET d == tradeActiveDisputeProposalId[t] IN
    tradeHasActiveDisputeProposal[t] =>
      /\ d \in DisputeIds
      /\ OpenDispute(d)
      /\ disputeProposals[d].tradeId = t

LEMMA DisputesPointwise ==
  /\ OneOpenDispute <=> /\ \A d \in DisputeIds : OpenIsActive(d)
                        /\ \A t \in TradeIds : ActiveIsOpen(t)
  /\ DisputeQuorum <=> \A d \in DisputeIds : QuorumBehind(d)
  BY Zenon DEF OneOpenDispute, DisputeQuorum, OpenIsActive, ActiveIsOpen, QuorumBehind, IsActive

LEMMA PointwiseAfter ==
  ASSUME \A d \in DisputeIds : QuorumBehind(d)' /\ OpenIsActive(d)',
         \A t \in TradeIds : ActiveIsOpen(t)'
  PROVE  OneOpenDispute' /\ DisputeQuorum'
  BY Zenon DEF OneOpenDispute, DisputeQuorum, OpenIsActive, ActiveIsOpen, QuorumBehind, IsActive

\* A proposal that the step leaves as it is, about a trade that it leaves as it is.
LEMMA BystanderDispute ==
  ASSUME DisputeTypes, admins \subseteq admins', tradeCounter' = tradeCounter,
         NEW d \in DisputeIds, disputeProposals'[d] = disputeProposals[d],
         QuorumBehind(d), OpenIsActive(d), OpenDispute(d)' => OpenDispute(d),
         NEW t \in TradeIds,
         t # disputeProposals[d].tradeId \/ trades'[t] = trades[t],
         \A u \in TradeIds \ {t} : trades'[u] = trades[u]
  PROVE  /\ QuorumBehind(d)'
         /\ t # disputeProposals[d].tradeId /\ OtherEntriesStay(t) => OpenIsActive(d)'
<1> DEFINE u == disputeProposals[d].tradeId
<1>1. disputeProposals[d].executed => u \in TradeIds
  BY ExecutedIsMade
<1>2. u \in TradeIds => trades'[u] = trades[u]
  OBVIOUS
<1>3. QuorumBehind(d)'
  BY <1>1, <1>2 DEF QuorumBehind
<1>4. Created' = Created
  BY DEF Created
<1>5. ASSUME t # u, OtherEntriesStay(t)
      PROVE  OpenIsActive(d)'
  <2> SUFFICES ASSUME OpenDispute(d)'
               PROVE  /\ u \in Created'
                      /\ trades'[u].status = "FROZEN"
                      /\ tradeHasActiveDisputeProposal'[u]
                      /\ tradeActiveDisputeProposalId'[u] = d
    BY DEF OpenIsActive, IsActive
  <2>1. u \in Created /\ trades[u].status = "FROZEN" /\ IsActive(u, d)
    BY DEF OpenIsActive
  <2>2. u \in TradeIds
    BY <2>1 DEF Created
  <2> QED
    BY <1>2, <1>4, <1>5, <2>1, <2>2 DEF OtherEntriesStay, IsActive
<1> QED
  BY <1>3, <1>5

LEMMA ProposedKeeps ==
  ASSUME DisputeInv, admins \subseteq admins', tradeCounter' = tradeCounter,
         NEW a \in Accounts, NEW t \in TradeIds, NEW d \in DisputeIds, Proposed(a, t, d)
  PROVE  OneOpenDispute' /\ DisputeQuorum'
<1>0. /\ DisputeTypes
      /\ disputeCounter \in Nat /\ DisputeIds \subseteq Nat
      /\ RequiredApprovals \in Nat \ {0}
      /\ trades[t].status = "FROZEN" /\ t \in Created
      /\ d = disputeCounter /\ disputeCounter' = d + 1
      /\ \A u \in TradeIds \ {t} : trades'[u] = trades[u]
      /\ OtherEntriesStay(t)
  BY TypeGroups, EscrowAssumption, GovernanceAssumption
     DEF DisputeInv, MoneyInv, TypeInv, DisputeTypes, DisputeIds, Proposed, ClosesFrozen,
         Created, Exists
<1>1. /\ \A e \in DisputeIds : QuorumBehind(e) /\ OpenIsActive(e)
      /\ \A u \in TradeIds : ActiveIsOpen(u)
  BY DisputesPointwise DEF DisputeInv
<1>2. ASSUME NEW e \in DisputeIds \ {d}
      PROVE  /\ OpenDispute(e)' => OpenDispute(e) /\ ~IsActive(t, e)
             /\ OpenDispute(e) /\ ~IsActive(t, e) => OpenDispute(e)'
    BY <1>0 DEF Proposed, OpenDispute, BecomesCancelled
<1>3. ASSUME NEW e \in DisputeIds \ {d}
      PROVE  QuorumBehind(e)' /\ OpenIsActive(e)'
  <2>1. CASE disputeProposals'[e] = disputeProposals[e] /\ ~IsActive(t, e)
    <3>1. \/ t # disputeProposals[e].tradeId
          \/ ~disputeProposals[e].executed /\ ~OpenDispute(e)
      <4> SUFFICES ASSUME t = disputeProposals[e].tradeId
                   PROVE  ~disputeProposals[e].executed /\ ~OpenDispute(e)
        OBVIOUS
      <4>1. QuorumBehind(e) /\ OpenIsActive(e)
        BY <1>1
      <4>2. ~disputeProposals[e].executed
        BY <1>0, <4>1 DEF QuorumBehind
      <4>3. ~OpenDispute(e)
        BY <2>1, <4>1 DEF OpenIsActive
      <4> QED
        BY <4>2, <4>3
    <3>2. CASE t # disputeProposals[e].tradeId
      <4>1. QuorumBehind(e) /\ OpenIsActive(e) /\ (OpenDispute(e)' => OpenDispute(e))
        BY <1>1, <1>2
      <4> QED
        BY <1>0, <2>1, <3>2, <4>1, BystanderDispute
    <3>3. CASE ~disputeProposals[e].executed /\ ~OpenDispute(e)
      BY <1>1, <1>2, <2>1, <3>3 DEF QuorumBehind, OpenIsActive
    <3> QED
      BY <3>1, <3>2, <3>3
  <2>2. CASE BecomesCancelled(e) /\ IsActive(t, e)
    <3>1. ~disputeProposals[e].executed
      BY <1>1, <2>2 DEF ActiveIsOpen, OpenDispute, IsActive
    <3>2. ~OpenDispute(e)'
      BY <2>2 DEF BecomesCancelled, OpenDispute
    <3> QED
      BY <1>1, <2>2, <3>1, <3>2 DEF QuorumBehind, OpenIsActive, BecomesCancelled
  <2> QED
    BY <2>1, <2>2 DEF Proposed
<1>4. Cardinality({a}) = 1
  BY FS_Singleton
<1>5. QuorumBehind(d)'
  BY <1>0, <1>4 DEF QuorumBehind, Proposed, ClosesFrozen, OpenDispute
<1>6. Created' = Created
  BY DEF Created
<1>7. OpenIsActive(d)'
  BY <1>0, <1>6 DEF OpenIsActive, IsActive, Proposed, OpenDispute
<1>8. ASSUME NEW u \in TradeIds
      PROVE  ActiveIsOpen(u)'
  <2> SUFFICES ASSUME tradeHasActiveDisputeProposal'[u]
               PROVE  /\ tradeActiveDisputeProposalId'[u] \in DisputeIds
                      /\ OpenDispute(tradeActiveDisputeProposalId[u])'
                      /\ disputeProposals'[tradeActiveDisputeProposalId'[u]].tradeId = u
    BY DEF ActiveIsOpen
  <2>1. CASE u = t
    <3>1. OpenDispute(d)' /\ tradeActiveDisputeProposalId'[t] = d
      BY <1>0, <2>1 DEF Proposed, OpenDispute
    <3> QED
      BY <2>1, <3>1 DEF Proposed, OpenDispute
  <2>2. CASE u # t
    <3>0. PICK e : e = tradeActiveDisputeProposalId[u]
      OBVIOUS
    <3>1. /\ tradeHasActiveDisputeProposal[u]
          /\ tradeActiveDisputeProposalId'[u] = e
      BY <1>0, <2>2, <3>0 DEF OtherEntriesStay
    <3>2. e \in DisputeIds /\ OpenDispute(e) /\ disputeProposals[e].tradeId = u
      BY <1>1, <3>0, <3>1 DEF ActiveIsOpen
    <3>3. e \in DisputeIds \ {d} /\ ~IsActive(t, e)
      BY <1>0, <1>1, <2>2, <3>2 DEF ActiveIsOpen, OpenDispute, IsActive
    <3>4. OpenDispute(e)' /\ disputeProposals'[e] = disputeProposals[e]
      BY <1>2, <3>2, <3>3 DEF Proposed
    <3> QED
      BY <3>1, <3>2, <3>4 DEF OpenDispute
  <2> QED
    BY <2>1, <2>2
<1>9. \A e \in DisputeIds : QuorumBehind(e)' /\ OpenIsActive(e)'
  BY <1>3, <1>5, <1>7
<1> QED
  BY <1>8, <1>9, PointwiseAfter

\* The step deals with the open proposal d about the FROZEN trade t: the others keep.
LEMMA OtherTradesKeep ==
  ASSUME DisputeInv, admins \subseteq admins', tradeCounter' = tradeCounter,
         UNCHANGED disputeCounter, NEW t \in TradeIds, NEW d \in DisputeIds,
         OpenDispute(d), disputeProposals[d].tradeId = t,
         \A e \in DisputeIds \ {d} : disputeProposals'[e] = disputeProposals[e],
         \A u \in TradeIds \ {t} : trades'[u] = trades[u],
         OtherEntriesStay(t)
  PROVE  /\ t \in Created /\ trades[t].status = "FROZEN" /\ IsActive(t, d)
         /\ QuorumBehind(d)
         /\ \A e \in DisputeIds \ {d} : QuorumBehind(e)' /\ OpenIsActive(e)'
         /\ \A u \in TradeIds \ {t} : ActiveIsOpen(u)'
<1>0. DisputeTypes
  BY TypeGroups DEF DisputeInv, MoneyInv, TypeInv
<1>1. /\ \A e \in DisputeIds : QuorumBehind(e) /\ OpenIsActive(e)
      /\ \A u \in TradeIds : ActiveIsOpen(u)
  BY DisputesPointwise DEF DisputeInv
<1>2. t \in Created /\ trades[t].status = "FROZEN" /\ IsActive(t, d)
  BY <1>1 DEF OpenIsActive
<1>3. ASSUME NEW e \in DisputeIds \ {d}
      PROVE  QuorumBehind(e)' /\ OpenIsActive(e)'
  <2>1. QuorumBehind(e) /\ OpenIsActive(e) /\ (OpenDispute(e)' <=> OpenDispute(e))
    BY <1>1 DEF OpenDispute
  <2>2. CASE t # disputeProposals[e].tradeId
    BY <1>0, <2>1, <2>2, BystanderDispute
  <2>3. CASE t = disputeProposals[e].tradeId
    <3>1. ~disputeProposals[e].executed
      BY <1>2, <2>1, <2>3 DEF QuorumBehind
    <3>2. ~OpenDispute(e)
      BY <1>2, <2>1, <2>3 DEF OpenIsActive, IsActive
    <3> QED
      BY <2>1, <3>1, <3>2 DEF QuorumBehind, OpenIsActive
  <2> QED
    BY <2>2, <2>3
<1>4. ASSUME NEW u \in TradeIds \ {t}
      PROVE  ActiveIsOpen(u)'
  <2> SUFFICES ASSUME tradeHasActiveDisputeProposal'[u]
               PROVE  /\ tradeActiveDisputeProposalId'[u] \in DisputeIds
                      /\ OpenDispute(tradeActiveDisputeProposalId[u])'
                      /\ disputeProposals'[tradeActiveDisputeProposalId'[u]].tradeId = u
    BY DEF ActiveIsOpen
  <2>1. PICK e : e = tradeActiveDisputeProposalId[u]
    OBVIOUS
  <2>2. /\ tradeHasActiveDisputeProposal[u]
        /\ tradeActiveDisputeProposalId'[u] = e
    BY <2>1 DEF OtherEntriesStay
  <2>3. e \in DisputeIds /\ OpenDispute(e) /\ disputeProposals[e].tradeId = u
    BY <1>1, <2>1, <2>2 DEF ActiveIsOpen
  <2>4. e \in DisputeIds \ {d} /\ disputeProposals'[e] = disputeProposals[e]
    BY <2>3
  <2> QED
    BY <2>2, <2>3, <2>4 DEF OpenDispute
<1> QED
  BY <1>1, <1>2, <1>3, <1>4

LEMMA ApprovedKeeps ==
  ASSUME DisputeInv, admins \subseteq admins', tradeCounter' = tradeCounter,
         NEW a \in Accounts, NEW d \in DisputeIds, disputeProposals[d] \in MadeDispute,
         Approved(a, d)
  PROVE  OneOpenDispute' /\ DisputeQuorum'
<1> DEFINE p == disputeProposals[d]
           q == disputeProposals'[d]
<1>t. PICK t : t = p.tradeId
  OBVIOUS
<1>0. /\ t \in TradeIds /\ p.approvalCount \in Nat /\ RequiredApprovals \in Nat
      /\ IsFiniteSet(admins)
  BY <1>t, GovernanceAssumption DEF MadeDispute, DisputeInv, GovInv, AdminsFinite
<1>1. /\ OpenDispute(d)
      /\ UNCHANGED disputeCounter
      /\ \A e \in DisputeIds \ {d} : disputeProposals'[e] = disputeProposals[e]
      /\ \A u \in TradeIds \ {t} : trades'[u] = trades[u]
      /\ OtherEntriesStay(t)
  BY <1>t DEF Approved, ClosesFrozen, OtherEntriesStay
<1>2. /\ t \in Created /\ trades[t].status = "FROZEN" /\ IsActive(t, d)
      /\ QuorumBehind(d)
      /\ \A e \in DisputeIds \ {d} : QuorumBehind(e)' /\ OpenIsActive(e)'
      /\ \A u \in TradeIds \ {t} : ActiveIsOpen(u)'
  BY <1>0, <1>1, <1>t, OtherTradesKeep
<1>3. Created' = Created
  BY DEF Created
<1>4. Cardinality(p.approvedBy \cup {a}) = Cardinality(p.approvedBy) + 1
  BY <1>0, <1>2, OneMoreApproval DEF QuorumBehind, Approved
<1>5. QuorumBehind(d)'
  <2>1. q.approvedBy \subseteq admins' /\ q.approvalCount = Cardinality(q.approvedBy)
    BY <1>2, <1>4 DEF QuorumBehind, Approved
  <2>2. q.executed => /\ ~q.cancelled
                      /\ q.approvalCount >= RequiredApprovals
                      /\ trades'[q.tradeId].status = "CLOSED"
    BY DEF Approved, ClosesFrozen
  <2>3. OpenDispute(d)' => q.approvalCount < RequiredApprovals
    BY DEF Approved, OpenDispute
  <2> QED
    BY <2>1, <2>2, <2>3 DEF QuorumBehind
<1>6. OpenIsActive(d)'
  BY <1>0, <1>2, <1>3, <1>t DEF OpenIsActive, Approved, OpenDispute, IsActive
<1>7. ActiveIsOpen(t)'
  <2> SUFFICES ASSUME tradeHasActiveDisputeProposal'[t]
               PROVE  /\ tradeActiveDisputeProposalId'[t] = d
                      /\ d < disputeCounter'
                      /\ ~q.executed /\ ~q.cancelled /\ q.tradeId = t
    BY DEF ActiveIsOpen, OpenDispute
  <2> QED
    BY <1>1, <1>2, <1>t DEF Approved, IsActive, OpenDispute
<1> QED
  <2>1. \A e \in DisputeIds : QuorumBehind(e)' /\ OpenIsActive(e)'
    BY <1>2, <1>5, <1>6
  <2>2. \A u \in TradeIds : ActiveIsOpen(u)'
    BY <1>2, <1>7
  <2> QED
    BY <2>1, <2>2, PointwiseAfter

LEMMA DroppedKeeps ==
  ASSUME DisputeInv, admins \subseteq admins', tradeCounter' = tradeCounter,
         NEW d \in DisputeIds, disputeProposals[d] \in MadeDispute, Dropped(d)
  PROVE  OneOpenDispute' /\ DisputeQuorum'
<1>t. PICK t : t = disputeProposals[d].tradeId
  OBVIOUS
<1>0. t \in TradeIds
  BY <1>t DEF MadeDispute
<1>1. /\ OpenDispute(d)
      /\ UNCHANGED disputeCounter
      /\ \A e \in DisputeIds \ {d} : disputeProposals'[e] = disputeProposals[e]
      /\ \A u \in TradeIds \ {t} : trades'[u] = trades[u]
      /\ OtherEntriesStay(t)
  BY <1>t DEF Dropped
<1>2. /\ t \in Created /\ trades[t].status = "FROZEN" /\ IsActive(t, d)
      /\ QuorumBehind(d)
      /\ \A e \in DisputeIds \ {d} : QuorumBehind(e)' /\ OpenIsActive(e)'
      /\ \A u \in TradeIds \ {t} : ActiveIsOpen(u)'
  BY <1>0, <1>1, <1>t, OtherTradesKeep
<1>3. ~OpenDispute(d)'
  BY DEF Dropped, BecomesCancelled, OpenDispute
<1>4. QuorumBehind(d)' /\ OpenIsActive(d)'
  BY <1>1, <1>2, <1>3 DEF QuorumBehind, OpenIsActive, OpenDispute, Dropped, BecomesCancelled
<1>5. ActiveIsOpen(t)'
  <2>1. ~tradeHasActiveDisputeProposal'[t]
    BY <1>2, <1>t DEF Dropped
  <2> QED
    BY <2>1 DEF ActiveIsOpen
<1> QED
  <2>1. \A e \in DisputeIds : QuorumBehind(e)' /\ OpenIsActive(e)'
    BY <1>2, <1>4
  <2>2. \A u \in TradeIds : ActiveIsOpen(u)'
    BY <1>2, <1>5
  <2> QED
    BY <2>1, <2>2, PointwiseAfter

LEMMA DisputeInvInit == Init => DisputeInv
<1> SUFFICES ASSUME Init PROVE DisputeInv
  OBVIOUS
<1>1. MoneyInv /\ GovInv
  BY MoneyInvInit, GovInvInit DEF Init
<1>2. /\ \A d \in DisputeIds : disputeProposals[d] = NoDispute
      /\ \A t \in TradeIds : ~tradeHasActiveDisputeProposal[t]
      /\ disputeCounter = 0
  BY DEF Init, TradeInit
<1>3. FreshDisputes
  BY <1>2 DEF FreshDisputes
<1>4. \A d \in DisputeIds : ~OpenDispute(d)
  BY <1>2, EscrowAssumption DEF OpenDispute, DisputeIds
<1>5. OneOpenDispute
  BY <1>2, <1>4 DEF OneOpenDispute
<1>6. DisputeQuorum
  BY <1>2, <1>4, FS_EmptySet DEF DisputeQuorum, NoDispute
<1> QED
  BY <1>1, <1>3, <1>5, <1>6 DEF DisputeInv

LEMMA DisputeInvStep ==
  ASSUME DisputeInv, [Next]_vars
  PROVE  DisputeInv'
<1>1. MoneyInv' /\ GovInv'
  BY MoneyInvStep, GovernancePart, GovInvStep DEF DisputeInv
<1>2. admins \subseteq admins'
  BY GovernancePart, AdminsGrow DEF DisputeInv
<1>3. TypeInv /\ FreshTrades /\ DisputeTypes
  BY TypeGroups DEF DisputeInv, MoneyInv, TypeInv
<1>4. FreshDisputes'
  BY <1>3, FreshDisputesStep DEF DisputeInv
<1>5. OneOpenDispute' /\ DisputeQuorum'
  BY <1>2, <1>3, DisputeStep, RestKeepsDisputes, ProposedKeeps, ApprovedKeeps, DroppedKeeps
<1> QED
  BY <1>1, <1>4, <1>5 DEF DisputeInv

LEMMA DisputeInvariance == Spec => []DisputeInv
  BY DisputeInvInit, DisputeInvStep, PTL DEF Spec

-------------------------------------------------------------------------------
(* The theorems *)

(***************************************************************************)
(* However proposals are made, approved, cancelled or left to expire, and  *)
(* however their trades are settled, each FROZEN trade has at most one     *)
(* open proposal and the active entry names it (proposeDisputeSolution,    *)
(* cancelExpiredDisputeProposal, _executeDispute).                         *)
(***************************************************************************)
THEOREM OneOpenDisputeHolds == Spec => []OneOpenDispute
<1>1. DisputeInv => OneOpenDispute
  BY DEF DisputeInv
<1> QED
  BY <1>1, DisputeInvariance, PTL

(***************************************************************************)
(* A dispute is executed with the approvals of requiredApprovals distinct  *)
(* admins behind it, on a trade that it closed for good, and an open one   *)
(* has fewer: no proposal is approved past its quorum without executing.   *)
(***************************************************************************)
THEOREM DisputeQuorumHolds == Spec => []DisputeQuorum
<1>1. DisputeInv => DisputeQuorum
  BY DEF DisputeInv
<1> QED
  BY <1>1, DisputeInvariance, PTL

\* The step executes proposal d about trade t with its quorum of admins.
DecidedBy(t, d) ==
  LET p == disputeProposals'[d] IN
    /\ p.executed /\ ~disputeProposals[d].executed
    /\ p.tradeId = t
    /\ now <= p.expiresAt
    /\ p.approvedBy \subseteq admins
    /\ Cardinality(p.approvedBy) >= RequiredApprovals

\* What FrozenNeedsDecision says of one step.
FrozenStep ==
  \A t \in Created :
    trades[t].status = "FROZEN" /\ trades'[t].status # "FROZEN" =>
      /\ trades'[t].status = "CLOSED"
      /\ \E d \in DisputeIds : DecidedBy(t, d)

LEMMA FrozenStepHolds ==
  ASSUME DisputeInv, [Next]_vars
  PROVE  FrozenStep
<1> SUFFICES ASSUME NEW t \in TradeIds, trades[t].status = "FROZEN",
                    trades'[t].status # "FROZEN"
             PROVE  /\ trades'[t].status = "CLOSED"
                    /\ \E d \in DisputeIds : DecidedBy(t, d)
  BY DEF FrozenStep, Created
<1>0. TypeInv /\ FreshTrades /\ DisputeTypes /\ DisputeQuorum
  BY TypeGroups DEF DisputeInv, MoneyInv, TypeInv
<1>1. CASE DisputesRest
  BY <1>1 DEF DisputesRest
<1>2. ASSUME NEW a \in Accounts, NEW u \in TradeIds, NEW d \in DisputeIds, Proposed(a, u, d)
      PROVE  trades'[t].status = "CLOSED" /\ DecidedBy(t, d)
  <2>1. u = t /\ trades'[t].status = "CLOSED"
    BY <1>2 DEF Proposed, ClosesFrozen
  <2>2. disputeProposals[d] = NoDispute
    BY <1>0, <1>2, EscrowAssumption
       DEF DisputeInv, FreshDisputes, Proposed, DisputeTypes
  <2>3. Cardinality({a}) = 1
    BY FS_Singleton
  <2> QED
    BY <1>2, <2>1, <2>2, <2>3 DEF DecidedBy, Proposed, NoDispute
<1>3. ASSUME NEW a \in Accounts, NEW d \in DisputeIds, disputeProposals[d] \in MadeDispute,
             Approved(a, d)
      PROVE  trades'[t].status = "CLOSED" /\ DecidedBy(t, d)
  <2> DEFINE p == disputeProposals[d]
             q == disputeProposals'[d]
  <2>0. p.tradeId \in TradeIds /\ p.approvalCount \in Nat /\ IsFiniteSet(admins)
    BY <1>3 DEF MadeDispute, DisputeInv, GovInv, AdminsFinite
  <2>1. p.tradeId = t /\ trades'[t].status = "CLOSED" /\ q.executed
        /\ q.approvalCount >= RequiredApprovals
    BY <1>3, <2>0 DEF Approved, ClosesFrozen
  <2>2. p.approvedBy \subseteq admins /\ p.approvalCount = Cardinality(p.approvedBy)
    BY <1>0 DEF DisputeQuorum
  <2>3. Cardinality(p.approvedBy \cup {a}) = p.approvalCount + 1
    BY <1>3, <2>0, <2>2, OneMoreApproval DEF Approved
  <2>4. ~p.executed
    BY <1>3 DEF Approved, OpenDispute
  <2> QED
    BY <1>3, <2>1, <2>2, <2>3, <2>4 DEF DecidedBy, Approved
<1>4. ASSUME NEW d \in DisputeIds, Dropped(d)
      PROVE  FALSE
  BY <1>4 DEF Dropped
<1> QED
  BY <1>0, <1>1, <1>2, <1>3, <1>4, DisputeStep

(***************************************************************************)
(* A FROZEN trade is in the hands of the admins alone: for any number of   *)
(* admins, only the approval that completes the quorum of a proposal that  *)
(* is still alive takes it out of that state (_executeDispute).            *)
(***************************************************************************)
THEOREM FrozenNeedsDecisionHolds == Spec => FrozenNeedsDecision
<1>1. DisputeInv /\ [Next]_vars => FrozenStep
  BY FrozenStepHolds
<1> QED
  BY <1>1, DisputeInvariance, PTL DEF Spec, FrozenNeedsDecision, FrozenStep, DecidedBy

-------------------------------------------------------------------------------
(* Refinement of TradeLifecycle *)

\* The life of trade t as TradeLifecycle sees it.
LifeStatus(t) == IF t < tradeCounter THEN trades[t].status ELSE "NONE"

IsOver(t) ==
  /\ trades[t].arrivalTimestamp > 0
  /\ now > trades[t].arrivalTimestamp + DisputeWindow

Lives(t) == [Lifecycle(t)!LifecycleNext]_(Lifecycle(t)!chainVars)

\* A trade whose goods have not arrived has no arrival time, so its window is not over.
NoEarlyArrival ==
  \A t \in TradeIds : trades[t].status \in {"LOCKED", "IN_TRANSIT"} =>
    trades[t].arrivalTimestamp = 0

\* A trade whose goods have arrived has an arrival time, so its window has an end.
ArrivalIsKnown ==
  \A t \in TradeIds : trades[t].status = "ARRIVAL_CONFIRMED" => trades[t].arrivalTimestamp > 0

LifeInv == MoneyInv /\ NoEarlyArrival /\ ArrivalIsKnown

\* The set MilestonesOf(t) by its three possible members.
Marks(released, arrived, finalized) ==
  {m \in {"RELEASE_STAGE_1", "CONFIRM_ARRIVAL", "FINALIZE_TRADE"} :
     \/ m = "RELEASE_STAGE_1" /\ released
     \/ m = "CONFIRM_ARRIVAL" /\ arrived
     \/ m = "FINALIZE_TRADE" /\ finalized}

LEMMA MilestonesAreMarks ==
  ASSUME NEW t
  PROVE  /\ MilestonesOf(t) = Marks(claimableAccrued[t]["STAGE1_SUPPLIER"] > 0,
                                    trades[t].arrivalTimestamp > 0,
                                    claimableAccrued[t]["STAGE2_SUPPLIER"] > 0)
         /\ MilestonesOf(t)' = Marks(claimableAccrued'[t]["STAGE1_SUPPLIER"] > 0,
                                     trades'[t].arrivalTimestamp > 0,
                                     claimableAccrued'[t]["STAGE2_SUPPLIER"] > 0)
  BY DEF MilestonesOf, Marks

\* Nothing that TradeLifecycle knows of trade t changes.
Idle(t) ==
  /\ LifeStatus(t)' = LifeStatus(t)
  /\ MilestonesOf(t)' = MilestonesOf(t)
  /\ IsOver(t)' = IsOver(t)

LEMMA IdleLives ==
  ASSUME NEW t, Idle(t), UNCHANGED <<paused, oracleActive>>
  PROVE  Lives(t)
  BY DEF Lives, Idle, LifeStatus, IsOver, Lifecycle!chainVars, Lifecycle!tradeVars,
         Lifecycle!switchVars

\* What the step does to trade u cannot be told from its record and its claims.
LEMMA BystanderLives ==
  ASSUME NEW u, LifeStatus(u)' = LifeStatus(u),
         trades'[u].arrivalTimestamp = trades[u].arrivalTimestamp,
         claimableAccrued'[u]["STAGE1_SUPPLIER"] = claimableAccrued[u]["STAGE1_SUPPLIER"],
         claimableAccrued'[u]["STAGE2_SUPPLIER"] = claimableAccrued[u]["STAGE2_SUPPLIER"],
         UNCHANGED <<now, paused, oracleActive>>
  PROVE  Lives(u)
<1>1. MilestonesOf(u)' = MilestonesOf(u)
  BY MilestonesAreMarks
<1>2. IsOver(u)' = IsOver(u)
  BY DEF IsOver
<1> QED
  BY <1>1, <1>2, IdleLives DEF Idle

\* The moves of an existing trade, by what they change.
LEMMA StatusMoves ==
  ASSUME NEW t, Exists(t), UNCHANGED <<tradeCounter, now, paused, oracleActive>>, ~paused,
         trades'[t].arrivalTimestamp = trades[t].arrivalTimestamp,
         claimableAccrued'[t]["STAGE1_SUPPLIER"] = claimableAccrued[t]["STAGE1_SUPPLIER"],
         claimableAccrued'[t]["STAGE2_SUPPLIER"] = claimableAccrued[t]["STAGE2_SUPPLIER"],
         \/ /\ trades[t].status \in {"LOCKED", "IN_TRANSIT", "FROZEN"}
            /\ trades'[t].status = "CLOSED"
         \/ /\ trades[t].status = "ARRIVAL_CONFIRMED"
            /\ trades'[t].status = "FROZEN"
            /\ ~IsOver(t)
  PROVE  Lives(t)
<1>1. MilestonesOf(t)' = MilestonesOf(t)
  BY MilestonesAreMarks
<1>2. IsOver(t)' = IsOver(t)
  BY DEF IsOver
<1>3. Lifecycle(t)!Withdraw \/ Lifecycle(t)!Decide \/ Lifecycle(t)!Dispute
  BY <1>1, <1>2 DEF Exists, IsOver, Lifecycle!Withdraw, Lifecycle!Decide, Lifecycle!Dispute,
                    Lifecycle!switchVars
<1> QED
  BY <1>3 DEF Lives, Lifecycle!LifecycleNext

LEMMA MilestoneMoves ==
  ASSUME NEW t, Exists(t), UNCHANGED <<tradeCounter, now, paused, oracleActive>>, ~paused,
         IsOver(t)' = IsOver(t),
         \/ /\ trades[t].status = "LOCKED" /\ trades'[t].status = "IN_TRANSIT"
            /\ MilestonesOf(t)' = MilestonesOf(t) \cup {"RELEASE_STAGE_1"}
            /\ oracleActive
         \/ /\ trades[t].status = "IN_TRANSIT" /\ trades'[t].status = "ARRIVAL_CONFIRMED"
            /\ MilestonesOf(t)' = MilestonesOf(t) \cup {"CONFIRM_ARRIVAL"}
            /\ oracleActive
         \/ /\ trades[t].status = "ARRIVAL_CONFIRMED" /\ trades'[t].status = "CLOSED"
            /\ MilestonesOf(t)' = MilestonesOf(t) \cup {"FINALIZE_TRADE"}
            /\ IsOver(t)
  PROVE  Lives(t)
<1>1. \E type \in {"RELEASE_STAGE_1", "CONFIRM_ARRIVAL", "FINALIZE_TRADE"} :
        Lifecycle(t)!Milestone(type)
  BY DEF Exists, IsOver, Lifecycle!Milestone, Lifecycle!Accepts, Lifecycle!Before,
         Lifecycle!After, Lifecycle!switchVars
<1> QED
  BY <1>1 DEF Lives, Lifecycle!LifecycleNext, Lifecycle!TriggerTypes

\* The trades that a step does not touch.
LEMMA UntouchedLive ==
  ASSUME NEW t, OnlyTouches(t), UNCHANGED <<now, paused, oracleActive>>,
         NEW u \in TradeIds \ {t}, LifeStatus(u)' = LifeStatus(u)
  PROVE  Lives(u)
  BY BystanderLives DEF OnlyTouches

LEMMA UntouchedStatus ==
  ASSUME NEW t, OnlyTouches(t), UNCHANGED tradeCounter, NEW u \in TradeIds \ {t}
  PROVE  LifeStatus(u)' = LifeStatus(u)
  BY DEF OnlyTouches, LifeStatus

LEMMA CloseArrival ==
  ASSUME RecordTypes, NEW t \in TradeIds, NEW r, NEW n, NEW c, Close(t, r, n, c)
  PROVE  trades'[t].arrivalTimestamp = trades[t].arrivalTimestamp
<1>1. trades' = [trades EXCEPT ![t] = [trades[t] EXCEPT !.status = "CLOSED"]]
  BY Zenon DEF Close
<1> QED
  BY <1>1 DEF RecordTypes, Trade

LEMMA CreateLives ==
  ASSUME LifeInv, NEW s \in Accounts, NEW o \in Orders, NEW n, NEW dl, NEW sg,
         createTrade(s, o, n, dl, sg), NEW u \in TradeIds
  PROVE  Lives(u)
<1> DEFINE t == tradeCounter
<1>0. TypeOK /\ RecordTypes /\ FreshTrades
  BY TypeGroups DEF LifeInv, MoneyInv, TypeInv
<1>1. /\ ~paused
      /\ t < MaxTrades
      /\ tradeCounter' = t + 1
      /\ trades' = [trades EXCEPT ![tradeCounter] =
           [status |-> "LOCKED", ricardianHash |-> o.ricardianHash,
            buyerAddress |-> s, supplierAddress |-> o.supplier,
            totalAmountLocked |-> o.total, logisticsAmount |-> o.logistics,
            platformFeesAmount |-> o.platformFees,
            supplierFirstTranche |-> o.firstTranche,
            supplierSecondTranche |-> o.secondTranche,
            createdAt |-> now, arrivalTimestamp |-> 0]]
      /\ UNCHANGED govVars
      /\ UNCHANGED accountVars
  BY Zenon DEF createTrade, AcceptsTrade
<1>2. t \in TradeIds /\ ~Exists(t) /\ t \in Nat /\ u \in Nat
  BY <1>0, <1>1, EscrowAssumption DEF RecordTypes, TradeIds, Exists
<1>3. /\ trades'[t].status = "LOCKED" /\ trades'[t].arrivalTimestamp = 0
      /\ \A v \in TradeIds \ {t} : trades'[v] = trades[v]
  BY <1>0, <1>1, <1>2 DEF RecordTypes
<1>4. CASE u = t
  <2>1. trades[t].arrivalTimestamp = 0
    BY <1>0, <1>2 DEF FreshTrades, NoTrade
  <2>2. MilestonesOf(u)' = MilestonesOf(u)
    BY <1>1, <1>3, <1>4, <2>1, MilestonesAreMarks
  <2>3. Lifecycle(u)!Create
    BY <1>1, <1>2, <1>3, <1>4, <2>1, <2>2 DEF Lifecycle!Create, Lifecycle!switchVars
  <2> QED
    BY <2>3 DEF Lives, Lifecycle!LifecycleNext
<1>5. CASE u # t
  <2>1. LifeStatus(u)' = LifeStatus(u)
    BY <1>1, <1>2, <1>3, <1>5 DEF LifeStatus
  <2>2. trades'[u] = trades[u] /\ claimableAccrued' = claimableAccrued
        /\ UNCHANGED <<now, paused, oracleActive>>
    BY <1>1, <1>3, <1>5
  <2> QED
    BY <2>1, <2>2, BystanderLives
<1> QED
  BY <1>4, <1>5

LEMMA ReleaseLives ==
  ASSUME LifeInv, NEW s, NEW t \in TradeIds, releaseFundsStage1(s, t), NEW u \in TradeIds
  PROVE  Lives(u)
<1>0. RecordTypes /\ AccountTypes /\ SettledTrades /\ AmountsAddUp
  BY TypeGroups, SettledByTrade DEF LifeInv, MoneyInv, TypeInv
<1>1. /\ ~paused /\ oracleActive
      /\ Exists(t)
      /\ trades[t].status = "LOCKED"
      /\ trades' = [trades EXCEPT ![t] = [trades[t] EXCEPT !.status = "IN_TRANSIT"]]
      /\ UNCHANGED <<govVars, tradeCounter>>
  BY Zenon DEF releaseFundsStage1, OracleMay
<1>2. /\ trades'[t].status = "IN_TRANSIT"
      /\ trades'[t].arrivalTimestamp = trades[t].arrivalTimestamp
      /\ \A v \in TradeIds \ {t} : trades'[v] = trades[v]
  BY <1>0, <1>1 DEF RecordTypes, Trade
<1>3. /\ \A v \in TradeIds \ {t} : claimableAccrued'[v] = claimableAccrued[v]
      /\ claimableAccrued'[t]["STAGE2_SUPPLIER"] = claimableAccrued[t]["STAGE2_SUPPLIER"]
      /\ claimableAccrued'[t]["STAGE1_SUPPLIER"] =
           claimableAccrued[t]["STAGE1_SUPPLIER"] + trades[t].supplierFirstTranche
  BY <1>0, ReleaseAccrues DEF ClaimType, Stage1Claims
<1>4. CASE u = t
  <2>1. /\ claimableAccrued[t]["STAGE1_SUPPLIER"] \in Nat
        /\ trades[t].supplierFirstTranche \in Nat
        /\ trades[t].supplierFirstTranche > 0
    BY <1>0, <1>1 DEF AccountTypes, ClaimType, RecordTypes, Trade, AmountsAddUp, Created, Exists
  <2>2. claimableAccrued'[t]["STAGE1_SUPPLIER"] > 0
    BY <1>3, <2>1
  <2>3. MilestonesOf(t)' = MilestonesOf(t) \cup {"RELEASE_STAGE_1"}
    BY <1>2, <1>3, <2>2, MilestonesAreMarks DEF Marks
  <2>4. IsOver(t)' = IsOver(t)
    BY <1>1, <1>2 DEF IsOver
  <2> QED
    BY <1>1, <1>2, <1>4, <2>3, <2>4, MilestoneMoves
<1>5. CASE u # t
  <2>1. LifeStatus(u)' = LifeStatus(u)
    BY <1>1, <1>2, <1>5 DEF LifeStatus
  <2> QED
    BY <1>1, <1>2, <1>3, <1>5, <2>1, BystanderLives
<1> QED
  BY <1>4, <1>5

LEMMA AdvanceLives ==
  ASSUME LifeInv, NEW s, NEW t \in TradeIds, confirmArrival(s, t) \/ openDispute(s, t),
         NEW u \in TradeIds
  PROVE  Lives(u)
<1>0. GovTypeOK /\ RecordTypes /\ NoEarlyArrival
  BY TypeGroups DEF LifeInv, MoneyInv, TypeInv
<1>1. CASE confirmArrival(s, t)
  <2>1. /\ ~paused /\ oracleActive
        /\ Exists(t)
        /\ trades[t].status = "IN_TRANSIT"
        /\ trades' = [trades EXCEPT ![t].status = "ARRIVAL_CONFIRMED",
                                   ![t].arrivalTimestamp = now]
        /\ UNCHANGED <<govVars, tradeCounter, accountVars>>
    BY <1>1, Zenon DEF confirmArrival, OracleMay
  <2>2. /\ trades'[t].status = "ARRIVAL_CONFIRMED"
        /\ trades'[t].arrivalTimestamp = now
        /\ \A v \in TradeIds \ {t} : trades'[v] = trades[v]
    BY <1>0, <2>1 DEF RecordTypes, Trade
  <2>a. UNCHANGED <<tradeCounter, now, paused, oracleActive, claimableAccrued>>
    BY <2>1
  <2>3. CASE u = t
    <3>1. now \in Nat /\ now > 0 /\ DisputeWindow \in Nat /\ trades[t].arrivalTimestamp = 0
      BY <1>0, <2>1, EscrowAssumption DEF GovTypeOK, NoEarlyArrival
    <3>2. MilestonesOf(t)' = MilestonesOf(t) \cup {"CONFIRM_ARRIVAL"}
      BY <2>2, <3>1, <2>a, MilestonesAreMarks DEF Marks
    <3>b. ~(now > now + DisputeWindow)
      BY <3>1
    <3>3. IsOver(t)' = IsOver(t)
      BY <2>2, <3>1, <2>a, <3>b DEF IsOver
    <3> QED
      BY <2>1, <2>2, <2>3, <2>a, <3>2, <3>3, MilestoneMoves
  <2>4. CASE u # t
    <3>1. LifeStatus(u)' = LifeStatus(u)
      BY <2>2, <2>4, <2>a DEF LifeStatus
    <3> QED
      BY <2>2, <2>4, <2>a, <3>1, BystanderLives
  <2> QED
    BY <2>3, <2>4
<1>2. CASE openDispute(s, t)
  <2>1. /\ ~paused
        /\ Exists(t)
        /\ trades[t].status = "ARRIVAL_CONFIRMED"
        /\ now <= trades[t].arrivalTimestamp + DisputeWindow
        /\ trades' = [trades EXCEPT ![t] = [trades[t] EXCEPT !.status = "FROZEN"]]
        /\ UNCHANGED <<govVars, tradeCounter, accountVars>>
    BY <1>2, Zenon DEF openDispute, AcceptsDispute
  <2>2. /\ trades'[t].status = "FROZEN"
        /\ trades'[t].arrivalTimestamp = trades[t].arrivalTimestamp
        /\ \A v \in TradeIds \ {t} : trades'[v] = trades[v]
    BY <1>0, <2>1 DEF RecordTypes, Trade
  <2>3. CASE u = t
    <3>1. now \in Nat /\ trades[t].arrivalTimestamp \in Nat /\ DisputeWindow \in Nat
      BY <1>0, EscrowAssumption DEF GovTypeOK, RecordTypes, Trade
    <3>2. ~IsOver(t)
      BY <2>1, <3>1 DEF IsOver
    <3> QED
      BY <2>1, <2>2, <2>3, <3>2, StatusMoves
  <2>4. CASE u # t
    <3>1. LifeStatus(u)' = LifeStatus(u)
      BY <2>1, <2>2, <2>4 DEF LifeStatus
    <3> QED
      BY <2>1, <2>2, <2>4, <3>1, BystanderLives
  <2> QED
    BY <2>3, <2>4
<1> QED
  BY <1>1, <1>2

LEMMA CloseLives ==
  ASSUME LifeInv, ~paused, NEW t \in TradeIds, Exists(t),
         NEW r, NEW n \in Nat, NEW c \in ClaimType, Close(t, r, n, c),
         \/ /\ trades[t].status \in {"LOCKED", "IN_TRANSIT", "FROZEN"}
            /\ c \notin {"STAGE1_SUPPLIER", "STAGE2_SUPPLIER"}
         \/ /\ trades[t].status = "ARRIVAL_CONFIRMED"
            /\ c = "STAGE2_SUPPLIER"
            /\ n > 0
            /\ IsOver(t),
         NEW u \in TradeIds
  PROVE  Lives(u)
<1>0. RecordTypes /\ AccountTypes
  BY TypeGroups DEF LifeInv, MoneyInv, TypeInv
<1>1. /\ trades'[t].status = "CLOSED"
      /\ Accrues(t, c, n)
      /\ OnlyTouches(t)
      /\ UNCHANGED tradeCounter
      /\ trades'[t].arrivalTimestamp = trades[t].arrivalTimestamp
  BY <1>0, CloseEffect, CloseArrival
<1>2. UNCHANGED <<now, paused, oracleActive>>
  <2>1. UNCHANGED govVars
    BY Zenon DEF Close
  <2> QED
    BY <2>1
<1>3. CASE u # t
  <2>1. LifeStatus(u)' = LifeStatus(u)
    BY <1>1, <1>3, UntouchedStatus
  <2> QED
    BY <1>1, <1>2, <1>3, <2>1, UntouchedLive
<1>4. CASE u = t /\ trades[t].status # "ARRIVAL_CONFIRMED"
  <2>1. /\ claimableAccrued'[t]["STAGE1_SUPPLIER"] = claimableAccrued[t]["STAGE1_SUPPLIER"]
        /\ claimableAccrued'[t]["STAGE2_SUPPLIER"] = claimableAccrued[t]["STAGE2_SUPPLIER"]
    BY <1>1, <1>4 DEF Accrues, ClaimType
  <2> QED
    BY <1>1, <1>2, <1>4, <2>1, StatusMoves
<1>5. CASE u = t /\ trades[t].status = "ARRIVAL_CONFIRMED"
  <2>1. claimableAccrued[t]["STAGE2_SUPPLIER"] \in Nat
    BY <1>0 DEF AccountTypes, ClaimType
  <2>2. /\ claimableAccrued'[t]["STAGE1_SUPPLIER"] = claimableAccrued[t]["STAGE1_SUPPLIER"]
        /\ claimableAccrued'[t]["STAGE2_SUPPLIER"] = claimableAccrued[t]["STAGE2_SUPPLIER"] + n
    BY <1>1, <1>5 DEF Accrues, ClaimType
  <2>3. claimableAccrued'[t]["STAGE2_SUPPLIER"] > 0
    BY <1>5, <2>1, <2>2
  <2>4. MilestonesOf(t)' = MilestonesOf(t) \cup {"FINALIZE_TRADE"}
    BY <1>1, <2>2, <2>3, MilestonesAreMarks DEF Marks
  <2>5. IsOver(t)' = IsOver(t)
    BY <1>1, <1>2 DEF IsOver
  <2> QED
    BY <1>1, <1>2, <1>5, <2>4, <2>5, MilestoneMoves
<1> QED
  BY <1>3, <1>4, <1>5

LEMMA SimpleCloseLives ==
  ASSUME LifeInv, NEW s, NEW t \in TradeIds, SimpleClose(s, t), NEW u \in TradeIds
  PROVE  Lives(u)
<1>0. /\ trades[t].supplierSecondTranche \in Nat /\ trades[t].totalAmountLocked \in Nat
      /\ AmountsAddUp
  BY TypeGroups, TradeTermTypes DEF LifeInv, MoneyInv, TypeInv
<1>1. CASE finalizeAfterDisputeWindow(t)
  <2>1. /\ ~paused
        /\ Exists(t)
        /\ trades[t].status = "ARRIVAL_CONFIRMED"
        /\ IsOver(t)
        /\ Close(t, trades[t].supplierAddress, trades[t].supplierSecondTranche, "STAGE2_SUPPLIER")
    BY <1>1, Zenon DEF finalizeAfterDisputeWindow, AcceptsFinalization, IsOver
  <2>2. trades[t].supplierSecondTranche > 0
    BY <1>0, <2>1 DEF AmountsAddUp, Created, Exists
  <2>3. "STAGE2_SUPPLIER" \in ClaimType
    BY DEF ClaimType
  <2> QED
    BY <1>0, <2>1, <2>2, <2>3, CloseLives
<1>2. CASE cancelLockedTradeAfterTimeout(s, t)
  <2>1. /\ ~paused
        /\ Exists(t)
        /\ trades[t].status = "LOCKED"
        /\ Close(t, trades[t].buyerAddress, trades[t].totalAmountLocked,
                 "LOCK_TIMEOUT_BUYER_REFUND")
    BY <1>2, Zenon DEF cancelLockedTradeAfterTimeout
  <2>2. "LOCK_TIMEOUT_BUYER_REFUND" \in ClaimType
    BY DEF ClaimType
  <2> QED
    BY <1>0, <2>1, <2>2, CloseLives
<1>3. CASE refundInTransitAfterTimeout(s, t)
  <2>1. /\ ~paused
        /\ Exists(t)
        /\ trades[t].status = "IN_TRANSIT"
        /\ Close(t, trades[t].buyerAddress, trades[t].supplierSecondTranche,
                 "IN_TRANSIT_TIMEOUT_BUYER_REFUND")
    BY <1>3, Zenon DEF refundInTransitAfterTimeout
  <2>2. "IN_TRANSIT_TIMEOUT_BUYER_REFUND" \in ClaimType
    BY DEF ClaimType
  <2> QED
    BY <1>0, <2>1, <2>2, CloseLives
<1> QED
  BY <1>1, <1>2, <1>3 DEF SimpleClose

LEMMA ExecuteLives ==
  ASSUME LifeInv, ~paused, NEW table, NEW d, table[d] \in MadeDispute,
         ExecuteDispute(table, d), NEW u \in TradeIds
  PROVE  Lives(u)
<1> DEFINE t == table[d].tradeId
           refund == table[d].disputeStatus = "REFUND"
           recipient == IF refund THEN trades[t].buyerAddress ELSE trades[t].supplierAddress
           type == IF refund THEN "DISPUTE_REFUND_BUYER" ELSE "DISPUTE_RESOLVE_SUPPLIER"
<1>1. /\ t \in TradeIds /\ trades[t].supplierSecondTranche \in Nat
      /\ type \in ClaimType /\ type \notin {"STAGE1_SUPPLIER", "STAGE2_SUPPLIER"}
  BY TypeGroups, TradeTermTypes DEF MadeDispute, ClaimType, LifeInv, MoneyInv, TypeInv
<1>2. /\ Close(t, recipient, trades[t].supplierSecondTranche, type)
      /\ trades[t].status = "FROZEN"
  BY Zenon DEF ExecuteDispute
<1>3. Exists(t)
  BY <1>1, <1>2 DEF LifeInv, MoneyInv, FreshTrades, NoTrade
<1> HIDE DEF t, recipient, type
<1> QED
  BY <1>1, <1>2, <1>3, CloseLives

\* A step that leaves the trades and the claims alone.
LEMMA RestLives ==
  ASSUME NEW u, UNCHANGED <<trades, tradeCounter, claimableAccrued>>,
         UNCHANGED <<now, paused, oracleActive>>
  PROVE  Lives(u)
  BY BystanderLives DEF LifeStatus

LEMMA DisputeActionLives ==
  ASSUME LifeInv,
         \/ \E a \in Accounts, t \in TradeIds, ds \in DisputeStatus :
              proposeDisputeSolution(a, t, ds)
         \/ \E a \in Accounts, d \in DisputeIds : approveDisputeSolution(a, d),
         NEW u \in TradeIds
  PROVE  Lives(u)
<1>0. TypeInv
  BY DEF LifeInv, MoneyInv
<1>1. CASE ~paused /\ \E table, d : table[d] \in MadeDispute /\ ExecuteDispute(table, d)
  BY <1>1, ExecuteLives
<1>2. CASE UNCHANGED tradeRecordVars /\ UNCHANGED accountVars /\ UNCHANGED <<govVars, usdc>>
  BY <1>2, RestLives
<1> QED
  BY <1>0, <1>1, <1>2, DisputeActionKinds

\* The clock can only end a dispute window.
LEMMA ClockLives ==
  ASSUME LifeInv, Clock, NEW u \in TradeIds
  PROVE  Lives(u)
<1>0. /\ now \in Nat /\ trades[u].arrivalTimestamp \in Nat /\ DisputeWindow \in Nat
  BY TypeGroups, EscrowAssumption DEF LifeInv, MoneyInv, TypeInv, GovTypeOK, RecordTypes, Trade
<1>1. /\ now' = now + 1
      /\ UNCHANGED <<trades, tradeCounter, claimableAccrued, paused, oracleActive>>
  BY DEF Clock, Tick
<1>2. MilestonesOf(u)' = MilestonesOf(u) /\ LifeStatus(u)' = LifeStatus(u)
  BY <1>1, MilestonesAreMarks DEF LifeStatus
<1>3. CASE IsOver(u)' = IsOver(u)
  BY <1>1, <1>2, <1>3, IdleLives DEF Idle
<1>4. CASE IsOver(u)' # IsOver(u)
  <2>1. ~IsOver(u) /\ IsOver(u)'
    BY <1>0, <1>1, <1>4 DEF IsOver
  <2>2. "CONFIRM_ARRIVAL" \in MilestonesOf(u)
    BY <1>1, <2>1, MilestonesAreMarks DEF IsOver, Marks
  <2>3. Lifecycle(u)!WindowPasses
    BY <1>1, <1>2, <2>1, <2>2 DEF Lifecycle!WindowPasses, Lifecycle!switchVars, LifeStatus, IsOver
  <2> QED
    BY <2>3 DEF Lives, Lifecycle!LifecycleNext
<1> QED
  BY <1>3, <1>4

\* The administrative operations are switches, or nothing that the trade can tell.
LEMMA AdminLives ==
  ASSUME LifeInv, GovTypeOK', AdminStep, NEW u \in TradeIds
  PROVE  Lives(u)
<1>1. UNCHANGED <<trades, tradeCounter, claimableAccrued>>
  BY DEF AdminStep
<1>2. UNCHANGED now
  BY GovStepKeepsTime, Zenon DEF AdminStep
<1>3. CASE UNCHANGED <<paused, oracleActive>>
  BY <1>1, <1>2, <1>3, RestLives
<1>4. CASE ~UNCHANGED <<paused, oracleActive>>
  <2>1. /\ MilestonesOf(u)' = MilestonesOf(u)
        /\ LifeStatus(u)' = LifeStatus(u)
        /\ IsOver(u)' = IsOver(u)
    BY <1>1, <1>2, MilestonesAreMarks DEF LifeStatus, IsOver
  <2>2. Lifecycle(u)!Switch
    BY <1>4, <2>1 DEF Lifecycle!Switch, Lifecycle!switchVars, Lifecycle!tradeVars,
                      GovTypeOK, LifeStatus, IsOver
  <2> QED
    BY <2>2 DEF Lives, Lifecycle!LifecycleNext
<1> QED
  BY <1>3, <1>4

LEMMA LifeStep ==
  ASSUME LifeInv, GovTypeOK', [Next]_vars, NEW u \in TradeIds
  PROVE  Lives(u)
<1>0. TypeInv /\ GovTypeOK
  BY TypeGroups DEF LifeInv, MoneyInv, TypeInv
<1>1. CASE UNCHANGED vars
  <2>1. /\ UNCHANGED <<trades, tradeCounter, claimableAccrued>>
        /\ UNCHANGED <<now, paused, oracleActive>>
    BY <1>1
  <2> QED
    BY <2>1, RestLives
<1>2. ASSUME NEW i, NEW r, PayOut(i, r)
      PROVE  Lives(u)
  <2>1. UNCHANGED govVars /\ UNCHANGED tradeRecordVars /\ UNCHANGED claimableAccrued
    BY <1>2, Zenon DEF PayOut
  <2> QED
    BY <2>1, RestLives
<1>3. ASSUME NEW s \in Accounts, NEW d \in DisputeIds, cancelExpiredDisputeProposal(s, d)
      PROVE  Lives(u)
  <2>1. UNCHANGED govVars /\ UNCHANGED tradeRecordVars /\ UNCHANGED accountVars
    BY <1>3, Zenon DEF cancelExpiredDisputeProposal
  <2> QED
    BY <2>1, RestLives
<1>4. ASSUME NEW s \in Accounts, NEW t \in TradeIds, TradeStep(s, t)
      PROVE  Lives(u)
  <2>1. CASE releaseFundsStage1(s, t)
    BY <2>1, ReleaseLives
  <2>2. CASE confirmArrival(s, t) \/ openDispute(s, t)
    BY <2>2, AdvanceLives
  <2>3. CASE SimpleClose(s, t)
    BY <2>3, SimpleCloseLives
  <2>4. CASE \E ds \in DisputeStatus : proposeDisputeSolution(s, t, ds)
    BY <2>4, DisputeActionLives
  <2> QED
    BY <1>4, <2>1, <2>2, <2>3, <2>4, Zenon DEF TradeStep, SimpleClose
<1>5. ASSUME NEW t \in TradeIds, finalizeAfterDisputeWindow(t)
      PROVE  Lives(u)
  BY <1>5, SimpleCloseLives DEF SimpleClose
<1>6. ASSUME NEW s \in Accounts, NEW d \in DisputeIds, approveDisputeSolution(s, d)
      PROVE  Lives(u)
  BY <1>6, DisputeActionLives
<1>7. ASSUME NEW s \in Accounts, NEW o \in Orders, NEW n \in 0 .. MaxTrades,
             NEW dl \in {now - 1, now}, NEW sg \in Accounts, createTrade(s, o, n, dl, sg)
      PROVE  Lives(u)
  BY <1>7, CreateLives
<1>8. CASE Clock
  BY <1>8, ClockLives
<1>9. CASE AdminStep
  BY <1>9, AdminLives
<1> HIDE DEF Lives
<1> QED
  BY <1>1, <1>2, <1>3, <1>4, <1>5, <1>6, <1>7, <1>8, <1>9, Zenon DEF Next, claim, claimTreasury

\* That no arrival comes early is a fact of the lifecycle itself.
LEMMA NoEarlyArrivalStep ==
  ASSUME LifeInv, MoneyInv', NEW u \in TradeIds, Lives(u),
         trades'[u].status \in {"LOCKED", "IN_TRANSIT"}
  PROVE  trades'[u].arrivalTimestamp = 0
<1>1. CASE ~Exists(u)'
  BY <1>1 DEF MoneyInv, FreshTrades, NoTrade
<1>2. CASE Exists(u)'
  <2>0. trades' \in [TradeIds -> Trade]
    BY DEF MoneyInv, TypeInv, TypeOK
  <2>1. /\ trades'[u].arrivalTimestamp \in Nat
        /\ LifeStatus(u)' = trades'[u].status
    BY <1>2, <2>0 DEF Trade, LifeStatus, Exists
  <2>2. LifeStatus(u) \in {"NONE", "LOCKED", "IN_TRANSIT"} =>
          "CONFIRM_ARRIVAL" \notin MilestonesOf(u)
    <3>1. trades[u].status # "NONE"
      BY TypeGroups DEF LifeInv, MoneyInv, TypeInv, RecordTypes, Trade, TradeStatus
    <3>2. LifeStatus(u) \in {"NONE", "LOCKED", "IN_TRANSIT"} => trades[u].arrivalTimestamp = 0
      BY <3>1 DEF LifeInv, MoneyInv, FreshTrades, NoTrade, NoEarlyArrival, LifeStatus, Exists
    <3> QED
      BY <3>2, MilestonesAreMarks DEF Marks
  <2>3. "CONFIRM_ARRIVAL" \notin MilestonesOf(u)'
    BY <1>2, <2>1, <2>2
       DEF Lives, Lifecycle!chainVars, Lifecycle!tradeVars, Lifecycle!LifecycleNext,
           Lifecycle!Create, Lifecycle!Milestone, Lifecycle!Accepts, Lifecycle!TriggerTypes,
           Lifecycle!Before, Lifecycle!After, Lifecycle!Withdraw, Lifecycle!Dispute,
           Lifecycle!Decide, Lifecycle!WindowPasses, Lifecycle!Switch, LifeStatus, Exists
  <2> QED
    BY <2>1, <2>3, MilestonesAreMarks DEF Marks
<1> QED
  BY <1>1, <1>2

\* So is that an arrival leaves its time behind.
LEMMA ArrivalIsKnownStep ==
  ASSUME LifeInv, MoneyInv', NEW u \in TradeIds, Lives(u),
         trades'[u].status = "ARRIVAL_CONFIRMED"
  PROVE  trades'[u].arrivalTimestamp > 0
<1>1. Exists(u)'
  BY DEF MoneyInv, FreshTrades, NoTrade
<1>2. LifeStatus(u)' = "ARRIVAL_CONFIRMED"
  BY <1>1 DEF LifeStatus, Exists
<1>3. LifeStatus(u) = "ARRIVAL_CONFIRMED" => "CONFIRM_ARRIVAL" \in MilestonesOf(u)
  <2>1. LifeStatus(u) = "ARRIVAL_CONFIRMED" => trades[u].arrivalTimestamp > 0
    BY DEF LifeInv, ArrivalIsKnown, LifeStatus
  <2> QED
    BY <2>1, MilestonesAreMarks DEF Marks
<1>4. "CONFIRM_ARRIVAL" \in MilestonesOf(u)'
  BY <1>2, <1>3
     DEF Lives, Lifecycle!chainVars, Lifecycle!tradeVars, Lifecycle!LifecycleNext,
         Lifecycle!Create, Lifecycle!Milestone, Lifecycle!TriggerTypes, Lifecycle!After,
         Lifecycle!Withdraw, Lifecycle!Dispute, Lifecycle!Decide, Lifecycle!WindowPasses,
         Lifecycle!Switch, LifeStatus
<1> QED
  BY <1>4, MilestonesAreMarks DEF Marks

\* Every trade makes a step of its life, or none.
AllLive == \A t \in TradeIds : Lives(t)

LEMMA LifeInvStep ==
  ASSUME LifeInv, [Next]_vars
  PROVE  LifeInv' /\ AllLive
<1>1. MoneyInv'
  BY MoneyInvStep DEF LifeInv
<1>2. GovTypeOK'
  <2>1. GovTypeOK
    BY TypeGroups DEF LifeInv, MoneyInv, TypeInv
  <2> QED
    BY <2>1, GovernancePart, GovTypeStep
<1>3. AllLive
  BY <1>2, LifeStep DEF AllLive
<1>4. NoEarlyArrival'
  BY <1>1, <1>3, NoEarlyArrivalStep DEF AllLive, NoEarlyArrival
<1>5. ArrivalIsKnown'
  BY <1>1, <1>3, ArrivalIsKnownStep DEF AllLive, ArrivalIsKnown
<1> QED
  BY <1>1, <1>3, <1>4, <1>5 DEF LifeInv

LEMMA LifeInitial ==
  ASSUME Init
  PROVE  LifeInv /\ \A t \in TradeIds : Lifecycle(t)!LifecycleInit
<1>1. /\ trades = [t \in TradeIds |-> NoTrade]
      /\ tradeCounter = 0
      /\ claimableAccrued = [t \in TradeIds |-> [c \in ClaimType |-> 0]]
      /\ paused = FALSE
      /\ oracleActive = TRUE
  BY DEF Init, TradeInit, GovInit
<1>2. NoEarlyArrival /\ ArrivalIsKnown
  BY <1>1 DEF NoEarlyArrival, ArrivalIsKnown, NoTrade
<1>3. \A t \in TradeIds : MilestonesOf(t) = {}
  BY <1>1, MilestonesAreMarks DEF Marks, NoTrade, ClaimType
<1>4. \A t \in TradeIds : Lifecycle(t)!LifecycleInit
  BY <1>1, <1>3 DEF NoTrade, TradeIds, Lifecycle!LifecycleInit
<1> QED
  BY <1>2, <1>4, MoneyInvInit DEF LifeInv

(***************************************************************************)
(* The contract implements TradeLifecycle for each of its trades: however  *)
(* many trades, admins and amounts there are, no transaction moves a trade *)
(* but along that life, and a milestone leaves on-chain what the oracle    *)
(* service takes it for (releaseFundsStage1, confirmArrival,               *)
(* finalizeAfterDisputeWindow, the timeouts and the disputes).             *)
(***************************************************************************)
THEOREM LifecycleImplemented == Spec => ImplementsLifecycle
<1>1. Init => LifeInv /\ \A t \in TradeIds : Lifecycle(t)!LifecycleInit
  BY LifeInitial
<1>2. LifeInv /\ [Next]_vars => LifeInv' /\ AllLive
  BY LifeInvStep
<1> QED
  BY <1>1, <1>2, PTL DEF Spec, ImplementsLifecycle, AllLive, Lives

(***************************************************************************)
(* However long a trade, a pause or the governance takes: once the goods   *)
(* have arrived, and unless the protocol is paused, the contract accepts   *)
(* at every time either the buyer's openDispute or anybody's               *)
(* finalizeAfterDisputeWindow, and never both.                             *)
(***************************************************************************)
THEOREM WindowHasNoGapHolds == Spec => []WindowHasNoGap
<1>1. Init => LifeInv
  BY LifeInitial
<1>2. LifeInv /\ [Next]_vars => LifeInv'
  BY LifeInvStep
<1>3. LifeInv => WindowHasNoGap
  <2> SUFFICES ASSUME LifeInv, NEW t \in Created, ~paused,
                      trades[t].status = "ARRIVAL_CONFIRMED"
               PROVE  AcceptsDispute(trades[t].buyerAddress, t) # AcceptsFinalization(t)
    BY DEF WindowHasNoGap
  <2>1. RecordTypes /\ GovTypeOK
    BY TypeGroups DEF LifeInv, MoneyInv, TypeInv
  <2>2. t \in TradeIds /\ Exists(t)
    BY DEF Created, Exists
  <2>3. /\ now \in Nat /\ DisputeWindow \in Nat /\ trades[t].arrivalTimestamp \in Nat
        /\ trades[t].arrivalTimestamp > 0
    BY <2>1, <2>2, EscrowAssumption DEF RecordTypes, Trade, GovTypeOK, LifeInv, ArrivalIsKnown
  <2>4. now <= trades[t].arrivalTimestamp + DisputeWindow
          <=> ~(now > trades[t].arrivalTimestamp + DisputeWindow)
    BY <2>3
  <2>5. AcceptsDispute(trades[t].buyerAddress, t) <=> ~AcceptsFinalization(t)
    BY <2>2, <2>3, <2>4, Zenon DEF AcceptsDispute, AcceptsFinalization
  <2> QED
    BY <2>5, Zenon DEF AcceptsDispute, AcceptsFinalization
<1> QED
  BY <1>1, <1>2, <1>3, PTL DEF Spec
===============================================================================
