------------------------ MODULE GatewayGovernanceProofs ------------------------
(***************************************************************************)
(* Proofs about GatewayGovernance, for any accounts, actions, executors    *)
(* and bounds: what the queue's rows, the executors' copies of them, the   *)
(* broadcast transactions and the contract say of each other, however the  *)
(* routes, the executors, the cleanup, crashes and direct calls            *)
(* interleave.  The contract's part rests on EscrowGovernanceProofs.       *)
(***************************************************************************)
EXTENDS GatewayGovernance, EscrowGovernanceProofs

-------------------------------------------------------------------------------
(* The inductive invariant *)

Run ==
  [id : ActionIds, row : GovernanceActionRecord, signer : Accounts, tx : Transaction \cup {None}]

Receipt == [tx : Transaction, proposalId : Nat \cup {None}]

GatewayTypeOK ==
  /\ GovTypeOK
  /\ actions \in [ActionIds -> GovernanceActionRecord \cup {None}]
  /\ executors \in [Executors -> Run \cup {Idle}]
  /\ cleanup \in [id : ActionIds, row : GovernanceActionRecord] \cup {None}
  /\ sends \in [ActionIds -> Nat]
  /\ crashes \in [ActionIds -> Nat]
  /\ mempool \in SUBSET Transaction
  /\ mined \in SUBSET Receipt

\* What the methods that take a proposal id, or propose an address, are queued with.
Addressed(method, proposalId, target) ==
  /\ TakesProposal(method) => proposalId \in ProposalIds
  /\ method \in ProposeMethods => target \in Accounts

\* Two versions of a row: only what an execution finds out differs.
SameAction(row, other) ==
  /\ row.method = other.method
  /\ row.target = other.target
  /\ row.intentKey = other.intentKey
  /\ row.audit = other.audit
  /\ row.expiresAt = other.expiresAt
  /\ TakesProposal(row.method) => row.proposalId = other.proposalId

\* The rows fill the table in order.
RowsInOrder ==
  \A id \in ActionIds :
    Exists(id) => /\ \A other \in 1 .. id - 1 : Exists(other)
                  /\ Addressed(actions[id].method, actions[id].proposalId, actions[id].target)

\* An executor alone holds its action, as it was but for the outcome, and signs what it may.
RunsTrue ==
  \A e \in Executors : executors[e].id # None =>
    /\ Exists(executors[e].id)
    /\ SameAction(executors[e].row, actions[executors[e].id])
    /\ SignerAllowed(executors[e].row, executors[e].signer)
    /\ executors[e].tx # None =>
         /\ executors[e].tx.action = executors[e].id
         /\ executors[e].tx.method = executors[e].row.method
         /\ executors[e].tx.proposalId = executors[e].row.proposalId
    /\ \A f \in Executors : executors[f].id = executors[e].id => f = e

\* The cleanup holds a row that has expired.
CleanupTrue ==
  cleanup # None =>
    /\ Exists(cleanup.id)
    /\ SameAction(cleanup.row, actions[cleanup.id])
    /\ actions[cleanup.id].expiresAt <= now

\* Whoever may send an action next has a crash behind each earlier broadcast.
SendsPaid ==
  /\ \A id \in ActionIds :
       /\ sends[id] <= 1 + crashes[id]
       /\ ~Exists(id) \/ (actions[id].status = "requested" /\ ~Locked(id)) =>
            sends[id] <= crashes[id]
  /\ \A e \in Executors :
       executors[e].id # None /\ executors[e].tx = None =>
         sends[executors[e].id] <= crashes[executors[e].id]

\* A transaction is its action's.
SentTrue ==
  \A tx \in Sent :
    /\ Exists(tx.action)
    /\ tx.method = actions[tx.action].method
    /\ Addressed(tx.method, tx.proposalId, tx.target)
    /\ tx.method \in ApprovalMethods => tx.signer = actions[tx.action].audit.actorWallet

\* An action that an executor holds is in the queue still, or expired there.
HeldOpen ==
  \A id \in ActionIds : Exists(id) /\ Locked(id) =>
    \/ actions[id].status = "requested"
    \/ actions[id].status = "stale" /\ actions[id].expiresAt <= now

\* Of two rows of one intent the older one is over for good, or a queue lifetime apart.
IntentsApart ==
  \A i, j \in ActionIds :
    /\ i < j /\ Exists(i) /\ Exists(j)
    /\ actions[i].intentKey = actions[j].intentKey
    => \/ actions[i].expiresAt + QueueTTL <= actions[j].expiresAt
       \/ actions[i].status \notin OpenStatuses /\ ~Locked(i)

ExecuteMethods == {"executeTreasuryPayoutAddressUpdate", "executeOracleUpdate"}

CancelMethods ==
  {"cancelExpiredTreasuryPayoutAddressUpdateProposal", "cancelExpiredOracleUpdateProposal"}

ProposalOf(method, proposalId) == govProposals[KindOf(method)][proposalId]

\* A proposal that a mined transaction is about was made, and decided as it says.
ReceiptTrue(receipt) ==
  LET method == receipt.tx.method  proposal == ProposalOf(method, receipt.tx.proposalId) IN
    /\ receipt.proposalId = None
    /\ receipt.tx.proposalId < govCounter[KindOf(method)]
    /\ proposal.createdAt # 0
    /\ method \in ExecuteMethods => proposal.executed
    /\ method \in CancelMethods => proposal.cancelled

MinedTrue == \A receipt \in mined : TakesProposal(receipt.tx.method) => ReceiptTrue(receipt)

OutcomeStatuses == {"pending_approvals", "approved", "executed", "cancelled", "expired"}

\* RecordedOutcomeHappened for one row.
RowTrue(id, row) ==
  row.status \in OutcomeStatuses =>
    /\ \E receipt \in mined : receipt.tx = row.txHash /\ receipt.tx.action = id
    /\ TakesProposal(row.method) =>
         LET proposal == ProposalOf(row.method, row.proposalId)
         IN  /\ row.status = "executed" => proposal.executed
             /\ row.status = "cancelled" => proposal.cancelled
             /\ row.status = "approved" => proposal.approvalCount >= governanceApprovals

RowsTrue == \A id \in ActionIds : Exists(id) => RowTrue(id, actions[id])

GatewayInv ==
  /\ GatewayTypeOK
  /\ RowsInOrder
  /\ RunsTrue
  /\ CleanupTrue
  /\ SendsPaid
  /\ SentTrue
  /\ HeldOpen
  /\ IntentsApart
  /\ MinedTrue
  /\ NumberedInOrder
  /\ RowsTrue

USE DEF govVars, switchVars, roleVars, unpauseVars, proposalVars,
        chainVars, txVars, gatewayVars, vars, Idle, Kinds


-------------------------------------------------------------------------------
(* The transactions *)

\* A call of the SDK that succeeds is a step of the contract.
LEMMA CallIsContractStep ==
  ASSUME GovTypeOK, NEW tx, Succeeds(tx),
         TakesProposal(tx.method) => tx.proposalId \in ProposalIds,
         tx.method \in ProposeMethods \cup {"proposeAddAdmin"} => tx.target \in Accounts
  PROVE  [GovNext]_govVars
<1> DEFINE a == tx.signer
           id == tx.proposalId
           target == tx.target
<1>1. CASE PauseControl(tx) \/ EmergencyControl(tx)
  <2>1. SwitchStep(a)
    BY <1>1, Zenon DEF PauseControl, EmergencyControl, SwitchStep
  <2>2. a \in admins
    BY <2>1, Zenon DEF SwitchStep, pause, pauseClaims, unpauseClaims, disableOracleEmergency,
       proposeUnpause, approveUnpause, cancelUnpauseProposal
  <2>3. a \in Accounts
    BY <2>2 DEF GovTypeOK
  <2> QED
    BY <2>1, <2>3, Zenon DEF GovNext, GovStep
<1>2. CASE \/ tx.method = "proposeTreasuryPayoutAddressUpdate"
              /\ proposeTreasuryPayoutAddressUpdate(a, target)
           \/ tx.method = "proposeOracleUpdate" /\ proposeOracleUpdate(a, target)
           \/ tx.method = "proposeAddAdmin" /\ proposeAddAdmin(a, target)
  <2>1. ProposeStep(a, target)
    BY <1>2, Zenon DEF ProposeStep
  <2>2. a \in admins
    BY <2>1, Zenon DEF ProposeStep, proposeTreasuryPayoutAddressUpdate, proposeOracleUpdate,
       proposeAddAdmin, NewProposal, MayPropose
  <2>3. a \in Accounts
    BY <2>2 DEF GovTypeOK
  <2>4. target \in Accounts \cup {ZeroAddress}
    BY <1>2 DEF ProposeMethods
  <2> QED
    BY <2>1, <2>3, <2>4, Zenon DEF GovNext, GovStep
<1>3. CASE \/ tx.method = "approveTreasuryPayoutAddressUpdate"
              /\ approveTreasuryPayoutAddressUpdate(a, id)
           \/ tx.method = "executeTreasuryPayoutAddressUpdate"
              /\ executeTreasuryPayoutAddressUpdate(a, id)
           \/ tx.method = "cancelExpiredTreasuryPayoutAddressUpdateProposal"
              /\ cancelExpiredTreasuryPayoutAddressUpdateProposal(a, id)
           \/ tx.method = "approveOracleUpdate" /\ approveOracleUpdate(a, id)
           \/ tx.method = "executeOracleUpdate" /\ executeOracleUpdate(a, id)
           \/ tx.method = "cancelExpiredOracleUpdateProposal"
              /\ cancelExpiredOracleUpdateProposal(a, id)
           \/ tx.method = "approveAddAdmin" /\ approveAddAdmin(a, id)
           \/ tx.method = "executeAddAdmin" /\ executeAddAdmin(a, id)
           \/ tx.method = "cancelExpiredAddAdminProposal"
              /\ cancelExpiredAddAdminProposal(a, id)
  <2>1. ProposalStep(a, id)
    BY <1>3, Zenon DEF ProposalStep
  <2>2. a \in admins
    BY <2>1, Zenon DEF ProposalStep, approveTreasuryPayoutAddressUpdate,
       executeTreasuryPayoutAddressUpdate, cancelExpiredTreasuryPayoutAddressUpdateProposal,
       approveOracleUpdate, executeOracleUpdate, cancelExpiredOracleUpdateProposal,
       approveAddAdmin, executeAddAdmin, cancelExpiredAddAdminProposal,
       ApproveProposal, ExecuteProposal, CancelExpiredProposal
  <2>3. a \in Accounts
    BY <2>2 DEF GovTypeOK
  <2>4. id \in ProposalIds
    BY <1>3 DEF TakesProposal, ProposalMethods, ApprovalMethods, AddAdminMethods
  <2> QED
    BY <2>1, <2>3, <2>4, Zenon DEF GovNext, GovStep
<1>4. CASE claimTreasury(tx)
  BY <1>4 DEF claimTreasury
<1> QED
  BY <1>1, <1>2, <1>3, <1>4, Zenon
     DEF Succeeds, PayoutGovernance, OracleGovernance, AddAdminGovernance

\* A call about a proposal of the queue's two families finds it made, and decides it.
LEMMA CallDecides ==
  ASSUME GovTypeOK, NEW tx, Succeeds(tx), tx.method \in Methods, TakesProposal(tx.method),
         tx.proposalId \in ProposalIds
  PROVE  /\ KindOf(tx.method) \in Kinds
         /\ tx.proposalId < govCounter[KindOf(tx.method)]
         /\ ProposalOf(tx.method, tx.proposalId).createdAt # 0
         /\ tx.method \in ExecuteMethods => ProposalOf(tx.method, tx.proposalId)'.executed
         /\ tx.method \in CancelMethods => ProposalOf(tx.method, tx.proposalId)'.cancelled
<1> DEFINE a    == tx.signer
           id   == tx.proposalId
           kind == KindOf(tx.method)
<1>1. tx.method \in {"approveTreasuryPayoutAddressUpdate", "executeTreasuryPayoutAddressUpdate",
                     "cancelExpiredTreasuryPayoutAddressUpdateProposal", "approveOracleUpdate",
                     "executeOracleUpdate", "cancelExpiredOracleUpdateProposal"}
  BY DEF Methods, TakesProposal, ProposalMethods, ApprovalMethods, AddAdminMethods,
         ProposeMethods, SwitchMethods
<1>2. kind \in Kinds
  BY DEF KindOf
<1>3. \/ /\ tx.method \in {"approveTreasuryPayoutAddressUpdate", "approveOracleUpdate"}
         /\ ApproveProposal(kind, a, id)
      \/ tx.method \in ExecuteMethods /\ ExecuteProposal(kind, a, id)
      \/ tx.method \in CancelMethods /\ CancelExpiredProposal(kind, a, id)
  <2>1. \/ tx.method = "approveTreasuryPayoutAddressUpdate"
           /\ approveTreasuryPayoutAddressUpdate(a, id)
        \/ tx.method = "executeTreasuryPayoutAddressUpdate"
           /\ executeTreasuryPayoutAddressUpdate(a, id)
        \/ tx.method = "cancelExpiredTreasuryPayoutAddressUpdateProposal"
           /\ cancelExpiredTreasuryPayoutAddressUpdateProposal(a, id)
        \/ tx.method = "approveOracleUpdate" /\ approveOracleUpdate(a, id)
        \/ tx.method = "executeOracleUpdate" /\ executeOracleUpdate(a, id)
        \/ tx.method = "cancelExpiredOracleUpdateProposal"
           /\ cancelExpiredOracleUpdateProposal(a, id)
    <3>1. \/ PauseControl(tx) \/ EmergencyControl(tx) \/ PayoutGovernance(tx)
          \/ OracleGovernance(tx) \/ AddAdminGovernance(tx) \/ claimTreasury(tx)
      BY Zenon DEF Succeeds
    <3>2. ~PauseControl(tx) /\ ~EmergencyControl(tx) /\ ~AddAdminGovernance(tx)
          /\ ~claimTreasury(tx)
      BY <1>1, Zenon DEF PauseControl, EmergencyControl, AddAdminGovernance, claimTreasury
    <3>3. /\ tx.method # "proposeTreasuryPayoutAddressUpdate"
          /\ tx.method # "proposeOracleUpdate"
      BY <1>1
    <3> QED
      BY <3>1, <3>2, <3>3, Zenon DEF PayoutGovernance, OracleGovernance
  <2>2. KindOf("approveTreasuryPayoutAddressUpdate") = "payout"
        /\ KindOf("executeTreasuryPayoutAddressUpdate") = "payout"
        /\ KindOf("cancelExpiredTreasuryPayoutAddressUpdateProposal") = "payout"
        /\ KindOf("approveOracleUpdate") = "oracle"
        /\ KindOf("executeOracleUpdate") = "oracle"
        /\ KindOf("cancelExpiredOracleUpdateProposal") = "oracle"
    BY DEF KindOf
  <2> QED
    BY <2>1, <2>2, Zenon DEF approveTreasuryPayoutAddressUpdate,
       executeTreasuryPayoutAddressUpdate, cancelExpiredTreasuryPayoutAddressUpdateProposal,
       approveOracleUpdate, executeOracleUpdate, cancelExpiredOracleUpdateProposal,
       ExecuteMethods, CancelMethods
<1> HIDE DEF kind
<1>4. OpenProposal(kind, id)
  BY <1>3, Zenon DEF ApproveProposal, ExecuteProposal, CancelExpiredProposal
<1>5. id < govCounter[kind] /\ govProposals[kind][id].createdAt # 0
  BY <1>2, <1>4 DEF OpenProposal, GovTypeOK
<1>6. ExecuteProposal(kind, a, id) => govProposals'[kind][id].executed
  BY <1>2, ExecuteEffect
<1>7. CancelExpiredProposal(kind, a, id) => govProposals'[kind][id].cancelled
  BY <1>2, CancelEffect
<1>8. /\ tx.method \in ExecuteMethods => ~(tx.method \in CancelMethods)
      /\ tx.method \in {"approveTreasuryPayoutAddressUpdate", "approveOracleUpdate"} =>
           ~(tx.method \in CancelMethods) /\ ~(tx.method \in ExecuteMethods)
  BY DEF ExecuteMethods, CancelMethods
<1> QED
  BY <1>2, <1>3, <1>5, <1>6, <1>7, <1>8 DEF ProposalOf, kind

LEMMA KindOfType == \A method : KindOf(method) \in Kinds
BY DEF KindOf

LEMMA TransactionFields ==
  ASSUME NEW tx \in Transaction
  PROVE  /\ tx.action \in ActionIds /\ tx.method \in Methods /\ tx.signer \in Accounts
         /\ tx.proposalId \in Nat \cup {None} /\ tx.target \in Targets /\ tx # None
BY GatewayAssumption DEF Transaction

LEMMA RowFields ==
  ASSUME NEW row \in GovernanceActionRecord
  PROVE  /\ row.status \in GOVERNANCE_ACTION_STATUSES /\ row.method \in Methods
         /\ row.proposalId \in Nat \cup {None} /\ row.target \in Targets
         /\ row.audit \in [actorWallet : Accounts] /\ row.expiresAt \in Nat
         /\ row.txHash \in Transaction \cup {None} /\ row # None
BY GatewayAssumption DEF GovernanceActionRecord

LEMMA RowAt ==
  ASSUME GatewayTypeOK, NEW id \in ActionIds, Exists(id)
  PROVE  actions[id] \in GovernanceActionRecord
BY DEF GatewayTypeOK, Exists

LEMMA RunFields ==
  ASSUME NEW run \in Run
  PROVE  /\ run.id \in ActionIds /\ run.row \in GovernanceActionRecord
         /\ run.signer \in Accounts /\ run.tx \in Transaction \cup {None}
         /\ run.id # None
<1>1. None \notin ActionIds
  BY GatewayAssumption
<1> QED
  BY <1>1 DEF Run

LEMMA RunAt ==
  ASSUME GatewayTypeOK, NEW e \in Executors, executors[e].id # None
  PROVE  executors[e] \in Run
<1>1. Idle.id = None
  OBVIOUS
<1> QED
  BY <1>1 DEF GatewayTypeOK

LEMMA AwaitsRuns ==
  ASSUME GatewayTypeOK, NEW e \in Executors, executors[e].tx # None
  PROVE  executors[e].id # None
<1>1. Idle.tx = None
  OBVIOUS
<1>2. executors[e] \in Run
  BY <1>1 DEF GatewayTypeOK
<1> QED
  BY <1>2, RunFields

LEMMA SentTyped ==
  ASSUME GatewayTypeOK
  PROVE  /\ Sent \subseteq Transaction
         /\ \A receipt \in mined : receipt.tx \in Transaction /\ receipt.tx \in Sent
BY DEF GatewayTypeOK, Sent, Receipt

\* What a receipt says stays true, and so does what a row says.
LEMMA ReceiptStays ==
  ASSUME GovTypeOK, GovTypeOK', ProposalsKept, NEW receipt, ReceiptTrue(receipt),
         receipt.tx.proposalId \in ProposalIds
  PROVE  ReceiptTrue(receipt)'
<1> DEFINE kind == KindOf(receipt.tx.method)
           id   == receipt.tx.proposalId
<1>1. kind \in Kinds
  BY KindOfType
<1>2. Kept(govProposals[kind][id], govProposals'[kind][id]) /\ govCounter[kind] <= govCounter'[kind]
  BY <1>1 DEF ProposalsKept
<1>3. id \in Int /\ govCounter[kind] \in Int /\ govCounter'[kind] \in Int
  BY <1>1, GovernanceAssumption DEF GovTypeOK, ProposalIds
<1> QED
  BY <1>2, <1>3 DEF ReceiptTrue, Kept, ProposalOf

LEMMA RowStays ==
  ASSUME GovTypeOK, GovTypeOK', ProposalsKept, mined \subseteq mined', NEW id, NEW row,
         RowTrue(id, row), TakesProposal(row.method) => row.proposalId \in ProposalIds
  PROVE  RowTrue(id, row)'
<1>1. CASE TakesProposal(row.method)
  <2> DEFINE p == ProposalOf(row.method, row.proposalId)
             q == govProposals'[KindOf(row.method)][row.proposalId]
  <2>1. KindOf(row.method) \in Kinds
    BY KindOfType
  <2>2. Kept(p, q)
    BY <1>1, <2>1 DEF ProposalsKept, ProposalOf
  <2>3. p \in GovProposal /\ q \in GovProposal
    BY <1>1, <2>1 DEF ProposalOf, GovTypeOK
  <2>4. p.approvalCount \in Nat /\ q.approvalCount \in Nat /\ governanceApprovals \in Nat
    BY <2>3, ProposalFields, ApprovalsType
  <2>5. /\ p.executed => q.executed
        /\ p.cancelled => q.cancelled
        /\ p.approvalCount >= governanceApprovals => q.approvalCount >= governanceApprovals
    BY <2>2, <2>4 DEF Kept
  <2>6. q = ProposalOf(row.method, row.proposalId)'
    BY DEF ProposalOf
  <2> HIDE DEF p, q
  <2> QED
    BY <2>5, <2>6 DEF RowTrue, p, governanceApprovals
<1>2. CASE ~TakesProposal(row.method)
  BY <1>2 DEF RowTrue
<1> QED
  BY <1>1, <1>2

LEMMA ContractStepKeeps ==
  ASSUME GatewayInv, [GovNext]_govVars, UNCHANGED gatewayVars, mempool' \subseteq mempool,
         mined \subseteq mined', mined' \in SUBSET Receipt, Sent' = Sent,
         \A receipt \in mined' : receipt \notin mined /\ TakesProposal(receipt.tx.method) =>
           ReceiptTrue(receipt)'
  PROVE  GatewayInv' /\ ProposalsKept
<1>1. GovTypeOK' /\ NumberedInOrder' /\ ProposalsKept /\ GovTypeOK
  BY ContractKeeps DEF GatewayInv, GatewayTypeOK
<1>2. now \in Int /\ now' \in Int /\ now <= now'
  BY <1>1 DEF ProposalsKept, GovTypeOK
<1>3. GatewayTypeOK'
  BY <1>1 DEF GatewayInv, GatewayTypeOK
<1>4. RowsInOrder' /\ RunsTrue' /\ SendsPaid' /\ IntentsApart'
  BY Zenon DEF GatewayInv, RowsInOrder, RunsTrue, SendsPaid, IntentsApart, Exists, Locked
<1>5. CleanupTrue'
  <2> SUFFICES ASSUME cleanup # None
               PROVE  actions[cleanup.id].expiresAt <= now'
    BY DEF GatewayInv, CleanupTrue, Exists
  <2>1. actions[cleanup.id].expiresAt <= now /\ Exists(cleanup.id) /\ cleanup.id \in ActionIds
    BY DEF GatewayInv, GatewayTypeOK, CleanupTrue
  <2>2. actions[cleanup.id].expiresAt \in Int
    BY <2>1, RowAt, RowFields DEF GatewayInv
  <2> QED
    BY <1>2, <2>1, <2>2
<1>6. HeldOpen'
  <2> SUFFICES ASSUME NEW id \in ActionIds, Exists(id), Locked(id), actions[id].status # "requested"
               PROVE  actions[id].status = "stale" /\ actions[id].expiresAt <= now'
    BY DEF HeldOpen, Exists, Locked
  <2>1. actions[id].status = "stale" /\ actions[id].expiresAt <= now
    BY DEF GatewayInv, HeldOpen
  <2>2. actions[id].expiresAt \in Int
    BY RowAt, RowFields DEF GatewayInv
  <2> QED
    BY <1>2, <2>1, <2>2
<1>7. SentTrue'
  BY Zenon DEF GatewayInv, SentTrue, Exists
<1>8. MinedTrue'
  <2> SUFFICES ASSUME NEW receipt \in mined, TakesProposal(receipt.tx.method)
               PROVE  ReceiptTrue(receipt)'
    BY DEF MinedTrue
  <2>1. receipt.tx.proposalId \in ProposalIds
    BY SentTyped DEF GatewayInv, SentTrue, Addressed
  <2>2. ReceiptTrue(receipt)
    BY DEF GatewayInv, MinedTrue
  <2> QED
    BY <1>1, <2>1, <2>2, ReceiptStays
<1>9. RowsTrue'
  <2> SUFFICES ASSUME NEW id \in ActionIds, Exists(id)
               PROVE  RowTrue(id, actions[id])'
    BY DEF RowsTrue, Exists
  <2>1. PICK row : row = actions[id]
    OBVIOUS
  <2>2. RowTrue(id, row)
    BY <2>1 DEF GatewayInv, RowsTrue
  <2>3. TakesProposal(row.method) => row.proposalId \in ProposalIds
    BY <2>1 DEF GatewayInv, RowsInOrder, Addressed
  <2>4. RowTrue(id, row)'
    BY <1>1, <2>2, <2>3, RowStays
  <2>5. actions'[id] = row
    BY <2>1
  <2> QED
    BY <2>4, <2>5 DEF RowTrue
<1> QED
  BY <1>1, <1>3, <1>4, <1>5, <1>6, <1>7, <1>8, <1>9 DEF GatewayInv

LEMMA MineKeeps ==
  ASSUME GatewayInv, NEW tx \in mempool, Mine(tx), UNCHANGED gatewayVars
  PROVE  GatewayInv' /\ [GovNext]_govVars
<1>0. PICK receipt : receipt = [tx |-> tx, proposalId |-> ProposalIdOf(tx)]
  OBVIOUS
<1>1. /\ Succeeds(tx)
      /\ mempool' = mempool \ {tx}
      /\ mined' = mined \cup {receipt}
  BY <1>0 DEF Mine
<1>2. tx \in Transaction /\ tx \in Sent /\ GovTypeOK
  BY SentTyped DEF GatewayInv, GatewayTypeOK, Sent
<1>3. tx.method \in Methods
  BY <1>2, TransactionFields
<1>4. Addressed(tx.method, tx.proposalId, tx.target)
  BY <1>2 DEF GatewayInv, SentTrue
<1>5. tx.method # "proposeAddAdmin"
  BY <1>3 DEF Methods, ApprovalMethods, ProposeMethods, SwitchMethods, ProposalMethods
<1>6. [GovNext]_govVars
  BY <1>1, <1>2, <1>4, <1>5, CallIsContractStep DEF Addressed
<1>7. receipt \in Receipt /\ receipt.tx = tx /\ receipt.proposalId = ProposalIdOf(tx)
  <2>1. KindOf(tx.method) \in Kinds
    BY KindOfType
  <2>2. govCounter[KindOf(tx.method)] \in Nat
    BY <1>2, <2>1, GovernanceAssumption DEF GovTypeOK
  <2> QED
    BY <1>0, <1>2, <2>2 DEF Receipt, ProposalIdOf
<1>8. Sent' = Sent
  BY <1>1, <1>7 DEF Sent
<1>9. ASSUME TakesProposal(tx.method)
      PROVE  ReceiptTrue(receipt)'
  <2>1. tx.proposalId \in ProposalIds
    BY <1>4, <1>9 DEF Addressed
  <2>2. /\ KindOf(tx.method) \in Kinds
        /\ tx.proposalId < govCounter[KindOf(tx.method)]
        /\ ProposalOf(tx.method, tx.proposalId).createdAt # 0
        /\ tx.method \in ExecuteMethods => ProposalOf(tx.method, tx.proposalId)'.executed
        /\ tx.method \in CancelMethods => ProposalOf(tx.method, tx.proposalId)'.cancelled
    BY <1>1, <1>2, <1>3, <1>9, <2>1, CallDecides
  <2>3. GovTypeOK' /\ ProposalsKept
    BY <1>2, <1>6, ContractKeeps DEF GatewayInv
  <2>4. tx.proposalId < govCounter'[KindOf(tx.method)]
    <3>1. govCounter[KindOf(tx.method)] <= govCounter'[KindOf(tx.method)]
      BY <2>2, <2>3 DEF ProposalsKept
    <3>2. /\ govCounter[KindOf(tx.method)] \in Int /\ govCounter'[KindOf(tx.method)] \in Int
          /\ tx.proposalId \in Int
      BY <1>2, <2>1, <2>2, <2>3, GovernanceAssumption DEF GovTypeOK, ProposalIds
    <3> QED
      BY <2>2, <3>1, <3>2
  <2>5. ProposalOf(tx.method, tx.proposalId)'.createdAt # 0
    BY <2>1, <2>2, <2>3 DEF ProposalsKept, Kept, ProposalOf
  <2>6. ProposalIdOf(tx) = None
    <3>1. tx.method \notin ProposeMethods
      BY <1>9 DEF TakesProposal, ProposalMethods, ApprovalMethods, AddAdminMethods, ProposeMethods
    <3> QED
      BY <3>1 DEF ProposalIdOf
  <2>7. ReceiptTrue(receipt)' <=>
          /\ receipt.proposalId = None
          /\ receipt.tx.proposalId < govCounter'[KindOf(receipt.tx.method)]
          /\ ProposalOf(receipt.tx.method, receipt.tx.proposalId)'.createdAt # 0
          /\ receipt.tx.method \in ExecuteMethods =>
               ProposalOf(receipt.tx.method, receipt.tx.proposalId)'.executed
          /\ receipt.tx.method \in CancelMethods =>
               ProposalOf(receipt.tx.method, receipt.tx.proposalId)'.cancelled
    BY DEF ReceiptTrue
  <2> QED
    BY <1>7, <2>2, <2>4, <2>5, <2>6, <2>7
<1> QED
  <2>1. mined' \in SUBSET Receipt /\ mined \subseteq mined' /\ mempool' \subseteq mempool
    BY <1>1, <1>7 DEF GatewayInv, GatewayTypeOK
  <2>2. \A other \in mined' : other \notin mined /\ TakesProposal(other.tx.method) =>
          ReceiptTrue(other)'
    BY <1>1, <1>7, <1>9
  <2> QED
    BY <1>6, <1>8, <2>1, <2>2, ContractStepKeeps

\* A direct call is a step of the contract like any other, and of no action.
LEMMA DirectCallKeeps ==
  ASSUME GatewayInv, NEW callers, DirectCall(callers), UNCHANGED gatewayVars
  PROVE  GatewayInv' /\ [GovNext]_govVars
<1>1. PICK signer \in admins \cap callers, method \in Methods \cup AddAdminMethods,
           id \in ProposalIds, target \in ProposalTargets :
        Succeeds([method |-> method, signer |-> signer, proposalId |-> id, target |-> target])
  BY DEF DirectCall
<1>2. UNCHANGED <<mempool, mined>>
  BY DEF DirectCall
<1> DEFINE tx == [method |-> method, signer |-> signer, proposalId |-> id, target |-> target]
<1>3. tx.proposalId = id /\ tx.target = target /\ target \in Accounts
  BY GatewayAssumption
<1> HIDE DEF tx
<1>4. [GovNext]_govVars
  BY <1>1, <1>3, CallIsContractStep DEF GatewayInv, GatewayTypeOK, tx
<1>5. mined' \in SUBSET Receipt /\ Sent' = Sent
  BY <1>2 DEF GatewayInv, GatewayTypeOK, Sent
<1> QED
  BY <1>2, <1>4, <1>5, ContractStepKeeps

LEMMA ChainStepKeeps ==
  ASSUME GatewayInv, ChainStep
  PROVE  GatewayInv' /\ [GovNext]_govVars
<1>1. CASE Tick /\ UNCHANGED <<treasuryDue, txVars>>
  <2>1. [GovNext]_govVars /\ UNCHANGED gatewayVars
    BY <1>1, Zenon DEF GovNext, ChainStep
  <2>2. UNCHANGED <<mempool, mined>>
    BY <1>1
  <2>3. mined' \in SUBSET Receipt /\ Sent' = Sent
    BY <2>2 DEF GatewayInv, GatewayTypeOK, Sent
  <2> QED
    BY <2>1, <2>2, <2>3, ContractStepKeeps
<1>2. CASE \E tx \in mempool : Mine(tx)
  BY <1>2, MineKeeps DEF ChainStep
<1>3. CASE \E callers : DirectCall(callers)
  BY <1>3, DirectCallKeeps DEF ChainStep
<1> QED
  BY <1>1, <1>2, <1>3, Zenon DEF ChainStep

-------------------------------------------------------------------------------
(* The rows *)

LEMMA ChainUntouched ==
  ASSUME GatewayInv, UNCHANGED <<chainVars, mined>>
  PROVE  GovTypeOK' /\ MinedTrue' /\ NumberedInOrder'
         /\ \A id, row : RowTrue(id, row) => RowTrue(id, row)'
<1>1. GovTypeOK'
  BY DEF GatewayInv, GatewayTypeOK, GovTypeOK
<1>2. MinedTrue' /\ NumberedInOrder'
  BY DEF GatewayInv, MinedTrue, ReceiptTrue, NumberedInOrder, ProposalOf
<1>3. \A id, row : RowTrue(id, row) => RowTrue(id, row)'
  BY DEF RowTrue, ProposalOf
<1> QED
  BY <1>1, <1>2, <1>3

\* A row is written again: it is still the same action, and the others stay.
LEMMA RowWritten ==
  ASSUME GatewayInv, NEW id \in ActionIds, Exists(id), NEW row \in GovernanceActionRecord,
         SameAction(row, actions[id]), RowTrue(id, row),
         actions' = [actions EXCEPT ![id] = row], UNCHANGED <<chainVars, mempool, mined>>
  PROVE  /\ actions' \in [ActionIds -> GovernanceActionRecord \cup {None}]
         /\ \A other \in ActionIds :
              /\ Exists(other)' <=> Exists(other)
              /\ actions'[other] = IF other = id THEN row ELSE actions[other]
              /\ Exists(other) =>
                   /\ SameAction(actions'[other], actions[other])
                   /\ actions'[other].expiresAt = actions[other].expiresAt
                   /\ actions'[other].intentKey = actions[other].intentKey
         /\ RowsInOrder' /\ SentTrue' /\ MinedTrue' /\ NumberedInOrder' /\ RowsTrue'
         /\ GovTypeOK'
<1>1. /\ actions' \in [ActionIds -> GovernanceActionRecord \cup {None}]
      /\ \A other \in ActionIds : actions'[other] = IF other = id THEN row ELSE actions[other]
  BY DEF GatewayInv, GatewayTypeOK
<1>2. \A other \in ActionIds : Exists(other)' <=> Exists(other)
  BY <1>1, RowFields DEF Exists
<1>3. ASSUME NEW other \in ActionIds, Exists(other)
      PROVE  /\ SameAction(actions'[other], actions[other])
             /\ actions'[other].expiresAt = actions[other].expiresAt
             /\ actions'[other].intentKey = actions[other].intentKey
             /\ actions'[other].method = actions[other].method
             /\ actions'[other].target = actions[other].target
             /\ actions'[other].audit = actions[other].audit
             /\ TakesProposal(actions[other].method) =>
                  actions'[other].proposalId = actions[other].proposalId
  BY <1>1 DEF SameAction
<1>4. RowsInOrder'
  <2> SUFFICES ASSUME NEW other \in ActionIds, Exists(other)
               PROVE  /\ \A before \in 1 .. other - 1 : Exists(before)'
                      /\ Addressed(actions'[other].method, actions'[other].proposalId,
                                   actions'[other].target)
    BY <1>2 DEF RowsInOrder, Addressed
  <2>1. Addressed(actions[other].method, actions[other].proposalId, actions[other].target)
        /\ \A before \in 1 .. other - 1 : Exists(before)
    BY DEF GatewayInv, RowsInOrder
  <2>2. \A before \in 1 .. other - 1 : before \in ActionIds
    BY GatewayAssumption
  <2> QED
    BY <1>2, <1>3, <2>1, <2>2 DEF Addressed
<1>5. SentTrue'
  <2>1. Sent' = Sent /\ \A tx \in Sent : tx.action \in ActionIds
    BY SentTyped, TransactionFields DEF GatewayInv, Sent
  <2> QED
    BY <1>2, <1>3, <2>1 DEF GatewayInv, SentTrue
<1>6. RowsTrue'
  <2> SUFFICES ASSUME NEW other \in ActionIds, Exists(other)
               PROVE  RowTrue(other, actions[other])'
    BY <1>2 DEF RowsTrue
  <2>1. PICK new : new = actions'[other]
    OBVIOUS
  <2>2. RowTrue(other, new)
    BY <1>1, <2>1 DEF GatewayInv, RowsTrue
  <2>3. RowTrue(other, new)'
    BY <2>2, ChainUntouched
  <2> QED
    BY <2>1, <2>3 DEF RowTrue
<1> QED
  BY <1>1, <1>2, <1>3, <1>4, <1>5, <1>6, ChainUntouched, Zenon

LEMMA SameActions ==
  ASSUME NEW a, NEW b, NEW c, SameAction(a, b), SameAction(c, b)
  PROVE  SameAction(a, c)
BY DEF SameAction

LEMMA StatusWritten ==
  ASSUME NEW row \in GovernanceActionRecord, NEW status \in GOVERNANCE_ACTION_STATUSES
  PROVE  LET new == [row EXCEPT !.status = status] IN
           /\ new \in GovernanceActionRecord
           /\ SameAction(new, row)
           /\ new.status = status
BY DEF GovernanceActionRecord, SameAction

\* An executor writes how its run ended.
LEMMA FinishKeeps ==
  ASSUME GatewayInv, NEW e \in Executors, executors[e].id # None,
         NEW row \in GovernanceActionRecord, Finish(e, row),
         SameAction(row, executors[e].row), row.status # "requested",
         RowTrue(executors[e].id, row)
  PROVE  GatewayInv'
<1> DEFINE id == executors[e].id
<1>1. /\ actions' = [actions EXCEPT ![id] = row]
      /\ executors' = [executors EXCEPT ![e] = Idle]
      /\ UNCHANGED <<chainVars, txVars, cleanup, crashes, sends>>
  BY DEF Finish, saveActionWithAudit, upsertGovernanceAction
<1>2. executors[e] \in Run /\ id \in ActionIds
  BY RunAt, RunFields DEF GatewayInv
<1>3. /\ Exists(id) /\ SameAction(executors[e].row, actions[id])
      /\ \A f \in Executors : executors[f].id = id => f = e
  BY DEF GatewayInv, RunsTrue
<1> HIDE DEF id
<1>4. SameAction(row, actions[id])
  BY <1>3 DEF SameAction
<1>5. /\ actions' \in [ActionIds -> GovernanceActionRecord \cup {None}]
      /\ \A other \in ActionIds :
           /\ Exists(other)' <=> Exists(other)
           /\ actions'[other] = IF other = id THEN row ELSE actions[other]
           /\ Exists(other) =>
                /\ SameAction(actions'[other], actions[other])
                /\ actions'[other].expiresAt = actions[other].expiresAt
                /\ actions'[other].intentKey = actions[other].intentKey
      /\ RowsInOrder' /\ SentTrue' /\ MinedTrue' /\ NumberedInOrder' /\ RowsTrue'
      /\ GovTypeOK'
  <2>1. RowTrue(id, row) /\ UNCHANGED <<chainVars, mempool, mined>>
    BY <1>1 DEF id
  <2> QED
    BY <1>1, <1>2, <1>3, <1>4, <2>1, RowWritten
<1>6. ASSUME NEW f \in Executors
      PROVE  executors'[f] = IF f = e THEN Idle ELSE executors[f]
  BY <1>1 DEF GatewayInv, GatewayTypeOK
<1>7. Idle.id = None /\ id # None
  BY DEF id
<1>8. \A other \in ActionIds : Locked(other)' <=> Locked(other) /\ other # id
  <2>1. None \notin ActionIds
    BY GatewayAssumption
  <2>2. ASSUME NEW other \in ActionIds, NEW f \in Executors, executors'[f].id = other
        PROVE  f # e /\ executors[f].id = other /\ other # id
    BY <1>3, <1>6, <1>7, <2>1, <2>2
  <2>3. ASSUME NEW other \in ActionIds, NEW f \in Executors, executors[f].id = other, other # id
        PROVE  executors'[f].id = other
    BY <1>6, <2>3 DEF id
  <2> QED
    BY <2>2, <2>3, Zenon DEF Locked
<1>9. GatewayTypeOK'
  <2>1. executors' \in [Executors -> Run \cup {Idle}]
    BY <1>1 DEF GatewayInv, GatewayTypeOK
  <2> QED
    BY <1>1, <1>5, <2>1 DEF GatewayInv, GatewayTypeOK
<1>10. RunsTrue'
  <2> SUFFICES ASSUME NEW f \in Executors, f # e, executors[f].id # None
               PROVE  /\ actions'[executors[f].id] # None
                      /\ SameAction(executors[f].row, actions'[executors[f].id])
                      /\ SignerAllowed(executors[f].row, executors[f].signer)
                      /\ executors[f].tx # None =>
                           /\ executors[f].tx.action = executors[f].id
                           /\ executors[f].tx.method = executors[f].row.method
                           /\ executors[f].tx.proposalId = executors[f].row.proposalId
                      /\ \A g \in Executors : executors'[g].id = executors[f].id => g = f
    <3>1. \A f \in Executors : executors'[f].id # None => f # e /\ executors'[f] = executors[f]
      BY <1>6, <1>7
    <3> QED
      BY <3>1 DEF RunsTrue, Exists, SignerAllowed
  <2>1. PICK own : own = executors[f].id
    OBVIOUS
  <2>2. own \in ActionIds /\ own # id /\ Exists(own)
    BY <1>3, <2>1, RunAt, RunFields DEF GatewayInv, RunsTrue
  <2>3. actions'[own] = actions[own] /\ actions[own] # None
    BY <1>5, <2>2 DEF Exists
  <2> QED
    BY <1>6, <1>7, <2>1, <2>3 DEF GatewayInv, RunsTrue
<1>11. CleanupTrue'
  <2> SUFFICES ASSUME cleanup # None
               PROVE  /\ actions'[cleanup.id] # None
                      /\ SameAction(cleanup.row, actions'[cleanup.id])
                      /\ actions'[cleanup.id].expiresAt <= now
    BY <1>1 DEF CleanupTrue, Exists
  <2>1. cleanup.id \in ActionIds
    BY DEF GatewayInv, GatewayTypeOK
  <2>2. /\ Exists(cleanup.id) /\ SameAction(cleanup.row, actions[cleanup.id])
        /\ actions[cleanup.id].expiresAt <= now
    BY DEF GatewayInv, CleanupTrue
  <2>3. PICK own \in ActionIds : own = cleanup.id
    BY <2>1
  <2>4. /\ actions'[own] # None
        /\ SameAction(actions'[own], actions[own])
        /\ actions'[own].expiresAt = actions[own].expiresAt
    BY <1>5, <2>2, <2>3 DEF Exists
  <2> QED
    BY <2>2, <2>3, <2>4, SameActions
<1>12. SendsPaid'
  <2>1. ASSUME NEW f \in Executors, executors'[f].id # None, executors'[f].tx = None
        PROVE  sends[executors'[f].id] <= crashes[executors'[f].id]
    BY <1>6, <1>7, <2>1 DEF GatewayInv, SendsPaid
  <2>2. ASSUME NEW other \in ActionIds,
               ~Exists(other)' \/ (actions'[other].status = "requested" /\ ~Locked(other)')
        PROVE  sends[other] <= crashes[other]
    BY <1>3, <1>5, <1>8, <2>2 DEF GatewayInv, SendsPaid
  <2> QED
    BY <1>1, <2>1, <2>2 DEF GatewayInv, SendsPaid
<1>13. HeldOpen'
  BY <1>1, <1>5, <1>8 DEF GatewayInv, HeldOpen
<1>14. IntentsApart'
  <2> SUFFICES ASSUME NEW i \in ActionIds, NEW j \in ActionIds, i < j, Exists(i), Exists(j),
                      actions[i].intentKey = actions[j].intentKey
               PROVE  \/ actions[i].expiresAt + QueueTTL <= actions[j].expiresAt
                      \/ actions'[i].status \notin OpenStatuses /\ ~Locked(i)'
    BY <1>5 DEF IntentsApart
  <2>1. \/ actions[i].expiresAt + QueueTTL <= actions[j].expiresAt
        \/ actions[i].status \notin OpenStatuses /\ ~Locked(i)
    BY DEF GatewayInv, IntentsApart
  <2>2. Locked(id)
    BY DEF Locked, id
  <2> QED
    BY <1>5, <1>8, <2>1, <2>2
<1> QED
  BY <1>5, <1>9, <1>10, <1>11, <1>12, <1>13, <1>14 DEF GatewayInv

\* A row that expired in the queue is closed: by an executor, or by the cleanup.
LEMMA StaleKeeps ==
  ASSUME GatewayInv, NEW id \in ActionIds, Exists(id), NEW row \in GovernanceActionRecord,
         SameAction(row, actions[id]), row.status = "stale", actions[id].expiresAt <= now,
         actions' = [actions EXCEPT ![id] = row], cleanup' \in {cleanup, None},
         UNCHANGED <<chainVars, txVars, executors, crashes, sends>>
  PROVE  GatewayInv'
<1>1. /\ actions' \in [ActionIds -> GovernanceActionRecord \cup {None}]
      /\ \A other \in ActionIds :
           /\ Exists(other)' <=> Exists(other)
           /\ actions'[other] = IF other = id THEN row ELSE actions[other]
           /\ Exists(other) =>
                /\ SameAction(actions'[other], actions[other])
                /\ actions'[other].expiresAt = actions[other].expiresAt
                /\ actions'[other].intentKey = actions[other].intentKey
      /\ RowsInOrder' /\ SentTrue' /\ MinedTrue' /\ NumberedInOrder' /\ RowsTrue'
      /\ GovTypeOK'
  <2>1. RowTrue(id, row)
    BY DEF RowTrue, OutcomeStatuses
  <2> QED
    BY <2>1, RowWritten
<1>2. GatewayTypeOK'
  BY <1>1 DEF GatewayInv, GatewayTypeOK
<1>3. RunsTrue'
  <2> SUFFICES ASSUME NEW e \in Executors, executors[e].id # None
               PROVE  /\ actions'[executors[e].id] # None
                      /\ SameAction(executors[e].row, actions'[executors[e].id])
    BY DEF GatewayInv, RunsTrue, Exists, SignerAllowed
  <2>1. PICK own \in ActionIds : own = executors[e].id
    BY RunAt, RunFields DEF GatewayInv
  <2>2. Exists(own) /\ SameAction(executors[e].row, actions[own])
    BY <2>1 DEF GatewayInv, RunsTrue
  <2>3. actions'[own] # None /\ SameAction(actions'[own], actions[own])
    BY <1>1, <2>2 DEF Exists
  <2> QED
    BY <2>1, <2>2, <2>3, SameActions
<1>4. CleanupTrue'
  <2> SUFFICES ASSUME cleanup # None
               PROVE  /\ actions'[cleanup.id] # None
                      /\ SameAction(cleanup.row, actions'[cleanup.id])
                      /\ actions'[cleanup.id].expiresAt <= now
    BY DEF CleanupTrue, Exists
  <2>1. PICK own \in ActionIds : own = cleanup.id
    BY DEF GatewayInv, GatewayTypeOK
  <2>2. /\ Exists(own) /\ SameAction(cleanup.row, actions[own])
        /\ actions[own].expiresAt <= now
    BY <2>1 DEF GatewayInv, CleanupTrue
  <2>3. /\ actions'[own] # None
        /\ SameAction(actions'[own], actions[own])
        /\ actions'[own].expiresAt = actions[own].expiresAt
    BY <1>1, <2>2 DEF Exists
  <2> QED
    BY <2>1, <2>2, <2>3, SameActions
<1>5. \A other \in ActionIds : Locked(other)' <=> Locked(other)
  BY DEF Locked
<1>6. SendsPaid'
  <2>1. ASSUME NEW other \in ActionIds,
               ~Exists(other)' \/ (actions'[other].status = "requested" /\ ~Locked(other)')
        PROVE  sends[other] <= crashes[other]
    BY <1>1, <1>5, <2>1 DEF GatewayInv, SendsPaid
  <2> QED
    BY <2>1 DEF GatewayInv, SendsPaid
<1>7. HeldOpen'
  <2>1. ASSUME NEW other \in ActionIds, Exists(other), Locked(other)
        PROVE  \/ actions'[other].status = "requested"
               \/ actions'[other].status = "stale" /\ actions'[other].expiresAt <= now
    BY <1>1, <2>1 DEF GatewayInv, HeldOpen
  <2> QED
    BY <1>1, <1>5, <2>1 DEF HeldOpen
<1>8. IntentsApart'
  <2>1. "stale" \notin OpenStatuses
    BY DEF OpenStatuses
  <2> SUFFICES ASSUME NEW i \in ActionIds, NEW j \in ActionIds, i < j, Exists(i), Exists(j),
                      actions[i].intentKey = actions[j].intentKey
               PROVE  \/ actions[i].expiresAt + QueueTTL <= actions[j].expiresAt
                      \/ actions'[i].status \notin OpenStatuses /\ ~Locked(i)'
    BY <1>1 DEF IntentsApart
  <2>2. \/ actions[i].expiresAt + QueueTTL <= actions[j].expiresAt
        \/ actions[i].status \notin OpenStatuses /\ ~Locked(i)
    BY DEF GatewayInv, IntentsApart
  <2> QED
    BY <1>1, <1>5, <2>1, <2>2
<1> QED
  BY <1>1, <1>2, <1>3, <1>4, <1>6, <1>7, <1>8 DEF GatewayInv

LEMMA PersistStaleKeeps ==
  ASSUME GatewayInv, NEW id \in ActionIds, persistStale(id)
  PROVE  GatewayInv'
<1> DEFINE row == [actions[id] EXCEPT !.status = "stale"]
<1>1. /\ Exists(id) /\ actions[id].expiresAt <= now
      /\ actions' = [actions EXCEPT ![id] = row]
      /\ UNCHANGED <<chainVars, txVars, executors, cleanup, crashes, sends>>
  BY DEF persistStale, Runnable, isExpiredRequested, saveActionWithAudit, upsertGovernanceAction
<1>2. row \in GovernanceActionRecord /\ SameAction(row, actions[id]) /\ row.status = "stale"
  BY <1>1, RowAt, StatusWritten DEF GatewayInv, GOVERNANCE_ACTION_STATUSES
<1> QED
  BY <1>1, <1>2, StaleKeeps

LEMMA CleanupSaveKeeps ==
  ASSUME GatewayInv, cleanupSave
  PROVE  GatewayInv'
<1> DEFINE row == [cleanup.row EXCEPT !.status = "stale"]
<1>1. /\ cleanup # None /\ cleanup' = None
      /\ actions' = [actions EXCEPT ![cleanup.id] = row]
      /\ UNCHANGED <<chainVars, txVars, executors, crashes, sends>>
  BY DEF cleanupSave, saveActionWithAudit, upsertGovernanceAction
<1>2. PICK id \in ActionIds : id = cleanup.id
  BY <1>1 DEF GatewayInv, GatewayTypeOK
<1>3. /\ Exists(id) /\ SameAction(cleanup.row, actions[id]) /\ actions[id].expiresAt <= now
      /\ cleanup.row \in GovernanceActionRecord
  BY <1>1, <1>2 DEF GatewayInv, GatewayTypeOK, CleanupTrue
<1>4. row \in GovernanceActionRecord /\ SameAction(row, cleanup.row) /\ row.status = "stale"
  BY <1>3, StatusWritten DEF GOVERNANCE_ACTION_STATUSES
<1>5. SameAction(row, actions[id])
  BY <1>3, <1>4 DEF SameAction
<1> QED
  BY <1>1, <1>2, <1>3, <1>4, <1>5, StaleKeeps

LEMMA CleanupCheckKeeps ==
  ASSUME GatewayInv, NEW id \in ActionIds, cleanupCheck(id)
  PROVE  GatewayInv'
<1>1. /\ Exists(id) /\ actions[id].expiresAt <= now
      /\ cleanup' = [id |-> id, row |-> actions[id]]
      /\ UNCHANGED <<chainVars, txVars, actions, executors, crashes, sends>>
  BY DEF cleanupCheck, listRequestedExpired, isExpiredRequested
<1>2. actions[id] \in GovernanceActionRecord
  BY <1>1, RowAt DEF GatewayInv
<1>3. GovTypeOK' /\ MinedTrue' /\ NumberedInOrder'
      /\ \A other, row : RowTrue(other, row) => RowTrue(other, row)'
  BY <1>1, ChainUntouched
<1>4. GatewayTypeOK'
  <2>1. cleanup' \in [id : ActionIds, row : GovernanceActionRecord]
    BY <1>1, <1>2
  <2> QED
    BY <1>1, <1>3, <2>1 DEF GatewayInv, GatewayTypeOK
<1>5. CleanupTrue'
  BY <1>1 DEF CleanupTrue, Exists, SameAction
<1>6. RowsInOrder' /\ RunsTrue' /\ SendsPaid' /\ SentTrue' /\ HeldOpen' /\ IntentsApart' /\ RowsTrue'
  BY <1>1 DEF GatewayInv, RowsInOrder, RunsTrue, SendsPaid, SentTrue, HeldOpen, IntentsApart,
     RowsTrue, RowTrue, Exists, Locked, Sent, ProposalOf
<1> QED
  BY <1>3, <1>4, <1>5, <1>6 DEF GatewayInv

-------------------------------------------------------------------------------
(* The executors *)

\* An executor's own step leaves the rows and what holds of them.
LEMMA RowsUntouched ==
  ASSUME GatewayInv, UNCHANGED <<chainVars, mined, actions, cleanup>>
  PROVE  /\ GovTypeOK' /\ MinedTrue' /\ NumberedInOrder'
         /\ RowsInOrder' /\ CleanupTrue' /\ RowsTrue'
<1>1. GovTypeOK' /\ MinedTrue' /\ NumberedInOrder'
  BY ChainUntouched
<1>2. RowsInOrder' /\ CleanupTrue' /\ RowsTrue'
  BY DEF GatewayInv, RowsInOrder, CleanupTrue, RowsTrue, RowTrue, Exists, ProposalOf
<1> QED
  BY <1>1, <1>2

LEMMA ExecuteStartKeeps ==
  ASSUME GatewayInv, NEW e \in Executors, NEW id \in ActionIds, NEW signer \in InitialAdmins,
         executeStart(e, id, signer)
  PROVE  GatewayInv'
<1> DEFINE run == [id |-> id, row |-> actions[id], signer |-> signer, tx |-> None]
<1>1. /\ executors[e] = Idle
      /\ Exists(id) /\ ~Locked(id) /\ actions[id].status = "requested"
      /\ SignerAllowed(actions[id], signer)
      /\ executors' = [executors EXCEPT ![e] = run]
      /\ UNCHANGED <<chainVars, txVars, actions, cleanup, crashes, sends>>
  BY DEF executeStart, Runnable
<1>2. run \in Run /\ run.id = id /\ run.row = actions[id] /\ run.signer = signer /\ run.tx = None
  <2>1. actions[id] \in GovernanceActionRecord /\ signer \in Accounts
    BY <1>1, RowAt, GovernanceAssumption DEF GatewayInv
  <2> QED
    BY <2>1 DEF Run
<1> HIDE DEF run
<1>3. GovTypeOK' /\ MinedTrue' /\ NumberedInOrder' /\ RowsInOrder' /\ CleanupTrue' /\ RowsTrue'
  BY <1>1, RowsUntouched
<1>4. \A f \in Executors : executors'[f] = IF f = e THEN run ELSE executors[f]
  BY <1>1 DEF GatewayInv, GatewayTypeOK
<1>5. executors[e].id = None /\ \A f \in Executors : executors[f].id # id
  BY <1>1 DEF Locked
<1>6. GatewayTypeOK'
  BY <1>1, <1>2, <1>3 DEF GatewayInv, GatewayTypeOK
<1>7. RunsTrue'
  <2> SUFFICES ASSUME NEW f \in Executors, executors'[f].id # None
               PROVE  /\ actions[executors'[f].id] # None
                      /\ SameAction(executors'[f].row, actions[executors'[f].id])
                      /\ SignerAllowed(executors'[f].row, executors'[f].signer)
                      /\ executors'[f].tx # None =>
                           /\ executors'[f].tx.action = executors'[f].id
                           /\ executors'[f].tx.method = executors'[f].row.method
                           /\ executors'[f].tx.proposalId = executors'[f].row.proposalId
                      /\ \A g \in Executors : executors'[g].id = executors'[f].id => g = f
    BY <1>1 DEF RunsTrue, Exists, SignerAllowed
  <2>1. CASE f = e
    BY <1>1, <1>2, <1>4, <1>5, <2>1 DEF Exists, SameAction
  <2>2. CASE f # e
    BY <1>2, <1>4, <1>5, <2>2 DEF GatewayInv, RunsTrue, Exists
  <2> QED
    BY <2>1, <2>2
<1>8. \A other \in ActionIds : Locked(other)' <=> Locked(other) \/ other = id
  <2>1. ASSUME NEW other \in ActionIds, NEW f \in Executors, executors'[f].id = other
        PROVE  executors[f].id = other \/ other = id
    BY <1>2, <1>4, <2>1
  <2>2. None \notin ActionIds
    BY GatewayAssumption
  <2>3. ASSUME NEW other \in ActionIds, NEW f \in Executors, executors[f].id = other
        PROVE  executors'[f].id = other
    BY <1>4, <1>5, <2>2, <2>3
  <2>4. executors'[e].id = id
    BY <1>2, <1>4
  <2> QED
    BY <2>1, <2>3, <2>4, Zenon DEF Locked
<1>9. SendsPaid'
  <2>1. sends[id] <= crashes[id]
    BY <1>1 DEF GatewayInv, SendsPaid
  <2>2. ASSUME NEW f \in Executors, executors'[f].id # None, executors'[f].tx = None
        PROVE  sends[executors'[f].id] <= crashes[executors'[f].id]
    BY <1>2, <1>4, <2>1, <2>2 DEF GatewayInv, SendsPaid
  <2>3. ASSUME NEW other \in ActionIds,
               ~Exists(other)' \/ (actions[other].status = "requested" /\ ~Locked(other)')
        PROVE  sends[other] <= crashes[other]
    BY <1>1, <1>8, <2>3 DEF GatewayInv, SendsPaid, Exists
  <2> QED
    BY <1>1, <2>2, <2>3 DEF GatewayInv, SendsPaid
<1>10. SentTrue'
  BY <1>1 DEF GatewayInv, SentTrue, Sent, Exists
<1>11. HeldOpen'
  <2> SUFFICES ASSUME NEW other \in ActionIds, Exists(other), Locked(other)'
               PROVE  \/ actions[other].status = "requested"
                      \/ actions[other].status = "stale" /\ actions[other].expiresAt <= now
    BY <1>1 DEF HeldOpen, Exists
  <2> QED
    BY <1>1, <1>8 DEF GatewayInv, HeldOpen
<1>12. IntentsApart'
  <2>1. "requested" \in OpenStatuses
    BY DEF OpenStatuses
  <2> SUFFICES ASSUME NEW i \in ActionIds, NEW j \in ActionIds, i < j, Exists(i), Exists(j),
                      actions[i].intentKey = actions[j].intentKey
               PROVE  \/ actions[i].expiresAt + QueueTTL <= actions[j].expiresAt
                      \/ actions[i].status \notin OpenStatuses /\ ~Locked(i)'
    BY <1>1 DEF IntentsApart, Exists
  <2>2. \/ actions[i].expiresAt + QueueTTL <= actions[j].expiresAt
        \/ actions[i].status \notin OpenStatuses /\ ~Locked(i)
    BY DEF GatewayInv, IntentsApart
  <2> QED
    BY <1>1, <1>8, <2>1, <2>2
<1> QED
  BY <1>3, <1>6, <1>7, <1>9, <1>10, <1>11, <1>12 DEF GatewayInv

LEMMA ExecuteKeeps ==
  ASSUME GatewayInv, NEW e \in Executors, execute(e)
  PROVE  GatewayInv'
<1>1. PICK run : run = executors[e]
  OBVIOUS
<1>2. PICK tx : tx = [action |-> run.id, attempt |-> sends[run.id], method |-> run.row.method,
                      signer |-> run.signer, proposalId |-> run.row.proposalId,
                      target |-> run.row.target]
  OBVIOUS
<1>3. /\ run.id # None /\ run.tx = None
      /\ mempool' = mempool \cup {tx}
      /\ executors' = [executors EXCEPT ![e].tx = tx]
      /\ sends' = [sends EXCEPT ![run.id] = @ + 1]
      /\ UNCHANGED <<chainVars, mined, actions, cleanup, crashes>>
  BY <1>1, <1>2, Zenon DEF execute
<1>4. /\ run \in Run /\ run.id \in ActionIds /\ run.row \in GovernanceActionRecord
      /\ run.signer \in Accounts
  BY <1>1, <1>3, RunAt, RunFields DEF GatewayInv
<1>5. /\ Exists(run.id) /\ SameAction(run.row, actions[run.id])
      /\ SignerAllowed(run.row, run.signer)
      /\ \A f \in Executors : executors[f].id = run.id => f = e
  BY <1>1, <1>3 DEF GatewayInv, RunsTrue
<1>6. /\ tx \in Transaction /\ tx # None
      /\ tx.action = run.id /\ tx.method = run.row.method /\ tx.signer = run.signer
      /\ tx.proposalId = run.row.proposalId /\ tx.target = run.row.target
  <2>1. /\ run.row.method \in Methods /\ run.row.proposalId \in Nat \cup {None}
        /\ run.row.target \in Targets /\ sends[run.id] \in Nat
    BY <1>4, RowFields DEF GatewayInv, GatewayTypeOK
  <2>2. tx \in Transaction
    BY <1>2, <1>4, <2>1 DEF Transaction
  <2> QED
    BY <1>2, <2>2, TransactionFields
<1>7. PICK sent : sent = [run EXCEPT !.tx = tx]
  OBVIOUS
<1>8. /\ sent \in Run /\ sent.id = run.id /\ sent.row = run.row /\ sent.signer = run.signer
      /\ sent.tx = tx
  BY <1>4, <1>6, <1>7 DEF Run
<1>9. /\ executors' \in [Executors -> Run \cup {Idle}]
      /\ \A f \in Executors : executors'[f] = IF f = e THEN sent ELSE executors[f]
  <2>1. executors' = [executors EXCEPT ![e] = sent]
    BY <1>1, <1>3, <1>7 DEF GatewayInv, GatewayTypeOK
  <2> QED
    BY <1>8, <2>1 DEF GatewayInv, GatewayTypeOK
<1>10. /\ sends' \in [ActionIds -> Nat]
       /\ \A id \in ActionIds :
            sends'[id] = IF id = run.id THEN sends[id] + 1 ELSE sends[id]
  BY <1>3, <1>4 DEF GatewayInv, GatewayTypeOK
<1>11. GovTypeOK' /\ MinedTrue' /\ NumberedInOrder' /\ RowsInOrder' /\ CleanupTrue' /\ RowsTrue'
  BY <1>3, RowsUntouched
<1>12. GatewayTypeOK'
  BY <1>3, <1>6, <1>9, <1>10, <1>11 DEF GatewayInv, GatewayTypeOK
<1>13. \A f \in Executors : executors'[f].id = executors[f].id
  BY <1>1, <1>8, <1>9
<1>14. \A id : Locked(id)' <=> Locked(id)
  BY <1>13 DEF Locked
<1>15. RunsTrue'
  <2> SUFFICES ASSUME NEW f \in Executors, executors'[f].id # None
               PROVE  /\ actions[executors'[f].id] # None
                      /\ SameAction(executors'[f].row, actions[executors'[f].id])
                      /\ SignerAllowed(executors'[f].row, executors'[f].signer)
                      /\ executors'[f].tx # None =>
                           /\ executors'[f].tx.action = executors'[f].id
                           /\ executors'[f].tx.method = executors'[f].row.method
                           /\ executors'[f].tx.proposalId = executors'[f].row.proposalId
                      /\ \A g \in Executors : executors'[g].id = executors'[f].id => g = f
    BY <1>3 DEF RunsTrue, Exists, SignerAllowed
  <2>1. CASE f = e
    BY <1>1, <1>5, <1>6, <1>8, <1>9, <1>13, <2>1 DEF Exists
  <2>2. CASE f # e
    BY <1>9, <1>13, <2>2 DEF GatewayInv, RunsTrue, Exists
  <2> QED
    BY <2>1, <2>2
<1>16. SendsPaid'
  <2>1. sends[run.id] <= crashes[run.id] /\ Locked(run.id)
    BY <1>1, <1>3 DEF GatewayInv, SendsPaid, Locked
  <2>2. \A id \in ActionIds : sends[id] \in Nat /\ crashes[id] \in Nat
    BY DEF GatewayInv, GatewayTypeOK
  <2>3. ASSUME NEW f \in Executors, executors'[f].id # None, executors'[f].tx = None
        PROVE  sends'[executors'[f].id] <= crashes[executors'[f].id]
    <3>1. f # e /\ executors'[f] = executors[f]
      BY <1>6, <1>8, <1>9, <2>3
    <3>2. executors[f].id # run.id /\ executors[f].id \in ActionIds
      BY <1>5, <2>3, <3>1, RunAt, RunFields DEF GatewayInv
    <3> QED
      BY <1>10, <2>3, <3>1, <3>2 DEF GatewayInv, SendsPaid
  <2>4. ASSUME NEW id \in ActionIds
        PROVE  /\ sends'[id] <= 1 + crashes[id]
               /\ ~Exists(id) \/ (actions[id].status = "requested" /\ ~Locked(id)) =>
                    sends'[id] <= crashes[id]
    <3>1. CASE id = run.id
      BY <1>4, <1>5, <1>10, <2>1, <2>2, <3>1
    <3>2. CASE id # run.id
      BY <1>10, <3>2 DEF GatewayInv, SendsPaid
    <3> QED
      BY <3>1, <3>2
  <2> QED
    BY <1>3, <1>14, <2>3, <2>4 DEF SendsPaid, Exists
<1>17. SentTrue'
  <2>1. Sent' = Sent \cup {tx}
    BY <1>3 DEF Sent
  <2>2. /\ Exists(tx.action)
        /\ tx.method = actions[tx.action].method
        /\ Addressed(tx.method, tx.proposalId, tx.target)
        /\ tx.method \in ApprovalMethods => tx.signer = actions[tx.action].audit.actorWallet
    <3>1. Addressed(actions[run.id].method, actions[run.id].proposalId, actions[run.id].target)
      BY <1>4, <1>5 DEF GatewayInv, RowsInOrder
    <3> QED
      BY <1>5, <1>6, <3>1
         DEF SameAction, Addressed, SignerAllowed, isApprovalGovernanceContractMethod
  <2> QED
    BY <1>3, <2>1, <2>2 DEF GatewayInv, SentTrue, Exists
<1>18. HeldOpen' /\ IntentsApart'
  BY <1>3, <1>14 DEF GatewayInv, HeldOpen, IntentsApart, Exists
<1> QED
  BY <1>11, <1>12, <1>15, <1>16, <1>17, <1>18 DEF GatewayInv

\* A run that ends without a save leaves the row; what was sent may be sent again.
LEMMA ExecutorCrashKeeps ==
  ASSUME GatewayInv, NEW e \in Executors, executorCrash(e)
  PROVE  GatewayInv'
<1>1. PICK run : run = executors[e]
  OBVIOUS
<1>2. PICK id : id = run.id
  OBVIOUS
<1>3. /\ run.tx # None
      /\ crashes' = [crashes EXCEPT ![id] = @ + 1]
      /\ executors' = [executors EXCEPT ![e] = Idle]
      /\ UNCHANGED <<chainVars, txVars, actions, cleanup, sends>>
  BY <1>1, <1>2, Zenon DEF executorCrash, Awaits
<1>4. /\ run \in Run /\ id \in ActionIds /\ id # None
      /\ Idle.id = None /\ Idle.tx = None
  <2>1. run.id # None
    BY <1>1, <1>3, AwaitsRuns DEF GatewayInv
  <2> QED
    BY <1>1, <1>2, <2>1, RunAt, RunFields DEF GatewayInv
<1>5. Exists(id) /\ Locked(id) /\ \A f \in Executors : executors[f].id = id => f = e
  BY <1>1, <1>2, <1>4 DEF GatewayInv, RunsTrue, Locked
<1>6. GovTypeOK' /\ MinedTrue' /\ NumberedInOrder' /\ RowsInOrder' /\ CleanupTrue' /\ RowsTrue'
  BY <1>3, RowsUntouched
<1>7. \A f \in Executors : executors'[f] = IF f = e THEN Idle ELSE executors[f]
  BY <1>3 DEF GatewayInv, GatewayTypeOK
<1>8. /\ crashes' \in [ActionIds -> Nat]
      /\ \A other \in ActionIds :
           crashes'[other] = IF other = id THEN crashes[other] + 1 ELSE crashes[other]
  BY <1>3, <1>4 DEF GatewayInv, GatewayTypeOK
<1>9. \A other \in ActionIds : Locked(other)' <=> Locked(other) /\ other # id
  <2>1. None \notin ActionIds
    BY GatewayAssumption
  <2>2. ASSUME NEW other \in ActionIds, NEW f \in Executors, executors'[f].id = other
        PROVE  f # e /\ executors[f].id = other /\ other # id
    BY <1>4, <1>5, <1>7, <2>1, <2>2
  <2>3. ASSUME NEW other \in ActionIds, NEW f \in Executors, executors[f].id = other, other # id
        PROVE  executors'[f].id = other
    BY <1>1, <1>2, <1>7, <2>3
  <2> QED
    BY <2>2, <2>3, Zenon DEF Locked
<1>10. GatewayTypeOK'
  <2>1. executors' \in [Executors -> Run \cup {Idle}]
    BY <1>3 DEF GatewayInv, GatewayTypeOK
  <2> QED
    BY <1>3, <1>6, <1>8, <2>1 DEF GatewayInv, GatewayTypeOK
<1>11. RunsTrue'
  <2> SUFFICES ASSUME NEW f \in Executors, f # e, executors[f].id # None
               PROVE  /\ actions[executors[f].id] # None
                      /\ SameAction(executors[f].row, actions[executors[f].id])
                      /\ SignerAllowed(executors[f].row, executors[f].signer)
                      /\ executors[f].tx # None =>
                           /\ executors[f].tx.action = executors[f].id
                           /\ executors[f].tx.method = executors[f].row.method
                           /\ executors[f].tx.proposalId = executors[f].row.proposalId
                      /\ \A g \in Executors : executors'[g].id = executors[f].id => g = f
    <3>1. \A f \in Executors : executors'[f].id # None => f # e /\ executors'[f] = executors[f]
      BY <1>4, <1>7
    <3> QED
      BY <1>3, <3>1 DEF RunsTrue, Exists, SignerAllowed
  <2> QED
    BY <1>4, <1>7 DEF GatewayInv, RunsTrue, Exists
<1>12. SendsPaid'
  <2>1. \A other \in ActionIds : sends[other] \in Nat /\ crashes[other] \in Nat
    BY DEF GatewayInv, GatewayTypeOK
  <2>2. ASSUME NEW f \in Executors, executors'[f].id # None, executors'[f].tx = None
        PROVE  sends[executors'[f].id] <= crashes'[executors'[f].id]
    <3>1. f # e /\ executors'[f] = executors[f]
      BY <1>4, <1>7, <2>2
    <3>2. PICK own \in ActionIds : own = executors[f].id
      BY <2>2, <3>1, RunAt, RunFields DEF GatewayInv
    <3>3. sends[own] <= crashes[own]
      BY <2>2, <3>1, <3>2 DEF GatewayInv, SendsPaid
    <3> QED
      BY <1>8, <2>1, <3>1, <3>2, <3>3
  <2>3. ASSUME NEW other \in ActionIds
        PROVE  /\ sends[other] <= 1 + crashes'[other]
               /\ ~Exists(other) \/ (actions[other].status = "requested" /\ ~Locked(other)') =>
                    sends[other] <= crashes'[other]
    <3>1. /\ sends[other] <= 1 + crashes[other]
          /\ ~Exists(other) \/ (actions[other].status = "requested" /\ ~Locked(other)) =>
               sends[other] <= crashes[other]
      BY DEF GatewayInv, SendsPaid
    <3> QED
      BY <1>8, <1>9, <2>1, <3>1
  <2> QED
    BY <1>3, <2>2, <2>3 DEF SendsPaid, Exists
<1>13. SentTrue'
  BY <1>3 DEF GatewayInv, SentTrue, Sent, Exists
<1>14. HeldOpen' /\ IntentsApart'
  BY <1>3, <1>9 DEF GatewayInv, HeldOpen, IntentsApart, Exists
<1> QED
  BY <1>6, <1>10, <1>11, <1>12, <1>13, <1>14 DEF GatewayInv

LEMMA PersistFailureKeeps ==
  ASSUME GatewayInv, NEW e \in Executors, persistFailure(e)
  PROVE  GatewayInv'
<1>1. executors[e].id # None
      /\ Finish(e, [executors[e].row EXCEPT !.status = "failed"])
  BY DEF persistFailure
<1>2. PICK row : row = [executors[e].row EXCEPT !.status = "failed"]
  OBVIOUS
<1>3. executors[e].row \in GovernanceActionRecord
  BY <1>1, RunAt, RunFields DEF GatewayInv
<1>4. row \in GovernanceActionRecord /\ SameAction(row, executors[e].row)
      /\ row.status = "failed"
  BY <1>2, <1>3, StatusWritten DEF GOVERNANCE_ACTION_STATUSES
<1>5. row.status # "requested" /\ RowTrue(executors[e].id, row)
  BY <1>4 DEF RowTrue, OutcomeStatuses
<1> QED
  BY <1>1, <1>2, <1>4, <1>5, FinishKeeps

LEMMA PersistTimeoutKeeps ==
  ASSUME GatewayInv, NEW e \in Executors, persistExecutionTimeout(e)
  PROVE  GatewayInv'
<1>1. executors[e].id # None
      /\ Finish(e, [executors[e].row EXCEPT !.status = "submitted"])
  BY DEF persistExecutionTimeout
<1>2. PICK row : row = [executors[e].row EXCEPT !.status = "submitted"]
  OBVIOUS
<1>3. executors[e].row \in GovernanceActionRecord
  BY <1>1, RunAt, RunFields DEF GatewayInv
<1>4. row \in GovernanceActionRecord /\ SameAction(row, executors[e].row)
      /\ row.status = "submitted"
  BY <1>2, <1>3, StatusWritten DEF GOVERNANCE_ACTION_STATUSES
<1>5. row.status # "requested" /\ RowTrue(executors[e].id, row)
  BY <1>4 DEF RowTrue, OutcomeStatuses
<1> QED
  BY <1>1, <1>2, <1>4, <1>5, FinishKeeps

\* The status that is read of a proposal is its own.
LEMMA ResolvedProposal ==
  ASSUME GovTypeOK, NEW kind \in Kinds, NEW id \in ProposalIds, id < govCounter[kind],
         govProposals[kind][id].createdAt # 0,
         NEW status, status = resolveProposalStatus(kind, id)
  PROVE  /\ status \in OutcomeStatuses
         /\ status = "executed" => govProposals[kind][id].executed
         /\ status = "cancelled" => govProposals[kind][id].cancelled
         /\ status = "approved" => govProposals[kind][id].approvalCount >= governanceApprovals
<1>1. PICK proposal : proposal = ProposalState(kind, id)
  OBVIOUS
<1>2. id \in Int /\ govCounter[kind] \in Int
  BY GovernanceAssumption DEF GovTypeOK, ProposalIds
<1>3. ~(id >= govCounter[kind])
  BY <1>2
<1>4. proposal = [approvalCount |-> govProposals[kind][id].approvalCount,
                  executed      |-> govProposals[kind][id].executed,
                  cancelled     |-> govProposals[kind][id].cancelled,
                  expired       |-> govProposals[kind][id].expiresAt < now,
                  eta           |-> govProposals[kind][id].eta]
  BY <1>1, <1>3, Zenon DEF ProposalState
<1>5. /\ proposal.approvalCount = govProposals[kind][id].approvalCount
      /\ proposal.executed = govProposals[kind][id].executed
      /\ proposal.cancelled = govProposals[kind][id].cancelled
  BY <1>4, Zenon
<1>6. getGovernanceStatus.governanceApprovalsRequired = governanceApprovals
  BY Zenon DEF getGovernanceStatus
<1>7. status = CASE proposal.executed  -> "executed"
        [] ~proposal.executed /\ proposal.cancelled -> "cancelled"
        [] ~proposal.executed /\ ~proposal.cancelled /\ proposal.expired -> "expired"
        [] OTHER -> IF proposal.approvalCount >= governanceApprovals
                    THEN "approved" ELSE "pending_approvals"
  BY <1>1, <1>6, Zenon DEF resolveProposalStatus
<1>8. \/ status = "executed" /\ proposal.executed
      \/ status = "cancelled" /\ proposal.cancelled
      \/ status = "expired"
      \/ status = "approved" /\ proposal.approvalCount >= governanceApprovals
      \/ status = "pending_approvals"
  BY <1>7, Zenon
<1> QED
  BY <1>5, <1>8 DEF OutcomeStatuses

\* Whatever status a mined transaction is recorded with, its proposal is decided so.
LEMMA OutcomeTrue ==
  ASSUME GatewayInv, NEW row \in GovernanceActionRecord, NEW outcome \in Outcomes(row),
         NEW receipt \in mined, receipt.tx.method = row.method,
         TakesProposal(row.method) =>
           receipt.tx.proposalId = row.proposalId /\ row.proposalId \in ProposalIds
  PROVE  /\ outcome \in OutcomeStatuses
         /\ TakesProposal(row.method) =>
              /\ outcome = "executed" => ProposalOf(row.method, row.proposalId).executed
              /\ outcome = "cancelled" => ProposalOf(row.method, row.proposalId).cancelled
              /\ outcome = "approved" =>
                   ProposalOf(row.method, row.proposalId).approvalCount >= governanceApprovals
<1>1. CASE outcome = "pending_approvals"
  BY <1>1 DEF OutcomeStatuses
<1> SUFFICES ASSUME outcome = resolvePostExecutionStatus(row)
             PROVE  /\ outcome \in OutcomeStatuses
                    /\ TakesProposal(row.method) =>
                         /\ outcome = "executed" => ProposalOf(row.method, row.proposalId).executed
                         /\ outcome = "cancelled" =>
                              ProposalOf(row.method, row.proposalId).cancelled
                         /\ outcome = "approved" =>
                              ProposalOf(row.method, row.proposalId).approvalCount
                                >= governanceApprovals
  BY <1>1 DEF Outcomes
<1>2. row.method \in Methods
  BY RowFields
<1>3. ASSUME TakesProposal(row.method)
      PROVE  ReceiptTrue(receipt) /\ row.proposalId \in ProposalIds
             /\ receipt.tx.proposalId = row.proposalId
  BY <1>3 DEF GatewayInv, MinedTrue
<1>4. CASE row.method \in {"proposeUnpause"} \cup ProposeMethods
  <2>1. outcome = "pending_approvals"
    <3>1. ~(row.method \in {"cancelUnpauseProposal",
                       "cancelExpiredTreasuryPayoutAddressUpdateProposal",
                       "cancelExpiredOracleUpdateProposal"})
          /\ row.method # "approveUnpause" /\ ~(row.method \in ApprovalMethods \ {"approveUnpause"})
      BY <1>4 DEF ProposeMethods, ApprovalMethods
    <3> QED
      BY <1>4, <3>1, Zenon DEF resolvePostExecutionStatus
  <2> QED
    BY <2>1 DEF OutcomeStatuses
<1>5. CASE row.method = "approveUnpause"
  <2>1. /\ ~(row.method \in {"proposeUnpause"} \cup ProposeMethods)
        /\ ~(row.method \in ApprovalMethods \ {"approveUnpause"})
        /\ ~(row.method \in {"cancelUnpauseProposal",
                       "cancelExpiredTreasuryPayoutAddressUpdateProposal",
                       "cancelExpiredOracleUpdateProposal"})
    BY <1>5 DEF ProposeMethods
  <2>2. outcome = resolveUnpauseApprovalStatus
    BY <1>5, <2>1, Zenon DEF resolvePostExecutionStatus
  <2>3. outcome \in {"executed", "approved", "pending_approvals"}
    BY <2>2, Zenon DEF resolveUnpauseApprovalStatus
  <2>4. ~TakesProposal(row.method)
    BY <1>5 DEF TakesProposal, ProposalMethods, ApprovalMethods, AddAdminMethods
  <2> QED
    BY <2>3, <2>4 DEF OutcomeStatuses
<1>6. CASE row.method \in ApprovalMethods \ {"approveUnpause"}
  <2>1. /\ ~(row.method \in {"proposeUnpause"} \cup ProposeMethods)
        /\ row.method # "approveUnpause"
        /\ ~(row.method \in {"cancelUnpauseProposal",
                       "cancelExpiredTreasuryPayoutAddressUpdateProposal",
                       "cancelExpiredOracleUpdateProposal"})
    BY <1>6 DEF ProposeMethods, ApprovalMethods
  <2>2. outcome = resolveProposalStatus(KindOf(row.method), row.proposalId)
    BY <1>6, <2>1, Zenon DEF resolvePostExecutionStatus
  <2>3. TakesProposal(row.method)
    BY <1>6 DEF TakesProposal
  <2>4. /\ row.proposalId \in ProposalIds /\ row.proposalId < govCounter[KindOf(row.method)]
        /\ govProposals[KindOf(row.method)][row.proposalId].createdAt # 0
    BY <1>3, <2>3 DEF ReceiptTrue, ProposalOf
  <2> QED
    BY <2>2, <2>4, KindOfType, ResolvedProposal DEF GatewayInv, GatewayTypeOK, ProposalOf
<1>7. CASE row.method \in {"cancelUnpauseProposal",
                           "cancelExpiredTreasuryPayoutAddressUpdateProposal",
                           "cancelExpiredOracleUpdateProposal"}
  <2>1. /\ ~(row.method \in {"proposeUnpause"} \cup ProposeMethods)
        /\ row.method # "approveUnpause"
        /\ ~(row.method \in ApprovalMethods \ {"approveUnpause"})
    BY <1>7 DEF ProposeMethods, ApprovalMethods
  <2>2. outcome = "cancelled"
    BY <1>7, <2>1, Zenon DEF resolvePostExecutionStatus
  <2>3. TakesProposal(row.method) => row.method \in CancelMethods
    BY <1>7 DEF TakesProposal, ProposalMethods, ApprovalMethods, AddAdminMethods, CancelMethods
  <2> QED
    BY <1>3, <2>2, <2>3 DEF ReceiptTrue, OutcomeStatuses
<1>8. CASE /\ ~(row.method \in {"proposeUnpause"} \cup ProposeMethods)
           /\ row.method # "approveUnpause"
           /\ ~(row.method \in ApprovalMethods \ {"approveUnpause"})
           /\ ~(row.method \in {"cancelUnpauseProposal",
                                "cancelExpiredTreasuryPayoutAddressUpdateProposal",
                                "cancelExpiredOracleUpdateProposal"})
  <2>1. outcome = "executed"
    BY <1>8, Zenon DEF resolvePostExecutionStatus
  <2>2. TakesProposal(row.method) => row.method \in ExecuteMethods
    BY <1>2, <1>8 DEF TakesProposal, Methods, ProposalMethods, ApprovalMethods, AddAdminMethods,
       ProposeMethods, SwitchMethods, ExecuteMethods
  <2> QED
    BY <1>3, <2>1, <2>2 DEF ReceiptTrue, OutcomeStatuses
<1> QED
  BY <1>4, <1>5, <1>6, <1>7, <1>8

LEMMA PersistExecutionKeeps ==
  ASSUME GatewayInv, NEW e \in Executors, persistExecution(e)
  PROVE  GatewayInv'
<1>1. PICK run : run = executors[e]
  OBVIOUS
<1>2. PICK receipt \in mined, outcome \in Outcomes(run.row) :
        /\ receipt.tx = run.tx
        /\ Finish(e, [run.row EXCEPT
             !.status = outcome, !.txHash = run.tx,
             !.proposalId = IF receipt.proposalId # None THEN receipt.proposalId ELSE @])
  BY <1>1, Zenon DEF persistExecution
<1>3. PICK proposalId :
        proposalId = IF receipt.proposalId # None THEN receipt.proposalId ELSE run.row.proposalId
  OBVIOUS
<1>4. PICK row : row = [run.row EXCEPT !.status = outcome, !.txHash = run.tx,
                                       !.proposalId = proposalId]
  OBVIOUS
<1>5. run.tx # None /\ executors[e].id # None
  BY <1>1, AwaitsRuns DEF persistExecution, Awaits, GatewayInv
<1>6. /\ run \in Run /\ run.id \in ActionIds /\ run.row \in GovernanceActionRecord
      /\ run.tx \in Transaction
  BY <1>1, <1>5, RunAt, RunFields DEF GatewayInv
<1>7. /\ Exists(run.id) /\ SameAction(run.row, actions[run.id])
      /\ run.tx.action = run.id /\ run.tx.method = run.row.method
      /\ run.tx.proposalId = run.row.proposalId
  BY <1>1, <1>5 DEF GatewayInv, RunsTrue
<1>8. run.row.proposalId \in Nat \cup {None} /\ receipt.proposalId \in Nat \cup {None}
  BY <1>6, RowFields DEF GatewayInv, GatewayTypeOK, Receipt
<1>9. ASSUME TakesProposal(run.row.method)
      PROVE  run.row.proposalId \in ProposalIds /\ proposalId = run.row.proposalId
  <2>1. TakesProposal(actions[run.id].method)
        /\ run.row.proposalId = actions[run.id].proposalId
    BY <1>7, <1>9 DEF SameAction
  <2>2. run.row.proposalId \in ProposalIds
    <3>1. Addressed(actions[run.id].method, actions[run.id].proposalId, actions[run.id].target)
      BY <1>6, <1>7, Zenon DEF GatewayInv, RowsInOrder
    <3> QED
      BY <2>1, <3>1, Zenon DEF Addressed
  <2>3. receipt.proposalId = None
    BY <1>2, <1>7, <1>9 DEF GatewayInv, MinedTrue, ReceiptTrue
  <2> QED
    BY <1>3, <2>2, <2>3
<1>10. /\ outcome \in OutcomeStatuses
       /\ TakesProposal(run.row.method) =>
            /\ outcome = "executed" => ProposalOf(run.row.method, run.row.proposalId).executed
            /\ outcome = "cancelled" => ProposalOf(run.row.method, run.row.proposalId).cancelled
            /\ outcome = "approved" =>
                 ProposalOf(run.row.method, run.row.proposalId).approvalCount
                   >= governanceApprovals
  BY <1>2, <1>6, <1>7, <1>9, OutcomeTrue
<1>11. /\ row \in GovernanceActionRecord
       /\ row.status = outcome /\ row.txHash = run.tx /\ row.proposalId = proposalId
       /\ row.method = run.row.method /\ row.target = run.row.target
       /\ row.audit = run.row.audit /\ row.intentKey = run.row.intentKey
       /\ row.expiresAt = run.row.expiresAt
  <2>1. outcome \in GOVERNANCE_ACTION_STATUSES
    BY <1>10 DEF OutcomeStatuses, GOVERNANCE_ACTION_STATUSES
  <2>2. proposalId \in Nat \cup {None}
    BY <1>3, <1>8
  <2>3. PICK old : old = run.row
    OBVIOUS
  <2>4. PICK tx : tx = run.tx
    OBVIOUS
  <2>5. row = [old EXCEPT !.status = outcome, !.txHash = tx, !.proposalId = proposalId]
    BY <1>4, <2>3, <2>4, Zenon
  <2>6. old \in GovernanceActionRecord /\ tx \in Transaction
    BY <1>6, <2>3, <2>4
  <2>7. /\ row \in GovernanceActionRecord
        /\ row.status = outcome /\ row.txHash = tx /\ row.proposalId = proposalId
        /\ row.method = old.method /\ row.target = old.target /\ row.audit = old.audit
        /\ row.intentKey = old.intentKey /\ row.expiresAt = old.expiresAt
    BY <2>1, <2>2, <2>5, <2>6 DEF GovernanceActionRecord
  <2> QED
    BY <2>3, <2>4, <2>7
<1>12. SameAction(row, run.row) /\ row.status # "requested"
  BY <1>9, <1>10, <1>11 DEF SameAction, OutcomeStatuses
<1>13. RowTrue(run.id, row)
  <2>1. \E other \in mined : other.tx = row.txHash /\ other.tx.action = run.id
    BY <1>2, <1>7, <1>11
  <2> QED
    BY <1>9, <1>10, <1>11, <2>1 DEF RowTrue
<1>14. Finish(e, row)
  BY <1>2, <1>3, <1>4
<1> QED
  BY <1>1, <1>5, <1>11, <1>12, <1>13, <1>14, FinishKeeps

-------------------------------------------------------------------------------
(* The routes *)

LEMMA QueuedTargetType ==
  ASSUME GovTypeOK, NEW method \in Methods, NEW proposalId \in ProposalIds,
         NEW target \in Accounts
  PROVE  /\ QueuedTarget(method, proposalId, target) \in Targets
         /\ method \in ProposeMethods => QueuedTarget(method, proposalId, target) \in Accounts
<1>1. govProposals[KindOf(method)][proposalId].target \in Targets
  <2>1. govProposals[KindOf(method)][proposalId] \in GovProposal
    BY KindOfType DEF GovTypeOK
  <2> QED
    BY <2>1 DEF GovProposal, MadeProposal, NoProposal, Targets
<1>2. oracleAddress \in Targets
  BY DEF GovTypeOK, Targets
<1>3. target \in Targets /\ None \in Targets
  BY DEF Targets
<1>4. QueuedTarget(method, proposalId, target) \in Targets
  BY <1>1, <1>2, <1>3, Zenon DEF QueuedTarget
<1>5. method \in ProposeMethods => ~TakesProposal(method) /\ method # "disableOracleEmergency"
  BY DEF ProposeMethods, TakesProposal, ProposalMethods, ApprovalMethods, AddAdminMethods
<1>6. ASSUME method \in ProposeMethods
      PROVE  QueuedTarget(method, proposalId, target) = target
  BY <1>5, <1>6, Zenon DEF QueuedTarget
<1> QED
  BY <1>4, <1>6

\* What a route queues is a well-formed row, with what its method needs.
LEMMA QueuedRowType ==
  ASSUME GovTypeOK, NEW wallet \in Accounts, NEW method \in Methods,
         NEW proposalId \in Nat \cup {None}, NEW target \in Targets,
         NEW row, row = QueuedRow(wallet, method, proposalId, target)
  PROVE  /\ row \in GovernanceActionRecord
         /\ row.status = "requested" /\ row.method = method /\ row.proposalId = proposalId
         /\ row.target = target /\ row.expiresAt = now + QueueTTL
<1>1. PICK expiresAt : expiresAt = now + QueueTTL
  OBVIOUS
<1>2. expiresAt \in Nat
  BY <1>1, GatewayAssumption DEF GovTypeOK
<1>3. PICK key : key = buildIntentKey(method, proposalId, target, wallet)
  OBVIOUS
<1>4. PICK caller : caller = IF isApprovalGovernanceContractMethod(method) THEN wallet ELSE None
  OBVIOUS
<1>5. caller \in Accounts \cup {None} /\ key = <<method, proposalId, target, caller>>
  BY <1>3, <1>4 DEF buildIntentKey
<1>6. key \in Methods \X (Nat \cup {None}) \X Targets \X (Accounts \cup {None})
  BY <1>5
<1>7. row = [status |-> "requested", method |-> method, proposalId |-> proposalId,
             target |-> target, intentKey |-> key, audit |-> [actorWallet |-> wallet],
             expiresAt |-> expiresAt, txHash |-> None]
  BY <1>1, <1>3 DEF QueuedRow, buildAuditRecord
<1>8. "requested" \in GOVERNANCE_ACTION_STATUSES
  BY DEF GOVERNANCE_ACTION_STATUSES
<1> QED
  BY <1>1, <1>2, <1>6, <1>7, <1>8 DEF GovernanceActionRecord

LEMMA QueueActionKeeps ==
  ASSUME GatewayInv, NEW wallet \in admins, NEW method \in Methods,
         NEW proposalId \in ProposalIds, NEW target \in ProposalTargets,
         queueAction(wallet, method, proposalId, target)
  PROVE  GatewayInv'
<1>1. PICK row : row = QueuedRow(wallet, method, IF TakesProposal(method) THEN proposalId ELSE None,
                                 QueuedTarget(method, proposalId, target))
  OBVIOUS
<1>2. PICK id \in ActionIds :
        /\ ~Exists(id)
        /\ \A other \in 1 .. (id - 1) : Exists(other)
        /\ actions' = [actions EXCEPT ![id] = row]
  BY <1>1 DEF queueAction, saveQueuedActionWithIntentDedupe, upsertGovernanceAction
<1>3. /\ OpenIntent(row.intentKey) = {}
      /\ UNCHANGED <<chainVars, txVars, executors, cleanup, crashes, sends>>
  BY <1>1 DEF queueAction, saveQueuedActionWithIntentDedupe
<1>4. /\ row \in GovernanceActionRecord /\ row # None
      /\ row.status = "requested" /\ row.expiresAt = now + QueueTTL
      /\ Addressed(row.method, row.proposalId, row.target)
  <2>1. PICK own : own = IF TakesProposal(method) THEN proposalId ELSE None
    OBVIOUS
  <2>2. PICK to : to = QueuedTarget(method, proposalId, target)
    OBVIOUS
  <2>3. wallet \in Accounts /\ target \in Accounts /\ proposalId \in Nat
    BY GatewayAssumption, GovernanceAssumption
       DEF GatewayInv, GatewayTypeOK, GovTypeOK, ProposalIds
  <2>4. to \in Targets /\ (method \in ProposeMethods => to \in Accounts)
    BY <2>2, <2>3, QueuedTargetType DEF GatewayInv, GatewayTypeOK
  <2>5. own \in Nat \cup {None} /\ (TakesProposal(method) => own \in ProposalIds)
    BY <2>1, <2>3
  <2>6. row = QueuedRow(wallet, method, own, to)
    BY <1>1, <2>1, <2>2, Zenon
  <2>7. /\ row \in GovernanceActionRecord
        /\ row.status = "requested" /\ row.method = method /\ row.proposalId = own
        /\ row.target = to /\ row.expiresAt = now + QueueTTL
    BY <2>3, <2>4, <2>5, <2>6, QueuedRowType DEF GatewayInv, GatewayTypeOK
  <2> QED
    BY <2>4, <2>5, <2>7, RowFields DEF Addressed
<1>5. GovTypeOK' /\ MinedTrue' /\ NumberedInOrder'
      /\ \A other, r : RowTrue(other, r) => RowTrue(other, r)'
  BY <1>3, ChainUntouched
<1>6. /\ actions' \in [ActionIds -> GovernanceActionRecord \cup {None}]
      /\ \A other \in ActionIds : actions'[other] = IF other = id THEN row ELSE actions[other]
  BY <1>2, <1>4 DEF GatewayInv, GatewayTypeOK
<1>7. \A other \in ActionIds : Exists(other)' <=> Exists(other) \/ other = id
  BY <1>4, <1>6 DEF Exists
<1>8. ASSUME NEW other \in ActionIds, Exists(other)
      PROVE  other # id /\ actions'[other] = actions[other] /\ actions'[other] # None
  BY <1>2, <1>6, <1>8 DEF Exists
<1>9. ASSUME NEW other \in ActionIds
      PROVE  /\ Locked(other)' <=> Locked(other)
             /\ Locked(other) => Exists(other)
  <2>1. None \notin ActionIds
    BY GatewayAssumption
  <2> QED
    BY <1>3, <2>1 DEF Locked, GatewayInv, RunsTrue
<1>10. GatewayTypeOK'
  BY <1>3, <1>5, <1>6 DEF GatewayInv, GatewayTypeOK
<1>11. RowsInOrder'
  <2> SUFFICES ASSUME NEW other \in ActionIds, Exists(other) \/ other = id
               PROVE  /\ \A before \in 1 .. other - 1 : Exists(before)'
                      /\ Addressed(actions'[other].method, actions'[other].proposalId,
                                   actions'[other].target)
    BY <1>7 DEF RowsInOrder, Addressed
  <2>1. \A before \in 1 .. other - 1 : before \in ActionIds
    BY GatewayAssumption
  <2>2. CASE other = id
    BY <1>2, <1>4, <1>6, <1>7, <2>1, <2>2
  <2>3. CASE Exists(other)
    BY <1>7, <1>8, <2>1, <2>3 DEF GatewayInv, RowsInOrder
  <2> QED
    BY <2>2, <2>3
<1>12. RunsTrue'
  <2> SUFFICES ASSUME NEW e \in Executors, executors[e].id # None
               PROVE  /\ actions'[executors[e].id] # None
                      /\ SameAction(executors[e].row, actions'[executors[e].id])
    BY <1>3 DEF GatewayInv, RunsTrue, Exists, SignerAllowed
  <2>1. PICK own \in ActionIds : own = executors[e].id
    BY RunAt, RunFields DEF GatewayInv
  <2>2. Exists(own) /\ SameAction(executors[e].row, actions[own])
    BY <2>1 DEF GatewayInv, RunsTrue
  <2> QED
    BY <1>8, <2>1, <2>2
<1>13. CleanupTrue'
  <2> SUFFICES ASSUME cleanup # None
               PROVE  /\ actions'[cleanup.id] # None
                      /\ SameAction(cleanup.row, actions'[cleanup.id])
                      /\ actions'[cleanup.id].expiresAt <= now
    BY <1>3 DEF CleanupTrue, Exists
  <2>1. PICK own \in ActionIds : own = cleanup.id
    BY DEF GatewayInv, GatewayTypeOK
  <2>2. Exists(own) /\ SameAction(cleanup.row, actions[own]) /\ actions[own].expiresAt <= now
    BY <2>1 DEF GatewayInv, CleanupTrue
  <2> QED
    BY <1>8, <2>1, <2>2
<1>14. SendsPaid'
  <2>1. ASSUME NEW other \in ActionIds,
               ~Exists(other)' \/ (actions'[other].status = "requested" /\ ~Locked(other)')
        PROVE  sends[other] <= crashes[other]
    <3>1. CASE other = id
      BY <1>2, <3>1 DEF GatewayInv, SendsPaid
    <3>2. CASE other # id
      BY <1>6, <1>7, <1>9, <2>1, <3>2 DEF GatewayInv, SendsPaid
    <3> QED
      BY <3>1, <3>2
  <2> QED
    BY <1>3, <2>1 DEF GatewayInv, SendsPaid
<1>15. SentTrue'
  <2>1. Sent' = Sent /\ \A tx \in Sent : tx.action \in ActionIds
    BY <1>3, SentTyped, TransactionFields DEF GatewayInv, GatewayTypeOK, Sent
  <2> QED
    BY <1>8, <2>1 DEF GatewayInv, SentTrue, Exists
<1>16. HeldOpen'
  <2>1. ASSUME NEW other \in ActionIds, Locked(other)
        PROVE  \/ actions'[other].status = "requested"
               \/ actions'[other].status = "stale" /\ actions'[other].expiresAt <= now
    BY <1>8, <1>9, <2>1 DEF GatewayInv, HeldOpen
  <2> QED
    BY <1>3, <1>9, <2>1 DEF HeldOpen
<1>17. IntentsApart'
  <2> SUFFICES ASSUME NEW i \in ActionIds, NEW j \in ActionIds, i < j,
                      Exists(i) \/ i = id, Exists(j) \/ j = id,
                      actions'[i].intentKey = actions'[j].intentKey
               PROVE  \/ actions'[i].expiresAt + QueueTTL <= actions'[j].expiresAt
                      \/ actions'[i].status \notin OpenStatuses /\ ~Locked(i)
    BY <1>7, <1>9 DEF IntentsApart
  <2>1. /\ i \in Int /\ j \in Int /\ id \in Int /\ 1 <= id
    BY GatewayAssumption
  <2>2. CASE Exists(i) /\ Exists(j)
    BY <1>8, <2>2 DEF GatewayInv, IntentsApart
  <2>3. CASE Exists(i) /\ j = id
    <3>1. actions[i].intentKey = row.intentKey /\ actions'[i] = actions[i] /\ actions'[j] = row
      BY <1>6, <1>8, <2>3
    <3>2. actions[i].status \notin OpenStatuses \/ isExpiredRequested(actions[i])
      BY <1>3, <2>3, <3>1 DEF OpenIntent
    <3>3. actions[i].expiresAt \in Nat /\ now \in Nat /\ QueueTTL \in Nat
      BY <2>3, RowAt, RowFields, GatewayAssumption DEF GatewayInv, GatewayTypeOK, GovTypeOK
    <3>4. actions[i].expiresAt <= now => actions'[i].expiresAt + QueueTTL <= actions'[j].expiresAt
      BY <1>4, <3>1, <3>3
    <3>5. CASE isExpiredRequested(actions[i])
      BY <3>4, <3>5 DEF isExpiredRequested
    <3>6. CASE actions[i].status \notin OpenStatuses /\ Locked(i)
      <4>1. actions[i].status # "requested"
        BY <3>6 DEF OpenStatuses
      <4> QED
        BY <2>3, <3>4, <3>6, <4>1 DEF GatewayInv, HeldOpen
    <3>7. CASE actions[i].status \notin OpenStatuses /\ ~Locked(i)
      BY <3>1, <3>7
    <3> QED
      BY <3>2, <3>5, <3>6, <3>7
  <2>4. ~(i = id /\ Exists(j)) /\ ~(i = id /\ j = id)
    <3>1. ASSUME i = id, Exists(j)
          PROVE  FALSE
      <4>1. id \in 1 .. j - 1
        BY <2>1, <3>1
      <4> QED
        BY <1>2, <3>1, <4>1 DEF GatewayInv, RowsInOrder
    <3> QED
      BY <2>1, <3>1
  <2> QED
    BY <2>2, <2>3, <2>4
<1>18. RowsTrue'
  <2> SUFFICES ASSUME NEW other \in ActionIds, Exists(other) \/ other = id
               PROVE  RowTrue(other, actions[other])'
    BY <1>7 DEF RowsTrue
  <2>1. PICK new : new = actions'[other]
    OBVIOUS
  <2>2. RowTrue(other, new)
    <3>1. CASE other = id
      BY <1>4, <1>6, <2>1, <3>1 DEF RowTrue, OutcomeStatuses
    <3>2. CASE Exists(other)
      BY <1>8, <2>1, <3>2 DEF GatewayInv, RowsTrue
    <3> QED
      BY <3>1, <3>2
  <2>3. RowTrue(other, new)'
    BY <1>5, <2>2
  <2> QED
    BY <2>1, <2>3 DEF RowTrue
<1> QED
  BY <1>5, <1>10, <1>11, <1>12, <1>13, <1>14, <1>15, <1>16, <1>17, <1>18 DEF GatewayInv

-------------------------------------------------------------------------------
(* The specification *)

\* The contract a gateway finds: what the histories say of it is consistent.
LEMMA ChainFound ==
  ASSUME ChainInit
  PROVE  GovTypeOK /\ NumberedInOrder
<1>1. PICK h \in ChainHistories :
        /\ now = h.now
        /\ paused = h.paused
        /\ claimsPaused = h.claimsPaused
        /\ oracleActive = h.oracleActive
        /\ oracleAddress = InitialOracle
        /\ treasuryPayoutAddress = Treasury
        /\ admins = InitialAdmins
        /\ unpauseProposal =
             [approvalCount |-> Cardinality(h.approvedUnpause), executed |-> FALSE]
        /\ unpauseHasApproved = h.approvedUnpause
        /\ hasActiveUnpauseProposal = (h.approvedUnpause # {})
        /\ govProposals = h.proposals
        /\ govCounter = [kind \in Kinds |-> Cardinality(MadeIds(h, kind))]
  BY DEF ChainInit
<1>2. /\ h.now \in Nat \ {0} /\ h.paused \in BOOLEAN /\ h.claimsPaused \in BOOLEAN
      /\ h.oracleActive \in BOOLEAN /\ h.approvedUnpause \in SUBSET InitialAdmins
      /\ h.proposals \in [Kinds -> [ProposalIds -> GovProposal]]
  BY GatewayAssumption DEF ChainHistory
<1>3. Cardinality(h.approvedUnpause) \in Nat
  BY <1>2, GovernanceAssumption, FS_Subset, FS_CardinalityType
<1>4. unpauseProposal \in UnpauseProposal
  BY <1>1, <1>3 DEF UnpauseProposal
<1>5. ASSUME NEW kind \in Kinds
      PROVE  /\ MadeIds(h, kind) = 0 .. Cardinality(MadeIds(h, kind)) - 1
             /\ Cardinality(MadeIds(h, kind)) \in 0 .. MaxProposals
  <2>1. PICK n : n = Cardinality(MadeIds(h, kind))
    OBVIOUS
  <2>2. MadeIds(h, kind) \subseteq ProposalIds
    BY DEF MadeIds
  <2>3. IsFiniteSet(ProposalIds)
    BY GovernanceAssumption, FS_Interval DEF ProposalIds
  <2>4. n \in Nat
    BY <2>1, <2>2, <2>3, FS_Subset, FS_CardinalityType
  <2>5. MadeIds(h, kind) = 0 .. n - 1
    BY <2>1, GatewayAssumption
  <2>6. n # 0 => n - 1 \in ProposalIds
    BY <2>2, <2>4, <2>5
  <2>7. n \in 0 .. MaxProposals
    BY <2>4, <2>6, GovernanceAssumption DEF ProposalIds
  <2> QED
    BY <2>1, <2>5, <2>7
<1>6. govCounter \in [Kinds -> 0 .. MaxProposals]
  BY <1>1, <1>5
<1>7. GovTypeOK
  BY <1>1, <1>2, <1>4, <1>6, GovernanceAssumption DEF GovTypeOK
<1>8. NumberedInOrder
  <2> SUFFICES ASSUME NEW kind \in Kinds, NEW id \in ProposalIds, id >= govCounter[kind]
               PROVE  govProposals[kind][id] = NoProposal
    BY DEF NumberedInOrder
  <2>1. PICK n : n = Cardinality(MadeIds(h, kind))
    OBVIOUS
  <2>2. govCounter[kind] = n
    BY <1>1, <2>1
  <2>3. n \in Int /\ id \in Int
    BY <1>5, <2>1, GovernanceAssumption DEF ProposalIds
  <2>4. id \notin 0 .. n - 1
    BY <2>2, <2>3
  <2>5. id \notin MadeIds(h, kind)
    BY <1>5, <2>1, <2>4
  <2> QED
    BY <1>1, <2>5 DEF MadeIds
<1> QED
  BY <1>7, <1>8

LEMMA GatewayInitial ==
  ASSUME GatewayInit
  PROVE  GatewayInv
<1>1. /\ ChainInit
      /\ mempool = {} /\ mined = {}
      /\ actions = [id \in ActionIds |-> None]
      /\ executors = [e \in Executors |-> Idle]
      /\ cleanup = None
      /\ sends = [id \in ActionIds |-> 0]
      /\ crashes = [id \in ActionIds |-> 0]
  BY DEF GatewayInit
<1>2. GovTypeOK /\ NumberedInOrder
  BY <1>1, ChainFound
<1>3. \A id \in ActionIds : ~Exists(id)
  BY <1>1 DEF Exists
<1>4. \A e \in Executors : executors[e].id = None
  BY <1>1
<1>5. GatewayTypeOK
  BY <1>1, <1>2 DEF GatewayTypeOK
<1>6. RowsInOrder /\ HeldOpen /\ IntentsApart /\ RowsTrue
  BY <1>3 DEF RowsInOrder, HeldOpen, IntentsApart, RowsTrue
<1>7. RunsTrue
  BY <1>4 DEF RunsTrue
<1>8. CleanupTrue /\ MinedTrue
  BY <1>1 DEF CleanupTrue, MinedTrue
<1>9. SentTrue
  BY <1>1 DEF SentTrue, Sent
<1>10. SendsPaid
  BY <1>1, <1>4 DEF SendsPaid
<1> QED
  BY <1>2, <1>5, <1>6, <1>7, <1>8, <1>9, <1>10 DEF GatewayInv

\* One case per kind of step.
LEMMA GatewayStep ==
  ASSUME GatewayInv, [GatewayNext]_vars
  PROVE  GatewayInv' /\ [GovNext]_govVars
<1>1. CASE ChainStep
  BY <1>1, ChainStepKeeps
<1>2. CASE \E wallet \in admins, method \in Methods, id \in ProposalIds,
              target \in ProposalTargets : queueAction(wallet, method, id, target)
  <2>1. GatewayInv'
    BY <1>2, QueueActionKeeps
  <2>2. UNCHANGED chainVars
    BY <1>2 DEF queueAction
  <2> QED
    BY <2>1, <2>2
<1>3. ASSUME NEW e \in Executors, ExecutorStep(e)
      PROVE  GatewayInv' /\ UNCHANGED chainVars
  <2>1. CASE \E id \in ActionIds, signer \in InitialAdmins : executeStart(e, id, signer)
    <3>1. UNCHANGED chainVars
      BY <2>1 DEF executeStart
    <3> QED
      BY <2>1, <3>1, ExecuteStartKeeps
  <2>2. CASE execute(e)
    <3>1. UNCHANGED chainVars
      BY <2>2 DEF execute
    <3> QED
      BY <2>2, <3>1, ExecuteKeeps
  <2>3. CASE persistFailure(e)
    <3>1. UNCHANGED chainVars
      BY <2>3 DEF persistFailure, Finish
    <3> QED
      BY <2>3, <3>1, PersistFailureKeeps
  <2>4. CASE persistExecutionTimeout(e)
    <3>1. UNCHANGED chainVars
      BY <2>4 DEF persistExecutionTimeout, Finish
    <3> QED
      BY <2>4, <3>1, PersistTimeoutKeeps
  <2>5. CASE persistExecution(e)
    <3>1. UNCHANGED chainVars
      BY <2>5 DEF persistExecution, Finish
    <3> QED
      BY <2>5, <3>1, PersistExecutionKeeps
  <2>6. CASE executorCrash(e)
    <3>1. UNCHANGED chainVars
      BY <2>6 DEF executorCrash
    <3> QED
      BY <2>6, <3>1, ExecutorCrashKeeps
  <2> QED
    BY <1>3, <2>1, <2>2, <2>3, <2>4, <2>5, <2>6 DEF ExecutorStep
<1>4. ASSUME NEW id \in ActionIds, persistStale(id) \/ cleanupCheck(id)
      PROVE  GatewayInv' /\ UNCHANGED chainVars
  <2>1. UNCHANGED chainVars
    BY <1>4 DEF persistStale, cleanupCheck
  <2> QED
    BY <1>4, <2>1, PersistStaleKeeps, CleanupCheckKeeps
<1>5. CASE cleanupSave
  <2>1. UNCHANGED chainVars
    BY <1>5 DEF cleanupSave
  <2> QED
    BY <1>5, <2>1, CleanupSaveKeeps
<1>6. CASE UNCHANGED vars
  <2>1. UNCHANGED <<mempool, mined>> /\ UNCHANGED gatewayVars /\ UNCHANGED govVars
    BY <1>6
  <2>2. mined' \in SUBSET Receipt /\ Sent' = Sent
    BY <2>1 DEF GatewayInv, GatewayTypeOK, Sent
  <2> QED
    BY <2>1, <2>2, ContractStepKeeps
<1> QED
  BY <1>1, <1>2, <1>3, <1>4, <1>5, <1>6 DEF GatewayNext

\* The queue, the executors and the cleanup keep GatewayInv in every behaviour.
THEOREM GatewayInvariant == GatewaySpec => []GatewayInv
<1>1. GatewayInit => GatewayInv
  BY GatewayInitial
<1>2. GatewayInv /\ [GatewayNext]_vars => GatewayInv'
  BY GatewayStep
<1> QED
  BY <1>1, <1>2, PTL DEF GatewaySpec

\* However many executors run and however often they die, a governance action is
\* broadcast once, and once more for each executor that died on it: the advisory
\* lock and the status read under it in executeAction are enough.
THEOREM SentOncePerRunHolds == GatewaySpec => []SentOncePerRun
<1>1. GatewayInv => SentOncePerRun
  BY DEF GatewayInv, SendsPaid, SentOncePerRun
<1> QED
  BY <1>1, GatewayInvariant, PTL

\* A row that reports an outcome has a mined transaction of its own behind it, and
\* is right about its proposal, although persistExecution writes what was read of
\* the chain before: what a proposal reached, it keeps.
THEOREM RecordedOutcomeHappenedHolds == GatewaySpec => []RecordedOutcomeHappened
<1>1. GatewayInv => RecordedOutcomeHappened
  BY DEF GatewayInv, RowsTrue, RowTrue, OutcomeStatuses, ProposalOf, RecordedOutcomeHappened
<1> QED
  BY <1>1, GatewayInvariant, PTL

\* Whoever runs the executor, an approval is signed by the operator who queued it,
\* although executors write back copies of rows that others have changed since.
THEOREM ApprovalSignedHolds == GatewaySpec => []ApprovalSignedByItsApprover
<1>1. GatewayInv => ApprovalSignedByItsApprover
  BY DEF GatewayInv, SentTrue, ApprovalSignedByItsApprover
<1> QED
  BY <1>1, GatewayInvariant, PTL

\* Two open rows of one intent were queued a whole queue lifetime apart, whatever
\* the executors and the cleanup, which do not take the intent's lock, wrote since.
THEOREM OpenIntentsApartHolds == GatewaySpec => []OpenIntentsApart
<1>1. GatewayInv => OpenIntentsApart
  BY DEF GatewayInv, IntentsApart, OpenIntentsApart
<1> QED
  BY <1>1, GatewayInvariant, PTL

\* Through the queue, as through direct calls of the SDK, the contract takes the
\* steps of EscrowGovernance and no others.
THEOREM ChainIsTheContract == GatewaySpec => [][GovNext]_govVars
<1>1. GatewayInv /\ [GatewayNext]_vars => [GovNext]_govVars
  BY GatewayStep
<1> QED
  BY <1>1, GatewayInvariant, PTL DEF GatewaySpec
===============================================================================
