------------------------ MODULE EscrowGovernanceProofs ------------------------
(***************************************************************************)
(* Theorems about EscrowGovernance, for every set of accounts and admins,  *)
(* every requiredApprovals the constructor accepts, every timelock and     *)
(* lifetime, and every bound.                                              *)
(***************************************************************************)
EXTENDS EscrowGovernance, FiniteSetTheorems, TLAPS

USE DEF Kinds, switchVars, roleVars, unpauseVars, proposalVars, govVars

-------------------------------------------------------------------------------
(* Facts about the shared steps *)

LEMMA ApprovalsType == governanceApprovals \in Nat /\ governanceApprovals >= 2
  BY GovernanceAssumption DEF governanceApprovals

LEMMA NoProposalType == NoProposal \in GovProposal /\ NoProposal.createdAt = 0
  BY DEF NoProposal, GovProposal

\* An open proposal was made: only the default entry has no creation time.
LEMMA OpenIsMade ==
  ASSUME GovTypeOK, NEW kind \in Kinds, NEW id \in ProposalIds, OpenProposal(kind, id)
  PROVE  govProposals[kind][id] \in MadeProposal
  BY NoProposalType DEF GovTypeOK, OpenProposal, GovProposal

\* Making, approving, executing or cancelling a proposal keeps the proposals typed.
LEMMA NewProposalType ==
  ASSUME GovTypeOK, NEW kind \in Kinds, NEW a \in Accounts,
         NEW target \in Accounts \cup {ZeroAddress}, NEW eta \in Nat, NEW fast \in BOOLEAN,
         NewProposal(kind, a, target, eta, fast)
  PROVE  GovTypeOK'
<1> DEFINE p == [target |-> target, approvedBy |-> {a}, approvalCount |-> 1,
                 executed |-> FALSE, cancelled |-> FALSE, createdAt |-> now,
                 eta |-> eta, expiresAt |-> now + GovernanceProposalTTL,
                 fastTrack |-> fast]
<1>1. p \in GovProposal
  <2>1. target \in Accounts /\ now + GovernanceProposalTTL \in Nat
    BY GovernanceAssumption DEF GovTypeOK, NewProposal, MayPropose
  <2> QED
    BY <2>1 DEF GovTypeOK, GovProposal, MadeProposal
<1>2. govCounter' \in [Kinds -> 0 .. MaxProposals]
  BY GovernanceAssumption DEF GovTypeOK, NewProposal
<1>3. govProposals' = [govProposals EXCEPT ![kind][govCounter[kind]] = p]
  BY DEF NewProposal
<1>4. govProposals' \in [Kinds -> [ProposalIds -> GovProposal]]
  <2> HIDE DEF p
  <2> QED BY <1>1, <1>3 DEF GovTypeOK
<1> QED
  BY <1>2, <1>4 DEF GovTypeOK, NewProposal

LEMMA ReplaceProposalType ==
  ASSUME govProposals \in [Kinds -> [ProposalIds -> GovProposal]],
         NEW kind \in Kinds, NEW id \in ProposalIds, NEW p \in GovProposal
  PROVE  [govProposals EXCEPT ![kind][id] = p] \in [Kinds -> [ProposalIds -> GovProposal]]
  OBVIOUS

LEMMA UpdatedIsMade ==
  ASSUME NEW p \in MadeProposal, NEW a \in Accounts
  PROVE  /\ [p EXCEPT !.approvedBy = @ \cup {a}, !.approvalCount = @ + 1] \in MadeProposal
         /\ [p EXCEPT !.executed = TRUE] \in MadeProposal
         /\ [p EXCEPT !.cancelled = TRUE] \in MadeProposal
<1>1. p.approvedBy \cup {a} \in SUBSET Accounts /\ p.approvalCount + 1 \in Nat
  BY DEF MadeProposal
<1> QED
  BY <1>1 DEF MadeProposal

LEMMA ProposalUpdateType ==
  ASSUME GovTypeOK, NEW kind \in Kinds, NEW a \in Accounts, NEW id \in ProposalIds,
         \/ ApproveProposal(kind, a, id)
         \/ ExecuteProposal(kind, a, id)
         \/ CancelExpiredProposal(kind, a, id)
  PROVE  govProposals' \in [Kinds -> [ProposalIds -> GovProposal]]
<1> DEFINE p == govProposals[kind][id]
<1>0. p \in MadeProposal
  BY OpenIsMade DEF ApproveProposal, ExecuteProposal, CancelExpiredProposal
<1>1. CASE ApproveProposal(kind, a, id)
  <2> DEFINE q == [p EXCEPT !.approvedBy = @ \cup {a}, !.approvalCount = @ + 1]
  <2>1. govProposals' = [govProposals EXCEPT ![kind][id] = q]
    BY <1>1 DEF ApproveProposal, GovTypeOK
  <2>2. q \in GovProposal
    BY <1>0, UpdatedIsMade DEF GovProposal
  <2> QED
    BY <2>1, <2>2, ReplaceProposalType DEF GovTypeOK
<1>2. CASE ExecuteProposal(kind, a, id)
  <2>1. govProposals' = [govProposals EXCEPT ![kind][id] = [p EXCEPT !.executed = TRUE]]
    BY <1>2, Zenon DEF ExecuteProposal
  <2>2. [p EXCEPT !.executed = TRUE] \in GovProposal
    BY <1>0, UpdatedIsMade DEF GovProposal
  <2> QED
    BY <2>1, <2>2, ReplaceProposalType DEF GovTypeOK
<1>3. CASE CancelExpiredProposal(kind, a, id)
  <2>1. govProposals' = [govProposals EXCEPT ![kind][id] = [p EXCEPT !.cancelled = TRUE]]
    BY <1>3, Zenon DEF CancelExpiredProposal
  <2>2. [p EXCEPT !.cancelled = TRUE] \in GovProposal
    BY <1>0, UpdatedIsMade DEF GovProposal
  <2> QED
    BY <2>1, <2>2, ReplaceProposalType DEF GovTypeOK
<1> QED
  BY <1>1, <1>2, <1>3

\* Where the shared steps write, and what.
LEMMA NewProposalEffect ==
  ASSUME GovTypeOK, NEW kind \in Kinds, NEW a, NEW target, NEW eta, NEW fast,
         NewProposal(kind, a, target, eta, fast),
         NEW k \in Kinds, NEW i \in ProposalIds
  PROVE  \/ govProposals'[k][i] = govProposals[k][i]
         \/ /\ k = kind
            /\ govProposals'[k][i] =
                 [target |-> target, approvedBy |-> {a}, approvalCount |-> 1,
                  executed |-> FALSE, cancelled |-> FALSE, createdAt |-> now,
                  eta |-> eta, expiresAt |-> now + GovernanceProposalTTL,
                  fastTrack |-> fast]
  BY DEF GovTypeOK, NewProposal

\* Approving changes the approvals of one proposal, and nothing else of it.
LEMMA ApproveEffect ==
  ASSUME GovTypeOK, NEW kind \in Kinds, NEW a, NEW id \in ProposalIds,
         ApproveProposal(kind, a, id),
         NEW k \in Kinds, NEW i \in ProposalIds
  PROVE  LET p == govProposals[k][i]
             q == govProposals'[k][i]
         IN \/ q = p
            \/ /\ k = kind /\ i = id
               /\ q.approvedBy = p.approvedBy \cup {a}
               /\ q.approvalCount = p.approvalCount + 1
               /\ q.executed = p.executed
               /\ q.cancelled = p.cancelled
               /\ q.createdAt = p.createdAt
               /\ q.expiresAt = p.expiresAt
               /\ q.eta = p.eta
               /\ q.fastTrack = p.fastTrack
               /\ q.target = p.target
<1> DEFINE p == govProposals[kind][id]
           q == [p EXCEPT !.approvedBy = @ \cup {a}, !.approvalCount = @ + 1]
<1>1. p \in MadeProposal
  BY OpenIsMade DEF ApproveProposal
<1>2. /\ q.approvedBy = p.approvedBy \cup {a}
      /\ q.approvalCount = p.approvalCount + 1
      /\ q.executed = p.executed
      /\ q.cancelled = p.cancelled
      /\ q.createdAt = p.createdAt
      /\ q.expiresAt = p.expiresAt
      /\ q.eta = p.eta
      /\ q.fastTrack = p.fastTrack
      /\ q.target = p.target
  BY <1>1 DEF MadeProposal
<1>3. govProposals' = [govProposals EXCEPT ![kind][id] = q]
  BY DEF ApproveProposal
<1> HIDE DEF q
<1>4. \/ govProposals'[k][i] = govProposals[k][i]
      \/ k = kind /\ i = id /\ govProposals'[k][i] = q
  BY <1>3 DEF GovTypeOK
<1> QED
  BY <1>2, <1>4

\* Executing sets the flag executed of one proposal, and changes nothing else of it.
LEMMA ExecuteEffect ==
  ASSUME GovTypeOK, NEW kind \in Kinds, NEW a, NEW id \in ProposalIds,
         ExecuteProposal(kind, a, id),
         NEW k \in Kinds, NEW i \in ProposalIds
  PROVE  LET p == govProposals[k][i]
             q == govProposals'[k][i]
         IN \/ q = p /\ (k # kind \/ i # id)
            \/ /\ k = kind /\ i = id
               /\ q.executed
               /\ q.cancelled = p.cancelled
               /\ q.approvedBy = p.approvedBy
               /\ q.approvalCount = p.approvalCount
               /\ q.createdAt = p.createdAt
               /\ q.expiresAt = p.expiresAt
               /\ q.eta = p.eta
               /\ q.fastTrack = p.fastTrack
               /\ q.target = p.target
<1> DEFINE p == govProposals[kind][id]
           q == [p EXCEPT !.executed = TRUE]
<1>1. p \in MadeProposal
  BY OpenIsMade DEF ExecuteProposal
<1>2. /\ q.executed
      /\ q.cancelled = p.cancelled
      /\ q.approvedBy = p.approvedBy
      /\ q.approvalCount = p.approvalCount
      /\ q.createdAt = p.createdAt
      /\ q.expiresAt = p.expiresAt
      /\ q.eta = p.eta
      /\ q.fastTrack = p.fastTrack
      /\ q.target = p.target
  BY <1>1 DEF MadeProposal
<1>3. govProposals' = [govProposals EXCEPT ![kind][id] = q]
  BY Zenon DEF ExecuteProposal
<1> HIDE DEF q
<1>4. \/ govProposals'[k][i] = govProposals[k][i] /\ (k # kind \/ i # id)
      \/ k = kind /\ i = id /\ govProposals'[k][i] = q
  BY <1>3 DEF GovTypeOK
<1> QED
  BY <1>2, <1>4

\* Cancelling sets the flag cancelled of one proposal, and changes nothing else of it.
LEMMA CancelEffect ==
  ASSUME GovTypeOK, NEW kind \in Kinds, NEW a, NEW id \in ProposalIds,
         CancelExpiredProposal(kind, a, id),
         NEW k \in Kinds, NEW i \in ProposalIds
  PROVE  LET p == govProposals[k][i]
             q == govProposals'[k][i]
         IN \/ q = p /\ (k # kind \/ i # id)
            \/ /\ k = kind /\ i = id
               /\ q.cancelled
               /\ q.executed = p.executed
               /\ q.approvedBy = p.approvedBy
               /\ q.approvalCount = p.approvalCount
               /\ q.createdAt = p.createdAt
               /\ q.expiresAt = p.expiresAt
               /\ q.eta = p.eta
               /\ q.fastTrack = p.fastTrack
               /\ q.target = p.target
<1> DEFINE p == govProposals[kind][id]
           q == [p EXCEPT !.cancelled = TRUE]
<1>1. p \in MadeProposal
  BY OpenIsMade DEF CancelExpiredProposal
<1>2. /\ q.cancelled
      /\ q.executed = p.executed
      /\ q.approvedBy = p.approvedBy
      /\ q.approvalCount = p.approvalCount
      /\ q.createdAt = p.createdAt
      /\ q.expiresAt = p.expiresAt
      /\ q.eta = p.eta
      /\ q.fastTrack = p.fastTrack
      /\ q.target = p.target
  BY <1>1 DEF MadeProposal
<1>3. govProposals' = [govProposals EXCEPT ![kind][id] = q]
  BY Zenon DEF CancelExpiredProposal
<1> HIDE DEF q
<1>4. \/ govProposals'[k][i] = govProposals[k][i] /\ (k # kind \/ i # id)
      \/ k = kind /\ i = id /\ govProposals'[k][i] = q
  BY <1>3 DEF GovTypeOK
<1> QED
  BY <1>2, <1>4

-------------------------------------------------------------------------------
(* The steps, sorted by what they do to the proposals *)

AnyNew ==
  \E kind \in Kinds, a \in Accounts, target \in Accounts \cup {ZeroAddress},
     eta \in Nat, fast \in BOOLEAN :
    /\ eta >= now + GovernanceTimelock \/ (kind = "oracle" /\ fast)
    /\ NewProposal(kind, a, target, eta, fast)

AnyApprove ==
  \E kind \in Kinds, a \in Accounts, id \in ProposalIds : ApproveProposal(kind, a, id)

AnyCancel ==
  \E kind \in Kinds, a \in Accounts, id \in ProposalIds : CancelExpiredProposal(kind, a, id)

AnyExecute ==
  \E a \in Accounts, id \in ProposalIds :
    \/ executeOracleUpdate(a, id)
    \/ executeAddAdmin(a, id)
    \/ executeTreasuryPayoutAddressUpdate(a, id)

AnySwitch == \E a \in Accounts : SwitchStep(a)

LEMMA StepKinds ==
  ASSUME GovTypeOK, [GovNext]_govVars
  PROVE  \/ UNCHANGED govVars
         \/ Tick
         \/ AnySwitch
         \/ AnyNew
         \/ AnyApprove
         \/ AnyExecute
         \/ AnyCancel
<1>1. ASSUME NEW a \in Accounts, NEW target \in Accounts \cup {ZeroAddress},
             ProposeStep(a, target)
      PROVE  AnyNew
  <2>1. CASE proposeOracleUpdate(a, target)
    <3> DEFINE eta == IF oracleActive THEN now + GovernanceTimelock ELSE now
    <3>1. /\ eta \in Nat
          /\ eta >= now + GovernanceTimelock \/ ~oracleActive
          /\ (~oracleActive) \in BOOLEAN
      BY GovernanceAssumption DEF GovTypeOK
    <3>2. NewProposal("oracle", a, target, eta, ~oracleActive)
      BY <2>1, Zenon DEF proposeOracleUpdate
    <3> HIDE DEF eta
    <3> QED
      BY <3>1, <3>2, Zenon DEF AnyNew
  <2>2. CASE proposeAddAdmin(a, target) \/ proposeTreasuryPayoutAddressUpdate(a, target)
    <3> DEFINE eta == now + GovernanceTimelock
    <3>1. eta \in Nat /\ eta >= now + GovernanceTimelock
      BY GovernanceAssumption DEF GovTypeOK
    <3>2. NewProposal("admin", a, target, eta, FALSE) \/ NewProposal("payout", a, target, eta, FALSE)
      BY <2>2, Zenon DEF proposeAddAdmin, proposeTreasuryPayoutAddressUpdate
    <3> HIDE DEF eta
    <3> QED
      BY <3>1, <3>2, Zenon DEF AnyNew
  <2> QED
    BY <1>1, <2>1, <2>2 DEF ProposeStep
<1>2. ASSUME NEW a \in Accounts, NEW id \in ProposalIds, ProposalStep(a, id)
      PROVE  AnyApprove \/ AnyExecute \/ AnyCancel
  BY <1>2, Zenon DEF ProposalStep, AnyApprove, AnyExecute, AnyCancel,
     approveOracleUpdate, approveAddAdmin, approveTreasuryPayoutAddressUpdate,
     cancelExpiredOracleUpdateProposal, cancelExpiredAddAdminProposal,
     cancelExpiredTreasuryPayoutAddressUpdateProposal
<1> QED
  BY <1>1, <1>2, Zenon DEF GovNext, GovStep, AnySwitch

-------------------------------------------------------------------------------
(* Type correctness *)

LEMMA GovTypeInit == GovInit => GovTypeOK
<1> SUFFICES ASSUME GovInit PROVE GovTypeOK
  OBVIOUS
<1>1. unpauseProposal \in UnpauseProposal
  BY DEF GovInit, NoUnpauseProposal, UnpauseProposal
<1>2. govProposals \in [Kinds -> [ProposalIds -> GovProposal]]
  BY NoProposalType DEF GovInit
<1>3. govCounter \in [Kinds -> 0 .. MaxProposals]
  BY GovernanceAssumption DEF GovInit
<1>4. now \in Nat \ {0}
  BY DEF GovInit
<1> QED
  BY GovernanceAssumption, <1>1, <1>2, <1>3, <1>4, Zenon DEF GovInit, GovTypeOK

LEMMA SwitchType ==
  ASSUME GovTypeOK, NEW a \in Accounts, SwitchStep(a)
  PROVE  GovTypeOK'
<1>1. UnpauseProposal = [approvalCount : Nat, executed : BOOLEAN]
  BY DEF UnpauseProposal
<1>2. CASE pause(a) \/ pauseClaims(a) \/ unpauseClaims(a) \/ disableOracleEmergency(a)
  BY <1>2 DEF GovTypeOK, pause, pauseClaims, unpauseClaims, disableOracleEmergency
<1>3. CASE proposeUnpause(a)
  BY <1>1, <1>3 DEF GovTypeOK, proposeUnpause, ClearedApprovals
<1>4. CASE approveUnpause(a)
  <2>1. CASE executeUnpause
    <3>1. unpauseProposal' \in UnpauseProposal
      BY <1>1, <2>1 DEF GovTypeOK, executeUnpause
    <3> QED
      BY <3>1, <1>4, <2>1 DEF GovTypeOK, approveUnpause, executeUnpause, ClearedApprovals
  <2>2. CASE ~executeUnpause
    <3>1. unpauseProposal' = [unpauseProposal EXCEPT !.approvalCount = @ + 1]
      BY <1>4, <2>2, Zenon DEF approveUnpause
    <3>2. unpauseProposal' \in UnpauseProposal
      BY <1>1, <3>1 DEF GovTypeOK
    <3> QED
      BY <3>2, <1>4, <2>2 DEF GovTypeOK, approveUnpause
  <2> QED
    BY <2>1, <2>2
<1>5. CASE cancelUnpauseProposal(a)
  BY <1>1, <1>5 DEF GovTypeOK, cancelUnpauseProposal, ClearedApprovals, NoUnpauseProposal
<1> QED
  BY <1>2, <1>3, <1>4, <1>5 DEF SwitchStep

LEMMA GovTypeStep ==
  ASSUME GovTypeOK, [GovNext]_govVars
  PROVE  GovTypeOK'
<1>1. CASE UNCHANGED govVars
  BY <1>1 DEF GovTypeOK
<1>2. CASE Tick
  BY <1>2, GovernanceAssumption DEF GovTypeOK, Tick
<1>3. CASE AnySwitch
  BY <1>3, SwitchType DEF AnySwitch
<1>4. CASE AnyNew
  BY <1>4, NewProposalType, Zenon DEF AnyNew
<1>5. CASE AnyApprove
  <2>1. PICK kind \in Kinds, a \in Accounts, id \in ProposalIds : ApproveProposal(kind, a, id)
    BY <1>5, Zenon DEF AnyApprove
  <2>2. govProposals' \in [Kinds -> [ProposalIds -> GovProposal]]
    BY <2>1, ProposalUpdateType
  <2> QED
    BY <2>1, <2>2 DEF GovTypeOK, ApproveProposal
<1>6. CASE AnyExecute
  <2>1. PICK a \in Accounts, id \in ProposalIds :
          \/ executeOracleUpdate(a, id)
          \/ executeAddAdmin(a, id)
          \/ executeTreasuryPayoutAddressUpdate(a, id)
    BY <1>6, Zenon DEF AnyExecute
  <2>2. \E kind \in Kinds : ExecuteProposal(kind, a, id)
    BY <2>1, Zenon DEF executeOracleUpdate, executeAddAdmin, executeTreasuryPayoutAddressUpdate
  <2>3. govProposals' \in [Kinds -> [ProposalIds -> GovProposal]]
    BY <2>2, ProposalUpdateType
  <2>4. \A k \in Kinds : ExecuteProposal(k, a, id) => govProposals[k][id].target \in Accounts
    BY OpenIsMade DEF ExecuteProposal, MadeProposal
  <2>5. UNCHANGED <<now, paused, claimsPaused, unpauseVars, govCounter>>
    BY <2>2, Zenon DEF ExecuteProposal
  <2> QED
    BY <2>1, <2>3, <2>4, <2>5
       DEF GovTypeOK, executeOracleUpdate, executeAddAdmin, executeTreasuryPayoutAddressUpdate
<1>7. CASE AnyCancel
  <2>1. PICK kind \in Kinds, a \in Accounts, id \in ProposalIds :
          CancelExpiredProposal(kind, a, id)
    BY <1>7, Zenon DEF AnyCancel
  <2>2. govProposals' \in [Kinds -> [ProposalIds -> GovProposal]]
    BY <2>1, ProposalUpdateType
  <2> QED
    BY <2>1, <2>2 DEF GovTypeOK, CancelExpiredProposal
<1> QED
  BY <1>1, <1>2, <1>3, <1>4, <1>5, <1>6, <1>7, StepKinds

(***************************************************************************)
(* Every reachable administrative state has its type.                      *)
(***************************************************************************)
THEOREM GovTypeCorrect == GovSpec => []GovTypeOK
  BY GovTypeInit, GovTypeStep, PTL DEF GovSpec

-------------------------------------------------------------------------------
(* The inductive invariant *)

(***************************************************************************)
(* A proposal's deadlines follow from its creation: the lifetime bounds    *)
(* its execution, and the timelock delays it unless it is an oracle update *)
(* on the fast track.                                                      *)
(***************************************************************************)
ProposalTimes ==
  \A k \in Kinds : \A id \in ProposalIds :
    LET p == govProposals[k][id] IN
      p.createdAt > 0 =>
        /\ p.expiresAt = p.createdAt + GovernanceProposalTTL
        /\ p.eta >= p.createdAt + GovernanceTimelock \/ (k = "oracle" /\ p.fastTrack)

AdminsFinite == IsFiniteSet(admins)

\* One proposal as GovernanceQuorum wants it.
QuorumOf(p) ==
  /\ p.approvedBy \subseteq admins
  /\ p.approvalCount = Cardinality(p.approvedBy)
  /\ p.executed => p.approvalCount >= governanceApprovals /\ ~p.cancelled

\* One proposal of family k as ProposalTimes wants it.
TimesOf(k, p) ==
  p.createdAt > 0 =>
    /\ p.expiresAt = p.createdAt + GovernanceProposalTTL
    /\ p.eta >= p.createdAt + GovernanceTimelock \/ (k = "oracle" /\ p.fastTrack)

GovInv ==
  /\ GovTypeOK
  /\ AdminsFinite
  /\ GovernanceQuorum
  /\ ProposalTimes
  /\ UnpauseApprovalsFresh

\* Adding an admin's approval to a set of approvals adds one to its size.
LEMMA OneMoreApproval ==
  ASSUME NEW S, NEW A, IsFiniteSet(A), S \subseteq A, NEW a, a \notin S
  PROVE  Cardinality(S) \in Nat /\ Cardinality(S \cup {a}) = Cardinality(S) + 1
<1>1. IsFiniteSet(S)
  BY FS_Subset
<1> QED
  BY <1>1, FS_AddElement, FS_CardinalityType

LEMMA GovInvInit == GovInit => GovInv
<1> SUFFICES ASSUME GovInit PROVE GovInv
  OBVIOUS
<1>1. \A k \in Kinds : \A id \in ProposalIds : govProposals[k][id] = NoProposal
  BY DEF GovInit
<1>2. GovernanceQuorum
  BY <1>1, FS_EmptySet DEF GovernanceQuorum, NoProposal
<1>3. ProposalTimes
  BY <1>1 DEF ProposalTimes, NoProposal
<1>4. UnpauseApprovalsFresh
  BY DEF GovInit, UnpauseApprovalsFresh
<1>5. AdminsFinite
  BY GovernanceAssumption DEF GovInit, AdminsFinite
<1> QED
  BY <1>2, <1>3, <1>4, <1>5, GovTypeInit DEF GovInv

LEMMA AdminsGrow ==
  ASSUME GovInv, [GovNext]_govVars
  PROVE  admins \subseteq admins' /\ AdminsFinite'
<1>0. GovTypeOK
  BY DEF GovInv
<1>1. CASE AnyExecute
  <2>1. admins' = admins \/ \E x : admins' = admins \cup {x}
    BY <1>1, Zenon DEF AnyExecute, executeOracleUpdate, executeAddAdmin,
                       executeTreasuryPayoutAddressUpdate
  <2> QED
    BY <2>1, FS_AddElement DEF GovInv, AdminsFinite
<1>2. CASE UNCHANGED admins
  BY <1>2 DEF GovInv, AdminsFinite
<1>3. CASE AnySwitch
  BY <1>2, <1>3 DEF AnySwitch, SwitchStep, pause, pauseClaims, unpauseClaims,
     disableOracleEmergency, proposeUnpause, approveUnpause, cancelUnpauseProposal
<1>4. CASE UNCHANGED govVars \/ Tick \/ AnyNew \/ AnyApprove \/ AnyCancel
  BY <1>2, <1>4 DEF Tick, AnyNew, AnyApprove, AnyCancel, NewProposal, ApproveProposal,
     CancelExpiredProposal
<1> QED
  BY <1>0, <1>1, <1>3, <1>4, StepKinds

\* Every proposal keeps its quorum and its deadlines.
LEMMA ProposalsStep ==
  ASSUME GovInv, [GovNext]_govVars
  PROVE  GovernanceQuorum' /\ ProposalTimes'
<1>0. GovTypeOK /\ governanceApprovals \in Nat /\ governanceApprovals >= 2
  BY ApprovalsType DEF GovInv
<1>a. admins \subseteq admins' /\ IsFiniteSet(admins)
  BY AdminsGrow DEF GovInv, AdminsFinite
<1> SUFFICES ASSUME NEW k \in Kinds, NEW i \in ProposalIds
             PROVE  QuorumOf(govProposals[k][i])' /\ TimesOf(k, govProposals[k][i])'
  BY Zenon DEF GovernanceQuorum, ProposalTimes, QuorumOf, TimesOf
<1> DEFINE p == govProposals[k][i]
<1>b. QuorumOf(p) /\ TimesOf(k, p) /\ p \in GovProposal
  BY DEF GovInv, GovernanceQuorum, ProposalTimes, QuorumOf, TimesOf, GovTypeOK
<1>1. CASE p' = p
  BY <1>1, <1>a, <1>b DEF QuorumOf, TimesOf
<1>2. CASE AnyNew
  <2>1. PICK kind \in Kinds, a \in Accounts, target \in Accounts \cup {ZeroAddress},
             eta \in Nat, fast \in BOOLEAN :
          /\ eta >= now + GovernanceTimelock \/ (kind = "oracle" /\ fast)
          /\ NewProposal(kind, a, target, eta, fast)
    BY <1>2, Zenon DEF AnyNew
  <2>2. \/ p' = p
        \/ /\ k = kind
           /\ p' = [target |-> target, approvedBy |-> {a}, approvalCount |-> 1,
                    executed |-> FALSE, cancelled |-> FALSE, createdAt |-> now,
                    eta |-> eta, expiresAt |-> now + GovernanceProposalTTL,
                    fastTrack |-> fast]
    BY <1>0, <2>1, NewProposalEffect
  <2>3. a \in admins /\ Cardinality({a}) = 1
    BY <2>1, FS_Singleton DEF NewProposal, MayPropose
  <2>4. CASE p' # p
    <3>1. /\ k = kind
          /\ p'.approvedBy = {a} /\ p'.approvalCount = 1 /\ p'.executed = FALSE
          /\ p'.createdAt = now /\ p'.eta = eta /\ p'.fastTrack = fast
          /\ p'.expiresAt = now + GovernanceProposalTTL
      BY <2>2, <2>4
    <3> HIDE DEF p
    <3>2. QuorumOf(p)'
      BY <1>a, <2>3, <3>1 DEF QuorumOf
    <3>3. TimesOf(k, p)'
      BY <2>1, <3>1 DEF TimesOf
    <3> QED
      BY <3>2, <3>3 DEF p
  <2> QED
    BY <1>1, <2>4
<1>3. CASE AnyApprove
  <2>1. PICK kind \in Kinds, a \in Accounts, id \in ProposalIds : ApproveProposal(kind, a, id)
    BY <1>3, Zenon DEF AnyApprove
  <2>2. CASE p' # p
    <3>1. \/ p' = p
          \/ /\ k = kind /\ i = id
             /\ p'.approvedBy = p.approvedBy \cup {a}
             /\ p'.approvalCount = p.approvalCount + 1
             /\ p'.executed = p.executed
             /\ p'.createdAt = p.createdAt
             /\ p'.expiresAt = p.expiresAt
             /\ p'.eta = p.eta
             /\ p'.fastTrack = p.fastTrack
      BY <1>0, <2>1, ApproveEffect
    <3>2. a \in admins /\ a \notin p.approvedBy /\ ~p.executed /\ p \in MadeProposal
      BY <1>0, <2>1, <2>2, <3>1, OpenIsMade DEF ApproveProposal, OpenProposal
    <3>3. /\ p'.approvedBy = p.approvedBy \cup {a}
          /\ p'.approvalCount = p.approvalCount + 1
          /\ p'.executed = p.executed
          /\ p'.createdAt = p.createdAt
          /\ p'.expiresAt = p.expiresAt
          /\ p'.eta = p.eta
          /\ p'.fastTrack = p.fastTrack
      BY <2>2, <3>1
    <3>4. Cardinality(p.approvedBy \cup {a}) = Cardinality(p.approvedBy) + 1
      BY <1>a, <1>b, <3>2, OneMoreApproval DEF QuorumOf
    <3> HIDE DEF p
    <3>5. QuorumOf(p)'
      BY <1>a, <1>b, <3>2, <3>3, <3>4 DEF QuorumOf
    <3>6. TimesOf(k, p)'
      BY <1>b, <3>3 DEF TimesOf
    <3> QED
      BY <3>5, <3>6 DEF p
  <2> QED
    BY <1>1, <2>2
<1>4. CASE AnyExecute
  <2>1. PICK kind \in Kinds, a \in Accounts, id \in ProposalIds : ExecuteProposal(kind, a, id)
    BY <1>4, Zenon DEF AnyExecute, executeOracleUpdate, executeAddAdmin,
                       executeTreasuryPayoutAddressUpdate
  <2>2. \/ p' = p
        \/ /\ k = kind /\ i = id
           /\ p'.executed
           /\ p'.cancelled = p.cancelled
           /\ p'.approvedBy = p.approvedBy
           /\ p'.approvalCount = p.approvalCount
           /\ p'.createdAt = p.createdAt
           /\ p'.expiresAt = p.expiresAt
           /\ p'.eta = p.eta
           /\ p'.fastTrack = p.fastTrack
    BY <1>0, <2>1, ExecuteEffect
  <2>3. CASE p' # p
    <3>1. p \in MadeProposal /\ ~p.executed /\ ~p.cancelled /\ p.approvalCount >= governanceApprovals
      BY <1>0, <2>1, <2>2, <2>3, OpenIsMade DEF ExecuteProposal, OpenProposal
    <3> HIDE DEF p
    <3>2. QuorumOf(p)'
      BY <1>a, <1>b, <2>2, <2>3, <3>1 DEF QuorumOf
    <3>3. TimesOf(k, p)'
      BY <1>b, <2>2, <2>3 DEF TimesOf
    <3> QED
      BY <3>2, <3>3 DEF p
  <2> QED
    BY <1>1, <2>3
<1>5. CASE AnyCancel
  <2>1. PICK kind \in Kinds, a \in Accounts, id \in ProposalIds : CancelExpiredProposal(kind, a, id)
    BY <1>5, Zenon DEF AnyCancel
  <2>2. \/ p' = p
        \/ /\ k = kind /\ i = id
           /\ p'.cancelled
           /\ p'.executed = p.executed
           /\ p'.approvedBy = p.approvedBy
           /\ p'.approvalCount = p.approvalCount
           /\ p'.createdAt = p.createdAt
           /\ p'.expiresAt = p.expiresAt
           /\ p'.eta = p.eta
           /\ p'.fastTrack = p.fastTrack
    BY <1>0, <2>1, CancelEffect
  <2>3. CASE p' # p
    <3>1. p \in MadeProposal /\ ~p.executed /\ ~p.cancelled
      BY <1>0, <2>1, <2>2, <2>3, OpenIsMade DEF CancelExpiredProposal, OpenProposal
    <3> HIDE DEF p
    <3>2. QuorumOf(p)'
      BY <1>a, <1>b, <2>2, <2>3, <3>1 DEF QuorumOf
    <3>3. TimesOf(k, p)'
      BY <1>b, <2>2, <2>3 DEF TimesOf
    <3> QED
      BY <3>2, <3>3 DEF p
  <2> QED
    BY <1>1, <2>3
<1>6. CASE UNCHANGED govVars \/ Tick \/ AnySwitch
  <2>1. UNCHANGED govProposals
    BY <1>6 DEF Tick, AnySwitch, SwitchStep, pause, pauseClaims, unpauseClaims,
       disableOracleEmergency, proposeUnpause, approveUnpause, cancelUnpauseProposal
  <2> QED
    BY <2>1, <1>1
<1> QED
  BY <1>0, <1>2, <1>3, <1>4, <1>5, <1>6, StepKinds

\* The steps that leave the pause and the unpause proposal alone keep its bookkeeping.
LEMMA UnpauseUntouched ==
  ASSUME GovInv, admins \subseteq admins', UNCHANGED unpauseVars, paused => paused'
  PROVE  UnpauseApprovalsFresh'
  BY DEF GovInv, UnpauseApprovalsFresh

LEMMA UnpauseStep ==
  ASSUME GovInv, [GovNext]_govVars
  PROVE  UnpauseApprovalsFresh'
<1>0. /\ GovTypeOK /\ UnpauseApprovalsFresh /\ IsFiniteSet(admins)
      /\ governanceApprovals \in Nat /\ governanceApprovals >= 2
      /\ admins \subseteq admins'
  BY ApprovalsType, AdminsGrow DEF GovInv, AdminsFinite
<1>1. CASE AnySwitch
  <2>1. PICK a \in Accounts : SwitchStep(a)
    BY <1>1 DEF AnySwitch
  <2>2. CASE pause(a) \/ pauseClaims(a) \/ unpauseClaims(a) \/ disableOracleEmergency(a)
    <3>1. UNCHANGED unpauseVars /\ (paused => paused')
      BY <2>2 DEF pause, pauseClaims, unpauseClaims, disableOracleEmergency
    <3> QED
      BY <1>0, <3>1, UnpauseUntouched
  <2>3. CASE proposeUnpause(a)
    <3>1. unpauseHasApproved' = {a}
      BY <1>0, <2>3 DEF proposeUnpause, UnpauseApprovalsFresh, ClearedApprovals
    <3>2. Cardinality({a}) = 1
      BY FS_Singleton
    <3> QED
      BY <1>0, <2>3, <3>1, <3>2 DEF proposeUnpause, UnpauseApprovalsFresh
  <2>4. CASE approveUnpause(a)
    <3>1. CASE executeUnpause
      BY <1>0, <2>4, <3>1 DEF approveUnpause, executeUnpause, ClearedApprovals,
                              UnpauseApprovalsFresh
    <3>2. CASE ~executeUnpause
      <4>1. /\ a \in admins /\ a \notin unpauseHasApproved /\ hasActiveUnpauseProposal
            /\ unpauseProposal.approvalCount + 1 < governanceApprovals
            /\ unpauseProposal' = [unpauseProposal EXCEPT !.approvalCount = @ + 1]
            /\ unpauseHasApproved' = unpauseHasApproved \cup {a}
            /\ UNCHANGED <<admins, paused, hasActiveUnpauseProposal>>
        BY <2>4, <3>2, Zenon DEF approveUnpause
      <4>2. /\ unpauseProposal'.approvalCount = unpauseProposal.approvalCount + 1
            /\ unpauseProposal'.executed = unpauseProposal.executed
        BY <1>0, <4>1 DEF GovTypeOK, UnpauseProposal
      <4>3. Cardinality(unpauseHasApproved \cup {a}) = Cardinality(unpauseHasApproved) + 1
        BY <1>0, <4>1, OneMoreApproval DEF UnpauseApprovalsFresh
      <4> QED
        BY <1>0, <4>1, <4>2, <4>3 DEF UnpauseApprovalsFresh
    <3> QED
      BY <3>1, <3>2
  <2>5. CASE cancelUnpauseProposal(a)
    BY <1>0, <2>5 DEF cancelUnpauseProposal, ClearedApprovals, UnpauseApprovalsFresh
  <2> QED
    BY <2>1, <2>2, <2>3, <2>4, <2>5 DEF SwitchStep
<1>2. CASE UNCHANGED govVars \/ Tick \/ AnyNew \/ AnyApprove \/ AnyExecute \/ AnyCancel
  <2>1. UNCHANGED <<unpauseVars, paused>>
    <3>1. CASE UNCHANGED govVars \/ Tick
      BY <3>1 DEF Tick
    <3>2. CASE AnyNew \/ AnyApprove \/ AnyCancel
      BY <3>2, Zenon DEF AnyNew, AnyApprove, AnyCancel, NewProposal, ApproveProposal,
                         CancelExpiredProposal
    <3>3. CASE AnyExecute
      BY <3>3, Zenon DEF AnyExecute, executeOracleUpdate, executeAddAdmin,
                         executeTreasuryPayoutAddressUpdate, ExecuteProposal
    <3> QED
      BY <1>2, <3>1, <3>2, <3>3
  <2> QED
    BY <1>0, <2>1, UnpauseUntouched
<1> QED
  BY <1>0, <1>1, <1>2, StepKinds

LEMMA GovInvStep ==
  ASSUME GovInv, [GovNext]_govVars
  PROVE  GovInv'
  BY GovTypeStep, AdminsGrow, ProposalsStep, UnpauseStep DEF GovInv

LEMMA GovInvariance == GovSpec => []GovInv
  BY GovInvInit, GovInvStep, PTL DEF GovSpec

-------------------------------------------------------------------------------
(* The theorems *)

(***************************************************************************)
(* Whatever the admins do, a governance proposal is executed only with a   *)
(* quorum of distinct admins behind it: the count the contract compares is *)
(* the number of addresses that approved.                                  *)
(***************************************************************************)
THEOREM GovernanceQuorumHolds == GovSpec => []GovernanceQuorum
<1>1. GovInv => GovernanceQuorum
  BY DEF GovInv
<1> QED
  BY <1>1, GovInvariance, PTL

(***************************************************************************)
(* No approval of one unpause proposal is ever counted for another, and no *)
(* unpause proposal outlives the pause it was made in.                     *)
(***************************************************************************)
THEOREM UnpauseApprovalsFreshHolds == GovSpec => []UnpauseApprovalsFresh
<1>1. GovInv => UnpauseApprovalsFresh
  BY DEF GovInv
<1> QED
  BY <1>1, GovInvariance, PTL

LEMMA UnpauseQuorumStep ==
  ASSUME GovInv, [GovNext]_govVars, paused, ~paused'
  PROVE  \E a \in admins \ unpauseHasApproved :
           /\ unpauseHasApproved \subseteq admins
           /\ Cardinality(unpauseHasApproved \cup {a}) >= governanceApprovals
<1>0. GovTypeOK /\ UnpauseApprovalsFresh /\ IsFiniteSet(admins)
  BY DEF GovInv, AdminsFinite
<1>1. PICK a \in Accounts : approveUnpause(a) /\ executeUnpause
  <2>1. ~(UNCHANGED govVars \/ Tick)
    BY DEF Tick
  <2>2. ~(AnyNew \/ AnyApprove \/ AnyCancel)
    BY Zenon DEF AnyNew, AnyApprove, AnyCancel, NewProposal, ApproveProposal,
                 CancelExpiredProposal
  <2>3. ~AnyExecute
    BY Zenon DEF AnyExecute, executeOracleUpdate, executeAddAdmin,
                 executeTreasuryPayoutAddressUpdate, ExecuteProposal
  <2>4. AnySwitch
    BY <1>0, <2>1, <2>2, <2>3, StepKinds
  <2> QED
    BY <2>4 DEF AnySwitch, SwitchStep, pause, pauseClaims, unpauseClaims,
       disableOracleEmergency, proposeUnpause, approveUnpause, cancelUnpauseProposal
<1>2. /\ a \in admins \ unpauseHasApproved
      /\ hasActiveUnpauseProposal
      /\ unpauseProposal.approvalCount + 1 >= governanceApprovals
  <2>1. a \in admins /\ a \notin unpauseHasApproved /\ hasActiveUnpauseProposal
    BY <1>1 DEF approveUnpause
  <2>2. unpauseProposal.approvalCount + 1 >= governanceApprovals
    BY <1>1 DEF approveUnpause
  <2> QED
    BY <2>1, <2>2
<1>3. Cardinality(unpauseHasApproved \cup {a}) = Cardinality(unpauseHasApproved) + 1
  BY <1>0, <1>2, OneMoreApproval DEF UnpauseApprovalsFresh
<1> QED
  BY <1>0, <1>2, <1>3 DEF UnpauseApprovalsFresh

(***************************************************************************)
(* Only the last approval of a governance quorum of distinct admins ends a *)
(* pause (approveUnpause).                                                 *)
(***************************************************************************)
THEOREM UnpauseNeedsQuorumHolds == GovSpec => UnpauseNeedsQuorum
  BY GovInvariance, UnpauseQuorumStep, PTL DEF GovSpec, UnpauseNeedsQuorum

\* A proposal that executes is matured, and the step uses it up.
LEMMA ExecuteConsumes ==
  ASSUME GovInv, NEW kind \in Kinds, NEW a \in Accounts, NEW id \in ProposalIds,
         ExecuteProposal(kind, a, id)
  PROVE  Consumes(kind, id)
<1> DEFINE p == govProposals[kind][id]
<1>0. GovTypeOK
  BY DEF GovInv
<1>1. /\ p \in MadeProposal /\ ~p.executed
      /\ now <= p.expiresAt
      /\ now >= p.eta
      /\ p.approvalCount >= governanceApprovals
  BY <1>0, OpenIsMade DEF ExecuteProposal, OpenProposal
<1>2. p.createdAt \in Nat /\ p.createdAt > 0 /\ p.eta \in Nat /\ now \in Nat
  BY <1>0, <1>1 DEF MadeProposal, GovTypeOK
<1>3. /\ p.expiresAt = p.createdAt + GovernanceProposalTTL
      /\ p.eta >= p.createdAt + GovernanceTimelock \/ (kind = "oracle" /\ p.fastTrack)
      /\ p.approvedBy \subseteq admins
      /\ p.approvalCount = Cardinality(p.approvedBy)
  BY <1>2 DEF GovInv, ProposalTimes, GovernanceQuorum
<1>4. govProposals'[kind][id].executed
  <2>1. \/ govProposals'[kind][id] = govProposals[kind][id] /\ (kind # kind \/ id # id)
        \/ govProposals'[kind][id].executed
    BY <1>0, ExecuteEffect
  <2> QED
    BY <2>1
<1>5. Matured(kind, id)
  BY <1>1, <1>2, <1>3, GovernanceAssumption DEF Matured
<1> QED
  BY <1>1, <1>4, <1>5 DEF Consumes

LEMMA PrivilegedStepHolds ==
  ASSUME GovInv, [GovNext]_govVars
  PROVE  PrivilegedStep
<1>0. GovTypeOK
  BY DEF GovInv
<1>1. CASE UNCHANGED roleVars /\ (oracleActive' => oracleActive)
  BY <1>1 DEF PrivilegedStep
<1>2. CASE UNCHANGED govVars \/ Tick
  BY <1>1, <1>2 DEF Tick
<1>3. CASE AnySwitch
  BY <1>1, <1>3 DEF AnySwitch, SwitchStep, pause, pauseClaims, unpauseClaims,
     disableOracleEmergency, proposeUnpause, approveUnpause, cancelUnpauseProposal
<1>4. CASE AnyNew \/ AnyApprove \/ AnyCancel
  <2>1. UNCHANGED <<roleVars, oracleActive>>
    BY <1>4, Zenon DEF AnyNew, AnyApprove, AnyCancel, NewProposal, ApproveProposal,
                       CancelExpiredProposal
  <2> QED
    BY <2>1, <1>1
<1>5. CASE AnyExecute
  <2>1. PICK a \in Accounts, id \in ProposalIds :
          \/ executeOracleUpdate(a, id)
          \/ executeAddAdmin(a, id)
          \/ executeTreasuryPayoutAddressUpdate(a, id)
    BY <1>5, Zenon DEF AnyExecute
  <2>2. CASE executeOracleUpdate(a, id)
    <3>1. Consumes("oracle", id)
      BY <2>2, ExecuteConsumes DEF executeOracleUpdate
    <3> QED
      BY <2>2, <3>1 DEF PrivilegedStep, executeOracleUpdate
  <2>3. CASE executeAddAdmin(a, id)
    <3>1. Consumes("admin", id)
      BY <2>3, ExecuteConsumes DEF executeAddAdmin
    <3> QED
      BY <2>3, <3>1 DEF PrivilegedStep, executeAddAdmin
  <2>4. CASE executeTreasuryPayoutAddressUpdate(a, id)
    <3>1. Consumes("payout", id)
      BY <2>4, ExecuteConsumes DEF executeTreasuryPayoutAddressUpdate
    <3> QED
      BY <2>4, <3>1 DEF PrivilegedStep, executeTreasuryPayoutAddressUpdate
  <2> QED
    BY <2>1, <2>2, <2>3, <2>4
<1> QED
  BY <1>0, <1>2, <1>3, <1>4, <1>5, StepKinds

(***************************************************************************)
(* The oracle, the admins and the payout receiver change only by executing *)
(* a matured proposal for that change: quorum, lifetime and timelock (or   *)
(* the oracle's fast track) included.                                      *)
(***************************************************************************)
THEOREM PrivilegedChangesHold == GovSpec => PrivilegedChangesAreApproved
  BY GovInvariance, PrivilegedStepHolds, PTL DEF GovSpec, PrivilegedChangesAreApproved

-------------------------------------------------------------------------------
(* What a proposal keeps *)

\* Proposals are numbered in the order in which they are made.
NumberedInOrder ==
  \A kind \in Kinds, id \in ProposalIds :
    id >= govCounter[kind] => govProposals[kind][id] = NoProposal

\* What a proposal once reached it keeps.
Kept(p, q) ==
  /\ p.createdAt # 0 => q.createdAt # 0 /\ q.target = p.target
  /\ p.executed => q.executed
  /\ p.cancelled => q.cancelled
  /\ p.approvalCount <= q.approvalCount

ProposalsKept ==
  /\ now <= now'
  /\ \A kind \in Kinds : govCounter[kind] <= govCounter'[kind]
  /\ \A kind \in Kinds, id \in ProposalIds : Kept(govProposals[kind][id], govProposals'[kind][id])

LEMMA ProposalFields ==
  ASSUME NEW p \in GovProposal
  PROVE  p.createdAt \in Nat /\ p.approvalCount \in Nat
BY DEF GovProposal, MadeProposal, NoProposal

\* Switches and time leave the proposals alone.
LEMMA ProposalsUntouched ==
  ASSUME GovTypeOK, NumberedInOrder, UNCHANGED proposalVars, now <= now'
  PROVE  NumberedInOrder' /\ ProposalsKept
<1>1. ASSUME NEW kind \in Kinds, NEW id \in ProposalIds
      PROVE  Kept(govProposals[kind][id], govProposals'[kind][id])
  <2>1. govProposals[kind][id] \in GovProposal
    BY DEF GovTypeOK
  <2> QED
    BY <2>1, ProposalFields DEF Kept
<1>2. ASSUME NEW kind \in Kinds
      PROVE  govCounter[kind] \in Int
  BY DEF GovTypeOK
<1> QED
  BY <1>1, <1>2 DEF NumberedInOrder, ProposalsKept

\* No administrative operation takes time.
LEMMA GovStepKeepsTime ==
  ASSUME GovStep
  PROVE  UNCHANGED now
<1>1. ASSUME NEW a, SwitchStep(a) PROVE UNCHANGED now
  BY <1>1, Zenon DEF SwitchStep, pause, pauseClaims, unpauseClaims, disableOracleEmergency,
                     proposeUnpause, approveUnpause, cancelUnpauseProposal
<1>2. ASSUME NEW a, NEW target, ProposeStep(a, target) PROVE UNCHANGED now
  BY <1>2, Zenon DEF ProposeStep, NewProposal, proposeOracleUpdate, proposeAddAdmin,
                     proposeTreasuryPayoutAddressUpdate
<1>3. ASSUME NEW k, NEW a, NEW id,
             ApproveProposal(k, a, id) \/ ExecuteProposal(k, a, id)
               \/ CancelExpiredProposal(k, a, id)
      PROVE  UNCHANGED now
  BY <1>3, Zenon DEF ApproveProposal, ExecuteProposal, CancelExpiredProposal
<1>4. ASSUME NEW a, NEW id, ProposalStep(a, id) PROVE UNCHANGED now
  BY <1>3, <1>4, Zenon DEF ProposalStep, approveOracleUpdate, executeOracleUpdate,
     cancelExpiredOracleUpdateProposal, approveAddAdmin, executeAddAdmin,
     cancelExpiredAddAdminProposal, approveTreasuryPayoutAddressUpdate,
     executeTreasuryPayoutAddressUpdate, cancelExpiredTreasuryPayoutAddressUpdateProposal
<1> QED
  BY <1>1, <1>2, <1>4, Zenon DEF GovStep

LEMMA NewKeeps ==
  ASSUME GovTypeOK, NumberedInOrder, NEW kind \in Kinds, NEW a, NEW target, NEW eta, NEW fast,
         NewProposal(kind, a, target, eta, fast)
  PROVE  NumberedInOrder' /\ ProposalsKept
<1> DEFINE new == [target |-> target, approvedBy |-> {a}, approvalCount |-> 1,
                   executed |-> FALSE, cancelled |-> FALSE, createdAt |-> now,
                   eta |-> eta, expiresAt |-> now + GovernanceProposalTTL, fastTrack |-> fast]
           n   == govCounter[kind]
<1>1. /\ govCounter' = [govCounter EXCEPT ![kind] = @ + 1]
      /\ govProposals' = [govProposals EXCEPT ![kind][n] = new]
      /\ n < ProposalLimit[kind]
      /\ UNCHANGED now
  BY DEF NewProposal
<1>2. n \in ProposalIds /\ n \in Int
  BY <1>1, GovernanceAssumption DEF GovTypeOK, ProposalIds
<1>3. /\ new.createdAt = now /\ new.approvalCount = 1
      /\ NoProposal.createdAt = 0 /\ ~NoProposal.executed /\ ~NoProposal.cancelled
      /\ NoProposal.approvalCount = 0
  BY DEF NoProposal
<1> HIDE DEF new, n
<1>4. govProposals[kind][n] = NoProposal
  BY <1>2 DEF NumberedInOrder, n
<1>5. ASSUME NEW k \in Kinds, NEW i \in ProposalIds
      PROVE  govProposals'[k][i] = IF k = kind /\ i = n THEN new ELSE govProposals[k][i]
  BY <1>1, <1>2 DEF GovTypeOK
<1>6. ASSUME NEW k \in Kinds
      PROVE  /\ govCounter[k] \in Int
             /\ govCounter'[k] = IF k = kind THEN n + 1 ELSE govCounter[k]
  BY <1>1 DEF GovTypeOK, n
<1>7. ASSUME NEW k \in Kinds, NEW i \in ProposalIds
      PROVE  Kept(govProposals[k][i], govProposals'[k][i])
  <2>1. CASE k = kind /\ i = n
    BY <1>3, <1>4, <1>5, <2>1 DEF Kept
  <2>2. CASE ~(k = kind /\ i = n)
    <3>1. govProposals[k][i] \in GovProposal
      BY DEF GovTypeOK
    <3> QED
      BY <1>5, <2>2, <3>1, ProposalFields DEF Kept
  <2> QED
    BY <2>1, <2>2
<1>8. ASSUME NEW k \in Kinds, NEW i \in ProposalIds, i >= govCounter'[k]
      PROVE  govProposals'[k][i] = NoProposal
  <2>1. i \in Int
    BY GovernanceAssumption DEF ProposalIds
  <2>2. i >= govCounter[k] /\ ~(k = kind /\ i = n)
    BY <1>2, <1>6, <1>8, <2>1 DEF n
  <2> QED
    BY <1>5, <2>2 DEF NumberedInOrder
<1>9. now <= now'
  BY <1>1 DEF GovTypeOK
<1> QED
  BY <1>2, <1>6, <1>7, <1>8, <1>9 DEF NumberedInOrder, ProposalsKept, n

\* A step that changes one made proposal, and keeps what it reached.
LEMMA ChangeKeeps ==
  ASSUME GovTypeOK, NumberedInOrder, NEW kind \in Kinds, NEW id \in ProposalIds,
         id < govCounter[kind], UNCHANGED <<now, govCounter>>,
         \A k \in Kinds, i \in ProposalIds :
           \/ govProposals'[k][i] = govProposals[k][i]
           \/ k = kind /\ i = id /\ Kept(govProposals[k][i], govProposals'[k][i])
  PROVE  NumberedInOrder' /\ ProposalsKept
<1>1. ASSUME NEW k \in Kinds, NEW i \in ProposalIds
      PROVE  Kept(govProposals[k][i], govProposals'[k][i])
  <2>1. govProposals[k][i] \in GovProposal
    BY DEF GovTypeOK
  <2>2. Kept(govProposals[k][i], govProposals[k][i])
    BY <2>1, ProposalFields DEF Kept
  <2> QED
    BY <2>2
<1>2. ASSUME NEW k \in Kinds
      PROVE  govCounter[k] \in Int
  BY DEF GovTypeOK
<1>3. ASSUME NEW i \in ProposalIds
      PROVE  i \in Int
  BY GovernanceAssumption DEF ProposalIds
<1>4. ASSUME NEW k \in Kinds, NEW i \in ProposalIds, i >= govCounter'[k]
      PROVE  govProposals'[k][i] = NoProposal
  <2>1. ~(k = kind /\ i = id)
    BY <1>2, <1>3, <1>4
  <2> QED
    BY <1>4, <2>1 DEF NumberedInOrder
<1>5. now <= now'
  BY DEF GovTypeOK
<1> QED
  BY <1>1, <1>2, <1>4, <1>5 DEF NumberedInOrder, ProposalsKept

\* Whatever the contract does, proposals are numbered in order and keep what they reached.
LEMMA ContractKeeps ==
  ASSUME GovTypeOK, NumberedInOrder, [GovNext]_govVars
  PROVE  GovTypeOK' /\ NumberedInOrder' /\ ProposalsKept
<1>1. GovTypeOK'
  BY GovTypeStep
<1> SUFFICES NumberedInOrder' /\ ProposalsKept
  BY <1>1
<1>2. CASE UNCHANGED govVars \/ Tick \/ AnySwitch
  <2>1. UNCHANGED proposalVars /\ now <= now'
    BY <1>2 DEF Tick, AnySwitch, SwitchStep, pause, pauseClaims, unpauseClaims,
       disableOracleEmergency, proposeUnpause, approveUnpause, cancelUnpauseProposal, GovTypeOK
  <2> QED
    BY <2>1, ProposalsUntouched
<1>3. CASE AnyNew
  BY <1>3, NewKeeps DEF AnyNew
<1>4. CASE AnyApprove
  <2>1. PICK kind \in Kinds, a \in Accounts, id \in ProposalIds : ApproveProposal(kind, a, id)
    BY <1>4 DEF AnyApprove
  <2>2. id < govCounter[kind] /\ UNCHANGED <<now, govCounter>>
    BY <2>1 DEF ApproveProposal, OpenProposal
  <2>3. ASSUME NEW k \in Kinds, NEW i \in ProposalIds
        PROVE  \/ govProposals'[k][i] = govProposals[k][i]
               \/ k = kind /\ i = id /\ Kept(govProposals[k][i], govProposals'[k][i])
    <3>1. govProposals[k][i] \in GovProposal
      BY DEF GovTypeOK
    <3> QED
      BY <2>1, <3>1, ProposalFields, ApproveEffect DEF Kept
  <2> QED
    BY <2>2, <2>3, ChangeKeeps
<1>5. CASE AnyExecute
  <2>1. PICK kind \in Kinds, a \in Accounts, id \in ProposalIds : ExecuteProposal(kind, a, id)
    BY <1>5, Zenon DEF AnyExecute, executeOracleUpdate, executeAddAdmin,
       executeTreasuryPayoutAddressUpdate
  <2>2. id < govCounter[kind] /\ UNCHANGED <<now, govCounter>>
    BY <2>1 DEF ExecuteProposal, OpenProposal
  <2>3. ASSUME NEW k \in Kinds, NEW i \in ProposalIds
        PROVE  \/ govProposals'[k][i] = govProposals[k][i]
               \/ k = kind /\ i = id /\ Kept(govProposals[k][i], govProposals'[k][i])
    <3>1. govProposals[k][i] \in GovProposal
      BY DEF GovTypeOK
    <3> QED
      BY <2>1, <3>1, ProposalFields, ExecuteEffect DEF Kept
  <2> QED
    BY <2>2, <2>3, ChangeKeeps
<1>6. CASE AnyCancel
  <2>1. PICK kind \in Kinds, a \in Accounts, id \in ProposalIds :
          CancelExpiredProposal(kind, a, id)
    BY <1>6 DEF AnyCancel
  <2>2. id < govCounter[kind] /\ UNCHANGED <<now, govCounter>>
    BY <2>1 DEF CancelExpiredProposal, OpenProposal
  <2>3. ASSUME NEW k \in Kinds, NEW i \in ProposalIds
        PROVE  \/ govProposals'[k][i] = govProposals[k][i]
               \/ k = kind /\ i = id /\ Kept(govProposals[k][i], govProposals'[k][i])
    <3>1. govProposals[k][i] \in GovProposal
      BY DEF GovTypeOK
    <3> QED
      BY <2>1, <3>1, ProposalFields, CancelEffect DEF Kept
  <2> QED
    BY <2>2, <2>3, ChangeKeeps
<1> QED
  BY <1>2, <1>3, <1>4, <1>5, <1>6, StepKinds

-------------------------------------------------------------------------------
(* Too few admins *)

\* With fewer admins than a quorum, no proposal is made and no pause ends.
LoneInv ==
  Cardinality(InitialAdmins) < governanceApprovals =>
    /\ admins = InitialAdmins
    /\ \A k \in Kinds : govCounter[k] = 0

LEMMA LoneInvStep ==
  ASSUME GovInv, LoneInv, [GovNext]_govVars
  PROVE  LoneInv'
<1> SUFFICES ASSUME Cardinality(InitialAdmins) < governanceApprovals
             PROVE  admins' = admins /\ govCounter' = govCounter
  BY DEF LoneInv, governanceApprovals
<1>0. /\ GovTypeOK
      /\ admins = InitialAdmins
      /\ \A k \in Kinds : govCounter[k] = 0
      /\ governanceApprovals \in Nat
      /\ Cardinality(InitialAdmins) \in Nat
  BY ApprovalsType, GovernanceAssumption, FS_CardinalityType DEF GovInv, LoneInv
<1>1. ~AnyNew
  <2>1. ~(Cardinality(admins) >= governanceApprovals)
    BY <1>0
  <2> QED
    BY <2>1, Zenon DEF AnyNew, NewProposal, MayPropose
<1>2. \A k \in Kinds : \A id \in ProposalIds : ~OpenProposal(k, id)
  BY <1>0, GovernanceAssumption DEF OpenProposal, ProposalIds
<1>3. ~(AnyApprove \/ AnyCancel \/ AnyExecute)
  BY <1>2, Zenon DEF AnyApprove, AnyCancel, AnyExecute, ApproveProposal,
     CancelExpiredProposal, ExecuteProposal, executeOracleUpdate, executeAddAdmin,
     executeTreasuryPayoutAddressUpdate
<1>4. CASE UNCHANGED govVars \/ Tick
  BY <1>4 DEF Tick
<1>5. CASE AnySwitch
  BY <1>5 DEF AnySwitch, SwitchStep, pause, pauseClaims, unpauseClaims,
     disableOracleEmergency, proposeUnpause, approveUnpause, cancelUnpauseProposal
<1> QED
  BY <1>0, <1>1, <1>3, <1>4, <1>5, StepKinds

(***************************************************************************)
(* A deployment with fewer admins than governanceApprovals() can be paused *)
(* and never again unpaused.                                               *)
(***************************************************************************)
THEOREM LoneAdminPauseHolds == GovSpec => LoneAdminPauseIsFinal
<1>1. GovInit => LoneInv
  BY DEF GovInit, LoneInv
<1>2. GovInv /\ LoneInv /\ [GovNext]_govVars => LoneInv'
  BY LoneInvStep
<1>3. GovInv /\ LoneInv /\ [GovNext]_govVars =>
        (Cardinality(InitialAdmins) < governanceApprovals /\ paused => paused')
  <2> SUFFICES ASSUME GovInv, LoneInv, [GovNext]_govVars, paused, ~paused',
                      Cardinality(InitialAdmins) < governanceApprovals
               PROVE  FALSE
    BY DEF GovInv, GovTypeOK
  <2>1. PICK a \in admins \ unpauseHasApproved :
          /\ unpauseHasApproved \subseteq admins
          /\ Cardinality(unpauseHasApproved \cup {a}) >= governanceApprovals
    BY UnpauseQuorumStep
  <2>2. unpauseHasApproved \cup {a} \subseteq InitialAdmins /\ IsFiniteSet(InitialAdmins)
    BY <2>1, GovernanceAssumption DEF LoneInv
  <2>3. Cardinality(unpauseHasApproved \cup {a}) <= Cardinality(InitialAdmins)
    BY <2>2, FS_Subset
  <2>4. /\ Cardinality(unpauseHasApproved \cup {a}) \in Nat
        /\ Cardinality(InitialAdmins) \in Nat
        /\ governanceApprovals \in Nat
    BY <2>2, FS_Subset, FS_CardinalityType, ApprovalsType
  <2> QED
    BY <2>1, <2>3, <2>4
<1> QED
  BY <1>1, <1>2, <1>3, GovInvariance, PTL DEF GovSpec, LoneAdminPauseIsFinal

===============================================================================
