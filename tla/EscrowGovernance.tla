--------------------------- MODULE EscrowGovernance ---------------------------
(***************************************************************************)
(* The administrative half of contracts/src/AgroasysEscrow.sol: the global *)
(* pause, the claim pause and the oracle kill switch, the multi-signature  *)
(* unpause, and the three families of timelocked proposals (oracle update, *)
(* admin addition, treasury payout receiver update).  A transaction is one *)
(* atomic step; a call the contract reverts is a step that is not enabled. *)
(* Module AgroasysEscrow adds trades, disputes and claims to this state.   *)
(***************************************************************************)
EXTENDS Integers, FiniteSets

CONSTANTS
  Accounts,              \* the non-zero addresses
  ZeroAddress,           \* address(0)
  Treasury,              \* treasuryAddress, immutable after construction
  InitialOracle,         \* constructor argument _oracleAddress
  InitialAdmins,         \* constructor argument _admins, without duplicates
  RequiredApprovals,     \* constructor argument _requiredApprovals
  GovernanceTimelock,    \* 24 hours, in clock ticks
  GovernanceProposalTTL, \* 7 days, in clock ticks
  MaxTime,               \* bound: the last value of block.timestamp
  MaxProposals,          \* bound: proposal ids of each family are below it
  ProposalLimit          \* bound: proposals actually made, per family

Kinds == {"oracle", "admin", "payout"}

ProposalIds == 0 .. (MaxProposals - 1)

(***************************************************************************)
(* What the constructor requires of its arguments, and the bounds.         *)
(***************************************************************************)
ASSUME GovernanceAssumption ==
  /\ ZeroAddress \notin Accounts
  /\ Treasury \in Accounts
  /\ InitialOracle \in Accounts
  /\ InitialAdmins \subseteq Accounts
  /\ IsFiniteSet(InitialAdmins)
  /\ RequiredApprovals \in Nat \ {0}
  /\ Cardinality(InitialAdmins) >= RequiredApprovals
  /\ GovernanceTimelock \in Nat
  /\ GovernanceProposalTTL \in Nat
  /\ MaxTime \in Nat
  /\ MaxProposals \in Nat
  /\ ProposalLimit \in [Kinds -> 0 .. MaxProposals]

VARIABLES
  now,                       \* block.timestamp
  paused,                    \* Pausable._paused
  claimsPaused,
  oracleActive,
  oracleAddress,
  treasuryPayoutAddress,
  admins,                    \* admins[] and isAdmin, which always agree
  unpauseProposal,           \* approvalCount and executed
  unpauseHasApproved,        \* the addresses whose flag is set
  hasActiveUnpauseProposal,
  govCounter,                \* the three proposal counters, by family
  govProposals               \* the three proposal mappings, by family

switchVars   == <<paused, claimsPaused, oracleActive>>
roleVars     == <<oracleAddress, treasuryPayoutAddress, admins>>
unpauseVars  == <<unpauseProposal, unpauseHasApproved, hasActiveUnpauseProposal>>
proposalVars == <<govCounter, govProposals>>
govVars      == <<now, switchVars, roleVars, unpauseVars, proposalVars>>

-------------------------------------------------------------------------------
(* State *)

(***************************************************************************)
(* A governance proposal together with its entries in the HasApproved,     *)
(* ExpiresAt and Cancelled mappings.  The proposer is only ever emitted.   *)
(***************************************************************************)
MadeProposal ==
  [target       : Accounts,
   approvedBy   : SUBSET Accounts,
   approvalCount: Nat,
   executed     : BOOLEAN,
   cancelled    : BOOLEAN,
   createdAt    : Nat \ {0},
   eta          : Nat,
   expiresAt    : Nat,
   fastTrack    : BOOLEAN]

\* The value of a mapping entry that was never written.
NoProposal ==
  [target |-> ZeroAddress, approvedBy |-> {}, approvalCount |-> 0,
   executed |-> FALSE, cancelled |-> FALSE,
   createdAt |-> 0, eta |-> 0, expiresAt |-> 0, fastTrack |-> FALSE]

GovProposal == MadeProposal \cup {NoProposal}

UnpauseProposal == [approvalCount : Nat, executed : BOOLEAN]

NoUnpauseProposal == [approvalCount |-> 0, executed |-> FALSE]

GovInit ==
  /\ now = 1
  /\ paused = FALSE
  /\ claimsPaused = FALSE
  /\ oracleActive = TRUE
  /\ oracleAddress = InitialOracle
  /\ treasuryPayoutAddress = Treasury
  /\ admins = InitialAdmins
  /\ unpauseProposal = NoUnpauseProposal
  /\ unpauseHasApproved = {}
  /\ hasActiveUnpauseProposal = FALSE
  /\ govCounter = [k \in Kinds |-> 0]
  /\ govProposals = [k \in Kinds |-> [id \in ProposalIds |-> NoProposal]]

\* Sensitive operations need two approvals even when RequiredApprovals is 1.
governanceApprovals == IF RequiredApprovals < 2 THEN 2 ELSE RequiredApprovals

-------------------------------------------------------------------------------
(* Switches *)

pause(a) ==
  /\ a \in admins
  /\ ~paused
  /\ paused' = TRUE
  /\ UNCHANGED <<now, claimsPaused, oracleActive, roleVars, unpauseVars, proposalVars>>

pauseClaims(a) ==
  /\ a \in admins
  /\ ~claimsPaused
  /\ claimsPaused' = TRUE
  /\ UNCHANGED <<now, paused, oracleActive, roleVars, unpauseVars, proposalVars>>

unpauseClaims(a) ==
  /\ a \in admins
  /\ claimsPaused
  /\ claimsPaused' = FALSE
  /\ UNCHANGED <<now, paused, oracleActive, roleVars, unpauseVars, proposalVars>>

disableOracleEmergency(a) ==
  /\ a \in admins
  /\ oracleActive
  /\ oracleActive' = FALSE
  /\ paused' = TRUE
  /\ UNCHANGED <<now, claimsPaused, roleVars, unpauseVars, proposalVars>>

-------------------------------------------------------------------------------
(* Unpause *)

\* Mutant: the approval flags are never cleared.
ClearedApprovals_kept == unpauseHasApproved

\* What is left of the approval flags once the loop over admins[] cleared them.
ClearedApprovals == unpauseHasApproved \ admins

\* The last approval counts, its flag is set and cleared again.
executeUnpause ==
  /\ unpauseProposal' = [approvalCount |-> unpauseProposal.approvalCount + 1,
                         executed      |-> TRUE]
  /\ hasActiveUnpauseProposal' = FALSE
  /\ paused' = FALSE
  /\ unpauseHasApproved' = ClearedApprovals

\* Mutant: a proposal executes at once, as dispute proposals do when one approval is enough.
proposeUnpause_alone(a) ==
  /\ a \in admins
  /\ paused
  /\ oracleActive
  /\ executeUnpause
  /\ UNCHANGED <<now, claimsPaused, oracleActive, roleVars, proposalVars>>

\* The call replaces an active proposal: _cancelUnpauseProposal runs first.
proposeUnpause(a) ==
  /\ a \in admins
  /\ paused
  /\ oracleActive
  /\ unpauseProposal' = [approvalCount |-> 1, executed |-> FALSE]
  /\ unpauseHasApproved' =
       (IF hasActiveUnpauseProposal THEN ClearedApprovals ELSE unpauseHasApproved) \cup {a}
  /\ hasActiveUnpauseProposal' = TRUE
  /\ UNCHANGED <<now, switchVars, roleVars, proposalVars>>

\* The approval that reaches the quorum unpauses in the same transaction.
approveUnpause(a) ==
  /\ a \in admins
  /\ paused
  /\ hasActiveUnpauseProposal
  /\ ~unpauseProposal.executed
  /\ a \notin unpauseHasApproved
  /\ \/ /\ unpauseProposal.approvalCount + 1 >= governanceApprovals
        /\ executeUnpause
     \/ /\ unpauseProposal.approvalCount + 1 < governanceApprovals
        /\ unpauseProposal' = [unpauseProposal EXCEPT !.approvalCount = @ + 1]
        /\ unpauseHasApproved' = unpauseHasApproved \cup {a}
        /\ UNCHANGED <<paused, hasActiveUnpauseProposal>>
  /\ UNCHANGED <<now, claimsPaused, oracleActive, roleVars, proposalVars>>

cancelUnpauseProposal(a) ==
  /\ a \in admins
  /\ hasActiveUnpauseProposal
  /\ ~unpauseProposal.executed
  /\ unpauseProposal' = NoUnpauseProposal
  /\ unpauseHasApproved' = ClearedApprovals
  /\ hasActiveUnpauseProposal' = FALSE
  /\ UNCHANGED <<now, switchVars, roleVars, proposalVars>>

-------------------------------------------------------------------------------
(* Timelocked proposals: the steps the three families share *)

MayPropose(a, target) ==
  /\ a \in admins
  /\ target # ZeroAddress
  /\ Cardinality(admins) >= governanceApprovals

NewProposal(kind, a, target, eta, fastTrack) ==
  /\ MayPropose(a, target)
  /\ govCounter[kind] < ProposalLimit[kind]
  /\ govCounter' = [govCounter EXCEPT ![kind] = @ + 1]
  /\ govProposals' = [govProposals EXCEPT ![kind][govCounter[kind]] =
       [target |-> target, approvedBy |-> {a}, approvalCount |-> 1,
        executed |-> FALSE, cancelled |-> FALSE, createdAt |-> now,
        eta |-> eta, expiresAt |-> now + GovernanceProposalTTL,
        fastTrack |-> fastTrack]]
  /\ UNCHANGED <<now, switchVars, roleVars, unpauseVars>>

\* Mutant: an executed proposal can be used again.
OpenProposal_reusable(kind, id) ==
  /\ id < govCounter[kind]
  /\ govProposals[kind][id].createdAt > 0
  /\ ~govProposals[kind][id].cancelled

\* Proposal id was made, and neither executed nor cancelled since.
OpenProposal(kind, id) ==
  /\ id < govCounter[kind]
  /\ govProposals[kind][id].createdAt > 0
  /\ ~govProposals[kind][id].executed
  /\ ~govProposals[kind][id].cancelled

\* Mutant: the HasApproved flag is not consulted.
ApproveProposal_twice(kind, a, id) ==
  /\ a \in admins
  /\ OpenProposal(kind, id)
  /\ now <= govProposals[kind][id].expiresAt
  /\ govProposals' = [govProposals EXCEPT ![kind][id] =
       [govProposals[kind][id] EXCEPT !.approvedBy = @ \cup {a}, !.approvalCount = @ + 1]]
  /\ UNCHANGED <<now, switchVars, roleVars, unpauseVars, govCounter>>

ApproveProposal(kind, a, id) ==
  /\ a \in admins
  /\ OpenProposal(kind, id)
  /\ now <= govProposals[kind][id].expiresAt
  /\ a \notin govProposals[kind][id].approvedBy
  /\ govProposals' = [govProposals EXCEPT ![kind][id] =
       [govProposals[kind][id] EXCEPT !.approvedBy = @ \cup {a}, !.approvalCount = @ + 1]]
  /\ UNCHANGED <<now, switchVars, roleVars, unpauseVars, govCounter>>

\* The guard and the executed flag; the effect belongs to the family.
ExecuteProposal(kind, a, id) ==
  /\ a \in admins
  /\ OpenProposal(kind, id)
  /\ now <= govProposals[kind][id].expiresAt
  /\ govProposals[kind][id].approvalCount >= governanceApprovals
  /\ now >= govProposals[kind][id].eta
  /\ govProposals' = [govProposals EXCEPT ![kind][id].executed = TRUE]
  /\ UNCHANGED <<now, paused, claimsPaused, unpauseVars, govCounter>>

CancelExpiredProposal(kind, a, id) ==
  /\ a \in admins
  /\ OpenProposal(kind, id)
  /\ now > govProposals[kind][id].expiresAt
  /\ govProposals' = [govProposals EXCEPT ![kind][id].cancelled = TRUE]
  /\ UNCHANGED <<now, switchVars, roleVars, unpauseVars, govCounter>>

-------------------------------------------------------------------------------
(* Oracle update: no timelock for a proposal made while the oracle is disabled *)

proposeOracleUpdate(a, newOracle) ==
  /\ newOracle # oracleAddress
  /\ NewProposal("oracle", a, newOracle,
                 IF oracleActive THEN now + GovernanceTimelock ELSE now,
                 ~oracleActive)

approveOracleUpdate(a, id) == ApproveProposal("oracle", a, id)

executeOracleUpdate(a, id) ==
  /\ ExecuteProposal("oracle", a, id)
  /\ oracleAddress' = govProposals["oracle"][id].target
  /\ oracleActive' = TRUE
  /\ UNCHANGED <<treasuryPayoutAddress, admins>>

cancelExpiredOracleUpdateProposal(a, id) == CancelExpiredProposal("oracle", a, id)

-------------------------------------------------------------------------------
(* Admin addition: the target is checked again when the proposal is executed *)

\* Mutant: no timelock.
proposeAddAdmin_now(a, newAdmin) ==
  /\ newAdmin \notin admins
  /\ NewProposal("admin", a, newAdmin, now, FALSE)

proposeAddAdmin(a, newAdmin) ==
  /\ newAdmin \notin admins
  /\ NewProposal("admin", a, newAdmin, now + GovernanceTimelock, FALSE)

approveAddAdmin(a, id) == ApproveProposal("admin", a, id)

executeAddAdmin(a, id) ==
  /\ ExecuteProposal("admin", a, id)
  /\ govProposals["admin"][id].target # ZeroAddress
  /\ govProposals["admin"][id].target \notin admins
  /\ admins' = admins \cup {govProposals["admin"][id].target}
  /\ UNCHANGED <<oracleActive, oracleAddress, treasuryPayoutAddress>>

cancelExpiredAddAdminProposal(a, id) == CancelExpiredProposal("admin", a, id)

-------------------------------------------------------------------------------
(* Treasury payout receiver update *)

proposeTreasuryPayoutAddressUpdate(a, newPayoutReceiver) ==
  /\ newPayoutReceiver # treasuryPayoutAddress
  /\ NewProposal("payout", a, newPayoutReceiver, now + GovernanceTimelock, FALSE)

approveTreasuryPayoutAddressUpdate(a, id) == ApproveProposal("payout", a, id)

executeTreasuryPayoutAddressUpdate(a, id) ==
  /\ ExecuteProposal("payout", a, id)
  /\ govProposals["payout"][id].target # ZeroAddress
  /\ treasuryPayoutAddress' = govProposals["payout"][id].target
  /\ UNCHANGED <<oracleActive, oracleAddress, admins>>

cancelExpiredTreasuryPayoutAddressUpdateProposal(a, id) ==
  CancelExpiredProposal("payout", a, id)

-------------------------------------------------------------------------------
(* Specification *)

\* A block with a later timestamp.
Tick ==
  /\ now < MaxTime
  /\ now' = now + 1
  /\ UNCHANGED <<switchVars, roleVars, unpauseVars, proposalVars>>

SwitchStep(a) ==
  \/ pause(a)
  \/ pauseClaims(a)
  \/ unpauseClaims(a)
  \/ disableOracleEmergency(a)
  \/ proposeUnpause(a)
  \/ approveUnpause(a)
  \/ cancelUnpauseProposal(a)

ProposeStep(a, target) ==
  \/ proposeOracleUpdate(a, target)
  \/ proposeAddAdmin(a, target)
  \/ proposeTreasuryPayoutAddressUpdate(a, target)

ProposalStep(a, id) ==
  \/ approveOracleUpdate(a, id)
  \/ executeOracleUpdate(a, id)
  \/ cancelExpiredOracleUpdateProposal(a, id)
  \/ approveAddAdmin(a, id)
  \/ executeAddAdmin(a, id)
  \/ cancelExpiredAddAdminProposal(a, id)
  \/ approveTreasuryPayoutAddressUpdate(a, id)
  \/ executeTreasuryPayoutAddressUpdate(a, id)
  \/ cancelExpiredTreasuryPayoutAddressUpdateProposal(a, id)

\* Any address may send any of these transactions.
GovStep ==
  \E a \in Accounts :
    \/ SwitchStep(a)
    \/ \E target \in Accounts \cup {ZeroAddress} : ProposeStep(a, target)
    \/ \E id \in ProposalIds : ProposalStep(a, id)

GovNext == Tick \/ GovStep

GovSpec == GovInit /\ [][GovNext]_govVars

-------------------------------------------------------------------------------
(* Properties *)

(***************************************************************************)
(* Type invariant of the administrative state (contract storage, lines     *)
(* 129-202).                                                               *)
(***************************************************************************)
GovTypeOK ==
  /\ now \in Nat \ {0}
  /\ paused \in BOOLEAN
  /\ claimsPaused \in BOOLEAN
  /\ oracleActive \in BOOLEAN
  /\ oracleAddress \in Accounts
  /\ treasuryPayoutAddress \in Accounts
  /\ admins \in SUBSET Accounts
  /\ unpauseProposal \in UnpauseProposal
  /\ unpauseHasApproved \in SUBSET Accounts
  /\ hasActiveUnpauseProposal \in BOOLEAN
  /\ govCounter \in [Kinds -> 0 .. MaxProposals]
  /\ govProposals \in [Kinds -> [ProposalIds -> GovProposal]]

(***************************************************************************)
(* Four eyes: approvalCount, which the execute functions test, is the      *)
(* number of distinct addresses that approved; all of them are admins; an  *)
(* executed proposal has a governance quorum of them and was not           *)
(* cancelled.  The HasApproved flag is all that keeps an admin from being  *)
(* counted twice.                                                          *)
(***************************************************************************)
GovernanceQuorum ==
  \A k \in Kinds : \A id \in ProposalIds :
    LET p == govProposals[k][id] IN
      /\ p.approvedBy \subseteq admins
      /\ p.approvalCount = Cardinality(p.approvedBy)
      /\ p.executed => p.approvalCount >= governanceApprovals /\ ~p.cancelled

\* Proposal id has a quorum of today's admins, is within its lifetime, and its
\* timelock is over unless it was made while the oracle was disabled.
Matured(k, id) ==
  LET p == govProposals[k][id] IN
    /\ p.approvedBy \subseteq admins
    /\ Cardinality(p.approvedBy) >= governanceApprovals
    /\ now <= p.createdAt + GovernanceProposalTTL
    /\ now >= p.createdAt + GovernanceTimelock \/ (k = "oracle" /\ p.fastTrack)

\* This step uses up proposal id of family k.
Consumes(k, id) ==
  /\ Matured(k, id)
  /\ ~govProposals[k][id].executed
  /\ govProposals'[k][id].executed

(***************************************************************************)
(* Privileged state changes only by a matured proposal that asked for      *)
(* exactly this change and that the change uses up: the oracle address and *)
(* a re-activation of the oracle (executeOracleUpdate), the set of admins  *)
(* (executeAddAdmin), the payout receiver                                  *)
(* (executeTreasuryPayoutAddressUpdate).                                   *)
(***************************************************************************)
PrivilegedStep ==
  /\ oracleAddress' # oracleAddress \/ (~oracleActive /\ oracleActive') =>
       \E id \in ProposalIds :
         Consumes("oracle", id) /\ oracleAddress' = govProposals["oracle"][id].target
  /\ admins' # admins =>
       \E id \in ProposalIds :
         Consumes("admin", id) /\ admins' = admins \cup {govProposals["admin"][id].target}
  /\ treasuryPayoutAddress' # treasuryPayoutAddress =>
       \E id \in ProposalIds :
         /\ Consumes("payout", id)
         /\ treasuryPayoutAddress' = govProposals["payout"][id].target

PrivilegedChangesAreApproved == [][PrivilegedStep]_govVars

(***************************************************************************)
(* An unpause proposal lives only while the protocol is paused, below its  *)
(* quorum, and its count is the number of set approval flags; without an   *)
(* active proposal no flag is set, so no approval leaks from a cancelled,  *)
(* replaced or executed proposal into the next one, even though the flags  *)
(* are cleared by a loop over an admin list that grows (_executeUnpause,   *)
(* _cancelUnpauseProposal).                                                *)
(***************************************************************************)
UnpauseApprovalsFresh ==
  /\ unpauseHasApproved \subseteq admins
  /\ ~hasActiveUnpauseProposal => unpauseHasApproved = {}
  /\ hasActiveUnpauseProposal =>
       /\ paused
       /\ ~unpauseProposal.executed
       /\ unpauseProposal.approvalCount = Cardinality(unpauseHasApproved)
       /\ unpauseProposal.approvalCount < governanceApprovals

(***************************************************************************)
(* The protocol leaves the paused state only in the step in which the last *)
(* of a governance quorum of distinct admins approves (approveUnpause),    *)
(* although a single admin can enter it.                                   *)
(***************************************************************************)
UnpauseNeedsQuorum ==
  [][paused /\ ~paused' =>
       \E a \in admins \ unpauseHasApproved :
         /\ unpauseHasApproved \subseteq admins
         /\ Cardinality(unpauseHasApproved \cup {a}) >= governanceApprovals]_govVars

(***************************************************************************)
(* With fewer admins than governanceApprovals() (one admin, which the      *)
(* constructor accepts with _requiredApprovals = 1) a pause is for ever:   *)
(* neither the unpause nor the addition of a second admin can get its two  *)
(* approvals.                                                              *)
(***************************************************************************)
LoneAdminPauseIsFinal ==
  [][Cardinality(InitialAdmins) < governanceApprovals /\ paused => paused']_govVars

===============================================================================
