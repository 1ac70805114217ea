------------------------------- MODULE AdminSDK -------------------------------
(***************************************************************************)
(* sdk/src/modules/adminSDK.ts over the contract of EscrowGovernance.  A   *)
(* method checks that its signer is an admin, broadcasts one transaction   *)
(* and waits for the receipt.  The broadcast and the inclusion are two     *)
(* steps: whoever waits may give up in between, and the transaction stays  *)
(* in the mempool.  The contract applies it or reverts it when it is mined.*)
(* The dispute methods belong to the trades and are left to AgroasysEscrow.*)
(***************************************************************************)
EXTENDS EscrowGovernance

CONSTANTS
  None,            \* null: no proposal id, no address, no action
  ProposalTargets, \* bound: the addresses proposals are made for
  MaxDirectCalls   \* bound: calls admins make with the SDK beside the gateway

VARIABLES
  treasuryDue,     \* claimableUsdc[treasuryAddress] > 0
  mempool,         \* transactions broadcast and not mined
  mined,           \* transactions that succeeded, each with the id its event carries
  directCalls      \* how many calls the admins made themselves

chainVars == <<govVars, treasuryDue>>
txVars    == <<mempool, mined, directCalls>>

\* The methods the gateway queues.
ApprovalMethods ==
  {"approveUnpause", "approveTreasuryPayoutAddressUpdate", "approveOracleUpdate"}

ProposeMethods == {"proposeOracleUpdate", "proposeTreasuryPayoutAddressUpdate"}

SwitchMethods ==
  {"pause", "proposeUnpause", "cancelUnpauseProposal", "pauseClaims", "unpauseClaims",
   "claimTreasury", "disableOracleEmergency"}

ProposalMethods ==
  {"executeTreasuryPayoutAddressUpdate", "cancelExpiredTreasuryPayoutAddressUpdateProposal",
   "executeOracleUpdate", "cancelExpiredOracleUpdateProposal"}

Methods == ApprovalMethods \cup ProposeMethods \cup SwitchMethods \cup ProposalMethods

\* The methods of the SDK that no route of the gateway queues.
AddAdminMethods ==
  {"proposeAddAdmin", "approveAddAdmin", "executeAddAdmin", "cancelExpiredAddAdminProposal"}

\* The family of timelocked proposals a method is about.
KindOf(method) ==
  IF method \in {"proposeOracleUpdate", "approveOracleUpdate", "executeOracleUpdate",
                 "cancelExpiredOracleUpdateProposal"}
  THEN "oracle" ELSE "payout"

TakesProposal(method) ==
  method \in ProposalMethods \cup (ApprovalMethods \ {"approveUnpause"})
             \cup (AddAdminMethods \ {"proposeAddAdmin"})

-------------------------------------------------------------------------------
(* The transactions the methods send *)

\* verifyAdmin: every method but claimTreasury refuses other signers before it sends.
verifyAdmin(method, signer) == method = "claimTreasury" \/ signer \in admins

PauseControl(tx) ==
  \/ tx.method = "pause" /\ pause(tx.signer)
  \/ tx.method = "proposeUnpause" /\ proposeUnpause(tx.signer)
  \/ tx.method = "approveUnpause" /\ approveUnpause(tx.signer)
  \/ tx.method = "cancelUnpauseProposal" /\ cancelUnpauseProposal(tx.signer)

EmergencyControl(tx) ==
  \/ tx.method = "disableOracleEmergency" /\ disableOracleEmergency(tx.signer)
  \/ tx.method = "pauseClaims" /\ pauseClaims(tx.signer)
  \/ tx.method = "unpauseClaims" /\ unpauseClaims(tx.signer)

PayoutGovernance(tx) ==
  \/ /\ tx.method = "proposeTreasuryPayoutAddressUpdate"
     /\ proposeTreasuryPayoutAddressUpdate(tx.signer, tx.target)
  \/ /\ tx.method = "approveTreasuryPayoutAddressUpdate"
     /\ approveTreasuryPayoutAddressUpdate(tx.signer, tx.proposalId)
  \/ /\ tx.method = "executeTreasuryPayoutAddressUpdate"
     /\ executeTreasuryPayoutAddressUpdate(tx.signer, tx.proposalId)
  \/ /\ tx.method = "cancelExpiredTreasuryPayoutAddressUpdateProposal"
     /\ cancelExpiredTreasuryPayoutAddressUpdateProposal(tx.signer, tx.proposalId)

OracleGovernance(tx) ==
  \/ tx.method = "proposeOracleUpdate" /\ proposeOracleUpdate(tx.signer, tx.target)
  \/ tx.method = "approveOracleUpdate" /\ approveOracleUpdate(tx.signer, tx.proposalId)
  \/ tx.method = "executeOracleUpdate" /\ executeOracleUpdate(tx.signer, tx.proposalId)
  \/ /\ tx.method = "cancelExpiredOracleUpdateProposal"
     /\ cancelExpiredOracleUpdateProposal(tx.signer, tx.proposalId)

AddAdminGovernance(tx) ==
  \/ tx.method = "proposeAddAdmin" /\ proposeAddAdmin(tx.signer, tx.target)
  \/ tx.method = "approveAddAdmin" /\ approveAddAdmin(tx.signer, tx.proposalId)
  \/ tx.method = "executeAddAdmin" /\ executeAddAdmin(tx.signer, tx.proposalId)
  \/ /\ tx.method = "cancelExpiredAddAdminProposal"
     /\ cancelExpiredAddAdminProposal(tx.signer, tx.proposalId)

\* Anyone may sweep what the treasury is due, while claims are not paused.
claimTreasury(tx) ==
  /\ tx.method = "claimTreasury"
  /\ ~claimsPaused
  /\ treasuryDue
  /\ treasuryDue' = FALSE
  /\ UNCHANGED govVars

\* The transaction succeeds; one the contract reverts is not a step.
Succeeds(tx) ==
  \/ /\ \/ PauseControl(tx)
        \/ EmergencyControl(tx)
        \/ PayoutGovernance(tx)
        \/ OracleGovernance(tx)
        \/ AddAdminGovernance(tx)
     /\ UNCHANGED treasuryDue
  \/ claimTreasury(tx)

\* extractProposalIdFromReceipt: the id in the Proposed event.
ProposalIdOf(tx) ==
  IF tx.method \in ProposeMethods THEN govCounter[KindOf(tx.method)] ELSE None

Mine(tx) ==
  /\ tx \in mempool
  /\ Succeeds(tx)
  /\ mempool' = mempool \ {tx}
  /\ mined' = mined \cup {[tx |-> tx, proposalId |-> ProposalIdOf(tx)]}
  /\ UNCHANGED directCalls

\* An admin uses the SDK, not the gateway.
DirectCall(callers) ==
  \E signer \in admins \cap callers, method \in Methods \cup AddAdminMethods,
     id \in ProposalIds, target \in ProposalTargets :
    /\ directCalls < MaxDirectCalls
    /\ ~TakesProposal(method) => id = 0
    /\ Succeeds([method |-> method, signer |-> signer, proposalId |-> id, target |-> target])
    /\ directCalls' = directCalls + 1
    /\ UNCHANGED <<mempool, mined>>

===============================================================================
