\* One proposal of each kind beside the kill switch and the unpause.
CONSTANTS
  a1 = a1
  a2 = a2
  x = x
  Accounts <- ThreeAccounts
  ZeroAddress = ZeroAddress
  Treasury = x
  InitialOracle = x
  InitialAdmins <- TwoAdmins
  RequiredApprovals = 2
  GovernanceTimelock = 1
  GovernanceProposalTTL = 2
  MaxTime = 4
  MaxProposals = 1
  ProposalLimit <- OneOfEachKind
SPECIFICATION GovSpec
SYMMETRY TwoAdminSymmetry
INVARIANTS
  GovernanceQuorum
  UnpauseApprovalsFresh
PROPERTIES
  PrivilegedChangesAreApproved
  UnpauseNeedsQuorum
