\* The cleanup against an executor that started in time.
CONSTANTS
  a1 = a1
  a2 = a2
  x = x
  y = y
  e1 = e1
  e2 = e2
  None = None
  ZeroAddress = ZeroAddress
  Accounts <- FourAccounts
  ProposalTargets <- OnlyY
  Treasury = x
  InitialOracle = x
  InitialAdmins <- TwoAdmins
  RequiredApprovals = 1
  GovernanceTimelock = 1
  GovernanceProposalTTL = 1
  MaxTime = 4
  QueueTTL = 1
  MaxDirectCalls = 0
  MaxQueuedMethods = 1
  MaxSends = 2
  MaxCrashes = 0
  MaxProposals = 1
  ProposalLimit <- OneOfEach
  ChainHistories <- FourSituations
  ActionIds <- TwoActions
  Executors <- OneExecutor
SPECIFICATION GatewaySpec
SYMMETRY InstanceSymmetry
CHECK_DEADLOCK FALSE
PROPERTY
  CleanupOnlyMarksRequested
