\* Two queued actions, two executors, the cleanup, and a crash or a direct call.
CONSTANTS
  a1 = a1
  a2 = a2
  x = x
  y = y
  e1 = e1
  e2 = e2
  None = None
  ZeroAddress = ZeroAddress
  Accounts <- FourAccounts
  ProposalTargets <- OnlyY
  Treasury = x
  InitialOracle = x
  InitialAdmins <- TwoAdmins
  RequiredApprovals = 1
  GovernanceTimelock = 1
  GovernanceProposalTTL = 1
  MaxTime = 4
  QueueTTL = 1
  MaxDirectCalls = 1
  MaxQueuedMethods = 1
  MaxSends = 2
  MaxCrashes = 1
  MaxProposals = 1
  ProposalLimit <- OneOfEach
  ChainHistories <- FourSituations
  ActionIds <- TwoActions
  Executors <- TwoExecutors
SPECIFICATION GatewaySpec
SYMMETRY InstanceSymmetry
CHECK_DEADLOCK FALSE
INVARIANTS
  SentOncePerRun
  RecordedOutcomeHappened
  ApprovalSignedByItsApprover
  OpenIntentsApart
