\* One trade through every milestone, timeout, dispute and claim.
CONSTANTS
  a1 = a1
  a2 = a2
  b = b
  s = s
  y = y
  h = h
  Accounts <- FiveAccounts
  ZeroAddress = ZeroAddress
  Escrow = Escrow
  ZeroHash = ZeroHash
  Hashes <- OneHash
  Treasury = y
  InitialOracle = y
  InitialAdmins <- TwoAdmins
  RequiredApprovals = 2
  GovernanceTimelock = 1
  GovernanceProposalTTL = 2
  MaxProposals = 0
  ProposalLimit <- NoProposals
  Orders <- OneWayOrders
  InitialUsdc <- Balances
  DisputeWindow = 1
  LockTimeout = 1
  InTransitTimeout = 2
  DisputeProposalTTL = 1
  MaxTrades = 1
  MaxDisputes = 2
  LastInputTime = 3
  MaxTime = 6
SPECIFICATION Spec
SYMMETRY AdminSymmetry
INVARIANTS
  SettledOnce
  TradeConservation
  OneOpenDispute
  DisputeQuorum
  WindowHasNoGap
PROPERTIES
  FrozenNeedsDecision
  ImplementsCustody
  ImplementsLifecycle
