\* Two calls of one buyer at a time, one approval resolving a dispute.
CONSTANTS
  a1 = a1
  a2 = a2
  b = b
  s = s
  y = y
  h = h
  Accounts <- FourAccounts
  ZeroAddress = ZeroAddress
  Escrow = Escrow
  ZeroHash = ZeroHash
  Hashes <- OneHash
  Treasury = y
  InitialOracle = y
  InitialAdmins <- OneAdmin
  RequiredApprovals = 1
  GovernanceTimelock = 1
  GovernanceProposalTTL = 2
  MaxProposals = 0
  ProposalLimit <- NoProposals
  Orders <- OrdersTried
  InitialUsdc <- BuyerFunds
  DisputeWindow = 0
  LockTimeout = 0
  InTransitTimeout = 0
  DisputeProposalTTL = 0
  MaxTrades = 2
  MaxDisputes = 1
  LastInputTime = 2
  MaxTime = 2
  None = None
  Buyer = b
  c1 = c1
  c2 = c2
  Calls <- TwoCalls
  Wanted <- SomeParams
  InitialAllowances = {0, 13}
  DefaultDeadline = 1
  MaxLost = 1
SPECIFICATION SDKSpec
SYMMETRY CallSymmetry
INVARIANTS
  Solvency
  EachCallOneTrade
PROPERTY
  LoneAdminPauseIsFinal
