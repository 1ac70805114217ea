\* One trade while governance moves the payout receiver and the oracle may stop.
CONSTANTS
  a1 = a1
  a2 = a2
  b = b
  s = s
  y = y
  h = h
  Accounts <- FiveAccounts
  ZeroAddress = ZeroAddress
  Escrow = Escrow
  ZeroHash = ZeroHash
  Hashes <- OneHash
  Treasury = y
  InitialOracle = y
  InitialAdmins <- TwoAdmins
  RequiredApprovals = 2
  GovernanceTimelock = 1
  GovernanceProposalTTL = 2
  MaxProposals = 1
  ProposalLimit <- OnePayoutUpdate
  Orders <- SingleOrder
  InitialUsdc <- Balances
  DisputeWindow = 1
  LockTimeout = 1
  InTransitTimeout = 1
  DisputeProposalTTL = 1
  MaxTrades = 1
  MaxDisputes = 0
  LastInputTime = 2
  MaxTime = 4
SPECIFICATION FairSpec
INVARIANT
  PartiesMadeWhole
PROPERTY
  TradesLeaveEscrow
