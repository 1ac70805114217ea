SPECIFICATION Spec
CONSTANTS
  h1 = h1
  h2 = h2
  p1 = p1
  p2 = p2
  TradeId = 1
  Requested <- Release
  Handlers <- TwoHandlers
  Polls <- TwoPolls
  MaxAttempts = 2
  Redrives = FALSE
  FallbackAge = 1
  HardTimeout = 1
  MinInterval = 1
  MaxRequests = 2
  MaxCrashes = 1
SYMMETRY Symmetry
INVARIANTS
  ConfirmedIsOnChain
  NoOrphanRows
  ApprovedBeforeSend
PROPERTIES
  SettledYieldsToOverlap
