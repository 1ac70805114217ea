SPECIFICATION FairSpec
CONSTANTS
  h1 = h1
  h2 = h2
  p1 = p1
  p2 = p2
  TradeId = 1
  Requested <- TriggerTypes
  Handlers <- OneHandler
  Polls <- OnePoll
  MaxAttempts = 1
  Redrives = TRUE
  FallbackAge = 1
  HardTimeout = 1
  MinInterval = 1
  MaxRequests = 2
  MaxCrashes = 1
PROPERTIES
  SubmittedIsResolved
