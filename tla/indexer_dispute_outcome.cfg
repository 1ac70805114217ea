\* The index of a trade whose dispute was decided.
CONSTANTS
  i1 = i1
  i2 = i2
  p1 = p1
  p2 = p2
  w1 = w1
  w2 = w2
  None = None
  TradeIds <- TwoTrades
  ProposalIds <- TwoProposals
  Terms <- TermsOf
  Quorum = 2
  MaxTransactions = 8
  IngestCalls <- TwoIngestions
  PayoutCalls <- TwoOperators
  IngestBatchSize = 2
  IngestMaxEvents = 4
  MaxIngestions = 2
  MaxTransitions = 3
  RunKeys <- OneKey
  Workers <- TwoWorkers
  ReconcileBatchSize = 1
  MaxTradesPerRun = 2
  MaxAttempts = 2
SPECIFICATION Spec
SYMMETRY Symmetry
CHECK_DEADLOCK FALSE
INVARIANT
  DisputeOutcomeIndexed
