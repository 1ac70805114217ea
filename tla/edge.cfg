\* The auth service, the gateway's compliance and listing routes, Ricardian, the notifier.
CONSTANTS
  a1 = a1
  a2 = a2
  r1 = r1
  r2 = r2
  n1 = n1
  n2 = n2
  k1 = k1
  k2 = k2
  alice = alice
  svc = svc
  None = None
  MaxClock = 5
  Wallets <- OneWallet
  UserRoles = {"admin"}
  AuthCalls <- TwoAuthCalls
  CHALLENGE_TTL_SECONDS = 1
  MaxSessionTtlSeconds = 2
  DefaultTtlSeconds = 2
  RequestedTtls <- LongTtl
  MaxSessions = 3
  MaxChallenges = 2
  MaxAuthCrashes = 1
  Requests <- TwoRequests
  IdempotencyKeys <- TwoKeys
  Bodies <- ReviewBodies
  WriteAllowlist <- OneWallet
  EnableMutations = TRUE
  MaxRequests = 3
  MaxFaults = 1
  TradesUnderReview = {1, 2}
  Unread = Unread
  MaxDecisions = 4
  ApiKeys <- OneApiKey
  Contents <- SomeContents
  SharedSecret = TRUE
  NonceStores = {"memory", "postgres", "redis", "oracle"}
  maxAge = 2
  maxAhead = 1
  maxSkewSeconds = 1
  nonceTtlSeconds = 3
  maxEntries = 1
  ClientAhead = 1
  NoNonce = NoNonce
  MaxMessages = 3
  Policy <- NarrowPolicy
  MaxDeliveries = 3
  Notifies <- TwoNotifies
  ActionKeys = {"release"}
  Findings <- SomeFindings
  cooldownMs = 2
  retryAttempts = 1
  retryDelayMs = 1
  maxRetryDelayMs = 1
  MaxNotifies = 2
  MaxRestarts = 1
  ActionIds = {1, 2, 3}
  Categories = {"pause", "oracle_update"}
  Outcomes = {"executed", "stale"}
  Queries <- SomeQueries
  MaxDelay = 1
  MaxSaves = 1
SPECIFICATION Spec
SYMMETRY Symmetry
CHECK_DEADLOCK FALSE
INVARIANTS
  OneEffectPerKey
  DecisionsInOrder
  NoResumeOverDenial
  OldSessionRetired
  AcceptedOnce
  AdmittedBound
  OneRowPerDocument
  CooldownRespected
  PagesShowEveryRow
