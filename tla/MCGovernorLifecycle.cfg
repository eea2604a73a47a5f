SPECIFICATION FairSpec
CONSTANTS
  a1 = a1
  a2 = a2
  registry = registry
  Self = Self
  Token = Token
  NoOne = NoOne
  Admin = a1
  Guardian = a2
  Account <- Two
  Target <- Registry
  QuorumBps = 1
  BpsDenominator = 2
  VotingPeriod = 1
  TimelockPeriod = 1
  GracePeriod = 1
  Threshold = 1
  MaxActions = 1
  MaxCosponsors = 2
  HalfLife = 1
  MaxAmount = 12
  MaxSequence = 20
  MaxCount = 1
  Holdings <- EvenHoldings
  Weights <- OneEach
  Sponsorships <- Alone
  Kinds <- Standard
  Payments = {}
  Deposits = {}
  Cooldowns = {}
  Nominees <- Two
  Pausing = TRUE
  MaxProposals = 1
  MaxLedger = 7
INVARIANTS
  PhaseMirrorsChecks
PROPERTIES
  ExecutionIsDue
  ImplementsLifecycle
  ActiveIsDecided
  QueuedIsResolved
CHECK_DEADLOCK FALSE
