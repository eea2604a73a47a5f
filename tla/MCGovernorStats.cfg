SPECIFICATION Spec
CONSTANTS
  a1 = a1
  a2 = a2
  registry = registry
  Self = Self
  Token = Token
  NoOne = NoOne
  Admin = a1
  Guardian = a2
  Account <- Two
  Target = {}
  QuorumBps = 1
  BpsDenominator = 2
  VotingPeriod = 0
  TimelockPeriod = 1
  GracePeriod = 1
  Threshold = 1
  MaxActions = 1
  MaxCosponsors = 2
  HalfLife = 1
  MaxAmount = 12
  MaxSequence = 20
  MaxCount = 9
  Holdings <- EvenHoldings
  Weights <- OnlyFirst
  Sponsorships <- Alone
  Kinds <- Standard
  Payments = {}
  Deposits = {}
  Cooldowns = {}
  Nominees = {}
  Pausing = FALSE
  MaxProposals = 1
  MaxLedger = 7
INVARIANT
  StatsCountProposals
CHECK_DEADLOCK FALSE
