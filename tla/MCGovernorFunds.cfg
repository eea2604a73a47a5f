SPECIFICATION Spec
CONSTANTS
  a1 = a1
  a2 = a2
  registry = registry
  Self = Self
  Token = Token
  NoOne = NoOne
  Admin = a1
  Guardian = a2
  Account <- Two
  Target = {}
  QuorumBps = 1
  BpsDenominator = 2
  VotingPeriod = 0
  TimelockPeriod = 1
  GracePeriod = 1
  Threshold = 2
  MaxActions = 1
  MaxCosponsors = 2
  HalfLife = 1
  MaxAmount = 3
  MaxSequence = 20
  MaxCount = 1
  Holdings <- UnevenHoldings
  Weights <- OnlyFirst
  Sponsorships <- Sponsored
  Kinds <- Standard
  Payments = {1}
  Deposits = {1, 2}
  Cooldowns = {2}
  Nominees = {}
  Pausing = FALSE
  MaxProposals = 2
  MaxLedger = 3
INVARIANTS
  DepositsAreHeld
PROPERTY
  DepositIsSettled
CHECK_DEADLOCK FALSE
