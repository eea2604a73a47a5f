SPECIFICATION SystemSpec
CONSTANTS
  a1 = a1
  a2 = a2
  Self = Self
  Token = Token
  NoOne = NoOne
  Users = {a1}
  Receivers = {a2}
  Minted = {}
  Admin = a1
  Guardian = a2
  Account <- MCAccounts
  MaxAmount = 2
  MaxSequence = 20
  Retention = 1
  MinLock = 1
  MaxLock = 3
  Amounts = {1, 2}
  Durations = {3}
  Delegators = {a1}
  Spenders = {a2}
  Allowances <- MCApprovals
  Nominees = {}
  Target = {}
  QuorumBps = 1
  BpsDenominator = 2
  VotingPeriod = 0
  TimelockPeriod = 1
  GracePeriod = 1
  Threshold = 1
  MaxActions = 1
  MaxCosponsors = 0
  HalfLife = 2
  MaxCount = 1
  Sponsorships <- Alone
  Kinds = {"standard"}
  Deposits = {1}
  Cooldowns = {}
  Officers = {}
  Pausing = FALSE
  MaxProposals = 1
  MaxLedger = 4
INVARIANTS
  VotesAreBacked
  DepositsCanBeMoved
  AllowanceAccounted
PROPERTIES
  ImplementsGovernor
CHECK_DEADLOCK FALSE
