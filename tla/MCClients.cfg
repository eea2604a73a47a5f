SPECIFICATION Spec
CONSTANTS
  Attempts = 2
  Reads = {1, 2, 3, 4}
  Size = 2
  MaxProposals = 2
  Windows <- SomeWindows
  Patience = 1
  ValidFor = 1
  RequestTimeout = 1
  PollEvery = 1
  ConfirmFor = 4
  Writes = 1
  LastInstant = 7
  Ids = {1, 2}
  Actions <- TwoProposals
  Target = {"a", "b"}
  Pages = {"/", "/delegates"}
  Shell = {"/"}
  MaxVersion = 2
  MaxInFlight = 2
  Titles = {0, 1}
  Descriptions = {0, 1}
  Others = {0, 1}
  Templates <- OneTemplate
  Proposals = {1}
  Addresses = {"a", "b"}
  Proposers <- OneProposer
  Tabs = {1, 2}
  Logins <- ThreeLogins
  MaxStage = 3
  MAX_NOTIFICATIONS_PER_WALLET = 2
  FeedProposals = {1, 2}
  Voters = {1}
  Supports = {0, 1}
  PageSize = 2
  MaxEvents = 5
  Sizes <- TwoSizes
  PageSizes <- ThreePages
  Pools = {0, 2, 3}
  RunsPerJob = 2
  VotingPeriod = 2
  TimelockPeriod = 1
  GracePeriods = {0, 4}
  MaxStrangers = 1
  MaxIdle = 2
  Accounts = {"a", "b"}
  Snapshots = {1, 2}
  Holders <- TwoHolders
  Cap = 2
INVARIANTS
  ReadsGetTheirOwn
  VerdictsAreTrue
  AnswersWereTrue
  ReplayAgrees
  PreviewIsOwn
  BaselineIsReported
  DraftIsKept
  SeededAsPromised
  LiveReadsTheDeployment
  OneRunReportsAll
  RunsAreAsReported
  
  AllOrNothing
PROPERTIES
  EveryReadSettles
  SubmissionsEnd
  ViewCatchesUp
CHECK_DEADLOCK FALSE
