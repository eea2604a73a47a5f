SPECIFICATION Spec
CONSTANTS
  VotingPeriod = 2
  TimelockPeriod = 1
  GracePeriods = {4}
  MaxStrangers = 1
  MaxIdle = 2
INVARIANT
  IdsAreOfTheNew
CHECK_DEADLOCK FALSE
