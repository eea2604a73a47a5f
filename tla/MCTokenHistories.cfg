SPECIFICATION Spec
CONSTANTS
  a1 = a1
  a2 = a2
  a3 = a3
  NoOne = NoOne
  Account <- MCTwoAccounts
  MaxAmount = 2
  MaxSequence = 6
  Retention = 1
  MinLock = 1
  MaxLock = 3
  Amounts = {2}
  Durations = {0, 1, 3, 4}
  Delegators = {}
  Spenders = {}
  Nominees <- MCTwoAccounts
  MaxLedger = 4
INVARIANTS
  BoostWithinBalance
PROPERTIES
  PastIsSettled
  BoostIsSettled
SYMMETRY MCTwoSymmetry
CHECK_DEADLOCK FALSE
