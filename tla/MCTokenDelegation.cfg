SPECIFICATION Spec
CONSTANTS
  a1 = a1
  a2 = a2
  a3 = a3
  NoOne = NoOne
  Account <- MCAccounts
  MaxAmount = 2
  MaxSequence = 9
  Retention = 1
  MinLock = 1
  MaxLock = 2
  Amounts = {1}
  Durations = {}
  Delegators <- MCAccounts
  Spenders = {}
  Nominees = {}
  MaxLedger = 2
INVARIANTS
  VotesAddUp
  VotesFollowDelegation
SYMMETRY MCSymmetry
CHECK_DEADLOCK FALSE
