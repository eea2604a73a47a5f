SPECIFICATION Spec
CONSTANTS
  first = first
  second = second
  Key <- MCKey
  Scopes <- MCScopes
  Ttl <- MCTtl
  MaxEntries = 1
  MaxReads = 3
  MaxTime = 2
  MaxVersion = 2
INVARIANTS
  Bounded
  ReadsAreFresh
  PendingIsInFlight
CHECK_DEADLOCK FALSE
