SPECIFICATION FairSpec
CONSTANTS
  MaxLedger = 6
  MaxEntries = 5
  Ledger <- MCLedger
  Entry <- MCEntry
  Histories <- MCHistories
INVARIANT
  SearchIsCorrect
PROPERTY
  SearchTerminates
CHECK_DEADLOCK FALSE
