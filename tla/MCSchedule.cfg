\* Backoffs, and the clock compared as text, with a binary digit after the point.
SPECIFICATION FairSpec
CONSTANTS
  Base = 2
  Places = 1
  MaxAttempts = 3
  InitialBackoff = 1
  MaxBackoff = 2
  Wait <- Waits
  MaxRows = 2
  MaxSeconds = 4
INVARIANTS
  TypeOK
  RetriesAreSpaced
  OvertakenWithinASecond
PROPERTIES
  RowsSettle
\* When the clock has come to its end and all rows are settled, nothing is left to do.
CHECK_DEADLOCK FALSE
