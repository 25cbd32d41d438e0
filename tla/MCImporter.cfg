\* Imports beside Chrome, and the configurations they load.
SPECIFICATION Spec
CONSTANTS
  None = None
  Odd = Odd
  Blank = Blank
  MaxCommands = 2
  MaxWrites = 2
INVARIANTS
  RowIsUsable
  ImportedIsCurrent
  CopiesAreRemoved
  AcceptedConfigsFit
\* Commands end.
CHECK_DEADLOCK FALSE
