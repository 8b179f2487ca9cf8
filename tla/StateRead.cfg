\* Four writes or renames by outsiders, so that each of three attempts meets one.
SPECIFICATION Spec
CONSTANTS
  Blocks = {a, b}
  Attempts = 3
  MaxIntrusions = 4
INVARIANTS NoTornRecord
PROPERTIES ToleratesTouch
\* The read is over.
CHECK_DEADLOCK FALSE
