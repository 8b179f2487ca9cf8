\* Three owners, two failing closes, and the one asynchronous exception covered.
SPECIFICATION Spec
CONSTANTS
  Count = 3
  MaxCloseErrors = 2
  MaxInterrupts = 1
INVARIANTS NeverStrikesAnother NobodyForgotten FirstErrorKept
\* The drain is over.
CHECK_DEADLOCK FALSE
