\* A mirror of one byte that changes while the second run binds it.
SPECIFICATION Spec
CONSTANTS
  NL = NL
  Text = Text
  MaxAttempts = 3
  MaxSize = 1
  MaxWrites = 1
  MaxRuns = 2
  MaxFaults = 0
  MaxIntrusions = 0
  MaxChurns = 1
INVARIANTS DeferralAccepted
CHECK_DEADLOCK FALSE
