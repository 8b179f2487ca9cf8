\* Two rollouts, one stopped command, one fault, one change of a pair.
CONSTANTS
  Count = 2
  MaxStops = 1
  MaxFaults = 1
  MaxChanges = 1
SPECIFICATION FairSpec
INVARIANTS TypeOK OneTransaction
PROPERTIES RewriteChangesNothing NoObligationLost Drains
