\* Two system calls that fail, the one asynchronous exception covered, and two
\* replacements by outsiders; kills and power losses are not bounded.
SPECIFICATION Spec
CONSTANTS
  MaxErrors = 2
  MaxInterrupts = 1
  MaxIntrusions = 2
INVARIANTS WholeOrBefore AnswerTrue NoLeftover
PROPERTIES KeepsPromise
\* The write is over.
CHECK_DEADLOCK FALSE
