CONSTANTS
  Undefined = Undefined
  MaxTimers = 2
SPECIFICATION UplSpec
INVARIANTS AnswerNamesResume
CHECK_DEADLOCK FALSE
