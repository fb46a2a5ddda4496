SPECIFICATION Spec
CONSTANTS
  Deadline = 5
  Never = 9
  Compares <- MCCompares
  Midelegs <- MCMidelegs
  Medelegs <- MCMedelegs
INVARIANT MprvOnlyInM
PROPERTIES TimerExact Termination
CHECK_DEADLOCK FALSE
