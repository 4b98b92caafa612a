CONSTANTS
  Worker = {w1, w2}
  Jobs = 3
SPECIFICATION Spec
INVARIANT CliFound
CHECK_DEADLOCK FALSE
