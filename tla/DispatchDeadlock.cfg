SPECIFICATION Spec
CONSTANTS
  Owners = {main, other}
  Main = main
  Opens = 2
  Starts = 0
  Both = 2
  Signals = 2
CHECK_DEADLOCK FALSE
INVARIANT NoSelfDeadlock
