SPECIFICATION FairSpec
CONSTANTS
  Owners = {main, other}
  Main = main
  Opens = 3
  Starts = 2
  Both = 4
  Signals = 2
CHECK_DEADLOCK FALSE
INVARIANTS
  TypeOK
  LockMoves
  RegisteredIsOpen
  OnlyLateTriggersStray
PROPERTIES
  EverySignalHeard
  RegistrationEnds
