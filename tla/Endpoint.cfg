SPECIFICATION FairSpec
CONSTANTS
  Fds = {0, 1, 2}
  Input = 2
  Output = 2
  Room = 1
  Depth = 2
INVARIANTS
  TypeOK
  NumbersAreOurs
  WatchedAreOurs
  FailedIsClosed
  BytesInOrder
  WriteEventWhilePending
PROPERTIES
  MeetsContract
  OutputDrains
  InputArrives
