SPECIFICATION Spec
CONSTANTS
  Options <- MCSafety
  Chunks <- MCPrompts
  PasswordLength = 1
  OtherUser = TRUE
  MayRunOut = TRUE
  MayBlock = FALSE
  MayBeLate = TRUE
INVARIANTS
  TypeOK
  PidIsOurs
  DoneHasVerdict
  ExitedIsReading
  TimeoutNotLost
  ExitNotLost
  ChallengesMet
  SelectIsBounded
PROPERTIES
  MeetsContract
  EndsMeetContract
  SignalsOnlyOurChild
  VerdictIsFinal
  Escalation
  RaisesOnlyEarly
  TimeoutEscalates
