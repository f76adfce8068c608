SPECIFICATION Spec
CONSTANTS
  Options <- MCSudo
  Chunks <- MCPrompts
  PasswordLength = 1
  OtherUser = FALSE
  MayRunOut = FALSE
  EarlierLoops = FALSE
INVARIANT NoLostWakeup
