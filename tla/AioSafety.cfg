SPECIFICATION Spec
CONSTANTS
  Options <- MCEnded
  Chunks <- MCPieces
  PasswordLength = 1
  OtherUser = TRUE
  MayRunOut = FALSE
  EarlierLoops = FALSE
INVARIANTS
  MasterPromptAnswered
  AwaitIsBounded
  
  OnlyStopSleeps
  IInv
PROPERTY MeetsContract
