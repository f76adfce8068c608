SPECIFICATION FairSpec
CONSTANTS
  Options <- MCSudo
  Chunks <- MCOnlyPrompt
  PasswordLength = 1
  OtherUser = TRUE
  MayRunOut = FALSE
  EarlierLoops = TRUE
PROPERTY TimeoutsBound
