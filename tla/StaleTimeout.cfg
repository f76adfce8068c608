SPECIFICATION Spec
CONSTANTS
  Options <- MCSudo
  Chunks <- MCPrompts
  PasswordLength = 1
  OtherUser = FALSE
  MayRunOut = FALSE
  MayBlock = FALSE
  MayBeLate = FALSE
PROPERTY TimeoutsAreReal
