SPECIFICATION Spec
CONSTANTS
  Options <- MCBoth
  Chunks <- MCPrompts
  PasswordLength = 1
  OtherUser = FALSE
  MayRunOut = FALSE
  MayBlock = FALSE
  MayBeLate = FALSE
INVARIANT SigchldNotLost
