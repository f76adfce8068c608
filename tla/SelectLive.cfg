SPECIFICATION FairSpec
CONSTANTS
  Options <- MCLive
  Chunks <- MCOnlyPrompt
  PasswordLength = 1
  OtherUser = TRUE
  MayRunOut = FALSE
  MayBlock = TRUE
  MayBeLate = FALSE
PROPERTIES
  CancelHonoured
  ExitNoticed
  TimeoutsBound
