SPECIFICATION FairSpec
CONSTANTS
  Rows = 2
  GsCmds = {1, 2, 3}
  JumpCmds = {1, 2, 3, 4}
  TiltCmds = {}
  Resets = FALSE
PROPERTIES HopGameSpec JumpLands CubePainted
