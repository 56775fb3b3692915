SPECIFICATION CarelessSpec
CONSTANTS
  Rows = 3
  GsCmds = {3}
  JumpCmds = {2, 4}
  TiltCmds = {}
  Resets = FALSE
PROPERTIES LandsOnNext
