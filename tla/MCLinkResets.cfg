SPECIFICATION PlaySpec
CONSTANTS
  Rows = 1
  GsCmds = {1, 3}
  JumpCmds = {1}
  TiltCmds = {0, 1}
  Resets = TRUE
INVARIANTS PlayTypeOK AtMostOneFlag
PROPERTIES GsSlot JumpSlot AccSlot
