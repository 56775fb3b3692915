SPECIFICATION Spec
CONSTANTS
  Rows = 1
  GsCmds = {1, 3, 4}
  JumpCmds = {}
  TiltCmds = {1}
  Resets = FALSE
INVARIANTS TypeOK PausedTint
PROPERTIES FourLives
