SPECIFICATION Spec
CONSTANTS
  Rows = 2
  GsCmds = {2}
  JumpCmds = {1, 4}
  TiltCmds = {}
  Resets = FALSE
INVARIANTS PaintedWereAsked
PROPERTIES SentIsSeen
