------------------------------ MODULE LivesGame ------------------------------
(***************************************************************************)
(* What qbert_layer promises about lives: a game gives four, a fall takes  *)
(* one, and the fall that takes the last one ends the game; nothing else   *)
(* ends it but the player going back to the menu.                          *)
(***************************************************************************)
EXTENDS Naturals

VARIABLES phase,   \* "menu", "play" or "over"
          lives    \* falls left, the last one included

livesVars == <<phase, lives>>

LivesInit == phase = "menu" /\ lives = 0

Start == phase' = "play" /\ lives' = 4

Fall ==
  /\ phase = "play"
  /\ lives > 0
  /\ lives' = lives - 1
  /\ phase' = IF lives = 1 THEN "over" ELSE "play"

Quit == phase' = "menu" /\ lives' = 0

LivesNext == Start \/ Fall \/ Quit

LivesSpec == LivesInit /\ [][LivesNext]_livesVars
=============================================================================
