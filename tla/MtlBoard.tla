------------------------------ MODULE MtlBoard -------------------------------
(***************************************************************************)
(* The MTL board: the console and the Nios (NiosPlay) command the game     *)
(* logic (QbertLayer) through the game registers (Avalon), and the game    *)
(* shows the Nios Q*bert's position.                                       *)
(***************************************************************************)
EXTENDS NiosPlay, QbertLayer

vars == <<playVars, fpgaVars>>

Init == PlayInit /\ LayerInit

Player == PlayerStep /\ UNCHANGED fpgaVars
Nios == NiosStep(position_qb) /\ UNCHANGED fpgaVars
Fpga == Clk /\ UNCHANGED playVars

Next == Player \/ Nios \/ Fpga

Spec == Init /\ [][Next]_vars

-----------------------------------------------------------------------------
TypeOK == PlayTypeOK /\ LayerTypeOK

\* LIFE_qb underflows from 0 to 15 when the last life is lost; while a game
\* is played nobody sees the underflowed value, because the next game passes
\* through INIT, which sets the lives again (qbert_layer.sv:142-153, 303-344).
LivesNeverWrapInPlay ==
  game_state \in {"RESUME", "PAUSE"} /\ qbert_state # "INIT" => LIFE_qb <= Lives

\* Two machines watch e_pause and e_resume on their own: when the game is
\* paused the colours are those of a paused game (qbert_layer.sv:137, 325-329
\* and Qbert_Map_Color.sv:596-639).
PausedTint == game_state = "PAUSE" => pause_play = 0

\* A cube is shown painted only if the Nios computed it as the end of a jump,
\* or it is the top cube.  This holds only while the Nios is not reset alone.
PaintedWereAsked == color_state_reg \subseteq elems

\* The lives as the player counts them: a new game counts from the moment it
\* is asked for.
LivesLeft ==
  IF game_state \in {"MENU", "GAMEOVER"} THEN 0
  ELSE IF game_state = "RESTART" \/ qbert_state = "INIT" THEN 4
  ELSE LIFE_qb + 1

Phase ==
  IF game_state = "MENU" THEN "menu"
  ELSE IF game_state = "GAMEOVER" THEN "over" ELSE "play"

LivesOfGame == INSTANCE LivesGame WITH phase <- Phase, lives <- LivesLeft

\* A game ends at the fourth fall and at no other, whatever is asked of it
\* while it runs: pauses, restarts, jumps and tilts in any order.
FourLives == LivesOfGame!LivesSpec
=============================================================================
