----------------------------- MODULE QbertLayer ------------------------------
(***************************************************************************)
(* The game logic of the MTL board, all clocked by CLK_33:                 *)
(*   - qbert_layer.sv: the state of the game (game_state) and of Q*bert    *)
(*     (qbert_state), his lives, and his place on the screen;              *)
(*   - cube_generator.sv: which cubes are shown painted;                   *)
(*   - Qbert_Map_Color.sv: which screen is shown, and whether the colours  *)
(*     are the ones of a running game.                                     *)
(* One step is one clock edge: the four machines move together, each from  *)
(* the state before the edge.  The place is a spot and a leg of the        *)
(* movement in progress; JumpPath checks that abstraction pixel by pixel.  *)
(* The counters that slow a movement down are abstracted: the movement     *)
(* waits or goes on.                                                       *)
(*                                                                         *)
(* In this snapshot the flying saucer is not instantiated                  *)
(* (Qbert_Map_Color.sv:493-523) and e_win_qb and mode_arcade are constant  *)
(* 0: the ride on the saucer, the win and the coins are unreachable and    *)
(* left out.  Likewise nothing drives gameover_qb, which the screen reads: *)
(* the synthesis ties it to 0 (DE0_NANO.map.rpt:13224).                    *)
(***************************************************************************)
EXTENDS Avalon

VARIABLES
  game_state, qbert_state,
  LIFE_qb,          \* four bits
  jump_reg,         \* direction of the jump in progress
  done_move_reg,    \* the last movement is complete
  gameover_reg,
  spot, leg,        \* where Q*bert is; leg 0 leaving spot, 1 in the air, 2 there
  color_bit, color_state_reg,
  RGB_state,        \* screen: 0 menu, 1 game, 2 game over
  pause_play        \* 1: colours of a running game

layerVars == <<game_state, qbert_state, LIFE_qb, jump_reg, done_move_reg,
               gameover_reg, spot, leg>>
colorVars == <<color_bit, color_state_reg>>
screenVars == <<RGB_state, pause_play>>
fpgaVars == <<layerVars, colorVars, screenVars>>

GameStates == {"MENU", "RESUME", "PAUSE", "RESTART", "GAMEOVER"}
QbertStates == {"INIT", "START", "JUMP", "IDLE", "SAUCER", "END"}

Lives == 99 % 16   \* LIFE_qb <= 11'd99 keeps four bits

\* The cube Q*bert's pixel is in the box of, 0 between boxes and off the pyramid.
position_qb == IF leg = 1 THEN 0 ELSE CubeAt(spot)

-----------------------------------------------------------------------------
(* qbert_layer: the game *)

Stay == UNCHANGED layerVars

\* INIT of the registers on a new game is done by the first clock of INIT.
NewGame(from) ==
  /\ game_state' = "RESTART"
  /\ IF from = "MENU"
     THEN qbert_state' = "INIT" /\ gameover_reg' = 0
     ELSE UNCHANGED <<qbert_state, gameover_reg>>
  /\ UNCHANGED <<LIFE_qb, jump_reg, done_move_reg, spot, leg>>

GoTo(g) ==
  /\ game_state' = g
  /\ UNCHANGED <<qbert_state, LIFE_qb, jump_reg, done_move_reg, gameover_reg,
                 spot, leg>>

Menu ==
  /\ game_state = "MENU"
  /\ IF e.resume = 1 \/ e.start = 1 THEN NewGame("MENU") ELSE Stay

Pause ==
  /\ game_state = "PAUSE"
  /\ IF e.resume = 1 THEN GoTo("RESUME")
     ELSE IF e.start = 1 THEN NewGame("PAUSE")
     ELSE IF e.menu = 1 THEN GoTo("MENU")
     ELSE Stay

Restart ==
  /\ game_state = "RESTART"
  /\ game_state' = "RESUME"
  /\ qbert_state' = "INIT"
  /\ UNCHANGED <<LIFE_qb, jump_reg, done_move_reg, gameover_reg, spot, leg>>

Gameover ==
  /\ game_state = "GAMEOVER"
  /\ IF e.start = 1 THEN NewGame("GAMEOVER")
     ELSE IF e.menu = 1 THEN GoTo("MENU")
     ELSE Stay

ToPause ==
  /\ game_state = "RESUME"
  /\ e.pause = 1
  /\ GoTo("PAUSE")

-----------------------------------------------------------------------------
(* qbert_layer: Q*bert, while the game runs *)

Runs(q) == game_state = "RESUME" /\ e.pause = 0 /\ qbert_state = q

\* The counter of the movement has not reached its end.
LayerWait ==
  /\ \E q \in {"START", "JUMP", "SAUCER", "END"} : Runs(q)
  /\ Stay

Init_ ==
  /\ Runs("INIT")
  /\ qbert_state' = "START"
  /\ LIFE_qb' = Lives
  /\ gameover_reg' = 0
  /\ done_move_reg' = 0
  /\ spot' = Top /\ leg' = 1
  /\ UNCHANGED <<game_state, jump_reg>>

\* Q*bert slides in from above the top cube.
SlideIn ==
  /\ Runs("START") /\ leg = 1
  /\ leg' = 2
  /\ UNCHANGED <<game_state, qbert_state, LIFE_qb, jump_reg, done_move_reg,
                 gameover_reg, spot>>

\* Bug: the movement is not marked as done.
ArriveUndone(q) ==
  /\ Runs(q) /\ leg = 2
  /\ qbert_state' = "IDLE"
  /\ UNCHANGED <<game_state, LIFE_qb, jump_reg, done_move_reg, gameover_reg,
                 spot, leg>>

Arrive(q) ==
  /\ Runs(q) /\ leg = 2
  /\ qbert_state' = "IDLE"
  /\ done_move_reg' = 1
  /\ UNCHANGED <<game_state, LIFE_qb, jump_reg, gameover_reg, spot, leg>>

\* Bug: the cube to reach is not compared with the one under his feet.
JumpAskedAgain == e.jump # 0 /\ e.tilt = 0

JumpAsked == e.jump # 0 /\ position_qb # e.next /\ e.tilt = 0

TakeOff ==
  /\ Runs("IDLE")
  /\ position_qb # 0
  /\ JumpAsked
  /\ qbert_state' = "JUMP"
  /\ jump_reg' = e.jump
  /\ done_move_reg' = 0
  /\ leg' = 0
  /\ UNCHANGED <<game_state, LIFE_qb, gameover_reg, spot>>

\* A tilt on an edge cube sends Q*bert to the saucer; on any other cube he
\* stays, with the movement marked as not done.
Tilt ==
  /\ Runs("IDLE")
  /\ position_qb # 0
  /\ e.tilt \in {1, 2}
  /\ done_move_reg' = 0
  /\ IF \/ e.tilt = 1 /\ RightEdge(spot)
        \/ e.tilt = 2 /\ LeftEdge(spot)
     THEN qbert_state' = "SAUCER" /\ leg' = 0
     ELSE UNCHANGED <<qbert_state, leg>>
  /\ UNCHANGED <<game_state, LIFE_qb, jump_reg, gameover_reg, spot>>

FallOff ==
  /\ Runs("IDLE")
  /\ position_qb = 0
  /\ qbert_state' = "END"
  /\ UNCHANGED <<game_state, LIFE_qb, jump_reg, done_move_reg, gameover_reg,
                 spot, leg>>

\* Nothing asked, or the cube to reach is the one under his feet.
Rest ==
  /\ Runs("IDLE")
  /\ position_qb # 0
  /\ e.tilt \notin {1, 2}
  /\ ~JumpAsked
  /\ Stay

\* The pixel leaves the box it is in.
LeaveBox ==
  /\ \/ Runs("JUMP") /\ spot' = Hop(spot, jump_reg)
     \/ Runs("SAUCER") /\ UNCHANGED spot
  /\ leg = 0
  /\ leg' = 1
  /\ UNCHANGED <<game_state, qbert_state, LIFE_qb, jump_reg, done_move_reg,
                 gameover_reg>>

\* The pixel enters the box of the spot the jump ends on, if a cube is there.
EnterBox ==
  /\ Runs("JUMP") /\ leg = 1
  /\ leg' = 2
  /\ UNCHANGED <<game_state, qbert_state, LIFE_qb, jump_reg, done_move_reg,
                 gameover_reg, spot>>

\* qb_on_sc is not driven: every tilt off the pyramid misses the saucer.
MissSaucer ==
  /\ Runs("SAUCER") /\ leg = 1
  /\ qbert_state' = "END"
  /\ done_move_reg' = 1
  /\ UNCHANGED <<game_state, LIFE_qb, jump_reg, gameover_reg, spot, leg>>

\* Bug: the game ends one life too early.
LastLifeIsOne == LIFE_qb = 1

LastLife == LIFE_qb = 0

\* Bug: the lives are counted down without the width of their register.
MinusOneSigned(life) == life - 1

MinusOne(life) == (life + 15) % 16

\* The fall is drawn; the last life is the one that finds LIFE_qb at 0.
LoseLife ==
  /\ Runs("END")
  /\ LIFE_qb' = MinusOne(LIFE_qb)
  /\ qbert_state' = "START"
  /\ spot' = Top /\ leg' = 1
  /\ IF LastLife
     THEN game_state' = "GAMEOVER" /\ gameover_reg' = 1
     ELSE UNCHANGED <<game_state, gameover_reg>>
  /\ UNCHANGED <<jump_reg, done_move_reg>>

LayerMove ==
  \/ Menu \/ Pause \/ Restart \/ Gameover \/ ToPause
  \/ Init_ \/ SlideIn \/ Arrive("START") \/ Arrive("JUMP")
  \/ TakeOff \/ Tilt \/ FallOff \/ Rest
  \/ LeaveBox \/ EnterBox \/ MissSaucer \/ LoseLife

-----------------------------------------------------------------------------
(* cube_generator: the painted cubes; all seven instances agree *)

Color ==
  \/ /\ color_bit = "IDLE"
     /\ color_bit' = IF position_qb # e.next THEN "UPDATE" ELSE "IDLE"
     /\ UNCHANGED color_state_reg
  \/ /\ color_bit = "UPDATE"
     /\ IF done_move_reg = 1
        THEN color_state_reg' = e.color /\ color_bit' = "IDLE"
        ELSE UNCHANGED colorVars

(* Qbert_Map_Color and in_game_RGB: the screen *)

\* The wire of that name in Qbert_Map_Color; qbert_layer's output of the same
\* name, gameover_reg, is not connected to it.
gameover_qb == 0

Screen ==
  RGB_state' =
    IF RGB_state = 0 THEN IF e.start = 1 \/ e.pause = 1 THEN 1 ELSE 0
    ELSE IF e.menu = 1 THEN 0
    ELSE IF RGB_state = 1 THEN IF gameover_qb = 1 THEN 2 ELSE 1
    ELSE IF e.start = 1 THEN 1 ELSE 2

PausePlay ==
  pause_play' =
    IF pause_play = 0 THEN IF e.resume = 1 \/ e.start = 1 THEN 1 ELSE 0
                      ELSE IF e.pause = 1 THEN 0 ELSE 1

-----------------------------------------------------------------------------
\* Power-up: every register without an initial value starts at 0; the pixel
\* (100, 180) is in no box.
LayerInit ==
  /\ game_state = "MENU" /\ qbert_state = "INIT"
  /\ LIFE_qb = 0 /\ jump_reg = 0 /\ done_move_reg = 0 /\ gameover_reg = 0
  /\ spot = Top /\ leg = 1
  /\ color_bit = "IDLE" /\ color_state_reg = {}
  /\ RGB_state = 0 /\ pause_play = 0

Others == Color /\ Screen /\ PausePlay

\* A clock edge on which the layer's machine moves, or on which its movement
\* counter only counts.
ClkMove == LayerMove /\ Others
ClkCount == LayerWait /\ Others

Clk == ClkMove \/ ClkCount

-----------------------------------------------------------------------------
\* Q*bert never gets further than one hop off the pyramid.
LayerTypeOK ==
  /\ game_state \in GameStates /\ qbert_state \in QbertStates
  /\ LIFE_qb \in 0..15 /\ jump_reg \in 0..4
  /\ done_move_reg \in Bit /\ gameover_reg \in Bit
  /\ spot \in Spots /\ leg \in 0..2
  /\ color_bit \in {"IDLE", "UPDATE"} /\ color_state_reg \in SUBSET Cubes
  /\ RGB_state \in 0..2 /\ pause_play \in Bit
=============================================================================
