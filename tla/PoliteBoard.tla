----------------------------- MODULE PoliteBoard -----------------------------
(***************************************************************************)
(* The MTL board with the player it is made for: he types one command at a *)
(* time, waits until the game has reacted to it, asks for jumps that stay  *)
(* on the pyramid when Q*bert is at rest, and leaves the menu with         *)
(* "restart".  Nothing in the code makes him do so: the board has no way   *)
(* to refuse a command.  With this player the board keeps the promise of   *)
(* HopGame.                                                                *)
(***************************************************************************)
EXTENDS MtlBoard

\* Every command typed was taken and written to the game registers.
LinkIdle == todo = {} /\ \A r \in SpiReg : ~Fresh(r)

\* The loop of the Nios is faster than a jump: it does not hold a position
\* from before the jump.
PosCurrent == pc = "pos" \/ pos_qb \in {0, position_qb}

\* Q*bert stands still: no jump is being made or about to be made.
AtRest ==
  /\ qbert_state = "IDLE"
  /\ position_qb = e.next \/ e.jump = 0

\* The game has reacted to the registers as they are.
Reacted ==
  /\ game_state \in {"MENU", "PAUSE", "RESUME"}
  /\ game_state # "RESUME" => e.resume = 0 /\ e.start = 0
  /\ game_state = "PAUSE" => e.menu = 0
  /\ game_state = "RESUME" => /\ e.pause = 0
                              /\ qbert_state # "INIT"
                              /\ qbert_state = "IDLE" => AtRest

TypeStatus(c) ==
  /\ LinkIdle /\ Reacted
  /\ game_state = "MENU" => c = 3
  /\ ConsoleSPI("gs", c)

TypeJump(d) ==
  /\ LinkIdle /\ Reacted /\ PosCurrent
  /\ game_state = "RESUME" /\ AtRest
  /\ mvmt(d, position_qb) # 0
  /\ ConsoleSPI("jump", d)

PolitePlayer ==
  /\ \/ \E c \in GsCmds : TypeStatus(c)
     \/ \E d \in JumpCmds : TypeJump(d)
  /\ UNCHANGED fpgaVars

\* A jump takes a second, the three writes of a jump a microsecond: Q*bert
\* does not land in between.
JumpSlow ==
  qbert_state = "JUMP" /\ qbert_state' = "IDLE" => "jump" \notin todo

PoliteFpga == Fpga /\ JumpSlow

\* The movement counters of the game come to their end.
PoliteMove == ClkMove /\ UNCHANGED playVars /\ JumpSlow

PoliteNext == PolitePlayer \/ Nios \/ PoliteFpga

PoliteSpec == Init /\ [][PoliteNext]_vars

FairSpec == PoliteSpec /\ WF_vars(Nios) /\ WF_vars(PoliteMove)

-----------------------------------------------------------------------------
\* The cube Q*bert is on or has left last; Hop in direction 5 - d undoes Hop
\* in direction d.
at ==
  IF qbert_state \in {"INIT", "START"} THEN 1
  ELSE IF qbert_state = "JUMP" /\ leg > 0 THEN CubeAt(Hop(spot, 5 - jump_reg))
  ELSE CubeAt(spot)

\* The jump asked for is on the link, in the hands of the Nios, being made,
\* or in the game registers.
asked ==
  IF Fresh("jump") THEN Decoded("jump")
  ELSE IF "jump" \in todo THEN cmd.dir
  ELSE IF qbert_state = "JUMP" THEN jump_reg
  ELSE IF e.jump # 0 /\ e.next # at THEN e.jump ELSE 0

Game == INSTANCE HopGame

\* Every jump the player asks for is made exactly once and in the direction
\* he asked for, through the toggle bit, the polling, the cube numbers of the
\* Nios, the three registers and the pixels of the game; nothing else moves
\* Q*bert but a new game.
HopGameSpec == Game!HopSpec

\* A jump asked for is made, or the game is not running.
JumpLands == asked # 0 ~> asked = 0 \/ game_state # "RESUME"

\* The cube a jump asked for ends on is painted, or the game is not running:
\* e_color_qb arrives before cube_generator latches it, which it does once
\* per landing (cube_generator.sv:114-125).
CubePainted ==
  \A c \in Cubes : asked # 0 /\ mvmt(asked, at) = c
                   ~> c \in color_state_reg \/ game_state # "RESUME"

-----------------------------------------------------------------------------
\* The same player, except that he also asks for jumps off the pyramid.
CarelessJump(d) ==
  /\ LinkIdle /\ Reacted /\ PosCurrent
  /\ game_state = "RESUME" /\ AtRest
  /\ ConsoleSPI("jump", d)

CarelessNext ==
  \/ PoliteNext
  \/ \E d \in JumpCmds : CarelessJump(d) /\ UNCHANGED fpgaVars

CarelessSpec == Init /\ [][CarelessNext]_vars

\* What the comments of main.c say of the register e_next_qb ("next position
\* qbert", main.c:166 and 171): when Q*bert lands on a cube, it is that one.
LandsOnNext ==
  [][qbert_state = "JUMP" /\ qbert_state' = "IDLE" =>
       position_qb \in {0, e.next}]_vars
=============================================================================
