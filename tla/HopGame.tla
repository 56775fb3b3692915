------------------------------- MODULE HopGame -------------------------------
(***************************************************************************)
(* What the board promises a player who waits for Q*bert to come to rest   *)
(* before the next command: every jump asked for is made, once, in the     *)
(* direction asked for, and nothing else moves Q*bert but a new game.      *)
(***************************************************************************)
EXTENDS Pyramid

VARIABLES at,      \* the cube Q*bert is on
          asked    \* the jump asked for and not made yet, or 0

hopVars == <<at, asked>>

HopInit == at = 1 /\ asked = 0

Ask(dir) ==
  /\ asked = 0
  /\ mvmt(dir, at) # 0
  /\ asked' = dir
  /\ UNCHANGED at

Land ==
  /\ asked # 0
  /\ at' = mvmt(asked, at)
  /\ asked' = 0

NewGame == at' = 1 /\ asked' = 0

HopNext == Land \/ NewGame \/ \E dir \in Dirs : Ask(dir)

HopSpec == HopInit /\ [][HopNext]_hopVars
=============================================================================
