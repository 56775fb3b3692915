------------------------------ MODULE JumpPath -------------------------------
(***************************************************************************)
(* Q*bert's movements pixel by pixel, as qbert_layer.sv draws them: the    *)
(* point (XC, YC) moves by one pixel each time the movement counter        *)
(* elapses, and monster_position looks which cube's box holds the point.   *)
(* It justifies the spots and legs of QbertLayer and the cube numbers of   *)
(* the Nios.  The x axis of the screen goes down the pyramid.              *)
(***************************************************************************)
EXTENDS Pyramid, FiniteSets

VARIABLES q,           \* qbert_state
          XC, YC,      \* the point
          x0, y0,      \* where the movement started: (x0, y0 + YDIAG_DEMI)
          jump_reg, tilt_acc_reg

pathVars == <<q, XC, YC, x0, y0, jump_reg, tilt_acc_reg>>

XLENGTH == 22
XDIAG_DEMI == 15
YDIAG_DEMI == 22
XOffset == 250     \* e_XY0_qb, the corner of the top cube
YOffset == 190

HopX == XDIAG_DEMI + XLENGTH
HopY == 2 * YDIAG_DEMI

-----------------------------------------------------------------------------
(* Qbert_Map_Color: the cubes on the screen *)

\* R1_xy_point to R7_xy_point_n.
PointN(r, c) == <<XOffset + HopX * (r - 1),
                  YOffset - YDIAG_DEMI * (r - 1) + HopY * (c - 1)>>

\* Bug: a box is as large as the top of the cube.
InWholeTop(r, c) ==
  LET p == PointN(r, c)
      y == p[2] + YDIAG_DEMI
  IN  /\ p[1] - XDIAG_DEMI <= XC /\ XC <= p[1] + XDIAG_DEMI
      /\ y - YDIAG_DEMI <= YC /\ YC <= y + YDIAG_DEMI

InBox(r, c) ==
  LET p == PointN(r, c)
      y == p[2] + YDIAG_DEMI
  IN  /\ p[1] - XDIAG_DEMI \div 2 <= XC /\ XC <= p[1] + XDIAG_DEMI \div 2
      /\ y - YDIAG_DEMI \div 2 <= YC /\ YC <= y + YDIAG_DEMI \div 2

\* The bits of position_qb that are set, as cube numbers.
Boxes == {n \in Cubes : LET r == RowSearch(n) IN InBox(r, n - rows[r] + 1)}

position_qb == IF Boxes = {} THEN 0 ELSE CHOOSE n \in Boxes : TRUE

\* `Rside and `Lside.
Rside == {rows[r] : r \in 1..Rows}
Lside == {rows[r] + r - 1 : r \in 1..Rows}

-----------------------------------------------------------------------------
AtStart == q' = "START" /\ XC' = XOffset - XLENGTH /\ YC' = YOffset + YDIAG_DEMI
           /\ x0' = XC' /\ y0' = YOffset

PathInit ==
  /\ q = "START"
  /\ XC = XOffset - XLENGTH /\ YC = YOffset + YDIAG_DEMI
  /\ x0 = XC /\ y0 = YOffset
  /\ jump_reg = 0 /\ tilt_acc_reg = 0

Slide ==
  /\ q = "START"
  /\ IF XC < XOffset THEN XC' = XC + 1 /\ x0' = XC' /\ UNCHANGED q
                     ELSE q' = "IDLE" /\ UNCHANGED <<XC, x0>>
  /\ UNCHANGED <<YC, y0, jump_reg, tilt_acc_reg>>

Leave(state) == q' = state /\ x0' = XC /\ y0' = YC - YDIAG_DEMI
                /\ UNCHANGED <<XC, YC>>

\* Bug: Q*bert can jump from where there is no cube.
TakeOffAnywhere(d) ==
  /\ q = "IDLE"
  /\ jump_reg' = d
  /\ Leave("JUMP")
  /\ UNCHANGED tilt_acc_reg

TakeOff(d) ==
  /\ q = "IDLE" /\ position_qb # 0
  /\ jump_reg' = d
  /\ Leave("JUMP")
  /\ UNCHANGED tilt_acc_reg

TiltOff(t) ==
  /\ q = "IDLE"
  /\ position_qb \in IF t = 1 THEN Rside ELSE Lside
  /\ tilt_acc_reg' = t
  /\ Leave("SAUCER")
  /\ UNCHANGED jump_reg

FallOff ==
  /\ q = "IDLE" /\ position_qb = 0
  /\ q' = "END"
  /\ UNCHANGED <<XC, YC, x0, y0, jump_reg, tilt_acc_reg>>

\* Bug: the two upward directions are exchanged.
leftExchanged == jump_reg \in {2, 3}

down == jump_reg \in {1, 2}
left == jump_reg \in {2, 4}

\* Bug: the jump goes on for a pixel when it is where it should be.
xTooFar == IF down THEN XC <= x0 + HopX ELSE XC >= x0 - HopX

\* The movement is not complete along an axis.
xFar == IF down THEN XC < x0 + HopX ELSE XC > x0 - HopX
yFar == IF left THEN YC < y0 + 2 * YDIAG_DEMI ELSE YC > y0

\* Directions 1 and 2 cross the screen sideways first, 3 and 4 up first.
sidewaysFirst == down

JumpPixel ==
  /\ q = "JUMP"
  /\ \/ yFar /\ (sidewaysFirst \/ ~xFar)
        /\ YC' = (IF left THEN YC + 1 ELSE YC - 1) /\ UNCHANGED <<q, XC>>
     \/ xFar /\ (~sidewaysFirst \/ ~yFar)
        /\ XC' = (IF down THEN XC + 1 ELSE XC - 1) /\ UNCHANGED <<q, YC>>
     \/ ~xFar /\ ~yFar /\ q' = "IDLE" /\ UNCHANGED <<XC, YC>>
  /\ UNCHANGED <<x0, y0, jump_reg, tilt_acc_reg>>

\* qb_on_sc is 0.
SaucerPixel ==
  LET far == IF tilt_acc_reg = 1 THEN YC > y0 - YDIAG_DEMI
                                 ELSE YC < y0 + 3 * YDIAG_DEMI
  IN  /\ q = "SAUCER"
      /\ IF far THEN YC' = (IF tilt_acc_reg = 1 THEN YC - 1 ELSE YC + 1) /\ UNCHANGED q
                ELSE q' = "END" /\ UNCHANGED YC
      /\ UNCHANGED <<XC, x0, y0, jump_reg, tilt_acc_reg>>

Reborn ==
  /\ q = "END"
  /\ AtStart
  /\ UNCHANGED <<jump_reg, tilt_acc_reg>>

PathNext ==
  \/ Slide \/ FallOff \/ JumpPixel \/ SaucerPixel \/ Reborn
  \/ \E d \in Dirs : TakeOff(d)
  \/ \E t \in 1..2 : TiltOff(t)

PathSpec == PathInit /\ [][PathNext]_pathVars

-----------------------------------------------------------------------------
\* The point stays on the 800 by 480 screen.
TypeOK ==
  /\ q \in {"START", "IDLE", "JUMP", "SAUCER", "END"}
  /\ XC \in 0..799 /\ x0 \in 0..799 /\ YC \in 0..479 /\ y0 \in 0..479
  /\ jump_reg \in 0..4 /\ tilt_acc_reg \in 0..2

Spot(x, y) == LET row == (x - XOffset) \div HopX + 1
              IN  <<row, (y - YOffset + YDIAG_DEMI * (row - 1)) \div HopY + 1>>

From == Spot(x0, y0)
Here == Spot(XC, YC - YDIAG_DEMI)

\* At rest the point is at the centre of a spot, however many jumps led
\* there, and the boxes and the edge masks of the hardware say of that spot
\* what CubeAt, RightEdge and LeftEdge of Pyramid say.
SpotsAgree ==
  q = "IDLE" =>
    /\ PointN(Here[1], Here[2]) = <<XC, YC - YDIAG_DEMI>>
    /\ position_qb = CubeAt(Here)
    /\ position_qb \in Rside <=> RightEdge(Here)
    /\ position_qb \in Lside <=> LeftEdge(Here)

\* No two boxes hold the point, on any pixel of any movement: position_qb
\* never has two bits set.
OneBox == Cardinality(Boxes) <= 1

\* A jump shows the cube left, then none, then the cube it ends on if there
\* is one: it never grazes the box of a third cube, nor comes back.  A tilt
\* shows the cube left, then none.  (The legs of QbertLayer.)
LegsInOrder ==
  [][/\ q = "JUMP" /\ position_qb' # position_qb =>
          \/ position_qb = CubeAt(From) /\ position_qb' = 0
          \/ position_qb = 0 /\ position_qb' = CubeAt(Hop(From, jump_reg))
     /\ q = "SAUCER" /\ position_qb' # position_qb => position_qb' = 0]_pathVars

\* A jump ends on the cube the Nios computed from the cube's number
\* (main.c, mvmt), and off the pyramid when the Nios computed 0.
LandsAsComputed ==
  [][q = "JUMP" /\ q' = "IDLE" =>
       position_qb = mvmt(jump_reg, CubeAt(From))]_pathVars
=============================================================================
