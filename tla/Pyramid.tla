------------------------------- MODULE Pyramid -------------------------------
(***************************************************************************)
(* The pyramid of cubes Q*bert hops on, seen by the two programs that      *)
(* compute with it:                                                        *)
(*   - the Nios II program (main.c, function mvmt) numbers the cubes 1, 2, *)
(*     ... row after row and computes the number of the cube a hop ends on;*)
(*   - the FPGA (Qbert_Map_Color.sv, qbert_layer.sv) knows only pixels: it *)
(*     moves a point by a fixed offset per direction and looks which cube's*)
(*     box the point is in.                                                *)
(* A pixel position that is a multiple of a hop away from the top cube is  *)
(* a spot <<row, column>>: X = 250 + 37 * (row - 1) and                    *)
(* Y = 212 - 22 * (row - 1) + 44 * (column - 1).                           *)
(***************************************************************************)
EXTENDS Integers

CONSTANT Rows    \* rows of the pyramid: r_size, N_rank (7 on the board)

ASSUME RowsAssumption == Rows \in Nat \ {0}

Dirs == 1..4     \* 1 DOWN_RIGHT, 2 DOWN_LEFT, 3 UP_RIGHT, 4 UP_LEFT

-----------------------------------------------------------------------------
(* The software's view: numbers *)

\* Cubes above row k.
Above(k) == (k * (k - 1)) \div 2

\* rows[k] is the number of the first cube of row k: {1, 2, 4, 7, 11, 16, 22}.
rows == [k \in 1..Rows |-> Above(k) + 1]

NCubes == Above(Rows + 1)
Cubes == 1..NCubes

\* The two "for" loops of mvmt: the last row that does not start after n, and
\* 0 when even row 1 does.
RowSearch(n) ==
  CHOOSE k \in 0..Rows : /\ k > 0 => n >= rows[k]
                         /\ \A j \in (k + 1)..Rows : n < rows[j]

\* Bug: the row of the end is not compared with the row of the start.
MvmtUnchecked(dir, init) ==
  LET left == IF dir % 2 = 0 THEN 1 ELSE 0
      k    == RowSearch(init)
  IN  IF dir > 2 THEN init - (k - left) ELSE init + k + left

\* Bug: a hop up and left counts a cube too many.
MvmtTooFar(dir, init) ==
  LET left == IF dir % 2 = 0 THEN 1 ELSE 0
      k    == RowSearch(init)
      end  == IF dir > 2 THEN init - (k + left) ELSE init + k + left
  IN  IF k - RowSearch(end) \in {1, -1} THEN end ELSE 0

\* The cube a hop in direction dir from cube init ends on, 0 when it leaves
\* the pyramid.
mvmt(dir, init) ==
  LET up   == dir > 2
      left == IF dir % 2 = 0 THEN 1 ELSE 0
      k    == RowSearch(init)
      end  == IF up THEN init - (k - left) ELSE init + k + left
      k2   == RowSearch(end)
  IN  IF k - k2 \in {1, -1} THEN end ELSE 0

-----------------------------------------------------------------------------
(* The hardware's view: spots *)

\* Spots a hop from a cube can reach: the pyramid and a border around it.
Spots == (0..Rows + 1) \X (0..Rows + 1)

Top == <<1, 1>>

OnPyramid(s) == 1 <= s[2] /\ s[2] <= s[1] /\ s[1] <= Rows

\* The cube whose box holds the spot, 0 when no box does.
CubeAt(s) == IF OnPyramid(s) THEN rows[s[1]] + s[2] - 1 ELSE 0

\* The displacement of a hop.
Hop(s, dir) ==
  << IF dir <= 2 THEN s[1] + 1 ELSE s[1] - 1,
     IF dir = 2 THEN s[2] + 1 ELSE IF dir = 3 THEN s[2] - 1 ELSE s[2] >>

\* The edges a tilt makes Q*bert leave by: `TOP, `R02 ... `R22 and `Lside.
RightEdge(s) == OnPyramid(s) /\ s[2] = 1
LeftEdge(s) == OnPyramid(s) /\ s[2] = s[1]
=============================================================================
