---------------------------- MODULE JumpPathProofs ----------------------------
(***************************************************************************)
(* Every pixel of every movement, on a pyramid of any height: where the    *)
(* point is while Q*bert slides, jumps, leaves on a tilt or rests, which   *)
(* box holds it there, and so that spots and legs (QbertLayer) and cube    *)
(* numbers (the Nios) say what the pixels do.                              *)
(***************************************************************************)
EXTENDS JumpPath, PyramidProofs, FiniteSetTheorems, WellFoundedInduction

-----------------------------------------------------------------------------
(* The invariant                                                           *)

\* Where the point is when Q*bert stands on a spot.
CentreX(r) == XOffset + HopX * (r - 1)
CentreY(r, c) == YOffset + YDIAG_DEMI - YDIAG_DEMI * (r - 1) + HopY * (c - 1)

Standing(r, c) == XC = CentreX(r) /\ YC = CentreY(r, c)

\* A movement started from there.
LeftFrom(r, c) == x0 = CentreX(r) /\ y0 = CentreY(r, c) - YDIAG_DEMI

\* A jump crosses the screen along one axis, then along the other.
OnWay(d, dx, dy) ==
  \/ d = 1 /\ dx = 0 /\ dy \in -YDIAG_DEMI..0
  \/ d = 1 /\ dx \in 0..HopX /\ dy = -YDIAG_DEMI
  \/ d = 2 /\ dx = 0 /\ dy \in 0..YDIAG_DEMI
  \/ d = 2 /\ dx \in 0..HopX /\ dy = YDIAG_DEMI
  \/ d = 3 /\ dx \in -HopX..0 /\ dy = 0
  \/ d = 3 /\ dx = -HopX /\ dy \in -YDIAG_DEMI..0
  \/ d = 4 /\ dx \in -HopX..0 /\ dy = 0
  \/ d = 4 /\ dx = -HopX /\ dy \in 0..YDIAG_DEMI

Sliding ==
  /\ YC = CentreY(1, 1) /\ y0 = YOffset
  /\ x0 = XC /\ XC \in (XOffset - XLENGTH)..XOffset

Resting == \E r, c \in 0..Rows + 1 : Standing(r, c)

Jumping ==
  /\ jump_reg \in Dirs
  /\ \E r \in 1..Rows : \E c \in 1..r :
       /\ LeftFrom(r, c)
       /\ OnWay(jump_reg, XC - CentreX(r), YC - CentreY(r, c))

\* A tilt leaves by an edge of the pyramid.
Leaving ==
  /\ tilt_acc_reg \in {1, 2}
  /\ \E r \in 1..Rows : \E c \in 1..r :
       /\ LeftFrom(r, c) /\ XC = CentreX(r)
       /\ tilt_acc_reg = 1 => c = 1 /\ YC \in (CentreY(r, c) - HopY)..CentreY(r, c)
       /\ tilt_acc_reg = 2 => c = r /\ YC \in CentreY(r, c)..(CentreY(r, c) + HopY)

PathInv ==
  /\ q \in {"START", "IDLE", "JUMP", "SAUCER", "END"}
  /\ XC \in Int /\ YC \in Int /\ x0 \in Int /\ y0 \in Int
  /\ jump_reg \in 0..4 /\ tilt_acc_reg \in 0..2
  /\ q = "START" => Sliding
  /\ q = "IDLE" => Resting
  /\ q = "JUMP" => Jumping
  /\ q = "SAUCER" => Leaving

-----------------------------------------------------------------------------
(* Cubes and boxes                                                         *)

\* The spot of a cube's number, as Boxes computes it.
SpotOf(n) == <<RowSearch(n), n - rows[RowSearch(n)] + 1>>

LEMMA OnPyramidIs ==
  ASSUME NEW r \in Int, NEW c \in Int
  PROVE  OnPyramid(<<r, c>>) <=> r \in 1..Rows /\ c \in 1..r
BY RowsAssumption DEF OnPyramid

LEMMA CubeOfSpot ==
  ASSUME NEW r \in 1..Rows, NEW c \in 1..r
  PROVE  /\ CubeAt(<<r, c>>) \in Cubes /\ SpotOf(CubeAt(<<r, c>>)) = <<r, c>>
         /\ CubeAt(<<r, c>>) = Above(r) + c
<1>1. r \in Int /\ c \in Int /\ 1 <= c /\ c <= r /\ r <= Rows /\ Above(r) \in Int
  BY RowsAssumption, AboveNext
<1>2. CubeAt(<<r, c>>) = Above(r) + c /\ Above(r) + c # 0
  <2>1. CubeAt(<<r, c>>) = Above(r) + c
    BY <1>1, CubeNumber
  <2>2. 0 <= Above(r)
    <3>1. 0 \in Nat /\ r \in Nat /\ 0 <= r
      BY <1>1
    <3>2. Above(0) = 0
      BY DEF Above
    <3> QED
      BY <3>1, <3>2, AboveMonotone
  <2> QED
    BY <1>1, <2>1, <2>2
<1>3. CubeAt(<<r, c>>) \in Cubes
  BY <1>1, <1>2, CubeAtType
<1> DEFINE n == CubeAt(<<r, c>>)
<1>4. SpotOf(n) = <<RowSearch(n), n - rows[RowSearch(n)] + 1>>
  BY DEF SpotOf
<1> HIDE DEF n
<1>5. n = Above(r) + c
  BY <1>2 DEF n
<1>6. RowSearch(n) = r
  BY <1>5, RowOf
<1>7. n - rows[r] + 1 = c
  BY <1>1, <1>5, RowsAre
<1>8. SpotOf(n) = <<r, c>>
  BY <1>4, <1>6, <1>7
<1> QED
  BY <1>2, <1>3, <1>8 DEF n

\* Every number is that of a cube: its row is the last that starts before it.
LEMMA SpotOfCube ==
  ASSUME NEW n \in Cubes
  PROVE  \E r \in 1..Rows : \E c \in 1..r : SpotOf(n) = <<r, c>> /\ n = Above(r) + c
<1>1. n \in Nat /\ n >= 1 /\ n <= Above(Rows + 1) /\ Rows \in Nat
  <2>1. Above(Rows + 1) \in Int
    BY RowsAssumption, AboveNext
  <2> QED
    BY <2>1, RowsAssumption DEF Cubes, NCubes
<1> DEFINE S == {k \in Nat : n <= Above(k + 1)}
<1>2. S \in SUBSET Nat /\ Rows \in S
  BY <1>1
<1>3. \E k \in S : \A j \in S : ~ (<<j, k>> \in OpToRel(<, Nat))
  BY <1>2, NatLessThanWellFounded, WFMin
<1>4. PICK k \in S : \A j \in S : k <= j
  <2>1. \A j, k \in S : ~ (<<j, k>> \in OpToRel(<, Nat)) => k <= j
    BY <1>2 DEF OpToRel
  <2> QED
    BY <1>3, <2>1
<1>5. k \in 0..Rows /\ n <= Above(k + 1) /\ Above(k) \in Int /\ Above(k + 1) = Above(k) + k
  BY <1>1, <1>2, <1>4, AboveNext
<1>6. k # 0
  <2>1. Above(0 + 1) = 0
    BY DEF Above
  <2> QED
    BY <1>1, <1>5, <2>1
<1>7. Above(k) < n
  <2>1. k - 1 \in Nat /\ (k - 1) + 1 = k /\ ~(k <= k - 1)
    BY <1>5, <1>6
  <2>2. k - 1 \notin S
    BY <1>4, <2>1
  <2>3. ~(n <= Above(k))
    BY <2>1, <2>2
  <2> QED
    BY <1>1, <1>5, <2>3
<1> DEFINE c == n - Above(k)
<1>8. k \in 1..Rows /\ c \in 1..k /\ n = Above(k) + c
  BY <1>1, <1>5, <1>6, <1>7
<1> HIDE DEF c
<1>9. CubeAt(<<k, c>>) = n /\ SpotOf(CubeAt(<<k, c>>)) = <<k, c>>
  BY <1>8, CubeOfSpot
<1> QED
  BY <1>8, <1>9

\* The masks of the edges.
LEMMA EdgeMasks ==
  ASSUME NEW r \in Int, NEW c \in Int
  PROVE  /\ CubeAt(<<r, c>>) \in Rside <=> RightEdge(<<r, c>>)
         /\ CubeAt(<<r, c>>) \in Lside <=> LeftEdge(<<r, c>>)
<1>1. ASSUME NEW k \in 1..Rows
      PROVE  /\ rows[k] = CubeAt(<<k, 1>>) /\ rows[k] + k - 1 = CubeAt(<<k, k>>)
             /\ rows[k] # 0 /\ rows[k] + k - 1 # 0
  <2>1. 1 \in 1..k /\ k \in 1..k /\ k \in Int /\ rows[k] = Above(k) + 1 /\ Above(k) \in Int
    BY RowsAre, AboveNext
  <2>2. CubeAt(<<k, 1>>) = Above(k) + 1 /\ CubeAt(<<k, k>>) = Above(k) + k
    BY <2>1, CubeOfSpot
  <2>3. CubeAt(<<k, 1>>) # 0 /\ CubeAt(<<k, k>>) # 0
    <3>1. CubeAt(<<k, 1>>) \in Cubes /\ CubeAt(<<k, k>>) \in Cubes
      BY <2>1, CubeOfSpot
    <3> QED
      BY <3>1 DEF Cubes
  <2> QED
    BY <2>1, <2>2, <2>3
<1>2. CASE OnPyramid(<<r, c>>)
  <2>1. r \in 1..Rows /\ c \in 1..r
    BY <1>2, OnPyramidIs
  <2>2. ASSUME NEW k \in 1..Rows, NEW d \in 1..k, CubeAt(<<k, d>>) = CubeAt(<<r, c>>)
        PROVE  k = r /\ d = c
    <3>1. SpotOf(CubeAt(<<k, d>>)) = <<k, d>> /\ SpotOf(CubeAt(<<r, c>>)) = <<r, c>>
      BY <2>1, CubeOfSpot
    <3> QED
      BY <2>2, <3>1
  <2>3. \A k \in 1..Rows : 1 \in 1..k /\ k \in 1..k
    OBVIOUS
  <2>4. RightEdge(<<r, c>>) <=> c = 1
    BY <1>2 DEF RightEdge
  <2>5. LeftEdge(<<r, c>>) <=> c = r
    BY <1>2 DEF LeftEdge
  <2>6. CubeAt(<<r, c>>) \in Rside <=> \E k \in 1..Rows : CubeAt(<<r, c>>) = CubeAt(<<k, 1>>)
    BY <1>1 DEF Rside
  <2>7. CubeAt(<<r, c>>) \in Lside <=> \E k \in 1..Rows : CubeAt(<<r, c>>) = CubeAt(<<k, k>>)
    BY <1>1 DEF Lside
  <2>8. CubeAt(<<r, c>>) \in Rside <=> c = 1
    BY <2>1, <2>2, <2>3, <2>6
  <2>9. CubeAt(<<r, c>>) \in Lside <=> c = r
    BY <2>1, <2>2, <2>3, <2>7
  <2> QED
    BY <2>4, <2>5, <2>8, <2>9
<1>3. CASE ~OnPyramid(<<r, c>>)
  <2>1. CubeAt(<<r, c>>) = 0
    BY <1>3 DEF CubeAt
  <2> QED
    BY <1>1, <1>3, <2>1 DEF Rside, Lside, RightEdge, LeftEdge
<1> QED
  BY <1>2, <1>3

-----------------------------------------------------------------------------
(* The boxes at a point                                                    *)

\* InBox, Boxes and position_qb for a point <<x, y>>.
InBoxAt(r, c, x, y) ==
  /\ CentreX(r) - XDIAG_DEMI \div 2 <= x /\ x <= CentreX(r) + XDIAG_DEMI \div 2
  /\ CentreY(r, c) - YDIAG_DEMI \div 2 <= y /\ y <= CentreY(r, c) + YDIAG_DEMI \div 2

BoxesAt(x, y) == {n \in Cubes : InBoxAt(SpotOf(n)[1], SpotOf(n)[2], x, y)}

Lit(boxes) == IF boxes = {} THEN 0 ELSE CHOOSE n \in boxes : TRUE
ShownAt(x, y) == Lit(BoxesAt(x, y))

\* The numbers of this screen.
LEMMA Centres ==
  /\ HopX = 37 /\ HopY = 44 /\ XDIAG_DEMI \div 2 = 7 /\ YDIAG_DEMI \div 2 = 11
  /\ \A r, c \in Int : /\ CentreX(r) = 213 + 37 * r /\ CentreX(r) \in Int
                       /\ CentreY(r, c) = 190 - 22 * r + 44 * c /\ CentreY(r, c) \in Int
<1>1. HopX = 37 /\ HopY = 44
  BY DEF HopX, HopY, XDIAG_DEMI, YDIAG_DEMI, XLENGTH
<1>2. XDIAG_DEMI \div 2 = 7 /\ YDIAG_DEMI \div 2 = 11
  BY DEF XDIAG_DEMI, YDIAG_DEMI
<1>3. ASSUME NEW r \in Int, NEW c \in Int
      PROVE  /\ CentreX(r) = 213 + 37 * r /\ CentreX(r) \in Int
             /\ CentreY(r, c) = 190 - 22 * r + 44 * c /\ CentreY(r, c) \in Int
  BY <1>1 DEF CentreX, CentreY, XOffset, YOffset, YDIAG_DEMI
<1> QED
  BY <1>1, <1>2, <1>3, Zenon

LEMMA InBoxIs ==
  ASSUME NEW r \in Int, NEW c \in Int, NEW x \in Int, NEW y \in Int
  PROVE  InBoxAt(r, c, x, y) <=>
           /\ 213 + 37 * r - 7 <= x /\ x <= 213 + 37 * r + 7
           /\ 190 - 22 * r + 44 * c - 11 <= y /\ y <= 190 - 22 * r + 44 * c + 11
<1>1. CentreX(r) = 213 + 37 * r /\ CentreY(r, c) = 190 - 22 * r + 44 * c
  BY Centres
<1>2. XDIAG_DEMI \div 2 = 7 /\ YDIAG_DEMI \div 2 = 11
  BY Centres
<1>3. InBoxAt(r, c, x, y) <=>
        /\ CentreX(r) - 7 <= x /\ x <= CentreX(r) + 7
        /\ CentreY(r, c) - 11 <= y /\ y <= CentreY(r, c) + 11
  BY <1>2, Zenon DEF InBoxAt
<1> QED
  BY <1>1, <1>3

\* The point of the model is one such point.
LEMMA Shown ==
  /\ XC \in Int /\ YC \in Int => Boxes = BoxesAt(XC, YC) /\ position_qb = ShownAt(XC, YC)
  /\ XC' \in Int /\ YC' \in Int => position_qb' = ShownAt(XC', YC')
<1>1. ASSUME NEW n \in Cubes
      PROVE  SpotOf(n)[1] \in Int /\ SpotOf(n)[2] \in Int
  BY SpotOfCube
<1>2. ASSUME NEW n \in Cubes
      PROVE  LET s == SpotOf(n)
             IN  /\ PointN(s[1], s[2])[1] = CentreX(s[1])
                 /\ PointN(s[1], s[2])[2] + YDIAG_DEMI = CentreY(s[1], s[2])
  <2>1. \A r, c \in Int : /\ PointN(r, c)[1] = CentreX(r)
                          /\ PointN(r, c)[2] + YDIAG_DEMI = CentreY(r, c)
    <3> SUFFICES ASSUME NEW r \in Int, NEW c \in Int
                 PROVE  /\ PointN(r, c)[1] = CentreX(r)
                        /\ PointN(r, c)[2] + YDIAG_DEMI = CentreY(r, c)
      OBVIOUS
    <3>1. PointN(r, c)[1] = CentreX(r)
      BY DEF PointN, CentreX
    <3>2. PointN(r, c)[2] = YOffset - YDIAG_DEMI * (r - 1) + HopY * (c - 1)
      BY DEF PointN
    <3>3. PointN(r, c)[2] + YDIAG_DEMI = CentreY(r, c)
      BY <3>2, Centres DEF CentreY, YOffset, YDIAG_DEMI
    <3> QED
      BY <3>1, <3>3
  <2> QED
    BY <1>1, <2>1
<1>3. XC \in Int /\ YC \in Int => Boxes = BoxesAt(XC, YC)
  BY <1>2 DEF Boxes, BoxesAt, InBox, InBoxAt, SpotOf
<1>4. XC' \in Int /\ YC' \in Int => Boxes' = BoxesAt(XC', YC')
  BY <1>2 DEF Boxes, BoxesAt, InBox, InBoxAt, SpotOf
<1>5. position_qb = Lit(Boxes) /\ position_qb' = Lit(Boxes')
  BY DEF position_qb, Lit
<1> QED
  BY <1>3, <1>4, <1>5 DEF ShownAt

\* No point is in the boxes of two spots.
LEMMA OneSpot ==
  ASSUME NEW r \in Int, NEW c \in Int, NEW k \in Int, NEW d \in Int,
         NEW x \in Int, NEW y \in Int, InBoxAt(r, c, x, y), InBoxAt(k, d, x, y)
  PROVE  k = r /\ d = c
BY InBoxIs

LEMMA BoxOfSpot ==
  ASSUME NEW n, NEW x \in Int, NEW y \in Int
  PROVE  n \in BoxesAt(x, y) <=>
           \E r \in 1..Rows : \E c \in 1..r : n = CubeAt(<<r, c>>) /\ InBoxAt(r, c, x, y)
<1>1. ASSUME n \in BoxesAt(x, y)
      PROVE  \E r \in 1..Rows : \E c \in 1..r : n = CubeAt(<<r, c>>) /\ InBoxAt(r, c, x, y)
  <2>1. n \in Cubes /\ InBoxAt(SpotOf(n)[1], SpotOf(n)[2], x, y)
    BY <1>1 DEF BoxesAt
  <2>2. PICK r \in 1..Rows : \E c \in 1..r : SpotOf(n) = <<r, c>> /\ n = Above(r) + c
    BY <2>1, SpotOfCube
  <2>3. PICK c \in 1..r : SpotOf(n) = <<r, c>> /\ n = Above(r) + c
    BY <2>2
  <2>4. n = CubeAt(<<r, c>>) /\ SpotOf(n)[1] = r /\ SpotOf(n)[2] = c
    BY <2>3, CubeOfSpot
  <2> QED
    BY <2>1, <2>4
<1>2. ASSUME NEW r \in 1..Rows, NEW c \in 1..r, n = CubeAt(<<r, c>>), InBoxAt(r, c, x, y)
      PROVE  n \in BoxesAt(x, y)
  <2>1. n \in Cubes /\ SpotOf(n) = <<r, c>>
    BY <1>2, CubeOfSpot
  <2>2. SpotOf(n)[1] = r /\ SpotOf(n)[2] = c
    BY <2>1
  <2> QED
    BY <1>2, <2>1, <2>2 DEF BoxesAt
<1> QED
  BY <1>1, <1>2

LEMMA AtMostOneBox ==
  ASSUME NEW x \in Int, NEW y \in Int, NEW m \in BoxesAt(x, y), NEW n \in BoxesAt(x, y)
  PROVE  m = n
<1>1. PICK r \in 1..Rows : \E c \in 1..r : m = CubeAt(<<r, c>>) /\ InBoxAt(r, c, x, y)
  BY BoxOfSpot
<1>2. PICK c \in 1..r : m = CubeAt(<<r, c>>) /\ InBoxAt(r, c, x, y)
  BY <1>1
<1>3. PICK k \in 1..Rows : \E d \in 1..k : n = CubeAt(<<k, d>>) /\ InBoxAt(k, d, x, y)
  BY BoxOfSpot
<1>4. PICK d \in 1..k : n = CubeAt(<<k, d>>) /\ InBoxAt(k, d, x, y)
  BY <1>3
<1>5. k = r /\ d = c
  BY <1>2, <1>4, OneSpot
<1> QED
  BY <1>2, <1>4, <1>5

\* In the box of a spot the cube of the spot is shown, and 0 if there is none.
LEMMA InBoxShown ==
  ASSUME NEW r \in Int, NEW c \in Int, NEW x \in Int, NEW y \in Int, InBoxAt(r, c, x, y)
  PROVE  ShownAt(x, y) = CubeAt(<<r, c>>)
<1>1. CASE OnPyramid(<<r, c>>)
  <2>1. CubeAt(<<r, c>>) \in BoxesAt(x, y)
    BY <1>1, OnPyramidIs, BoxOfSpot
  <2>2. \A n \in BoxesAt(x, y) : n = CubeAt(<<r, c>>)
    BY <2>1, AtMostOneBox
  <2> QED
    BY <2>1, <2>2 DEF ShownAt, Lit
<1>2. CASE ~OnPyramid(<<r, c>>)
  <2>1. ASSUME NEW n \in BoxesAt(x, y)
        PROVE  FALSE
    <3>1. PICK k \in 1..Rows : \E d \in 1..k : n = CubeAt(<<k, d>>) /\ InBoxAt(k, d, x, y)
      BY BoxOfSpot
    <3>2. PICK d \in 1..k : InBoxAt(k, d, x, y)
      BY <3>1
    <3>3. k = r /\ d = c
      BY <3>2, OneSpot
    <3> QED
      BY <1>2, <3>3, OnPyramidIs
  <2> QED
    BY <1>2, <2>1 DEF ShownAt, Lit, CubeAt
<1> QED
  BY <1>1, <1>2

LEMMA NoBoxShown ==
  ASSUME NEW x \in Int, NEW y \in Int, \A r, c \in Int : ~InBoxAt(r, c, x, y)
  PROVE  ShownAt(x, y) = 0
<1>1. ASSUME NEW n \in BoxesAt(x, y)
      PROVE  FALSE
  <2>1. PICK r \in 1..Rows : \E c \in 1..r : n = CubeAt(<<r, c>>) /\ InBoxAt(r, c, x, y)
    BY BoxOfSpot
  <2> QED
    BY <2>1
<1> QED
  BY <1>1 DEF ShownAt, Lit

-----------------------------------------------------------------------------
(* What is shown on the way of a movement                                  *)

\* The pixels made since the start, at the last of which the cube left is still
\* shown, and at the first of which the one reached is.
Pixels(d, dx, dy) == (IF d \in {1, 2} THEN dx ELSE -dx) + (IF d \in {2, 4} THEN dy ELSE -dy)
LeavesAt(d) == IF d \in {1, 2} THEN YDIAG_DEMI \div 2 ELSE XDIAG_DEMI \div 2
ReachesAt(d) ==
  HopX + YDIAG_DEMI - (IF d \in {1, 2} THEN XDIAG_DEMI \div 2 ELSE YDIAG_DEMI \div 2)

LEMMA WayNumbers ==
  ASSUME NEW d \in Dirs, NEW dx \in Int, NEW dy \in Int
  PROVE  /\ OnWay(d, dx, dy) <=>
              \/ d = 1 /\ dx = 0 /\ -22 <= dy /\ dy <= 0
              \/ d = 1 /\ 0 <= dx /\ dx <= 37 /\ dy = -22
              \/ d = 2 /\ dx = 0 /\ 0 <= dy /\ dy <= 22
              \/ d = 2 /\ 0 <= dx /\ dx <= 37 /\ dy = 22
              \/ d = 3 /\ -37 <= dx /\ dx <= 0 /\ dy = 0
              \/ d = 3 /\ dx = -37 /\ -22 <= dy /\ dy <= 0
              \/ d = 4 /\ -37 <= dx /\ dx <= 0 /\ dy = 0
              \/ d = 4 /\ dx = -37 /\ 0 <= dy /\ dy <= 22
         /\ LeavesAt(d) = IF d \in {1, 2} THEN 11 ELSE 7
         /\ ReachesAt(d) = IF d \in {1, 2} THEN 52 ELSE 48
<1>1. HopX = 37 /\ YDIAG_DEMI = 22 /\ XDIAG_DEMI \div 2 = 7 /\ YDIAG_DEMI \div 2 = 11
  BY Centres DEF YDIAG_DEMI
<1>2. LeavesAt(d) = IF d \in {1, 2} THEN 11 ELSE 7
  BY <1>1 DEF LeavesAt
<1>3. ReachesAt(d) = IF d \in {1, 2} THEN 52 ELSE 48
  BY <1>1 DEF ReachesAt
<1>4. /\ \A v \in Int : v \in -YDIAG_DEMI..0 <=> -22 <= v /\ v <= 0
      /\ \A v \in Int : v \in 0..YDIAG_DEMI <=> 0 <= v /\ v <= 22
      /\ \A v \in Int : v \in -HopX..0 <=> -37 <= v /\ v <= 0
      /\ \A v \in Int : v \in 0..HopX <=> 0 <= v /\ v <= 37
  BY <1>1
<1>5. -YDIAG_DEMI = -22 /\ -HopX = -37
  BY <1>1
<1> QED
  BY <1>1, <1>2, <1>3, <1>4, <1>5 DEF OnWay

\* Between the boxes none holds the point.
LEMMA BetweenShown ==
  ASSUME NEW r \in Int, NEW c \in Int, NEW x \in Int, NEW y \in Int,
         LET dx == x - (213 + 37 * r)
             dy == y - (190 - 22 * r + 44 * c)
         IN  /\ -37 <= dx /\ dx <= 37 /\ -32 <= dy /\ dy <= 32
             /\ \/ dx \in -7..7 /\ dy \notin -11..11
                \/ dx \notin -7..7 /\ dx \in -29..29
                \/ dx \notin -29..29 /\ dy \in -10..10
  PROVE  ShownAt(x, y) = 0
<1> DEFINE dx == x - (213 + 37 * r)
           dy == y - (190 - 22 * r + 44 * c)
<1> SUFFICES ASSUME NEW k \in Int, NEW e \in Int, InBoxAt(k, e, x, y)
             PROVE  FALSE
  BY NoBoxShown
<1>1. /\ 37 * (k - r) - 7 <= dx /\ dx <= 37 * (k - r) + 7
      /\ 44 * (e - c) - 22 * (k - r) - 11 <= dy /\ dy <= 44 * (e - c) - 22 * (k - r) + 11
  BY InBoxIs
<1>2. k - r \in {-1, 0, 1}
  BY <1>1
<1>3. CASE k - r = 0
  BY <1>1, <1>3
<1>4. CASE k - r = 1
  BY <1>1, <1>4
<1>5. CASE k - r = -1
  BY <1>1, <1>5
<1> QED
  BY <1>2, <1>3, <1>4, <1>5

LEMMA WayShows ==
  ASSUME NEW r \in 1..Rows, NEW c \in 1..r, NEW d \in Dirs, NEW x \in Int, NEW y \in Int,
         OnWay(d, x - CentreX(r), y - CentreY(r, c))
  PROVE  LET n == Pixels(d, x - CentreX(r), y - CentreY(r, c))
         IN  ShownAt(x, y) = IF n <= LeavesAt(d) THEN CubeAt(<<r, c>>)
                             ELSE IF n < ReachesAt(d) THEN 0
                             ELSE CubeAt(Hop(<<r, c>>, d))
<1> DEFINE dx == x - CentreX(r)
           dy == y - CentreY(r, c)
           n == Pixels(d, dx, dy)
<1>1. r \in Int /\ c \in Int /\ CentreX(r) = 213 + 37 * r /\ CentreY(r, c) = 190 - 22 * r + 44 * c
  BY Centres
<1>2. /\ dx \in Int /\ dy \in Int
      /\ x = 213 + 37 * r + dx /\ y = 190 - 22 * r + 44 * c + dy
  BY <1>1
<1>3. OnWay(d, dx, dy)
  OBVIOUS
<1> HIDE DEF dx, dy
<1>4. n \in Int /\ n = (IF d \in {1, 2} THEN dx ELSE -dx) + (IF d \in {2, 4} THEN dy ELSE -dy)
  BY <1>2 DEF Pixels
<1> HIDE DEF n
<1>5. CASE n <= LeavesAt(d)
  <2>1. dx \in -7..7 /\ dy \in -11..11
    BY <1>2, <1>3, <1>4, <1>5, WayNumbers
  <2>2. InBoxAt(r, c, x, y)
    BY <1>1, <1>2, <2>1, InBoxIs
  <2> QED
    BY <1>1, <1>5, <2>2, InBoxShown DEF n, dx, dy
<1>6. CASE n > LeavesAt(d) /\ n < ReachesAt(d)
  <2>1. dx \in -37..37 /\ dy \in -32..32
    BY <1>2, <1>3, WayNumbers
  <2>2. \/ dx \in -7..7 /\ dy \notin -11..11
        \/ dx \notin -7..7 /\ dx \in -29..29
        \/ dx \notin -29..29 /\ dy \in -10..10
    BY <1>2, <1>3, <1>4, <1>6, WayNumbers
  <2>3. x - (213 + 37 * r) = dx /\ y - (190 - 22 * r + 44 * c) = dy
    BY <1>1, <1>2
  <2>4. ShownAt(x, y) = 0
    BY <1>1, <2>1, <2>2, <2>3, BetweenShown
  <2>5. ~(n <= LeavesAt(d)) /\ n < ReachesAt(d)
    BY <1>4, <1>6, WayNumbers, <1>2
  <2> QED
    BY <2>4, <2>5 DEF n, dx, dy
<1>7. CASE n > LeavesAt(d) /\ n >= ReachesAt(d)
  <2> DEFINE k == IF d <= 2 THEN r + 1 ELSE r - 1
             e == IF d = 2 THEN c + 1 ELSE IF d = 3 THEN c - 1 ELSE c
             ex == IF d <= 2 THEN dx - 37 ELSE dx + 37
             ey == IF d \in {2, 4} THEN dy - 22 ELSE dy + 22
  <2>1. Hop(<<r, c>>, d) = <<k, e>>
    BY DEF Hop
  <2>2. ex \in -7..7 /\ ey \in -11..11
    BY <1>2, <1>3, <1>4, <1>7, WayNumbers DEF Dirs
  <2>3. k \in Int /\ e \in Int /\ x = 213 + 37 * k + ex /\ y = 190 - 22 * k + 44 * e + ey
    BY <1>1, <1>2 DEF Dirs
  <2> HIDE DEF k, e, ex, ey
  <2>4. InBoxAt(k, e, x, y)
    BY <2>2, <2>3, InBoxIs
  <2>5. ShownAt(x, y) = CubeAt(<<k, e>>)
    BY <2>3, <2>4, InBoxShown
  <2>6. ~(n <= LeavesAt(d)) /\ ~(n < ReachesAt(d))
    BY <1>4, <1>7, WayNumbers, <1>2
  <2> QED
    BY <2>1, <2>5, <2>6 DEF n, dx, dy
<1> QED
  <2>1. LeavesAt(d) \in Int /\ ReachesAt(d) \in Int
    BY <1>2, WayNumbers
  <2> QED
    BY <1>4, <1>5, <1>6, <1>7, <2>1

-----------------------------------------------------------------------------
(* The steps                                                               *)

\* What JumpPixel does to a point dx and dy away from where the jump started.
XMore(d, dx) == IF d \in {1, 2} THEN dx < 37 ELSE dx > -37
YMore(d, dy) == IF d \in {2, 4} THEN dy < 22 ELSE dy > -22

OnePixel(d, dx, dy, ex, ey) ==
  \/ /\ YMore(d, dy) /\ (d \in {1, 2} \/ ~XMore(d, dx))
     /\ ey = (IF d \in {2, 4} THEN dy + 1 ELSE dy - 1) /\ ex = dx
  \/ /\ XMore(d, dx) /\ (d \notin {1, 2} \/ ~YMore(d, dy))
     /\ ex = (IF d \in {1, 2} THEN dx + 1 ELSE dx - 1) /\ ey = dy

LEMMA NextPixel ==
  ASSUME NEW d \in Dirs, NEW dx \in Int, NEW dy \in Int, OnWay(d, dx, dy),
         NEW ex \in Int, NEW ey \in Int, OnePixel(d, dx, dy, ex, ey)
  PROVE  OnWay(d, ex, ey) /\ Pixels(d, ex, ey) = Pixels(d, dx, dy) + 1
<1>1. d \in {1, 2, 3, 4}
  BY DEF Dirs
<1>2. OnWay(d, ex, ey)
  <2>1. CASE d = 1
    <3>1. \/ dx = 0 /\ -22 <= dy /\ dy <= 0
          \/ 0 <= dx /\ dx <= 37 /\ dy = -22
      BY <2>1, WayNumbers
    <3>2. \/ dy > -22 /\ ey = dy - 1 /\ ex = dx
          \/ dx < 37 /\ ~(dy > -22) /\ ex = dx + 1 /\ ey = dy
      BY <2>1 DEF OnePixel, XMore, YMore
    <3>3. \/ ex = 0 /\ -22 <= ey /\ ey <= 0
          \/ 0 <= ex /\ ex <= 37 /\ ey = -22
      BY <3>1, <3>2
    <3> QED
      BY <2>1, <3>3, WayNumbers
  <2>2. CASE d = 2
    <3>1. \/ dx = 0 /\ 0 <= dy /\ dy <= 22
          \/ 0 <= dx /\ dx <= 37 /\ dy = 22
      BY <2>2, WayNumbers
    <3>2. \/ dy < 22 /\ ey = dy + 1 /\ ex = dx
          \/ dx < 37 /\ ~(dy < 22) /\ ex = dx + 1 /\ ey = dy
      BY <2>2 DEF OnePixel, XMore, YMore
    <3>3. \/ ex = 0 /\ 0 <= ey /\ ey <= 22
          \/ 0 <= ex /\ ex <= 37 /\ ey = 22
      BY <3>1, <3>2
    <3> QED
      BY <2>2, <3>3, WayNumbers
  <2>3. CASE d = 3
    <3>1. \/ -37 <= dx /\ dx <= 0 /\ dy = 0
          \/ dx = -37 /\ -22 <= dy /\ dy <= 0
      BY <2>3, WayNumbers
    <3>2. \/ dy > -22 /\ ~(dx > -37) /\ ey = dy - 1 /\ ex = dx
          \/ dx > -37 /\ ex = dx - 1 /\ ey = dy
      BY <2>3 DEF OnePixel, XMore, YMore
    <3>3. \/ -37 <= ex /\ ex <= 0 /\ ey = 0
          \/ ex = -37 /\ -22 <= ey /\ ey <= 0
      BY <3>1, <3>2
    <3> QED
      BY <2>3, <3>3, WayNumbers
  <2>4. CASE d = 4
    <3>1. \/ -37 <= dx /\ dx <= 0 /\ dy = 0
          \/ dx = -37 /\ 0 <= dy /\ dy <= 22
      BY <2>4, WayNumbers
    <3>2. \/ dy < 22 /\ ~(dx > -37) /\ ey = dy + 1 /\ ex = dx
          \/ dx > -37 /\ ex = dx - 1 /\ ey = dy
      BY <2>4 DEF OnePixel, XMore, YMore
    <3>3. \/ -37 <= ex /\ ex <= 0 /\ ey = 0
          \/ ex = -37 /\ 0 <= ey /\ ey <= 22
      BY <3>1, <3>2
    <3> QED
      BY <2>4, <3>3, WayNumbers
  <2> QED
    BY <1>1, <2>1, <2>2, <2>3, <2>4
<1>3. Pixels(d, ex, ey) = Pixels(d, dx, dy) + 1
  BY <1>1 DEF OnePixel, Pixels
<1> QED
  BY <1>2, <1>3

LEMMA LastPixel ==
  ASSUME NEW d \in Dirs, NEW dx \in Int, NEW dy \in Int, OnWay(d, dx, dy),
         ~XMore(d, dx), ~YMore(d, dy)
  PROVE  /\ dx = IF d \in {1, 2} THEN 37 ELSE -37
         /\ dy = IF d \in {2, 4} THEN 22 ELSE -22
<1>1. d \in {1, 2, 3, 4}
  BY DEF Dirs
<1> QED
  BY <1>1, WayNumbers DEF XMore, YMore

LEMMA HopCentre ==
  ASSUME NEW r \in Int, NEW c \in Int, NEW d \in Dirs
  PROVE  /\ Hop(<<r, c>>, d)[1] \in Int /\ Hop(<<r, c>>, d)[2] \in Int
         /\ Hop(<<r, c>>, d) = <<Hop(<<r, c>>, d)[1], Hop(<<r, c>>, d)[2]>>
         /\ CentreX(Hop(<<r, c>>, d)[1]) = CentreX(r) + (IF d \in {1, 2} THEN 37 ELSE -37)
         /\ CentreY(Hop(<<r, c>>, d)[1], Hop(<<r, c>>, d)[2]) =
              CentreY(r, c) + (IF d \in {2, 4} THEN 22 ELSE -22)
<1> DEFINE k == IF d <= 2 THEN r + 1 ELSE r - 1
           e == IF d = 2 THEN c + 1 ELSE IF d = 3 THEN c - 1 ELSE c
<1>1. Hop(<<r, c>>, d) = <<k, e>>
  BY DEF Hop
<1>2. k \in Int /\ e \in Int
  BY DEF Dirs
<1>3. 213 + 37 * k = 213 + 37 * r + (IF d \in {1, 2} THEN 37 ELSE -37)
  BY DEF Dirs
<1>4. 190 - 22 * k + 44 * e = 190 - 22 * r + 44 * c + (IF d \in {2, 4} THEN 22 ELSE -22)
  BY DEF Dirs
<1> HIDE DEF k, e
<1>5. /\ CentreX(k) = 213 + 37 * k /\ CentreX(r) = 213 + 37 * r
      /\ CentreY(k, e) = 190 - 22 * k + 44 * e /\ CentreY(r, c) = 190 - 22 * r + 44 * c
  <2>1. CentreX(k) = 213 + 37 * k /\ CentreY(k, e) = 190 - 22 * k + 44 * e
    BY <1>2, Centres
  <2>2. CentreX(r) = 213 + 37 * r /\ CentreY(r, c) = 190 - 22 * r + 44 * c
    BY Centres
  <2> QED
    BY <2>1, <2>2
<1>6. Hop(<<r, c>>, d)[1] = k /\ Hop(<<r, c>>, d)[2] = e
  BY <1>1
<1> QED
  BY <1>1, <1>2, <1>3, <1>4, <1>5, <1>6

\* A pixel further on the way, or the end of it.
LEMMA JumpStep ==
  ASSUME PathInv, JumpPixel, jump_reg \in Dirs,
         NEW r \in 1..Rows, NEW c \in 1..r, LeftFrom(r, c),
         OnWay(jump_reg, XC - CentreX(r), YC - CentreY(r, c))
  PROVE  LET n == Pixels(jump_reg, XC - CentreX(r), YC - CentreY(r, c))
             h == Hop(<<r, c>>, jump_reg)
         IN  \/ /\ q' = "JUMP"
                /\ \E x, y \in Int :
                     /\ XC' = x /\ YC' = y
                     /\ OnWay(jump_reg, x - CentreX(r), y - CentreY(r, c))
                     /\ Pixels(jump_reg, x - CentreX(r), y - CentreY(r, c)) = n + 1
             \/ /\ q' = "IDLE" /\ XC' = XC /\ YC' = YC
                /\ XC = CentreX(h[1]) /\ YC = CentreY(h[1], h[2])
<1> DEFINE cx == CentreX(r)
           cy == CentreY(r, c)
           dx == XC - cx
           dy == YC - cy
<1>1. cx \in Int /\ cy \in Int /\ x0 = cx /\ y0 = cy - 22 /\ XC \in Int /\ YC \in Int
  BY Centres DEF LeftFrom, YDIAG_DEMI, PathInv
<1> HIDE DEF cx, cy
<1>2. dx \in Int /\ dy \in Int
  BY <1>1
<1>3. (down <=> jump_reg \in {1, 2}) /\ (left <=> jump_reg \in {2, 4})
  BY DEF down, left
<1>4. (xFar <=> XMore(jump_reg, dx)) /\ (yFar <=> YMore(jump_reg, dy))
  <2>1. HopX = 37 /\ YDIAG_DEMI = 22
    BY Centres DEF YDIAG_DEMI
  <2>2. xFar <=> IF down THEN XC < cx + 37 ELSE XC > cx - 37
    BY <1>1, <2>1 DEF xFar
  <2>3. yFar <=> IF left THEN YC < cy - 22 + 2 * 22 ELSE YC > cy - 22
    BY <1>1, <2>1 DEF yFar
  <2>4. xFar <=> XMore(jump_reg, dx)
    BY <1>1, <1>3, <2>2 DEF XMore
  <2>5. yFar <=> YMore(jump_reg, dy)
    BY <1>1, <1>3, <2>3 DEF YMore
  <2> QED
    BY <2>4, <2>5
<1>5. CASE yFar /\ (sidewaysFirst \/ ~xFar) /\ YC' = (IF left THEN YC + 1 ELSE YC - 1)
           /\ UNCHANGED <<q, XC>>
  <2> DEFINE y == IF left THEN YC + 1 ELSE YC - 1
             ey == IF jump_reg \in {2, 4} THEN dy + 1 ELSE dy - 1
  <2>1. y \in Int /\ y - cy = ey /\ ey \in Int
    BY <1>1, <1>3
  <2>2. OnWay(jump_reg, dx, ey) /\ Pixels(jump_reg, dx, ey) = Pixels(jump_reg, dx, dy) + 1
    BY <1>2, <1>3, <1>4, <1>5, <2>1, NextPixel DEF OnePixel, sidewaysFirst, cx, cy
  <2>3. q' = "JUMP" /\ XC' = XC /\ YC' = y
    BY <1>5 DEF JumpPixel
  <2> HIDE DEF y, ey
  <2> QED
    BY <1>1, <2>1, <2>2, <2>3 DEF cx, cy
<1>6. CASE xFar /\ (~sidewaysFirst \/ ~yFar) /\ XC' = (IF down THEN XC + 1 ELSE XC - 1)
           /\ UNCHANGED <<q, YC>>
  <2> DEFINE x == IF down THEN XC + 1 ELSE XC - 1
             ex == IF jump_reg \in {1, 2} THEN dx + 1 ELSE dx - 1
  <2>1. x \in Int /\ x - cx = ex /\ ex \in Int
    BY <1>1, <1>3
  <2>2. OnWay(jump_reg, ex, dy) /\ Pixels(jump_reg, ex, dy) = Pixels(jump_reg, dx, dy) + 1
    BY <1>2, <1>3, <1>4, <1>6, <2>1, NextPixel DEF OnePixel, sidewaysFirst, cx, cy
  <2>3. q' = "JUMP" /\ XC' = x /\ YC' = YC
    BY <1>6 DEF JumpPixel
  <2> HIDE DEF x, ex
  <2> QED
    BY <1>1, <2>1, <2>2, <2>3 DEF cx, cy
<1>7. CASE ~xFar /\ ~yFar /\ q' = "IDLE" /\ UNCHANGED <<XC, YC>>
  <2>1. /\ dx = IF jump_reg \in {1, 2} THEN 37 ELSE -37
        /\ dy = IF jump_reg \in {2, 4} THEN 22 ELSE -22
    BY <1>2, <1>4, <1>7, LastPixel DEF cx, cy
  <2>2. /\ XC = cx + (IF jump_reg \in {1, 2} THEN 37 ELSE -37)
        /\ YC = cy + (IF jump_reg \in {2, 4} THEN 22 ELSE -22)
    BY <1>1, <2>1
  <2>3. r \in Int /\ c \in Int
    OBVIOUS
  <2> QED
    BY <1>7, <2>2, <2>3, HopCentre DEF cx, cy
<1> QED
  BY <1>5, <1>6, <1>7 DEF JumpPixel

\* Standing on a spot, the point is in the middle of its box.
LEMMA StandingShown ==
  ASSUME NEW r \in Int, NEW c \in Int, Standing(r, c)
  PROVE  XC \in Int /\ YC \in Int /\ position_qb = CubeAt(<<r, c>>)
<1>1. XC = 213 + 37 * r /\ YC = 190 - 22 * r + 44 * c /\ XC \in Int /\ YC \in Int
  BY Centres DEF Standing
<1>2. InBoxAt(r, c, XC, YC)
  BY <1>1, InBoxIs
<1> QED
  BY <1>1, <1>2, InBoxShown, Shown

LEMMA RestingShown ==
  ASSUME Resting
  PROVE  \E r, c \in 0..Rows + 1 : Standing(r, c) /\ position_qb = CubeAt(<<r, c>>)
<1>1. PICK r \in 0..Rows + 1, c \in 0..Rows + 1 : Standing(r, c)
  BY DEF Resting
<1>2. r \in Int /\ c \in Int
  BY RowsAssumption
<1> QED
  BY <1>1, <1>2, StandingShown

LEMMA PathInit_PathInv == PathInit => PathInv
<1> SUFFICES ASSUME PathInit PROVE PathInv
  OBVIOUS
<1>1. CentreY(1, 1) = 212
  BY Centres
<1>2. Sliding
  BY <1>1 DEF PathInit, Sliding, XOffset, YOffset, XLENGTH, YDIAG_DEMI
<1> QED
  BY <1>2 DEF PathInit, PathInv, XOffset, YOffset, XLENGTH, YDIAG_DEMI

LEMMA TakeOffInv ==
  ASSUME PathInv, NEW d \in Dirs, TakeOff(d)
  PROVE  PathInv'
<1>1. PICK r \in 0..Rows + 1, c \in 0..Rows + 1 :
           Standing(r, c) /\ position_qb = CubeAt(<<r, c>>)
  BY RestingShown DEF TakeOff, PathInv
<1>2. OnPyramid(<<r, c>>)
  BY <1>1 DEF TakeOff, CubeAt
<1>3. r \in 1..Rows /\ c \in 1..r
  BY <1>2, OnPyramidIs, RowsAssumption
<1>4. /\ q' = "JUMP" /\ jump_reg' = d /\ x0' = XC /\ y0' = YC - 22 /\ XC' = XC /\ YC' = YC
      /\ tilt_acc_reg' = tilt_acc_reg
  BY DEF TakeOff, Leave, YDIAG_DEMI
<1>5. CentreX(r) \in Int /\ CentreY(r, c) \in Int /\ XC = CentreX(r) /\ YC = CentreY(r, c)
  BY <1>1, <1>3, Centres DEF Standing
<1>6. OnWay(d, 0, 0)
  BY WayNumbers DEF Dirs
<1>7. OnWay(d, XC - CentreX(r), YC - CentreY(r, c))
  <2>1. XC - CentreX(r) = 0 /\ YC - CentreY(r, c) = 0
    BY <1>5
  <2> QED
    BY <1>6, <2>1
<1>8. Jumping'
  BY <1>3, <1>4, <1>5, <1>7 DEF Jumping, LeftFrom, YDIAG_DEMI
<1>9. y0' \in Int
  BY <1>4, <1>5
<1> QED
  BY <1>4, <1>5, <1>8, <1>9 DEF PathInv, Dirs

LEMMA TiltOffInv ==
  ASSUME PathInv, NEW t \in 1..2, TiltOff(t)
  PROVE  PathInv'
<1>1. PICK r \in 0..Rows + 1, c \in 0..Rows + 1 :
           Standing(r, c) /\ position_qb = CubeAt(<<r, c>>)
  BY RestingShown DEF TiltOff, PathInv
<1>2. IF t = 1 THEN RightEdge(<<r, c>>) ELSE LeftEdge(<<r, c>>)
  BY <1>1, EdgeMasks, RowsAssumption DEF TiltOff
<1>3. r \in 1..Rows /\ c \in 1..r /\ (t = 1 => c = 1) /\ (t = 2 => c = r)
  BY <1>2, OnPyramidIs, RowsAssumption DEF RightEdge, LeftEdge
<1>4. /\ q' = "SAUCER" /\ tilt_acc_reg' = t /\ x0' = XC /\ y0' = YC - 22 /\ XC' = XC
      /\ YC' = YC /\ jump_reg' = jump_reg
  BY DEF TiltOff, Leave, YDIAG_DEMI
<1>5. CentreX(r) \in Int /\ CentreY(r, c) \in Int /\ XC = CentreX(r) /\ YC = CentreY(r, c)
  BY <1>1, <1>3, Centres DEF Standing
<1>6. /\ YC \in (CentreY(r, c) - HopY)..CentreY(r, c)
      /\ YC \in CentreY(r, c)..(CentreY(r, c) + HopY)
  <2>1. HopY = 44
    BY Centres
  <2> QED
    BY <1>5, <2>1
<1>7. Leaving'
  <2>1. LeftFrom(r, c)' /\ XC' = CentreX(r)
    BY <1>4, <1>5 DEF LeftFrom, YDIAG_DEMI
  <2>2. t = 1 => c = 1 /\ YC' \in (CentreY(r, c) - HopY)..CentreY(r, c)
    BY <1>3, <1>4, <1>6
  <2>3. t = 2 => c = r /\ YC' \in CentreY(r, c)..(CentreY(r, c) + HopY)
    BY <1>3, <1>4, <1>6
  <2>4. tilt_acc_reg' = t /\ t \in {1, 2}
    BY <1>4
  <2> QED
    BY <1>3, <2>1, <2>2, <2>3, <2>4 DEF Leaving
<1>8. y0' \in Int
  BY <1>4, <1>5
<1> QED
  BY <1>4, <1>5, <1>7, <1>8 DEF PathInv

LEMMA SlideInv ==
  ASSUME PathInv, Slide
  PROVE  PathInv'
<1>1. Sliding /\ XC \in Int /\ CentreY(1, 1) = 212 /\ CentreX(1) = 250
  <2>1. CentreY(1, 1) = 212
    BY Centres
  <2>2. CentreX(1) = 250
    BY DEF CentreX, XOffset, HopX, XDIAG_DEMI, XLENGTH
  <2> QED
    BY <2>1, <2>2 DEF PathInv, Slide
<1>2. CASE XC < XOffset
  <2>1. /\ XC' = XC + 1 /\ x0' = XC + 1 /\ q' = "START" /\ YC' = YC /\ y0' = y0
        /\ jump_reg' = jump_reg /\ tilt_acc_reg' = tilt_acc_reg
    BY <1>2 DEF Slide
  <2>2. XC + 1 \in (XOffset - XLENGTH)..XOffset /\ XC + 1 \in Int
    BY <1>1, <1>2 DEF Sliding, XOffset, XLENGTH
  <2>3. Sliding'
    BY <1>1, <2>1, <2>2 DEF Sliding
  <2> QED
    BY <2>1, <2>2, <2>3 DEF PathInv
<1>3. CASE ~(XC < XOffset)
  <2>1. /\ XC' = XC /\ x0' = x0 /\ q' = "IDLE" /\ YC' = YC /\ y0' = y0
        /\ jump_reg' = jump_reg /\ tilt_acc_reg' = tilt_acc_reg
    BY <1>3 DEF Slide
  <2>2. XC = CentreX(1) /\ YC = CentreY(1, 1)
    BY <1>1, <1>3 DEF Sliding, XOffset, XLENGTH
  <2>3. Standing(1, 1)' /\ 1 \in 0..Rows + 1
    BY <2>1, <2>2, RowsAssumption DEF Standing
  <2>4. Resting'
    BY <2>3 DEF Resting
  <2> QED
    BY <2>1, <2>4 DEF PathInv
<1> QED
  BY <1>2, <1>3

LEMMA JumpPixelInv ==
  ASSUME PathInv, JumpPixel
  PROVE  PathInv'
<1>1. Jumping /\ q = "JUMP"
  BY DEF PathInv, JumpPixel
<1>2. PICK r \in 1..Rows : \E c \in 1..r :
         LeftFrom(r, c) /\ OnWay(jump_reg, XC - CentreX(r), YC - CentreY(r, c))
  BY <1>1 DEF Jumping
<1>3. PICK c \in 1..r :
         LeftFrom(r, c) /\ OnWay(jump_reg, XC - CentreX(r), YC - CentreY(r, c))
  BY <1>2
<1>4. jump_reg \in Dirs
  BY <1>1 DEF Jumping
<1>5. x0' = x0 /\ y0' = y0 /\ jump_reg' = jump_reg /\ tilt_acc_reg' = tilt_acc_reg
  BY DEF JumpPixel
<1>6. CASE q' = "JUMP"
  <2>1. PICK x \in Int, y \in Int :
           XC' = x /\ YC' = y /\ OnWay(jump_reg, x - CentreX(r), y - CentreY(r, c))
    BY <1>3, <1>4, <1>6, JumpStep
  <2>2. LeftFrom(r, c)'
    BY <1>3, <1>5 DEF LeftFrom
  <2>3. Jumping'
    BY <1>4, <1>5, <2>1, <2>2 DEF Jumping
  <2> QED
    BY <1>5, <1>6, <2>1, <2>3 DEF PathInv
<1>7. CASE q' = "IDLE"
  <2> DEFINE h == Hop(<<r, c>>, jump_reg)
  <2>1. XC' = XC /\ YC' = YC /\ XC = CentreX(h[1]) /\ YC = CentreY(h[1], h[2])
    BY <1>3, <1>4, <1>7, JumpStep
  <2>2. h[1] \in 0..Rows + 1 /\ h[2] \in 0..Rows + 1
    BY <1>4, RowsAssumption DEF Hop, Dirs
  <2>3. PICK k \in 0..Rows + 1, e \in 0..Rows + 1 : XC = CentreX(k) /\ YC = CentreY(k, e)
    BY <2>1, <2>2
  <2>4. Resting'
    BY <2>1, <2>3 DEF Resting, Standing
  <2> QED
    BY <1>5, <1>7, <2>1, <2>4 DEF PathInv
<1> QED
  BY <1>1, <1>6, <1>7 DEF JumpPixel

LEMMA SaucerPixelInv ==
  ASSUME PathInv, SaucerPixel
  PROVE  PathInv'
<1>1. Leaving /\ q = "SAUCER" /\ YC \in Int
  BY DEF PathInv, SaucerPixel
<1>2. PICK r \in 1..Rows : \E c \in 1..r :
       /\ LeftFrom(r, c) /\ XC = CentreX(r)
       /\ tilt_acc_reg = 1 => c = 1 /\ YC \in (CentreY(r, c) - HopY)..CentreY(r, c)
       /\ tilt_acc_reg = 2 => c = r /\ YC \in CentreY(r, c)..(CentreY(r, c) + HopY)
  BY <1>1 DEF Leaving
<1>3. PICK c \in 1..r :
       /\ LeftFrom(r, c) /\ XC = CentreX(r)
       /\ tilt_acc_reg = 1 => c = 1 /\ YC \in (CentreY(r, c) - HopY)..CentreY(r, c)
       /\ tilt_acc_reg = 2 => c = r /\ YC \in CentreY(r, c)..(CentreY(r, c) + HopY)
  BY <1>2
<1>4. /\ x0' = x0 /\ y0' = y0 /\ XC' = XC /\ jump_reg' = jump_reg
      /\ tilt_acc_reg' = tilt_acc_reg
  BY DEF SaucerPixel
<1>5. CentreY(r, c) \in Int /\ y0 = CentreY(r, c) - 22 /\ YDIAG_DEMI = 22
  BY <1>3, Centres DEF LeftFrom, YDIAG_DEMI
<1>6. HopY = 44 /\ tilt_acc_reg \in {1, 2}
  BY <1>1, Centres DEF Leaving
<1>7. CASE q' = "SAUCER"
  <2> DEFINE y == IF tilt_acc_reg = 1 THEN YC - 1 ELSE YC + 1
  <2>1. YC' = y /\ IF tilt_acc_reg = 1 THEN YC > CentreY(r, c) - 44
                                       ELSE YC < CentreY(r, c) + 44
    BY <1>5, <1>7 DEF SaucerPixel
  <2>2. y \in Int
    BY <1>1
  <2>3. tilt_acc_reg = 1 => y \in (CentreY(r, c) - HopY)..CentreY(r, c)
    <3> HAVE tilt_acc_reg = 1
    <3>1. YC \in (CentreY(r, c) - 44)..CentreY(r, c) /\ y = YC - 1 /\ YC > CentreY(r, c) - 44
      BY <1>3, <1>6, <2>1
    <3>2. YC - 1 \in (CentreY(r, c) - 44)..CentreY(r, c)
      BY <1>1, <1>5, <3>1
    <3> QED
      BY <1>6, <3>1, <3>2
  <2>4. tilt_acc_reg = 2 => y \in CentreY(r, c)..(CentreY(r, c) + HopY)
    <3> HAVE tilt_acc_reg = 2
    <3>1. YC \in CentreY(r, c)..(CentreY(r, c) + 44) /\ y = YC + 1 /\ YC < CentreY(r, c) + 44
      BY <1>3, <1>6, <2>1
    <3>2. YC + 1 \in CentreY(r, c)..(CentreY(r, c) + 44)
      BY <1>1, <1>5, <3>1
    <3> QED
      BY <1>6, <3>1, <3>2
  <2> HIDE DEF y
  <2>5. LeftFrom(r, c)'
    BY <1>3, <1>4 DEF LeftFrom
  <2>6. Leaving'
    BY <1>3, <1>4, <1>6, <2>1, <2>3, <2>4, <2>5 DEF Leaving
  <2> QED
    BY <1>4, <1>7, <2>1, <2>2, <2>6 DEF PathInv
<1>8. CASE q' = "END"
  <2>1. YC' = YC
    BY <1>8 DEF SaucerPixel
  <2> QED
    BY <1>4, <1>8, <2>1 DEF PathInv
<1> QED
  BY <1>1, <1>7, <1>8 DEF SaucerPixel

LEMMA PathInvStep ==
  ASSUME PathInv, [PathNext]_pathVars
  PROVE  PathInv'
<1>1. CASE FallOff
  BY <1>1 DEF FallOff, PathInv
<1>2. CASE Reborn
  <2>1. CentreY(1, 1) = 212
    BY Centres
  <2>2. /\ q' = "START" /\ XC' = 228 /\ YC' = 212 /\ x0' = 228 /\ y0' = 190
        /\ jump_reg' = jump_reg /\ tilt_acc_reg' = tilt_acc_reg
    BY <1>2 DEF Reborn, AtStart, XOffset, YOffset, XLENGTH, YDIAG_DEMI
  <2>3. Sliding'
    BY <2>1, <2>2 DEF Sliding, XOffset, YOffset, XLENGTH
  <2> QED
    BY <2>2, <2>3 DEF PathInv
<1>3. CASE UNCHANGED pathVars
  BY <1>3 DEF pathVars, PathInv, Sliding, Resting, Jumping, Leaving, Standing, LeftFrom
<1> QED
  BY <1>1, <1>2, <1>3, SlideInv, JumpPixelInv, SaucerPixelInv, TakeOffInv, TiltOffInv
     DEF PathNext

LEMMA PathInvariant == PathSpec => []PathInv
BY PathInit_PathInv, PathInvStep, PTL DEF PathSpec

-----------------------------------------------------------------------------
(* What follows                                                            *)

\* The point and where a movement started tell their spot.
LEMMA SpotIs ==
  ASSUME NEW r \in Int, NEW c \in Int
  PROVE  Spot(CentreX(r), CentreY(r, c) - YDIAG_DEMI) = <<r, c>>
<1> DEFINE x == CentreX(r)
           y == CentreY(r, c) - YDIAG_DEMI
<1>1. HopX = 37 /\ HopY = 44
  BY Centres
<1>2. x - XOffset = 37 * (r - 1)
  BY <1>1 DEF CentreX, XOffset
<1>3. (37 * (r - 1)) \div 37 + 1 = r
  OBVIOUS
<1>4. (x - XOffset) \div HopX + 1 = r
  BY <1>1, <1>2, <1>3
<1>5. y - YOffset + YDIAG_DEMI * (r - 1) = 44 * (c - 1)
  BY <1>1 DEF CentreY, YOffset, YDIAG_DEMI
<1>6. (44 * (c - 1)) \div 44 + 1 = c
  OBVIOUS
<1>7. (y - YOffset + YDIAG_DEMI * (r - 1)) \div HopY + 1 = c
  BY <1>1, <1>5, <1>6
<1> HIDE DEF x, y
<1>8. Spot(x, y) = <<r, c>>
  BY <1>4, <1>7 DEF Spot
<1> QED
  BY <1>8 DEF x, y

\* On a pyramid of any height: wherever Q*bert rests, however many jumps led
\* there, the point is at the centre of a spot, and the boxes and the edge masks
\* of the hardware say of that spot what the numbers say.
THEOREM RestsOnSpots == PathSpec => []SpotsAgree
<1>1. PathInv => SpotsAgree
  <2> SUFFICES ASSUME PathInv, q = "IDLE"
               PROVE  /\ PointN(Here[1], Here[2]) = <<XC, YC - YDIAG_DEMI>>
                      /\ position_qb = CubeAt(Here)
                      /\ position_qb \in Rside <=> RightEdge(Here)
                      /\ position_qb \in Lside <=> LeftEdge(Here)
    BY DEF SpotsAgree
  <2>1. PICK r \in 0..Rows + 1, c \in 0..Rows + 1 :
             Standing(r, c) /\ position_qb = CubeAt(<<r, c>>)
    BY RestingShown DEF PathInv
  <2>2. r \in Int /\ c \in Int
    BY RowsAssumption
  <2>3. Here = <<r, c>>
    BY <2>1, <2>2, SpotIs DEF Here, Standing
  <2>4. PointN(r, c) = <<XC, YC - YDIAG_DEMI>>
    <3>1. HopX = 37 /\ HopY = 44
      BY Centres
    <3> QED
      BY <2>1, <2>2, <3>1 DEF PointN, Standing, CentreX, CentreY, YDIAG_DEMI, XOffset, YOffset
  <2> QED
    BY <2>1, <2>2, <2>3, <2>4, EdgeMasks
<1> QED
  BY <1>1, PathInvariant, PTL

\* On a pyramid of any height: on no pixel of any movement is the point in the
\* boxes of two cubes; position_qb never has two bits set.
THEOREM OneBoxAlways == PathSpec => []OneBox
<1>1. PathInv => OneBox
  <2> SUFFICES ASSUME PathInv PROVE Cardinality(Boxes) <= 1
    BY DEF OneBox
  <2>1. \A m, n \in Boxes : m = n
    BY Shown, AtMostOneBox DEF PathInv
  <2>2. CASE Boxes = {}
    BY <2>2, FS_EmptySet
  <2>3. CASE Boxes # {}
    <3>1. PICK n \in Boxes : TRUE
      BY <2>3
    <3>2. Boxes = {n}
      BY <2>1, <3>1
    <3> QED
      BY <3>2, FS_Singleton
  <2> QED
    BY <2>2, <2>3
<1> QED
  BY <1>1, PathInvariant, PTL

\* From what a pixel of a jump changes on position_qb: LegsInOrder for a jump.
LEMMA JumpLegs ==
  ASSUME PathInv, JumpPixel, position_qb' # position_qb
  PROVE  \/ position_qb = CubeAt(From) /\ position_qb' = 0
         \/ position_qb = 0 /\ position_qb' = CubeAt(Hop(From, jump_reg))
<1>1. Jumping /\ XC \in Int /\ YC \in Int
  BY DEF PathInv, JumpPixel
<1>2. PICK r \in 1..Rows : \E c \in 1..r :
         LeftFrom(r, c) /\ OnWay(jump_reg, XC - CentreX(r), YC - CentreY(r, c))
  BY <1>1 DEF Jumping
<1>3. PICK c \in 1..r :
         LeftFrom(r, c) /\ OnWay(jump_reg, XC - CentreX(r), YC - CentreY(r, c))
  BY <1>2
<1>4. jump_reg \in Dirs
  BY <1>1 DEF Jumping
<1>5. r \in Int /\ c \in Int /\ From = <<r, c>>
  BY <1>3, SpotIs DEF From, LeftFrom
<1> DEFINE n == Pixels(jump_reg, XC - CentreX(r), YC - CentreY(r, c))
           cube == CubeAt(<<r, c>>)
           end == CubeAt(Hop(<<r, c>>, jump_reg))
           last == LeavesAt(jump_reg)
           first == ReachesAt(jump_reg)
<1>6. CASE q' = "IDLE"
  <2>1. XC' = XC /\ YC' = YC
    BY <1>3, <1>4, <1>6, JumpStep
  <2> QED
    BY <1>1, <2>1, Shown
<1>7. CASE q' = "JUMP"
  <2>1. PICK x \in Int, y \in Int :
           /\ XC' = x /\ YC' = y /\ OnWay(jump_reg, x - CentreX(r), y - CentreY(r, c))
           /\ Pixels(jump_reg, x - CentreX(r), y - CentreY(r, c)) = n + 1
    BY <1>3, <1>4, <1>7, JumpStep
  <2>2. position_qb = IF n <= last THEN cube ELSE IF n < first THEN 0 ELSE end
    BY <1>1, <1>3, <1>4, WayShows, Shown
  <2>3. position_qb' = IF n + 1 <= last THEN cube ELSE IF n + 1 < first THEN 0 ELSE end
    <3>1. ShownAt(x, y) = IF n + 1 <= last THEN cube ELSE IF n + 1 < first THEN 0 ELSE end
      BY <1>4, <2>1, WayShows
    <3> QED
      BY <2>1, <3>1, Shown
  <2>4. n \in Int /\ last \in Int /\ first \in Int /\ last + 1 < first
    <3>1. CentreX(r) \in Int /\ CentreY(r, c) \in Int
      BY <1>5, Centres
    <3>2. XC - CentreX(r) \in Int /\ YC - CentreY(r, c) \in Int
      BY <1>1, <3>1
    <3>3. n \in Int
      BY <3>2 DEF Pixels
    <3> QED
      BY <1>4, <3>2, <3>3, WayNumbers
  <2> HIDE DEF n, cube, end, last, first
  <2>5. \/ position_qb = cube /\ position_qb' = 0
        \/ position_qb = 0 /\ position_qb' = end
    <3>1. CASE n + 1 <= last
      BY <2>2, <2>3, <2>4, <3>1
    <3>2. CASE n <= last /\ n + 1 > last
      BY <2>2, <2>3, <2>4, <3>2
    <3>3. CASE n > last /\ n + 1 < first
      BY <2>2, <2>3, <2>4, <3>3
    <3>4. CASE n > last /\ n < first /\ n + 1 >= first
      BY <2>2, <2>3, <2>4, <3>4
    <3>5. CASE n > last /\ n >= first
      BY <2>2, <2>3, <2>4, <3>5
    <3> QED
      BY <2>4, <3>1, <3>2, <3>3, <3>4, <3>5
  <2> QED
    BY <1>5, <2>5 DEF cube, end
<1> QED
  BY <1>6, <1>7 DEF JumpPixel

LEMMA TiltNumbers ==
  ASSUME NEW n \in Int
  PROVE  \/ -11 <= n /\ n <= 11
         \/ (12 <= n /\ n <= 32) \/ (-32 <= n /\ n <= -12)
         \/ 33 <= n
         \/ n <= -33
OBVIOUS

LEMMA TiltLegs ==
  ASSUME PathInv, SaucerPixel, position_qb' # position_qb
  PROVE  position_qb' = 0
<1>1. Leaving /\ q = "SAUCER" /\ YC \in Int /\ XC \in Int
  BY DEF PathInv, SaucerPixel
<1>2. PICK r \in 1..Rows : \E c \in 1..r :
       /\ LeftFrom(r, c) /\ XC = CentreX(r)
       /\ tilt_acc_reg = 1 => c = 1 /\ YC \in (CentreY(r, c) - HopY)..CentreY(r, c)
       /\ tilt_acc_reg = 2 => c = r /\ YC \in CentreY(r, c)..(CentreY(r, c) + HopY)
  BY <1>1 DEF Leaving
<1>3. PICK c \in 1..r :
       /\ LeftFrom(r, c) /\ XC = CentreX(r)
       /\ tilt_acc_reg = 1 => c = 1 /\ YC \in (CentreY(r, c) - HopY)..CentreY(r, c)
       /\ tilt_acc_reg = 2 => c = r /\ YC \in CentreY(r, c)..(CentreY(r, c) + HopY)
  BY <1>2
<1> DEFINE cy == 190 - 22 * r + 44 * c
<1>4. /\ r \in Int /\ c \in Int /\ CentreX(r) = 213 + 37 * r /\ CentreY(r, c) = cy
      /\ y0 = cy - 22 /\ YDIAG_DEMI = 22 /\ HopY = 44 /\ tilt_acc_reg \in {1, 2}
  BY <1>1, <1>3, Centres DEF LeftFrom, YDIAG_DEMI, Leaving
<1>0. cy \in Int
  BY <1>4
<1> HIDE DEF cy
<1>5. XC' = XC
  BY DEF SaucerPixel
<1>6. PICK y \in Int :
         /\ YC' = y
         /\ \/ y = YC
            \/ tilt_acc_reg = 1 /\ y = YC - 1 /\ YC > cy - 44
            \/ tilt_acc_reg = 2 /\ y = YC + 1 /\ YC < cy + 44
  <2>1. CASE UNCHANGED YC
    BY <1>1, <2>1
  <2>2. CASE YC' # YC
    <3>1. IF tilt_acc_reg = 1 THEN YC > y0 - 22 /\ YC' = YC - 1
                              ELSE YC < y0 + 3 * 22 /\ YC' = YC + 1
      BY <1>4, <2>2 DEF SaucerPixel
    <3>2. y0 - 22 = cy - 44 /\ y0 + 3 * 22 = cy + 44
      BY <1>0, <1>4
    <3>3. CASE tilt_acc_reg = 1
      <4>1. YC' = YC - 1 /\ YC > cy - 44 /\ YC - 1 \in Int
        BY <1>1, <3>1, <3>2, <3>3
      <4> QED
        BY <3>3, <4>1
    <3>4. CASE tilt_acc_reg = 2
      <4>1. YC' = YC + 1 /\ YC < cy + 44 /\ YC + 1 \in Int
        BY <1>1, <3>1, <3>2, <3>4
      <4> QED
        BY <3>4, <4>1
    <3> QED
      BY <1>4, <3>3, <3>4
  <2> QED
    BY <2>1, <2>2
<1>7. XC = 213 + 37 * r /\ position_qb = ShownAt(XC, YC) /\ position_qb' = ShownAt(XC, y)
  <2>1. XC = 213 + 37 * r
    BY <1>3, <1>4
  <2>2. position_qb = ShownAt(XC, YC)
    BY <1>1, Shown
  <2>3. position_qb' = ShownAt(XC, y)
    BY <1>1, <1>5, <1>6, Shown
  <2> QED
    BY <2>1, <2>2, <2>3
<1>8. y # YC
  BY <1>7
<1>16. /\ tilt_acc_reg = 1 => c = 1 /\ cy - 44 <= YC /\ YC <= cy
       /\ tilt_acc_reg = 2 => c = r /\ cy <= YC /\ YC <= cy + 44
  BY <1>0, <1>1, <1>3, <1>4
<1>9. \/ tilt_acc_reg = 1 /\ c = 1 /\ y = YC - 1 /\ cy - 44 <= y /\ y < cy
      \/ tilt_acc_reg = 2 /\ c = r /\ y = YC + 1 /\ cy < y /\ y <= cy + 44
  <2>1. CASE tilt_acc_reg = 1
    <3>1. c = 1 /\ YC <= cy /\ y = YC - 1 /\ YC > cy - 44
      BY <1>6, <1>8, <1>16, <2>1
    <3> QED
      BY <1>0, <1>1, <2>1, <3>1
  <2>2. CASE tilt_acc_reg = 2
    <3>1. c = r /\ cy <= YC /\ y = YC + 1 /\ YC < cy + 44
      BY <1>6, <1>8, <1>16, <2>2
    <3> QED
      BY <1>0, <1>1, <2>2, <3>1
  <2> QED
    BY <1>4, <2>1, <2>2
<1>10. CASE -11 <= y - cy /\ y - cy <= 11
  <2>1. -11 <= YC - cy /\ YC - cy <= 11
    <3>1. CASE y = YC - 1 /\ y < cy
      BY <1>0, <1>1, <1>10, <3>1
    <3>2. CASE y = YC + 1 /\ cy < y
      BY <1>0, <1>1, <1>10, <3>2
    <3> QED
      BY <1>9, <3>1, <3>2
  <2>2. InBoxAt(r, c, XC, YC) /\ InBoxAt(r, c, XC, y)
    BY <1>1, <1>4, <1>7, <1>10, <2>1, InBoxIs DEF cy
  <2>3. ShownAt(XC, YC) = CubeAt(<<r, c>>)
    BY <1>1, <1>4, <2>2, InBoxShown
  <2>4. ShownAt(XC, y) = CubeAt(<<r, c>>)
    BY <1>1, <1>4, <2>2, InBoxShown
  <2> QED
    BY <1>7, <2>3, <2>4
<1>11. CASE (12 <= y - cy /\ y - cy <= 32) \/ (-32 <= y - cy /\ y - cy <= -12)
  <2>1. XC - (213 + 37 * r) = 0 /\ y - (190 - 22 * r + 44 * c) = y - cy
    BY <1>1, <1>4, <1>7 DEF cy
  <2>2. ShownAt(XC, y) = 0
    BY <1>1, <1>4, <1>11, <2>1, BetweenShown
  <2> QED
    BY <1>7, <2>2
<1>12. CASE 33 <= y - cy
  <2>1. InBoxAt(r, c + 1, XC, y) /\ c = r
    BY <1>1, <1>4, <1>7, <1>9, <1>12, InBoxIs DEF cy
  <2>2. CubeAt(<<r, c + 1>>) = 0
    BY <1>4, <2>1, OnPyramidIs DEF CubeAt
  <2> QED
    BY <1>1, <1>4, <1>7, <2>1, <2>2, InBoxShown
<1>14. CASE y - cy <= -33
  <2>1. InBoxAt(r, c - 1, XC, y) /\ c = 1
    BY <1>1, <1>4, <1>7, <1>9, <1>14, InBoxIs DEF cy
  <2>2. CubeAt(<<r, c - 1>>) = 0
    BY <1>4, <2>1, OnPyramidIs DEF CubeAt
  <2> QED
    BY <1>1, <1>4, <1>7, <2>1, <2>2, InBoxShown
<1>15. y - cy \in Int
  BY <1>0
<1> QED
  BY <1>10, <1>11, <1>12, <1>14, <1>15, TiltNumbers

LEMMA SameShown ==
  ASSUME PathInv, UNCHANGED pathVars
  PROVE  position_qb' = position_qb
BY Shown DEF pathVars, PathInv

\* On a pyramid of any height: position_qb shows the cube left, nothing, and the
\* cube a jump ends on, in this order and nothing else; and for a tilt the cube
\* left, then nothing.  These are the legs of QbertLayer.
THEOREM LegsAreInOrder == PathSpec => LegsInOrder
<1>1. PathInv /\ [PathNext]_pathVars =>
        [/\ q = "JUMP" /\ position_qb' # position_qb =>
              \/ position_qb = CubeAt(From) /\ position_qb' = 0
              \/ position_qb = 0 /\ position_qb' = CubeAt(Hop(From, jump_reg))
         /\ q = "SAUCER" /\ position_qb' # position_qb => position_qb' = 0]_pathVars
  <2> SUFFICES ASSUME PathInv, PathNext
               PROVE  /\ q = "JUMP" /\ position_qb' # position_qb =>
                           \/ position_qb = CubeAt(From) /\ position_qb' = 0
                           \/ position_qb = 0 /\ position_qb' = CubeAt(Hop(From, jump_reg))
                      /\ q = "SAUCER" /\ position_qb' # position_qb => position_qb' = 0
    OBVIOUS
  <2>1. q = "JUMP" => JumpPixel
    BY DEF PathNext, Slide, FallOff, SaucerPixel, Reborn, TakeOff, TiltOff
  <2>2. q = "SAUCER" => SaucerPixel
    BY DEF PathNext, Slide, FallOff, JumpPixel, Reborn, TakeOff, TiltOff
  <2> QED
    BY <2>1, <2>2, JumpLegs, TiltLegs
<1> QED
  BY <1>1, PathInvariant, PTL DEF PathSpec, LegsInOrder

\* On a pyramid of any height: a jump ends on the cube the Nios computed from the
\* number of the cube left, and off the pyramid when the Nios computed 0.
THEOREM JumpsLandAsComputed == PathSpec => LandsAsComputed
<1>1. PathInv /\ [PathNext]_pathVars =>
        [q = "JUMP" /\ q' = "IDLE" => position_qb = mvmt(jump_reg, CubeAt(From))]_pathVars
  <2> SUFFICES ASSUME PathInv, PathNext, q = "JUMP", q' = "IDLE"
               PROVE  position_qb = mvmt(jump_reg, CubeAt(From))
    OBVIOUS
  <2>1. JumpPixel
    BY DEF PathNext, Slide, FallOff, SaucerPixel, Reborn, TakeOff, TiltOff
  <2>2. Jumping /\ XC \in Int /\ YC \in Int
    BY DEF PathInv
  <2>3. PICK r \in 1..Rows : \E c \in 1..r :
           LeftFrom(r, c) /\ OnWay(jump_reg, XC - CentreX(r), YC - CentreY(r, c))
    BY <2>2 DEF Jumping
  <2>4. PICK c \in 1..r :
           LeftFrom(r, c) /\ OnWay(jump_reg, XC - CentreX(r), YC - CentreY(r, c))
    BY <2>3
  <2>5. jump_reg \in Dirs
    BY <2>2 DEF Jumping
  <2>6. r \in Int /\ c \in Int /\ From = <<r, c>>
    BY <2>4, SpotIs DEF From, LeftFrom
  <2> DEFINE h == Hop(<<r, c>>, jump_reg)
  <2>7. XC = CentreX(h[1]) /\ YC = CentreY(h[1], h[2])
    BY <2>1, <2>4, <2>5, JumpStep
  <2>8. h[1] \in Int /\ h[2] \in Int /\ h = <<h[1], h[2]>>
    BY <2>5, <2>6, HopCentre
  <2>9. position_qb = CubeAt(h)
    <3> HIDE DEF h
    <3> QED
      BY <2>7, <2>8, StandingShown DEF Standing
  <2>10. <<r, c>> \in Spots /\ OnPyramid(<<r, c>>)
    BY <2>6, OnPyramidIs, RowsAssumption DEF Spots
  <2> QED
    BY <2>5, <2>6, <2>9, <2>10, HopAgrees
<1> QED
  BY <1>1, PathInvariant, PTL DEF PathSpec, LandsAsComputed

-----------------------------------------------------------------------------
(* The screen                                                              *)

OnScreen == XC \in 0..799 /\ x0 \in 0..799 /\ YC \in 0..479 /\ y0 \in 0..479

Moving == q \in {"START", "JUMP", "SAUCER"}

LEMMA MovesOnScreen ==
  ASSUME Rows <= 8, PathInv, Moving
  PROVE  OnScreen
<1>1. /\ XC \in Int /\ YC \in Int /\ x0 \in Int /\ y0 \in Int /\ Rows \in Int
      /\ HopX = 37 /\ HopY = 44 /\ YDIAG_DEMI = 22
  BY RowsAssumption, Centres DEF PathInv, YDIAG_DEMI
<1>2. ASSUME NEW r \in 1..Rows, NEW c \in 1..r, LeftFrom(r, c),
             -37 <= XC - CentreX(r), XC - CentreX(r) <= 37,
             -44 <= YC - CentreY(r, c), YC - CentreY(r, c) <= 44
      PROVE  OnScreen
  <2>1. r \in Int /\ c \in Int /\ 1 <= c /\ c <= r /\ r <= 8
    BY <1>1
  <2>2. CentreX(r) = 213 + 37 * r /\ CentreY(r, c) = 190 - 22 * r + 44 * c
    BY <2>1, Centres
  <2> DEFINE cx == CentreX(r)
             cy == CentreY(r, c)
  <2>3. cx \in 250..509 /\ cy \in 58..366
    BY <2>1, <2>2
  <2>4. x0 = cx /\ y0 = cy - 22
    BY <1>1, <1>2 DEF LeftFrom
  <2>5. -37 <= XC - cx /\ XC - cx <= 37 /\ -44 <= YC - cy /\ YC - cy <= 44
    BY <1>2
  <2> HIDE DEF cx, cy
  <2> QED
    BY <1>1, <2>3, <2>4, <2>5 DEF OnScreen
<1>3. CASE q = "START"
  <2>1. YC = CentreY(1, 1) /\ y0 = 190 /\ x0 = XC /\ XC \in 228..250
    BY <1>3 DEF PathInv, Sliding, XOffset, YOffset, XLENGTH
  <2>2. CentreY(1, 1) = 212
    BY Centres
  <2> QED
    BY <2>1, <2>2 DEF OnScreen
<1>4. CASE q = "JUMP"
  <2>1. jump_reg \in Dirs
    BY <1>4 DEF PathInv, Jumping
  <2>2. PICK r \in 1..Rows : \E c \in 1..r :
           LeftFrom(r, c) /\ OnWay(jump_reg, XC - CentreX(r), YC - CentreY(r, c))
    BY <1>4 DEF PathInv, Jumping
  <2>3. PICK c \in 1..r :
           LeftFrom(r, c) /\ OnWay(jump_reg, XC - CentreX(r), YC - CentreY(r, c))
    BY <2>2
  <2>4. r \in Int /\ c \in Int
    BY <1>1
  <2>5. CentreX(r) \in Int /\ CentreY(r, c) \in Int
    BY <2>4, Centres
  <2> DEFINE dx == XC - CentreX(r)
             dy == YC - CentreY(r, c)
  <2>6. dx \in Int /\ dy \in Int /\ OnWay(jump_reg, dx, dy)
    BY <1>1, <2>3, <2>5
  <2> HIDE DEF dx, dy
  <2>7. -37 <= dx /\ dx <= 37 /\ -44 <= dy /\ dy <= 44
    BY <2>1, <2>6, WayNumbers
  <2> QED
    BY <1>2, <2>3, <2>7 DEF dx, dy
<1>5. CASE q = "SAUCER"
  <2>1. PICK r \in 1..Rows : \E c \in 1..r :
       /\ LeftFrom(r, c) /\ XC = CentreX(r)
       /\ tilt_acc_reg = 1 => c = 1 /\ YC \in (CentreY(r, c) - HopY)..CentreY(r, c)
       /\ tilt_acc_reg = 2 => c = r /\ YC \in CentreY(r, c)..(CentreY(r, c) + HopY)
    BY <1>5 DEF PathInv, Leaving
  <2>2. PICK c \in 1..r :
       /\ LeftFrom(r, c) /\ XC = CentreX(r)
       /\ tilt_acc_reg = 1 => c = 1 /\ YC \in (CentreY(r, c) - HopY)..CentreY(r, c)
       /\ tilt_acc_reg = 2 => c = r /\ YC \in CentreY(r, c)..(CentreY(r, c) + HopY)
    BY <2>1
  <2>3. CentreX(r) \in Int /\ CentreY(r, c) \in Int /\ tilt_acc_reg \in {1, 2}
    <3>1. r \in Int /\ c \in Int
      BY <1>1
    <3> QED
      BY <1>5, <3>1, Centres DEF PathInv, Leaving
  <2> DEFINE cy == CentreY(r, c)
  <2>4. cy \in Int /\ YC \in (cy - 44)..(cy + 44)
    <3>1. CASE tilt_acc_reg = 1
      <4>1. YC \in (cy - 44)..cy
        BY <1>1, <2>2, <3>1
      <4> HIDE DEF cy
      <4> QED
        BY <1>1, <2>3, <4>1 DEF cy
    <3>2. CASE tilt_acc_reg = 2
      <4>1. YC \in cy..(cy + 44)
        BY <1>1, <2>2, <3>2
      <4> QED
        BY <1>1, <2>3, <4>1
    <3> QED
      BY <2>3, <3>1, <3>2
  <2>5. XC - CentreX(r) = 0 /\ -44 <= YC - cy /\ YC - cy <= 44
    BY <1>1, <2>2, <2>3, <2>4
  <2> QED
    BY <1>2, <2>2, <2>5
<1> QED
  BY <1>3, <1>4, <1>5 DEF Moving

\* A movement ends where its last pixel is.
LEMMA StopsWhereItIs ==
  ASSUME OnScreen, PathInv, [PathNext]_pathVars
  PROVE  Moving' \/ OnScreen'
<1>1. CASE UNCHANGED pathVars
  BY <1>1 DEF pathVars, OnScreen
<1>2. CASE Slide
  BY <1>2 DEF Slide, OnScreen, Moving
<1>3. CASE FallOff
  BY <1>3 DEF FallOff, OnScreen
<1>4. CASE JumpPixel
  BY <1>4 DEF JumpPixel, OnScreen, Moving
<1>5. CASE SaucerPixel
  BY <1>5 DEF SaucerPixel, OnScreen, Moving
<1>6. CASE Reborn
  BY <1>6 DEF Reborn, AtStart, Moving
<1>7. ASSUME NEW d \in Dirs, TakeOff(d)
      PROVE  Moving'
  BY <1>7 DEF TakeOff, Leave, Moving
<1>8. ASSUME NEW t \in 1..2, TiltOff(t)
      PROVE  Moving'
  BY <1>8 DEF TiltOff, Leave, Moving
<1> QED
  BY <1>1, <1>2, <1>3, <1>4, <1>5, <1>6, <1>7, <1>8 DEF PathNext

\* The 28 cubes of the game, 7 rows of them, leave room on the 800 by 480 screen
\* for one row more: the point stays on it through every jump, also off the
\* pyramid, and every tilt.  (With 9 rows TLC finds the tilt that leaves it.)
THEOREM StaysOnScreen ==
  ASSUME Rows <= 8
  PROVE  PathSpec => []TypeOK
<1>1. PathInv /\ Moving => OnScreen
  BY MovesOnScreen
<1>2. PathInit => Moving
  BY DEF PathInit, Moving
<1>3. OnScreen /\ PathInv /\ [PathNext]_pathVars => Moving' \/ OnScreen'
  BY StopsWhereItIs
<1>4. OnScreen /\ PathInv => TypeOK
  BY DEF OnScreen, PathInv, TypeOK
<1> QED
  BY <1>1, <1>2, <1>3, <1>4, PathInvariant, PTL DEF PathSpec
=============================================================================
