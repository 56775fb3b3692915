--------------------------- MODULE PyramidProofs -----------------------------
(***************************************************************************)
(* The numbers of the Nios and the pixels of the FPGA agree on a pyramid   *)
(* of any size: the cube the Nios computes from a number is the cube whose *)
(* box the hop ends in, and 0 when it ends in no box.  TLC checks it for   *)
(* the pyramid of seven rows, pixel by pixel (JumpPath).                   *)
(***************************************************************************)
EXTENDS Pyramid, TLAPS

\* A row has as many cubes as its number: half a product of neighbours.
LEMMA AboveNext ==
  \A k \in Int : Above(k) \in Int /\ Above(k + 1) = Above(k) + k
<1> SUFFICES ASSUME NEW k \in Int
             PROVE  Above(k) \in Int /\ Above(k + 1) = Above(k) + k
  OBVIOUS
<1>1. (k + 1) * ((k + 1) - 1) = k * (k - 1) + 2 * k
  BY SMT
<1>2. k * (k - 1) \in Int
  BY SMT
<1>3. \A a \in Int : (a + 2 * k) \div 2 = a \div 2 + k /\ a \div 2 \in Int
  BY SMT
<1> QED
  BY <1>1, <1>2, <1>3 DEF Above

\* Later rows start later.
LEMMA AboveMonotone ==
  ASSUME NEW j \in Nat, NEW k \in Nat, j <= k
  PROVE  Above(j) <= Above(k)
<1>1. j * (j - 1) <= k * (k - 1)
  <2>1. CASE j = 0
    <3>1. k * (k - 1) >= 0
      BY SMT
    <3> QED
      BY <2>1, <3>1, SMT
  <2>2. CASE j > 0
    <3>1. j * (j - 1) <= k * (j - 1)
      BY <2>2, SMT
    <3>2. k * (j - 1) <= k * (k - 1)
      BY SMT
    <3> QED
      BY <3>1, <3>2, SMT
  <2> QED
    BY <2>1, <2>2, SMT
<1>2. j * (j - 1) \in Int /\ k * (k - 1) \in Int
  BY SMT
<1>3. \A a, b \in Int : a <= b => a \div 2 <= b \div 2
  BY SMT
<1> QED
  BY <1>1, <1>2, <1>3 DEF Above

LEMMA RowsAre == \A r \in 1..Rows : rows[r] = Above(r) + 1 /\ rows[r] \in Int
<1> SUFFICES ASSUME NEW r \in 1..Rows
             PROVE  rows[r] = Above(r) + 1 /\ rows[r] \in Int
  OBVIOUS
<1>1. rows[r] = Above(r) + 1
  BY DEF rows
<1>2. r \in Int
  BY RowsAssumption, SMT
<1>3. Above(r) \in Int
  BY <1>2, AboveNext
<1> QED
  BY <1>1, <1>3, SMT

\* The loops of mvmt stop at the only row that can hold the number.
LEMMA RowSearchIs ==
  ASSUME NEW n \in Int, NEW k \in 0..Rows,
         k > 0 => n >= rows[k],
         \A j \in (k + 1)..Rows : n < rows[j]
  PROVE  RowSearch(n) = k
<1> DEFINE P(i) == /\ i > 0 => n >= rows[i]
                   /\ \A j \in (i + 1)..Rows : n < rows[j]
<1>1. \A i \in 1..Rows : rows[i] \in Int
  BY RowsAre
<1>2. ASSUME NEW i \in 0..Rows, P(i) PROVE i = k
  <2>1. CASE i < k
    <3>1. k \in (i + 1)..Rows
      BY <2>1, SMT
    <3>2. n < rows[k] /\ n >= rows[k]
      BY <3>1, <1>2, <2>1, SMT
    <3> QED
      BY <3>1, <3>2, <1>1, RowsAssumption, SMT
  <2>2. CASE k < i
    <3>1. i \in (k + 1)..Rows
      BY <2>2, SMT
    <3>2. n < rows[i] /\ n >= rows[i]
      BY <3>1, <1>2, <2>2, SMT
    <3> QED
      BY <3>1, <3>2, <1>1, RowsAssumption, SMT
  <2> QED
    BY <2>1, <2>2, RowsAssumption, SMT
<1>3. P(k)
  OBVIOUS
<1>4. RowSearch(n) = CHOOSE i \in 0..Rows : P(i)
  BY DEF RowSearch
<1> QED
  BY <1>2, <1>3, <1>4, Zenon

-----------------------------------------------------------------------------
\* Cube c of row r is found in row r.
LEMMA RowOf ==
  ASSUME NEW r \in 1..Rows, NEW c \in 1..r
  PROVE  RowSearch(Above(r) + c) = r
<1>1. r \in 0..Rows /\ r \in Nat /\ c \in Int /\ Above(r) \in Int
  BY AboveNext, RowsAssumption, SMT
<1>2. Above(r) + c >= rows[r]
  BY <1>1, RowsAre, SMT
<1>3. ASSUME NEW j \in (r + 1)..Rows PROVE Above(r) + c < rows[j]
  <2>1. j \in 1..Rows /\ j \in Nat /\ r + 1 \in Nat /\ r + 1 <= j
    BY RowsAssumption, SMT
  <2>2. Above(r + 1) <= Above(j)
    BY <2>1, AboveMonotone
  <2>3. Above(r + 1) = Above(r) + r /\ Above(j) \in Int
    BY <1>1, <2>1, AboveNext
  <2> QED
    BY <1>1, <2>1, <2>2, <2>3, RowsAre, SMT
<1>4. Above(r) + c \in Int
  BY <1>1, SMT
<1> QED
  BY <1>1, <1>2, <1>3, <1>4, RowSearchIs

\* Numbers before and after the pyramid.
LEMMA RowSearchOutside ==
  /\ RowSearch(0) = 0
  /\ \A n \in Int : n >= rows[Rows] => RowSearch(n) = Rows
<1>1. Above(1) = 0 /\ 1 \in Nat
  BY SMT DEF Above
<1>2. ASSUME NEW j \in 1..Rows PROVE 0 < rows[j]
  <2>1. j \in Nat /\ 1 <= j
    BY RowsAssumption, SMT
  <2>2. Above(1) <= Above(j)
    BY <2>1, <1>1, AboveMonotone
  <2>3. Above(j) \in Int
    BY <2>1, AboveNext
  <2> QED
    BY <1>1, <2>2, <2>3, RowsAre, SMT
<1>3. RowSearch(0) = 0
  <2>1. 0 \in 0..Rows /\ 0 + 1 = 1 /\ ~(0 > 0) /\ 0 \in Int
    BY RowsAssumption, SMT
  <2> QED
    BY <2>1, <1>2, RowSearchIs
<1>4. ASSUME NEW n \in Int, n >= rows[Rows] PROVE RowSearch(n) = Rows
  <2>1. Rows \in 0..Rows /\ (Rows + 1)..Rows = {}
    BY RowsAssumption, SMT
  <2> QED
    BY <2>1, <1>4, RowSearchIs
<1> QED
  BY <1>3, <1>4

-----------------------------------------------------------------------------
\* One hop from cube c of row r: the number mvmt returns.
LEMMA MvmtOf ==
  ASSUME NEW r \in 1..Rows, NEW c \in 1..r
  PROVE  LET n == Above(r) + c
             Number(end) == IF r - RowSearch(end) \in {1, -1} THEN end ELSE 0
         IN  /\ mvmt(1, n) = Number(n + r)
             /\ mvmt(2, n) = Number(n + r + 1)
             /\ mvmt(3, n) = Number(n - r)
             /\ mvmt(4, n) = Number(n + 1 - r)
<1> DEFINE n == Above(r) + c
           Number(end) == IF r - RowSearch(end) \in {1, -1} THEN end ELSE 0
<1>1. RowSearch(n) = r
  BY RowOf
<1>2. r \in Int /\ n \in Int
  <2>1. r \in Int /\ c \in Int
    BY RowsAssumption, SMT
  <2>2. Above(r) \in Int
    BY <2>1, AboveNext
  <2> QED
    BY <2>1, <2>2, SMT
<1>3. /\ ~(1 > 2) /\ 1 % 2 # 0
      /\ ~(2 > 2) /\ 2 % 2 = 0
      /\ 3 > 2 /\ 3 % 2 # 0
      /\ 4 > 2 /\ 4 % 2 = 0
  BY SMT
<1>4. /\ n + r + 0 = n + r /\ n - (r - 0) = n - r
      /\ n - (r - 1) = n + 1 - r
  BY <1>2, SMT
<1> HIDE DEF n
<1> QED
  BY <1>1, <1>3, <1>4, Zenon DEF mvmt, n

\* The number a hop ends on, counted from the row it ends in.
LEMMA EndNumber ==
  ASSUME NEW r \in 1..Rows, NEW c \in 1..r
  PROVE  /\ Above(r) + c + r = Above(r + 1) + c
         /\ Above(r) + c + r + 1 = Above(r + 1) + (c + 1)
         /\ (Above(r) + c) - r = Above(r - 1) + (c - 1)
         /\ (Above(r) + c) + (1 - r) = Above(r - 1) + c
<1>1. r \in Int /\ r - 1 \in Int /\ c \in Int /\ (r - 1) + 1 = r
  BY RowsAssumption, SMT
<1>2. /\ Above(r) \in Int /\ Above(r - 1) \in Int
      /\ Above(r + 1) = Above(r) + r /\ Above(r) = Above(r - 1) + (r - 1)
  <2>1. Above(r) \in Int /\ Above(r + 1) = Above(r) + r
    BY <1>1, AboveNext
  <2>2. Above(r - 1) \in Int /\ Above((r - 1) + 1) = Above(r - 1) + (r - 1)
    BY <1>1, AboveNext
  <2> QED
    BY <1>1, <2>1, <2>2
<1> QED
  BY <1>1, <1>2, SMT

\* The row the search finds for the end of a hop: off the last row it stays
\* in the last row, off the left edge in the same row, off the right edge it
\* falls two rows above.
LEMMA EndRow ==
  ASSUME NEW r \in 1..Rows, NEW c \in 1..r
  PROVE  /\ r < Rows => /\ RowSearch(Above(r + 1) + c) = r + 1
                        /\ RowSearch(Above(r + 1) + (c + 1)) = r + 1
         /\ r = Rows => /\ RowSearch(Above(r + 1) + c) = r
                        /\ RowSearch(Above(r + 1) + (c + 1)) = r
         /\ c > 1 => RowSearch(Above(r - 1) + (c - 1)) = r - 1
         /\ c = 1 => \/ RowSearch(Above(r - 1) + (c - 1)) = r - 2
                     \/ Above(r - 1) + (c - 1) = 0
         /\ c < r => RowSearch(Above(r - 1) + c) = r - 1
         /\ c = r => RowSearch(Above(r - 1) + c) = r
<1>1. r \in Nat /\ r - 1 \in Nat /\ c \in Int /\ r + 1 \in Int /\ r >= 1
  BY RowsAssumption, SMT
<1>2. /\ Above(r) \in Int /\ Above(r - 1) \in Int /\ Above(r + 1) \in Int
      /\ Above(r + 1) = Above(r) + r
  BY <1>1, AboveNext
<1>3. Above(r) = Above(r - 1) + (r - 1)
  <2>1. (r - 1) + 1 = r /\ r - 1 \in Int
    BY <1>1, SMT
  <2>2. Above((r - 1) + 1) = Above(r - 1) + (r - 1)
    BY <2>1, AboveNext
  <2> QED
    BY <2>1, <2>2
<1>5. ASSUME r < Rows
      PROVE  /\ RowSearch(Above(r + 1) + c) = r + 1
             /\ RowSearch(Above(r + 1) + (c + 1)) = r + 1
  <2>1. r + 1 \in 1..Rows /\ c \in 1..(r + 1) /\ c + 1 \in 1..(r + 1)
    BY <1>5, RowsAssumption, SMT
  <2> QED
    BY <2>1, RowOf
<1>6. ASSUME r = Rows
      PROVE  /\ RowSearch(Above(r + 1) + c) = r
             /\ RowSearch(Above(r + 1) + (c + 1)) = r
  <2>1. /\ Above(r + 1) + c \in Int /\ Above(r + 1) + c >= rows[Rows]
        /\ Above(r + 1) + (c + 1) \in Int /\ Above(r + 1) + (c + 1) >= rows[Rows]
    BY <1>1, <1>2, <1>6, RowsAre, SMT
  <2> QED
    BY <2>1, <1>6, RowSearchOutside
<1>7. ASSUME c > 1 PROVE RowSearch(Above(r - 1) + (c - 1)) = r - 1
  <2>1. r - 1 \in 1..Rows /\ c - 1 \in 1..(r - 1)
    BY <1>7, RowsAssumption, SMT
  <2> QED
    BY <2>1, RowOf
<1>8. ASSUME c = 1 PROVE \/ RowSearch(Above(r - 1) + (c - 1)) = r - 2
                         \/ Above(r - 1) + (c - 1) = 0
  <2>1. CASE r <= 2
    <3>1. r - 1 = 0 \/ r - 1 = 1
      BY <1>1, <2>1, SMT
    <3>2. Above(0) = 0 /\ Above(1) = 0
      BY SMT DEF Above
    <3>3. Above(r - 1) = 0
      BY <3>1, <3>2
    <3> QED
      BY <3>3, <1>8, SMT
  <2>2. CASE r > 2
    <3>1. r - 2 \in 1..Rows /\ r - 2 \in 1..(r - 2) /\ (r - 2) + 1 = r - 1
          /\ r - 2 \in Int
      BY <1>1, <2>2, RowsAssumption, SMT
    <3>2. Above((r - 2) + 1) = Above(r - 2) + (r - 2)
      BY <3>1, AboveNext
    <3>3. RowSearch(Above(r - 2) + (r - 2)) = r - 2
      BY <3>1, RowOf
    <3>4. Above(r - 1) + (c - 1) = Above(r - 1)
      BY <1>1, <1>2, <1>8, SMT
    <3> QED
      BY <3>1, <3>2, <3>3, <3>4
  <2> QED
    BY <1>1, <2>1, <2>2, SMT
<1>9. ASSUME c < r PROVE RowSearch(Above(r - 1) + c) = r - 1
  <2>1. r - 1 \in 1..Rows /\ c \in 1..(r - 1)
    BY <1>9, RowsAssumption, SMT
  <2> QED
    BY <2>1, RowOf
<1>10. ASSUME c = r PROVE RowSearch(Above(r - 1) + c) = r
  <2>1. Above(r - 1) + c = Above(r) + 1 /\ 1 \in 1..r
    BY <1>1, <1>2, <1>3, <1>10, SMT
  <2> QED
    BY <2>1, RowOf
<1> QED
  BY <1>5, <1>6, <1>7, <1>8, <1>9, <1>10

LEMMA MvmtIs ==
  ASSUME NEW r \in 1..Rows, NEW c \in 1..r
  PROVE  LET n == Above(r) + c
         IN  /\ mvmt(1, n) = IF r < Rows THEN Above(r + 1) + c ELSE 0
             /\ mvmt(2, n) = IF r < Rows THEN Above(r + 1) + (c + 1) ELSE 0
             /\ mvmt(3, n) = IF c > 1 THEN Above(r - 1) + (c - 1) ELSE 0
             /\ mvmt(4, n) = IF c < r THEN Above(r - 1) + c ELSE 0
<1> DEFINE n == Above(r) + c
           Number(end) == IF r - RowSearch(end) \in {1, -1} THEN end ELSE 0
<1>1. /\ n + r = Above(r + 1) + c
      /\ n + r + 1 = Above(r + 1) + (c + 1)
      /\ n - r = Above(r - 1) + (c - 1)
      /\ n + 1 - r = Above(r - 1) + c
  BY EndNumber
<1>2. /\ mvmt(1, n) = Number(n + r)
      /\ mvmt(2, n) = Number(n + r + 1)
      /\ mvmt(3, n) = Number(n - r)
      /\ mvmt(4, n) = Number(n + 1 - r)
  BY MvmtOf
<1>3. r \in Int /\ c \in Int /\ Rows \in Int /\ 1 <= c /\ c <= r /\ r <= Rows
  BY RowsAssumption, SMT
<1>4. /\ r - (r + 1) = -1 /\ r - (r - 1) = 1 /\ r - r = 0 /\ r - (r - 2) = 2
      /\ 0 \notin {1, -1} /\ 2 \notin {1, -1}
  BY <1>3, SMT
<1>5. /\ r < Rows \/ r = Rows
      /\ c > 1 \/ c = 1
      /\ c < r \/ c = r
      /\ ~(Rows < Rows) /\ ~(1 > 1) /\ ~(r < r)
  BY <1>3, SMT
<1> HIDE DEF n
<1>6. mvmt(1, n) = IF r < Rows THEN Above(r + 1) + c ELSE 0
  <2>1. CASE r < Rows
    <3>1. RowSearch(Above(r + 1) + c) = r + 1
      BY <2>1, EndRow
    <3> QED
      BY <1>1, <1>2, <1>4, <2>1, <3>1
  <2>2. CASE r = Rows
    <3>1. RowSearch(Above(r + 1) + c) = r
      BY <2>2, EndRow
    <3> QED
      BY <1>1, <1>2, <1>4, <1>5, <2>2, <3>1
  <2> QED
    BY <1>5, <2>1, <2>2
<1>7. mvmt(2, n) = IF r < Rows THEN Above(r + 1) + (c + 1) ELSE 0
  <2>1. CASE r < Rows
    <3>1. RowSearch(Above(r + 1) + (c + 1)) = r + 1
      BY <2>1, EndRow
    <3> QED
      BY <1>1, <1>2, <1>4, <2>1, <3>1
  <2>2. CASE r = Rows
    <3>1. RowSearch(Above(r + 1) + (c + 1)) = r
      BY <2>2, EndRow
    <3> QED
      BY <1>1, <1>2, <1>4, <1>5, <2>2, <3>1
  <2> QED
    BY <1>5, <2>1, <2>2
<1>8. mvmt(3, n) = IF c > 1 THEN Above(r - 1) + (c - 1) ELSE 0
  <2>1. CASE c > 1
    <3>1. RowSearch(Above(r - 1) + (c - 1)) = r - 1
      BY <2>1, EndRow
    <3> QED
      BY <1>1, <1>2, <1>4, <2>1, <3>1
  <2>2. CASE c = 1
    <3>1. \/ RowSearch(Above(r - 1) + (c - 1)) = r - 2
          \/ Above(r - 1) + (c - 1) = 0
      BY <2>2, EndRow
    <3> QED
      BY <1>1, <1>2, <1>4, <1>5, <2>2, <3>1
  <2> QED
    BY <1>5, <2>1, <2>2
<1>9. mvmt(4, n) = IF c < r THEN Above(r - 1) + c ELSE 0
  <2>1. CASE c < r
    <3>1. RowSearch(Above(r - 1) + c) = r - 1
      BY <2>1, EndRow
    <3> QED
      BY <1>1, <1>2, <1>4, <2>1, <3>1
  <2>2. CASE c = r
    <3>1. RowSearch(Above(r - 1) + c) = r
      BY <2>2, EndRow
    <3> QED
      BY <1>1, <1>2, <1>4, <1>5, <2>2, <3>1
  <2> QED
    BY <1>5, <2>1, <2>2
<1> QED
  BY <1>6, <1>7, <1>8, <1>9 DEF n

LEMMA CubeNumber ==
  ASSUME NEW r \in Int, NEW c \in Int
  PROVE  CubeAt(<<r, c>>) = IF 1 <= c /\ c <= r /\ r <= Rows
                            THEN Above(r) + c ELSE 0
<1>1. CASE 1 <= c /\ c <= r /\ r <= Rows
  <2>1. r \in 1..Rows
    BY <1>1, RowsAssumption, SMT
  <2>2. Above(r) \in Int /\ rows[r] = Above(r) + 1
    BY <2>1, AboveNext, RowsAre
  <2> QED
    BY <1>1, <2>2, SMT DEF CubeAt, OnPyramid
<1>2. CASE ~(1 <= c /\ c <= r /\ r <= Rows)
  BY <1>2, SMT DEF CubeAt, OnPyramid
<1> QED
  BY <1>1, <1>2

LEMMA CubeAtType ==
  /\ \A r, c \in Int : CubeAt(<<r, c>>) \in {0} \cup Cubes
  /\ 1 \in Cubes
<1>1. ASSUME NEW r \in Int, NEW c \in Int, 1 <= c, c <= r, r <= Rows
      PROVE  Above(r) + c \in Cubes
  <2>1. /\ r \in Nat /\ 0 \in Nat /\ r + 1 \in Nat /\ Rows + 1 \in Nat
        /\ 0 <= r /\ r + 1 <= Rows + 1
    BY <1>1, RowsAssumption, SMT
  <2>2. Above(0) <= Above(r) /\ Above(r + 1) <= Above(Rows + 1)
    BY <2>1, AboveMonotone
  <2>3. /\ Above(0) = 0 /\ Above(r) \in Int /\ Above(r + 1) = Above(r) + r
        /\ Above(Rows + 1) \in Int
    <3>1. Above(0) = 0
      BY SMT DEF Above
    <3> QED
      BY <2>1, <3>1, AboveNext
  <2> QED
    BY <1>1, <2>2, <2>3, SMT DEF Cubes, NCubes
<1>2. ASSUME NEW r \in Int, NEW c \in Int
      PROVE  CubeAt(<<r, c>>) \in {0} \cup Cubes
  BY <1>1, CubeNumber
<1>3. 1 \in Cubes
  <2>1. Above(1) + 1 \in Cubes
    BY <1>1, RowsAssumption, SMT
  <2>2. Above(1) + 1 = 1
    BY SMT DEF Above
  <2> QED
    BY <2>1, <2>2
<1> QED
  BY <1>2, <1>3

\* From every cube and in every direction the Nios computes the cube the
\* FPGA's movement ends on, and 0 exactly when the movement ends off the
\* pyramid (main.c:219-244 against qbert_layer.sv:173-227 and the boxes of
\* Qbert_Map_Color.sv).
THEOREM HopAgrees ==
  \A s \in Spots, dir \in Dirs :
    OnPyramid(s) => mvmt(dir, CubeAt(s)) = CubeAt(Hop(s, dir))
<1> SUFFICES ASSUME NEW s \in Spots, NEW dir \in Dirs, OnPyramid(s)
             PROVE  mvmt(dir, CubeAt(s)) = CubeAt(Hop(s, dir))
  OBVIOUS
<1>1. PICK r \in 0..Rows + 1, c \in 0..Rows + 1 : s = <<r, c>>
  BY DEF Spots
<1>2. r \in 1..Rows /\ c \in 1..r /\ r \in Int /\ c \in Int
  BY <1>1, RowsAssumption, SMT DEF OnPyramid
<1>3. CubeAt(s) = Above(r) + c
  <2>1. 1 <= c /\ c <= r /\ r <= Rows
    BY <1>2, SMT
  <2> QED
    BY <1>1, <1>2, <2>1, CubeNumber
<1>4. CASE dir = 1
  <2>1. Hop(s, dir) = <<r + 1, c>>
    BY <1>1, <1>2, <1>4, SMT DEF Hop
  <2>2. 1 <= c /\ c <= r + 1 /\ (r + 1 <= Rows <=> r < Rows) /\ r + 1 \in Int
    BY <1>2, RowsAssumption, SMT
  <2> QED
    BY <1>2, <1>3, <1>4, <2>1, <2>2, MvmtIs, CubeNumber
<1>5. CASE dir = 2
  <2>1. Hop(s, dir) = <<r + 1, c + 1>>
    BY <1>1, <1>2, <1>5, SMT DEF Hop
  <2>2. /\ 1 <= c + 1 /\ c + 1 <= r + 1 /\ (r + 1 <= Rows <=> r < Rows)
        /\ r + 1 \in Int /\ c + 1 \in Int
    BY <1>2, RowsAssumption, SMT
  <2>3. mvmt(2, Above(r) + c) = IF r < Rows THEN Above(r + 1) + (c + 1) ELSE 0
    BY <1>2, MvmtIs
  <2>4. CubeAt(<<r + 1, c + 1>>) =
          IF 1 <= c + 1 /\ c + 1 <= r + 1 /\ r + 1 <= Rows
          THEN Above(r + 1) + (c + 1) ELSE 0
    BY <2>2, CubeNumber
  <2> QED
    BY <1>3, <1>5, <2>1, <2>2, <2>3, <2>4, Zenon
<1>6. CASE dir = 3
  <2>1. Hop(s, dir) = <<r - 1, c - 1>>
    BY <1>1, <1>2, <1>6, SMT DEF Hop
  <2>2. /\ (1 <= c - 1 <=> c > 1) /\ c - 1 <= r - 1 /\ r - 1 <= Rows
        /\ r - 1 \in Int /\ c - 1 \in Int
    BY <1>2, RowsAssumption, SMT
  <2> QED
    BY <1>2, <1>3, <1>6, <2>1, <2>2, MvmtIs, CubeNumber
<1>7. CASE dir = 4
  <2>1. Hop(s, dir) = <<r - 1, c>>
    BY <1>1, <1>2, <1>7, SMT DEF Hop
  <2>2. 1 <= c /\ (c <= r - 1 <=> c < r) /\ r - 1 <= Rows /\ r - 1 \in Int
    BY <1>2, RowsAssumption, SMT
  <2> QED
    BY <1>2, <1>3, <1>7, <2>1, <2>2, MvmtIs, CubeNumber
<1> QED
  BY <1>4, <1>5, <1>6, <1>7, SMT DEF Dirs
=============================================================================
