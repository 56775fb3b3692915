--------------------------- MODULE ImageLoadProofs ----------------------------
(***************************************************************************)
(* What the loading of images guarantees for images of any size, buffers   *)
(* of any size and files of any heights that fit, whatever fails on the    *)
(* card and whenever the board is reset.                                   *)
(***************************************************************************)
EXTENDS ImageLoad, Integers, TLAPS

\* The header of a file announces a row at least: otherwise the loop that
\* gives the channel back does not run (MyMDDFS.c:260).
SomeRows == 0 \notin Heights

\* No file is taller than the screen: the FPGA cannot tell the rows too many of
\* one image from those missing in another.
NoneTaller == \A h \in Heights : h <= Height

-----------------------------------------------------------------------------
(* The channel, the file and the buffers, by the place of the PIC32.       *)

\* Where the PIC32 is among the rows of a file.
Place ==
    /\ pc \in {"boot", "prompt", "image", "card", "rows", "send", "reopen", "acquired"}
    /\ rows \in Nat /\ r \in Nat /\ r <= rows + 1
    /\ pc = "send" => r <= rows
    /\ pc = "reopen" => r < rows

\* Reading rows, the channel and the file are held until the last batch is read.
Holding ==
    /\ pc \in {"card", "reopen"} => reserved /\ ~open
    /\ pc \in {"boot", "prompt", "image", "send", "acquired"} => ~reserved /\ ~open
    /\ pc = "rows" => /\ r <= rows => reserved /\ open
                      /\ r > rows => ~reserved /\ ~open
    /\ pc \in {"boot", "prompt", "image", "card", "acquired"} => ~allocated

HeldInv == Place /\ Holding

LEMMA HeldInit == Init => HeldInv
  BY DEF Init, HeldInv, Place, Holding

LEMMA HeldStep ==
  ASSUME SomeRows, HeldInv, [Next]_vars
  PROVE  HeldInv'
<1> USE DEF HeldInv, Place, Holding, fpga, image
<1>1. ASSUME NEW from, NEW n, Begin(from, n), from \in {"boot", "prompt"}
      PROVE  HeldInv'
  BY <1>1 DEF Begin
<1>2. CASE StartShow
  BY <1>2, <1>1 DEF StartShow
<1>3. CASE AskShow
  BY <1>3, <1>1 DEF AskShow
<1>4. CASE NextImage
  BY <1>4 DEF NextImage
<1>5. CASE SaveSPI
  BY <1>5 DEF SaveSPI
<1>6. CASE NotOpened
  BY <1>6 DEF NotOpened
<1>7. CASE Opened
  <2>1. PICK h \in Heights : rows' = h
    BY <1>7 DEF Opened
  <2>2. h \in Nat /\ 1 <= h
    BY SizesAssumption DEF SomeRows
  <2>3. pc' = "rows" /\ r' = 1
    BY <1>7 DEF Opened
  <2>4. 1 <= h + 1
    BY <2>2
  <2>5. Place'
    BY <2>1, <2>2, <2>3, <2>4
  <2>6. Holding'
    BY <1>7, <2>1, <2>2, <2>3 DEF Opened
  <2> HIDE DEF Place, Holding
  <2> QED
    BY <2>5, <2>6
<1>8. CASE ReadRow
  <2>1. CASE i + 1 = MULT_BUF \/ r = rows
    BY <1>8, <2>1 DEF ReadRow
  <2>2. CASE ~(i + 1 = MULT_BUF \/ r = rows)
    <3>1. r + 1 <= rows /\ r + 1 \in Nat
      BY <1>8, <2>2 DEF ReadRow
    <3>2. r' = r + 1 /\ rows' = rows /\ pc' = "rows" /\ pc = "rows" /\ r <= rows
      BY <1>8, <2>2 DEF ReadRow
    <3>3. reserved' = reserved /\ open' = open
      BY <1>8, <2>2 DEF ReadRow
    <3> QED
      BY <3>1, <3>2, <3>3
  <2> QED
    BY <2>1, <2>2
<1>9. CASE SendPixel
  BY <1>9 DEF SendPixel
<1>10. CASE Sent
  BY <1>10 DEF Sent
<1>11. CASE Reopened
  BY <1>11 DEF Reopened
<1>12. CASE NotReopened
  BY <1>12 DEF NotReopened
<1>13. CASE Acquired
  BY <1>13 DEF Acquired
<1>14. CASE Restart
  BY <1>14 DEF Restart
<1>15. CASE Switch
  BY <1>15 DEF Switch
<1>16. CASE UNCHANGED vars
  BY <1>16 DEF vars
<1> QED
  BY <1>2, <1>3, <1>4, <1>5, <1>6, <1>7, <1>8, <1>9, <1>10, <1>11, <1>12,
     <1>13, <1>14, <1>15, <1>16 DEF Next, Load

\* If every file has a row, the FPGA and the card never use the channel at once
\* and the main loop finds neither channel, file nor buffers kept, whatever
\* fails and whenever the board is reset, for images and batches of any size.
THEOREM NothingIsKept ==
  ASSUME SomeRows PROVE Spec => []NothingKept
<1>1. HeldInv => NothingKept
  BY DEF HeldInv, Place, Holding, NothingKept
<1> QED
  BY <1>1, HeldInit, HeldStep, PTL DEF Spec

-----------------------------------------------------------------------------
(* The pixels stored, by the place of the PIC32.                           *)

\* The first n cells of memory m hold the rows of the first images, in order.
Right(n, m) ==
    \A c \in 0..(n - 1) : m[c] = <<(c \div Height) + 1, (c % Height) + 1>>

\* n pixels would be stored had every image been of full height: either w = n
\* are and all is right, or an image was too low and fewer are.
OnCourse(n, w, m) == w < n \/ (w = n /\ Right(n, m))

\* The pixels sent of the show, had all the images before been of full height;
\* all of them once the show has ended, or failed.
Due ==
    CASE pc = "boot" -> 0
      [] pc \in {"image", "card"} -> img * Height
      [] pc = "rows" -> img * Height + (r - 1 - i)
      [] pc = "send" -> img * Height + (r - i + j)
      [] pc = "reopen" -> img * Height + r
      [] pc = "acquired" -> img * Height + rows
      [] pc = "prompt" -> StartImages * Height

\* The variables of MyMDDFS_ReadImg, and the cells there are.
Batch ==
    /\ pc \in {"boot", "prompt", "image", "card", "rows", "send", "reopen", "acquired"}
    /\ shows \in Nat /\ DOMAIN memory = Cells
    /\ rows \in Nat /\ rows <= Height /\ r \in Nat /\ i \in Nat /\ j \in Nat
    /\ pc = "rows" => i < r /\ j = 0 /\ r <= rows + 1 /\ (r > rows => i = 0)
    /\ pc = "send" => i <= r /\ r <= rows /\ j <= i
    /\ pc = "reopen" => r < rows /\ i = 0 /\ j = 0

\* The FPGA's view of the show.
Counted ==
    /\ wr \in Nat /\ counter_pix = wr
    /\ pc = "boot" => ImgNum = 0
    /\ pc # "boot" => ImgNum = StartImages /\ num_img = StartImages
    /\ pc \notin {"boot", "prompt"} => img \in {0, 1}
    /\ wait_dly <=> (wr = StartImages * Height)
    /\ loading <=> (wr > 0 /\ wr < StartImages * Height)

StoredInv ==
    /\ Batch
    /\ shows = 0 => Counted /\ OnCourse(Due, wr, memory)

LEMMA Later ==
  ASSUME NEW n \in Int, NEW k \in Int, NEW w \in Nat, NEW m, OnCourse(n, w, m), n <= k
  PROVE  OnCourse(k, w, m)
BY DEF OnCourse

LEMMA TwoHeights == StartImages * Height = Height + Height /\ Height \in Nat /\ Height > 0
BY SizesAssumption DEF StartImages

LEMMA Above0 ==
  ASSUME NEW k \in {0, 1} PROVE k * Height \in {0, Height} /\ (k = 0 => k * Height = 0)
                                /\ (k = 1 => k * Height = Height)
BY SizesAssumption

\* The pixel of row s + 1 of image k + 1 is the one the show has there.
LEMMA CellOf ==
  ASSUME NEW k \in {0, 1}, NEW s \in Nat, s < Height
  PROVE  (k * Height + s) \div Height = k /\ (k * Height + s) % Height = s
<1>1. Height \in Nat /\ Height > 0 /\ s \in 0..(Height - 1)
  BY SizesAssumption
<1>2. s \div Height = 0 /\ s % Height = s
  BY <1>1
<1>3. (Height + s) \div Height = 1 /\ (Height + s) % Height = s
  BY <1>1
<1>4. CASE k = 0
  BY <1>1, <1>2, <1>4
<1>5. CASE k = 1
  BY <1>1, <1>3, <1>5
<1> QED
  BY <1>4, <1>5

LEMMA CellsEnough == \A c \in 0..(StartImages * Height) : c \in Cells
<1>1. MAX_NUM * MaxShows \in Nat /\ Height \in Nat
  BY SizesAssumption
<1>2. \A x \in Nat : x * Height \in Nat /\ (StartImages + x) * Height = StartImages * Height + x * Height
  BY <1>1 DEF StartImages
<1> DEFINE last == (StartImages + MAX_NUM * MaxShows) * Height
<1>3. last \in Int /\ StartImages * Height \in Int /\ last >= StartImages * Height
  BY <1>1, <1>2, TwoHeights
<1>4. Cells = 0..last
  BY DEF Cells
<1> HIDE DEF last
<1> QED
  BY <1>3, <1>4

LEMMA StoredInit == Init => StoredInv
<1> SUFFICES ASSUME Init PROVE StoredInv
  OBVIOUS
<1>1. Batch
  BY SizesAssumption DEF Init, Batch
<1>2. Counted
  BY TwoHeights DEF Init, Counted
<1>3. Due = 0 /\ wr = 0
  BY DEF Init, Due
<1> QED
  BY <1>1, <1>2, <1>3 DEF StoredInv, OnCourse, Right

LEMMA BatchStep ==
  ASSUME NoneTaller, Batch, [Next]_vars
  PROVE  Batch'
<1> USE DEF Batch, fpga, image
<1>1. ASSUME NEW from, NEW n, Begin(from, n)
      PROVE  /\ pc' = "image" /\ rows' = rows /\ r' = r /\ i' = i /\ j' = j
             /\ memory' = memory
  BY <1>1 DEF Begin, WriteImgNum
<1>2. CASE StartShow
  BY <1>2, <1>1 DEF StartShow
<1>3. CASE AskShow
  BY <1>3, <1>1 DEF AskShow
<1>4. CASE NextImage
  BY <1>4 DEF NextImage
<1>5. CASE SaveSPI
  BY <1>5 DEF SaveSPI
<1>6. CASE NotOpened
  BY <1>6 DEF NotOpened
<1>7. CASE Opened
  <2>1. PICK h \in Heights : rows' = h
    BY <1>7 DEF Opened
  <2>2. h \in Nat /\ h <= Height /\ 1 <= h + 1 /\ (1 > h => 0 = 0)
    BY SizesAssumption DEF NoneTaller
  <2> QED
    BY <1>7, <2>1, <2>2 DEF Opened
<1>8. CASE ReadRow
  BY <1>8 DEF ReadRow
<1>9. CASE SendPixel
  BY <1>9 DEF SendPixel, WritePixel
<1>10. CASE Sent
  BY <1>10 DEF Sent
<1>11. CASE Reopened
  BY <1>11 DEF Reopened
<1>12. CASE NotReopened
  BY <1>12 DEF NotReopened
<1>13. CASE Acquired
  BY <1>13 DEF Acquired
<1>14. CASE Restart
  BY <1>14, SizesAssumption DEF Restart
<1>15. CASE Switch
  BY <1>15 DEF Switch
<1>16. CASE UNCHANGED vars
  BY <1>16 DEF vars
<1> QED
  BY <1>2, <1>3, <1>4, <1>5, <1>6, <1>7, <1>8, <1>9, <1>10, <1>11, <1>12,
     <1>13, <1>14, <1>15, <1>16 DEF Next, Load

\* The steps of the PIC32 alone: the FPGA sees nothing, and nothing is due that
\* was not.
LEMMA Unseen ==
  ASSUME Counted, OnCourse(Due, wr, memory), UNCHANGED <<fpga, num_img>>,
         pc # "boot", pc' # "boot", pc' # "prompt" => img' \in {0, 1},
         Due \in Int, NEW d \in Int, Due' = d, Due <= d
  PROVE  Counted' /\ OnCourse(Due, wr, memory)'
<1>1. Counted'
  BY DEF Counted, fpga
<1>2. OnCourse(d, wr, memory)
  BY Later DEF Counted
<1>3. wr' = wr /\ memory' = memory
  BY DEF fpga
<1> QED
  BY <1>1, <1>2, <1>3

LEMMA PicStep ==
  ASSUME NoneTaller, Batch, Counted, OnCourse(Due, wr, memory),
         \/ NextImage \/ SaveSPI \/ NotOpened \/ Opened \/ ReadRow
         \/ Sent \/ Reopened \/ NotReopened \/ Acquired
  PROVE  Counted' /\ OnCourse(Due, wr, memory)'
<1> USE DEF image
<1> DEFINE base == img * Height
<1>0. /\ pc # "boot" /\ pc # "prompt" /\ pc' # "boot" /\ UNCHANGED <<fpga, num_img>>
      /\ img \in {0, 1}
  BY DEF NextImage, SaveSPI, NotOpened, Opened, ReadRow, Sent, Reopened,
         NotReopened, Acquired, Counted
<1>1. /\ base \in Nat /\ base + Height <= StartImages * Height
      /\ base <= StartImages * Height /\ StartImages * Height \in Int
  BY <1>0, Above0, TwoHeights
<1>2. rows \in Nat /\ rows <= Height /\ r \in Nat /\ i \in Nat /\ j \in Nat /\ Height \in Nat
  BY TwoHeights DEF Batch
<1>3. CASE NextImage
  <2>1. Due = base + rows
    BY <1>3 DEF NextImage, Due
  <2>2. CASE img = 0
    <3>1. pc' = "image" /\ img' = 1 /\ (img + 1) * Height = Height /\ base = 0
      BY <1>3, <2>2, <1>0, TwoHeights DEF NextImage, Counted, StartImages
    <3>2. Due' = Height
      BY <3>1, TwoHeights DEF Due
    <3> QED
      BY <1>0, <1>2, <2>1, <3>1, <3>2, Unseen
  <2>3. CASE img = 1
    <3>1. pc' = "prompt"
      BY <1>3, <2>3, <1>0 DEF NextImage, Counted, StartImages
    <3>2. Due' = StartImages * Height
      BY <3>1 DEF Due
    <3> HIDE DEF base
    <3> QED
      BY <1>0, <1>1, <1>2, <2>1, <3>1, <3>2, Unseen
  <2> QED
    BY <1>0, <2>2, <2>3
<1>4. CASE SaveSPI
  <2>1. Due = base /\ Due' = base /\ img' = img
    BY <1>4 DEF SaveSPI, Due
  <2> QED
    BY <1>0, <1>1, <2>1, Unseen
<1>5. CASE NotOpened
  <2>1. Due = base /\ Due' = StartImages * Height /\ pc' = "prompt"
    BY <1>5 DEF NotOpened, Due
  <2> QED
    BY <1>0, <1>1, <2>1, Unseen
<1>6. CASE Opened
  <2>1. Due = base /\ Due' = base + (1 - 1 - 0) /\ img' = img
    BY <1>6 DEF Opened, Due
  <2> HIDE DEF base
  <2>2. Due' = base
    BY <1>1, <2>1
  <2> QED
    BY <1>0, <1>1, <2>1, <2>2, Unseen
<1>7. CASE ReadRow
  <2>1. Due = base + (r - 1 - i) /\ img' = img /\ i' = i + 1 /\ j = 0 /\ j' = 0
    BY <1>7 DEF ReadRow, Due, Batch
  <2>2. CASE pc' = "send"
    <3>1. r' = r
      BY <1>7, <2>2 DEF ReadRow
    <3>2. Due' = base + (r - (i + 1) + 0)
      BY <2>1, <2>2, <3>1 DEF Due
    <3> HIDE DEF base
    <3>3. Due' = base + (r - 1 - i)
      BY <1>1, <1>2, <3>2
    <3> QED
      BY <1>0, <1>1, <1>2, <2>1, <3>3, Unseen
  <2>3. CASE pc' = "rows"
    <3>1. r' = r + 1
      BY <1>7, <2>3 DEF ReadRow
    <3>2. Due' = base + ((r + 1) - 1 - (i + 1))
      BY <2>1, <2>3, <3>1 DEF Due
    <3> HIDE DEF base
    <3>3. Due' = base + (r - 1 - i)
      BY <1>1, <1>2, <3>2
    <3> QED
      BY <1>0, <1>1, <1>2, <2>1, <3>3, Unseen
  <2> QED
    BY <1>7, <2>2, <2>3 DEF ReadRow
<1>8. CASE Sent
  <2>1. Due = base + (r - i + i) /\ img' = img /\ i' = 0 /\ j' = 0 /\ rows' = rows
    BY <1>8 DEF Sent, Due
  <2>2. CASE r # rows
    <3>1. pc' = "reopen" /\ r' = r
      BY <1>8, <2>2 DEF Sent
    <3>2. Due' = base + r
      BY <2>1, <3>1 DEF Due
    <3> HIDE DEF base
    <3> QED
      BY <1>0, <1>1, <1>2, <2>1, <3>2, Unseen
  <2>3. CASE r = rows
    <3>1. pc' = "rows" /\ r' = r + 1
      BY <1>8, <2>3 DEF Sent
    <3>2. Due' = base + ((r + 1) - 1 - 0)
      BY <2>1, <3>1 DEF Due
    <3> HIDE DEF base
    <3>3. Due' = base + r
      BY <1>1, <1>2, <3>2
    <3> QED
      BY <1>0, <1>1, <1>2, <2>1, <3>3, Unseen
  <2> QED
    BY <2>2, <2>3
<1>9. CASE Reopened
  <2>1. Due = base + r /\ Due' = base + ((r + 1) - 1 - 0) /\ img' = img
    BY <1>9 DEF Reopened, Due, Batch
  <2> HIDE DEF base
  <2>2. Due' = base + r
    BY <1>1, <1>2, <2>1
  <2> QED
    BY <1>0, <1>1, <1>2, <2>1, <2>2, Unseen
<1>10. CASE NotReopened
  <2>1. Due = base + r /\ Due' = StartImages * Height /\ pc' = "prompt" /\ r < rows
    BY <1>10 DEF NotReopened, Due, Batch
  <2> HIDE DEF base
  <2> QED
    BY <1>0, <1>1, <1>2, <2>1, Unseen
<1>11. CASE Acquired
  <2>1. /\ Due = base + (r - 1 - i) /\ Due' = base + rows /\ img' = img
        /\ i = 0 /\ r = rows + 1
    BY <1>2, <1>11 DEF Acquired, Due, Batch
  <2> HIDE DEF base
  <2> QED
    BY <1>0, <1>1, <1>2, <2>1, Unseen
<1> QED
  BY <1>3, <1>4, <1>5, <1>6, <1>7, <1>8, <1>9, <1>10, <1>11

\* A pixel goes where it is due, unless an image before was too low.
LEMMA PixelStep ==
  ASSUME Batch, Counted, OnCourse(Due, wr, memory), SendPixel
  PROVE  Counted' /\ OnCourse(Due, wr, memory)'
<1> DEFINE base == img * Height
           s == r - i + j
<1>1. /\ pc = "send" /\ pc' = "send" /\ j < i /\ img' = img /\ num_img' = num_img
      /\ r' = r /\ i' = i /\ j' = j + 1
      /\ wr' = wr + 1 /\ memory' = [memory EXCEPT ![wr] = <<img + 1, s + 1>>]
      /\ ImgNum' = ImgNum /\ counter_pix' = wr + 1
      /\ wait_dly' = (wait_dly \/ AllCounted(ImgNum, wr + 1))
      /\ loading' = (~wait_dly' /\ (loading \/ wr + 1 > 0))
  BY DEF SendPixel, image, WritePixel, Settle, Counted
<1>2. /\ img \in {0, 1} /\ ImgNum = StartImages /\ num_img = StartImages
      /\ wr \in Nat /\ Height \in Nat
      /\ wait_dly <=> (wr = StartImages * Height)
  BY <1>1, TwoHeights DEF Counted
<1>3. s \in Nat /\ s < Height
  BY <1>1, TwoHeights DEF Batch
<1>4. base \in Nat /\ base + Height <= StartImages * Height /\ StartImages * Height \in Nat
  BY <1>2, Above0, TwoHeights
<1>5. (base + s) \div Height = img /\ (base + s) % Height = s
  BY <1>2, <1>3, CellOf
<1>6. Due = base + s
  BY <1>1 DEF Due
<1>7. Due' = base + (r - i + (j + 1))
  BY <1>1 DEF Due
<1>8. base + (r - i + (j + 1)) = (base + s) + 1
  BY <1>3, <1>4 DEF Batch
<1> HIDE DEF base, s
<1>9. wr <= base + s
  BY <1>2, <1>3, <1>4, <1>6 DEF OnCourse
<1>10. wr < StartImages * Height
  BY <1>2, <1>3, <1>4, <1>9
<1>11. Counted'
  <2>1. ImgNum > 0
    BY <1>2 DEF StartImages
  <2>2. wait_dly' <=> (wr + 1 = StartImages * Height)
    <3>1. AllCounted(ImgNum, wr + 1) <=> (wr + 1 = StartImages * Height)
      BY <1>2, <2>1 DEF AllCounted
    <3>2. ~wait_dly
      BY <1>2, <1>4, <1>10
    <3> QED
      BY <1>1, <3>1, <3>2, Zenon
  <2>3. loading' <=> (wr + 1 > 0 /\ wr + 1 < StartImages * Height)
    <3>1. wr + 1 > 0 /\ wr + 1 <= StartImages * Height /\ wr + 1 \in Nat
      BY <1>2, <1>4, <1>10
    <3>2. loading' <=> ~wait_dly'
      BY <1>1, <3>1, Zenon
    <3> QED
      BY <1>4, <2>2, <3>1, <3>2
  <2> QED
    BY <1>1, <1>2, <2>2, <2>3 DEF Counted
<1>12. OnCourse((base + s) + 1, wr + 1, memory')
  <2>1. CASE wr < base + s
    BY <1>2, <1>3, <1>4, <2>1 DEF OnCourse
  <2>2. CASE wr = base + s /\ Right(base + s, memory)
    <3> DEFINE last == base + s
    <3>1. last \in Nat /\ last \in DOMAIN memory
      BY <1>2, <1>3, <1>4, <1>10, <2>2, CellsEnough DEF Batch
    <3>2. memory'[last] = <<img + 1, s + 1>>
      BY <1>1, <2>2, <3>1
    <3>3. \A c : c # last => memory'[c] = memory[c] \/ c \notin DOMAIN memory
      BY <1>1, <2>2
    <3>4. \A c \in 0..last : c \in DOMAIN memory
      BY <1>4, <1>10, <2>2, <3>1, CellsEnough DEF Batch
    <3>5. last \div Height = img /\ last % Height = s
      BY <1>5
    <3>6. Right(last, memory) /\ wr = last
      BY <2>2
    <3> HIDE DEF last
    <3>7. ASSUME NEW c \in 0..((last + 1) - 1)
          PROVE  memory'[c] = <<(c \div Height) + 1, (c % Height) + 1>>
      <4>1. CASE c = last
        BY <3>2, <3>5, <4>1
      <4>2. CASE c # last
        <5>1. c \in 0..(last - 1) /\ c \in 0..last
          BY <3>1, <4>2
        <5> QED
          BY <3>3, <3>4, <3>6, <4>2, <5>1 DEF Right
      <4> QED
        BY <4>1, <4>2
    <3>8. Right(last + 1, memory')
      BY <3>7 DEF Right
    <3> QED
      BY <3>6, <3>8 DEF OnCourse, last
  <2> QED
    BY <1>6, <2>1, <2>2 DEF OnCourse
<1> QED
  BY <1>1, <1>7, <1>8, <1>11, <1>12

LEMMA StoredStep ==
  ASSUME NoneTaller, StoredInv, [Next]_vars
  PROVE  StoredInv'
<1>1. Batch'
  BY BatchStep DEF StoredInv
<1> SUFFICES ASSUME shows' = 0
             PROVE  Counted' /\ OnCourse(Due, wr, memory)'
  BY <1>1 DEF StoredInv
<1>2. CASE StartShow
  <2>1. /\ pc = "boot" /\ pc' = "image" /\ num_img' = StartImages /\ img' = 0
        /\ memory' = memory /\ wr' = wr /\ shows = 0
        /\ ImgNum' = StartImages /\ counter_pix' = counter_pix
        /\ wait_dly' = (wait_dly \/ AllCounted(StartImages, counter_pix))
        /\ loading' = (~wait_dly' /\ (loading \/ counter_pix > 0))
    BY <1>2 DEF StartShow, Begin, WriteImgNum, Settle
  <2>2. Counted /\ OnCourse(Due, wr, memory)
    BY <2>1 DEF StoredInv
  <2>3. wr = 0
    BY <2>1, <2>2 DEF Due, OnCourse, Counted
  <2>4. Counted'
    <3>1. counter_pix = 0 /\ wr \in Nat /\ 0 # StartImages * Height
      BY <2>2, <2>3, TwoHeights DEF Counted
    <3>2. ~AllCounted(StartImages, counter_pix) /\ ~(counter_pix > 0)
      BY <3>1 DEF AllCounted
    <3>3. ~wait_dly /\ ~loading
      BY <2>2, <2>3, <3>1 DEF Counted
    <3>4. ~wait_dly' /\ ~loading'
      BY <2>1, <3>2, <3>3, Zenon
    <3> QED
      BY <2>1, <2>3, <3>1, <3>4 DEF Counted
  <2>5. Due' = 0 * Height
    BY <2>1 DEF Due
  <2>6. 0 * Height = 0 /\ Right(0, memory)
    BY TwoHeights DEF Right
  <2> QED
    BY <2>1, <2>3, <2>4, <2>5, <2>6 DEF OnCourse
<1>3. CASE AskShow
  BY <1>3, <1>1 DEF AskShow, StoredInv, Batch
<1>4. CASE SendPixel
  BY <1>4, PixelStep DEF StoredInv, SendPixel
<1>5. CASE \/ NextImage \/ SaveSPI \/ NotOpened \/ Opened \/ ReadRow
           \/ Sent \/ Reopened \/ NotReopened \/ Acquired
  <2>1. shows = 0
    BY <1>5 DEF NextImage, SaveSPI, NotOpened, Opened, ReadRow, Sent, Reopened,
                NotReopened, Acquired
  <2> QED
    BY <1>5, <2>1, PicStep DEF StoredInv
<1>6. CASE Restart
  <2>1. /\ pc' = "boot" /\ ImgNum' = 0 /\ counter_pix' = 0 /\ wr' = 0
        /\ loading' = FALSE /\ wait_dly' = FALSE
    BY <1>6 DEF Restart
  <2>2. Counted'
    BY <2>1, TwoHeights DEF Counted
  <2>3. Due' = 0 /\ Right(0, memory')
    BY <2>1 DEF Due, Right
  <2> QED
    BY <2>1, <2>2, <2>3 DEF OnCourse
<1>7. CASE Switch \/ UNCHANGED vars
  <2>1. UNCHANGED <<pc, num_img, img, rows, r, i, j, ImgNum, counter_pix,
                    memory, wr, loading, wait_dly, shows>>
    BY <1>7 DEF Switch, image, vars
  <2>2. Due' = Due
    BY <2>1 DEF Due
  <2> QED
    BY <2>1, <2>2 DEF StoredInv, Counted
<1> QED
  BY <1>2, <1>3, <1>4, <1>5, <1>6, <1>7 DEF Next, Load

\* If no file is taller than the screen, the FPGA takes the images of the show
\* that main loads for loaded only when the memory holds them all, in order, and
\* shows the loading screen exactly while it has a part of them; whatever fails,
\* however low a file is, and whenever the board is reset.
THEOREM LoadedIsComplete ==
  ASSUME NoneTaller PROVE Spec => []LoadedIsInMemory
<1>1. StoredInv => LoadedIsInMemory
  <2> SUFFICES ASSUME StoredInv, shows = 0
               PROVE  /\ wait_dly => ShowInMemory(ImgNum)
                      /\ loading <=> counter_pix > 0 /\ counter_pix < StartImages * Height
    BY DEF LoadedIsInMemory
  <2>1. Counted /\ OnCourse(Due, wr, memory) /\ Batch
    BY DEF StoredInv
  <2>2. ASSUME wait_dly
        PROVE  ShowInMemory(ImgNum)
    <3>1. wr = StartImages * Height
      BY <2>1, <2>2 DEF Counted
    <3>2. Due \in Int /\ Due <= StartImages * Height
      <4> DEFINE base == img * Height
      <4>1. CASE pc \in {"boot", "prompt"}
        BY <4>1, TwoHeights DEF Due
      <4>2. CASE pc \notin {"boot", "prompt"}
        <5>1. base \in Nat /\ base + Height <= StartImages * Height
          BY <2>1, <4>2, Above0, TwoHeights DEF Counted
        <5> DEFINE sent == IF pc \in {"image", "card"} THEN 0
                           ELSE IF pc = "rows" THEN r - 1 - i
                           ELSE IF pc = "send" THEN r - i + j
                           ELSE IF pc = "reopen" THEN r ELSE rows
        <5>2. sent \in 0..Height
          BY <2>1, <4>2, TwoHeights DEF Batch
        <5>3. Due = base + sent \/ (Due = base /\ sent = 0)
          BY <2>1, <4>2 DEF Due, Batch
        <5> HIDE DEF base, sent
        <5> QED
          BY <5>1, <5>2, <5>3, TwoHeights
      <4> QED
        BY <4>1, <4>2
    <3>3. Right(StartImages * Height, memory)
      BY <2>1, <3>1, <3>2, TwoHeights DEF OnCourse
    <3>4. ImgNum = StartImages
      BY <2>1, <3>1, TwoHeights DEF Counted, Due, OnCourse
    <3> QED
      BY <3>3, <3>4 DEF Right, ShowInMemory
  <2>3. loading <=> counter_pix > 0 /\ counter_pix < StartImages * Height
    BY <2>1 DEF Counted
  <2> QED
    BY <2>2, <2>3
<1> QED
  BY <1>1, StoredInit, StoredStep, PTL DEF Spec
=============================================================================
