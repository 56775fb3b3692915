------------------------------ MODULE ImageLoad ------------------------------
(***************************************************************************)
(* The images that a PIC32 reads from its SD card and sends, pixel after   *)
(* pixel, to the FPGA, and what the FPGA makes of them: it counts the      *)
(* pixels, stores them in the SDRAM one after the other, and takes the     *)
(* images for loaded when it has counted as many as the show announced has.*)
(* Card and FPGA share the SPI channel, so the PIC32 reads a few rows with *)
(* the channel reserved for the card, closes the file, releases the        *)
(* channel, sends the rows, and opens the file again.  Images are one      *)
(* pixel wide; the FPGA, clocked at 33 and 50 MHz, settles between two     *)
(* writes.                                                                 *)
(***************************************************************************)
EXTENDS Naturals

CONSTANTS
    Height,        \* the rows the FPGA expects of an image (480 in the code)
    Heights,       \* the rows that the headers of the files announce
    MULT_BUF,      \* the rows the buffers hold
    MAX_NUM,       \* the images of a show at most
    MaxShows       \* bounds the shows the user asks for

ASSUME SizesAssumption ==
    /\ {Height, MULT_BUF, MAX_NUM} \subseteq Nat \ {0}
    /\ Heights \subseteq Nat /\ MaxShows \in Nat

StartImages == 2   \* of the show that main loads

VARIABLES
    pc,                     \* where the PIC32 is
    num_img, img,           \* the images of the show, and the current one
    rows, r, i, j,          \* its rows, and the variables of MyMDDFS_ReadImg
    reserved, open,         \* the channel is the card's, the file is open
    allocated,              \* the buffers are allocated
    ImgNum, counter_pix,    \* the FPGA's registers
    memory, wr,             \* the SDRAM and where the next pixel goes
    loading, wait_dly,
    current_img, bg_img,    \* the image shown, and the one the switches choose
    shows                   \* the shows the user has asked for

vars == <<pc, num_img, img, rows, r, i, j, reserved, open, allocated, ImgNum,
          counter_pix, memory, wr, loading, wait_dly, current_img, bg_img,
          shows>>
fpga == <<ImgNum, counter_pix, memory, wr, loading, wait_dly, current_img, bg_img>>
image == <<num_img, img, rows>>

Cells == 0..((StartImages + MAX_NUM * MaxShows) * Height)
Blank == <<0, 0>>

Init ==
    /\ pc = "boot"
    /\ num_img = 0 /\ img = 0 /\ rows = 0 /\ r = 1 /\ i = 0 /\ j = 0
    /\ reserved = FALSE /\ open = FALSE /\ allocated = FALSE
    /\ ImgNum = 0 /\ counter_pix = 0 /\ wr = 0
    /\ memory = [c \in Cells |-> Blank]
    /\ loading = FALSE /\ wait_dly = FALSE /\ current_img = 0
    /\ bg_img \in {1, 2}
    /\ shows = 0

-----------------------------------------------------------------------------
(* The FPGA, after a write of ImgNum or of a pixel.                        *)

\* Bug: the last pixel is not waited for.
AllButOneCounted(n, pixels) == n > 0 /\ pixels + 1 = n * Height

AllCounted(n, pixels) == n > 0 /\ pixels = n * Height

Settle(n, pixels) ==
    /\ ImgNum' = n /\ counter_pix' = pixels
    /\ wait_dly' = (wait_dly \/ AllCounted(n, pixels))
    /\ loading' = (~wait_dly' /\ (loading \/ pixels > 0))
    /\ current_img' = IF AllCounted(n, pixels) THEN bg_img ELSE current_img
    /\ UNCHANGED bg_img

WriteImgNum(n) ==
    /\ Settle(n, counter_pix)
    /\ UNCHANGED <<memory, wr>>

\* The write of Blue pulses Trigger.
WritePixel(v) ==
    /\ Settle(ImgNum, counter_pix + 1)
    /\ memory' = [memory EXCEPT ![wr] = v]
    /\ wr' = wr + 1

-----------------------------------------------------------------------------
(* The PIC32: loadStartShow and loadSlideshow.                             *)

Begin(from, n) ==
    /\ pc = from /\ pc' = "image"
    /\ num_img' = n /\ img' = 0
    /\ WriteImgNum(n)
    /\ UNCHANGED <<rows, r, i, j, reserved, open, allocated>>

StartShow == Begin("boot", StartImages) /\ UNCHANGED shows

AskShow ==
    /\ shows < MaxShows
    /\ shows' = shows + 1
    /\ \E n \in 1..MAX_NUM : Begin("prompt", n)

NextImage ==
    /\ pc = "acquired"
    /\ img' = img + 1
    /\ pc' = IF img + 1 < num_img THEN "image" ELSE "prompt"
    /\ UNCHANGED <<num_img, rows, r, i, j, reserved, open, allocated, fpga, shows>>

(* MyMDDFS_ReadImg.                                                        *)

SaveSPI ==
    /\ pc = "image" /\ pc' = "card"
    /\ reserved' = TRUE
    /\ UNCHANGED <<image, r, i, j, open, allocated, fpga, shows>>

\* No card, a card that cannot be initialised, no such file.
NotOpened ==
    /\ pc = "card"
    /\ reserved' = FALSE
    /\ pc' = "prompt"
    /\ UNCHANGED <<image, r, i, j, open, allocated, fpga, shows>>

Opened ==
    /\ pc = "card" /\ pc' = "rows"
    /\ open' = TRUE /\ allocated' = TRUE
    /\ rows' \in Heights
    /\ r' = 1 /\ i' = 0 /\ j' = 0
    /\ UNCHANGED <<num_img, img, reserved, fpga, shows>>

\* The buffers take a row; with the last one they hold, or the last one of the
\* image, the file is closed and the channel released.
ReadRow ==
    /\ pc = "rows" /\ r <= rows
    /\ i' = i + 1
    /\ IF i + 1 = MULT_BUF \/ r = rows
       THEN /\ pc' = "send"
            /\ open' = FALSE /\ reserved' = FALSE
            /\ UNCHANGED r
       ELSE r' = r + 1 /\ UNCHANGED <<pc, open, reserved>>
    /\ UNCHANGED <<image, j, allocated, fpga, shows>>

\* The buffers hold the rows r - i + 1 to r.
SendPixel ==
    /\ pc = "send" /\ j < i
    /\ WritePixel(<<img + 1, r - i + j + 1>>)
    /\ j' = j + 1
    /\ UNCHANGED <<pc, image, r, i, reserved, open, allocated, shows>>

\* Bug: the next rows are sent from where the last ones ended.
SentFromThere ==
    /\ pc = "send" /\ j = i
    /\ i' = 0
    /\ IF r # rows THEN pc' = "reopen" /\ reserved' = TRUE /\ UNCHANGED r
       ELSE pc' = "rows" /\ r' = r + 1 /\ UNCHANGED reserved
    /\ UNCHANGED <<image, j, open, allocated, fpga, shows>>

Sent ==
    /\ pc = "send" /\ j = i
    /\ i' = 0 /\ j' = 0
    /\ IF r # rows THEN pc' = "reopen" /\ reserved' = TRUE /\ UNCHANGED r
       ELSE pc' = "rows" /\ r' = r + 1 /\ UNCHANGED reserved
    /\ UNCHANGED <<image, open, allocated, fpga, shows>>

Reopened ==
    /\ pc = "reopen" /\ pc' = "rows"
    /\ open' = TRUE
    /\ r' = r + 1
    /\ UNCHANGED <<image, i, j, reserved, allocated, fpga, shows>>

\* Bug: the buffers are not freed.
NotReopenedNorFreed ==
    /\ pc = "reopen"
    /\ reserved' = FALSE
    /\ pc' = "prompt"
    /\ UNCHANGED <<image, r, i, j, open, allocated, fpga, shows>>

NotReopened ==
    /\ pc = "reopen"
    /\ reserved' = FALSE /\ allocated' = FALSE
    /\ pc' = "prompt"
    /\ UNCHANGED <<image, r, i, j, open, fpga, shows>>

Acquired ==
    /\ pc = "rows" /\ r > rows
    /\ pc' = "acquired"
    /\ allocated' = FALSE
    /\ UNCHANGED <<image, r, i, j, reserved, open, fpga, shows>>

-----------------------------------------------------------------------------
\* The PIC32 starts again, and resets the FPGA; the SDRAM keeps its contents.
Restart ==
    /\ pc' = "boot"
    /\ num_img' = 0 /\ img' = 0 /\ rows' = 0 /\ r' = 1 /\ i' = 0 /\ j' = 0
    /\ reserved' = FALSE /\ open' = FALSE /\ allocated' = FALSE
    /\ ImgNum' = 0 /\ counter_pix' = 0 /\ wr' = 0
    /\ loading' = FALSE /\ wait_dly' = FALSE /\ current_img' = 0
    /\ shows' = 0
    /\ UNCHANGED <<memory, bg_img>>

\* The switches of the board.
Switch ==
    /\ bg_img' \in {1, 2} \ {bg_img}
    /\ current_img' = IF AllCounted(ImgNum, counter_pix) THEN bg_img'
                     ELSE current_img
    /\ UNCHANGED <<pc, image, r, i, j, reserved, open, allocated, ImgNum,
                   counter_pix, memory, wr, loading, wait_dly, shows>>

Load ==
    \/ StartShow \/ NextImage \/ SaveSPI \/ NotOpened \/ Opened \/ ReadRow
    \/ SendPixel \/ Sent \/ Reopened \/ NotReopened \/ Acquired

Next == Load \/ AskShow \/ Restart \/ Switch

Spec == Init /\ [][Next]_vars

\* The PIC32 goes on.
FairSpec == Spec /\ WF_vars(Load)

-----------------------------------------------------------------------------
\* Whatever fails: the FPGA is written to only while the channel is not the
\* card's, and the card is read only while it is; and back in the main loop
\* nothing is kept: neither the channel and the interrupts with it, nor the
\* file, nor the buffers (MyMDDFS.c:40-66 and 188-353).
NothingKept ==
    /\ pc = "send" => ~reserved
    /\ open => reserved
    /\ pc = "prompt" => ~reserved /\ ~open /\ ~allocated

ShowInMemory(n) ==
    \A c \in 0..(n * Height - 1) :
        memory[c] = <<(c \div Height) + 1, (c % Height) + 1>>

\* Whatever fails, as long as the user asks for no other show: when the FPGA
\* takes the images for loaded, the memory holds them, in order, and images
\* that are too low are never taken for it; while it has a part of them, it
\* shows the loading screen.  A second show is counted on top of the first one:
\* nothing clears counter_pix but a reset (DE0_NANO.sv:369-377, 489-513).
LoadedIsInMemory ==
    shows = 0 =>
        /\ wait_dly => ShowInMemory(ImgNum)
        /\ loading <=> counter_pix > 0 /\ counter_pix < StartImages * Height

\* The show that main loads ends, one way or the other, unless the PIC32 is
\* restarted again and again.
ShowEnds == (pc # "prompt") ~> (pc \in {"prompt", "boot"})
=============================================================================
