------------------------------- MODULE SpiSlave -------------------------------
(***************************************************************************)
(* The slave of MySPI.sv bit by bit, and the PIC32 that clocks a transfer  *)
(* into it (MyCyclone.c, MySPI.c) with a clock of its own.  The slave looks*)
(* at the lines once per tick of theClock through two flip-flops; the PIC32*)
(* changes a line between two ticks, and may be restarted anywhere in a    *)
(* transfer.  NiosPlay takes such a transfer for one step.                 *)
(***************************************************************************)
EXTENDS Naturals

CONSTANTS
    W,                        \* bits of a byte, 8 on the board
    A_Led70, A_Blue, A_Status,\* a register that both ends use, the one that
                              \* pulls Trigger, and an input of the FPGA
    Values,                   \* the bytes the PIC32 writes
    Inputs,                   \* what Status may be
    Resets                    \* may the FPGA be reset (PIC32_RESET)?

ASSUME WidthAssumption == W \in Nat \ {0, 1} /\ Resets \in BOOLEAN

\* A byte is a vector of bits, the most significant one first.
Byte == [1..W -> {0, 1}]
Zero == [i \in 1..W |-> 0]

ASSUME AddressAssumption ==
    /\ A_Led70 # A_Blue /\ A_Led70 # A_Status /\ A_Blue # A_Status
    /\ {A_Led70, A_Blue, A_Status} \subseteq {b \in Byte : b[1] = 0}
ASSUME ByteAssumption == Values \cup Inputs \subseteq Byte

VARIABLES
    cs, clk, sdi,             \* the three lines the PIC32 drives
    job, k, n, got, cut,      \* its transfer: what, bits begun, ticks since
                              \* the lines changed, bits read, cut short
    CLK0, CLK, CS0, CS,       \* the synchronisers
    state, counter, address, data,
    Led70, Blue, Trigger, Status,
    due,                      \* history: what each register may hold at rest
    reset,                    \* history: a reset came during this transfer
    pixels,                   \* history: pulses of Trigger in this transfer
    seen                      \* history: what Status was in this transfer

line == <<cs, clk, sdi>>
pic == <<job, k, n, got, cut>>
sync == <<CLK0, CLK, CS0, CS>>
slave == <<state, counter, address, data>>
regs == <<Led70, Blue, Trigger, Status>>
slaveVars == <<line, pic, sync, slave, regs, due, reset, pixels, seen>>

Registers == {A_Led70, A_Blue}
Shift(b, bit) == [i \in 1..W |-> IF i < W THEN b[i + 1] ELSE bit]  \* { b[6:0], bit }

Jobs == [address : Registers, write : {TRUE}, data : Values] \cup
        [address : {A_Led70, A_Status}, write : {FALSE}, data : {Zero}]
\* Bit 7 of the address says that this is a write.
Sent(j) == [j.address EXCEPT ![1] = IF j.write THEN 1 ELSE 0]

SlaveInit ==
    /\ cs = 1 /\ clk = 0 /\ sdi = 0
    /\ job \in Jobs /\ k = 0 /\ n = 0 /\ got = Zero /\ cut = FALSE
    /\ CLK0 = 0 /\ CLK = 0 /\ CS0 = 1 /\ CS = 1
    /\ state = "Wait" /\ counter = 0 /\ address = Zero /\ data = Zero
    /\ Led70 = Zero /\ Blue = Zero /\ Trigger = FALSE /\ Status \in Inputs
    /\ due = [r \in Registers |-> {Zero}]
    /\ reset = FALSE /\ pixels = 0 /\ seen = {Status}

-----------------------------------------------------------------------------
(* The slave: one edge of theClock. *)

Synchronise == CLK0' = clk /\ CLK' = CLK0 /\ CS0' = cs /\ CS' = CS0

After == [Wait |-> "Addr", Addr |-> "Addr_00", Addr_00 |-> "Addr_01",
          Addr_01 |-> "Addr_11", Addr_11 |-> "Data", Data |-> "Data_00",
          Data_00 |-> "Data_01", Data_01 |-> "Data_11", Data_11 |-> "End",
          End |-> "Wait"]

\* Bug: the end of CS does not stop the machine in the middle of a byte.
NextStateNoAbort ==
    IF CS = 1 /\ state \in {"Wait", "Addr_00", "Data_00"} THEN state
    ELSE CASE state \in {"Addr_00", "Data_00"} /\ CLK = 0 -> state
           [] state \in {"Addr_11", "Data_11"} /\ CLK = 1 -> state
           [] state = "Addr_11" /\ CLK = 0 /\ counter # 0 -> "Addr_00"
           [] state = "Data_11" /\ CLK = 0 /\ counter # 0 -> "Data_00"
           [] OTHER -> After[state]

NextState ==
    IF CS = 1 THEN "Wait"
    ELSE CASE state \in {"Addr_00", "Data_00"} /\ CLK = 0 -> state
           [] state \in {"Addr_11", "Data_11"} /\ CLK = 1 -> state
           [] state = "Addr_11" /\ CLK = 0 /\ counter # 0 -> "Addr_00"
           [] state = "Data_11" /\ CLK = 0 /\ counter # 0 -> "Data_00"
           [] OTHER -> After[state]

\* SPI_counter has three bits: it is 0 again after the bits of a byte.
Incremented == IF counter = W - 1 THEN 0 ELSE counter + 1

\* Bug: a transfer cut short leaves its count to the next.
CountFromThere ==
    counter' = CASE state = "Data" -> 0
                 [] state \in {"Addr_01", "Data_01"} -> Incremented
                 [] OTHER -> counter

Count ==
    counter' = CASE state \in {"Addr", "Data"} -> 0
                 [] state \in {"Addr_01", "Data_01"} -> Incremented
                 [] OTHER -> counter

Register == [address EXCEPT ![1] = 0]
Updated == state = "End" /\ address[1] = 1

\* Bug: Status drives the line itself, bit by bit.
ShiftThrough ==
    /\ address' = IF state = "Addr_01" THEN Shift(address, sdi) ELSE address
    /\ data' = CASE state = "Data_01" -> Shift(data, sdi)
                 [] state \in {"Data", "Data_00"} /\ Register = A_Status ->
                        [i \in 1..W |->
                            IF i + counter <= W THEN Status[i + counter] ELSE 0]
                 [] state = "Data" /\ Register = A_Led70 -> Led70
                 [] OTHER -> data

ShiftIn ==
    /\ address' = IF state = "Addr_01" THEN Shift(address, sdi) ELSE address
    /\ data' = CASE state = "Data_01" -> Shift(data, sdi)
                 [] state = "Data" /\ Register = A_Status -> Status
                 [] state = "Data" /\ Register = A_Led70 -> Led70
                 [] OTHER -> data

\* Bug: any register written sends a pixel.
UpdateAnyPixel(theReset) ==
    IF theReset
    THEN Led70' = Zero /\ Blue' = Zero /\ UNCHANGED Trigger
    ELSE /\ Trigger' = Updated
         /\ Blue' = IF Updated /\ Register = A_Blue THEN data ELSE Blue
         /\ Led70' = IF Updated /\ Register = A_Led70 THEN data ELSE Led70

\* theReset clears the registers but not Trigger.
Update(theReset) ==
    IF theReset
    THEN Led70' = Zero /\ Blue' = Zero /\ UNCHANGED Trigger
    ELSE /\ Trigger' = (Updated /\ Register = A_Blue)
         /\ Blue' = IF Trigger' THEN data ELSE Blue
         /\ Led70' = IF Updated /\ Register = A_Led70 THEN data ELSE Led70

Tick(theReset) ==
    /\ Synchronise
    /\ state' = NextState
    /\ Count
    /\ ShiftIn
    /\ Update(theReset)
    /\ Status' \in Inputs

-----------------------------------------------------------------------------
(* The PIC32.  Its clock and theClock drift: a level lasts one tick more or *)
(* less than its length.                                                    *)

\* SPI1ABRG for 5 MHz: half a period is 100 ns, five ticks of 20 ns.
HalfPeriod == 5

\* The level has lasted long enough.  Between the two bytes the software also
\* takes a few instructions.
Long == IF k = W /\ clk = 0 THEN n >= HalfPeriod ELSE n + 2 >= HalfPeriod
BitOf(i) == IF i <= W THEN Sent(job)[i] ELSE job.data[i - W]
Started == cs = 0 /\ k > 0         \* the clock has started
Whole == cs = 0 /\ k = 2 * W       \* the last bit has been put on the line

Idle == cs = 1 /\ clk = 0

\* MyCyclone_Write, MyCyclone_Read: CS down, and the first byte given.  CS has
\* been up for the few instructions from one call to the next.
Begin ==
    /\ Idle /\ n >= 2
    /\ \E j \in Jobs : job' = j
    /\ cs' = 0 /\ k' = 0 /\ n' = 0 /\ got' = Zero /\ cut' = FALSE
    /\ sdi' = Sent(job')[1]
    /\ UNCHANGED clk

\* The data of a bit is on the line before its rising edge; the PIC32 takes
\* the bit of the slave at that edge (unused but in the second byte).
Rise ==
    /\ cs = 0 /\ clk = 0 /\ k < 2 * W /\ Long
    /\ clk' = 1 /\ k' = k + 1 /\ n' = 0
    /\ got' = IF k < W THEN Zero ELSE Shift(got, data[1])
    /\ UNCHANGED <<cs, sdi, job, cut>>

Fall ==
    /\ cs = 0 /\ clk = 1 /\ Long
    /\ clk' = 0 /\ n' = 0
    /\ sdi' = IF k < 2 * W THEN BitOf(k + 1) ELSE sdi
    /\ UNCHANGED <<cs, job, k, got, cut>>

\* MySPI_PutC or GetC has returned: CS up, a tick after the clock or later.
End ==
    /\ Whole /\ clk = 0
    /\ cs' = 1 /\ n' = 0
    /\ UNCHANGED <<clk, sdi, job, k, got, cut>>

\* The PIC32 is restarted: both lines go to their rest, CS first or together.
Restart ==
    /\ Started
    /\ cs' = 1 /\ clk' \in {0, clk} /\ n' = 0 /\ cut' = TRUE
    /\ UNCHANGED <<sdi, job, k, got>>

Rest ==
    /\ cs = 1 /\ clk = 1
    /\ clk' = 0 /\ n' = 0
    /\ UNCHANGED <<cs, sdi, job, k, got, cut>>

\* Nothing changes in this tick.  Inside a byte the clock does not wait; the
\* software may, before a byte and after the last one.
Hold ==
    /\ (cs = 1 \/ n < HalfPeriod \/ (clk = 0 /\ k \in {0, W, 2 * W}))
    /\ n' = IF n > HalfPeriod THEN n ELSE n + 1
    /\ UNCHANGED <<line, job, k, got, cut>>

-----------------------------------------------------------------------------
(* The history. *)

\* The slave has seen the end of the last transfer.
Quiet == cs = 1 /\ CS = 1 /\ state = "Wait"

\* All the bits of a write have been put: the register may have it.
MayLand(r) == job.write /\ k = 2 * W /\ job.address = r
Begun == cs = 1 /\ cs' = 0
Ended == cs = 0 /\ cs' = 1

Remember(theReset) ==
    /\ reset' = (theReset \/ (reset /\ ~Begun))
    /\ due' = [r \in Registers |->
                 IF theReset
                 THEN {Zero} \cup (IF MayLand(r) /\ ~Quiet THEN {job.data} ELSE {})
                 ELSE IF Ended /\ MayLand(r)
                 THEN (IF cut' \/ reset THEN due[r] ELSE {}) \cup {job.data}
                 ELSE due[r]]
    /\ pixels' = IF Begun THEN 0
                 ELSE IF Trigger' /\ ~Trigger THEN pixels + 1 ELSE pixels
    /\ seen' = (IF Begun THEN {} ELSE seen) \cup {Status'}

Step(Move) ==
    \E theReset \in {FALSE, Resets} :
        Tick(theReset) /\ Move /\ Remember(theReset)

SlaveNext ==
    \/ Step(Begin)
    \/ Step(Rise)
    \/ Step(Fall)
    \/ Step(End)
    \/ Step(Restart)
    \/ Step(Rest)
    \/ Step(Hold)

SlaveSpec == SlaveInit /\ [][SlaveNext]_slaveVars

-----------------------------------------------------------------------------
(* Properties. *)

\* At rest a register holds the byte of the last write to it that was whole.  A
\* transfer cut short leaves the register alone, unless it had put all its bits
\* (MySPI.sv:96: CS ends the machine wherever it is).
WritesArrive ==
    Quiet => Led70 \in due[A_Led70] /\ Blue \in due[A_Blue]

\* At any time a register takes nothing but a byte all of whose bits have been
\* put on the line, for it: neither part of a byte nor one for another register.
NothingHalf ==
    [][ /\ Led70' \in {Zero, Led70} \/ (MayLand(A_Led70) /\ Led70' = job.data)
        /\ Blue' \in {Zero, Blue} \/ (MayLand(A_Blue) /\ Blue' = job.data) ]_slaveVars

\* Every byte of blue pulls Trigger once, and nothing else does: a pixel goes to
\* the memory once (DE0_NANO.sv:226).
OnePixel ==
    /\ pixels > 0 => MayLand(A_Blue)
    /\ pixels <= 1
    /\ Quiet /\ MayLand(A_Blue) /\ ~cut /\ ~reset => pixels = 1

\* What a read returns is a value that the register had while it was read, not a
\* mixture of two, though Status may change at any time (MySPI.sv:117).
WholeReads ==
    Quiet /\ k = 2 * W /\ ~cut /\ ~job.write /\ ~reset =>
        got \in IF job.address = A_Status THEN seen ELSE {Led70}
=============================================================================
