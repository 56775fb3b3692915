------------------------------ MODULE NiosPlay -------------------------------
(***************************************************************************)
(* From the player to the game registers of the MTL board:                 *)
(*   - the console of the PIC32 writes a command into one of three SPI     *)
(*     registers of the FPGA (MyConsole.c, MyCyclone_Write, MySPI.sv).  A  *)
(*     register holds the last value and no "new" flag, so the sender adds *)
(*     a base (64, 16 or 32) to every other command;                       *)
(*   - the Nios II program polls the three registers and takes a command   *)
(*     when the base appeared or disappeared (main.c), works out the cube  *)
(*     the jump ends on, and writes the game registers one by one.         *)
(* The console and the Nios never wait for each other: an action is one    *)
(* console line, or one bus access of the Nios with the local computation  *)
(* that depends on it.                                                     *)
(***************************************************************************)
EXTENDS Avalon, Sequences

CONSTANTS GsCmds,    \* game status commands typed: 1 pause, 2 resume,
                     \* 3 restart, 4 menu
          JumpCmds,  \* jump commands typed: a direction
          TiltCmds,  \* tilt commands typed: 0 flat, 1 right, 2 left
          Resets     \* are the reset buttons used?

ASSUME CommandsAssumption ==
  /\ GsCmds \subseteq 1..4
  /\ JumpCmds \subseteq Dirs
  /\ TiltCmds \subseteq 0..2
  /\ Resets \in BOOLEAN

VARIABLES
  old_pic,   \* console: add the base to the next command? (old_gs, old_jump, old_acc)
  Data,      \* the SPI registers Data_GS, Data_Jump, Data_Acc
  old,       \* Nios: was the base there in the last command taken?
  elems,     \* Nios: cubes painted so far
  pc,        \* Nios: the register it reads next, or "write"
  pos_qb,    \* Nios: Q*bert's position as read at the top of the loop
  cmd,       \* Nios: what this turn of the loop has to write
  todo,      \* Nios: the groups of writes left in this turn
  k          \* Nios: the write it does next in the group

consoleVars == <<old_pic, Data>>
niosVars == <<old, elems, pc, pos_qb, cmd, todo, k>>
playVars == <<consoleVars, niosVars, e>>

SpiReg == {"gs", "jump", "acc"}
Base == [gs |-> 64, jump |-> 16, acc |-> 32]
Typed == [gs |-> GsCmds, jump |-> JumpCmds, acc |-> TiltCmds]

\* No command in hand: locals of main.c that are dead are kept at 0.
NoCmd == [gs |-> 0, dir |-> 0, result |-> 0, tilt |-> 0]

-----------------------------------------------------------------------------
(* The console of the PIC32 *)

\* Bug: the console forgets that it has just added the base.
ConsoleAlwaysBase(r, d) ==
  /\ Data' = [Data EXCEPT ![r] = IF old_pic[r] THEN d + Base[r] ELSE d]
  /\ UNCHANGED <<old_pic, niosVars, e>>

\* Bug: the base of the jumps is used for the three registers.
ConsoleOneBase(r, d) ==
  /\ Data' = [Data EXCEPT ![r] = IF old_pic[r] THEN d + Base.jump ELSE d]
  /\ old_pic' = [old_pic EXCEPT ![r] = ~@]
  /\ UNCHANGED <<niosVars, e>>

\* "SPI" then "reg:data": the line is sent with the base every other time.
ConsoleSPI(r, d) ==
  /\ Data' = [Data EXCEPT ![r] = IF old_pic[r] THEN d + Base[r] ELSE d]
  /\ old_pic' = [old_pic EXCEPT ![r] = ~@]
  /\ UNCHANGED <<niosVars, e>>

\* The PIC32 restarts: MyConsole_Init, and its pulse on RST_FPGA clears the
\* SPI registers.  The Nios and the game keep running.
PicReset ==
  /\ Resets
  /\ Data' = [r \in SpiReg |-> 0]
  /\ old_pic' = [r \in SpiReg |-> TRUE]
  /\ UNCHANGED <<niosVars, e>>

-----------------------------------------------------------------------------
(* The Nios: reading *)

Up(r, v) == v > Base[r]

\* Bug: the base alone makes a command new.
FreshIfUp(r) == Up(r, Data[r])

Fresh(r) == Up(r, Data[r]) # old[r]
Decoded(r) == IF Up(r, Data[r]) THEN Data[r] - Base[r] ELSE Data[r]

\* Bug: the parity of the command taken is not kept.
ToggleForgotten(r) == UNCHANGED old

Toggle(r) == old' = [old EXCEPT ![r] = ~@]

\* p is what the game shows on position_qb.
ReadPos(p) ==
  /\ pc = "pos"
  /\ pos_qb' = p
  /\ pc' = "gs"
  /\ UNCHANGED <<consoleVars, old, elems, cmd, todo, k, e>>

ReadGs ==
  /\ pc = "gs"
  /\ pc' = "jump"
  /\ IF Fresh("gs")
     THEN /\ Toggle("gs")
          /\ IF Decoded("gs") \in 1..4
             THEN /\ cmd' = [cmd EXCEPT !.gs = Decoded("gs")]
                  /\ todo' = {"gs"}
             ELSE UNCHANGED <<cmd, todo>>
     ELSE UNCHANGED <<old, cmd, todo>>
  /\ UNCHANGED <<consoleVars, elems, pos_qb, k, e>>

\* Bug: no jump is taken on cube 1.
JumpReadyNotOnTop == Fresh("jump") /\ pos_qb > 1

\* A jump is taken only while the game sees Q*bert on a cube.
JumpReady == Fresh("jump") /\ pos_qb # 0

\* Bug: the painted cubes are replaced by the new one.
PaintOnly(cube) == {cube} \ {0}

Paint(cube) == elems \cup ({cube} \ {0})

ReadJump ==
  /\ pc = "jump"
  /\ pc' = "acc"
  /\ pos_qb' = 0
  /\ IF JumpReady
     THEN LET dir    == Decoded("jump")
              result == mvmt(dir, pos_qb)
          IN  /\ Toggle("jump")
              /\ IF dir \in Dirs
                 THEN /\ cmd' = [cmd EXCEPT !.dir = dir, !.result = result]
                      /\ todo' = todo \cup {"jump"}
                      /\ elems' = Paint(result)
                 ELSE UNCHANGED <<cmd, todo, elems>>
     ELSE UNCHANGED <<old, cmd, todo, elems>>
  /\ UNCHANGED <<consoleVars, k, e>>

\* e_tilt_acc is two bits wide.
ReadAcc ==
  /\ pc = "acc"
  /\ IF Fresh("acc")
     THEN /\ Toggle("acc")
          /\ cmd' = [cmd EXCEPT !.tilt = Decoded("acc") % 4]
          /\ todo' = todo \cup {"acc"}
     ELSE UNCHANGED <<old, cmd, todo>>
  /\ pc' = IF todo' = {} THEN "pos" ELSE "write"
  /\ UNCHANGED <<consoleVars, elems, pos_qb, k, e>>

-----------------------------------------------------------------------------
(* The Nios: writing *)

W(r, v) == [reg |-> r, val |-> v]

\* The first writes of main.
BootWrites == <<W("jump", 0), W("color", {}), W("next", 1), W("pause", 0),
                W("resume", 0), W("start", 0), W("menu", 1), W("tilt", 0)>>

\* Bug: a pause is raised before the other flags are cleared.
GsWritesPauseFirst ==
  << <<W("pause", 1), W("start", 0), W("resume", 0), W("menu", 0)>>,
     <<W("start", 0), W("pause", 0), W("menu", 0), W("resume", 1)>>,
     <<W("jump", 0), W("resume", 0), W("pause", 0), W("menu", 0), W("start", 1)>>,
     <<W("start", 0), W("resume", 0), W("pause", 0), W("menu", 1)>> >>

\* Bug: a restart does not clear the pause.
GsWritesKeepPause ==
  << <<W("start", 0), W("resume", 0), W("menu", 0), W("pause", 1)>>,
     <<W("start", 0), W("pause", 0), W("menu", 0), W("resume", 1)>>,
     <<W("jump", 0), W("resume", 0), W("menu", 0), W("start", 1)>>,
     <<W("start", 0), W("resume", 0), W("pause", 0), W("menu", 1)>> >>

\* Every case of the switch clears the other flags before it sets its own.
GsWrites ==
  << <<W("start", 0), W("resume", 0), W("menu", 0), W("pause", 1)>>,
     <<W("start", 0), W("pause", 0), W("menu", 0), W("resume", 1)>>,
     <<W("jump", 0), W("resume", 0), W("pause", 0), W("menu", 0), W("start", 1)>>,
     <<W("start", 0), W("resume", 0), W("pause", 0), W("menu", 1)>> >>

\* A jump off the pyramid changes only e_next_qb.
JumpWrites ==
  IF cmd.result \in Cubes
  THEN <<W("jump", cmd.dir), W("next", cmd.result), W("color", elems)>>
  ELSE <<W("next", 1)>>

Group ==
  IF "boot" \in todo THEN "boot"
  ELSE IF "gs" \in todo THEN "gs"
  ELSE IF "jump" \in todo THEN "jump" ELSE "acc"

Writes ==
  IF Group = "boot" THEN BootWrites
  ELSE IF Group = "gs" THEN GsWrites[cmd.gs]
  ELSE IF Group = "jump" THEN JumpWrites ELSE <<W("tilt", cmd.tilt)>>

WriteMore ==
  /\ pc = "write"
  /\ k < Len(Writes)
  /\ IOWR(Writes[k])
  /\ k' = k + 1
  /\ UNCHANGED <<consoleVars, old, elems, pc, pos_qb, cmd, todo>>

\* The last write of a group; after the last group the loop starts again.
WriteLast ==
  /\ pc = "write"
  /\ k = Len(Writes)
  /\ IOWR(Writes[k])
  /\ k' = 1
  /\ todo' = todo \ {Group}
  /\ IF todo' = {} THEN pc' = "pos" /\ cmd' = NoCmd
                   ELSE UNCHANGED <<pc, cmd>>
  /\ UNCHANGED <<consoleVars, old, elems, pos_qb>>

\* KEY[0]: main starts again and Avalon_reset clears the game registers,
\* except e_menu_qb, which it does not name.
NiosReset ==
  /\ Resets
  /\ old' = [r \in SpiReg |-> FALSE]
  /\ elems' = {1}
  /\ pc' = "write" /\ todo' = {"boot"} /\ k' = 1
  /\ pos_qb' = 0
  /\ cmd' = NoCmd
  /\ e' = [start |-> 0, pause |-> 0, resume |-> 0, menu |-> e.menu,
           jump |-> 0, next |-> 0, tilt |-> 0, color |-> {}]
  /\ UNCHANGED consoleVars

-----------------------------------------------------------------------------
PlayInit ==
  /\ AvalonInit
  /\ Data = [r \in SpiReg |-> 0]
  /\ old_pic = [r \in SpiReg |-> TRUE]
  /\ old = [r \in SpiReg |-> FALSE]
  /\ elems = {1}
  /\ pc = "write" /\ todo = {"boot"} /\ k = 1
  /\ pos_qb = 0
  /\ cmd = NoCmd

\* One bus access of the Nios, p being on position_qb.
NiosStep(p) ==
  \/ ReadPos(p) \/ ReadGs \/ ReadJump \/ ReadAcc
  \/ WriteMore \/ WriteLast

\* What the player and the reset buttons do.
PlayerStep ==
  \/ \E r \in SpiReg : \E d \in Typed[r] : ConsoleSPI(r, d)
  \/ PicReset
  \/ NiosReset

\* The console and the Nios alone, whatever the game shows on position_qb.
PlayNext == PlayerStep \/ \E s \in Spots : NiosStep(CubeAt(s))

PlaySpec == PlayInit /\ [][PlayNext]_playVars

-----------------------------------------------------------------------------
PlayTypeOK ==
  /\ e \in Registers
  /\ Data \in [SpiReg -> 0..127] /\ old_pic \in [SpiReg -> BOOLEAN]
  /\ old \in [SpiReg -> BOOLEAN] /\ elems \in SUBSET Cubes
  /\ pc \in {"pos", "gs", "jump", "acc", "write"}
  /\ pos_qb \in {CubeAt(s) : s \in Spots}
  /\ cmd \in [gs: 0..4, dir: 0..4, result: {0} \cup Cubes, tilt: 0..3]
  /\ todo \in SUBSET {"boot", "gs", "jump", "acc"}
  /\ k \in 1..8

\* However the commands follow each other, and even while they are written
\* one register at a time, the game never sees two of its flags raised
\* (main.c:114-133 clears three flags before it raises the fourth).
AtMostOneFlag == \A f, g \in Flags : e[f] = 1 /\ e[g] = 1 => f = g

\* The command in register r: both ends subtract the base the same way.
Command(r) == IF Data[r] >= Base[r] THEN Data[r] - Base[r] ELSE Data[r]

Pending(r) == IF Fresh(r) THEN Command(r) ELSE -1

Gs == INSTANCE ToggleSlot
  WITH Cmds <- GsCmds, Cleared <- 0, None <- -1,
       slot <- Pending("gs"), last <- Command("gs"), hand <- cmd.gs
Jump == INSTANCE ToggleSlot
  WITH Cmds <- JumpCmds, Cleared <- 0, None <- -1,
       slot <- Pending("jump"), last <- Command("jump"), hand <- cmd.dir
Acc == INSTANCE ToggleSlot
  WITH Cmds <- TiltCmds, Cleared <- 0, None <- -1,
       slot <- Pending("acc"), last <- Command("acc"), hand <- cmd.tilt

\* Through the parity kept in old and old_pic, a command is taken at most
\* once, none is taken that was not the last one sent, and only a reset
\* brings one back, whatever the speeds of the console and of the Nios
\* (MyConsole.c:103-129 against main.c:104-183).
GsSlot == Gs!SlotSpec
JumpSlot == Jump!SlotSpec
AccSlot == Acc!SlotSpec

\* A command sent when the one before was taken is seen by the Nios.  This
\* needs that neither end restarts alone, and that no command is 0: the
\* Nios takes the base plus 0 for no base (main.c:108-110, "> 32").
SentIsSeen ==
  [][\A r \in SpiReg : ~Fresh(r) /\ Data'[r] # Data[r] => Fresh(r)']_playVars
=============================================================================
