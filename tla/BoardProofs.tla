----------------------------- MODULE BoardProofs ------------------------------
(***************************************************************************)
(* The proofs about the console, the Nios and Q*bert's machine, in three   *)
(* parts: what the console and the Nios guarantee whatever is typed and    *)
(* whatever the game shows; what the whole board guarantees whatever is    *)
(* typed; and what it guarantees to the player who waits.                  *)
(***************************************************************************)
EXTENDS PoliteBoard, PyramidProofs

-----------------------------------------------------------------------------
(***************************************************************************)
(* PART 1, NiosPlay.  The types, at most one game flag raised, and a       *)
(* toggle bit that never invents nor repeats a command.                    *)
(***************************************************************************)

\* What the program counter of the Nios says of its locals, and what the
\* writes already done in this group say of the flags.
PlayInv ==
  /\ pc = "write" => todo # {} /\ k <= Len(Writes)
  /\ pc # "write" => "boot" \notin todo /\ k = 1
  /\ "boot" \in todo => todo = {"boot"} /\ e.start = 0 /\ e.pause = 0 /\ e.resume = 0
  /\ "gs" \in todo => cmd.gs \in 1..4
  /\ "boot" \notin todo /\ "gs" \in todo =>
       \A j \in 1..(k - 1) :
         GsWrites[cmd.gs][j].reg \in Flags => e[GsWrites[cmd.gs][j].reg] = 0

IInv == PlayTypeOK /\ PlayInv /\ AtMostOneFlag

-----------------------------------------------------------------------------
(* The registers *)

LEMMA WriteFlag ==
  ASSUME e \in Registers, NEW f \in Flags, NEW v \in Bit,
         e' = [e EXCEPT ![f] = v]
  PROVE  e' \in Registers /\ e'[f] = v /\ \A g \in Flags \ {f} : e'[g] = e[g]
<1>1. f \in {"start", "pause", "resume", "menu"}
  BY DEF Flags
<1>2. CASE f = "start"
  BY <1>2, SMT DEF Registers, Flags
<1>3. CASE f = "pause"
  BY <1>3, SMT DEF Registers, Flags
<1>4. CASE f = "resume"
  BY <1>4, SMT DEF Registers, Flags
<1>5. CASE f = "menu"
  BY <1>5, SMT DEF Registers, Flags
<1> QED
  BY <1>1, <1>2, <1>3, <1>4, <1>5

\* What a write to another register may carry.
Carries(w) ==
  \/ w.reg = "jump" /\ w.val \in 0..4
  \/ w.reg = "next" /\ w.val \in {0} \cup Cubes
  \/ w.reg = "tilt" /\ w.val \in 0..3
  \/ w.reg = "color" /\ w.val \in SUBSET Cubes

LEMMA WriteOther ==
  ASSUME e \in Registers, NEW w, Carries(w), IOWR(w)
  PROVE  e' \in Registers /\ \A g \in Flags : e'[g] = e[g]
<1>1. CASE w.reg = "jump" /\ w.val \in 0..4
  BY <1>1, SMT DEF Registers, Flags, IOWR
<1>2. CASE w.reg = "next" /\ w.val \in {0} \cup Cubes
  BY <1>2, SMT DEF Registers, Flags, IOWR
<1>3. CASE w.reg = "tilt" /\ w.val \in 0..3
  BY <1>3, SMT DEF Registers, Flags, IOWR
<1>4. CASE w.reg = "color" /\ w.val \in SUBSET Cubes
  BY <1>4, SMT DEF Registers, Flags, IOWR
<1> QED
  BY <1>1, <1>2, <1>3, <1>4 DEF Carries

-----------------------------------------------------------------------------
(* The groups of writes *)

\* A status command clears three flags, and e_jump_qb for a restart, before
\* it raises the fourth.
GsShape(s) ==
  /\ Len(s) \in {4, 5}
  /\ s[Len(s)].reg \in Flags /\ s[Len(s)].val = 1
  /\ \A j \in 1..(Len(s) - 1) : s[j].val = 0 /\ s[j].reg \in Flags \cup {"jump"}
  /\ \A f \in Flags : f = s[Len(s)].reg \/ \E j \in 1..(Len(s) - 1) : s[j].reg = f

LEMMA GsWritesShape == \A g \in 1..4 : GsShape(GsWrites[g])
<1>1. \A a, b, c, d :
        /\ a \in Flags /\ b \in Flags /\ c \in Flags /\ d \in Flags
        /\ Flags = {a, b, c, d}
        => GsShape(<<W(a, 0), W(b, 0), W(c, 0), W(d, 1)>>)
  BY SMT DEF W, GsShape
<1>2. \A a, b, c, d :
        /\ a \in Flags /\ b \in Flags /\ c \in Flags /\ d \in Flags
        /\ Flags = {a, b, c, d}
        => GsShape(<<W("jump", 0), W(a, 0), W(b, 0), W(c, 0), W(d, 1)>>)
  BY SMT DEF W, GsShape
<1>3. GsShape(GsWrites[1])
  BY <1>1 DEF GsWrites, Flags
<1>4. GsShape(GsWrites[2])
  BY <1>1 DEF GsWrites, Flags
<1>5. GsShape(GsWrites[3])
  BY <1>2 DEF GsWrites, Flags
<1>6. GsShape(GsWrites[4])
  BY <1>1 DEF GsWrites, Flags
<1> QED
  BY <1>3, <1>4, <1>5, <1>6, SMT

LEMMA BootWritesShape ==
  /\ Len(BootWrites) = 8
  /\ \A j \in 1..8 :
       \/ Carries(BootWrites[j])
       \/ BootWrites[j].reg \in Flags \ {"menu"} /\ BootWrites[j].val = 0
       \/ BootWrites[j].reg = "menu" /\ BootWrites[j].val = 1
<1>1. Len(BootWrites) = 8
  BY DEF BootWrites
<1>2. /\ BootWrites[1] = W("jump", 0) /\ BootWrites[2] = W("color", {})
      /\ BootWrites[3] = W("next", 1) /\ BootWrites[4] = W("pause", 0)
      /\ BootWrites[5] = W("resume", 0) /\ BootWrites[6] = W("start", 0)
      /\ BootWrites[7] = W("menu", 1) /\ BootWrites[8] = W("tilt", 0)
  BY DEF BootWrites
<1>3. /\ Carries(W("jump", 0)) /\ Carries(W("color", {})) /\ Carries(W("tilt", 0))
  BY SMT DEF Carries, W
<1>4. Carries(W("next", 1))
  BY CubeAtType DEF Carries, W
<1>5. ASSUME NEW j \in 1..8
      PROVE  \/ Carries(BootWrites[j])
             \/ BootWrites[j].reg \in Flags \ {"menu"} /\ BootWrites[j].val = 0
             \/ BootWrites[j].reg = "menu" /\ BootWrites[j].val = 1
  <2>1. j = 1 \/ j = 2 \/ j = 3 \/ j = 4 \/ j = 5 \/ j = 6 \/ j = 7 \/ j = 8
    BY SMT
  <2>2. /\ W("pause", 0).reg \in Flags \ {"menu"} /\ W("pause", 0).val = 0
        /\ W("resume", 0).reg \in Flags \ {"menu"} /\ W("resume", 0).val = 0
        /\ W("start", 0).reg \in Flags \ {"menu"} /\ W("start", 0).val = 0
        /\ W("menu", 1).reg = "menu" /\ W("menu", 1).val = 1
    BY SMT DEF W, Flags
  <2> QED
    BY <1>2, <1>3, <1>4, <2>1, <2>2
<1> QED
  BY <1>1, <1>5

LEMMA JumpWritesShape ==
  ASSUME PlayTypeOK
  PROVE  /\ Len(JumpWrites) \in {1, 3}
         /\ \A j \in 1..Len(JumpWrites) : Carries(JumpWrites[j])
<1>1. CASE cmd.result \in Cubes
  <2>1. JumpWrites = <<W("jump", cmd.dir), W("next", cmd.result), W("color", elems)>>
    BY <1>1 DEF JumpWrites
  <2>2. Carries(W("jump", cmd.dir)) /\ Carries(W("next", cmd.result))
        /\ Carries(W("color", elems))
    BY <1>1, SMT DEF PlayTypeOK, Carries, W
  <2> QED
    BY <2>1, <2>2, SMT
<1>2. CASE cmd.result \notin Cubes
  <2>1. JumpWrites = <<W("next", 1)>>
    BY <1>2 DEF JumpWrites
  <2>2. Carries(W("next", 1))
    BY CubeAtType DEF Carries, W
  <2> QED
    BY <2>1, <2>2, SMT
<1> QED
  BY <1>1, <1>2

LEMMA GroupCases ==
  ASSUME PlayTypeOK, todo # {}
  PROVE  \/ /\ "boot" \in todo
            /\ Group = "boot" /\ Writes = BootWrites
         \/ /\ "boot" \notin todo /\ "gs" \in todo
            /\ Group = "gs" /\ Writes = GsWrites[cmd.gs]
         \/ /\ "boot" \notin todo /\ "gs" \notin todo /\ "jump" \in todo
            /\ Group = "jump" /\ Writes = JumpWrites
         \/ /\ todo = {"acc"}
            /\ Group = "acc" /\ Writes = <<W("tilt", cmd.tilt)>>
<1>1. todo \subseteq {"boot", "gs", "jump", "acc"}
  BY DEF PlayTypeOK
<1> QED
  BY <1>1 DEF Group, Writes

\* The group written next starts with its first write.
Writable == PlayTypeOK /\ todo # {} /\ ("gs" \in todo => cmd.gs \in 1..4)

LEMMA GroupStarts == Writable => 1 <= Len(Writes) /\ Len(Writes) \in 1..8
<1> SUFFICES ASSUME Writable PROVE 1 <= Len(Writes) /\ Len(Writes) \in 1..8
  OBVIOUS
<1> USE DEF Writable
<1>1. CASE Writes = BootWrites
  BY <1>1, BootWritesShape, SMT
<1>2. CASE "gs" \in todo /\ Writes = GsWrites[cmd.gs]
  <2>1. Len(Writes) \in {4, 5}
    BY <1>2, GsWritesShape DEF GsShape
  <2> QED
    BY <2>1, SMT
<1>3. CASE Writes = JumpWrites
  BY <1>3, JumpWritesShape, SMT
<1>4. CASE Writes = <<W("tilt", cmd.tilt)>>
  BY <1>4, SMT
<1> QED
  BY <1>1, <1>2, <1>3, <1>4, GroupCases

-----------------------------------------------------------------------------
(* One write *)

LEMMA OneWrite ==
  ASSUME IInv, pc = "write", IOWR(Writes[k])
  PROVE  /\ e' \in Registers
         /\ AtMostOneFlag'
         /\ "boot" \in todo => e'.start = 0 /\ e'.pause = 0 /\ e'.resume = 0
         /\ "boot" \notin todo /\ "gs" \in todo /\ k < Len(Writes) =>
              \A j \in 1..k : GsWrites[cmd.gs][j].reg \in Flags => e'[GsWrites[cmd.gs][j].reg] = 0
<1> DEFINE w == Writes[k]
<1>1. /\ e \in Registers /\ k \in 1..Len(Writes) /\ todo # {} /\ k \in Nat
      /\ \A f, g \in Flags : e[f] = 1 /\ e[g] = 1 => f = g
  <2>1. k \in 1..8 /\ k <= Len(Writes) /\ todo # {} /\ Len(Writes) \in 1..8
    BY GroupStarts DEF IInv, PlayTypeOK, PlayInv, Writable
  <2> QED
    BY <2>1, SMT DEF IInv, PlayTypeOK, AtMostOneFlag
<1>2. ASSUME Carries(w)
      PROVE  e' \in Registers /\ (\A g \in Flags : e'[g] = e[g])
  BY <1>1, <1>2, WriteOther
<1>3. ASSUME w.reg \in Flags, w.val \in Bit
      PROVE  /\ e' \in Registers /\ e'[w.reg] = w.val
             /\ \A g \in Flags \ {w.reg} : e'[g] = e[g]
  BY <1>1, <1>3, WriteFlag DEF IOWR
<1>4. ASSUME \A g \in Flags : e'[g] = e[g]
      PROVE  AtMostOneFlag'
  BY <1>1, <1>4 DEF AtMostOneFlag
<1>5. ASSUME w.reg \in Flags, w.val = 0
      PROVE  AtMostOneFlag'
  <2>1. /\ e'[w.reg] = 0
        /\ \A g \in Flags \ {w.reg} : e'[g] = e[g]
    BY <1>3, <1>5 DEF Bit
  <2> QED
    BY <1>1, <2>1, 0 # 1 DEF AtMostOneFlag
<1>6. CASE "boot" \in todo
  <2>1. Writes = BootWrites /\ k \in 1..8
    BY <1>1, <1>6, GroupCases, BootWritesShape DEF IInv
  <2>2. e.start = 0 /\ e.pause = 0 /\ e.resume = 0
    BY <1>6 DEF IInv, PlayInv
  <2>3. CASE Carries(w)
    BY <1>2, <1>4, <1>6, <2>2, <2>3 DEF Flags
  <2>4. CASE w.reg \in Flags \ {"menu"} /\ w.val = 0
    <3>1. e' \in Registers /\ AtMostOneFlag'
      BY <1>3, <1>5, <2>4 DEF Bit
    <3>2. \A f \in {"start", "pause", "resume"} : e'[f] = 0
      BY <1>3, <2>2, <2>4 DEF Flags, Bit
    <3> QED
      BY <1>6, <3>1, <3>2
  <2>5. CASE w.reg = "menu" /\ w.val = 1
    <3>1. e' \in Registers /\ \A g \in {"start", "pause", "resume"} : e'[g] = 0
      BY <1>3, <2>2, <2>5 DEF Flags, Bit
    <3>2. AtMostOneFlag'
      BY <3>1, 0 # 1 DEF AtMostOneFlag, Flags
    <3> QED
      BY <1>6, <3>1, <3>2
  <2> QED
    BY <2>1, <2>3, <2>4, <2>5, BootWritesShape
<1>7. CASE "boot" \notin todo /\ "gs" \in todo
  <2> DEFINE s == GsWrites[cmd.gs]
  <2>1. Writes = s /\ cmd.gs \in 1..4
    BY <1>1, <1>7, GroupCases DEF IInv, PlayInv
  <2>2. /\ Len(s) \in {4, 5} /\ s[Len(s)].reg \in Flags /\ s[Len(s)].val = 1
        /\ \A j \in 1..(Len(s) - 1) :
             s[j].val = 0 /\ s[j].reg \in Flags \cup {"jump"}
        /\ \A f \in Flags : f = s[Len(s)].reg \/ \E j \in 1..(Len(s) - 1) : s[j].reg = f
    BY <2>1, GsWritesShape DEF GsShape
  <2>3. \A j \in 1..(k - 1) : s[j].reg \in Flags => e[s[j].reg] = 0
    BY <1>7 DEF IInv, PlayInv
  <2> HIDE DEF s
  <2>4. CASE k < Len(s)
    <3>1. k \in 1..(Len(s) - 1) /\ w = s[k]
      BY <1>1, <2>1, <2>2, <2>4, SMT
    <3>2. w.val = 0 /\ w.reg \in Flags \cup {"jump"}
      BY <2>2, <3>1
    <3>3. CASE w.reg = "jump"
      <4>1. Carries(w)
        BY <3>2, <3>3, SMT DEF Carries
      <4>2. \A j \in 1..k : s[j].reg \in Flags => e[s[j].reg] = 0
        <5>1. "jump" \notin Flags
          BY DEF Flags
        <5>2. \A j \in 1..k : j \in 1..(k - 1) \/ j = k
          BY <1>1, SMT
        <5> QED
          BY <2>3, <3>1, <3>3, <5>1, <5>2
      <4> QED
        BY <1>2, <1>4, <1>7, <4>1, <4>2 DEF s
    <3>4. CASE w.reg \in Flags
      <4>1. /\ e' \in Registers /\ AtMostOneFlag' /\ e'[w.reg] = 0
            /\ \A g \in Flags \ {w.reg} : e'[g] = e[g]
        BY <1>3, <1>5, <3>2, <3>4 DEF Bit
      <4>2. \A j \in 1..k : s[j].reg \in Flags => e'[s[j].reg] = 0
        <5>1. \A j \in 1..k : j \in 1..(k - 1) \/ j = k
          BY <1>1, SMT
        <5> QED
          BY <2>3, <3>1, <4>1, <5>1
      <4> QED
        BY <1>7, <4>1, <4>2 DEF s
    <3> QED
      BY <3>2, <3>3, <3>4
  <2>5. CASE k = Len(s)
    <3>1. w = s[Len(s)] /\ w.reg \in Flags /\ w.val = 1 /\ w.val \in Bit
      BY <2>1, <2>2, <2>5 DEF Bit
    <3>2. \A g \in Flags \ {w.reg} : e[g] = 0
      BY <2>2, <2>3, <2>5, <3>1
    <3>3. /\ e' \in Registers
          /\ \A g \in Flags \ {w.reg} : e'[g] = 0
      BY <1>3, <3>1, <3>2
    <3>4. AtMostOneFlag'
      BY <3>3, 0 # 1 DEF AtMostOneFlag
    <3>5. ~(k < Len(Writes))
      BY <2>1, <2>2, <2>5, SMT
    <3> QED
      BY <1>7, <3>3, <3>4, <3>5
  <2> QED
    BY <1>1, <2>1, <2>2, <2>4, <2>5, SMT
<1>8. CASE "boot" \notin todo /\ "gs" \notin todo
  <2>1. Carries(w)
    <3>1. CASE Writes = JumpWrites
      BY <1>1, <3>1, JumpWritesShape DEF IInv
    <3>2. CASE Writes = <<W("tilt", cmd.tilt)>>
      <4>1. Len(Writes) = 1 /\ Writes[1] = W("tilt", cmd.tilt) /\ k = 1
        BY <1>1, <3>2, SMT
      <4>2. cmd.tilt \in 0..3
        BY SMT DEF IInv, PlayTypeOK
      <4> QED
        BY <4>1, <4>2, SMT DEF Carries, W
    <3> QED
      BY <1>1, <1>8, <3>1, <3>2, GroupCases DEF IInv
  <2> QED
    BY <1>2, <1>4, <1>8, <2>1
<1> QED
  BY <1>6, <1>7, <1>8

-----------------------------------------------------------------------------
(* Where the position read by the Nios comes from *)

\* Every position shown is a cube's number or 0.
LEMMA SpotType == \A s \in Spots : CubeAt(s) \in {0} \cup Cubes
<1> SUFFICES ASSUME NEW s \in Spots PROVE CubeAt(s) \in {0} \cup Cubes
  OBVIOUS
<1>1. PICK r \in 0..Rows + 1, c \in 0..Rows + 1 : s = <<r, c>>
  BY DEF Spots
<1>2. r \in Int /\ c \in Int
  BY <1>1, RowsAssumption, SMT
<1> QED
  BY <1>1, <1>2, CubeAtType

\* 0 is among the positions: it is shown off the pyramid.
LEMMA ZeroIsShown == 0 \in {CubeAt(s) : s \in Spots}
<1>1. <<0, 0>> \in Spots
  BY RowsAssumption, SMT DEF Spots
<1>2. CubeAt(<<0, 0>>) = 0
  BY CubeNumber, SMT
<1> QED
  BY <1>1, <1>2

\* The cube a jump ends on, computed by the Nios from a position it read, is
\* a cube or 0 (main.c:216-244 cannot index a row that does not exist).
LEMMA ResultType ==
  ASSUME pos_qb \in {CubeAt(s) : s \in Spots}, pos_qb # 0, NEW dir \in Dirs
  PROVE  mvmt(dir, pos_qb) \in {0} \cup Cubes
<1>1. PICK s \in Spots : pos_qb = CubeAt(s)
  OBVIOUS
<1>2. OnPyramid(s)
  BY <1>1 DEF CubeAt
<1>3. mvmt(dir, pos_qb) = CubeAt(Hop(s, dir))
  BY <1>1, <1>2, HopAgrees
<1>4. PICK r \in 0..Rows + 1, c \in 0..Rows + 1 : s = <<r, c>>
  BY DEF Spots
<1>5. PICK a \in Int, b \in Int : Hop(s, dir) = <<a, b>>
  <2>1. r \in Int /\ c \in Int
    BY <1>4, RowsAssumption, SMT
  <2>2. /\ (IF dir <= 2 THEN r + 1 ELSE r - 1) \in Int
        /\ (IF dir = 2 THEN c + 1 ELSE IF dir = 3 THEN c - 1 ELSE c) \in Int
    BY <2>1, SMT
  <2> QED
    BY <1>4, <2>2 DEF Hop
<1> QED
  BY <1>3, <1>5, CubeAtType

-----------------------------------------------------------------------------
(* The invariant *)

LEMMA InitIInv == PlayInit => IInv
<1> SUFFICES ASSUME PlayInit PROVE IInv
  OBVIOUS
<1>1. e \in Registers
  BY CubeAtType, SMT DEF PlayInit, AvalonInit, Registers, Bit
<1>2. pos_qb \in {CubeAt(s) : s \in Spots}
  BY ZeroIsShown DEF PlayInit
<1>3. elems \in SUBSET Cubes
  BY CubeAtType DEF PlayInit
<1>4. cmd \in [gs: 0..4, dir: 0..4, result: {0} \cup Cubes, tilt: 0..3]
  BY SMT DEF PlayInit, NoCmd
<1>5. PlayTypeOK
  BY <1>1, <1>2, <1>3, <1>4, SMT DEF PlayInit, PlayTypeOK, SpiReg
<1>6. todo = {"boot"} /\ k = 1 /\ pc = "write"
  BY DEF PlayInit
<1>7. PlayInv
  <2>1. Len(Writes) = 8
    BY <1>5, <1>6, GroupCases, BootWritesShape
  <2>2. e.start = 0 /\ e.pause = 0 /\ e.resume = 0
    BY DEF PlayInit, AvalonInit
  <2> QED
    BY <1>6, <2>1, <2>2, SMT DEF PlayInv
<1>8. AtMostOneFlag
  BY SMT DEF PlayInit, AvalonInit, AtMostOneFlag, Flags
<1> QED
  BY <1>5, <1>7, <1>8 DEF IInv

\* A step that keeps todo, cmd, k, pc and e keeps PlayInv and AtMostOneFlag.
LEMMA Unwritten ==
  ASSUME IInv, PlayTypeOK', UNCHANGED <<pc, cmd, todo, k, e>>, elems' = elems
  PROVE  IInv'
<1>1. Writes' = Writes
  BY DEF Writes, Group, JumpWrites
<1>2. PlayInv'
  BY <1>1 DEF IInv, PlayInv
<1>3. AtMostOneFlag'
  BY DEF IInv, AtMostOneFlag
<1> QED
  BY <1>2, <1>3 DEF IInv

LEMMA ConsoleStep ==
  ASSUME IInv, NEW r \in SpiReg, NEW d \in Typed[r], ConsoleSPI(r, d)
  PROVE  IInv'
<1>1. d \in 0..4
  <2>1. d \in GsCmds \cup JumpCmds \cup TiltCmds
    BY DEF SpiReg, Typed
  <2>2. \A i \in 1..4 \cup 0..2 : i \in 0..4
    BY SMT
  <2> QED
    BY <2>1, <2>2, CommandsAssumption DEF Dirs
<1>2. Base[r] \in 0..64
  BY SMT DEF SpiReg, Base
<1>3. d \in 0..127 /\ d + Base[r] \in 0..127
  BY <1>1, <1>2, SMT
<1>4. Data' \in [SpiReg -> 0..127] /\ old_pic' \in [SpiReg -> BOOLEAN]
  BY <1>3 DEF ConsoleSPI, IInv, PlayTypeOK
<1>5. PlayTypeOK'
  BY <1>4 DEF ConsoleSPI, niosVars, IInv, PlayTypeOK
<1> QED
  BY <1>5, Unwritten DEF ConsoleSPI, niosVars

LEMMA PicResetStep ==
  ASSUME IInv, PicReset
  PROVE  IInv'
<1>1. Data' \in [SpiReg -> 0..127] /\ old_pic' \in [SpiReg -> BOOLEAN]
  BY SMT DEF PicReset
<1>2. PlayTypeOK'
  BY <1>1 DEF PicReset, niosVars, IInv, PlayTypeOK
<1> QED
  BY <1>2, Unwritten DEF PicReset, niosVars

LEMMA NiosResetStep ==
  ASSUME IInv, NiosReset
  PROVE  IInv'
<1>1. e \in Registers
  BY DEF IInv, PlayTypeOK
<1>2. e' \in Registers
  BY <1>1, CubeAtType, SMT DEF NiosReset, Registers, Bit
<1>3. pos_qb' \in {CubeAt(s) : s \in Spots} /\ elems' \in SUBSET Cubes
  BY ZeroIsShown, CubeAtType DEF NiosReset
<1>4. cmd' \in [gs: 0..4, dir: 0..4, result: {0} \cup Cubes, tilt: 0..3]
  BY SMT DEF NiosReset, NoCmd
<1>5. old' \in [SpiReg -> BOOLEAN]
  BY DEF NiosReset
<1>6. pc' = "write" /\ todo' = {"boot"} /\ k' = 1
  BY DEF NiosReset
<1>7. PlayTypeOK'
  <2>1. Data' \in [SpiReg -> 0..127] /\ old_pic' \in [SpiReg -> BOOLEAN]
    BY DEF NiosReset, consoleVars, IInv, PlayTypeOK
  <2>2. k' \in 1..8
    BY <1>6, SMT
  <2> QED
    BY <1>2, <1>3, <1>4, <1>5, <1>6, <2>1, <2>2 DEF PlayTypeOK
<1>8. PlayInv'
  <2>1. Writes' = BootWrites
    BY <1>6 DEF Writes, Group, BootWrites
  <2>2. Writes' = BootWrites => k' <= Len(Writes')
    BY <1>6, BootWritesShape, SMT
  <2>3. e'.start = 0 /\ e'.pause = 0 /\ e'.resume = 0
    BY DEF NiosReset
  <2> QED
    BY <1>6, <2>1, <2>2, <2>3 DEF PlayInv
<1>9. AtMostOneFlag'
  BY SMT DEF NiosReset, AtMostOneFlag, Flags
<1> QED
  BY <1>7, <1>8, <1>9 DEF IInv

-----------------------------------------------------------------------------
(* Reading keeps the invariant *)

\* While the Nios reads, nothing of the current turn is written yet.
LEMMA Reading ==
  ASSUME IInv, pc # "write"
  PROVE  /\ "boot" \notin todo /\ k = 1
         /\ \A S : "boot" \notin todo \cup S <=> "boot" \notin S
  BY DEF IInv, PlayInv

\* A read step keeps k = 1 and the registers; it establishes the invariant when
\* what it leaves in todo can be written.
LEMMA ReadKeeps ==
  ASSUME IInv, pc # "write", PlayTypeOK', UNCHANGED <<k, e>>,
         "boot" \notin todo', pc' = "write" => todo' # {},
         "gs" \in todo' => cmd'.gs \in 1..4
  PROVE  IInv'
<1>1. k' = 1
  BY Reading
<1>2. AtMostOneFlag'
  BY DEF IInv, AtMostOneFlag
<1>3. PlayInv'
  <2>1. pc' = "write" => k' <= Len(Writes')
    <3> SUFFICES ASSUME pc' = "write" PROVE 1 <= Len(Writes')
      BY <1>1
    <3>1. (Writable => 1 <= Len(Writes) /\ Len(Writes) \in 1..8)'
      BY GroupStarts, PTL
    <3> QED
      BY <3>1 DEF Writable
  <2>2. ~ \E j \in 1..(k' - 1) : TRUE
    BY <1>1, SMT
  <2> QED
    BY <1>1, <2>1, <2>2 DEF PlayInv
<1> QED
  BY <1>2, <1>3 DEF IInv

LEMMA ReadPosStep ==
  ASSUME IInv, NEW s \in Spots, ReadPos(CubeAt(s))
  PROVE  IInv'
<1>1. pos_qb' \in {CubeAt(p) : p \in Spots}
  BY DEF ReadPos
<1>2. PlayTypeOK'
  BY <1>1 DEF ReadPos, consoleVars, IInv, PlayTypeOK
<1>3. pc # "write" /\ pc' # "write" /\ UNCHANGED <<k, e, todo, cmd>>
  BY DEF ReadPos
<1>4. "boot" \notin todo' /\ ("gs" \in todo' => cmd'.gs \in 1..4)
  BY <1>3, Reading DEF IInv, PlayInv
<1> QED
  BY <1>2, <1>3, <1>4, ReadKeeps

LEMMA ReadGsStep ==
  ASSUME IInv, ReadGs
  PROVE  IInv'
<1>1. pc = "gs" /\ pc' = "jump" /\ UNCHANGED <<k, e, Data, old_pic, elems, pos_qb>>
  BY DEF ReadGs, consoleVars
<1>2. old' \in [SpiReg -> BOOLEAN]
  BY DEF ReadGs, Toggle, IInv, PlayTypeOK
<1>3. CASE UNCHANGED <<cmd, todo>>
  <2>1. PlayTypeOK'
    BY <1>1, <1>2, <1>3 DEF IInv, PlayTypeOK
  <2>2. "boot" \notin todo' /\ ("gs" \in todo' => cmd'.gs \in 1..4)
    BY <1>1, <1>3, Reading DEF IInv, PlayInv
  <2> QED
    BY <1>1, <2>1, <2>2, ReadKeeps
<1>4. CASE Decoded("gs") \in 1..4 /\ cmd' = [cmd EXCEPT !.gs = Decoded("gs")] /\ todo' = {"gs"}
  <2>1. cmd \in [gs: 0..4, dir: 0..4, result: {0} \cup Cubes, tilt: 0..3]
    BY DEF IInv, PlayTypeOK
  <2>2. /\ cmd' \in [gs: 0..4, dir: 0..4, result: {0} \cup Cubes, tilt: 0..3]
        /\ cmd'.gs \in 1..4
    BY <1>4, <2>1, SMT
  <2>3. PlayTypeOK'
    BY <1>1, <1>2, <1>4, <2>2 DEF IInv, PlayTypeOK
  <2> QED
    BY <1>1, <1>4, <2>2, <2>3, ReadKeeps
<1> QED
  BY <1>3, <1>4 DEF ReadGs

LEMMA ReadJumpStep ==
  ASSUME IInv, ReadJump
  PROVE  IInv'
<1> DEFINE dir == Decoded("jump")
           result == mvmt(dir, pos_qb)
<1>1. pc = "jump" /\ pc' = "acc" /\ UNCHANGED <<k, e, Data, old_pic>> /\ pos_qb' = 0
  BY DEF ReadJump, consoleVars
<1>2. old' \in [SpiReg -> BOOLEAN]
  BY DEF ReadJump, Toggle, IInv, PlayTypeOK
<1>3. pos_qb' \in {CubeAt(s) : s \in Spots}
  BY <1>1, ZeroIsShown
<1>4. CASE UNCHANGED <<cmd, todo, elems>>
  <2>1. PlayTypeOK'
    BY <1>1, <1>2, <1>3, <1>4 DEF IInv, PlayTypeOK
  <2>2. "boot" \notin todo' /\ ("gs" \in todo' => cmd'.gs \in 1..4)
    BY <1>1, <1>4, Reading DEF IInv, PlayInv
  <2> QED
    BY <1>1, <2>1, <2>2, ReadKeeps
<1>5. CASE /\ pos_qb # 0 /\ dir \in Dirs
           /\ cmd' = [cmd EXCEPT !.dir = dir, !.result = result]
           /\ todo' = todo \cup {"jump"}
           /\ elems' = elems \cup ({result} \ {0})
  <2>1. result \in {0} \cup Cubes
    BY <1>5, ResultType DEF IInv, PlayTypeOK
  <2>2. dir \in 0..4
    BY <1>5, SMT DEF Dirs
  <2>3. cmd \in [gs: 0..4, dir: 0..4, result: {0} \cup Cubes, tilt: 0..3]
    BY DEF IInv, PlayTypeOK
  <2> HIDE DEF dir, result
  <2>4. /\ cmd' \in [gs: 0..4, dir: 0..4, result: {0} \cup Cubes, tilt: 0..3]
        /\ cmd'.gs = cmd.gs
    <3> DEFINE turned == [cmd EXCEPT !.dir = dir]
    <3>1. /\ turned \in [gs: 0..4, dir: 0..4, result: {0} \cup Cubes, tilt: 0..3]
          /\ turned.gs = cmd.gs
      BY <2>2, <2>3, SMT
    <3>2. cmd' = [turned EXCEPT !.result = result]
      BY <1>5
    <3> HIDE DEF turned
    <3> QED
      BY <2>1, <3>1, <3>2, SMT
  <2>5. elems' \in SUBSET Cubes
    BY <1>5, <2>1 DEF IInv, PlayTypeOK
  <2>6. PlayTypeOK'
    BY <1>1, <1>2, <1>3, <1>5, <2>4, <2>5 DEF IInv, PlayTypeOK
  <2>7. "boot" \notin todo' /\ ("gs" \in todo' => cmd'.gs \in 1..4)
    BY <1>1, <1>5, <2>4, Reading DEF IInv, PlayInv
  <2> QED
    BY <1>1, <2>6, <2>7, ReadKeeps
<1> QED
  BY <1>4, <1>5 DEF ReadJump, JumpReady, Paint

LEMMA ReadAccStep ==
  ASSUME IInv, ReadAcc
  PROVE  IInv'
<1>1. /\ pc = "acc" /\ UNCHANGED <<k, e, Data, old_pic, elems, pos_qb>>
      /\ pc' = IF todo' = {} THEN "pos" ELSE "write"
  BY DEF ReadAcc, consoleVars
<1>2. old' \in [SpiReg -> BOOLEAN]
  BY DEF ReadAcc, Toggle, IInv, PlayTypeOK
<1>3. CASE UNCHANGED <<cmd, todo>>
  <2>1. PlayTypeOK'
    BY <1>1, <1>2, <1>3 DEF IInv, PlayTypeOK
  <2>2. "boot" \notin todo' /\ ("gs" \in todo' => cmd'.gs \in 1..4)
    BY <1>1, <1>3, Reading DEF IInv, PlayInv
  <2> QED
    BY <1>1, <2>1, <2>2, ReadKeeps
<1>4. CASE /\ cmd' = [cmd EXCEPT !.tilt = Decoded("acc") % 4]
           /\ todo' = todo \cup {"acc"}
  <2>1. Decoded("acc") \in Int
    <3>1. Data["acc"] \in 0..127
      BY DEF IInv, PlayTypeOK, SpiReg
    <3> QED
      BY <3>1, SMT DEF Decoded, Base
  <2>2. Decoded("acc") % 4 \in 0..3
    BY <2>1, SMT
  <2>3. cmd \in [gs: 0..4, dir: 0..4, result: {0} \cup Cubes, tilt: 0..3]
    BY DEF IInv, PlayTypeOK
  <2>4. /\ cmd' \in [gs: 0..4, dir: 0..4, result: {0} \cup Cubes, tilt: 0..3]
        /\ cmd'.gs = cmd.gs
    BY <1>4, <2>2, <2>3, SMT
  <2>5. PlayTypeOK'
    BY <1>1, <1>2, <1>4, <2>4 DEF IInv, PlayTypeOK
  <2>6. "boot" \notin todo' /\ ("gs" \in todo' => cmd'.gs \in 1..4)
    BY <1>1, <1>4, <2>4, Reading DEF IInv, PlayInv
  <2> QED
    BY <1>1, <1>4, <2>5, <2>6, ReadKeeps
<1> QED
  BY <1>3, <1>4 DEF ReadAcc

-----------------------------------------------------------------------------
(* Writing keeps the invariant *)

LEMMA WriteMoreStep ==
  ASSUME IInv, WriteMore
  PROVE  IInv'
<1>1. /\ pc = "write" /\ IOWR(Writes[k]) /\ k < Len(Writes) /\ k' = k + 1
      /\ UNCHANGED <<Data, old_pic, old, elems, pc, pos_qb, cmd, todo>>
  BY DEF WriteMore, consoleVars
<1>2. k \in 1..8 /\ Len(Writes) \in 1..8
  BY <1>1, GroupStarts DEF IInv, PlayInv, PlayTypeOK, Writable
<1>3. k' \in 1..8 /\ k' <= Len(Writes) /\ k' - 1 = k
  <2>1. \A i, n \in 1..8 : i < n => i + 1 \in 1..8 /\ i + 1 <= n /\ (i + 1) - 1 = i
    BY SMT
  <2> QED
    BY <1>1, <1>2, <2>1
<1>4. Writes' = Writes
  BY <1>1 DEF Writes, Group, JumpWrites
<1>5. PlayTypeOK'
  BY <1>1, <1>3, OneWrite DEF IInv, PlayTypeOK
<1>6. PlayInv'
  BY <1>1, <1>3, <1>4, OneWrite DEF IInv, PlayInv
<1> QED
  BY <1>1, <1>5, <1>6, OneWrite DEF IInv

LEMMA WriteLastStep ==
  ASSUME IInv, WriteLast
  PROVE  IInv'
<1>1. /\ pc = "write" /\ IOWR(Writes[k]) /\ k' = 1 /\ todo' = todo \ {Group}
      /\ UNCHANGED <<Data, old_pic, old, elems, pos_qb>>
  BY DEF WriteLast, consoleVars
<1>2. e' \in Registers /\ AtMostOneFlag'
  BY <1>1, OneWrite
<1>3. "boot" \notin todo'
  <2>1. todo # {} /\ ("boot" \in todo => todo = {"boot"})
    BY <1>1 DEF IInv, PlayInv
  <2> QED
    BY <1>1, <2>1, GroupCases DEF IInv
<1>4. cmd' \in [gs: 0..4, dir: 0..4, result: {0} \cup Cubes, tilt: 0..3]
  <2>1. NoCmd \in [gs: 0..4, dir: 0..4, result: {0} \cup Cubes, tilt: 0..3]
    BY SMT DEF NoCmd
  <2> QED
    BY <2>1 DEF WriteLast, IInv, PlayTypeOK
<1>5. pc' \in {"pos", "write"} /\ (pc' = "write" => todo' # {} /\ cmd' = cmd)
      /\ (todo' # {} => cmd' = cmd)
  BY <1>1 DEF WriteLast
<1>6. PlayTypeOK'
  <2>1. k' \in 1..8
    BY <1>1, SMT
  <2> QED
    BY <1>1, <1>2, <1>4, <1>5, <2>1 DEF IInv, PlayTypeOK
<1>7. "gs" \in todo' => cmd'.gs \in 1..4
  BY <1>1, <1>5 DEF IInv, PlayInv
<1>8. PlayInv'
  <2>1. (Writable => 1 <= Len(Writes) /\ Len(Writes) \in 1..8)'
    BY GroupStarts, PTL
  <2>2. pc' = "write" => k' <= Len(Writes')
    BY <1>1, <1>5, <1>6, <1>7, <2>1 DEF Writable
  <2>3. ~ \E j \in 1..(k' - 1) : TRUE
    BY <1>1, SMT
  <2> QED
    BY <1>1, <1>3, <1>5, <1>7, <2>2, <2>3 DEF PlayInv
<1> QED
  BY <1>2, <1>6, <1>8 DEF IInv

-----------------------------------------------------------------------------
(* The theorems *)

\* Every step of the console, of the Nios and of the resets keeps the invariant.
LEMMA NextIInv == IInv /\ [PlayNext]_playVars => IInv'
<1> SUFFICES ASSUME IInv, [PlayNext]_playVars PROVE IInv'
  OBVIOUS
<1>1. CASE PlayerStep
  BY <1>1, ConsoleStep, PicResetStep, NiosResetStep DEF PlayerStep
<1>2. ASSUME NEW s \in Spots, NiosStep(CubeAt(s)) PROVE IInv'
  BY <1>2, ReadPosStep, ReadGsStep, ReadJumpStep, ReadAccStep, WriteMoreStep,
     WriteLastStep DEF NiosStep
<1>3. CASE UNCHANGED playVars
  <2>1. PlayTypeOK'
    BY <1>3 DEF playVars, consoleVars, niosVars, IInv, PlayTypeOK
  <2> QED
    BY <1>3, <2>1, Unwritten DEF playVars, consoleVars, niosVars
<1> QED
  BY <1>1, <1>2, <1>3 DEF PlayNext

LEMMA PlayInvariant == PlaySpec => []IInv
  BY InitIInv, NextIInv, PTL DEF PlaySpec

\* The registers, the locals of the Nios and the counters of its writes stay
\* in their ranges for every pyramid and every set of commands.
THEOREM PlayTypeCorrect == PlaySpec => []PlayTypeOK
<1>1. IInv => PlayTypeOK
  BY DEF IInv
<1> QED
  BY <1>1, PlayInvariant, PTL

\* At every moment, in the middle of a group of writes too, at most one of
\* e_start_qb, e_pause_qb, e_resume_qb and e_menu_qb is raised.
THEOREM OneFlag == PlaySpec => []AtMostOneFlag
<1>1. IInv => AtMostOneFlag
  BY DEF IInv
<1> QED
  BY <1>1, PlayInvariant, PTL

-----------------------------------------------------------------------------
(* The toggle bit of the three SPI registers, whatever is typed and        *)
(* however fast each end runs: each register is a slot that shows its      *)
(* reader every command at most once, and none sent while the one before   *)
(* was taken escapes the Nios.                                             *)

\* What a register holds: nothing yet, or a command with or without the base.
Held(r, v) == v = 0 \/ \E d \in Typed[r] : v = d \/ v = d + Base[r]

AllHeld == \A r \in SpiReg : Held(r, Data[r])

\* The Nios has in hand only the commands it took in this turn.
InHand ==
  /\ todo = {} => cmd = NoCmd
  /\ pc \in {"pos", "gs"} => todo = {}
  /\ pc = "jump" => cmd.dir = 0 /\ cmd.tilt = 0
  /\ pc = "acc" => cmd.tilt = 0

SlotInv == AllHeld /\ InHand

\* The command of register r that the Nios is executing.
Hand(r) == IF r = "gs" THEN cmd.gs ELSE IF r = "jump" THEN cmd.dir ELSE cmd.tilt

-----------------------------------------------------------------------------
(* Decoding *)

LEMMA TypedRange ==
  /\ \A d \in Typed["gs"] : d \in 1..4
  /\ \A d \in Typed["jump"] : d \in 1..4
  /\ \A d \in Typed["acc"] : d \in 0..2
<1>1. Dirs = 1..4
  BY DEF Dirs
<1> QED
  BY <1>1, CommandsAssumption DEF Typed

\* The console and the Nios agree on the command a register holds.
LEMMA Decoding ==
  ASSUME AllHeld
  PROVE  /\ Decoded("gs") = Command("gs")
         /\ Decoded("jump") = Command("jump")
         /\ Decoded("acc") % 4 = Command("acc")
         /\ \A r \in SpiReg : Command(r) \in 0..4
<1>1. \A v : v = 0 \/ (\E d \in 1..4 : v = d \/ v = d + 64) =>
        /\ (IF v > 64 THEN v - 64 ELSE v) = (IF v >= 64 THEN v - 64 ELSE v)
        /\ (IF v >= 64 THEN v - 64 ELSE v) \in 0..4
  BY SMT
<1>2. \A v : v = 0 \/ (\E d \in 1..4 : v = d \/ v = d + 16) =>
        /\ (IF v > 16 THEN v - 16 ELSE v) = (IF v >= 16 THEN v - 16 ELSE v)
        /\ (IF v >= 16 THEN v - 16 ELSE v) \in 0..4
  BY SMT
<1>3. \A v : v = 0 \/ (\E d \in 0..2 : v = d \/ v = d + 32) =>
        /\ (IF v > 32 THEN v - 32 ELSE v) % 4 = (IF v >= 32 THEN v - 32 ELSE v)
        /\ (IF v >= 32 THEN v - 32 ELSE v) \in 0..4
  BY SMT
<1>4. Base["gs"] = 64 /\ Base["jump"] = 16 /\ Base["acc"] = 32
  BY DEF Base
<1>5. /\ Data["gs"] = 0 \/ \E d \in 1..4 : Data["gs"] = d \/ Data["gs"] = d + 64
      /\ Data["jump"] = 0 \/ \E d \in 1..4 : Data["jump"] = d \/ Data["jump"] = d + 16
      /\ Data["acc"] = 0 \/ \E d \in 0..2 : Data["acc"] = d \/ Data["acc"] = d + 32
  BY <1>4, TypedRange DEF AllHeld, Held, SpiReg
<1>6. Decoded("gs") = Command("gs") /\ Command("gs") \in 0..4
  BY <1>1, <1>4, <1>5 DEF Decoded, Command, Up
<1>7. Decoded("jump") = Command("jump") /\ Command("jump") \in 0..4
  BY <1>2, <1>4, <1>5 DEF Decoded, Command, Up
<1>8. Decoded("acc") % 4 = Command("acc") /\ Command("acc") \in 0..4
  BY <1>3, <1>4, <1>5 DEF Decoded, Command, Up
<1> QED
  BY <1>6, <1>7, <1>8 DEF SpiReg

\* A command reads back as itself, with the base or without it.
LEMMA ReadsBack ==
  ASSUME NEW r \in SpiReg, NEW d \in Typed[r], NEW v \in {d, d + Base[r]}
  PROVE  (IF v >= Base[r] THEN v - Base[r] ELSE v) = d
<1>1. d \in 0..4 /\ Base[r] \in {16, 32, 64}
  BY TypedRange, SMT DEF SpiReg, Base
<1>2. \A dd \in 0..4, b \in {16, 32, 64} : \A u \in {dd, dd + b} :
        (IF u >= b THEN u - b ELSE u) = dd
  BY SMT
<1> QED
  BY <1>1, <1>2

-----------------------------------------------------------------------------
(* The slot of one register *)

SlotStep(r) ==
  \/ \E d \in Typed[r] : /\ Command(r)' = d /\ Pending(r)' \in {-1, d}
                         /\ Hand(r)' = Hand(r)
  \/ /\ Pending(r) # -1 /\ Hand(r) = 0
     /\ Hand(r)' = Pending(r) /\ Pending(r)' = -1
     /\ Command(r)' = Command(r)
  \/ /\ Hand(r)' = 0
     /\ Pending(r)' = Pending(r) /\ Command(r)' = Command(r)
  \/ /\ Command(r)' = 0 /\ Pending(r)' \in {-1, 0}
     /\ Hand(r)' = Hand(r)
  \/ /\ Pending(r)' \in {-1, Command(r)} /\ Hand(r)' = 0
     /\ Command(r)' = Command(r)
  \/ /\ Pending(r)' = Pending(r) /\ Command(r)' = Command(r)
     /\ Hand(r)' = Hand(r)

\* A step that leaves a register and its parity alone leaves its slot alone.
LEMMA SameSlot ==
  ASSUME NEW r \in SpiReg, Data'[r] = Data[r], old'[r] = old[r]
  PROVE  Pending(r)' = Pending(r) /\ Command(r)' = Command(r)
BY DEF Pending, Command, Fresh, Up

LEMMA ConsoleSlot ==
  ASSUME IInv, SlotInv,
         NEW s \in SpiReg, NEW c \in Typed[s], ConsoleSPI(s, c), NEW r \in SpiReg
  PROVE  SlotStep(r) /\ SlotInv'
<1>1. /\ UNCHANGED <<old, pc, cmd, todo>>
      /\ Data' = [Data EXCEPT ![s] = IF old_pic[s] THEN c + Base[s] ELSE c]
  BY DEF ConsoleSPI, niosVars
<1>2. Data \in [SpiReg -> 0..127]
  BY DEF IInv, PlayTypeOK
<1>3. Data'[s] \in {c, c + Base[s]} /\ \A t \in SpiReg \ {s} : Data'[t] = Data[t]
  BY <1>1, <1>2
<1>4. Hand(r)' = Hand(r)
  BY <1>1 DEF Hand
<1>5. ASSUME r = s PROVE SlotStep(r)
  <2>1. Command(r)' = c
    BY <1>3, <1>5, ReadsBack DEF Command
  <2>2. Pending(r)' \in {-1, c}
    BY <2>1 DEF Pending
  <2> QED
    BY <1>4, <1>5, <2>1, <2>2 DEF SlotStep
<1>6. ASSUME r # s PROVE SlotStep(r)
  BY <1>1, <1>3, <1>4, <1>6, SameSlot DEF SlotStep
<1>7. AllHeld'
  BY <1>3 DEF SlotInv, AllHeld, Held
<1>8. InHand'
  BY <1>1 DEF SlotInv, InHand
<1> QED
  BY <1>5, <1>6, <1>7, <1>8 DEF SlotInv

LEMMA PicResetSlot ==
  ASSUME IInv, SlotInv, PicReset, NEW r \in SpiReg
  PROVE  SlotStep(r) /\ SlotInv'
<1>1. /\ UNCHANGED <<old, pc, cmd, todo>> /\ Data'[r] = 0
      /\ Data' = [t \in SpiReg |-> 0]
  BY DEF PicReset, niosVars
<1>2. Command(r)' = 0
  <2>1. Base[r] \in {16, 32, 64}
    BY DEF SpiReg, Base
  <2>2. \A b \in {16, 32, 64} : (IF 0 >= b THEN 0 - b ELSE 0) = 0
    BY SMT
  <2> QED
    BY <1>1, <2>1, <2>2 DEF Command
<1>3. Pending(r)' \in {-1, 0}
  BY <1>2 DEF Pending
<1>4. Hand(r)' = Hand(r)
  BY <1>1 DEF Hand
<1>5. SlotInv'
  BY <1>1 DEF SlotInv, AllHeld, Held, InHand
<1> QED
  BY <1>2, <1>3, <1>4, <1>5 DEF SlotStep

LEMMA NiosResetSlot ==
  ASSUME IInv, SlotInv, NiosReset, NEW r \in SpiReg
  PROVE  SlotStep(r) /\ SlotInv'
<1>1. /\ Data' = Data /\ pc' = "write" /\ todo' = {"boot"} /\ cmd' = NoCmd
  BY DEF NiosReset, consoleVars
<1>2. Command(r)' = Command(r)
  BY <1>1 DEF Command
<1>3. Pending(r)' \in {-1, Command(r)}
  BY <1>2 DEF Pending
<1>4. Hand(r)' = 0
  BY <1>1 DEF Hand, NoCmd
<1>5. SlotInv'
  BY <1>1 DEF SlotInv, AllHeld, Held, InHand
<1> QED
  BY <1>2, <1>3, <1>4, <1>5 DEF SlotStep

\* What taking the command of register s does to the three slots, when the
\* parity of s flips and the command goes in hand.
LEMMA Taken ==
  ASSUME IInv, NEW s \in SpiReg, Data' = Data, Toggle(s), Fresh(s),
         Hand(s) = 0, Hand(s)' = Command(s), Command(s) \in 0..4,
         \A t \in SpiReg \ {s} : Hand(t)' = Hand(t),
         NEW r \in SpiReg
  PROVE  SlotStep(r)
<1>1. old \in [SpiReg -> BOOLEAN]
  BY DEF IInv, PlayTypeOK
<1>2. old'[s] = ~old[s] /\ \A t \in SpiReg \ {s} : old'[t] = old[t]
  BY <1>1 DEF Toggle
<1>3. CASE r = s
  <2>1. Command(r)' = Command(r)
    BY DEF Command
  <2>2. Pending(r) = Command(r)
    BY <1>3 DEF Pending
  <2>3. Command(r) # -1
    <3>1. \A n \in 0..4 : n # -1
      BY SMT
    <3> QED
      BY <1>3, <3>1
  <2>4. Pending(r)' = -1
    <3>1. Up(s, Data[s]) \in BOOLEAN
      BY DEF Up
    <3>2. ~Fresh(s)'
      BY <1>1, <1>2, <3>1 DEF Fresh
    <3> QED
      BY <1>3, <3>2 DEF Pending
  <2> QED
    BY <1>3, <2>1, <2>2, <2>3, <2>4 DEF SlotStep
<1>4. CASE r # s
  BY <1>2, <1>4, SameSlot DEF SlotStep
<1> QED
  BY <1>3, <1>4

\* Nothing is taken, nothing is finished.
LEMMA Untouched ==
  ASSUME Data' = Data, old' = old, cmd' = cmd, NEW r \in SpiReg
  PROVE  SlotStep(r)
<1>1. Hand(r)' = Hand(r)
  BY DEF Hand
<1> QED
  BY <1>1, SameSlot DEF SlotStep

LEMMA HeldStays ==
  ASSUME AllHeld, Data' = Data PROVE AllHeld'
BY DEF AllHeld, Held

LEMMA ReadSlot ==
  ASSUME IInv, SlotInv, ReadGs \/ ReadJump \/ ReadAcc, NEW r \in SpiReg
  PROVE  SlotStep(r) /\ SlotInv'
<1>1. /\ Data' = Data /\ AllHeld'
      /\ cmd \in [gs: 0..4, dir: 0..4, result: {0} \cup Cubes, tilt: 0..3]
  BY HeldStays DEF ReadGs, ReadJump, ReadAcc, consoleVars, SlotInv, IInv, PlayTypeOK
<1>2. Command("gs") \in 0..4 /\ Command("jump") \in 0..4 /\ Command("acc") \in 0..4
  BY Decoding DEF SlotInv, SpiReg
<1>3. ASSUME ReadGs PROVE SlotStep(r) /\ InHand'
  <2>1. pc = "gs" /\ pc' = "jump" /\ todo = {} /\ cmd = NoCmd
    BY <1>3 DEF ReadGs, SlotInv, InHand
  <2>2. cmd.gs = 0 /\ cmd.dir = 0 /\ cmd.tilt = 0
    BY <2>1 DEF NoCmd
  <2>3. CASE Fresh("gs") /\ Command("gs") \in 1..4
    <3>1. Toggle("gs") /\ cmd' = [cmd EXCEPT !.gs = Command("gs")] /\ todo' = {"gs"}
      BY <1>3, <2>3, Decoding DEF ReadGs, SlotInv
    <3>2. cmd'.gs = Command("gs") /\ cmd'.dir = cmd.dir /\ cmd'.tilt = cmd.tilt
      BY <1>1, <3>1, SMT
    <3>3. SlotStep(r)
      BY <1>1, <1>2, <2>2, <2>3, <3>1, <3>2, Taken DEF Hand, SpiReg
    <3> QED
      BY <2>1, <2>2, <3>1, <3>2, <3>3 DEF InHand
  <2>4. CASE Fresh("gs") /\ Command("gs") \notin 1..4
    <3>1. Toggle("gs") /\ UNCHANGED <<cmd, todo>>
      BY <1>3, <2>4, Decoding DEF ReadGs, SlotInv
    <3>2. Command("gs") = 0
      BY <1>2, <2>4, SMT
    <3>3. SlotStep(r)
      BY <1>1, <1>2, <2>2, <2>4, <3>1, <3>2, Taken DEF Hand, SpiReg
    <3> QED
      BY <2>1, <2>2, <3>1, <3>3 DEF InHand
  <2>5. CASE ~Fresh("gs")
    <3>1. UNCHANGED <<old, cmd, todo>>
      BY <1>3, <2>5 DEF ReadGs
    <3> QED
      BY <1>1, <2>1, <2>2, <3>1, Untouched DEF InHand
  <2> QED
    BY <2>3, <2>4, <2>5
<1>4. ASSUME ReadJump PROVE SlotStep(r) /\ InHand'
  <2>1. pc = "jump" /\ pc' = "acc" /\ cmd.dir = 0 /\ cmd.tilt = 0
        /\ (todo = {} => cmd = NoCmd)
    BY <1>4 DEF ReadJump, SlotInv, InHand
  <2>2. CASE JumpReady /\ Command("jump") \in Dirs
    <3>1. /\ Toggle("jump") /\ Fresh("jump") /\ todo' = todo \cup {"jump"}
          /\ cmd' = [cmd EXCEPT !.dir = Command("jump"),
                                !.result = mvmt(Command("jump"), pos_qb)]
      BY <1>4, <2>2, Decoding DEF ReadJump, SlotInv, JumpReady
    <3>2. cmd'.dir = Command("jump") /\ cmd'.gs = cmd.gs /\ cmd'.tilt = cmd.tilt
      BY <1>1, <3>1, SMT
    <3>3. SlotStep(r)
      BY <1>1, <1>2, <2>1, <3>1, <3>2, Taken DEF Hand, SpiReg
    <3> QED
      BY <2>1, <3>1, <3>2, <3>3 DEF InHand
  <2>3. CASE JumpReady /\ Command("jump") \notin Dirs
    <3>1. Toggle("jump") /\ Fresh("jump") /\ UNCHANGED <<cmd, todo>>
      BY <1>4, <2>3, Decoding DEF ReadJump, SlotInv, JumpReady
    <3>2. Command("jump") = 0
      BY <1>2, <2>3, SMT DEF Dirs
    <3>3. SlotStep(r)
      BY <1>1, <1>2, <2>1, <3>1, <3>2, Taken DEF Hand, SpiReg
    <3> QED
      BY <2>1, <3>1, <3>3 DEF InHand
  <2>4. CASE ~JumpReady
    <3>1. UNCHANGED <<old, cmd, todo>>
      BY <1>4, <2>4 DEF ReadJump
    <3> QED
      BY <1>1, <2>1, <3>1, Untouched DEF InHand
  <2> QED
    BY <2>2, <2>3, <2>4
<1>5. ASSUME ReadAcc PROVE SlotStep(r) /\ InHand'
  <2>1. /\ pc = "acc" /\ pc' = (IF todo' = {} THEN "pos" ELSE "write")
        /\ cmd.tilt = 0 /\ (todo = {} => cmd = NoCmd)
    BY <1>5 DEF ReadAcc, SlotInv, InHand
  <2>2. CASE Fresh("acc")
    <3>1. /\ Toggle("acc") /\ todo' = todo \cup {"acc"}
          /\ cmd' = [cmd EXCEPT !.tilt = Command("acc")]
      BY <1>5, <2>2, Decoding DEF ReadAcc, SlotInv
    <3>2. cmd'.tilt = Command("acc") /\ cmd'.gs = cmd.gs /\ cmd'.dir = cmd.dir
      BY <1>1, <3>1, SMT
    <3>3. SlotStep(r)
      BY <1>1, <1>2, <2>1, <2>2, <3>1, <3>2, Taken DEF Hand, SpiReg
    <3>4. todo' # {} /\ pc' = "write"
      BY <2>1, <3>1
    <3> QED
      BY <3>3, <3>4 DEF InHand
  <2>3. CASE ~Fresh("acc")
    <3>1. UNCHANGED <<old, cmd, todo>>
      BY <1>5, <2>3 DEF ReadAcc
    <3> QED
      BY <1>1, <2>1, <3>1, Untouched DEF InHand
  <2> QED
    BY <2>2, <2>3
<1> QED
  BY <1>1, <1>3, <1>4, <1>5 DEF SlotInv

LEMMA WriteSlot ==
  ASSUME IInv, SlotInv, WriteMore \/ WriteLast, NEW r \in SpiReg
  PROVE  SlotStep(r) /\ SlotInv'
<1>1. Data' = Data /\ old' = old /\ pc = "write" /\ AllHeld'
  BY HeldStays DEF WriteMore, WriteLast, consoleVars, SlotInv
<1>2. CASE cmd' = cmd /\ todo' = todo /\ pc' = pc
  BY <1>1, <1>2, Untouched DEF SlotInv, InHand
<1>3. CASE cmd' = cmd /\ todo' # {} /\ pc' = pc
  BY <1>1, <1>3, Untouched DEF SlotInv, InHand
<1>4. CASE cmd' = NoCmd /\ todo' = {} /\ pc' = "pos"
  <2>1. Hand(r)' = 0
    BY <1>4 DEF Hand, NoCmd
  <2> QED
    BY <1>1, <1>4, <2>1, SameSlot DEF SlotStep, SlotInv, InHand
<1> QED
  BY <1>2, <1>3, <1>4 DEF WriteMore, WriteLast

\* Every step is a step of the slot of every register, or leaves it alone.
LEMMA NextSlot ==
  ASSUME IInv, SlotInv, [PlayNext]_playVars, NEW r \in SpiReg
  PROVE  SlotStep(r) /\ SlotInv'
<1>1. CASE PlayerStep
  BY <1>1, ConsoleSlot, PicResetSlot, NiosResetSlot DEF PlayerStep
<1>2. ASSUME NEW s \in Spots, NiosStep(CubeAt(s)) PROVE SlotStep(r) /\ SlotInv'
  <2>1. CASE ReadPos(CubeAt(s))
    <3>1. /\ Data' = Data /\ old' = old /\ cmd' = cmd /\ todo' = todo
          /\ pc = "pos" /\ pc' = "gs"
      BY <2>1 DEF ReadPos, consoleVars
    <3> QED
      BY <3>1, Untouched, HeldStays DEF SlotInv, InHand
  <2> QED
    BY <1>2, <2>1, ReadSlot, WriteSlot DEF NiosStep
<1>3. CASE UNCHANGED playVars
  <2>1. Data' = Data /\ old' = old /\ cmd' = cmd /\ todo' = todo /\ pc' = pc
    BY <1>3 DEF playVars, consoleVars, niosVars
  <2> QED
    BY <2>1, Untouched, HeldStays DEF SlotInv, InHand
<1> QED
  BY <1>1, <1>2, <1>3 DEF PlayNext

LEMMA InitSlot ==
  ASSUME PlayInit
  PROVE  SlotInv /\ \A r \in SpiReg : Pending(r) = -1 /\ Command(r) = 0 /\ Hand(r) = 0
<1>1. SlotInv
  BY DEF PlayInit, SlotInv, AllHeld, Held, InHand
<1>2. ASSUME NEW r \in SpiReg
      PROVE  Pending(r) = -1 /\ Command(r) = 0 /\ Hand(r) = 0
  <2>1. Data[r] = 0 /\ old[r] = FALSE /\ cmd = NoCmd
    BY DEF PlayInit
  <2>2. Base[r] \in {16, 32, 64}
    BY DEF SpiReg, Base
  <2>3. Up(r, 0) = FALSE /\ Command(r) = 0
    <3>1. \A b \in {16, 32, 64} : (0 > b) = FALSE /\ ~(0 >= b)
      BY SMT
    <3> QED
      BY <2>1, <2>2, <3>1 DEF Up, Command
  <2>4. Pending(r) = -1
    BY <2>1, <2>3 DEF Pending, Fresh
  <2> QED
    BY <2>1, <2>3, <2>4 DEF Hand, NoCmd
<1> QED
  BY <1>1, <1>2

\* SlotInv is kept even when no register is named.
LEMMA NextSlotInv == IInv /\ SlotInv /\ [PlayNext]_playVars => SlotInv'
BY NextSlot DEF SpiReg

-----------------------------------------------------------------------------
(* The theorems *)

\* The game status register shows the Nios every command at most once, in
\* the order sent, and repeats the last one only after a reset of the Nios.
THEOREM GsIsSlot == PlaySpec => GsSlot
<1>1. PlayInit => Gs!SlotInit
  BY InitSlot DEF SpiReg, Gs!SlotInit, Hand
<1>2. IInv /\ SlotInv /\ [PlayNext]_playVars => [Gs!SlotNext]_(Gs!slotVars)
  <2> SUFFICES ASSUME IInv, SlotInv, [PlayNext]_playVars
               PROVE  [Gs!SlotNext]_(Gs!slotVars)
    OBVIOUS
  <2>1. SlotStep("gs")
    BY NextSlot DEF SpiReg
  <2> QED
    BY <2>1 DEF SlotStep, Hand, Gs!SlotNext, Gs!slotVars, Gs!Put, Gs!Take, Gs!Done,
       Gs!SenderRestarts, Gs!ReaderRestarts, Typed
<1>3. PlayInit => SlotInv
  BY InitSlot
<1> QED
  BY <1>1, <1>2, <1>3, NextSlotInv, PlayInvariant, PTL
     DEF PlaySpec, GsSlot, Gs!SlotSpec
\* The same of the jump register: no jump is made twice, and a jump that is
\* not taken is the last one sent or is lost.
THEOREM JumpIsSlot == PlaySpec => JumpSlot
<1>1. PlayInit => Jump!SlotInit
  BY InitSlot DEF SpiReg, Jump!SlotInit, Hand
<1>2. IInv /\ SlotInv /\ [PlayNext]_playVars => [Jump!SlotNext]_(Jump!slotVars)
  <2> SUFFICES ASSUME IInv, SlotInv, [PlayNext]_playVars
               PROVE  [Jump!SlotNext]_(Jump!slotVars)
    OBVIOUS
  <2>1. SlotStep("jump")
    BY NextSlot DEF SpiReg
  <2> QED
    BY <2>1 DEF SlotStep, Hand, Jump!SlotNext, Jump!slotVars, Jump!Put, Jump!Take, Jump!Done,
       Jump!SenderRestarts, Jump!ReaderRestarts, Typed
<1>3. PlayInit => SlotInv
  BY InitSlot
<1> QED
  BY <1>1, <1>2, <1>3, NextSlotInv, PlayInvariant, PTL
     DEF PlaySpec, JumpSlot, Jump!SlotSpec

\* The same of the tilt register.
THEOREM AccIsSlot == PlaySpec => AccSlot
<1>1. PlayInit => Acc!SlotInit
  BY InitSlot DEF SpiReg, Acc!SlotInit, Hand
<1>2. IInv /\ SlotInv /\ [PlayNext]_playVars => [Acc!SlotNext]_(Acc!slotVars)
  <2> SUFFICES ASSUME IInv, SlotInv, [PlayNext]_playVars
               PROVE  [Acc!SlotNext]_(Acc!slotVars)
    OBVIOUS
  <2>1. SlotStep("acc")
    BY NextSlot DEF SpiReg
  <2> QED
    BY <2>1 DEF SlotStep, Hand, Acc!SlotNext, Acc!slotVars, Acc!Put, Acc!Take, Acc!Done,
       Acc!SenderRestarts, Acc!ReaderRestarts, Typed
<1>3. PlayInit => SlotInv
  BY InitSlot
<1> QED
  BY <1>1, <1>2, <1>3, NextSlotInv, PlayInvariant, PTL
     DEF PlaySpec, AccSlot, Acc!SlotSpec

\* Without restarts, and when no command is 0, the parity the console keeps
\* says whether the base is in the register.
SameParity == \A r \in SpiReg : Up(r, Data[r]) = ~old_pic[r]

LEMMA ParityStep ==
  ASSUME IInv, SameParity, 0 \notin TiltCmds,
         NEW s \in SpiReg, NEW c \in Typed[s], ConsoleSPI(s, c)
  PROVE  /\ SameParity' /\ old' = old
         /\ Up(s, Data'[s]) = ~Up(s, Data[s])
         /\ \A r \in SpiReg \ {s} : Data'[r] = Data[r]
<1>1. /\ Data \in [SpiReg -> 0..127] /\ old_pic \in [SpiReg -> BOOLEAN]
      /\ Data' = [Data EXCEPT ![s] = IF old_pic[s] THEN c + Base[s] ELSE c]
      /\ old_pic' = [old_pic EXCEPT ![s] = ~@] /\ old' = old
  BY DEF ConsoleSPI, niosVars, IInv, PlayTypeOK
<1>2. /\ Data'[s] = (IF old_pic[s] THEN c + Base[s] ELSE c)
      /\ old_pic'[s] = ~old_pic[s] /\ old_pic[s] \in BOOLEAN
      /\ \A r \in SpiReg \ {s} : Data'[r] = Data[r] /\ old_pic'[r] = old_pic[r]
  BY <1>1
<1>3. (c + Base[s] > Base[s]) = TRUE /\ (c > Base[s]) = FALSE
  <2>1. c \in 1..4 /\ Base[s] \in {16, 32, 64}
    <3>1. \A d \in 0..2 : d = 0 \/ d \in 1..4
      BY SMT
    <3>2. \A d \in Typed["acc"] : d # 0
      BY DEF Typed
    <3> QED
      BY <3>1, <3>2, TypedRange DEF SpiReg, Base
  <2>2. \A d \in 1..4, b \in {16, 32, 64} : (d + b > b) = TRUE /\ (d > b) = FALSE
    BY SMT
  <2> QED
    BY <2>1, <2>2
<1>4. Up(s, Data'[s]) = old_pic[s]
  BY <1>2, <1>3 DEF Up
<1> QED
  BY <1>1, <1>2, <1>4 DEF SameParity

\* A command sent once the one before was taken is seen, for every set of
\* commands without the flat tilt, as long as neither end restarts alone.
THEOREM SeenWhenSent ==
  ASSUME ~Resets, 0 \notin TiltCmds
  PROVE  PlaySpec => SentIsSeen
<1>1. PlayInit => SameParity
  <2> SUFFICES ASSUME PlayInit PROVE SameParity
    OBVIOUS
  <2>1. \A r \in SpiReg : Data[r] = 0 /\ old_pic[r] = TRUE /\ Base[r] \in {16, 32, 64}
    BY DEF PlayInit, SpiReg, Base
  <2>2. \A b \in {16, 32, 64} : (0 > b) = FALSE
    BY SMT
  <2> QED
    BY <2>1, <2>2 DEF SameParity, Up
<1>2. ASSUME IInv, SameParity, [PlayNext]_playVars
      PROVE  /\ SameParity'
             /\ \A r \in SpiReg : ~Fresh(r) /\ Data'[r] # Data[r] => Fresh(r)'
  <2>1. ASSUME NEW s \in SpiReg, NEW c \in Typed[s], ConsoleSPI(s, c),
               NEW r \in SpiReg, ~Fresh(r), Data'[r] # Data[r]
        PROVE  Fresh(r)'
    <3>1. r = s /\ Up(s, Data'[s]) = ~Up(s, Data[s]) /\ old' = old
      BY <1>2, <2>1, ParityStep
    <3>2. old[s] \in BOOLEAN /\ Up(s, Data[s]) \in BOOLEAN
      BY <1>2 DEF IInv, PlayTypeOK, Up
    <3> QED
      BY <2>1, <3>1, <3>2 DEF Fresh
  <2>2. ASSUME NEW s \in SpiReg, NEW c \in Typed[s], ConsoleSPI(s, c)
        PROVE  /\ SameParity'
               /\ \A r \in SpiReg : ~Fresh(r) /\ Data'[r] # Data[r] => Fresh(r)'
    BY <1>2, <2>1, <2>2, ParityStep
  <2>3. CASE UNCHANGED consoleVars
    BY <1>2, <2>3 DEF consoleVars, SameParity
  <2>4. \A s \in Spots : NiosStep(CubeAt(s)) => UNCHANGED consoleVars
    BY DEF NiosStep, ReadPos, ReadGs, ReadJump, ReadAcc, WriteMore, WriteLast
  <2>5. CASE UNCHANGED playVars
    BY <2>3, <2>5 DEF playVars
  <2> QED
    BY <1>2, <2>2, <2>3, <2>4, <2>5 DEF PlayNext, PlayerStep, PicReset, NiosReset
<1> QED
  BY <1>1, <1>2, PlayInvariant, PTL DEF PlaySpec, SentIsSeen

-----------------------------------------------------------------------------
(***************************************************************************)
(* PART 2, MtlBoard.  The whole board is one of the behaviours of the      *)
(* console and the Nios alone, so that all that is proved of PlaySpec      *)
(* holds of it; its types, the colours of a paused game and the four lives *)
(* of a game.                                                              *)
(***************************************************************************)

\* The types of Q*bert's machine; he leaves only from a cube.
LayerInv ==
  /\ game_state \in GameStates /\ qbert_state \in QbertStates
  /\ LIFE_qb \in 0..15 /\ jump_reg \in 0..4
  /\ done_move_reg \in Bit /\ gameover_reg \in Bit
  /\ spot \in Spots /\ leg \in 0..2
  /\ leg = 0 => OnPyramid(spot)

OthersInv ==
  /\ color_bit \in {"IDLE", "UPDATE"} /\ color_state_reg \in SUBSET Cubes
  /\ RGB_state \in 0..2 /\ pause_play \in Bit

BoardInv == IInv /\ LayerInv /\ OthersInv

-----------------------------------------------------------------------------
(* Where Q*bert can be *)

LEMMA TopIsSpot == Top \in Spots
<1>1. 1 \in 0..Rows + 1
  BY RowsAssumption, SMT
<1> QED
  BY <1>1 DEF Top, Spots

\* One hop from a cube stays within the border around the pyramid.
LEMMA HopIsSpot ==
  ASSUME NEW s \in Spots, OnPyramid(s), NEW d
  PROVE  Hop(s, d) \in Spots
<1>1. PICK r \in 0..Rows + 1, c \in 0..Rows + 1 : s = <<r, c>>
  BY DEF Spots
<1>2. r \in 1..Rows /\ c \in 1..Rows
  BY <1>1, RowsAssumption, SMT DEF OnPyramid
<1>3. \A n \in 1..Rows : n \in 0..Rows + 1 /\ n - 1 \in 0..Rows + 1 /\ n + 1 \in 0..Rows + 1
  BY RowsAssumption, SMT
<1>4. Hop(s, d) = << IF d <= 2 THEN r + 1 ELSE r - 1,
                     IF d = 2 THEN c + 1 ELSE IF d = 3 THEN c - 1 ELSE c >>
  BY <1>1 DEF Hop
<1> QED
  BY <1>2, <1>3, <1>4 DEF Spots

\* What the game shows on position_qb is the number of a spot.
LEMMA PositionIsShown ==
  ASSUME LayerInv
  PROVE  \E s \in Spots : position_qb = CubeAt(s)
<1>1. CASE leg = 1
  BY <1>1, ZeroIsShown DEF position_qb
<1>2. CASE leg # 1
  BY <1>2 DEF position_qb, LayerInv
<1> QED
  BY <1>1, <1>2

\* Q*bert is on a cube when a position is shown.
LEMMA ShownIsOnPyramid ==
  ASSUME position_qb # 0
  PROVE  OnPyramid(spot)
  BY DEF position_qb, CubeAt

-----------------------------------------------------------------------------
(* One clock *)

LEMMA LayerInitInv == LayerInit => LayerInv /\ OthersInv
<1> SUFFICES ASSUME LayerInit PROVE LayerInv /\ OthersInv
  OBVIOUS
<1>1. LayerInv
  BY TopIsSpot, SMT DEF LayerInit, LayerInv, GameStates, QbertStates, Bit
<1>2. OthersInv
  BY SMT DEF LayerInit, OthersInv, Bit
<1> QED
  BY <1>1, <1>2

LEMMA LayerMoveInv ==
  ASSUME LayerInv, e \in Registers, LayerMove
  PROVE  LayerInv'
<1> USE DEF LayerInv
<1>1. CASE Menu
  BY <1>1 DEF Menu, NewGame, Stay, layerVars, GameStates, QbertStates, Bit
<1>2. CASE Pause
  BY <1>2 DEF Pause, NewGame, GoTo, Stay, layerVars, GameStates, QbertStates, Bit
<1>3. CASE Restart
  BY <1>3 DEF Restart, GameStates, QbertStates
<1>4. CASE Gameover
  BY <1>4 DEF Gameover, NewGame, GoTo, Stay, layerVars, GameStates, QbertStates, Bit
<1>5. CASE ToPause
  BY <1>5 DEF ToPause, GoTo, GameStates
<1>6. CASE Init_
  <2>1. Lives \in 0..15
    BY SMT DEF Lives
  <2>2. leg' \in 0..2 /\ leg' # 0
    BY <1>6, SMT DEF Init_
  <2> QED
    BY <1>6, <2>1, <2>2, TopIsSpot DEF Init_, QbertStates, Bit
<1>7. CASE SlideIn \/ EnterBox
  <2>1. leg' \in 0..2 /\ leg' # 0
    BY <1>7, SMT DEF SlideIn, EnterBox
  <2> QED
    BY <1>7, <2>1 DEF SlideIn, EnterBox
<1>8. CASE Arrive("START") \/ Arrive("JUMP")
  BY <1>8 DEF Arrive, QbertStates, Bit
<1>9. CASE TakeOff
  <2>1. OnPyramid(spot)
    BY <1>9, ShownIsOnPyramid DEF TakeOff
  <2>2. e.jump \in 0..4
    BY SMT DEF Registers
  <2>3. leg' \in 0..2
    BY <1>9, SMT DEF TakeOff
  <2>4. OnPyramid(spot)'
    BY <1>9, <2>1 DEF TakeOff, OnPyramid
  <2> QED
    BY <1>9, <2>2, <2>3, <2>4 DEF TakeOff, QbertStates, Bit
<1>10. CASE Tilt
  <2>1. OnPyramid(spot)'
    BY <1>10, ShownIsOnPyramid DEF Tilt, OnPyramid
  <2>2. leg' \in 0..2
    BY <1>10, SMT DEF Tilt
  <2> QED
    BY <1>10, <2>1, <2>2 DEF Tilt, QbertStates, Bit
<1>11. CASE FallOff
  BY <1>11 DEF FallOff, QbertStates
<1>12. CASE Rest
  BY <1>12 DEF Rest, Stay, layerVars
<1>13. CASE LeaveBox
  <2>1. leg' \in 0..2 /\ leg' # 0
    BY <1>13, SMT DEF LeaveBox
  <2>2. spot' \in Spots
    BY <1>13, HopIsSpot DEF LeaveBox
  <2> QED
    BY <1>13, <2>1, <2>2 DEF LeaveBox
<1>14. CASE MissSaucer
  BY <1>14 DEF MissSaucer, QbertStates, Bit
<1>15. CASE LoseLife
  <2>1. MinusOne(LIFE_qb) \in 0..15
    BY SMT DEF MinusOne
  <2>2. leg' \in 0..2 /\ leg' # 0
    BY <1>15, SMT DEF LoseLife
  <2> QED
    BY <1>15, <2>1, <2>2, TopIsSpot DEF LoseLife, GameStates, QbertStates, Bit
<1> QED
  BY <1>1, <1>2, <1>3, <1>4, <1>5, <1>6, <1>7, <1>8, <1>9, <1>10, <1>11,
     <1>12, <1>13, <1>14, <1>15 DEF LayerMove

LEMMA OthersStep ==
  ASSUME OthersInv, e \in Registers, Others
  PROVE  OthersInv'
<1>1. e.color \in SUBSET Cubes
  BY DEF Registers
<1>2. color_bit' \in {"IDLE", "UPDATE"} /\ color_state_reg' \in SUBSET Cubes
  BY <1>1 DEF OthersInv, Others, Color, colorVars
<1>3. RGB_state' \in 0..2
  BY SMT DEF OthersInv, Others, Screen, gameover_qb
<1>4. pause_play' \in Bit
  BY SMT DEF OthersInv, Others, PausePlay, Bit
<1> QED
  BY <1>2, <1>3, <1>4 DEF OthersInv

LEMMA ClkInv ==
  ASSUME LayerInv, OthersInv, e \in Registers, Clk
  PROVE  LayerInv' /\ OthersInv'
<1>1. CASE ClkMove
  BY <1>1, LayerMoveInv, OthersStep DEF ClkMove
<1>2. CASE ClkCount
  <2>1. LayerInv'
    BY <1>2 DEF ClkCount, LayerWait, Stay, layerVars, LayerInv, OnPyramid
  <2> QED
    BY <1>2, <2>1, OthersStep DEF ClkCount
<1> QED
  BY <1>1, <1>2 DEF Clk

-----------------------------------------------------------------------------
(* The board *)

LEMMA InitBoardInv == Init => BoardInv
  BY InitIInv, LayerInitInv DEF Init, BoardInv

\* A step of the board is a step of the console and the Nios, or changes
\* nothing they see.
LEMMA BoardStep == BoardInv /\ [Next]_vars => [PlayNext]_playVars
<1> SUFFICES ASSUME BoardInv, [Next]_vars PROVE [PlayNext]_playVars
  OBVIOUS
<1>1. CASE Player
  BY <1>1 DEF Player, PlayNext
<1>2. CASE Nios
  <2>1. PICK s \in Spots : position_qb = CubeAt(s)
    BY PositionIsShown DEF BoardInv
  <2>2. NiosStep(CubeAt(s))
    BY <1>2, <2>1 DEF Nios
  <2> QED
    BY <2>2 DEF PlayNext
<1>3. CASE Fpga \/ UNCHANGED vars
  BY <1>3 DEF Fpga, vars
<1> QED
  BY <1>1, <1>2, <1>3 DEF Next

LEMMA Unclocked ==
  ASSUME LayerInv, OthersInv, UNCHANGED fpgaVars
  PROVE  LayerInv' /\ OthersInv'
  BY DEF fpgaVars, layerVars, colorVars, screenVars, LayerInv, OthersInv, OnPyramid

LEMMA NextBoardInv == BoardInv /\ [Next]_vars => BoardInv'
<1> SUFFICES ASSUME BoardInv, [Next]_vars PROVE BoardInv'
  OBVIOUS
<1>1. IInv'
  BY BoardStep, NextIInv DEF BoardInv
<1>2. CASE Player \/ Nios \/ UNCHANGED vars
  <2>1. UNCHANGED fpgaVars
    BY <1>2 DEF Player, Nios, vars
  <2> QED
    BY <1>1, <2>1, Unclocked DEF BoardInv
<1>3. CASE Fpga
  <2>1. e \in Registers
    BY DEF BoardInv, IInv, PlayTypeOK
  <2> QED
    BY <1>1, <1>3, <2>1, ClkInv DEF Fpga, BoardInv
<1> QED
  BY <1>2, <1>3 DEF Next

LEMMA BoardInvariant == Spec => []BoardInv
  BY InitBoardInv, NextBoardInv, PTL DEF Spec

\* The board is one of the behaviours of the console and the Nios alone: what
\* is proved of PlaySpec, for any position shown, holds of the board.
THEOREM BoardPlays == Spec => PlaySpec
<1>1. Init => PlayInit
  BY DEF Init
<1> QED
  BY <1>1, BoardStep, BoardInvariant, PTL DEF Spec, PlaySpec

\* The types of every register and local of the board; Q*bert never gets
\* further than one hop off the pyramid.
THEOREM BoardTypeCorrect == Spec => []TypeOK
<1>1. BoardInv => TypeOK
  BY DEF BoardInv, IInv, LayerInv, OthersInv, TypeOK, LayerTypeOK
<1> QED
  BY <1>1, BoardInvariant, PTL

-----------------------------------------------------------------------------
(* The colours of a paused game *)

LEMMA TintStep == BoardInv /\ PausedTint /\ [Next]_vars => PausedTint'
<1> SUFFICES ASSUME BoardInv, PausedTint, [Next]_vars, game_state' = "PAUSE"
             PROVE  pause_play' = 0
  BY DEF PausedTint
<1>1. CASE UNCHANGED fpgaVars
  BY <1>1 DEF PausedTint, fpgaVars, layerVars, screenVars
<1>2. CASE Clk
  <2>1. PausePlay
    BY <1>2 DEF Clk, ClkMove, ClkCount, Others
  <2>2. e.pause = 1 => e.resume # 1 /\ e.start # 1
    BY DEF BoardInv, IInv, AtMostOneFlag, Flags
  <2>3. CASE game_state = "PAUSE"
    <3>1. e.resume # 1 /\ e.start # 1
      <4>1. ~LayerWait
        BY <2>3 DEF LayerWait, Runs
      <4>2. Pause
        BY <1>2, <2>3, <4>1 DEF Clk, ClkMove, ClkCount, LayerMove, Menu,
           Restart, Gameover, ToPause, Init_, SlideIn, Arrive, TakeOff, Tilt,
           FallOff, Rest, LeaveBox, EnterBox, MissSaucer, LoseLife, Runs
      <4> QED
        BY <4>2 DEF Pause, GoTo, NewGame
    <3> QED
      BY <2>1, <2>3, <3>1 DEF PausePlay, PausedTint
  <2>4. CASE game_state # "PAUSE"
    <3>1. e.pause = 1
      <4>1. ToPause
        BY <1>2, <2>4 DEF Clk, ClkMove, ClkCount, LayerWait, LayerMove, Menu,
           Pause, Restart, Gameover, Init_, SlideIn, Arrive, TakeOff, Tilt,
           FallOff, Rest, LeaveBox, EnterBox, MissSaucer, LoseLife, Runs,
           NewGame, GoTo, Stay, layerVars
      <4> QED
        BY <4>1 DEF ToPause
    <3> QED
      BY <2>1, <2>2, <3>1 DEF PausePlay, BoardInv, OthersInv, Bit
  <2> QED
    BY <2>3, <2>4
<1> QED
  BY <1>1, <1>2 DEF Next, Player, Nios, Fpga, vars

\* When the game is paused its colours are those of a paused game, whatever
\* is typed and whoever restarts.
THEOREM PauseShown == Spec => []PausedTint
<1>1. Init => PausedTint
  BY DEF Init, LayerInit, PausedTint
<1> QED
  BY <1>1, TintStep, BoardInvariant, PTL DEF Spec

-----------------------------------------------------------------------------
(* Four lives *)

LEMMA LivesIsThree == Lives = 3
  BY SMT DEF Lives

\* While a game is played LIFE_qb has not underflowed.
LEMMA NoWrapStep ==
  BoardInv /\ LivesNeverWrapInPlay /\ [Next]_vars => LivesNeverWrapInPlay'
<1> SUFFICES ASSUME BoardInv, LivesNeverWrapInPlay, [Next]_vars,
                    game_state' \in {"RESUME", "PAUSE"}, qbert_state' # "INIT"
             PROVE  LIFE_qb' <= Lives
  BY DEF LivesNeverWrapInPlay
<1>1. LIFE_qb \in 0..15 /\ Lives = 3
  BY LivesIsThree DEF BoardInv, LayerInv
<1>2. CASE UNCHANGED layerVars
  BY <1>2 DEF layerVars, LivesNeverWrapInPlay
<1>3. CASE Init_
  BY <1>1, <1>3, SMT DEF Init_
<1>4. CASE LoseLife
  <2>1. LIFE_qb' = MinusOne(LIFE_qb) /\ LIFE_qb # 0 /\ LIFE_qb <= Lives
    BY <1>4 DEF LoseLife, Runs, LastLife, LivesNeverWrapInPlay
  <2> QED
    BY <1>1, <2>1, SMT DEF MinusOne
<1>5. CASE LayerMove /\ ~Init_ /\ ~LoseLife
  <2>1. LIFE_qb' = LIFE_qb
    BY <1>5 DEF LayerMove, Menu, Pause, Restart, Gameover, ToPause, SlideIn,
       Arrive, TakeOff, Tilt, FallOff, Rest, LeaveBox, EnterBox, MissSaucer,
       NewGame, GoTo, Stay, layerVars
  <2>2. game_state \in {"RESUME", "PAUSE"} /\ qbert_state # "INIT"
    BY <1>5 DEF LayerMove, Menu, Pause, Restart, Gameover, ToPause, SlideIn,
       Arrive, TakeOff, Tilt, FallOff, Rest, LeaveBox, EnterBox, MissSaucer,
       NewGame, GoTo, Stay, layerVars, Runs
  <2> QED
    BY <2>1, <2>2 DEF LivesNeverWrapInPlay
<1> QED
  BY <1>2, <1>3, <1>4, <1>5 DEF Next, Player, Nios, Fpga, Clk, ClkMove,
     ClkCount, LayerWait, Stay, vars, fpgaVars

\* The lives stay as they are when the game's state, LIFE_qb and being in
\* INIT do.
LEMMA SameLives ==
  ASSUME UNCHANGED <<game_state, LIFE_qb>>,
         qbert_state' = "INIT" <=> qbert_state = "INIT"
  PROVE  Phase' = Phase /\ LivesLeft' = LivesLeft
  BY DEF Phase, LivesLeft

\* A clock of the game is a step of LivesGame or changes no life.
LEMMA LivesStep ==
  BoardInv /\ LivesNeverWrapInPlay /\ [Next]_vars =>
    [LivesOfGame!LivesNext]_(LivesOfGame!livesVars)
<1> SUFFICES ASSUME BoardInv, LivesNeverWrapInPlay, [Next]_vars
             PROVE  \/ LivesOfGame!Start \/ LivesOfGame!Fall \/ LivesOfGame!Quit
                    \/ Phase' = Phase /\ LivesLeft' = LivesLeft
  BY DEF LivesOfGame!LivesNext, LivesOfGame!livesVars
<1>1. LIFE_qb \in 0..15 /\ Lives = 3
  BY LivesIsThree DEF BoardInv, LayerInv
<1>2. CASE UNCHANGED layerVars
  BY <1>2, SameLives DEF layerVars
<1>3. ASSUME NEW g, NewGame(g)
      PROVE  LivesOfGame!Start
  BY <1>3 DEF NewGame, LivesOfGame!Start, Phase, LivesLeft
<1>4. ASSUME GoTo("MENU")
      PROVE  LivesOfGame!Quit
  BY <1>4 DEF GoTo, LivesOfGame!Quit, Phase, LivesLeft
<1>5. CASE Menu \/ Gameover
  BY <1>2, <1>3, <1>4, <1>5 DEF Menu, Gameover, Stay
<1>6. CASE Pause
  <2>1. CASE GoTo("RESUME")
    BY <1>6, <2>1 DEF Pause, GoTo, Phase, LivesLeft
  <2> QED
    BY <1>2, <1>3, <1>4, <1>6, <2>1 DEF Pause, Stay
<1>7. CASE ToPause
  BY <1>7 DEF ToPause, GoTo, Phase, LivesLeft
<1>8. CASE Restart
  BY <1>8 DEF Restart, Phase, LivesLeft
<1>9. CASE Init_
  <2>1. Phase' = Phase /\ LivesLeft = 4 /\ LivesLeft' = Lives + 1
    BY <1>9 DEF Init_, Runs, Phase, LivesLeft
  <2> QED
    BY <1>1, <2>1, SMT
<1>10. CASE LoseLife
  <2>1. /\ game_state = "RESUME" /\ qbert_state = "END" /\ LIFE_qb <= Lives
        /\ LIFE_qb' = MinusOne(LIFE_qb) /\ qbert_state' = "START"
        /\ IF LIFE_qb = 0 THEN game_state' = "GAMEOVER" ELSE game_state' = "RESUME"
    BY <1>10 DEF LoseLife, Runs, LastLife, LivesNeverWrapInPlay
  <2>2. Phase = "play" /\ LivesLeft = LIFE_qb + 1
    BY <2>1 DEF Phase, LivesLeft
  <2>3. CASE LIFE_qb = 0
    <3>1. Phase' = "over" /\ LivesLeft' = 0
      BY <2>1, <2>3 DEF Phase, LivesLeft
    <3>2. LivesLeft > 0 /\ LivesLeft = 1 /\ LivesLeft - 1 = 0
      BY <2>2, <2>3, SMT
    <3> QED
      BY <2>2, <3>1, <3>2 DEF LivesOfGame!Fall
  <2>4. CASE LIFE_qb # 0
    <3>1. Phase' = "play" /\ LivesLeft' = MinusOne(LIFE_qb) + 1
      BY <2>1, <2>4 DEF Phase, LivesLeft
    <3>2. /\ MinusOne(LIFE_qb) + 1 = LIFE_qb
          /\ LIFE_qb + 1 > 0 /\ LIFE_qb + 1 # 1 /\ (LIFE_qb + 1) - 1 = LIFE_qb
      BY <1>1, <2>4, SMT DEF MinusOne
    <3> QED
      BY <2>2, <3>1, <3>2 DEF LivesOfGame!Fall
  <2> QED
    BY <2>3, <2>4
<1>11. CASE SlideIn \/ Arrive("START") \/ Arrive("JUMP") \/ TakeOff \/ Tilt
            \/ FallOff \/ Rest \/ LeaveBox \/ EnterBox \/ MissSaucer
  <2>1. UNCHANGED <<game_state, LIFE_qb>>
    BY <1>11 DEF SlideIn, Arrive, TakeOff, Tilt, FallOff, Rest, LeaveBox,
       EnterBox, MissSaucer, Stay, layerVars
  <2>2. qbert_state # "INIT" /\ qbert_state' # "INIT"
    BY <1>11 DEF SlideIn, Arrive, TakeOff, Tilt, FallOff, Rest, LeaveBox,
       EnterBox, MissSaucer, Stay, layerVars, Runs
  <2> QED
    BY <2>1, <2>2, SameLives
<1> QED
  BY <1>2, <1>5, <1>6, <1>7, <1>8, <1>9, <1>10, <1>11 DEF Next, Player, Nios,
     Fpga, Clk, ClkMove, ClkCount, LayerWait, LayerMove, Stay, vars, fpgaVars

\* A game gives four lives and ends at the fourth fall, whatever is typed and
\* whoever restarts: the board implements LivesGame.
THEOREM FourLivesImplemented == Spec => FourLives
<1>1. Init => LivesOfGame!LivesInit /\ LivesNeverWrapInPlay
  BY DEF Init, LayerInit, LivesOfGame!LivesInit, Phase, LivesLeft,
     LivesNeverWrapInPlay
<1> QED
  BY <1>1, NoWrapStep, LivesStep, BoardInvariant, PTL
     DEF Spec, FourLives, LivesOfGame!LivesSpec

-----------------------------------------------------------------------------
(* The painted cubes *)

\* The colours on their way are those of cubes the Nios computed.
PaintInv == PaintedWereAsked /\ e.color \subseteq elems

\* Only the last write of a jump, and the boot, write e_color_qb.
LEMMA ColorWritten ==
  ASSUME IInv, pc = "write", IOWR(Writes[k])
  PROVE  e'.color = e.color \/ e'.color = elems \/ e'.color = {}
<1>1. e \in Registers /\ todo # {} /\ k \in 1..Len(Writes)
  <2>1. k \in 1..8 /\ k <= Len(Writes) /\ todo # {} /\ Len(Writes) \in 1..8
    BY GroupStarts DEF IInv, PlayTypeOK, PlayInv, Writable
  <2> QED
    BY <2>1, SMT DEF IInv, PlayTypeOK
<1>2. ASSUME Writes[k].reg # "color"
      PROVE  e'.color = e.color
  BY <1>1, <1>2, SMT DEF IOWR, Registers
<1>3. ASSUME NEW v, Writes[k] = W("color", v)
      PROVE  e'.color = v
  BY <1>1, <1>3, SMT DEF IOWR, Registers, W
<1>4. CASE Writes = BootWrites
  <2>1. k \in 1..8 /\ (k = 2 \/ k # 2)
    BY <1>1, <1>4, BootWritesShape
  <2>2. CASE k = 2
    BY <1>3, <1>4, <2>2 DEF BootWrites
  <2>3. CASE k # 2
    <3>1. k = 1 \/ k = 3 \/ k = 4 \/ k = 5 \/ k = 6 \/ k = 7 \/ k = 8
      BY <2>1, <2>3, SMT
    <3>2. Writes[k].reg # "color"
      BY <1>4, <3>1, SMT DEF BootWrites, W
    <3> QED
      BY <1>2, <3>2
  <2> QED
    BY <2>2, <2>3
<1>5. CASE "boot" \notin todo /\ "gs" \in todo /\ Writes = GsWrites[cmd.gs]
  <2>1. GsShape(Writes)
    BY <1>5, GsWritesShape DEF IInv, PlayInv
  <2>2. k \in 1..(Len(Writes) - 1) \/ k = Len(Writes)
    BY <1>1, <2>1, SMT DEF GsShape
  <2>3. Writes[k].reg \in Flags \cup {"jump"}
    BY <2>1, <2>2 DEF GsShape
  <2> QED
    BY <1>2, <2>3 DEF Flags
<1>6. CASE Writes = JumpWrites
  <2>1. CASE cmd.result \in Cubes
    <3>1. Writes = <<W("jump", cmd.dir), W("next", cmd.result), W("color", elems)>>
      BY <1>6, <2>1 DEF JumpWrites
    <3>2. k = 1 \/ k = 2 \/ k = 3
      BY <1>1, <3>1, SMT
    <3>3. CASE k = 3
      BY <1>3, <3>1, <3>3
    <3>4. CASE k # 3
      <4>1. Writes[k].reg # "color"
        BY <3>1, <3>2, <3>4, SMT DEF W
      <4> QED
        BY <1>2, <4>1
    <3> QED
      BY <3>3, <3>4
  <2>2. CASE cmd.result \notin Cubes
    <3>1. Writes = <<W("next", 1)>>
      BY <1>6, <2>2 DEF JumpWrites
    <3>2. Writes[k].reg # "color"
      BY <1>1, <3>1, SMT DEF W
    <3> QED
      BY <1>2, <3>2
  <2> QED
    BY <2>1, <2>2
<1>7. CASE Writes = <<W("tilt", cmd.tilt)>>
  <2>1. Writes[k].reg # "color"
    BY <1>1, <1>7, SMT DEF W
  <2> QED
    BY <1>2, <2>1
<1> QED
  BY <1>1, <1>4, <1>5, <1>6, <1>7, GroupCases DEF IInv

LEMMA PaintStep == ~Resets /\ BoardInv /\ PaintInv /\ [Next]_vars => PaintInv'
<1> SUFFICES ASSUME ~Resets, BoardInv, PaintInv, [Next]_vars PROVE PaintInv'
  OBVIOUS
<1> USE DEF PaintInv, PaintedWereAsked
<1>1. CASE Fpga
  <2>1. UNCHANGED <<e, elems>>
    BY <1>1 DEF Fpga, playVars, niosVars
  <2>2. color_state_reg' = color_state_reg \/ color_state_reg' = e.color
    BY <1>1 DEF Fpga, Clk, ClkMove, ClkCount, Others, Color, colorVars
  <2> QED
    BY <2>1, <2>2
<1>2. CASE Player \/ UNCHANGED vars
  <2>1. UNCHANGED <<e, elems, color_state_reg>>
    BY <1>2 DEF Player, PlayerStep, ConsoleSPI, PicReset, NiosReset, niosVars,
       vars, playVars, fpgaVars, colorVars
  <2> QED
    BY <2>1
<1>3. CASE Nios
  <2>1. color_state_reg' = color_state_reg
    BY <1>3 DEF Nios, fpgaVars, colorVars
  <2>2. CASE ReadPos(position_qb) \/ ReadGs \/ ReadJump \/ ReadAcc
    BY <2>1, <2>2 DEF ReadPos, ReadGs, ReadJump, ReadAcc, Paint
  <2>3. CASE WriteMore \/ WriteLast
    <3>1. elems' = elems /\ (e'.color = e.color \/ e'.color = elems \/ e'.color = {})
      BY <2>3, ColorWritten DEF WriteMore, WriteLast, BoardInv
    <3> QED
      BY <2>1, <3>1
  <2> QED
    BY <1>3, <2>2, <2>3 DEF Nios, NiosStep
<1> QED
  BY <1>1, <1>2, <1>3 DEF Next

\* As long as nobody restarts the Nios alone, a cube is shown painted only if
\* the Nios computed it as the end of a jump, or it is the top cube.
THEOREM OnlyAskedPainted == ~Resets /\ Spec => []PaintedWereAsked
<1>1. Init => PaintInv
  BY DEF Init, PlayInit, AvalonInit, LayerInit, PaintInv, PaintedWereAsked
<1>2. PaintInv => PaintedWereAsked
  BY DEF PaintInv
<1>3. CASE Resets
  BY <1>3, PTL
<1>4. CASE ~Resets
  <2>1. BoardInv /\ PaintInv /\ [Next]_vars => PaintInv'
    BY <1>4, PaintStep
  <2> QED
    BY <1>1, <1>2, <2>1, BoardInvariant, PTL DEF Spec
<1> QED
  BY <1>3, <1>4

-----------------------------------------------------------------------------
(***************************************************************************)
(* PART 3, PoliteBoard.  With the player who waits, the whole board        *)
(* implements HopGame: every jump asked for is made once and in the        *)
(* direction asked for, on every pyramid.  The invariant follows one jump  *)
(* from the console through the link, the Nios and the registers to the    *)
(* pixels.                                                                 *)
(***************************************************************************)

Playing == game_state = "RESUME" /\ e.pause = 0

\* The cube a jump in progress ends on.
Target == IF leg = 0 THEN CubeAt(Hop(spot, jump_reg)) ELSE CubeAt(spot)

\* Nothing more is asked of Q*bert than he did.
Settled(cube) == e.jump = 0 \/ e.next = cube

\* One command at a time is on the link or in the hands of the Nios.
OneCommand ==
  /\ e.tilt = 0 /\ ~Fresh("acc")
  /\ todo \in {{}, {"boot"}, {"gs"}, {"jump"}}
  /\ Fresh("gs") \/ Fresh("jump") => todo = {}
  /\ ~(Fresh("gs") /\ Fresh("jump"))

\* Q*bert is on a cube, or on his way from one to another.
OnCubes ==
  /\ game_state \in {"MENU", "RESUME", "PAUSE", "RESTART"}
  /\ qbert_state \in {"INIT", "START", "JUMP", "IDLE"}
  /\ qbert_state = "START" => spot = Top
  /\ qbert_state = "IDLE" => leg = 2 /\ OnPyramid(spot)
  /\ qbert_state = "JUMP" =>
       /\ jump_reg \in Dirs
       /\ OnPyramid(spot)
       /\ OnPyramid(Hop(spot, IF leg = 0 THEN jump_reg ELSE 5 - jump_reg))

\* A new game finds no jump in the registers, and the menu is left by
\* "restart" alone.
NewGameClean ==
  /\ qbert_state \in {"INIT", "START"} \/ game_state = "RESTART" => e.jump = 0
  /\ game_state \in {"MENU", "PAUSE"} /\ e.start = 1 => e.jump = 0
  /\ "gs" \in todo /\ cmd.gs = 3 /\ k > 1 => e.jump = 0
  /\ "boot" \in todo => game_state = "MENU" /\ qbert_state = "INIT"
  /\ game_state = "MENU" =>
       /\ e.resume = 0
       /\ "gs" \in todo => cmd.gs = 3
       /\ Fresh("gs") => Decoded("gs") = 3
  /\ game_state = "PAUSE" /\ e.menu = 1 => "gs" \notin todo /\ ~Fresh("gs")

\* A jump on the link.
JumpSent ==
  Fresh("jump") =>
    /\ Playing /\ qbert_state = "IDLE"
    /\ Decoded("jump") \in Dirs
    /\ mvmt(Decoded("jump"), CubeAt(spot)) # 0
    /\ Settled(CubeAt(spot))
    /\ pc = "pos" \/ pos_qb \in {0, CubeAt(spot)}

\* A jump in the hands of the Nios: the game may see e_jump_qb before
\* e_next_qb.
JumpWritten ==
  "jump" \in todo =>
    /\ Playing
    /\ cmd.dir \in Dirs
    /\ cmd.result # 0 /\ cmd.result = mvmt(cmd.dir, at)
    /\ k > 1 => e.jump = cmd.dir
    /\ k > 2 => e.next = cmd.result
    /\ \/ qbert_state = "IDLE" /\ (k = 1 => Settled(CubeAt(spot)))
       \/ qbert_state = "JUMP" /\ k > 1 /\ jump_reg = cmd.dir

\* The registers ask for nothing, or for one jump that is not made yet.
JumpLeft ==
  "jump" \notin todo =>
    /\ qbert_state = "JUMP" => Settled(Target)
    /\ qbert_state = "IDLE" =>
         \/ Settled(CubeAt(spot))
         \/ /\ Playing /\ todo = {} /\ ~Fresh("gs") /\ ~Fresh("jump")
            /\ e.jump \in Dirs
            /\ e.next # 0 /\ e.next = mvmt(e.jump, CubeAt(spot))

HopInv ==
  /\ OneCommand /\ OnCubes /\ NewGameClean
  /\ JumpSent /\ JumpWritten /\ JumpLeft
-----------------------------------------------------------------------------
(* The pyramid *)

\* A hop and the one in the direction opposite.
LEMMA HopBack ==
  ASSUME NEW s \in Spots, NEW d \in Dirs
  PROVE  Hop(Hop(s, d), 5 - d) = s /\ 5 - d \in Dirs
<1>1. PICK r \in 0..Rows + 1, c \in 0..Rows + 1 : s = <<r, c>>
  BY DEF Spots
<1>2. d \in {1, 2, 3, 4} /\ r \in Int /\ c \in Int
  BY RowsAssumption, SMT DEF Dirs
<1>3. 5 - d \in Dirs
  BY <1>2, SMT DEF Dirs
<1>4. Hop(Hop(s, d), 5 - d) = <<r, c>>
  <2>1. CASE d = 1
    BY <1>1, <1>2, <2>1, SMT DEF Hop
  <2>2. CASE d = 2
    BY <1>1, <1>2, <2>2, SMT DEF Hop
  <2>3. CASE d = 3
    BY <1>1, <1>2, <2>3, SMT DEF Hop
  <2>4. CASE d = 4
    BY <1>1, <1>2, <2>4, SMT DEF Hop
  <2> QED
    BY <1>2, <2>1, <2>2, <2>3, <2>4
<1> QED
  BY <1>1, <1>3, <1>4

\* A cube has a number other than 0, so the number of a spot says whether it
\* is on the pyramid.
LEMMA NumberTells == \A s \in Spots : CubeAt(s) # 0 <=> OnPyramid(s)
<1> SUFFICES ASSUME NEW s \in Spots, OnPyramid(s) PROVE CubeAt(s) # 0
  BY DEF CubeAt
<1>1. PICK r \in 0..Rows + 1, c \in 0..Rows + 1 : s = <<r, c>>
  BY DEF Spots
<1>2. r \in 1..Rows /\ c \in 1..r /\ r \in Nat
  BY <1>1, RowsAssumption, SMT DEF OnPyramid
<1>3. CubeAt(s) = rows[r] + c - 1
  BY <1>1 DEF CubeAt
<1>4. rows[r] = Above(r) + 1 /\ Above(r) \in Int /\ Above(0) \in Int
  BY <1>2, RowsAre, AboveNext, SMT
<1>5. Above(0) = 0
  BY SMT DEF Above
<1>6. Above(0) <= Above(r)
  BY <1>2, AboveMonotone, SMT
<1> QED
  BY <1>2, <1>3, <1>4, <1>5, <1>6, SMT

\* No hop ends where it began.
LEMMA HopMoves ==
  ASSUME NEW s \in Spots, OnPyramid(s), NEW d \in Dirs, mvmt(d, CubeAt(s)) # 0
  PROVE  mvmt(d, CubeAt(s)) # CubeAt(s)
<1>1. PICK r \in 0..Rows + 1, c \in 0..Rows + 1 : s = <<r, c>>
  BY DEF Spots
<1>2. r \in 1..Rows /\ c \in 1..r /\ r \in Int /\ c \in Int
  BY <1>1, RowsAssumption, SMT DEF OnPyramid
<1>3. CubeAt(s) = Above(r) + c
  BY <1>1, <1>2, CubeNumber, SMT
<1>4. RowSearch(CubeAt(s)) = r
  BY <1>2, <1>3, RowOf
<1>5. r - r \notin {1, -1}
  BY <1>2, SMT
<1> QED
  BY <1>4, <1>5 DEF mvmt

\* The cube a jump in progress ends on is the one asked for.
LEMMA TargetIs ==
  ASSUME OnCubes, LayerInv, qbert_state = "JUMP"
  PROVE  Target = mvmt(jump_reg, at)
<1>1. jump_reg \in Dirs /\ spot \in Spots /\ leg \in {0, 1, 2} /\ OnPyramid(spot)
  BY SMT DEF OnCubes, LayerInv
<1>2. CASE leg = 0
  <2>1. at = CubeAt(spot) /\ Target = CubeAt(Hop(spot, jump_reg))
    BY <1>2, SMT DEF at, Target
  <2> QED
    BY <1>1, <2>1, HopAgrees
<1>3. CASE leg # 0
  <2> DEFINE from == Hop(spot, 5 - jump_reg)
  <2>1. at = CubeAt(from) /\ Target = CubeAt(spot) /\ OnPyramid(from)
    BY <1>1, <1>3, SMT DEF at, Target, OnCubes
  <2>2. 5 - jump_reg \in Dirs /\ from \in Spots
    BY <1>1, HopBack, HopIsSpot
  <2>3. 5 - (5 - jump_reg) = jump_reg
    BY <1>1, SMT DEF Dirs
  <2>4. Hop(from, jump_reg) = spot
    BY <1>1, <2>2, <2>3, HopBack
  <2> QED
    BY <1>1, <2>1, <2>2, <2>4, HopAgrees
<1> QED
  BY <1>2, <1>3

-----------------------------------------------------------------------------
(* What stays *)

\* A step of the player or of the Nios leaves Q*bert where he is.
LEMMA FpgaSame ==
  ASSUME UNCHANGED fpgaVars, OnCubes
  PROVE  /\ UNCHANGED <<game_state, qbert_state, leg, jump_reg>>
         /\ at' = at /\ Target' = Target /\ CubeAt(spot)' = CubeAt(spot)
         /\ position_qb' = position_qb
         /\ OnCubes'
BY DEF fpgaVars, layerVars, at, Target, CubeAt, OnPyramid, Hop, position_qb, OnCubes

\* A clock of the game leaves the link and the registers as they are.
LEMMA PlaySame ==
  ASSUME UNCHANGED playVars
  PROVE  /\ UNCHANGED <<e, todo, cmd, k, pc, pos_qb>>
         /\ \A r \in SpiReg : Fresh(r)' = Fresh(r) /\ Decoded(r)' = Decoded(r)
BY DEF playVars, consoleVars, niosVars, Fresh, Decoded, Up

LEMMA LinkSame ==
  ASSUME NEW r \in SpiReg, Data'[r] = Data[r], old'[r] = old[r]
  PROVE  Fresh(r)' = Fresh(r) /\ Decoded(r)' = Decoded(r)
BY DEF Fresh, Decoded, Up

\* A command that was taken is not new any more.
LEMMA TakenIsOld ==
  ASSUME IInv, NEW r \in SpiReg, Fresh(r), Data' = Data, Toggle(r)
  PROVE  /\ ~Fresh(r)'
         /\ \A t \in SpiReg \ {r} : Fresh(t)' = Fresh(t) /\ Decoded(t)' = Decoded(t)
<1>1. old \in [SpiReg -> BOOLEAN]
  BY DEF IInv, PlayTypeOK
<1>2. old'[r] = ~old[r] /\ \A t \in SpiReg \ {r} : old'[t] = old[t]
  BY <1>1 DEF Toggle
<1>3. Up(r, Data[r]) \in BOOLEAN
  BY DEF Up
<1>4. ~Fresh(r)'
  BY <1>1, <1>2, <1>3 DEF Fresh
<1> QED
  BY <1>2, <1>4, LinkSame

\* What a jump asked for depends on.
LEMMA AskedSame ==
  ASSUME at' = at, UNCHANGED <<e, cmd, todo, qbert_state, jump_reg>>,
         Fresh("jump")' = Fresh("jump"), Decoded("jump")' = Decoded("jump")
  PROVE  asked' = asked
BY DEF asked

\* Nothing is taken and nothing written.
LEMMA Calm ==
  ASSUME HopInv, UNCHANGED fpgaVars, UNCHANGED <<Data, old, e, cmd, todo, k>>
  PROVE  /\ OneCommand' /\ OnCubes' /\ NewGameClean' /\ JumpWritten' /\ JumpLeft'
         /\ (\/ ~Fresh("jump") \/ pc' = "pos" \/ pos_qb' \in {0, CubeAt(spot)}) => HopInv'
         /\ at' = at /\ asked' = asked
<1>1. \A r \in SpiReg : Fresh(r)' = Fresh(r) /\ Decoded(r)' = Decoded(r)
  BY LinkSame
<1>2. /\ UNCHANGED <<game_state, qbert_state, leg, jump_reg>>
      /\ at' = at /\ Target' = Target /\ CubeAt(spot)' = CubeAt(spot) /\ OnCubes'
  BY FpgaSame DEF HopInv
<1>3. /\ Fresh("jump")' = Fresh("jump") /\ Decoded("jump")' = Decoded("jump")
      /\ Fresh("gs")' = Fresh("gs") /\ Decoded("gs")' = Decoded("gs")
      /\ Fresh("acc")' = Fresh("acc")
  BY <1>1 DEF SpiReg
<1>4. OneCommand'
  BY <1>3 DEF HopInv, OneCommand
<1>5. NewGameClean'
  BY <1>2, <1>3 DEF HopInv, NewGameClean
<1>6. JumpWritten'
  BY <1>2 DEF HopInv, JumpWritten, Playing, Settled
<1>7. JumpLeft'
  BY <1>2, <1>3 DEF HopInv, JumpLeft, Playing, Settled
<1>8. asked' = asked
  BY <1>2, <1>3, AskedSame
<1>9. ASSUME \/ ~Fresh("jump") \/ pc' = "pos" \/ pos_qb' \in {0, CubeAt(spot)}
      PROVE  JumpSent'
  BY <1>2, <1>3, <1>9 DEF HopInv, JumpSent, Playing, Settled
<1> QED
  BY <1>2, <1>4, <1>5, <1>6, <1>7, <1>8, <1>9 DEF HopInv

\* A step of the board as the player of HopGame sees it.
HopStep == Game!HopNext \/ (at' = at /\ asked' = asked)

-----------------------------------------------------------------------------
(* The Nios: reading *)

LEMMA ReadPosHop ==
  ASSUME BoardInv, HopInv, ReadPos(position_qb), UNCHANGED fpgaVars
  PROVE  HopInv' /\ HopStep
<1>1. UNCHANGED <<Data, old, e, cmd, todo, k>> /\ pos_qb' = position_qb
  BY DEF ReadPos, consoleVars
<1>2. ASSUME Fresh("jump") PROVE pos_qb' \in {0, CubeAt(spot)}
  BY <1>1 DEF position_qb
<1> QED
  BY <1>1, <1>2, Calm DEF HopStep

LEMMA ReadGsHop ==
  ASSUME BoardInv, HopInv, ReadGs, UNCHANGED fpgaVars
  PROVE  HopInv' /\ HopStep
<1>1. pc = "gs" /\ pc' = "jump" /\ UNCHANGED <<Data, pos_qb, k, e>>
  BY DEF ReadGs, consoleVars
<1>2. CASE ~Fresh("gs")
  <2>1. UNCHANGED <<old, cmd, todo>>
    BY <1>2 DEF ReadGs
  <2>2. ~Fresh("jump") \/ pos_qb' \in {0, CubeAt(spot)}
    BY <1>1 DEF HopInv, JumpSent
  <2> QED
    BY <1>1, <2>1, <2>2, Calm DEF HopStep
<1>3. CASE Fresh("gs")
  <2>1. todo = {} /\ ~Fresh("jump") /\ ~Fresh("acc")
    BY <1>3 DEF HopInv, OneCommand
  <2>2. /\ ~Fresh("gs")' /\ Fresh("jump")' = Fresh("jump") /\ Fresh("acc")' = Fresh("acc")
        /\ Decoded("jump")' = Decoded("jump")
    BY <1>1, <1>3, TakenIsOld DEF ReadGs, SpiReg, BoardInv
  <2>3. /\ UNCHANGED <<game_state, qbert_state, leg, jump_reg>>
        /\ at' = at /\ Target' = Target /\ CubeAt(spot)' = CubeAt(spot) /\ OnCubes'
    BY FpgaSame DEF HopInv
  <2>4. k = 1 /\ cmd \in [gs: 0..4, dir: 0..4, result: {0} \cup Cubes, tilt: 0..3]
    BY <1>1 DEF BoardInv, IInv, PlayInv, PlayTypeOK
  <2>5. todo' = {} \/ (todo' = {"gs"} /\ cmd'.gs = Decoded("gs"))
    BY <1>3, <2>1, <2>4 DEF ReadGs
  <2>6. OneCommand'
    BY <1>1, <2>1, <2>2, <2>5 DEF HopInv, OneCommand
  <2>7. NewGameClean'
    <3>1. ~(k > 1)
      BY <2>4, SMT
    <3> QED
      BY <1>1, <1>3, <2>2, <2>3, <2>5, <3>1 DEF HopInv, NewGameClean
  <2>8. JumpSent' /\ JumpWritten'
    BY <2>1, <2>2, <2>5 DEF JumpSent, JumpWritten
  <2>9. JumpLeft'
    BY <1>1, <1>3, <2>1, <2>3 DEF HopInv, JumpLeft, Settled
  <2>10. asked' = asked
    BY <1>1, <2>1, <2>2, <2>3, <2>5 DEF asked
  <2> QED
    BY <2>3, <2>6, <2>7, <2>8, <2>9, <2>10 DEF HopInv, HopStep
<1> QED
  BY <1>2, <1>3

LEMMA ReadJumpHop ==
  ASSUME BoardInv, HopInv, ReadJump, UNCHANGED fpgaVars
  PROVE  HopInv' /\ HopStep
<1>1. pc = "jump" /\ UNCHANGED <<Data, k, e>> /\ pos_qb' = 0
  BY DEF ReadJump, consoleVars
<1>2. CASE ~JumpReady
  <2>1. UNCHANGED <<old, cmd, todo>>
    BY <1>2 DEF ReadJump
  <2> QED
    BY <1>1, <2>1, Calm DEF HopStep
<1>3. CASE JumpReady
  <2> DEFINE dir == Decoded("jump")
  <2>1. /\ Fresh("jump") /\ todo = {} /\ ~Fresh("gs") /\ ~Fresh("acc")
        /\ pos_qb = CubeAt(spot)
        /\ Playing /\ qbert_state = "IDLE" /\ dir \in Dirs
        /\ mvmt(dir, CubeAt(spot)) # 0 /\ Settled(CubeAt(spot))
    BY <1>1, <1>3 DEF JumpReady, HopInv, OneCommand, JumpSent
  <2>2. ~Fresh("jump")' /\ Fresh("gs")' = Fresh("gs") /\ Fresh("acc")' = Fresh("acc")
    BY <1>1, <1>3, <2>1, TakenIsOld DEF ReadJump, SpiReg, BoardInv
  <2>3. /\ UNCHANGED <<game_state, qbert_state, leg, jump_reg>>
        /\ at' = at /\ Target' = Target /\ CubeAt(spot)' = CubeAt(spot) /\ OnCubes'
    BY FpgaSame DEF HopInv
  <2>4. k = 1 /\ cmd \in [gs: 0..4, dir: 0..4, result: {0} \cup Cubes, tilt: 0..3]
    BY <1>1 DEF BoardInv, IInv, PlayInv, PlayTypeOK
  <2>5. /\ todo' = {"jump"}
        /\ cmd'.dir = dir /\ cmd'.result = mvmt(dir, pos_qb)
    BY <1>3, <2>1, <2>4 DEF ReadJump
  <2>6. at = CubeAt(spot)
    BY <2>1 DEF at
  <2>7. OneCommand'
    BY <1>1, <2>1, <2>2, <2>5 DEF HopInv, OneCommand
  <2>8. ~(k > 1) /\ ~(k > 2)
    BY <2>4, SMT
  <2>9. NewGameClean'
    BY <1>1, <2>1, <2>2, <2>3, <2>5, <2>8 DEF HopInv, NewGameClean, Playing
  <2>10. JumpWritten'
    BY <1>1, <2>1, <2>3, <2>5, <2>6, <2>8 DEF JumpWritten, Playing, Settled
  <2>11. JumpSent' /\ JumpLeft'
    BY <2>2, <2>5 DEF JumpSent, JumpLeft
  <2>12. asked' = asked
    BY <2>1, <2>2, <2>5 DEF asked
  <2> QED
    BY <2>3, <2>7, <2>9, <2>10, <2>11, <2>12 DEF HopInv, HopStep
<1> QED
  BY <1>2, <1>3

LEMMA ReadAccHop ==
  ASSUME BoardInv, HopInv, ReadAcc, UNCHANGED fpgaVars
  PROVE  HopInv' /\ HopStep
<1>1. UNCHANGED <<Data, pos_qb, k, e, old, cmd, todo>> /\ pc = "acc"
  BY DEF ReadAcc, consoleVars, HopInv, OneCommand
<1>2. ~Fresh("jump") \/ pos_qb' \in {0, CubeAt(spot)}
  BY <1>1 DEF HopInv, JumpSent
<1> QED
  BY <1>1, <1>2, Calm DEF HopStep

-----------------------------------------------------------------------------
(* The Nios: writing *)

\* One write of the group in hand, whose name is g.
Writing(g) ==
  /\ todo = {g} /\ k \in 1..Len(Writes) /\ k \in Nat
  /\ e \in Registers /\ IOWR(Writes[k])
  /\ \/ k < Len(Writes) /\ k' = k + 1 /\ UNCHANGED <<todo, cmd>>
     \/ k = Len(Writes) /\ todo' = {} /\ k' = 1
  /\ UNCHANGED <<Data, old, game_state, qbert_state, leg, jump_reg>>
  /\ \A r \in SpiReg : ~Fresh(r) /\ ~Fresh(r)'
  /\ at' = at /\ Target' = Target /\ CubeAt(spot)' = CubeAt(spot) /\ OnCubes'

LEMMA WritingStarts ==
  ASSUME BoardInv, HopInv, WriteMore \/ WriteLast, UNCHANGED fpgaVars
  PROVE  Writing("boot") \/ Writing("gs") \/ Writing("jump")
<1>1. /\ pc = "write" /\ IOWR(Writes[k]) /\ UNCHANGED <<Data, old>>
  BY DEF WriteMore, WriteLast, consoleVars
<1>2. k \in 1..8 /\ k <= Len(Writes) /\ todo # {} /\ Len(Writes) \in 1..8 /\ e \in Registers
  BY <1>1, GroupStarts DEF BoardInv, IInv, PlayTypeOK, PlayInv, Writable
<1>3. k \in 1..Len(Writes) /\ k \in Nat
  BY <1>2, SMT
<1>4. todo = {"boot"} \/ todo = {"gs"} \/ todo = {"jump"}
  BY <1>2 DEF HopInv, OneCommand
<1>5. todo = {Group}
  BY <1>4 DEF Group
<1>6. \/ k < Len(Writes) /\ k' = k + 1 /\ UNCHANGED <<todo, cmd>>
      \/ k = Len(Writes) /\ todo' = {} /\ k' = 1
  BY <1>5 DEF WriteMore, WriteLast
<1>7. \A r \in SpiReg : ~Fresh(r) /\ ~Fresh(r)'
  <2>1. \A r \in SpiReg : ~Fresh(r)
    BY <1>2 DEF HopInv, OneCommand, SpiReg
  <2>2. \A r \in SpiReg : Fresh(r)' = Fresh(r)
    BY <1>1, LinkSame
  <2> QED
    BY <2>1, <2>2
<1>8. /\ UNCHANGED <<game_state, qbert_state, leg, jump_reg>>
      /\ at' = at /\ Target' = Target /\ CubeAt(spot)' = CubeAt(spot) /\ OnCubes'
  BY FpgaSame DEF HopInv
<1> QED
  BY <1>1, <1>2, <1>3, <1>4, <1>6, <1>7, <1>8 DEF Writing

LEMMA WriteBootHop ==
  ASSUME BoardInv, HopInv, Writing("boot"), UNCHANGED fpgaVars
  PROVE  HopInv' /\ HopStep
<1> USE DEF Writing
<1>1. /\ game_state = "MENU" /\ qbert_state = "INIT" /\ e.jump = 0
      /\ e.resume = 0 /\ e.tilt = 0 /\ e.start = 0
  BY DEF HopInv, NewGameClean, OneCommand, BoardInv, IInv, PlayInv
<1>2. Writes = BootWrites /\ k \in 1..8
  <2>1. Writes = BootWrites
    BY DEF Writes, Group
  <2> QED
    BY <2>1, BootWritesShape
<1>3. /\ e'.jump = 0 /\ e'.tilt = 0 /\ e'.start = 0 /\ e'.resume = 0
  <2>1. /\ BootWrites[1] = W("jump", 0) /\ BootWrites[2] = W("color", {})
        /\ BootWrites[3] = W("next", 1) /\ BootWrites[4] = W("pause", 0)
        /\ BootWrites[5] = W("resume", 0) /\ BootWrites[6] = W("start", 0)
        /\ BootWrites[7] = W("menu", 1) /\ BootWrites[8] = W("tilt", 0)
    BY DEF BootWrites
  <2>2. k = 1 \/ k = 2 \/ k = 3 \/ k = 4 \/ k = 5 \/ k = 6 \/ k = 7 \/ k = 8
    BY <1>2, SMT
  <2>3. /\ e' = [e EXCEPT ![Writes[k].reg] = Writes[k].val]
    BY DEF IOWR
  <2>4. /\ DOMAIN e = {"start", "pause", "resume", "menu", "jump", "next", "tilt", "color"}
        /\ e = [f \in DOMAIN e |-> e[f]]
    BY DEF Registers
  <2>5. ASSUME NEW f, NEW v, Writes[k] = W(f, v),
               f \in {"jump", "tilt", "start", "resume"} => v = 0
        PROVE  e'.jump = 0 /\ e'.tilt = 0 /\ e'.start = 0 /\ e'.resume = 0
    <3>1. e' = [e EXCEPT ![f] = v]
      BY <2>3, <2>5 DEF W
    <3> QED
      BY <1>1, <2>4, <2>5, <3>1
  <2> QED
    BY <1>2, <2>1, <2>2, <2>5
<1>4. todo' \in {{}, {"boot"}} /\ ~Fresh("gs")' /\ ~Fresh("jump")' /\ ~Fresh("acc")'
      /\ ~Fresh("jump")
  BY DEF SpiReg
<1>5. OneCommand' /\ NewGameClean' /\ JumpSent' /\ JumpWritten' /\ JumpLeft'
  BY <1>1, <1>3, <1>4 DEF OneCommand, NewGameClean, JumpSent, JumpWritten, JumpLeft
<1>6. asked' = asked
  BY <1>1, <1>3, <1>4 DEF asked
<1> QED
  BY <1>5, <1>6 DEF HopInv, HopStep

\* What a write of a status command changes.
LEMMA GsWrite ==
  ASSUME e \in Registers, NEW g \in 1..4, NEW n \in 1..Len(GsWrites[g]), n \in Nat,
         IOWR(GsWrites[g][n])
  PROVE  /\ e'.next = e.next /\ e'.tilt = e.tilt
         /\ e'.jump = e.jump \/ e'.jump = 0
         /\ g = 3 => e'.jump = IF n = 1 THEN 0 ELSE e.jump
         /\ e'.start = e.start \/ e'.start = 0 \/ (g = 3 /\ n > 1)
         /\ e'.resume = e.resume \/ e'.resume = 0 \/ g = 2
         /\ e'.menu = e.menu \/ e'.menu = 0 \/ (g = 4 /\ n = Len(GsWrites[g]))
<1> DEFINE Result ==
         /\ e'.next = e.next /\ e'.tilt = e.tilt
         /\ e'.jump = e.jump \/ e'.jump = 0
         /\ g = 3 => e'.jump = IF n = 1 THEN 0 ELSE e.jump
         /\ e'.start = e.start \/ e'.start = 0 \/ (g = 3 /\ n > 1)
         /\ e'.resume = e.resume \/ e'.resume = 0 \/ g = 2
         /\ e'.menu = e.menu \/ e'.menu = 0 \/ (g = 4 /\ n = Len(GsWrites[g]))
<1>1. /\ DOMAIN e = {"start", "pause", "resume", "menu", "jump", "next", "tilt", "color"}
      /\ e = [f \in DOMAIN e |-> e[f]]
  BY DEF Registers
<1>2. ASSUME NEW f \in Flags, NEW v, GsWrites[g][n] = W(f, v),
             v # 0 => \/ f = "pause"
                      \/ f = "start" /\ g = 3 /\ n > 1
                      \/ f = "resume" /\ g = 2
                      \/ f = "menu" /\ g = 4 /\ n = Len(GsWrites[g]),
             g = 3 => n # 1
      PROVE  Result
  <2>1. e' = [e EXCEPT ![f] = v]
    BY <1>2 DEF IOWR, W
  <2>2. /\ e'.next = e.next /\ e'.tilt = e.tilt /\ e'.jump = e.jump
        /\ f # "start" => e'.start = e.start
        /\ f # "resume" => e'.resume = e.resume
        /\ f # "menu" => e'.menu = e.menu
        /\ e'[f] = v
    BY <1>1, <1>2, <2>1 DEF Flags
  <2> QED
    BY <1>2, <2>2
<1>3. CASE g = 3 /\ n = 1
  <2>1. GsWrites[g][n] = W("jump", 0)
    BY <1>3 DEF GsWrites
  <2>2. e' = [e EXCEPT !["jump"] = 0]
    BY <2>1 DEF IOWR, W
  <2> QED
    BY <1>1, <1>3, <2>2
<1>4. CASE g = 1
  <2>1. n \in {1, 2, 3, 4} /\ GsWrites[g] = <<W("start", 0), W("resume", 0), W("menu", 0), W("pause", 1)>>
    BY <1>4, SMT DEF GsWrites
  <2>2. GsWrites[g][n] \in {W("start", 0), W("resume", 0), W("menu", 0), W("pause", 1)}
    BY <2>1, SMT
  <2> QED
    BY <1>2, <1>4, <2>2 DEF Flags
<1>5. CASE g = 2
  <2>1. n \in {1, 2, 3, 4} /\ GsWrites[g] = <<W("start", 0), W("pause", 0), W("menu", 0), W("resume", 1)>>
    BY <1>5, SMT DEF GsWrites
  <2>2. GsWrites[g][n] \in {W("start", 0), W("pause", 0), W("menu", 0), W("resume", 1)}
    BY <2>1, SMT
  <2> QED
    BY <1>2, <1>5, <2>2 DEF Flags
<1>6. CASE g = 3 /\ n # 1
  <2>1. n \in {2, 3, 4, 5} /\ GsWrites[g] = <<W("jump", 0), W("resume", 0), W("pause", 0), W("menu", 0), W("start", 1)>>
    BY <1>6, SMT DEF GsWrites
  <2>2. GsWrites[g][n] \in {W("resume", 0), W("pause", 0), W("menu", 0), W("start", 1)} /\ n > 1
    BY <2>1, SMT
  <2> QED
    BY <1>2, <1>6, <2>2 DEF Flags
<1>7. CASE g = 4
  <2>1. n \in {1, 2, 3, 4} /\ Len(GsWrites[g]) = 4
        /\ GsWrites[g] = <<W("start", 0), W("resume", 0), W("pause", 0), W("menu", 1)>>
    BY <1>7, SMT DEF GsWrites
  <2>2. \/ GsWrites[g][n] \in {W("start", 0), W("resume", 0), W("pause", 0)}
        \/ GsWrites[g][n] = W("menu", 1) /\ n = Len(GsWrites[g])
    BY <2>1, SMT
  <2> QED
    BY <1>2, <1>7, <2>2 DEF Flags
<1>8. g = 1 \/ g = 2 \/ g = 3 \/ g = 4
  BY SMT
<1> QED
  BY <1>3, <1>4, <1>5, <1>6, <1>7, <1>8

LEMMA WriteGsHop ==
  ASSUME BoardInv, HopInv, Writing("gs"), UNCHANGED fpgaVars
  PROVE  HopInv' /\ HopStep
<1> USE DEF Writing
<1>1. Writes = GsWrites[cmd.gs] /\ cmd.gs \in 1..4
  BY DEF Writes, Group, BoardInv, IInv, PlayInv
<1>2. /\ e'.next = e.next /\ e'.tilt = e.tilt
      /\ e'.jump = e.jump \/ e'.jump = 0
      /\ cmd.gs = 3 => e'.jump = IF k = 1 THEN 0 ELSE e.jump
      /\ e'.start = e.start \/ e'.start = 0 \/ (cmd.gs = 3 /\ k > 1)
      /\ e'.resume = e.resume \/ e'.resume = 0 \/ cmd.gs = 2
      /\ e'.menu = e.menu \/ e'.menu = 0 \/ (cmd.gs = 4 /\ k = Len(GsWrites[cmd.gs]))
  BY <1>1, GsWrite
<1>3. /\ todo' \in {{}, {"gs"}} /\ (todo' = {"gs"} => cmd' = cmd /\ k # Len(Writes))
      /\ ~Fresh("gs")' /\ ~Fresh("jump")' /\ ~Fresh("acc")'
      /\ ~Fresh("gs") /\ ~Fresh("jump")
  <2>1. k < Len(Writes) => k # Len(Writes)
    BY <1>1, GsWritesShape, SMT DEF GsShape
  <2> QED
    BY <2>1 DEF SpiReg
<1>4. k = 1 \/ k > 1
  BY SMT
<1>5. OneCommand'
  BY <1>2, <1>3 DEF HopInv, OneCommand
<1>6. NewGameClean'
  <2>1. qbert_state' \in {"INIT", "START"} \/ game_state' = "RESTART" => e'.jump = 0
    BY <1>2 DEF HopInv, NewGameClean
  <2>2. game_state' \in {"MENU", "PAUSE"} /\ e'.start = 1 => e'.jump = 0
    BY <1>2, <1>4 DEF HopInv, NewGameClean
  <2>3. "gs" \in todo' /\ cmd'.gs = 3 /\ k' > 1 => e'.jump = 0
    BY <1>2, <1>3, <1>4 DEF HopInv, NewGameClean
  <2>4. game_state' = "MENU" => e'.resume = 0 /\ ("gs" \in todo' => cmd'.gs = 3)
    BY <1>2, <1>3 DEF HopInv, NewGameClean
  <2>5. game_state' = "PAUSE" /\ e'.menu = 1 => "gs" \notin todo'
    BY <1>1, <1>2, <1>3 DEF HopInv, NewGameClean
  <2> QED
    BY <1>3, <2>1, <2>2, <2>3, <2>4, <2>5 DEF NewGameClean
<1>7. qbert_state = "IDLE" => Settled(CubeAt(spot)) /\ at = CubeAt(spot)
  BY <1>3 DEF HopInv, JumpLeft, at
<1>8. JumpLeft'
  BY <1>2, <1>3, <1>7 DEF HopInv, JumpLeft, Settled
<1>9. JumpSent' /\ JumpWritten'
  BY <1>3 DEF JumpSent, JumpWritten
<1>10. asked' = asked
  <2>1. CASE qbert_state = "JUMP"
    BY <1>3, <2>1 DEF asked
  <2>2. CASE qbert_state = "IDLE"
    BY <1>2, <1>3, <1>7, <2>2 DEF asked, Settled
  <2>3. CASE qbert_state \in {"INIT", "START"}
    BY <1>2, <1>3, <2>3 DEF asked, HopInv, NewGameClean
  <2> QED
    BY <2>1, <2>2, <2>3 DEF HopInv, OnCubes
<1> QED
  BY <1>5, <1>6, <1>8, <1>9, <1>10 DEF HopInv, HopStep

LEMMA WriteJumpHop ==
  ASSUME BoardInv, HopInv, Writing("jump"), UNCHANGED fpgaVars
  PROVE  HopInv' /\ HopStep
<1> USE DEF Writing
<1>1. /\ Playing /\ cmd.dir \in Dirs
      /\ cmd.result # 0 /\ cmd.result = mvmt(cmd.dir, at)
      /\ k > 1 => e.jump = cmd.dir
      /\ k > 2 => e.next = cmd.result
      /\ \/ qbert_state = "IDLE" /\ (k = 1 => Settled(CubeAt(spot)))
         \/ qbert_state = "JUMP" /\ k > 1 /\ jump_reg = cmd.dir
  BY DEF HopInv, JumpWritten
<1>2. Writes = <<W("jump", cmd.dir), W("next", cmd.result), W("color", elems)>>
  <2>1. cmd.result \in Cubes
    BY <1>1 DEF BoardInv, IInv, PlayTypeOK
  <2> QED
    BY <2>1 DEF Writes, Group, JumpWrites
<1>3. k \in {1, 2, 3} /\ Len(Writes) = 3
  BY <1>2, SMT
<1>4. e' = [e EXCEPT ![Writes[k].reg] = Writes[k].val]
  BY DEF IOWR
<1>5. /\ k = 1 => e' = [e EXCEPT !["jump"] = cmd.dir]
      /\ k = 2 => e' = [e EXCEPT !["next"] = cmd.result]
      /\ k = 3 => e' = [e EXCEPT !["color"] = elems]
  <2>1. /\ k = 1 => Writes[k] = W("jump", cmd.dir)
        /\ k = 2 => Writes[k] = W("next", cmd.result)
        /\ k = 3 => Writes[k] = W("color", elems)
    BY <1>2
  <2>2. ASSUME NEW f, NEW v, Writes[k] = W(f, v)
        PROVE  e' = [e EXCEPT ![f] = v]
    BY <1>4, <2>2 DEF W
  <2> QED
    BY <2>1, <2>2
<1>6. /\ UNCHANGED <<e.start, e.pause, e.resume, e.menu, e.tilt>>
      /\ k = 1 => e'.jump = cmd.dir
      /\ k # 1 => e'.jump = e.jump
      /\ k = 2 => e'.next = cmd.result
      /\ k # 2 => e'.next = e.next
  BY <1>3, <1>5 DEF Registers
<1>7. /\ e'.jump = cmd.dir
      /\ k > 1 => e'.next = cmd.result
  <2>1. \/ k = 1 /\ ~(k > 1)
        \/ k = 2 /\ k > 1
        \/ k = 3 /\ k > 1 /\ k > 2
    BY <1>3, SMT
  <2> QED
    BY <1>1, <1>6, <2>1
<1>8. /\ ~Fresh("gs")' /\ ~Fresh("jump")' /\ ~Fresh("acc")'
      /\ ~Fresh("gs") /\ ~Fresh("jump")
  BY DEF SpiReg
<1>9. CASE k < Len(Writes)
  <2>1. todo' = {"jump"} /\ cmd' = cmd /\ k' \in {2, 3} /\ k' > 1 /\ k' # 1
        /\ (k' > 2 => k > 1)
    BY <1>3, <1>9, SMT
  <2>2. OneCommand'
    BY <1>6, <1>8, <2>1 DEF HopInv, OneCommand
  <2>3. NewGameClean'
    BY <1>1, <1>8, <2>1 DEF NewGameClean, Playing
  <2>4. JumpWritten'
    BY <1>1, <1>6, <1>7, <2>1 DEF JumpWritten, Playing
  <2>5. JumpSent' /\ JumpLeft'
    BY <1>8, <2>1 DEF JumpSent, JumpLeft
  <2>6. asked' = asked
    BY <1>8, <2>1 DEF asked
  <2> QED
    BY <2>2, <2>3, <2>4, <2>5, <2>6 DEF HopInv, HopStep
<1>10. CASE k = Len(Writes)
  <2>1. todo' = {} /\ k = 3 /\ k > 1
    BY <1>3, <1>10, SMT
  <2>2. OneCommand'
    BY <1>6, <1>8, <2>1 DEF HopInv, OneCommand
  <2>3. NewGameClean'
    BY <1>1, <1>8, <2>1 DEF NewGameClean, Playing
  <2>4. JumpSent' /\ JumpWritten'
    BY <1>8, <2>1 DEF JumpSent, JumpWritten
  <2>5. e'.jump = cmd.dir /\ e'.next = cmd.result
    BY <1>7, <2>1
  <2>6. CASE qbert_state = "JUMP"
    <3>1. Target = mvmt(jump_reg, at)
      BY <2>6, TargetIs DEF HopInv, BoardInv
    <3>2. jump_reg = cmd.dir
      BY <1>1, <2>6
    <3>3. JumpLeft'
      BY <1>1, <2>5, <2>6, <3>1, <3>2 DEF JumpLeft, Settled
    <3>4. asked' = asked
      BY <1>8, <2>1, <2>6, <3>2 DEF asked
    <3> QED
      BY <2>2, <2>3, <2>4, <3>3, <3>4 DEF HopInv, HopStep
  <2>7. CASE qbert_state = "IDLE"
    <3>1. at = CubeAt(spot) /\ OnPyramid(spot) /\ spot \in Spots
      BY <2>7 DEF at, HopInv, OnCubes, BoardInv, LayerInv
    <3>2. cmd.result # at
      BY <1>1, <3>1, HopMoves
    <3>3. JumpLeft'
      BY <1>1, <1>6, <1>8, <2>1, <2>5, <2>7, <3>1 DEF JumpLeft, Playing
    <3>4. cmd.dir # 0
      BY <1>1, SMT DEF Dirs
    <3>5. asked' = asked
      BY <1>8, <2>1, <2>5, <2>7, <3>2, <3>4 DEF asked
    <3> QED
      BY <2>2, <2>3, <2>4, <3>3, <3>5 DEF HopInv, HopStep
  <2> QED
    BY <1>1, <2>6, <2>7
<1> QED
  BY <1>9, <1>10

LEMMA NiosHop ==
  ASSUME BoardInv, HopInv, Nios
  PROVE  HopInv' /\ HopStep
<1>1. UNCHANGED fpgaVars /\ NiosStep(position_qb)
  BY DEF Nios
<1>2. CASE WriteMore \/ WriteLast
  BY <1>1, <1>2, WritingStarts, WriteBootHop, WriteGsHop, WriteJumpHop
<1> QED
  BY <1>1, <1>2, ReadPosHop, ReadGsHop, ReadJumpHop, ReadAccHop DEF NiosStep

-----------------------------------------------------------------------------
(* The player *)

\* HopGame numbers the cubes as the program does.
LEMMA SamePyramid ==
  Game!Dirs = Dirs /\ \A d, c : Game!mvmt(d, c) = mvmt(d, c)
<1>1. Game!Dirs = Dirs
  BY DEF Game!Dirs, Dirs
<1>2. ASSUME NEW n PROVE Game!RowSearch(n) = RowSearch(n)
  BY DEF Game!RowSearch, RowSearch, Game!rows, rows, Game!Above, Above
<1> QED
  BY <1>1, <1>2 DEF Game!mvmt, mvmt

\* A command of one to four reads back as itself.
LEMMA SentReads ==
  ASSUME BoardInv, NEW r \in {"gs", "jump"}, NEW d \in 1..4, ConsoleSPI(r, d)
  PROVE  /\ Decoded(r)' = d
         /\ \A t \in SpiReg \ {r} : Fresh(t)' = Fresh(t) /\ Decoded(t)' = Decoded(t)
         /\ UNCHANGED <<e, old, pc, pos_qb, cmd, todo, k>>
<1>1. /\ Data' = [Data EXCEPT ![r] = IF old_pic[r] THEN d + Base[r] ELSE d]
      /\ UNCHANGED <<e, old, pc, pos_qb, cmd, todo, k>>
      /\ Data \in [SpiReg -> 0..127] /\ r \in SpiReg
  BY DEF ConsoleSPI, niosVars, BoardInv, IInv, PlayTypeOK, SpiReg
<1>2. Data'[r] = d \/ Data'[r] = d + Base[r]
  BY <1>1
<1>3. Base[r] \in {16, 64}
  BY DEF Base
<1>4. \A c \in 1..4, b \in {16, 64} : \A v \in {c, c + b} :
        (IF v > b THEN v - b ELSE v) = c
  BY SMT
<1>5. Decoded(r)' = d
  BY <1>2, <1>3, <1>4 DEF Decoded, Up
<1> QED
  BY <1>1, <1>5, LinkSame

LEMMA TypeStatusHop ==
  ASSUME BoardInv, HopInv, NEW c \in GsCmds, TypeStatus(c), UNCHANGED fpgaVars
  PROVE  HopInv' /\ HopStep
<1>1. /\ c \in 1..4 /\ todo = {} /\ ~Fresh("gs") /\ ~Fresh("jump") /\ ~Fresh("acc")
      /\ Reacted /\ (game_state = "MENU" => c = 3) /\ ConsoleSPI("gs", c)
  BY CommandsAssumption DEF TypeStatus, LinkIdle, SpiReg
<1>2. /\ Decoded("gs")' = c
      /\ ~Fresh("jump")' /\ ~Fresh("acc")'
      /\ UNCHANGED <<e, pc, pos_qb, cmd, todo, k>>
  BY <1>1, SentReads DEF SpiReg
<1>3. /\ UNCHANGED <<game_state, qbert_state, leg, jump_reg>>
      /\ at' = at /\ Target' = Target /\ CubeAt(spot)' = CubeAt(spot) /\ OnCubes'
  BY FpgaSame DEF HopInv
<1>4. OneCommand'
  BY <1>1, <1>2 DEF HopInv, OneCommand
<1>5. NewGameClean'
  BY <1>1, <1>2, <1>3 DEF HopInv, NewGameClean, Reacted
<1>6. JumpSent' /\ JumpWritten'
  BY <1>1, <1>2 DEF JumpSent, JumpWritten
<1>7. qbert_state = "IDLE" => Settled(CubeAt(spot))
  <2> SUFFICES ASSUME qbert_state = "IDLE", Playing PROVE Settled(CubeAt(spot))
    BY <1>1 DEF HopInv, JumpLeft
  <2>1. AtRest /\ leg = 2
    BY <1>1 DEF Playing, Reacted, HopInv, OnCubes
  <2> QED
    BY <2>1 DEF AtRest, Settled, position_qb
<1>8. JumpLeft'
  BY <1>1, <1>2, <1>3, <1>7 DEF HopInv, JumpLeft, Settled
<1>9. asked' = asked
  BY <1>1, <1>2, <1>3 DEF asked
<1> QED
  BY <1>3, <1>4, <1>5, <1>6, <1>8, <1>9 DEF HopInv, HopStep

LEMMA TypeJumpHop ==
  ASSUME BoardInv, HopInv, NEW d \in JumpCmds, TypeJump(d), UNCHANGED fpgaVars
  PROVE  HopInv' /\ HopStep
<1>1. /\ d \in Dirs /\ todo = {} /\ ~Fresh("gs") /\ ~Fresh("jump") /\ ~Fresh("acc")
      /\ Reacted /\ PosCurrent /\ game_state = "RESUME" /\ AtRest
      /\ mvmt(d, position_qb) # 0 /\ ConsoleSPI("jump", d)
  BY CommandsAssumption DEF TypeJump, LinkIdle, SpiReg
<1>2. /\ Decoded("jump")' = d
      /\ ~Fresh("gs")' /\ ~Fresh("acc")'
      /\ UNCHANGED <<e, pc, pos_qb, cmd, todo, k>>
  BY <1>1, SentReads DEF SpiReg, Dirs
<1>3. /\ UNCHANGED <<game_state, qbert_state, leg, jump_reg>>
      /\ at' = at /\ Target' = Target /\ CubeAt(spot)' = CubeAt(spot) /\ OnCubes'
  BY FpgaSame DEF HopInv
<1>4. qbert_state = "IDLE" /\ position_qb = CubeAt(spot) /\ at = CubeAt(spot)
  BY <1>1 DEF AtRest, HopInv, OnCubes, position_qb, at
<1>5. Settled(CubeAt(spot))
  BY <1>1, <1>4 DEF AtRest, Settled
<1>6. Playing
  <2>1. e.pause = 0
    BY <1>1 DEF Reacted
  <2> QED
    BY <1>1, <2>1 DEF Playing
<1>7. OneCommand'
  BY <1>1, <1>2 DEF HopInv, OneCommand
<1>8. NewGameClean'
  BY <1>1, <1>2, <1>3 DEF HopInv, NewGameClean
<1>9. JumpSent'
  BY <1>1, <1>2, <1>3, <1>4, <1>5, <1>6 DEF JumpSent, Playing, Settled, PosCurrent
<1>10. JumpWritten'
  BY <1>1, <1>2 DEF JumpWritten
<1>11. JumpLeft'
  BY <1>2, <1>3, <1>4, <1>5 DEF JumpLeft, Settled
<1>12. asked = 0
  BY <1>1, <1>4, <1>5 DEF asked, Settled
<1>13. CASE Fresh("jump")'
  <2>1. asked' = d
    BY <1>2, <1>13 DEF asked
  <2>2. Game!Ask(d)
    BY <1>1, <1>3, <1>4, <1>12, <2>1, SamePyramid DEF Game!Ask
  <2> QED
    BY <1>1, <1>3, <1>7, <1>8, <1>9, <1>10, <1>11, <2>2, SamePyramid
       DEF HopInv, HopStep, Game!HopNext
<1>14. CASE ~Fresh("jump")'
  <2>1. asked' = 0
    BY <1>1, <1>2, <1>3, <1>4, <1>5, <1>14 DEF asked, Settled
  <2> QED
    BY <1>3, <1>7, <1>8, <1>9, <1>10, <1>11, <1>12, <2>1 DEF HopInv, HopStep
<1> QED
  BY <1>13, <1>14

-----------------------------------------------------------------------------
(* The clock of the game *)

\* What a clock leaves alone on the link and in the registers.
Linked ==
  /\ UNCHANGED <<e, todo, cmd, k, pc, pos_qb>>
  /\ Fresh("gs")' = Fresh("gs") /\ Decoded("gs")' = Decoded("gs")
  /\ Fresh("jump")' = Fresh("jump") /\ Decoded("jump")' = Decoded("jump")
  /\ Fresh("acc")' = Fresh("acc")

LEMMA ClockLinks == UNCHANGED playVars => Linked
  BY PlaySame DEF Linked, SpiReg

\* The clock keeps what concerns the link alone.
LEMMA ClockOneCommand == HopInv /\ Linked => OneCommand'
  BY DEF HopInv, OneCommand, Linked

\* Q*bert does not move.
LEMMA StayHop ==
  ASSUME HopInv, Linked, Stay
  PROVE  HopInv' /\ HopStep
<1>1. /\ UNCHANGED <<game_state, qbert_state, leg, jump_reg, spot>>
      /\ at' = at /\ Target' = Target /\ CubeAt(spot)' = CubeAt(spot)
      /\ OnCubes'
  BY DEF Stay, layerVars, at, Target, CubeAt, OnPyramid, Hop, HopInv, OnCubes
<1>2. NewGameClean' /\ JumpSent' /\ JumpWritten' /\ JumpLeft'
  BY <1>1 DEF Linked, HopInv, NewGameClean, JumpSent, JumpWritten, JumpLeft,
     Playing, Settled
<1>3. asked' = asked
  BY <1>1 DEF Linked, asked
<1> QED
  BY <1>1, <1>2, <1>3, ClockOneCommand DEF HopInv, HopStep

\* The game changes its state and Q*bert does not move; no jump is under way
\* on the link.
LEMMA GoToHop ==
  ASSUME HopInv, Linked, NEW g \in {"MENU", "RESUME", "PAUSE"}, GoTo(g),
         ~Fresh("jump"), "jump" \notin todo, NewGameClean',
         ~Playing \/ e.pause = 1
  PROVE  HopInv' /\ HopStep
<1>1. /\ UNCHANGED <<qbert_state, leg, jump_reg, spot>> /\ game_state' = g
      /\ at' = at /\ Target' = Target /\ CubeAt(spot)' = CubeAt(spot)
      /\ OnCubes'
  BY DEF GoTo, at, Target, CubeAt, OnPyramid, Hop, HopInv, OnCubes
<1>2. JumpSent' /\ JumpWritten'
  BY DEF Linked, JumpSent, JumpWritten
<1>3. ~Playing
  BY 0 # 1 DEF Playing
<1>4. JumpLeft'
  BY <1>1, <1>3 DEF Linked, HopInv, JumpLeft, Settled
<1>5. asked' = asked
  BY <1>1 DEF Linked, asked
<1> QED
  BY <1>1, <1>2, <1>4, <1>5, ClockOneCommand DEF HopInv, HopStep

\* Q*bert is back at the top with no jump in the registers.
LEMMA NewGameHop ==
  ASSUME HopInv, Linked, ~Fresh("jump"), "jump" \notin todo,
         e.jump = 0, OnCubes', NewGameClean', qbert_state' = "INIT"
  PROVE  HopInv' /\ HopStep
<1>1. at' = 1 /\ asked' = 0
  BY DEF Linked, at, asked
<1>2. JumpSent' /\ JumpWritten' /\ JumpLeft'
  BY DEF Linked, JumpSent, JumpWritten, JumpLeft
<1>3. Game!NewGame
  BY <1>1 DEF Game!NewGame
<1> QED
  BY <1>2, <1>3, ClockOneCommand DEF HopInv, HopStep, Game!HopNext

LEMMA NoJumpUnlessPlaying ==
  ASSUME HopInv, game_state # "RESUME" \/ e.pause = 1 \/ qbert_state \in {"INIT", "START"}
  PROVE  ~Fresh("jump") /\ "jump" \notin todo
BY 0 # 1 DEF HopInv, JumpSent, JumpWritten, Playing

\* The moves of the game, not of Q*bert.
LEMMA StatusHop ==
  ASSUME BoardInv, HopInv, Linked, Menu \/ Pause \/ Restart \/ Gameover \/ ToPause
  PROVE  HopInv' /\ HopStep
<1>1. /\ e \in Registers /\ e.start \in {0, 1} /\ e.resume \in {0, 1} /\ e.menu \in {0, 1}
      /\ e.pause \in {0, 1}
      /\ \A f, g \in Flags : e[f] = 1 /\ e[g] = 1 => f = g
      /\ "boot" \in todo => e.start = 0 /\ e.resume = 0
  BY DEF BoardInv, IInv, PlayTypeOK, Registers, Bit, AtMostOneFlag, PlayInv
<1>2. ~Fresh("jump") /\ "jump" \notin todo
  BY NoJumpUnlessPlaying DEF Menu, Pause, Restart, Gameover, ToPause
<1>3. CASE Menu
  <2>1. CASE Stay
    BY <2>1, StayHop
  <2>2. CASE e.start = 1 /\ NewGame("MENU")
    <3>1. e.jump = 0 /\ game_state = "MENU"
      BY <1>3, <2>2 DEF Menu, HopInv, NewGameClean
    <3>2. game_state' = "RESTART" /\ qbert_state' = "INIT"
      BY <2>2 DEF NewGame
    <3>3. OnCubes'
      BY <3>2 DEF OnCubes
    <3>4. "boot" \notin todo
      BY <1>1, <2>2, 0 # 1
    <3>5. NewGameClean'
      BY <3>1, <3>2, <3>4 DEF NewGameClean, Linked, HopInv
    <3> QED
      BY <1>2, <3>1, <3>2, <3>3, <3>5, NewGameHop
  <2> QED
    BY <1>3, <2>1, <2>2, 0 # 1 DEF Menu, HopInv, NewGameClean
<1>4. CASE Pause
  <2>1. CASE Stay
    BY <2>1, StayHop
  <2>2. game_state = "PAUSE" /\ "boot" \notin todo
    BY <1>4 DEF Pause, HopInv, NewGameClean
  <2>3. CASE e.resume = 1 /\ GoTo("RESUME")
    <3>1. NewGameClean'
      BY <1>4, <2>2, <2>3 DEF NewGameClean, Linked, HopInv, GoTo
    <3> QED
      BY <1>2, <2>2, <2>3, <3>1, GoToHop DEF Playing
  <2>4. CASE e.start = 1 /\ NewGame("PAUSE")
    <3>1. /\ e.jump = 0 /\ game_state' = "RESTART"
          /\ UNCHANGED <<qbert_state, jump_reg, spot, leg>>
      BY <2>2, <2>4 DEF NewGame, HopInv, NewGameClean
    <3>2. OnCubes' /\ at' = at /\ Target' = Target /\ CubeAt(spot)' = CubeAt(spot)
      BY <3>1 DEF HopInv, OnCubes, OnPyramid, Hop, CubeAt, at, Target
    <3>3. NewGameClean'
      BY <2>2, <3>1 DEF NewGameClean, Linked, HopInv
    <3>4. JumpSent' /\ JumpWritten' /\ JumpLeft'
      BY <1>2, <3>1 DEF Linked, JumpSent, JumpWritten, JumpLeft, Settled
    <3>5. asked' = asked
      BY <1>2, <3>1, <3>2 DEF Linked, asked
    <3> QED
      BY <3>2, <3>3, <3>4, <3>5, ClockOneCommand DEF HopInv, HopStep
  <2>5. CASE e.resume # 1 /\ e.start # 1 /\ e.menu = 1 /\ GoTo("MENU")
    <3>1. e.resume = 0
      BY <1>1, <2>5
    <3>2. NewGameClean'
      BY <2>2, <2>5, <3>1 DEF NewGameClean, Linked, HopInv, GoTo
    <3> QED
      BY <1>2, <2>2, <2>5, <3>2, GoToHop DEF Playing
  <2> QED
    BY <1>4, <2>1, <2>3, <2>4, <2>5 DEF Pause
<1>5. CASE Restart
  <2>1. e.jump = 0 /\ game_state' = "RESUME" /\ qbert_state' = "INIT" /\ "boot" \notin todo
    BY <1>5 DEF Restart, HopInv, NewGameClean
  <2>2. OnCubes' /\ NewGameClean'
    BY <2>1 DEF OnCubes, NewGameClean, HopInv, Linked
  <2> QED
    BY <1>2, <2>1, <2>2, NewGameHop
<1>6. CASE ToPause
  <2>1. game_state = "RESUME" /\ e.pause = 1 /\ GoTo("PAUSE") /\ "boot" \notin todo
    BY <1>6 DEF ToPause, HopInv, NewGameClean
  <2>2. e.start # 1 /\ e.menu # 1
    BY <1>1, <2>1 DEF Flags
  <2>3. NewGameClean'
    BY <2>1, <2>2 DEF NewGameClean, Linked, HopInv, GoTo
  <2> QED
    BY <1>2, <2>1, <2>3, GoToHop
<1>7. CASE Gameover
  BY <1>7 DEF Gameover, HopInv, OnCubes
<1> QED
  BY <1>3, <1>4, <1>5, <1>6, <1>7

\* Q*bert appears and slides to the top cube.
LEMMA AppearHop ==
  ASSUME BoardInv, HopInv, Linked, Init_ \/ SlideIn \/ Arrive("START")
  PROVE  HopInv' /\ HopStep
<1>1. /\ qbert_state \in {"INIT", "START"} /\ game_state = "RESUME" /\ UNCHANGED game_state
      /\ e.jump = 0 /\ "boot" \notin todo
  BY DEF Init_, SlideIn, Arrive, Runs, HopInv, NewGameClean
<1>2. ~Fresh("jump") /\ "jump" \notin todo
  BY <1>1, NoJumpUnlessPlaying
<1>3. /\ qbert_state' \in {"START", "IDLE"} /\ spot' = Top
      /\ qbert_state' = "IDLE" => leg' = 2
  BY DEF Init_, SlideIn, Arrive, Runs, HopInv, OnCubes
<1>4. OnPyramid(Top)
  <2>1. 1 <= Rows
    BY RowsAssumption, SMT
  <2> QED
    BY <2>1, SMT DEF OnPyramid, Top
<1>5. OnCubes'
  BY <1>1, <1>3, <1>4 DEF OnCubes, OnPyramid
<1>6. NewGameClean'
  BY <1>1 DEF Linked, HopInv, NewGameClean
<1>7. JumpSent' /\ JumpWritten' /\ JumpLeft'
  BY <1>1, <1>2, <1>3 DEF Linked, JumpSent, JumpWritten, JumpLeft, Settled
<1>8. asked = 0 /\ asked' = 0
  BY <1>1, <1>2, <1>3 DEF Linked, asked
<1>9. at = 1 /\ at' = 1
  <2>1. CubeAt(Top) = 1
    <3>1. Above(1) = 0
      BY SMT DEF Above
    <3> QED
      BY <1>4, <3>1, RowsAssumption, CubeNumber, SMT DEF Top, OnPyramid
  <2>2. at' = IF qbert_state' = "START" THEN 1 ELSE CubeAt(spot')
    BY <1>3 DEF at, CubeAt, OnPyramid
  <2> QED
    BY <1>1, <1>3, <2>1, <2>2 DEF at
<1> QED
  BY <1>5, <1>6, <1>7, <1>8, <1>9, ClockOneCommand DEF HopInv, HopStep

LEMMA TakeOffHop ==
  ASSUME BoardInv, HopInv, Linked, TakeOff
  PROVE  HopInv' /\ HopStep
<1>1. /\ game_state = "RESUME" /\ e.pause = 0 /\ qbert_state = "IDLE" /\ leg = 2
      /\ OnPyramid(spot) /\ spot \in Spots
      /\ e.jump # 0 /\ e.next # CubeAt(spot) /\ ~Settled(CubeAt(spot))
      /\ at = CubeAt(spot)
  BY DEF TakeOff, Runs, JumpAsked, HopInv, OnCubes, position_qb, Settled, at,
     BoardInv, LayerInv
<1>2. /\ qbert_state' = "JUMP" /\ jump_reg' = e.jump /\ leg' = 0
      /\ UNCHANGED <<game_state, spot>>
  BY DEF TakeOff
<1>3. ~Fresh("jump") /\ "boot" \notin todo
  BY <1>1 DEF HopInv, JumpSent, NewGameClean
<1>4. \/ /\ "jump" \in todo /\ k > 1 /\ e.jump = cmd.dir
         /\ cmd.result = mvmt(e.jump, CubeAt(spot))
      \/ "jump" \notin todo /\ e.next = mvmt(e.jump, CubeAt(spot))
  <2>1. CASE "jump" \in todo
    <3>1. k \in 1..8 /\ k # 1
      BY <1>1, <2>1 DEF HopInv, JumpWritten, BoardInv, IInv, PlayTypeOK
    <3>2. k > 1
      BY <3>1, SMT
    <3> QED
      BY <1>1, <2>1, <3>2 DEF HopInv, JumpWritten
  <2>2. CASE "jump" \notin todo
    BY <1>1, <2>2 DEF HopInv, JumpLeft
  <2> QED
    BY <2>1, <2>2
<1>5. e.jump \in Dirs /\ mvmt(e.jump, CubeAt(spot)) # 0
  BY <1>1, <1>4 DEF HopInv, JumpWritten, JumpLeft
<1>6. /\ mvmt(e.jump, CubeAt(spot)) = CubeAt(Hop(spot, e.jump))
      /\ OnPyramid(Hop(spot, e.jump))
  <2>1. mvmt(e.jump, CubeAt(spot)) = CubeAt(Hop(spot, e.jump))
    BY <1>1, <1>5, HopAgrees
  <2> QED
    BY <1>5, <2>1 DEF CubeAt
<1>7. /\ at' = at
      /\ Target' = CubeAt(Hop(spot, e.jump))
      /\ OnCubes'
  BY <1>1, <1>2, <1>5, <1>6, 0 # 2
     DEF at, Target, OnCubes, CubeAt, OnPyramid, Hop
<1>8. NewGameClean'
  BY <1>1, <1>2 DEF Linked, HopInv, NewGameClean
<1>9. JumpSent' /\ JumpWritten'
  BY <1>2, <1>3, <1>4, <1>7 DEF Linked, JumpSent, HopInv, JumpWritten, Playing
<1>10. JumpLeft'
  BY <1>2, <1>4, <1>6, <1>7 DEF Linked, JumpLeft, Settled
<1>11. asked' = asked
  BY <1>1, <1>2, <1>3, <1>4 DEF Linked, asked
<1> QED
  BY <1>7, <1>8, <1>9, <1>10, <1>11, ClockOneCommand DEF HopInv, HopStep

\* A jump in progress goes on, or is where it ends.
LEMMA FlyHop ==
  ASSUME BoardInv, HopInv, Linked, Runs("JUMP"), LeaveBox \/ EnterBox
  PROVE  HopInv' /\ HopStep
<1>1. /\ qbert_state = "JUMP" /\ game_state = "RESUME"
      /\ UNCHANGED <<qbert_state, game_state, jump_reg>>
  BY DEF Runs, LeaveBox, EnterBox
<1>2. /\ jump_reg \in Dirs /\ spot \in Spots /\ OnPyramid(spot)
      /\ OnPyramid(Hop(spot, IF leg = 0 THEN jump_reg ELSE 5 - jump_reg))
  BY <1>1 DEF HopInv, OnCubes, BoardInv, LayerInv
<1>3. at' = at /\ Target' = Target /\ OnCubes'
  <2>1. CASE EnterBox
    <3>1. leg = 1 /\ leg' = 2 /\ spot' = spot
      BY <2>1 DEF EnterBox
    <3>2. leg # 0 /\ leg' # 0 /\ leg > 0 /\ leg' > 0
      BY <3>1, SMT
    <3> QED
      BY <1>1, <1>2, <3>1, <3>2 DEF at, Target, OnCubes, CubeAt, OnPyramid, Hop
  <2>2. CASE LeaveBox
    <3>1. leg = 0 /\ leg' = 1 /\ spot' = Hop(spot, jump_reg)
      BY <1>1, <2>2 DEF LeaveBox, Runs
    <3>2. leg' # 0 /\ ~(leg > 0) /\ leg' > 0
      BY <3>1, SMT
    <3>3. Hop(spot', 5 - jump_reg) = spot
      BY <1>2, <3>1, HopBack
    <3>4. OnPyramid(spot') /\ OnPyramid(Hop(spot', 5 - jump_reg))
      BY <1>2, <3>1, <3>3
    <3>5. at' = CubeAt(Hop(spot', 5 - jump_reg)) /\ Target' = CubeAt(spot')
      BY <1>1, <3>2 DEF at, Target, CubeAt, OnPyramid, Hop
    <3>6. at = CubeAt(spot) /\ Target = CubeAt(Hop(spot, jump_reg))
      BY <1>1, <3>1, <3>2 DEF at, Target
    <3>7. OnCubes'
      BY <1>1, <1>2, <3>2, <3>4 DEF OnCubes, OnPyramid, Hop
    <3> QED
      BY <3>1, <3>3, <3>5, <3>6, <3>7
  <2> QED
    BY <2>1, <2>2
<1>4. NewGameClean'
  BY <1>1 DEF Linked, HopInv, NewGameClean
<1>5. JumpSent' /\ JumpWritten' /\ JumpLeft'
  BY <1>1, <1>3 DEF Linked, HopInv, JumpSent, JumpWritten, JumpLeft, Playing, Settled
<1>6. asked' = asked
  BY <1>1, <1>3 DEF Linked, asked
<1> QED
  BY <1>3, <1>4, <1>5, <1>6, ClockOneCommand DEF HopInv, HopStep

LEMMA LandHop ==
  ASSUME BoardInv, HopInv, Linked, Arrive("JUMP"), "jump" \notin todo
  PROVE  HopInv' /\ HopStep
<1>1. /\ qbert_state = "JUMP" /\ game_state = "RESUME" /\ leg = 2
      /\ qbert_state' = "IDLE" /\ UNCHANGED <<game_state, jump_reg, spot, leg>>
  BY DEF Arrive, Runs
<1>2. jump_reg \in Dirs /\ OnPyramid(spot) /\ Target = mvmt(jump_reg, at)
  BY <1>1, TargetIs DEF HopInv, OnCubes, BoardInv
<1>3. Target = CubeAt(spot) /\ Settled(Target)
  BY <1>1, 2 # 0 DEF Target, HopInv, JumpLeft
<1>4. at' = Target /\ CubeAt(spot)' = Target
  BY <1>1, <1>3 DEF at, CubeAt, OnPyramid
<1>5. ~Fresh("jump")
  BY <1>1 DEF HopInv, JumpSent
<1>6. OnCubes'
  BY <1>1, <1>2 DEF HopInv, OnCubes, OnPyramid
<1>7. NewGameClean' /\ JumpSent' /\ JumpWritten'
  BY <1>1, <1>5 DEF Linked, HopInv, NewGameClean, JumpSent, JumpWritten
<1>8. JumpLeft'
  BY <1>1, <1>3, <1>4 DEF Linked, JumpLeft, Settled
<1>9. asked = jump_reg /\ jump_reg # 0
  <2>1. jump_reg # 0
    BY <1>2, SMT DEF Dirs
  <2> QED
    BY <1>1, <1>5, <2>1 DEF asked
<1>10. asked' = 0
  BY <1>1, <1>3, <1>4, <1>5 DEF Linked, asked, Settled
<1>11. Game!Land
  BY <1>2, <1>4, <1>9, <1>10, SamePyramid DEF Game!Land
<1> QED
  BY <1>6, <1>7, <1>8, <1>11, ClockOneCommand DEF HopInv, HopStep, Game!HopNext

LEMMA FpgaHop ==
  ASSUME BoardInv, HopInv, PoliteFpga
  PROVE  HopInv' /\ HopStep
<1>1. Linked
  BY ClockLinks DEF PoliteFpga, Fpga
<1>2. CASE LayerWait
  BY <1>1, <1>2, StayHop DEF LayerWait
<1>3. CASE LayerMove
  <2>1. CASE Menu \/ Pause \/ Restart \/ Gameover \/ ToPause
    BY <1>1, <2>1, StatusHop
  <2>2. CASE Init_ \/ SlideIn \/ Arrive("START")
    BY <1>1, <2>2, AppearHop
  <2>3. CASE Arrive("JUMP")
    <3>1. "jump" \notin todo
      BY <2>3 DEF Arrive, Runs, PoliteFpga, JumpSlow
    <3> QED
      BY <1>1, <2>3, <3>1, LandHop
  <2>4. CASE TakeOff
    BY <1>1, <2>4, TakeOffHop
  <2>5. CASE Rest
    BY <1>1, <2>5, StayHop DEF Rest
  <2>6. CASE LeaveBox \/ EnterBox
    <3>1. Runs("JUMP")
      BY <2>6 DEF LeaveBox, EnterBox, Runs, HopInv, OnCubes
    <3> QED
      BY <1>1, <2>6, <3>1, FlyHop
  <2>7. ~Tilt
    <3>1. e.tilt = 0 /\ 0 \notin {1, 2}
      BY SMT DEF HopInv, OneCommand
    <3> QED
      BY <3>1 DEF Tilt
  <2>8. ~FallOff
    <3>1. qbert_state = "IDLE" => position_qb # 0
      BY NumberTells DEF HopInv, OnCubes, position_qb, BoardInv, LayerInv
    <3> QED
      BY <3>1 DEF FallOff, Runs
  <2>9. ~MissSaucer /\ ~LoseLife
    BY DEF MissSaucer, LoseLife, Runs, HopInv, OnCubes
  <2> QED
    BY <1>3, <2>1, <2>2, <2>3, <2>4, <2>5, <2>6, <2>7, <2>8, <2>9 DEF LayerMove
<1> QED
  BY <1>2, <1>3 DEF PoliteFpga, Fpga, Clk, ClkMove, ClkCount

-----------------------------------------------------------------------------
(* The board *)

LEMMA PoliteIsBoard == PoliteNext => Next
<1>1. ASSUME PolitePlayer PROVE Player
  <2>1. \A c \in GsCmds : TypeStatus(c) => PlayerStep
    BY DEF TypeStatus, PlayerStep, SpiReg, Typed
  <2>2. \A d \in JumpCmds : TypeJump(d) => PlayerStep
    BY DEF TypeJump, PlayerStep, SpiReg, Typed
  <2> QED
    BY <1>1, <2>1, <2>2 DEF PolitePlayer, Player
<1> QED
  BY <1>1 DEF PoliteNext, PoliteFpga, Next

LEMMA PoliteStep == BoardInv /\ HopInv /\ [PoliteNext]_vars => HopInv' /\ HopStep
<1> SUFFICES ASSUME BoardInv, HopInv, [PoliteNext]_vars PROVE HopInv' /\ HopStep
  OBVIOUS
<1>1. CASE PolitePlayer
  BY <1>1, TypeStatusHop, TypeJumpHop DEF PolitePlayer
<1>2. CASE Nios
  BY <1>2, NiosHop
<1>3. CASE PoliteFpga
  BY <1>3, FpgaHop
<1>4. CASE UNCHANGED vars
  <2>1. Linked /\ Stay
    BY <1>4, ClockLinks DEF vars, fpgaVars, Stay
  <2> QED
    BY <2>1, StayHop
<1> QED
  BY <1>1, <1>2, <1>3, <1>4 DEF PoliteNext

LEMMA PoliteInit == Init => HopInv /\ Game!HopInit
<1> SUFFICES ASSUME Init PROVE HopInv /\ Game!HopInit
  OBVIOUS
<1>1. /\ e.tilt = 0 /\ e.jump = 0 /\ e.resume = 0 /\ e.start = 0
      /\ todo = {"boot"} /\ game_state = "MENU" /\ qbert_state = "INIT"
  BY DEF Init, PlayInit, AvalonInit, LayerInit
<1>2. ~Fresh("gs") /\ ~Fresh("jump") /\ ~Fresh("acc")
  <2>1. \A b \in {16, 32, 64} : (0 > b) = FALSE
    BY SMT
  <2>2. \A r \in SpiReg : Data[r] = 0 /\ old[r] = FALSE /\ Base[r] \in {16, 32, 64}
    BY DEF Init, PlayInit, SpiReg, Base
  <2> QED
    BY <2>1, <2>2 DEF Fresh, Up, SpiReg
<1>3. HopInv
  BY <1>1, <1>2 DEF HopInv, OneCommand, OnCubes, NewGameClean, JumpSent, JumpWritten, JumpLeft
<1>4. Game!HopInit
  BY <1>1, <1>2 DEF Game!HopInit, at, asked
<1> QED
  BY <1>3, <1>4

\* On every pyramid and for every set of commands, every jump a player who
\* waits asks for is made exactly once and in the direction he asked for, and
\* nothing else moves Q*bert but a new game: through the toggle bit of the
\* console, the polling and the numbers of the Nios, the three registers it
\* writes one after the other, and the pixels of the game.
THEOREM PoliteIsHopGame == PoliteSpec => HopGameSpec
<1>1. [PoliteNext]_vars => [Next]_vars
  BY PoliteIsBoard
<1>2. HopStep => [Game!HopNext]_(Game!hopVars)
  BY DEF HopStep, Game!hopVars
<1> QED
  BY <1>1, <1>2, PoliteInit, PoliteStep, InitBoardInv, NextBoardInv, PTL
     DEF PoliteSpec, HopGameSpec, Game!HopSpec
=============================================================================
