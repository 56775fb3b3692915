------------------------------- MODULE SpiProofs -------------------------------
(***************************************************************************)
(* The SPI of the PIC32, on both ends.                                     *)
(* Part 1, for any set of contexts and chips: bytes reach one chip, and at *)
(* rest the bus is as main left it.                                        *)
(* Part 2, for any width of a byte, any registers' values and a restart of *)
(* either end at any tick: what the PIC32 writes reaches the registers of  *)
(* the slave once and whole, and what it reads is one value of a register. *)
(***************************************************************************)
EXTENDS SpiBus, SpiSlave, Integers, TLAPS

-----------------------------------------------------------------------------
(* Part 1.  The bus.                                                       *)

Inside(l) == at[l] \notin {"rest", "begin"}
Reserved(l) == at[l] \in {"reserved", "selected", "released"}
StatusOf(l) == IF chip[l] \in OwnConfig THEN saved[chip[l]].status
               ELSE intStatus[l]

\* An access is made by the context that runs, and only it can be inside.
Contexts ==
    /\ \A l \in Levels : Inside(l) => Running(l)
    /\ \A l \in Levels : at[l] # "rest" => l \in active \cup {0}
    /\ active # {} => up

\* The interrupts are off exactly inside an access, and what an access will
\* put back is what main set.
Enabling ==
    /\ enabled <=> (up /\ \A l \in Levels : ~Inside(l))
    /\ \A l \in Levels : Inside(l) => StatusOf(l) = up

\* The radio's interrupt is off exactly while the radio is selected.
Masking ==
    /\ RFIE <=> (up /\ \A l \in Levels : ~(at[l] = "selected" /\ chip[l] = Radio))
    /\ \A l \in Levels : (at[l] # "rest" /\ chip[l] = Radio) => tmpRFIE[l] /\ up

\* Selected is the chip of the access that is sending.
Selecting ==
    /\ \A l \in Levels : at[l] = "selected" => chip[l] \in selected
    /\ \A s \in selected : \E l \in Levels : at[l] = "selected" /\ chip[l] = s

\* The configuration is one of the chip's inside its reservation, else the normal
\* one, which the reservation keeps.
Configuring ==
    /\ (\A l \in Levels : ~Reserved(l)) => config = Normal
    /\ \A l \in Levels : Reserved(l) =>
          /\ config \in ConfigsOf(chip[l])
          /\ chip[l] \in OwnConfig => saved[chip[l]].config = Normal

IInv == TypeOK /\ Contexts /\ Enabling /\ Masking /\ Selecting /\ Configuring

LEMMA RunningIsOne ==
    ASSUME TypeOK, NEW l \in Levels, NEW m \in Levels, Running(l), Running(m)
    PROVE  l = m
  BY LevelsAssumption DEF TypeOK, Running

LEMMA InitIInv == Init => IInv
  <1> USE LevelsAssumption, SlavesAssumption
  <1> SUFFICES ASSUME Init PROVE IInv
    OBVIOUS
  <1>1. TypeOK
    BY DEF Init, TypeOK, Places, Configs
  <1>2. Contexts /\ Enabling /\ Masking /\ Selecting /\ Configuring
    BY DEF Init, Contexts, Enabling, Masking, Selecting, Configuring, Inside,
           Reserved, Running
  <1> QED BY <1>1, <1>2 DEF IInv

\* The type of a step of one context.
LEMMA MoveType ==
    ASSUME TypeOK, NEW l \in Levels, NEW from \in Places, NEW to \in Places,
           Move(l, from, to)
    PROVE  /\ at' \in [Levels -> Places]
           /\ at'[l] = to
           /\ at[l] = from
           /\ Running(l)
           /\ \A m \in Levels : m # l => at'[m] = at[m]
  BY DEF TypeOK, Move

\* Nobody else is inside when a context moves.
LEMMA OthersOutside ==
    ASSUME IInv, NEW l \in Levels, Running(l), NEW m \in Levels, m # l
    PROVE  ~Inside(m)
  BY RunningIsOne DEF IInv, Contexts

LEMMA EnableStep == ASSUME IInv, EnableInterrupts PROVE IInv'
  <1> USE LevelsAssumption, SlavesAssumption
  <1>1. active = {}
    BY DEF IInv, Contexts, EnableInterrupts
  <1>2. \A l \in Levels : at[l] = "rest"
    BY <1>1 DEF IInv, Contexts, EnableInterrupts
  <1>3. TypeOK'
    BY DEF IInv, TypeOK, EnableInterrupts
  <1>4. (Contexts /\ Enabling /\ Masking /\ Selecting /\ Configuring)'
    BY <1>2 DEF IInv, Contexts, Enabling, Masking, Selecting, Configuring,
                Inside, Reserved, Running, EnableInterrupts
  <1> QED BY <1>3, <1>4 DEF IInv

LEMMA InterruptStep == ASSUME IInv, NEW l \in Levels, Interrupt(l) PROVE IInv'
  <1> USE LevelsAssumption, SlavesAssumption
  <1>1. \A m \in Levels : ~Inside(m)
    BY DEF IInv, Enabling, Interrupt
  <1>2. TypeOK'
    BY DEF IInv, TypeOK, Interrupt
  <1>3. Contexts'
    BY <1>1 DEF IInv, Contexts, Enabling, Inside, Interrupt
  <1>4. (Enabling /\ Masking /\ Selecting /\ Configuring)'
    BY DEF IInv, Enabling, Masking, Selecting, Configuring, Inside, StatusOf,
           Reserved, ConfigsOf, Interrupt
  <1> QED BY <1>2, <1>3, <1>4 DEF IInv

LEMMA ReturnStep == ASSUME IInv, NEW l \in Levels, Return(l) PROVE IInv'
  <1> USE LevelsAssumption, SlavesAssumption
  <1>1. \A m \in Levels : ~Inside(m)
    BY OthersOutside DEF Return, Inside
  <1>2. TypeOK'
    BY DEF IInv, TypeOK, Return
  <1>3. Contexts'
    BY <1>1 DEF IInv, Contexts, Inside, Return
  <1>4. (Enabling /\ Masking /\ Selecting /\ Configuring)'
    BY DEF IInv, Enabling, Masking, Selecting, Configuring, Inside, StatusOf,
           Reserved, ConfigsOf, Return
  <1> QED BY <1>2, <1>3, <1>4 DEF IInv

LEMMA CallStep ==
    ASSUME IInv, NEW l \in Levels, NEW s \in Slaves, Call(l, s) PROVE IInv'
  <1> USE LevelsAssumption, SlavesAssumption
  <1>1. /\ at' \in [Levels -> Places] /\ at'[l] = "begin" /\ at[l] = "rest"
        /\ Running(l)
        /\ \A m \in Levels : m # l => at'[m] = at[m]
    BY MoveType DEF Call, IInv, Places
  <1>2. \A m \in Levels : ~Inside(m)
    BY <1>1, OthersOutside DEF Inside
  <1>3. \A m \in Levels : ~Inside(m)' /\ ~Reserved(m)'
    BY <1>1, <1>2 DEF Inside, Reserved
  <1>4. TypeOK'
    BY <1>1 DEF IInv, TypeOK, Call
  <1>5. Contexts'
    BY <1>1, <1>3 DEF IInv, Contexts, Call, Running
  <1>6. Enabling'
    BY <1>2, <1>3 DEF IInv, Enabling, Call
  <1>7. Masking'
    <2>1. RFIE = up
      BY <1>2 DEF IInv, TypeOK, Masking, Inside
    <2>2. \A m \in Levels : at'[m] # "selected"
      BY <1>3 DEF Inside
    <2>3. chip'[l] = s /\ \A m \in Levels : m # l => chip'[m] = chip[m]
      BY DEF Call, IInv, TypeOK
    <2>4. s = Radio => tmpRFIE'[l] = RFIE /\ up
      BY DEF Call, IInv, TypeOK
    <2>5. \A m \in Levels : m # l => tmpRFIE'[m] = tmpRFIE[m]
      BY DEF Call, IInv, TypeOK
    <2>6. RFIE' = RFIE /\ up' = up
      BY DEF Call
    <2>7. ASSUME NEW m \in Levels, at'[m] # "rest", chip'[m] = Radio
          PROVE  tmpRFIE'[m] /\ up'
      <3>1. CASE m = l
        BY <3>1, <2>1, <2>3, <2>4, <2>6, <2>7
      <3>2. CASE m # l
        BY <3>2, <2>3, <2>5, <2>6, <2>7, <1>1 DEF IInv, Masking
      <3> QED BY <3>1, <3>2
    <2> QED BY <2>1, <2>2, <2>6, <2>7 DEF Masking
  <1>8. Selecting'
    BY <1>2, <1>3 DEF IInv, Selecting, Inside, Call
  <1>9. Configuring'
    BY <1>2, <1>3 DEF IInv, Configuring, Inside, Reserved, Call
  <1> QED BY <1>4, <1>5, <1>6, <1>7, <1>8, <1>9 DEF IInv

LEMMA DisableStep == ASSUME IInv, NEW l \in Levels, Disable(l) PROVE IInv'
  <1> USE LevelsAssumption, SlavesAssumption
  <1>1. /\ at' \in [Levels -> Places] /\ at'[l] = "reserved" /\ at[l] = "begin"
        /\ Running(l)
        /\ \A m \in Levels : m # l => at'[m] = at[m]
    BY MoveType DEF Disable, IInv, Places
  <1>2. \A m \in Levels : ~Inside(m)
    BY <1>1, OthersOutside DEF Inside
  <1>3. \A m \in Levels : m # l => ~Inside(m)' /\ ~Reserved(m)'
    BY <1>1, <1>2 DEF Inside, Reserved
  <1>4. enabled = up /\ config = Normal /\ UNCHANGED <<chip, up, active>>
    BY <1>2 DEF IInv, TypeOK, Enabling, Configuring, Inside, Reserved, Disable
  <1>5. chip[l] \in Slaves /\ active \subseteq Levels
    BY DEF IInv, TypeOK
  <1>6. TypeOK'
    <2>1. saved' \in [OwnConfig -> [status : BOOLEAN, config : Configs]]
      BY DEF IInv, TypeOK, Disable
    <2>2. intStatus' \in [Levels -> BOOLEAN] /\ config' \in Configs
      BY DEF IInv, TypeOK, Disable, Configs
    <2> QED BY <1>1, <2>1, <2>2 DEF IInv, TypeOK, Disable
  <1>7. Contexts'
    BY <1>1, <1>3, <1>4 DEF IInv, Contexts, Running
  <1>8. StatusOf(l)' = up'
    BY <1>4, <1>5 DEF StatusOf, Disable, IInv, TypeOK
  <1>9. Enabling'
    <2>1. Inside(l)' /\ enabled' = FALSE
      BY <1>1 DEF Inside, Disable
    <2> QED BY <2>1, <1>3, <1>8 DEF Enabling
  <1>10. Masking'
    BY <1>1, <1>3 DEF IInv, Masking, Inside, Disable
  <1>11. Selecting'
    BY <1>1, <1>2, <1>3 DEF IInv, Selecting, Inside, Disable
  <1>12. Configuring'
    <2>1. Reserved(l)'
      BY <1>1 DEF Reserved
    <2>2. config' \in ConfigsOf(chip'[l])
      BY <1>4, <1>5 DEF ConfigsOf, Disable
    <2>3. chip'[l] \in OwnConfig => saved'[chip'[l]].config = Normal
      BY <1>4 DEF Disable, IInv, TypeOK
    <2> QED BY <2>1, <2>2, <2>3, <1>3 DEF Configuring, ConfigsOf
  <1> QED BY <1>6, <1>7, <1>9, <1>10, <1>11, <1>12 DEF IInv

\* The steps inside an access: only the running context is inside, before and
\* after, and the interrupts stay off.
LEMMA InsideStep ==
    ASSUME IInv, NEW l \in Levels, NEW from \in Places, NEW to \in Places,
           from \notin {"rest", "begin"}, to \notin {"rest", "begin"},
           Move(l, from, to),
           UNCHANGED <<up, enabled, active, chip, intStatus, saved>>
    PROVE  /\ Contexts' /\ Enabling'
           /\ \A m \in Levels : m # l => ~Inside(m)' /\ ~Reserved(m)'
           /\ \A m \in Levels : m # l => ~Inside(m) /\ ~Reserved(m)
  <1>1. /\ at' \in [Levels -> Places] /\ at'[l] = to /\ at[l] = from
        /\ Running(l)
        /\ \A m \in Levels : m # l => at'[m] = at[m]
    BY MoveType DEF IInv
  <1>2. \A m \in Levels : m # l => ~Inside(m) /\ ~Reserved(m)
    BY <1>1, OthersOutside DEF Inside, Reserved
  <1>3. \A m \in Levels : m # l => ~Inside(m)' /\ ~Reserved(m)'
    BY <1>1, <1>2 DEF Inside, Reserved
  <1>4. Inside(l) /\ Inside(l)'
    BY <1>1 DEF Inside
  <1>5. Contexts'
    BY <1>1, <1>3, <1>4 DEF IInv, Contexts, Running, Inside
  <1>6. Enabling'
    BY <1>3, <1>4 DEF IInv, Enabling, StatusOf
  <1> QED BY <1>2, <1>3, <1>5, <1>6

LEMMA MountStep == ASSUME IInv, NEW l \in Levels, Mount(l) PROVE IInv'
  <1> USE LevelsAssumption, SlavesAssumption
  <1>1. Running(l) /\ at[l] = "reserved" /\ at' = at
    BY DEF Mount
  <1>2. \A m \in Levels : m # l => ~Inside(m) /\ ~Reserved(m)
    BY <1>1, OthersOutside DEF Inside, Reserved
  <1>3. Reserved(l) /\ Reserved(l)'
    BY <1>1 DEF Reserved
  <1>4. TypeOK'
    BY DEF IInv, TypeOK, Configs, Mount
  <1>5. Contexts' /\ Enabling' /\ Masking' /\ Selecting'
    BY DEF IInv, Contexts, Enabling, Masking, Selecting, Inside, Running, StatusOf,
           Mount
  <1>6. Configuring'
    <2>1. config' \in ConfigsOf(chip[l]) /\ chip' = chip /\ saved' = saved
      BY DEF ConfigsOf, Mount
    <2>2. \A m \in Levels : Reserved(m)' => m = l
      BY <1>1, <1>2 DEF Reserved
    <2> QED BY <1>3, <2>1, <2>2 DEF IInv, Configuring, ConfigsOf
  <1> QED BY <1>4, <1>5, <1>6 DEF IInv

LEMMA SelectStep == ASSUME IInv, NEW l \in Levels, Select(l) PROVE IInv'
  <1> USE LevelsAssumption, SlavesAssumption
  <1>1. /\ at' \in [Levels -> Places] /\ at'[l] = "selected" /\ at[l] = "reserved"
        /\ Running(l)
        /\ \A m \in Levels : m # l => at'[m] = at[m]
    BY MoveType DEF Select, IInv, Places
  <1>2. /\ Contexts' /\ Enabling'
        /\ \A m \in Levels : m # l => ~Inside(m)' /\ ~Reserved(m)'
        /\ \A m \in Levels : m # l => ~Inside(m) /\ ~Reserved(m)
    BY InsideStep DEF Select, Places
  <1>3. TypeOK'
    BY <1>1 DEF IInv, TypeOK, Select
  <1>4. Masking'
    <2>1. RFIE = up
      BY <1>1, <1>2 DEF IInv, TypeOK, Masking, Inside
    <2>2. RFIE' <=> (up /\ chip[l] # Radio)
      BY <2>1 DEF Select
    <2>3. \A m \in Levels : at'[m] = "selected" <=> m = l
      BY <1>1, <1>2 DEF Inside
    <2> QED BY <2>2, <2>3, <1>1 DEF IInv, Masking, Select
  <1>5. Selecting'
    BY <1>1, <1>2 DEF IInv, Selecting, Inside, Select
  <1>6. Configuring'
    <2>1. Reserved(l) /\ Reserved(l)'
      BY <1>1 DEF Reserved
    <2> QED BY <1>2, <2>1 DEF IInv, Configuring, Select, ConfigsOf
  <1> QED BY <1>2, <1>3, <1>4, <1>5, <1>6 DEF IInv

LEMMA DeselectStep == ASSUME IInv, NEW l \in Levels, Deselect(l) PROVE IInv'
  <1> USE LevelsAssumption, SlavesAssumption
  <1>1. /\ at' \in [Levels -> Places] /\ at'[l] = "released" /\ at[l] = "selected"
        /\ Running(l)
        /\ \A m \in Levels : m # l => at'[m] = at[m]
    BY MoveType DEF Deselect, IInv, Places
  <1>2. /\ Contexts' /\ Enabling'
        /\ \A m \in Levels : m # l => ~Inside(m)' /\ ~Reserved(m)'
        /\ \A m \in Levels : m # l => ~Inside(m) /\ ~Reserved(m)
    BY InsideStep DEF Deselect, Places
  <1>3. TypeOK'
    BY <1>1 DEF IInv, TypeOK, Deselect
  <1>4. \A m \in Levels : at'[m] # "selected"
    BY <1>1, <1>2 DEF Inside
  <1>5. Masking'
    <2>1. RFIE' <=> up
      <3>1. CASE chip[l] = Radio
        BY <3>1, <1>1 DEF IInv, Masking, Deselect
      <3>2. CASE chip[l] # Radio
        <4>1. \A m \in Levels : ~(at[m] = "selected" /\ chip[m] = Radio)
          BY <3>2, <1>2 DEF Inside
        <4> QED BY <3>2, <4>1 DEF IInv, Masking, Deselect
      <3> QED BY <3>1, <3>2
    <2> QED BY <2>1, <1>1, <1>4 DEF IInv, Masking, Deselect
  <1>6. Selecting'
    <2>1. \A s \in selected : s = chip[l]
      BY <1>2 DEF IInv, Selecting, Inside
    <2> QED BY <2>1, <1>4 DEF Selecting, Deselect
  <1>7. Configuring'
    <2>1. Reserved(l) /\ Reserved(l)'
      BY <1>1 DEF Reserved
    <2> QED BY <1>2, <2>1 DEF IInv, Configuring, Deselect, ConfigsOf
  <1> QED BY <1>2, <1>3, <1>5, <1>6, <1>7 DEF IInv

LEMMA AgainStep == ASSUME IInv, NEW l \in Levels, Again(l) PROVE IInv'
  <1> USE LevelsAssumption, SlavesAssumption
  <1>1. /\ at' \in [Levels -> Places] /\ at'[l] = "reserved" /\ at[l] = "released"
        /\ Running(l)
        /\ \A m \in Levels : m # l => at'[m] = at[m]
    BY MoveType DEF Again, IInv, Places
  <1>2. /\ Contexts' /\ Enabling'
        /\ \A m \in Levels : m # l => ~Inside(m)' /\ ~Reserved(m)'
        /\ \A m \in Levels : m # l => ~Inside(m) /\ ~Reserved(m)
    BY InsideStep DEF Again, Places
  <1>3. TypeOK'
    BY <1>1 DEF IInv, TypeOK, Again
  <1>4. Masking' /\ Selecting'
    BY <1>1 DEF IInv, Masking, Selecting, Again
  <1>5. Configuring'
    <2>1. Reserved(l) /\ Reserved(l)'
      BY <1>1 DEF Reserved
    <2> QED BY <1>2, <2>1 DEF IInv, Configuring, Again, ConfigsOf
  <1> QED BY <1>2, <1>3, <1>4, <1>5 DEF IInv

LEMMA ReconfigureStep == ASSUME IInv, NEW l \in Levels, Reconfigure(l) PROVE IInv'
  <1> USE LevelsAssumption, SlavesAssumption
  <1>1. PICK from \in {"released", "reserved"} : Move(l, from, "restored")
    BY DEF Reconfigure
  <1>2. /\ at' \in [Levels -> Places] /\ at'[l] = "restored" /\ at[l] = from
        /\ Running(l)
        /\ \A m \in Levels : m # l => at'[m] = at[m]
    BY <1>1, MoveType DEF IInv, Places
  <1>3. /\ Contexts' /\ Enabling'
        /\ \A m \in Levels : m # l => ~Inside(m)' /\ ~Reserved(m)'
        /\ \A m \in Levels : m # l => ~Inside(m) /\ ~Reserved(m)
    BY <1>1, InsideStep DEF Reconfigure, Places
  <1>4. config' = Normal
    <2>1. Reserved(l)
      BY <1>2 DEF Reserved
    <2> QED BY <2>1 DEF IInv, Configuring, ConfigsOf, Reconfigure
  <1>5. TypeOK'
    BY <1>2, <1>4 DEF IInv, TypeOK, Configs, Reconfigure
  <1>6. Masking' /\ Selecting'
    <2>1. \A m \in Levels : at'[m] = "selected" <=> at[m] = "selected"
      BY <1>1, <1>2
    <2>2. at[l] # "rest"
      BY <1>1, <1>2
    <2> QED BY <1>2, <2>1, <2>2 DEF IInv, Masking, Selecting, Reconfigure
  <1>7. Configuring'
    <2>1. \A m \in Levels : ~Reserved(m)'
      BY <1>2, <1>3 DEF Reserved
    <2> QED BY <1>4, <2>1 DEF Configuring
  <1> QED BY <1>3, <1>5, <1>6, <1>7 DEF IInv

LEMMA RestoreStep == ASSUME IInv, NEW l \in Levels, Restore(l) PROVE IInv'
  <1> USE LevelsAssumption, SlavesAssumption
  <1>1. /\ at' \in [Levels -> Places] /\ at'[l] = "rest" /\ at[l] = "restored"
        /\ Running(l)
        /\ \A m \in Levels : m # l => at'[m] = at[m]
    BY MoveType DEF Restore, IInv, Places
  <1>2. \A m \in Levels : ~Inside(m)' /\ ~Reserved(m)'
    BY <1>1, OthersOutside DEF Inside, Reserved
  <1>3. \A m \in Levels : ~Reserved(m)
    BY <1>1, OthersOutside DEF Inside, Reserved
  <1>4. enabled' = up
    <2>1. Inside(l)
      BY <1>1 DEF Inside
    <2> QED BY <2>1 DEF IInv, Enabling, StatusOf, Restore
  <1>5. TypeOK'
    BY <1>1, <1>4 DEF IInv, TypeOK, Restore
  <1>6. Contexts'
    BY <1>1, <1>2 DEF IInv, Contexts, Restore
  <1>7. Enabling'
    BY <1>2, <1>4 DEF IInv, TypeOK, Enabling, Inside, Restore
  <1>8. Masking' /\ Selecting'
    BY <1>1 DEF IInv, Masking, Selecting, Restore
  <1>9. Configuring'
    BY <1>2, <1>3 DEF IInv, Configuring, Restore
  <1> QED BY <1>5, <1>6, <1>7, <1>8, <1>9 DEF IInv

LEMMA NextIInv == IInv /\ [Next]_vars => IInv'
  <1> SUFFICES ASSUME IInv, [Next]_vars PROVE IInv'
    OBVIOUS
  <1>1. CASE EnableInterrupts
    BY <1>1, EnableStep
  <1>2. ASSUME NEW l \in Levels, Interrupt(l) \/ Return(l) \/ Access(l)
        PROVE IInv'
    BY <1>2, InterruptStep, ReturnStep, DisableStep, MountStep, SelectStep, DeselectStep,
       AgainStep, ReconfigureStep, RestoreStep DEF Access
  <1>3. ASSUME NEW l \in Levels, NEW s \in Slaves, Call(l, s) PROVE IInv'
    BY <1>3, CallStep
  <1>4. CASE UNCHANGED vars
    BY <1>4 DEF vars, IInv, TypeOK, Contexts, Enabling, Masking, Selecting,
       Configuring, Inside, Reserved, StatusOf, Running
  <1> QED BY <1>1, <1>2, <1>3, <1>4 DEF Next

LEMMA IInvImplies == IInv => TypeOK /\ BytesReachOneChip /\ AtRest
  <1> SUFFICES ASSUME IInv PROVE TypeOK /\ BytesReachOneChip /\ AtRest
    OBVIOUS
  <1>1. BytesReachOneChip
    <2> SUFFICES ASSUME NEW l \in Levels, at[l] = "selected"
                 PROVE  /\ Running(l) /\ selected = {chip[l]}
                        /\ config \in ConfigsOf(chip[l])
      BY DEF BytesReachOneChip
    <2>1. Running(l)
      BY DEF IInv, Contexts, Inside
    <2>2. \A m \in Levels : m # l => at[m] # "selected"
      BY <2>1, OthersOutside DEF Inside
    <2>3. selected = {chip[l]}
      BY <2>2 DEF IInv, Selecting
    <2>4. config \in ConfigsOf(chip[l])
      BY DEF IInv, Configuring, Reserved
    <2> QED BY <2>1, <2>3, <2>4
  <1>2. AtRest
    <2> SUFFICES ASSUME \A l \in Levels : at[l] \in {"rest", "begin"}
                 PROVE  enabled = up /\ RFIE = up /\ config = Normal
                        /\ selected = {}
      BY DEF AtRest
    <2>1. \A l \in Levels : ~Inside(l) /\ ~Reserved(l) /\ at[l] # "selected"
      BY DEF Inside, Reserved
    <2>2. enabled = up /\ RFIE = up
      <3>1. enabled \in BOOLEAN /\ RFIE \in BOOLEAN /\ up \in BOOLEAN
        BY DEF IInv, TypeOK
      <3> QED BY <2>1, <3>1 DEF IInv, Enabling, Masking
    <2>3. config = Normal
      BY <2>1 DEF IInv, Configuring
    <2>4. selected = {}
      BY <2>1 DEF IInv, Selecting
    <2> QED BY <2>2, <2>3, <2>4
  <1> QED BY <1>1, <1>2 DEF IInv

LEMMA AlwaysIInv == Spec => []IInv
  BY InitIInv, NextIInv, PTL DEF Spec

\* Whatever the handlers, their priorities and the chips they use: while a
\* driver moves bytes, its chip is the only one selected and the channel is
\* configured for it, or, for a card's reopened file, in the normal way.
THEOREM BusIsShared == Spec => [](TypeOK /\ BytesReachOneChip)
  BY AlwaysIInv, IInvImplies, PTL

\* Whatever the handlers, their priorities and the chips they use: between two
\* accesses nothing is left selected, masked or configured for another chip.
THEOREM BusAtRest == Spec => []AtRest
  BY AlwaysIInv, IInvImplies, PTL

\* A step that writes a global of a driver is a Disable, of the only context
\* that could be inside.
LEMMA GlobalsStep ==
    ASSUME IInv, Next, NEW l \in Levels, Inside(l), chip[l] \in OwnConfig
    PROVE  saved'[chip[l]] = saved[chip[l]]
  <1>1. CASE \E m \in Levels : Disable(m)
    <2>1. PICK m \in Levels : Disable(m)
      BY <1>1
    <2>2. Running(m) /\ at[m] = "begin"
      BY <2>1 DEF Disable, Move
    <2> QED BY <2>2, OthersOutside DEF Inside
  <1>2. CASE ~ \E m \in Levels : Disable(m)
    BY <1>2 DEF Next, Access, EnableInterrupts, Interrupt, Return, Call, Mount,
       Select, Deselect, Again, Reconfigure, Restore
  <1> QED BY <1>1, <1>2

\* The globals of a driver keep what an access saved until the access has given
\* it back: GlobalsKept.
THEOREM GlobalsAreKept == Spec => GlobalsKept
  <1>1. IInv /\ [Next]_vars =>
        [\A l \in Levels :
            (at[l] \notin {"rest", "begin"} /\ chip[l] \in OwnConfig)
               => saved'[chip[l]] = saved[chip[l]]]_vars
    BY GlobalsStep DEF Inside
  <1> QED BY <1>1, AlwaysIInv, PTL DEF Spec, GlobalsKept

-----------------------------------------------------------------------------
(* Part 2.  The slave.                                                     *)

(* The slave between two edges of theClock, as a function of what it sees. *)

SlaveStates == {"Wait", "Addr", "Addr_00", "Addr_01", "Addr_11",
                "Data", "Data_00", "Data_01", "Data_11", "End"}

StateAfter(c, d, st, cnt) ==
  IF c = 1 \/ st = "End" THEN "Wait"
  ELSE IF st = "Wait" THEN "Addr"
  ELSE IF st = "Addr" THEN "Addr_00"
  ELSE IF st = "Addr_00" THEN IF d = 0 THEN "Addr_00" ELSE "Addr_01"
  ELSE IF st = "Addr_01" THEN "Addr_11"
  ELSE IF st = "Addr_11"
       THEN IF d = 1 THEN "Addr_11" ELSE IF cnt # 0 THEN "Addr_00" ELSE "Data"
  ELSE IF st = "Data" THEN "Data_00"
  ELSE IF st = "Data_00" THEN IF d = 0 THEN "Data_00" ELSE "Data_01"
  ELSE IF st = "Data_01" THEN "Data_11"
  ELSE IF d = 1 THEN "Data_11" ELSE IF cnt # 0 THEN "Data_00" ELSE "End"

CountAfter(st, cnt) ==
  IF st \in {"Addr", "Data"} THEN 0
  ELSE IF st \notin {"Addr_01", "Data_01"} THEN cnt
  ELSE IF cnt = W - 1 THEN 0 ELSE cnt + 1

LEMMA StateIs ==
  ASSUME state \in SlaveStates, CS \in {0, 1}, CLK \in {0, 1}
  PROVE  NextState = StateAfter(CS, CLK, state, counter)
<1>1. /\ After["Wait"] = "Addr" /\ After["Addr"] = "Addr_00" /\ After["Addr_00"] = "Addr_01"
      /\ After["Addr_01"] = "Addr_11" /\ After["Addr_11"] = "Data"
      /\ After["Data"] = "Data_00" /\ After["Data_00"] = "Data_01"
      /\ After["Data_01"] = "Data_11" /\ After["Data_11"] = "End" /\ After["End"] = "Wait"
  BY DEF After
<1>2. CASE CS = 1
  BY <1>2 DEF NextState, StateAfter
<1>3. CASE CS = 0 /\ state = "Wait"
  BY <1>1, <1>3 DEF NextState, StateAfter
<1>4. CASE CS = 0 /\ state = "Addr"
  BY <1>1, <1>4 DEF NextState, StateAfter
<1>5. CASE CS = 0 /\ state = "Addr_01"
  BY <1>1, <1>5 DEF NextState, StateAfter
<1>6. CASE CS = 0 /\ state = "Data"
  BY <1>1, <1>6 DEF NextState, StateAfter
<1>7. CASE CS = 0 /\ state = "Data_01"
  BY <1>1, <1>7 DEF NextState, StateAfter
<1>8. CASE CS = 0 /\ state = "End"
  BY <1>1, <1>8 DEF NextState, StateAfter
<1>9. CASE CS = 0 /\ state = "Addr_00"
  BY <1>1, <1>9 DEF NextState, StateAfter
<1>10. CASE CS = 0 /\ state = "Data_00"
  BY <1>1, <1>10 DEF NextState, StateAfter
<1>11. CASE CS = 0 /\ state = "Addr_11"
  BY <1>1, <1>11 DEF NextState, StateAfter
<1>12. CASE CS = 0 /\ state = "Data_11"
  BY <1>1, <1>12 DEF NextState, StateAfter
<1> QED
  BY <1>2, <1>3, <1>4, <1>5, <1>6, <1>7, <1>8, <1>9, <1>10,
     <1>11, <1>12 DEF SlaveStates

LEMMA CountIs == Count => counter' = CountAfter(state, counter)
<1>1. CASE state \in {"Addr", "Data"}
  BY <1>1 DEF Count, CountAfter
<1>2. CASE state \in {"Addr_01", "Data_01"}
  BY <1>2 DEF Count, CountAfter, Incremented
<1>3. CASE state \notin {"Addr", "Data"} /\ state \notin {"Addr_01", "Data_01"}
  BY <1>3 DEF Count, CountAfter
<1> QED
  BY <1>1, <1>2, <1>3

-----------------------------------------------------------------------------
(* Where the slave is in a transfer, by the ticks m since the lines changed. *)

\* The states in which bit b is awaited, taken, and has been taken.
Awaiting(b) == IF b <= W THEN "Addr_00" ELSE "Data_00"
Taking(b) == IF b <= W THEN "Addr_01" ELSE "Data_01"
Taken(b) == IF b <= W THEN "Addr_11" ELSE "Data_11"

\* The counter when b bits of the transfer have been taken.
CountOf(b) == IF b < W THEN b ELSE IF b < 2 * W THEN b - W ELSE 0

\* CS has gone down, and the clock has not risen.
Starting(m, u0, u, c0, c, st, cnt) ==
  /\ c0 = 0 /\ c = 0
  /\ u0 = (IF m = 0 THEN 1 ELSE 0) /\ u = (IF m <= 1 THEN 1 ELSE 0)
  /\ st = IF m <= 2 THEN "Wait" ELSE IF m = 3 THEN "Addr" ELSE "Addr_00"
  /\ m >= 4 => cnt = 0

\* The clock has risen for bit b.
High(b, m, c0, c, st, cnt) ==
  /\ c0 = (IF m >= 1 THEN 1 ELSE 0) /\ c = (IF m >= 2 THEN 1 ELSE 0)
  /\ st = IF m <= 2 THEN Awaiting(b) ELSE IF m = 3 THEN Taking(b) ELSE Taken(b)
  /\ cnt = CountOf(IF m <= 3 THEN b - 1 ELSE b)

\* The clock has fallen after bit b.
LowState(b, m) ==
  IF m <= 2 THEN Taken(b)
  ELSE IF b = W THEN IF m = 3 THEN "Data" ELSE "Data_00"
  ELSE IF b = 2 * W THEN IF m = 3 THEN "End" ELSE IF m = 4 THEN "Wait"
                         ELSE IF m = 5 THEN "Addr" ELSE "Addr_00"
  ELSE Awaiting(b + 1)

Low(b, m, c0, c, st, cnt) ==
  /\ c0 = (IF m = 0 THEN 1 ELSE 0) /\ c = (IF m <= 1 THEN 1 ELSE 0)
  /\ st = LowState(b, m)
  /\ cnt = CountOf(b)

Later(m) == IF m > 5 THEN m ELSE m + 1

LEMMA StartingGoesOn ==
  ASSUME NEW m \in 0..6, NEW u0, NEW u, NEW c0, NEW c, NEW st, NEW cnt,
         Starting(m, u0, u, c0, c, st, cnt)
  PROVE  Starting(Later(m), 0, u0, 0, c0, StateAfter(u, c, st, cnt), CountAfter(st, cnt))
BY DEF Starting, Later, StateAfter, CountAfter

LEMMA StartingRises ==
  ASSUME NEW m \in 3..6, NEW u0, NEW u, NEW c0, NEW c, NEW st, NEW cnt,
         Starting(m, u0, u, c0, c, st, cnt)
  PROVE  /\ High(1, 0, 0, c0, StateAfter(u, c, st, cnt), CountAfter(st, cnt))
         /\ u0 = 0 /\ u = 0
<1>1. c0 = 0 /\ c = 0 /\ u0 = 0 /\ u = 0
  BY DEF Starting
<1>2. StateAfter(u, c, st, cnt) = "Addr_00" /\ CountAfter(st, cnt) = 0
  <2>1. CASE m = 3
    BY <1>1, <2>1 DEF Starting, StateAfter, CountAfter
  <2>2. CASE m >= 4
    BY <1>1, <2>2 DEF Starting, StateAfter, CountAfter
  <2> QED
    BY <2>1, <2>2
<1>3. Awaiting(1) = "Addr_00" /\ CountOf(1 - 1) = 0
  BY WidthAssumption DEF Awaiting, CountOf
<1> QED
  BY <1>1, <1>2, <1>3 DEF High

LEMMA HighGoesOn ==
  ASSUME NEW b \in 1..2 * W, NEW m \in 0..6, NEW c0, NEW c, NEW st, NEW cnt,
         High(b, m, c0, c, st, cnt)
  PROVE  High(b, Later(m), 1, c0, StateAfter(0, c, st, cnt), CountAfter(st, cnt))
BY WidthAssumption
   DEF High, Later, StateAfter, CountAfter, Awaiting, Taking, Taken, CountOf

LEMMA HighFalls ==
  ASSUME NEW b \in 1..2 * W, NEW m \in 3..6, NEW c0, NEW c, NEW st, NEW cnt,
         High(b, m, c0, c, st, cnt)
  PROVE  Low(b, 0, 1, c0, StateAfter(0, c, st, cnt), CountAfter(st, cnt))
BY WidthAssumption
   DEF High, Low, LowState, StateAfter, CountAfter, Awaiting, Taking, Taken, CountOf

LEMMA LowGoesOn ==
  ASSUME NEW b \in 1..2 * W, NEW m \in 0..6, NEW c0, NEW c, NEW st, NEW cnt,
         Low(b, m, c0, c, st, cnt)
  PROVE  Low(b, Later(m), 0, c0, StateAfter(0, c, st, cnt), CountAfter(st, cnt))
BY WidthAssumption
   DEF Low, LowState, Later, StateAfter, CountAfter, Awaiting, Taken, CountOf

LEMMA LowRises ==
  ASSUME NEW b \in 1..2 * W - 1, NEW m \in 3..6, NEW c0, NEW c, NEW st, NEW cnt,
         Low(b, m, c0, c, st, cnt), b = W => m >= 5
  PROVE  High(b + 1, 0, 0, c0, StateAfter(0, c, st, cnt), CountAfter(st, cnt))
BY WidthAssumption
   DEF Low, LowState, High, StateAfter, CountAfter, Awaiting, Taken, CountOf

-----------------------------------------------------------------------------
(* The invariant of the control: the slave is where the time since the last *)
(* change of the lines says, until it has seen that CS is up.               *)

\* What the variables range over.
TypeInv ==
  /\ cs \in {0, 1} /\ clk \in {0, 1} /\ sdi \in {0, 1}
  /\ job \in Jobs /\ k \in 0..2 * W /\ n \in 0..6 /\ cut \in BOOLEAN
  /\ CLK0 \in {0, 1} /\ CLK \in {0, 1} /\ CS0 \in {0, 1} /\ CS \in {0, 1}
  /\ state \in SlaveStates /\ counter \in 0..W - 1
  /\ address \in Byte /\ data \in Byte /\ got \in Byte
  /\ Led70 \in Byte /\ Blue \in Byte /\ Status \in Inputs /\ Trigger \in BOOLEAN
  /\ reset \in BOOLEAN

\* While CS is down.
Transferring ==
  cs = 0 =>
    /\ ~cut
    /\ k = 0 => clk = 0 /\ Starting(n, CS0, CS, CLK0, CLK, state, counter)
    /\ k > 0 => CS0 = 0 /\ CS = 0
    /\ k > 0 /\ clk = 1 => High(k, n, CLK0, CLK, state, counter)
    /\ k > 0 /\ clk = 0 => Low(k, n, CLK0, CLK, state, counter)

\* CS has gone up and the slave has not seen it: when the clock was low ...
StoppedLow == cs = 1 /\ \/ CS0 = 0 /\ CLK0 = 0
                        \/ CS0 = 1 /\ CS = 0 /\ CLK = 0

\* ... and when it was high, which is only so when the transfer was cut short.
StoppedHigh == cs = 1 /\ \/ CS0 = 0 /\ CLK0 = 1
                         \/ CS0 = 1 /\ CS = 0 /\ CLK = 1

\* What the slave may be at when CS has gone up with the clock low, after bit b ...
LowSince(b, c0, c, st, cnt, u0) ==
  \E m \in 1..6 : Low(b, m, c0, c, st, cnt) /\ (u0 = 1 => m >= 2)

\* ... and with the clock high.
HighSince(b, c, st) ==
  st \in {Awaiting(b), Taking(b), Taken(b)} /\ (c = 0 => st # Taken(b))

Stopping ==
  cs = 1 =>
    /\ n >= 1 => CS0 = 1 /\ (clk = 0 => CLK0 = 0)
    /\ n >= 2 => CS = 1 /\ (clk = 0 => CLK = 0)
    /\ n >= 3 => state = "Wait"
    /\ CS = 1 => CS0 = 1
    /\ StoppedLow => clk = 0 /\ k > 0 /\ LowSince(k, CLK0, CLK, state, counter, CS0)
    /\ StoppedHigh => cut /\ k > 0 /\ HighSince(k, CLK, state)
    /\ CS = 1 /\ state = "End" => k = 2 * W
    /\ CS = 1 /\ ~cut => state # "Data_11"
    /\ ~cut => k \in {0, 2 * W}

-----------------------------------------------------------------------------
(* One tick                                                                *)

LEMMA HighSinceHigh ==
  ASSUME NEW b \in 1..2 * W, NEW m \in 0..6, NEW c0, NEW c, NEW st, NEW cnt,
         High(b, m, c0, c, st, cnt)
  PROVE  HighSince(b, c, st)
BY WidthAssumption DEF High, HighSince, Awaiting, Taking, Taken

LEMMA HighSinceGoesOn ==
  ASSUME NEW b \in 1..2 * W, NEW c \in {0, 1}, NEW st, NEW cnt, HighSince(b, c, st)
  PROVE  /\ HighSince(b, 1, StateAfter(0, c, st, cnt))
         /\ c = 1 => StateAfter(0, c, st, cnt) # "End"
<1>1. CASE b <= W
  <2>1. Awaiting(b) = "Addr_00" /\ Taking(b) = "Addr_01" /\ Taken(b) = "Addr_11"
    BY <1>1 DEF Awaiting, Taking, Taken
  <2> QED
    BY <2>1 DEF HighSince, StateAfter
<1>2. CASE ~(b <= W)
  <2>1. Awaiting(b) = "Data_00" /\ Taking(b) = "Data_01" /\ Taken(b) = "Data_11"
    BY <1>2 DEF Awaiting, Taking, Taken
  <2>2. st \in {"Data_00", "Data_01", "Data_11"} /\ (c = 0 => st # "Data_11")
    BY <2>1 DEF HighSince
  <2>3. CASE st = "Data_11"
    BY <2>1, <2>2, <2>3 DEF HighSince, StateAfter
  <2>4. CASE st = "Data_01"
    BY <2>1, <2>4 DEF HighSince, StateAfter
  <2>5. CASE st = "Data_00"
    BY <2>1, <2>5 DEF HighSince, StateAfter
  <2> QED
    BY <2>2, <2>3, <2>4, <2>5
<1> QED
  BY <1>1, <1>2

\* Seen once more before the slave sees CS: the byte is on its way or not there.
LEMMA LowSinceGoesOn ==
  ASSUME NEW b \in 1..2 * W, NEW c0, NEW c, NEW st, NEW cnt, NEW u0,
         LowSince(b, c0, c, st, cnt, u0)
  PROVE  LET t == StateAfter(0, c, st, cnt)
         IN  /\ LowSince(b, 0, c0, t, CountAfter(st, cnt), 1)
             /\ t = "End" => b = 2 * W
             /\ u0 = 1 => t # "Data_11"
<1>1. PICK m \in 1..6 : Low(b, m, c0, c, st, cnt) /\ (u0 = 1 => m >= 2)
  BY DEF LowSince
<1> DEFINE t == StateAfter(0, c, st, cnt)
<1>2. Later(m) \in 2..6 /\ (u0 = 1 => Later(m) >= 3)
  BY <1>1 DEF Later
<1>3. Low(b, Later(m), 0, c0, t, CountAfter(st, cnt))
  BY <1>1, LowGoesOn
<1> HIDE DEF t
<1>4. LowSince(b, 0, c0, t, CountAfter(st, cnt), 1)
  BY <1>2, <1>3 DEF LowSince
<1>5. t = LowState(b, Later(m))
  BY <1>3 DEF Low
<1>6. t = "End" => b = 2 * W
  BY <1>2, <1>5 DEF LowState, Taken, Awaiting
<1>7. u0 = 1 => t # "Data_11"
  BY <1>2, <1>5 DEF LowState, Taken, Awaiting
<1> QED
  BY <1>4, <1>6, <1>7 DEF t

LEMMA TickIs ==
  ASSUME TypeInv, NEW r, Tick(r)
  PROVE  /\ CLK0' = clk /\ CLK' = CLK0 /\ CS0' = cs /\ CS' = CS0
         /\ state' = StateAfter(CS, CLK, state, counter)
         /\ counter' = CountAfter(state, counter)
  BY StateIs, CountIs DEF TypeInv, Tick, Synchronise

ControlInv == Transferring /\ Stopping

\* The slave's view of the lines and of CS after a tick.
Ticked ==
  /\ CLK0' = clk /\ CLK' = CLK0 /\ CS0' = cs /\ CS' = CS0
  /\ state' = StateAfter(CS, CLK, state, counter)
  /\ counter' = CountAfter(state, counter)

LEMMA RiseControl ==
  ASSUME TypeInv, ControlInv, Ticked, Rise
  PROVE  ControlInv'
<1>1. /\ cs = 0 /\ clk = 0 /\ k \in 0..2 * W - 1 /\ n \in 3..6 /\ (k = W => n >= 5)
      /\ cs' = 0 /\ clk' = 1 /\ k' = k + 1 /\ n' = 0 /\ ~cut' /\ cs' # 1
  BY WidthAssumption DEF Rise, Long, HalfPeriod, TypeInv, ControlInv, Transferring
<1>2. High(k + 1, 0, CLK0', CLK', state', counter') /\ CS0' = 0 /\ CS' = 0
  <2>1. CASE k = 0
    <3>1. Starting(n, CS0, CS, CLK0, CLK, state, counter)
      BY <1>1, <2>1 DEF ControlInv, Transferring
    <3> QED
      BY <1>1, <2>1, <3>1, StartingRises DEF Ticked
  <2>2. CASE k > 0
    <3>1. Low(k, n, CLK0, CLK, state, counter) /\ CS0 = 0 /\ CS = 0
      BY <1>1, <2>2 DEF ControlInv, Transferring
    <3>2. k \in 1..2 * W - 1
      BY <1>1, <2>2
    <3> QED
      BY <1>1, <3>1, <3>2, LowRises DEF Ticked
  <2> QED
    BY <1>1, <2>1, <2>2
<1>3. k + 1 > 0 /\ k + 1 # 0
  BY <1>1
<1>4. Transferring'
  BY <1>1, <1>2, <1>3 DEF Transferring
<1> QED
  BY <1>1, <1>4 DEF ControlInv, Stopping

LEMMA FallControl ==
  ASSUME TypeInv, ControlInv, Ticked, Fall
  PROVE  ControlInv'
<1>1. /\ cs = 0 /\ clk = 1 /\ k \in 1..2 * W /\ n \in 3..6 /\ k > 0
      /\ cs' = 0 /\ clk' = 0 /\ k' = k /\ n' = 0 /\ ~cut' /\ cs' # 1
  BY WidthAssumption DEF Fall, Long, HalfPeriod, TypeInv, ControlInv, Transferring
<1>2. High(k, n, CLK0, CLK, state, counter) /\ CS0 = 0 /\ CS = 0
  BY <1>1 DEF ControlInv, Transferring
<1>3. Low(k', n', CLK0', CLK', state', counter') /\ CS0' = 0 /\ CS' = 0
  BY <1>1, <1>2, HighFalls DEF Ticked
<1>4. Transferring'
  BY <1>1, <1>3 DEF Transferring
<1> QED
  BY <1>1, <1>4 DEF ControlInv, Stopping

LEMMA BeginControl ==
  ASSUME TypeInv, ControlInv, Ticked, Begin
  PROVE  ControlInv'
<1>1. /\ cs = 1 /\ clk = 0 /\ n >= 2 /\ CS0 = 1 /\ CS = 1 /\ CLK0 = 0
      /\ cs' = 0 /\ clk' = 0 /\ k' = 0 /\ n' = 0 /\ ~cut' /\ cs' # 1 /\ ~(k' > 0)
  BY DEF Begin, Idle, TypeInv, ControlInv, Stopping
<1>2. Starting(0, CS0', CS', CLK0', CLK', state', counter')
  BY <1>1 DEF Starting, Ticked, StateAfter
<1>3. Transferring'
  BY <1>1, <1>2 DEF Transferring
<1> QED
  BY <1>1, <1>3 DEF ControlInv, Stopping

\* CS goes up.
LEMMA StopControl ==
  ASSUME TypeInv, ControlInv, Ticked, cs = 0, k > 0, cs' = 1, clk' \in {0, clk},
         k' = k, n' = 0, cut' \/ (clk = 0 /\ k = 2 * W)
  PROVE  ControlInv'
<1>1. k \in 1..2 * W /\ n \in 0..6 /\ CS0 = 0 /\ CS = 0 /\ CS0' = 0 /\ CS' = 0 /\ cs' # 0
  BY DEF TypeInv, ControlInv, Transferring, Ticked
<1>2. ~(n' >= 1) /\ ~(n' >= 2) /\ ~(n' >= 3)
  OBVIOUS
<1>3. ASSUME clk = 0
      PROVE  StoppedLow' => clk' = 0 /\ k' > 0 /\ LowSince(k', CLK0', CLK', state', counter', CS0')
  <2>1. Low(k, n, CLK0, CLK, state, counter)
    BY <1>1, <1>3 DEF ControlInv, Transferring
  <2>2. Low(k, Later(n), 0, CLK0, state', counter') /\ CLK0' = 0 /\ CLK' = CLK0
    BY <1>1, <1>3, <2>1, LowGoesOn DEF Ticked
  <2>3. Later(n) \in 1..6
    BY <1>1 DEF Later
  <2>4. LowSince(k, 0, CLK0, state', counter', CS0')
    BY <1>1, <2>2, <2>3 DEF LowSince
  <2> QED
    BY <1>1, <1>3, <2>2, <2>4
<1>4. ASSUME clk = 1
      PROVE  HighSince(k', CLK', state')
  <2>1. High(k, n, CLK0, CLK, state, counter)
    BY <1>1, <1>4 DEF ControlInv, Transferring
  <2>2. High(k, Later(n), 1, CLK0, state', counter')
    BY <1>1, <2>1, HighGoesOn DEF Ticked
  <2>3. Later(n) \in 0..6
    BY <1>1 DEF Later
  <2> QED
    BY <1>1, <2>2, <2>3, HighSinceHigh DEF Ticked
<1>5. clk \in {0, 1} /\ CLK0' = clk
  BY DEF TypeInv, Ticked
<1>6. Stopping'
  <2>1. StoppedLow' => clk' = 0 /\ k' > 0 /\ LowSince(k', CLK0', CLK', state', counter', CS0')
    BY <1>1, <1>3, <1>5 DEF StoppedLow
  <2>2. StoppedHigh' => cut' /\ k' > 0 /\ HighSince(k', CLK', state')
    BY <1>1, <1>4, <1>5 DEF StoppedHigh
  <2> QED
    BY <1>1, <1>2, <2>1, <2>2 DEF Stopping
<1> QED
  BY <1>1, <1>6 DEF ControlInv, Transferring

\* Nothing changes while CS is down.
LEMMA HoldDownControl ==
  ASSUME TypeInv, ControlInv, Ticked, Hold, cs = 0
  PROVE  ControlInv'
<1>1. /\ k \in 0..2 * W /\ n \in 0..6 /\ n' = Later(n) /\ k' = k /\ clk' = clk /\ cs' = 0
      /\ ~cut' /\ cs' # 1 /\ clk \in {0, 1}
  BY DEF Hold, line, HalfPeriod, Later, TypeInv, ControlInv, Transferring
<1>2. CASE k = 0
  <2>1. clk = 0 /\ Starting(n, CS0, CS, CLK0, CLK, state, counter) /\ ~(k > 0)
    BY <1>2 DEF ControlInv, Transferring
  <2>2. Starting(n', CS0', CS', CLK0', CLK', state', counter')
    BY <1>1, <2>1, StartingGoesOn DEF Ticked
  <2>3. Transferring'
    BY <1>1, <1>2, <2>1, <2>2 DEF Transferring
  <2> QED
    BY <1>1, <2>3 DEF ControlInv, Stopping
<1>3. CASE k > 0
  <2>1. k \in 1..2 * W /\ k # 0 /\ CS0 = 0 /\ CS = 0 /\ CS0' = 0 /\ CS' = 0
    BY <1>1, <1>3 DEF ControlInv, Transferring, Ticked
  <2>2. clk = 1 => High(k', n', CLK0', CLK', state', counter')
    BY <1>1, <1>3, <2>1, HighGoesOn DEF ControlInv, Transferring, Ticked
  <2>3. clk = 0 => Low(k', n', CLK0', CLK', state', counter')
    BY <1>1, <1>3, <2>1, LowGoesOn DEF ControlInv, Transferring, Ticked
  <2>4. Transferring'
    BY <1>1, <2>1, <2>2, <2>3 DEF Transferring
  <2> QED
    BY <1>1, <2>4 DEF ControlInv, Stopping
<1> QED
  BY <1>1, <1>2, <1>3

\* CS stays up, whether the clock comes down or not.
LEMMA UpControl ==
  ASSUME TypeInv, ControlInv, Ticked, cs = 1, cs' = 1, k' = k, cut' = cut,
         \/ n' = Later(n) /\ clk' = clk
         \/ n' = 0 /\ clk = 1 /\ clk' = 0
  PROVE  ControlInv'
<1>1. /\ CS0' = 1 /\ CS' = CS0 /\ CLK0' = clk /\ CLK' = CLK0 /\ cs' # 0
      /\ clk \in {0, 1} /\ CLK0 \in {0, 1} /\ CLK \in {0, 1} /\ CS0 \in {0, 1} /\ CS \in {0, 1}
      /\ n \in 0..6 /\ k \in 0..2 * W
  BY DEF TypeInv, Ticked
<1>2. CS = 1 => CS0 = 1 /\ state' = "Wait"
  BY DEF ControlInv, Stopping, Ticked, StateAfter
<1>3. CS = 0 => state' = StateAfter(0, CLK, state, counter)
  BY DEF Ticked
<1>4. ASSUME CS = 0, (CS0 = 0 /\ CLK0 = 0) \/ (CS0 = 1 /\ CLK = 0)
      PROVE  /\ clk' = 0 /\ k' > 0
             /\ LowSince(k', CLK0', CLK', state', counter', CS0')
             /\ state' = "End" => k' = 2 * W
             /\ CS0 = 1 => state' # "Data_11"
  <2>1. clk = 0 /\ k > 0 /\ LowSince(k, CLK0, CLK, state, counter, CS0)
    BY <1>4 DEF ControlInv, Stopping, StoppedLow
  <2>2. k \in 1..2 * W /\ clk' = 0 /\ CLK0' = 0
    BY <1>1, <2>1
  <2> QED
    BY <1>1, <1>3, <1>4, <2>1, <2>2, LowSinceGoesOn DEF Ticked
<1>5. ASSUME CS = 0, (CS0 = 0 /\ CLK0 = 1) \/ (CS0 = 1 /\ CLK = 1)
      PROVE  /\ cut' /\ k' > 0
             /\ CLK0 = 1 => HighSince(k', CLK', state')
             /\ CLK = 1 => state' # "End"
  <2>1. cut /\ k > 0 /\ HighSince(k, CLK, state)
    BY <1>5 DEF ControlInv, Stopping, StoppedHigh
  <2>2. k \in 1..2 * W
    BY <1>1, <2>1
  <2> QED
    BY <1>1, <1>3, <1>5, <2>1, <2>2, HighSinceGoesOn
<1>6. StoppedLow' => clk' = 0 /\ k' > 0 /\ LowSince(k', CLK0', CLK', state', counter', CS0')
  <2>1. StoppedLow' => CS0 = 0 /\ CLK0 = 0
    BY <1>1 DEF StoppedLow
  <2>2. CS0 = 0 => CS = 0
    BY <1>1, <1>2
  <2>3. ASSUME StoppedLow'
        PROVE  clk' = 0 /\ k' > 0 /\ LowSince(k', CLK0', CLK', state', counter', CS0')
    <3>1. CS = 0 /\ CS0 = 0 /\ CLK0 = 0
      BY <2>1, <2>2, <2>3
    <3>2. LowSince(k', CLK0', CLK', state', counter', CS0')
      BY <1>4, <3>1
    <3>3. clk' = 0
      BY <1>4, <3>1
    <3>4. k' > 0
      BY <1>4, <3>1
    <3> QED
      BY <3>2, <3>3, <3>4
  <2> QED
    BY <2>3
<1>7. StoppedHigh' => cut' /\ k' > 0 /\ HighSince(k', CLK', state')
  <2>1. StoppedHigh' => CS0 = 0 /\ CLK0 = 1
    BY <1>1 DEF StoppedHigh
  <2>2. CS0 = 0 => CS = 0
    BY <1>1, <1>2
  <2> QED
    BY <1>5, <2>1, <2>2, Zenon
<1>8. CS' = 1 /\ state' = "End" => k' = 2 * W
  BY <1>1, <1>2, <1>4, <1>5
<1>9. CS' = 1 /\ ~cut' => state' # "Data_11"
  BY <1>1, <1>2, <1>4, <1>5
<1>10. /\ n' >= 1 => CS0' = 1 /\ (clk' = 0 => CLK0' = 0)
       /\ n' >= 2 => CS' = 1 /\ (clk' = 0 => CLK' = 0)
       /\ n' >= 3 => state' = "Wait"
  <2>1. CASE n' = 0
    BY <2>1
  <2>2. CASE n' = Later(n) /\ clk' = clk
    <3>1. n' >= 2 => n >= 1
      BY <1>1, <2>2 DEF Later
    <3>2. n' >= 3 => n >= 2
      BY <1>1, <2>2 DEF Later
    <3> QED
      BY <1>1, <1>2, <2>2, <3>1, <3>2 DEF ControlInv, Stopping
  <2> QED
    BY <2>1, <2>2
<1>11. ~cut' => k' \in {0, 2 * W}
  BY DEF ControlInv, Stopping
<1>12. Stopping'
  BY <1>1, <1>6, <1>7, <1>8, <1>9, <1>10, <1>11 DEF Stopping
<1> QED
  BY <1>1, <1>12 DEF ControlInv, Transferring

Moves == Begin \/ Rise \/ Fall \/ End \/ Restart \/ Rest \/ Hold

LEMMA ControlStep ==
  ASSUME TypeInv, ControlInv, Ticked, Moves
  PROVE  ControlInv'
<1>1. CASE End
  BY <1>1, StopControl, WidthAssumption DEF End, Whole
<1>2. CASE Restart
  BY <1>2, StopControl DEF Restart, Started
<1>3. CASE Rest
  BY <1>3, UpControl DEF Rest
<1>4. CASE Hold
  <2>1. CASE cs = 0
    BY <1>4, <2>1, HoldDownControl
  <2>2. CASE cs = 1
    <3>1. n' = Later(n) /\ clk' = clk /\ cs' = 1 /\ k' = k /\ cut' = cut
      BY <1>4, <2>2 DEF Hold, line, HalfPeriod, Later
    <3> QED
      BY <2>2, <3>1, UpControl
  <2> QED
    BY <2>1, <2>2 DEF TypeInv
<1> QED
  BY <1>1, <1>2, <1>3, <1>4, BeginControl, RiseControl, FallControl DEF Moves

LEMMA ControlInit == SlaveInit => ControlInv
BY DEF SlaveInit, ControlInv, Transferring, Stopping, StoppedLow, StoppedHigh

-----------------------------------------------------------------------------
(* Types                                                                   *)

LEMMA ShiftType ==
  ASSUME NEW b \in Byte, NEW bit \in {0, 1}
  PROVE  Shift(b, bit) \in Byte
<1>1. ASSUME NEW i \in 1..W, i < W
      PROVE  b[i + 1] \in {0, 1}
  <2>1. i + 1 \in 1..W
    BY <1>1, WidthAssumption
  <2> QED
    BY <2>1 DEF Byte
<1> QED
  BY <1>1 DEF Shift, Byte

LEMMA JobType ==
  ASSUME NEW j \in Jobs
  PROVE  /\ j.address \in Byte /\ j.address[1] = 0 /\ j.data \in Byte
         /\ j.write \in BOOLEAN /\ Sent(j) \in Byte
         /\ j.write => j.address \in Registers
         /\ ~j.write => j.address \in {A_Led70, A_Status}
<1>1. Zero \in Byte /\ 1 \in 1..W
  BY WidthAssumption DEF Zero, Byte
<1>2. /\ j.address \in Byte /\ j.address[1] = 0 /\ j.data \in Byte /\ j.write \in BOOLEAN
      /\ j.write => j.address \in Registers
      /\ ~j.write => j.address \in {A_Led70, A_Status}
  BY <1>1, AddressAssumption, ByteAssumption DEF Jobs, Registers
<1>3. Sent(j) \in Byte
  BY <1>1, <1>2 DEF Sent, Byte
<1> QED
  BY <1>2, <1>3

BitIn(j, i) == IF i <= W THEN Sent(j)[i] ELSE j.data[i - W]

LEMMA BitType ==
  ASSUME NEW j \in Jobs, NEW i \in 1..2 * W
  PROVE  BitIn(j, i) \in {0, 1}
<1>1. CASE i <= W
  <2>1. i \in 1..W
    BY <1>1, WidthAssumption
  <2> QED
    BY <1>1, <2>1, JobType DEF BitIn, Byte
<1>2. CASE ~(i <= W)
  <2>1. i - W \in 1..W
    BY <1>2, WidthAssumption
  <2> QED
    BY <1>2, <2>1, JobType DEF BitIn, Byte
<1> QED
  BY <1>1, <1>2

-----------------------------------------------------------------------------
(* What the slave has taken                                                *)

\* The last s bits of b are the first s bits of w.
Suffix(b, w, s) == \A i \in 1..s : b[W - s + i] = w[i]

LEMMA SuffixOneMore ==
  ASSUME NEW b, NEW w, NEW s \in 0..W - 1, NEW bit, Suffix(b, w, s), bit = w[s + 1]
  PROVE  Suffix(Shift(b, bit), w, s + 1)
<1> SUFFICES ASSUME NEW i \in 1..s + 1
             PROVE  Shift(b, bit)[W - (s + 1) + i] = w[i]
  BY DEF Suffix
<1>1. W - (s + 1) + i \in 1..W
  BY WidthAssumption
<1>2. CASE i = s + 1
  <2>1. W - (s + 1) + i = W
    BY <1>2, WidthAssumption
  <2> QED
    BY <1>1, <1>2, <2>1 DEF Shift
<1>3. CASE i # s + 1
  <2>1. i \in 1..s /\ W - (s + 1) + i < W /\ W - (s + 1) + i + 1 = W - s + i
    BY <1>3, WidthAssumption
  <2>2. Shift(b, bit)[W - (s + 1) + i] = b[W - s + i]
    BY <1>1, <2>1 DEF Shift
  <2> QED
    BY <2>1, <2>2 DEF Suffix
<1> QED
  BY <1>2, <1>3

LEMMA SuffixIsAll ==
  ASSUME NEW b \in Byte, NEW w \in Byte, Suffix(b, w, W)
  PROVE  b = w
<1>1. ASSUME NEW i \in 1..W
      PROVE  b[i] = w[i]
  <2>1. W - W + i = i
    BY WidthAssumption
  <2> QED
    BY <2>1 DEF Suffix
<1>2. b = [i \in 1..W |-> b[i]] /\ w = [i \in 1..W |-> w[i]]
  BY DEF Byte
<1>3. [i \in 1..W |-> b[i]] = [i \in 1..W |-> w[i]]
  BY <1>1
<1> QED
  BY <1>2, <1>3, Zenon

\* In the middle of transfer j, s bits of it are in the address a and the data d.
Holds(s, j, a, d) ==
  /\ s <= W => Suffix(a, Sent(j), s)
  /\ s >= W => a = Sent(j) /\ (j.write => Suffix(d, j.data, s - W))

LEMMA HoldsNothing ==
  ASSUME NEW j, NEW a, NEW d
  PROVE  Holds(0, j, a, d)
BY WidthAssumption DEF Holds, Suffix

LEMMA HoldsStill ==
  ASSUME NEW s \in 0..2 * W, NEW j, NEW a, NEW d, NEW e,
         Holds(s, j, a, d), s > W => e = d
  PROVE  Holds(s, j, a, e)
<1>1. CASE s > W
  BY <1>1
<1>2. CASE s = W
  <2>1. s - W = 0
    BY <1>2, WidthAssumption
  <2>2. Suffix(e, j.data, 0)
    BY DEF Suffix
  <2> QED
    BY <1>2, <2>1, <2>2 DEF Holds
<1>3. CASE s < W
  BY <1>3, WidthAssumption DEF Holds
<1> QED
  BY <1>1, <1>2, <1>3, WidthAssumption

LEMMA HoldsOneMore ==
  ASSUME NEW b \in 1..2 * W, NEW j \in Jobs, NEW a \in Byte, NEW d \in Byte,
         Holds(b - 1, j, a, d)
  PROVE  Holds(b, j, IF b <= W THEN Shift(a, BitIn(j, b)) ELSE a,
                     IF b <= W THEN d ELSE Shift(d, BitIn(j, b)))
<1> DEFINE bit == BitIn(j, b)
<1>0. bit \in {0, 1}
  BY BitType
<1>1. CASE b <= W
  <2>1. b - 1 \in 0..W - 1 /\ b - 1 + 1 = b /\ b - 1 <= W
    BY <1>1, WidthAssumption
  <2>2. Suffix(a, Sent(j), b - 1) /\ bit = Sent(j)[b]
    BY <1>1, <2>1 DEF Holds, BitIn
  <2> HIDE DEF bit
  <2>3. Suffix(Shift(a, bit), Sent(j), b)
    BY <2>1, <2>2, SuffixOneMore
  <2>4. b >= W => b = W /\ b - W = 0
    BY <1>1, WidthAssumption
  <2>5. b = W => Shift(a, bit) = Sent(j)
    BY <1>0, <2>3, ShiftType, SuffixIsAll, JobType
  <2>6. Suffix(d, j.data, 0)
    BY DEF Suffix
  <2>7. Holds(b, j, Shift(a, bit), d)
    BY <2>3, <2>4, <2>5, <2>6 DEF Holds
  <2> QED
    BY <1>1, <2>7 DEF bit
<1>2. CASE ~(b <= W)
  <2>1. b - 1 - W \in 0..W - 1 /\ b - 1 - W + 1 = b - W /\ b - 1 >= W
    BY <1>2, WidthAssumption
  <2>2. a = Sent(j) /\ (j.write => Suffix(d, j.data, b - 1 - W)) /\ bit = j.data[b - W]
    BY <1>2, <2>1 DEF Holds, BitIn
  <2> HIDE DEF bit
  <2>3. j.write => Suffix(Shift(d, bit), j.data, b - W)
    BY <2>1, <2>2, SuffixOneMore
  <2>4. Holds(b, j, a, Shift(d, bit))
    BY <1>2, <2>2, <2>3 DEF Holds
  <2> QED
    BY <1>2, <2>4 DEF bit
<1> QED
  BY <1>1, <1>2

LEMMA DataIs ==
  ASSUME TypeInv, ShiftIn
  PROVE  /\ state = "Addr_01" => address' = Shift(address, sdi)
         /\ state # "Addr_01" => address' = address
         /\ state = "Data_01" => data' = Shift(data, sdi)
         /\ state \notin {"Data", "Data_01"} => data' = data
         /\ state = "Data" /\ Register = A_Status => data' = Status
         /\ state = "Data" /\ Register = A_Led70 => data' = Led70
         /\ address' \in Byte /\ data' \in Byte
<1>1. /\ state = "Addr_01" => address' = Shift(address, sdi)
      /\ state # "Addr_01" => address' = address
  BY DEF ShiftIn
<1>2. CASE state = "Data_01"
  BY <1>1, <1>2, ShiftType DEF ShiftIn, TypeInv
<1>3. CASE state = "Data"
  <2>1. CASE Register = A_Status
    BY <1>1, <1>3, <2>1, AddressAssumption, ByteAssumption DEF ShiftIn, TypeInv
  <2>2. CASE Register = A_Led70
    BY <1>1, <1>3, <2>2, AddressAssumption DEF ShiftIn, TypeInv
  <2>3. CASE Register # A_Led70 /\ Register # A_Status
    BY <1>1, <1>3, <2>3 DEF ShiftIn, TypeInv
  <2> QED
    BY <2>1, <2>2, <2>3
<1>4. CASE state \notin {"Data", "Data_01"}
  BY <1>1, <1>4, ShiftType DEF ShiftIn, TypeInv
<1> QED
  BY <1>2, <1>3, <1>4

LEMMA TakesOne ==
  ASSUME TypeInv, ShiftIn, NEW b \in 1..2 * W, state = Taking(b), sdi = BitIn(job, b),
         Holds(b - 1, job, address, data)
  PROVE  Holds(b, job, address', data')
<1>1. /\ address' = IF b <= W THEN Shift(address, sdi) ELSE address
      /\ data' = IF b <= W THEN data ELSE Shift(data, sdi)
  BY DataIs DEF Taking
<1> QED
  BY <1>1, HoldsOneMore DEF TypeInv

LEMMA TakesNone ==
  ASSUME TypeInv, ShiftIn, NEW s \in 0..2 * W, state \notin {"Addr_01", "Data_01"},
         state = "Data" => s = W, Holds(s, job, address, data)
  PROVE  Holds(s, job, address', data')
<1>1. address' = address /\ (s > W => data' = data)
  BY DataIs, WidthAssumption
<1> QED
  BY <1>1, HoldsStill

LEMMA BitIs == \A i : BitOf(i) = BitIn(job, i)
BY DEF BitOf, BitIn

LEMMA TypeStep ==
  ASSUME TypeInv, ControlInv, NEW r \in {FALSE, Resets}, Tick(r), Moves, Remember(r)
  PROVE  TypeInv'
<1>1. /\ CLK0' \in {0, 1} /\ CLK' \in {0, 1} /\ CS0' \in {0, 1} /\ CS' \in {0, 1}
      /\ state' \in SlaveStates
  BY TickIs DEF TypeInv, StateAfter, SlaveStates
<1>2. counter' \in 0..W - 1
  BY TickIs, WidthAssumption DEF TypeInv, CountAfter
<1>3. address' \in Byte /\ data' \in Byte
  BY DataIs DEF Tick
<1>4. Led70' \in Byte /\ Blue' \in Byte /\ Trigger' \in BOOLEAN /\ Status' \in Inputs
  <2>1. Zero \in Byte
    BY DEF Zero, Byte
  <2> QED
    BY <2>1 DEF Tick, Update, TypeInv, Updated
<1>5. reset' \in BOOLEAN
  BY WidthAssumption DEF Remember, TypeInv
<1>6. /\ cs' \in {0, 1} /\ clk' \in {0, 1} /\ sdi' \in {0, 1}
      /\ job' \in Jobs /\ k' \in 0..2 * W /\ n' \in 0..6 /\ cut' \in BOOLEAN
      /\ got' \in Byte
  <2>1. CASE Begin
    <3>1. Zero \in Byte /\ 1 <= W
      BY WidthAssumption DEF Zero, Byte
    <3>2. sdi' = BitIn(job', 1) /\ job' \in Jobs /\ 1 \in 1..2 * W
      BY <2>1, <3>1, WidthAssumption DEF Begin, BitIn
    <3>3. sdi' \in {0, 1}
      BY <3>2, BitType
    <3>4. k' = 0 /\ 0 \in 0..2 * W
      BY <2>1, WidthAssumption DEF Begin
    <3>5. cs' = 0 /\ clk' = clk /\ n' = 0 /\ cut' = FALSE /\ got' = Zero
      BY <2>1 DEF Begin
    <3>6. clk' \in {0, 1}
      BY <3>5 DEF TypeInv
    <3>7. k' \in 0..2 * W
      BY <3>4
    <3>8. cut' \in BOOLEAN
      BY <2>1 DEF Begin
    <3>9. cs' \in {0, 1} /\ n' \in 0..6 /\ got' \in Byte
      BY <3>1, <3>5
    <3> QED
      BY <3>2, <3>3, <3>6, <3>7, <3>8, <3>9
  <2>2. CASE Rise
    <3>1. k' \in 0..2 * W
      BY <2>2, WidthAssumption DEF Rise, TypeInv
    <3>2. data[1] \in {0, 1}
      BY WidthAssumption DEF TypeInv, Byte
    <3>3. got' \in Byte
      BY <2>2, <3>2, ShiftType DEF Rise, TypeInv, Zero, Byte
    <3> QED
      BY <2>2, <3>1, <3>3 DEF Rise, TypeInv
  <2>3. CASE Fall
    <3>1. k < 2 * W => k + 1 \in 1..2 * W
      BY WidthAssumption DEF TypeInv
    <3>2. sdi' \in {0, 1}
      BY <2>3, <3>1, BitType, BitIs DEF Fall, TypeInv
    <3> QED
      BY <2>3, <3>2 DEF Fall, TypeInv
  <2>4. CASE End
    BY <2>4 DEF End, TypeInv
  <2>5. CASE Restart
    BY <2>5 DEF Restart, TypeInv
  <2>6. CASE Rest
    BY <2>6 DEF Rest, TypeInv
  <2>7. CASE Hold
    BY <2>7 DEF Hold, HalfPeriod, line, TypeInv
  <2> QED
    BY <2>1, <2>2, <2>3, <2>4, <2>5, <2>6, <2>7 DEF Moves
<1> QED
  BY <1>1, <1>2, <1>3, <1>4, <1>5, <1>6 DEF TypeInv

\* The address and the data hold the bits put so far, one late while the last is
\* being taken, and the line carries the bit that is to be taken.
Holding ==
  /\ cs = 0 => Holds(IF clk = 1 /\ n <= 3 THEN k - 1 ELSE k, job, address, data)
  /\ cs = 0 /\ clk = 1 => sdi = BitIn(job, k)
  /\ cs = 0 /\ clk = 0 /\ k < 2 * W => sdi = BitIn(job, k + 1)
  /\ StoppedLow \/ (cs = 1 /\ state = "End") => Holds(k, job, address, data)

\* What the slave takes in a tick, by where it is.
LEMMA HighTakes ==
  ASSUME TypeInv, ShiftIn, NEW b \in 1..2 * W, NEW m \in 0..6,
         High(b, m, CLK0, CLK, state, counter), sdi = BitIn(job, b),
         Holds(IF m <= 3 THEN b - 1 ELSE b, job, address, data)
  PROVE  Holds(IF m <= 2 THEN b - 1 ELSE b, job, address', data')
<1>1. CASE m <= 2
  <2>1. state \in {"Addr_00", "Data_00"} /\ b - 1 \in 0..2 * W /\ m <= 3
    BY <1>1, WidthAssumption DEF High, Awaiting
  <2> QED
    BY <1>1, <2>1, TakesNone
<1>2. CASE m = 3
  <2>1. state = Taking(b) /\ ~(m <= 2) /\ m <= 3
    BY <1>2 DEF High
  <2> QED
    BY <2>1, TakesOne
<1>3. CASE m >= 4
  <2>1. state \in {"Addr_11", "Data_11"} /\ b \in 0..2 * W /\ ~(m <= 3) /\ ~(m <= 2)
    BY <1>3, WidthAssumption DEF High, Taken
  <2> QED
    BY <2>1, TakesNone
<1> QED
  BY <1>1, <1>2, <1>3

LEMMA LowTakesNone ==
  ASSUME TypeInv, ShiftIn, NEW b \in 1..2 * W, NEW m \in 0..6,
         Low(b, m, CLK0, CLK, state, counter), Holds(b, job, address, data)
  PROVE  Holds(b, job, address', data')
<1>1. state \notin {"Addr_01", "Data_01"} /\ (state = "Data" => b = W) /\ b \in 0..2 * W
  BY DEF Low, LowState, Taken, Awaiting
<1> QED
  BY <1>1, TakesNone

LEMMA NotBackUp ==
  ASSUME TypeInv, NEW c \in {0, 1}, NEW st, NEW b \in 1..2 * W, HighSince(b, c, st)
  PROVE  st # "End"
BY DEF HighSince, Awaiting, Taking, Taken

LEMMA HoldingStep ==
  ASSUME TypeInv, ControlInv, Holding, Ticked, ShiftIn, Moves, TypeInv'
  PROVE  Holding'
<1>1. CASE Begin
  <2>1. /\ cs' = 0 /\ clk' = 0 /\ k' = 0 /\ sdi' = BitIn(job', 1)
        /\ cs' # 1 /\ ~(clk' = 1) /\ k' + 1 = 1
    BY <1>1, WidthAssumption DEF Begin, Idle, BitIn
  <2> QED
    BY <2>1, HoldsNothing DEF Holding, StoppedLow
<1>2. CASE Rise
  <2>1. /\ cs = 0 /\ clk = 0 /\ k \in 0..2 * W - 1 /\ n \in 3..6
        /\ cs' = 0 /\ clk' = 1 /\ k' = k + 1 /\ n' = 0 /\ cs' # 1 /\ ~(clk' = 0) /\ n' <= 3
        /\ sdi' = sdi /\ job' = job /\ k' - 1 = k /\ k < 2 * W /\ ~(clk = 1)
    BY <1>2, WidthAssumption DEF Rise, Long, HalfPeriod, TypeInv
  <2>2. Holds(k, job, address, data) /\ sdi = BitIn(job, k + 1)
    BY <2>1 DEF Holding
  <2>3. Holds(k, job, address', data')
    <3>1. CASE k = 0
      BY <3>1, HoldsNothing
    <3>2. CASE k > 0
      <4>1. Low(k, n, CLK0, CLK, state, counter) /\ k \in 1..2 * W /\ n \in 0..6
        BY <2>1, <3>2, WidthAssumption DEF ControlInv, Transferring
      <4> QED
        BY <2>2, <4>1, LowTakesNone
    <3> QED
      BY <2>1, <3>1, <3>2
  <2> QED
    BY <2>1, <2>2, <2>3 DEF Holding, StoppedLow
<1>3. CASE Fall
  <2>1. /\ cs = 0 /\ clk = 1 /\ k \in 1..2 * W /\ n \in 3..6 /\ k > 0 /\ n \in 0..6
        /\ cs' = 0 /\ clk' = 0 /\ k' = k /\ n' = 0 /\ cs' # 1 /\ clk' # 1
        /\ job' = job /\ ~(n <= 2)
    BY <1>3, WidthAssumption DEF Fall, Long, HalfPeriod, TypeInv, ControlInv, Transferring
  <2>2. k' < 2 * W => sdi' = BitIn(job', k' + 1)
    BY <1>3, <2>1, BitIs DEF Fall
  <2>3. High(k, n, CLK0, CLK, state, counter) /\ sdi = BitIn(job, k)
        /\ Holds(IF n <= 3 THEN k - 1 ELSE k, job, address, data)
    BY <2>1 DEF ControlInv, Transferring, Holding
  <2>4. Holds(k, job, address', data')
    BY <2>1, <2>3, HighTakes
  <2> QED
    BY <2>1, <2>2, <2>4 DEF Holding, StoppedLow
<1>4. CASE cs = 0 /\ cs' = 1 /\ k > 0 /\ k' = k /\ job' = job
  <2>1. k \in 1..2 * W /\ n \in 0..6 /\ CS = 0 /\ clk \in {0, 1} /\ cs' # 0
    BY <1>4 DEF TypeInv, ControlInv, Transferring
  <2>2. CASE clk = 0
    <3>1. Low(k, n, CLK0, CLK, state, counter) /\ Holds(k, job, address, data)
      BY <1>4, <2>2 DEF ControlInv, Transferring, Holding
    <3>2. Holds(k, job, address', data')
      BY <2>1, <3>1, LowTakesNone
    <3> QED
      BY <1>4, <2>1, <3>2 DEF Holding
  <2>3. CASE clk = 1
    <3>1. High(k, n, CLK0, CLK, state, counter)
      BY <1>4, <2>3 DEF ControlInv, Transferring
    <3>2. High(k, Later(n), 1, CLK0, state', counter')
      BY <2>1, <3>1, HighGoesOn DEF Ticked
    <3>3. state' # "End"
      BY <3>2 DEF High, Awaiting, Taking, Taken
    <3>4. ~StoppedLow'
      BY <1>4, <2>1, <2>3 DEF StoppedLow, Ticked
    <3> QED
      BY <2>1, <3>3, <3>4 DEF Holding
  <2> QED
    BY <2>1, <2>2, <2>3
<1>5. CASE Hold /\ cs = 0
  <2>1. /\ cs' = 0 /\ clk' = clk /\ k' = k /\ job' = job /\ sdi' = sdi /\ n' = Later(n)
        /\ cs' # 1 /\ clk \in {0, 1} /\ n \in 0..6 /\ k \in 0..2 * W
    BY <1>5 DEF Hold, line, HalfPeriod, Later, TypeInv
  <2>2. CASE clk = 1
    <3>1. k \in 1..2 * W
      BY <1>5, <2>1, <2>2 DEF ControlInv, Transferring
    <3>2. High(k, n, CLK0, CLK, state, counter) /\ sdi = BitIn(job, k)
          /\ Holds(IF n <= 3 THEN k - 1 ELSE k, job, address, data)
      BY <1>5, <2>2, <3>1 DEF ControlInv, Transferring, Holding
    <3>3. Holds(IF n <= 2 THEN k - 1 ELSE k, job, address', data')
      BY <2>1, <3>1, <3>2, HighTakes
    <3>4. n' <= 3 <=> n <= 2
      BY <2>1 DEF Later
    <3> QED
      BY <2>1, <2>2, <3>2, <3>3, <3>4 DEF Holding, StoppedLow
  <2>3. CASE clk = 0
    <3>1. Holds(k, job, address, data) /\ (k < 2 * W => sdi = BitIn(job, k + 1))
      BY <1>5, <2>3 DEF Holding
    <3>2. Holds(k, job, address', data')
      <4>1. CASE k = 0
        BY <4>1, HoldsNothing
      <4>2. CASE k > 0
        <5>1. Low(k, n, CLK0, CLK, state, counter) /\ k \in 1..2 * W
          BY <1>5, <2>1, <2>3, <4>2 DEF ControlInv, Transferring
        <5> QED
          BY <2>1, <3>1, <5>1, LowTakesNone
      <4> QED
        BY <2>1, <4>1, <4>2
    <3> QED
      BY <2>1, <2>3, <3>1, <3>2 DEF Holding, StoppedLow
  <2> QED
    BY <2>1, <2>2, <2>3
<1>6. CASE cs = 1 /\ cs' = 1 /\ k' = k /\ job' = job
  <2>1. /\ CS0' = 1 /\ CLK0' = clk /\ CLK' = CLK0 /\ CS' = CS0 /\ cs' # 0 /\ k \in 0..2 * W
        /\ CLK \in {0, 1} /\ CLK0 \in {0, 1} /\ CS \in {0, 1} /\ CS0 \in {0, 1}
    BY <1>6 DEF Ticked, TypeInv
  <2>2. StoppedLow' \/ state' = "End" => CS = 0 /\ (StoppedLow \/ StoppedHigh)
    <3>1. CS = 1 => CS0 = 1 /\ state' # "End"
      BY <1>6 DEF ControlInv, Stopping, Ticked, StateAfter
    <3> QED
      BY <1>6, <2>1, <3>1 DEF StoppedLow, StoppedHigh
  <2>3. CS = 0 /\ StoppedHigh => state' # "End" /\ ~StoppedLow'
    <3>1. SUFFICES ASSUME CS = 0, StoppedHigh
                   PROVE  state' # "End" /\ ~StoppedLow'
      OBVIOUS
    <3>2. k > 0 /\ HighSince(k, CLK, state) /\ k \in 1..2 * W
      BY <1>6, <2>1, <3>1 DEF ControlInv, Stopping
    <3>3. HighSince(k, 1, state')
      BY <2>1, <3>1, <3>2, HighSinceGoesOn DEF Ticked
    <3>4. state' # "End"
      BY <3>2, <3>3, NotBackUp
    <3> QED
      BY <2>1, <3>1, <3>4 DEF StoppedHigh, StoppedLow
  <2>4. StoppedLow => Holds(k, job, address', data')
    <3>1. SUFFICES ASSUME StoppedLow
                   PROVE  Holds(k, job, address', data')
      OBVIOUS
    <3>2. k > 0 /\ LowSince(k, CLK0, CLK, state, counter, CS0) /\ k \in 1..2 * W
      BY <1>6, <2>1, <3>1 DEF ControlInv, Stopping
    <3>3. PICK m \in 1..6 : Low(k, m, CLK0, CLK, state, counter)
      BY <3>2 DEF LowSince
    <3>4. Holds(k, job, address, data) /\ m \in 0..6
      BY <3>1 DEF Holding
    <3> QED
      BY <3>2, <3>3, <3>4, LowTakesNone
  <2> QED
    BY <1>6, <2>1, <2>2, <2>3, <2>4 DEF Holding
<1> QED
  <2>1. End => <1>4!1
    BY WidthAssumption DEF End, Whole
  <2>2. Restart => <1>4!1
    BY DEF Restart, Started
  <2>3. Rest => <1>6!1
    BY DEF Rest
  <2>4. Hold => (Hold /\ cs = 0) \/ <1>6!1
    BY DEF Hold, line, TypeInv
  <2> QED
    BY <1>1, <1>2, <1>3, <1>4, <1>5, <1>6, <2>1, <2>2, <2>3, <2>4 DEF Moves

-----------------------------------------------------------------------------
(* What lands in the registers                                             *)

\* Until CS goes down again, nothing but the transfer the PIC32 has in hand
\* reaches the end of the machine, and it has been taken whole.
LEMMA EndIs ==
  ASSUME TypeInv, ControlInv, Holding, state = "End"
  PROVE  /\ k = 2 * W /\ address = Sent(job)
         /\ job.write => data = job.data
<1>1. /\ cs \in {0, 1} /\ clk \in {0, 1} /\ CS0 \in {0, 1} /\ CLK0 \in {0, 1}
      /\ CS \in {0, 1} /\ CLK \in {0, 1} /\ k \in 0..2 * W /\ n \in 0..6
      /\ job \in Jobs /\ data \in Byte
  BY DEF TypeInv
<1>2. ASSUME NEW m \in 0..6, k > 0, Low(k, m, CLK0, CLK, state, counter)
      PROVE  k = 2 * W
  BY <1>2 DEF Low, LowState, Taken, Awaiting
<1>3. k = 2 * W /\ Holds(k, job, address, data)
  <2>1. CASE cs = 0
    <3>1. k # 0
      BY <1>1, <2>1 DEF ControlInv, Transferring, Starting
    <3>2. clk # 1
      BY <1>1, <2>1, <3>1 DEF ControlInv, Transferring, High, Awaiting, Taking, Taken
    <3>3. Low(k, n, CLK0, CLK, state, counter) /\ k > 0 /\ clk = 0
      BY <1>1, <2>1, <3>1, <3>2 DEF ControlInv, Transferring
    <3>4. k = 2 * W
      BY <1>1, <1>2, <3>3
    <3> QED
      BY <2>1, <3>3, <3>4 DEF Holding
  <2>2. CASE cs = 1 /\ CS = 1
    BY <2>2 DEF ControlInv, Stopping, Holding
  <2>3. CASE cs = 1 /\ CS = 0
    <3>1. ~StoppedHigh
      <4>1. SUFFICES ASSUME StoppedHigh PROVE FALSE
        OBVIOUS
      <4>2. k > 0 /\ HighSince(k, CLK, state)
        BY <2>3, <4>1 DEF ControlInv, Stopping
      <4>3. k \in 1..2 * W
        BY <1>1, <4>2
      <4> QED
        BY <1>1, <4>2, <4>3, NotBackUp
    <3>2. StoppedLow
      BY <1>1, <2>3, <3>1 DEF StoppedLow, StoppedHigh
    <3>3. k > 0 /\ LowSince(k, CLK0, CLK, state, counter, CS0)
      BY <2>3, <3>2 DEF ControlInv, Stopping
    <3>4. PICK m \in 1..6 : Low(k, m, CLK0, CLK, state, counter)
      BY <3>3 DEF LowSince
    <3>5. k = 2 * W
      BY <1>2, <3>3, <3>4
    <3> QED
      BY <2>3, <3>5 DEF Holding
  <2> QED
    BY <1>1, <2>1, <2>2, <2>3
<1>4. k >= W /\ k - W = W
  BY <1>3, WidthAssumption
<1>5. address = Sent(job) /\ (job.write => Suffix(data, job.data, W))
  BY <1>3, <1>4 DEF Holds
<1> QED
  BY <1>1, <1>3, <1>5, JobType, SuffixIsAll

\* A byte gets to register r in this tick.
Lands(r) == state = "End" /\ MayLand(r)

LEMMA UpdatedIs ==
  ASSUME TypeInv, ControlInv, Holding, NEW r \in Registers
  PROVE  /\ Updated /\ Register = r <=> Lands(r)
         /\ Lands(r) => data = job.data
<1>1. CASE state = "End"
  <2>1. k = 2 * W /\ address = Sent(job) /\ (job.write => data = job.data)
    BY <1>1, EndIs
  <2>2. /\ job.address \in Byte /\ job.address[1] = 0 /\ job.write \in BOOLEAN /\ 1 \in 1..W
        /\ r \in Byte /\ r[1] = 0
    BY JobType, WidthAssumption, AddressAssumption DEF TypeInv, Registers
  <2>3. address[1] = (IF job.write THEN 1 ELSE 0)
    BY <2>1, <2>2 DEF Sent, Byte
  <2>4. Register = job.address
    <3>1. ASSUME NEW i \in 1..W
          PROVE  Register[i] = job.address[i]
      BY <2>1, <2>2 DEF Register, Sent, Byte
    <3>2. Register = [i \in 1..W |-> Register[i]]
      <4>1. Register \in Byte
        BY <2>2 DEF TypeInv, Register, Byte
      <4> QED
        BY <4>1 DEF Byte
    <3>3. job.address = [i \in 1..W |-> job.address[i]]
      BY <2>2 DEF Byte
    <3>4. [i \in 1..W |-> Register[i]] = [i \in 1..W |-> job.address[i]]
      BY <3>1
    <3> QED
      BY <3>2, <3>3, <3>4, Zenon
  <2>5. Updated <=> job.write
    BY <1>1, <2>2, <2>3 DEF Updated
  <2> QED
    BY <1>1, <2>1, <2>4, <2>5 DEF Lands, MayLand
<1>2. CASE state # "End"
  BY <1>2 DEF Updated, Lands
<1> QED
  BY <1>1, <1>2

Value(r) == IF r = A_Led70 THEN Led70 ELSE Blue

LEMMA RegistersAre == /\ A_Led70 \in Registers /\ A_Blue \in Registers /\ A_Led70 # A_Blue
                      /\ Value(A_Led70) = Led70 /\ Value(A_Blue) = Blue
                      /\ \A r \in Registers : r = A_Led70 \/ r = A_Blue
BY AddressAssumption DEF Registers, Value

LEMMA ValueIs ==
  ASSUME TypeInv, ControlInv, Holding, NEW r \in Registers, NEW x \in BOOLEAN, Update(x)
  PROVE  /\ x => Value(r)' = Zero
         /\ ~x /\ Lands(r) => Value(r)' = job.data
         /\ ~x /\ ~Lands(r) => Value(r)' = Value(r)
<1>1. CASE r = A_Led70
  <2>1. Value(r)' = Led70' /\ Value(r) = Led70
    BY <1>1 DEF Value
  <2>2. /\ Updated /\ Register = A_Led70 <=> Lands(A_Led70)
        /\ Lands(A_Led70) => data = job.data
    BY RegistersAre, UpdatedIs
  <2> QED
    BY <1>1, <2>1, <2>2 DEF Update
<1>2. CASE r = A_Blue
  <2>1. Value(r)' = Blue' /\ Value(r) = Blue
    BY <1>2, RegistersAre DEF Value
  <2>2. /\ Updated /\ Register = A_Blue <=> Lands(A_Blue)
        /\ Lands(A_Blue) => data = job.data
    BY RegistersAre, UpdatedIs
  <2> QED
    BY <1>2, <2>1, <2>2 DEF Update
<1> QED
  BY <1>1, <1>2, RegistersAre

LEMMA TriggerIs ==
  ASSUME TypeInv, ControlInv, Holding, NEW x \in BOOLEAN, Update(x)
  PROVE  /\ x => Trigger' = Trigger
         /\ ~x => (Trigger' <=> Lands(A_Blue))
<1>1. Updated /\ Register = A_Blue <=> Lands(A_Blue)
  BY RegistersAre, UpdatedIs
<1> QED
  BY <1>1 DEF Update

Landing == state \in {"Data_11", "End"}

\* What register r holds, of the bytes that it may.
StoringIn(r) ==
  /\ cs = 0 => Value(r) \in due[r] \/ (MayLand(r) /\ Value(r) = job.data)
  /\ cs = 0 /\ clk = 0 /\ n >= 4 /\ MayLand(r) /\ ~reset => Value(r) = job.data
  /\ cs = 1 /\ MayLand(r) /\ ~Quiet => job.data \in due[r]
  /\ cs = 1 => Value(r) \in due[r] \/ (MayLand(r) /\ ~cut /\ ~reset /\ Landing)

Storing == \A r \in Registers : StoringIn(r)

LEMMA QuietGoesOn ==
  ASSUME TypeInv, ControlInv, Ticked, Quiet, cs' = 1
  PROVE  Quiet'
BY DEF Quiet, ControlInv, Stopping, Ticked, StateAfter

LEMMA LowLanding ==
  ASSUME NEW m \in 0..6, NEW c0, NEW c, NEW st, NEW cnt,
         Low(2 * W, m, c0, c, st, cnt), st = "Data_11"
  PROVE  StateAfter(0, c, st, cnt) \in {"Data_11", "End"}
<1>1. 2 * W \in 1..2 * W /\ 2 * W # W /\ ~(2 * W <= W)
  BY WidthAssumption
<1>2. m <= 2
  BY <1>1 DEF Low, LowState, Taken
<1>3. Later(m) \in 1..3
  BY <1>2 DEF Later
<1>4. LowState(2 * W, Later(m)) \in {"Data_11", "End"}
  BY <1>1, <1>3 DEF LowState, Taken
<1>5. Low(2 * W, Later(m), 0, c0, StateAfter(0, c, st, cnt), CountAfter(st, cnt))
  BY <1>1, LowGoesOn
<1> QED
  BY <1>4, <1>5 DEF Low

\* The last bit has been taken: the byte is on its way to the register.
LEMMA LandingGoesOn ==
  ASSUME TypeInv, ControlInv, Ticked, k = 2 * W, state = "Data_11", ~cut, cs = 0 => clk = 0
  PROVE  Landing'
<1>1. /\ cs \in {0, 1} /\ CS0 \in {0, 1} /\ CLK0 \in {0, 1} /\ CS \in {0, 1} /\ CLK \in {0, 1}
      /\ n \in 0..6 /\ k > 0 /\ k # 0
  BY WidthAssumption DEF TypeInv
<1>2. CASE cs = 0
  <2>1. Low(k, n, CLK0, CLK, state, counter) /\ CS = 0
    BY <1>1, <1>2 DEF ControlInv, Transferring
  <2> QED
    BY <1>1, <2>1, LowLanding DEF Ticked, Landing
<1>3. CASE cs = 1
  <2>1. CS = 0 /\ StoppedLow
    BY <1>1, <1>3 DEF ControlInv, Stopping, StoppedLow, StoppedHigh
  <2>2. PICK m \in 1..6 : Low(k, m, CLK0, CLK, state, counter)
    BY <1>3, <2>1 DEF ControlInv, Stopping, LowSince
  <2>3. m \in 0..6
    OBVIOUS
  <2> QED
    BY <2>1, <2>2, <2>3, LowLanding DEF Ticked, Landing
<1> QED
  BY <1>1, <1>2, <1>3

\* What a move leaves alone.
LEMMA MovesAre ==
  ASSUME TypeInv, ControlInv, Moves
  PROVE  /\ cs \in {0, 1} /\ cs' \in {0, 1} /\ cut \in BOOLEAN /\ cut' \in BOOLEAN
         /\ cs = 0 \/ cs' = 1 => job' = job
         /\ cs' = 1 => k' = k
         /\ cs = 1 /\ cs' = 0 => Begin /\ n >= 2 /\ k' = 0
         /\ cs = 1 /\ cs' = 1 => cut' = cut
         /\ cs = 0 /\ cs' = 0 /\ k = 2 * W => k' = k
         /\ cs' = 0 /\ clk' = 0 /\ n' >= 4 => Hold /\ cs = 0 /\ clk = 0 /\ k' = k /\ n >= 3
         /\ cs = 0 /\ cs' = 1 /\ ~cut' => ~cut /\ clk = 0 /\ k = 2 * W
         /\ cs = 0 => ~cut
         /\ cs' = 0 => ~cut'
<1>0. cs = 0 => ~cut
  BY DEF ControlInv, Transferring
<1>1. cs \in {0, 1} /\ cut \in BOOLEAN /\ k \in 0..2 * W /\ n \in 0..6 /\ clk \in {0, 1}
  BY DEF TypeInv
<1>2. CASE Begin
  <2>1. cs = 1 /\ cs' = 0 /\ ~(n' >= 4) /\ n >= 2 /\ k' = 0
    BY <1>2 DEF Begin, Idle
  <2>2. cut' \in BOOLEAN /\ ~cut'
    BY <1>2 DEF Begin
  <2> QED
    BY <1>1, <1>2, <2>1, <2>2
<1>3. CASE Rise
  BY <1>0, <1>1, <1>3, WidthAssumption DEF Rise
<1>4. CASE Fall
  BY <1>0, <1>1, <1>4, WidthAssumption DEF Fall
<1>5. CASE End
  BY <1>0, <1>1, <1>5, WidthAssumption DEF End, Whole
<1>6. CASE Restart
  BY <1>0, <1>1, <1>6, WidthAssumption DEF Restart, Started
<1>7. CASE Rest
  BY <1>0, <1>1, <1>7, WidthAssumption DEF Rest
<1>8. CASE Hold
  <2>1. n' >= 4 => n >= 3
    BY <1>1, <1>8 DEF Hold, HalfPeriod
  <2> QED
    BY <1>0, <1>1, <1>8, <2>1 DEF Hold, line
<1> QED
  BY <1>2, <1>3, <1>4, <1>5, <1>6, <1>7, <1>8 DEF Moves

LEMMA StoringStep ==
  ASSUME TypeInv, ControlInv, Holding, Storing, Ticked, Moves,
         NEW x \in BOOLEAN, Update(x), Remember(x)
  PROVE  Storing'
<1> SUFFICES ASSUME NEW r \in Registers
             PROVE  StoringIn(r)'
  BY DEF Storing
<1>1. /\ cs \in {0, 1} /\ cs' \in {0, 1} /\ cut \in BOOLEAN /\ cut' \in BOOLEAN
      /\ reset \in BOOLEAN /\ reset' \in BOOLEAN /\ StoringIn(r)
  BY MovesAre DEF Storing, TypeInv, Remember
<1>2. cs' = 1 /\ MayLand(r)' /\ ~Quiet' /\ cs = 1 => MayLand(r) /\ ~Quiet
  BY MovesAre, QuietGoesOn DEF MayLand
<1>3. CASE x
  <2>1. /\ Value(r)' = Zero /\ reset'
        /\ due'[r] = {Zero} \cup (IF MayLand(r) /\ ~Quiet THEN {job.data} ELSE {})
    BY <1>3, ValueIs DEF Remember
  <2>2. cs' = 1 => (MayLand(r)' <=> MayLand(r)) /\ job' = job
    BY MovesAre DEF MayLand
  <2>3. cs' = 1 /\ MayLand(r)' /\ ~Quiet' => MayLand(r) /\ ~Quiet
    BY <1>1, <1>2, <2>2 DEF Quiet
  <2>4. Value(r)' \in due'[r]
    BY <2>1
  <2>5. cs' = 1 /\ MayLand(r)' /\ ~Quiet' => job'.data \in due'[r]
    BY <2>1, <2>2, <2>3
  <2> QED
    BY <1>1, <2>1, <2>4, <2>5 DEF StoringIn
<1>4. CASE ~x
  <2>1. /\ Lands(r) => Value(r)' = job.data
        /\ ~Lands(r) => Value(r)' = Value(r)
        /\ Begun => ~reset' 
        /\ ~Begun => (reset' <=> reset)
        /\ due'[r] = IF Ended /\ MayLand(r)
                     THEN (IF cut' \/ reset THEN due[r] ELSE {}) \cup {job.data}
                     ELSE due[r]
    BY <1>4, ValueIs DEF Remember
  <2>2. CASE cs = 1 /\ cs' = 0
    <3>1. Begin /\ n >= 2 /\ CS = 1 /\ ~MayLand(r)' /\ due'[r] = due[r] /\ cs' # 1
      BY <2>1, <2>2, MovesAre, WidthAssumption
         DEF ControlInv, Stopping, MayLand, Ended
    <3>2. Lands(r) => job.data \in due[r]
      BY <1>1, <2>2 DEF StoringIn, Lands, Quiet
    <3>3. ~Lands(r) => Value(r) \in due[r]
      BY <1>1, <2>2, <3>1 DEF StoringIn, Lands, Landing, ControlInv, Stopping
    <3>4. Value(r)' \in due'[r]
      BY <2>1, <3>1, <3>2, <3>3
    <3> QED
      BY <3>1, <3>4 DEF StoringIn
  <2>3. CASE cs = 0 /\ cs' = 0
    <3>1. due'[r] = due[r] /\ job' = job /\ (MayLand(r) => MayLand(r)') /\ cs' # 1 /\ ~Begun
      BY <2>1, <2>3, MovesAre DEF Ended, Begun, MayLand
    <3>2. Value(r)' \in due'[r] \/ (MayLand(r)' /\ Value(r)' = job'.data)
      BY <1>1, <2>1, <2>3, <3>1 DEF StoringIn, Lands
    <3>3. clk' = 0 /\ n' >= 4 /\ MayLand(r)' /\ ~reset' => Value(r)' = job'.data
      <4> SUFFICES ASSUME clk' = 0, n' >= 4, MayLand(r)', ~reset'
                   PROVE  Value(r)' = job'.data
        OBVIOUS
      <4>1. clk = 0 /\ k' = k /\ n >= 3 /\ n \in 0..6 /\ MayLand(r) /\ k = 2 * W /\ ~reset
        BY <2>1, <2>3, <3>1, MovesAre DEF MayLand, TypeInv
      <4>2. CASE n >= 4
        BY <1>1, <2>1, <2>3, <3>1, <4>1, <4>2 DEF StoringIn
      <4>3. CASE n = 3
        <5>1. k > 0 /\ 2 * W # W
          BY <4>1, WidthAssumption
        <5>2. Low(k, n, CLK0, CLK, state, counter)
          BY <2>3, <4>1, <5>1 DEF ControlInv, Transferring
        <5>3. state = "End"
          BY <4>1, <4>3, <5>1, <5>2 DEF Low, LowState
        <5> QED
          BY <2>1, <3>1, <4>1, <5>3 DEF Lands
      <4> QED
        BY <4>1, <4>2, <4>3
    <3> QED
      BY <3>1, <3>2, <3>3 DEF StoringIn
  <2>4. CASE cs = 0 /\ cs' = 1
    <3>1. job' = job /\ k' = k /\ (MayLand(r)' <=> MayLand(r)) /\ cs' # 0 /\ Ended /\ ~Begun
      BY <2>4, MovesAre DEF Ended, Begun, MayLand
    <3>2. MayLand(r)' => job'.data \in due'[r]
      BY <2>1, <3>1
    <3>3. Value(r)' \in due'[r] \/ (MayLand(r)' /\ ~cut' /\ ~reset' /\ Landing')
      <4>1. CASE ~MayLand(r)
        BY <1>1, <2>1, <2>4, <3>1, <4>1 DEF StoringIn, Lands
      <4>2. CASE Lands(r)
        BY <2>1, <3>1, <4>2 DEF Lands
      <4>3. CASE MayLand(r) /\ ~Lands(r) /\ (cut' \/ reset)
        BY <1>1, <2>1, <2>4, <3>1, <4>3 DEF StoringIn
      <4>4. CASE MayLand(r) /\ ~Lands(r) /\ ~cut' /\ ~reset
        <5>1. ~cut /\ clk = 0 /\ k = 2 * W /\ k > 0 /\ n \in 0..6 /\ 2 * W # W /\ ~(2 * W <= W)
          BY <2>4, <4>4, MovesAre, WidthAssumption DEF TypeInv
        <5>2. CASE n >= 4
          BY <1>1, <2>1, <2>4, <3>1, <4>4, <5>1, <5>2 DEF StoringIn
        <5>3. CASE n <= 3
          <6>1. Low(k, n, CLK0, CLK, state, counter)
            BY <2>4, <5>1 DEF ControlInv, Transferring
          <6>2. state = "Data_11" \/ state = "End"
            BY <5>1, <5>3, <6>1 DEF Low, LowState, Taken
          <6>3. state = "Data_11"
            BY <4>4, <6>2 DEF Lands
          <6>4. Landing'
            BY <5>1, <6>3, LandingGoesOn
          <6> QED
            BY <2>1, <3>1, <4>4, <6>4
        <5> QED
          BY <5>1, <5>2, <5>3
      <4> QED
        BY <1>1, <4>1, <4>2, <4>3, <4>4
    <3> QED
      BY <3>1, <3>2, <3>3 DEF StoringIn
  <2>5. CASE cs = 1 /\ cs' = 1
    <3>1. /\ job' = job /\ k' = k /\ (MayLand(r)' <=> MayLand(r)) /\ cs' # 0 /\ ~Ended /\ ~Begun
          /\ cut' = cut /\ due'[r] = due[r]
      BY <2>1, <2>5, MovesAre DEF Ended, Begun, MayLand
    <3>2. MayLand(r)' /\ ~Quiet' => job'.data \in due'[r]
      BY <1>1, <1>2, <2>5, <3>1 DEF StoringIn
    <3>3. Value(r)' \in due'[r] \/ (MayLand(r)' /\ ~cut' /\ ~reset' /\ Landing')
      <4>1. CASE Lands(r)
        BY <1>1, <2>1, <2>5, <3>1, <4>1 DEF StoringIn, Lands, Quiet
      <4>2. CASE ~Lands(r) /\ Value(r) \in due[r]
        BY <2>1, <3>1, <4>2
      <4>3. CASE ~Lands(r) /\ MayLand(r) /\ ~cut /\ ~reset /\ Landing
        <5>1. state = "Data_11" /\ k = 2 * W /\ cs # 0
          BY <2>5, <4>3 DEF Lands, Landing, MayLand
        <5>2. Landing'
          BY <4>3, <5>1, LandingGoesOn
        <5> QED
          BY <2>1, <3>1, <4>3, <5>2
      <4> QED
        BY <1>1, <2>5, <4>1, <4>2, <4>3 DEF StoringIn
    <3> QED
      BY <3>1, <3>2, <3>3 DEF StoringIn
  <2> QED
    BY <1>1, <2>2, <2>3, <2>4, <2>5
<1> QED
  BY <1>3, <1>4

-----------------------------------------------------------------------------
(* What pulls Trigger                                                      *)

\* A byte of blue has been put, and the slave is past it.
BlueDone ==
  /\ MayLand(A_Blue) /\ ~cut /\ ~reset
  /\ cs = 0 => clk = 0 /\ n >= 4
  /\ cs = 1 => ~Landing

\* It has pulled Trigger then, and not before.
Pulsing ==
  /\ pixels \in 0..1
  /\ pixels = 1 => MayLand(A_Blue) /\ state \in {"Wait", "Addr", "Addr_00"}
  /\ BlueDone => pixels = 1
  /\ Trigger /\ ~reset => state = "Wait"

\* After the last bit the slave does not take the line for a new transfer.
LEMMA NotTaking ==
  ASSUME TypeInv, ControlInv, Ticked, k = 2 * W, state \in {"Wait", "Addr", "Addr_00"}
  PROVE  state' \in {"Wait", "Addr", "Addr_00"}
<1>1. /\ cs \in {0, 1} /\ clk \in {0, 1} /\ CS0 \in {0, 1} /\ CLK0 \in {0, 1}
      /\ CS \in {0, 1} /\ CLK \in {0, 1} /\ n \in 0..6
      /\ k > 0 /\ k # 0 /\ ~(k <= W) /\ k # W /\ k \in 1..2 * W
  BY WidthAssumption DEF TypeInv
<1>2. ASSUME NEW m \in 0..6, Low(k, m, CLK0, CLK, state, counter)
      PROVE  CLK = 1 => state # "Addr_00"
  BY <1>1, <1>2 DEF Low, LowState, Taken
<1>3. CS = 0 /\ CLK = 1 => state # "Addr_00"
  <2>1. CASE cs = 0 /\ clk = 0
    BY <1>1, <1>2, <2>1 DEF ControlInv, Transferring
  <2>2. CASE cs = 0 /\ clk = 1
    BY <1>1, <2>2 DEF ControlInv, Transferring, High, Awaiting, Taking, Taken
  <2>3. CASE cs = 1 /\ CS = 0 /\ StoppedHigh
    BY <1>1, <2>3 DEF ControlInv, Stopping, HighSince, Awaiting, Taking, Taken
  <2>4. CASE cs = 1 /\ CS = 0 /\ StoppedLow
    <3>1. PICK m \in 1..6 : Low(k, m, CLK0, CLK, state, counter)
      BY <2>4 DEF ControlInv, Stopping, LowSince
    <3> QED
      BY <1>2, <3>1
  <2>5. cs = 1 /\ CS = 0 => StoppedLow \/ StoppedHigh
    BY <1>1 DEF StoppedLow, StoppedHigh
  <2> QED
    BY <1>1, <2>1, <2>2, <2>3, <2>4, <2>5
<1> QED
  BY <1>1, <1>3 DEF Ticked, StateAfter

LEMMA PulsingStep ==
  ASSUME TypeInv, ControlInv, Holding, Pulsing, Ticked, Moves,
         NEW x \in BOOLEAN, Update(x), Remember(x)
  PROVE  Pulsing'
<1> DEFINE L == Lands(A_Blue)
<1>1. /\ x => Trigger' = Trigger
      /\ ~x => (Trigger' <=> L)
      /\ L => state = "End" /\ MayLand(A_Blue) /\ state' = "Wait"
      /\ Trigger \in BOOLEAN /\ Trigger' \in BOOLEAN
  <2>1. state = "End" => state' = "Wait"
    BY DEF Ticked, StateAfter
  <2>2. Trigger \in BOOLEAN /\ Trigger' \in BOOLEAN
    BY DEF TypeInv, Update
  <2> QED
    BY <2>1, <2>2, TriggerIs DEF Lands
<1>2. /\ cs \in {0, 1} /\ cs' \in {0, 1} /\ cut \in BOOLEAN /\ cut' \in BOOLEAN
      /\ reset \in BOOLEAN /\ reset' \in BOOLEAN
      /\ pixels \in 0..1 /\ (pixels = 1 => state # "End")
  BY MovesAre DEF TypeInv, Remember, Pulsing
<1>3. /\ Begun => pixels' = 0
      /\ ~Begun /\ Trigger' /\ ~Trigger => pixels' = pixels + 1
      /\ ~Begun /\ ~(Trigger' /\ ~Trigger) => pixels' = pixels
      /\ x => reset'
      /\ ~x /\ ~Begun => (reset' <=> reset)
  BY <1>2 DEF Remember
<1>4. Trigger' /\ ~Trigger => ~x /\ L /\ pixels = 0
  <2>1. Trigger' /\ ~Trigger => ~x /\ L
    BY <1>1, Zenon
  <2>2. L => pixels = 0
    BY <1>1, <1>2
  <2> QED
    BY <2>1, <2>2
<1>5. ~x /\ ~reset /\ L => Trigger' /\ ~Trigger
  BY <1>1 DEF Pulsing
<1> HIDE DEF L
<1>6. pixels' \in 0..1
  BY <1>2, <1>3, <1>4
<1>7. pixels' = 1 => MayLand(A_Blue)' /\ state' \in {"Wait", "Addr", "Addr_00"}
  <2> SUFFICES ASSUME pixels' = 1
               PROVE  MayLand(A_Blue)' /\ state' \in {"Wait", "Addr", "Addr_00"}
    OBVIOUS
  <2>1. ~Begun
    BY <1>3
  <2>2. MayLand(A_Blue) /\ state' \in {"Wait", "Addr", "Addr_00"}
    <3>1. CASE Trigger' /\ ~Trigger
      BY <1>1, <1>4, <3>1
    <3>2. CASE ~(Trigger' /\ ~Trigger)
      <4>1. MayLand(A_Blue) /\ state \in {"Wait", "Addr", "Addr_00"} /\ k = 2 * W
        BY <1>3, <2>1, <3>2 DEF Pulsing, MayLand
      <4> QED
        BY <4>1, NotTaking
    <3> QED
      BY <3>1, <3>2
  <2>3. job' = job /\ k' = k
    BY <1>2, <2>1, <2>2, MovesAre DEF Begun, MayLand
  <2> QED
    BY <2>2, <2>3 DEF MayLand
<1>8. BlueDone' => pixels' = 1
  <2> SUFFICES ASSUME BlueDone'
               PROVE  pixels' = 1
    OBVIOUS
  <2>1. MayLand(A_Blue)' /\ ~cut' /\ ~reset' /\ k' = 2 * W /\ k' # 0
    BY WidthAssumption DEF BlueDone, MayLand
  <2>2. ~Begun
    BY <1>2, <2>1, MovesAre DEF Begun
  <2>3. ~x /\ ~reset
    BY <1>2, <1>3, <2>1, <2>2
  <2>4. job' = job /\ k' = k /\ ~cut /\ (cs' = 0 => Hold /\ cs = 0 /\ clk = 0 /\ n >= 3)
    <3>1. cs' = 0 => clk' = 0 /\ n' >= 4
      BY DEF BlueDone
    <3> QED
      BY <1>2, <2>1, <2>2, <3>1, MovesAre DEF Begun
  <2>5. MayLand(A_Blue) /\ k = 2 * W /\ k > 0 /\ ~(2 * W <= W) /\ 2 * W # W /\ n \in 0..6
    BY <2>1, <2>4, WidthAssumption DEF MayLand, TypeInv
  <2>6. BlueDone \/ L
    <3>1. CASE cs = 0
      <4>1. clk = 0
        BY <1>2, <2>1, <2>4, <3>1, MovesAre
      <4>2. Low(k, n, CLK0, CLK, state, counter)
        BY <2>5, <3>1, <4>1 DEF ControlInv, Transferring
      <4>3. CASE n >= 4
        BY <2>3, <2>4, <2>5, <3>1, <4>1, <4>3 DEF BlueDone
      <4>4. CASE n = 3
        <5>1. state = "End"
          BY <2>5, <4>2, <4>4 DEF Low, LowState
        <5> QED
          BY <2>5, <5>1 DEF L, Lands
      <4>5. CASE n <= 2
        <5>1. state = "Data_11"
          BY <2>5, <4>2, <4>5 DEF Low, LowState, Taken
        <5>2. Landing' /\ cs' = 1
          BY <1>2, <2>4, <2>5, <4>1, <4>5, <5>1, LandingGoesOn
        <5> QED
          BY <5>2 DEF BlueDone
      <4> QED
        BY <2>5, <4>3, <4>4, <4>5
    <3>2. CASE cs = 1
      <4>1. cs' = 1 /\ cs # 0
        BY <1>2, <2>4, <3>2
      <4>2. CASE ~Landing
        BY <2>3, <2>4, <2>5, <4>1, <4>2 DEF BlueDone
      <4>3. CASE state = "End"
        BY <2>5, <4>3 DEF L, Lands
      <4>4. CASE state = "Data_11"
        <5>1. Landing'
          BY <2>4, <2>5, <4>1, <4>4, LandingGoesOn
        <5> QED
          BY <4>1, <5>1 DEF BlueDone
      <4> QED
        BY <4>2, <4>3, <4>4 DEF Landing
    <3> QED
      BY <1>2, <3>1, <3>2
  <2>7. CASE L
    BY <1>3, <1>4, <1>5, <2>2, <2>3, <2>7
  <2>8. CASE BlueDone
    <3>1. pixels = 1 /\ ~(pixels = 0)
      BY <2>8 DEF Pulsing
    <3> QED
      BY <1>3, <1>4, <2>2, <3>1
  <2> QED
    BY <2>6, <2>7, <2>8
<1>9. Trigger' /\ ~reset' => state' = "Wait"
  BY <1>1, <1>3
<1> QED
  BY <1>6, <1>7, <1>8, <1>9 DEF Pulsing

-----------------------------------------------------------------------------
(* What it sends back                                                      *)

\* The byte l may be what is read.
MayRead(l) == IF job.address = A_Status THEN l \in seen ELSE reset \/ l = Led70

\* The register to read has been taken into data.
Loaded == k > W \/ (k = W /\ clk = 0 /\ n >= 4)

\* The first bits of d are those of l but the first s.
Left(d, l, s) == \A i \in 1..W - s : d[i] = l[i + s]

Sends(l) == /\ Left(data, l, IF clk = 1 /\ n <= 3 THEN k - 1 - W ELSE k - W)
            /\ Suffix(got, l, k - W)

\* A read sends back one value of its register, and leaves it in got.
Reading ==
  /\ Status \in seen
  /\ cs = 0 /\ Loaded /\ ~job.write => \E l \in Byte : MayRead(l) /\ Sends(l)
  /\ cs = 1 /\ k = 2 * W /\ ~cut /\ ~job.write => MayRead(got)

LEMMA LeftShifted ==
  ASSUME NEW d, NEW l, NEW s \in 0..W - 1, NEW bit, Left(d, l, s)
  PROVE  Left(Shift(d, bit), l, s + 1)
<1> SUFFICES ASSUME NEW i \in 1..W - (s + 1)
             PROVE  Shift(d, bit)[i] = l[i + (s + 1)]
  BY DEF Left
<1>1. i \in 1..W /\ i < W /\ i + 1 \in 1..W - s /\ i + 1 + s = i + (s + 1)
  BY WidthAssumption
<1>2. Shift(d, bit)[i] = d[i + 1]
  BY <1>1 DEF Shift
<1> QED
  BY <1>1, <1>2 DEF Left

LEMMA MayReadOn ==
  ASSUME TypeInv, ControlInv, Holding, NEW x \in BOOLEAN, Update(x), Remember(x), ~Begun,
         job' = job, ~job.write, NEW l, MayRead(l)
  PROVE  MayRead(l)'
<1>1. seen \subseteq seen'
  BY DEF Remember
<1>2. ~Lands(A_Led70)
  BY DEF Lands, MayLand
<1>3. ~x => Led70' = Led70
  BY <1>2, ValueIs, RegistersAre DEF Value
<1>4. /\ x => reset'
      /\ reset => reset'
  BY DEF Remember
<1> QED
  BY <1>1, <1>3, <1>4 DEF MayRead

\* The register is taken as a whole, in the tick after the address.
LEMMA Loads ==
  ASSUME TypeInv, ControlInv, Holding, ShiftIn, NEW x \in BOOLEAN, Update(x), Remember(x),
         Reading, ~Begun, job' = job, ~job.write, cs = 0, clk = 0, k = W, n = 3
  PROVE  data' \in Byte /\ MayRead(data)'
<1>1. W > 0 /\ W # 0 /\ W # 2 * W /\ W < 2 * W /\ W <= 2 * W /\ n \in 0..6
  BY WidthAssumption
<1>2. Low(k, n, CLK0, CLK, state, counter) /\ Holds(k, job, address, data)
  BY <1>1 DEF ControlInv, Transferring, Holding
<1>3. state = "Data" /\ address = Sent(job)
  <2>1. LowState(W, 3) = "Data"
    BY DEF LowState
  <2>2. state = LowState(W, 3)
    BY <1>2 DEF Low
  <2>3. k >= W
    BY WidthAssumption
  <2> QED
    BY <1>2, <2>1, <2>2, <2>3 DEF Holds
<1>4. Register = job.address
  <2>1. /\ job.address \in Byte /\ job.address[1] = 0 /\ 1 \in 1..W
    BY JobType, WidthAssumption DEF TypeInv
  <2>2. address = [job.address EXCEPT ![1] = 0]
    BY <1>3 DEF Sent
  <2>3. address = job.address
    BY <2>1, <2>2 DEF Byte
  <2>4. Register = address
    BY <2>1, <2>3 DEF Register, Byte
  <2> QED
    BY <2>3, <2>4
<1>5. data' \in Byte
  BY DataIs
<1>6. CASE job.address = A_Status
  <2>1. data' = Status
    BY <1>3, <1>4, <1>6, DataIs
  <2> QED
    BY <1>5, <1>6, <2>1 DEF MayRead, Reading, Remember
<1>7. CASE job.address # A_Status
  <2>1. job.address = A_Led70
    BY <1>7, JobType DEF TypeInv
  <2>2. data' = Led70
    BY <1>3, <1>4, <2>1, DataIs
  <2>3. MayRead(Led70)
    BY <1>7 DEF MayRead
  <2>4. ~Lands(A_Led70)
    BY DEF Lands, MayLand
  <2>5. /\ ~x => Led70' = Led70
        /\ x => reset'
    BY <2>4, ValueIs, RegistersAre DEF Value, Remember
  <2> QED
    BY <1>5, <1>7, <2>2, <2>5 DEF MayRead
<1> QED
  BY <1>6, <1>7

\* In the second byte a bit leaves the slave as one is taken.
LEMMA LeftHigh ==
  ASSUME TypeInv, ShiftIn, NEW b \in W + 1..2 * W, NEW m \in 0..6, NEW l,
         High(b, m, CLK0, CLK, state, counter),
         Left(data, l, IF m <= 3 THEN b - 1 - W ELSE b - W)
  PROVE  Left(data', l, IF m <= 2 THEN b - 1 - W ELSE b - W)
<1>1. ~(b <= W)
  BY WidthAssumption
<1>2. CASE m <= 2
  <2>1. data' = data /\ m <= 3
    BY <1>1, <1>2, DataIs DEF High, Awaiting
  <2> QED
    BY <1>2, <2>1
<1>3. CASE m = 3
  <2>1. data' = Shift(data, sdi) /\ m <= 3 /\ ~(m <= 2)
    BY <1>1, <1>3, DataIs DEF High, Taking
  <2>2. b - 1 - W \in 0..W - 1 /\ b - 1 - W + 1 = b - W
    BY WidthAssumption
  <2>3. Left(Shift(data, sdi), l, b - W)
    BY <2>1, <2>2, LeftShifted
  <2> QED
    BY <2>1, <2>3
<1>4. CASE m >= 4
  <2>1. data' = data /\ ~(m <= 3) /\ ~(m <= 2)
    BY <1>1, <1>4, DataIs DEF High, Taken
  <2> QED
    BY <2>1
<1> QED
  BY <1>2, <1>3, <1>4

LEMMA LowKeeps ==
  ASSUME TypeInv, ShiftIn, NEW b \in 1..2 * W, NEW m \in 0..6,
         Low(b, m, CLK0, CLK, state, counter), b = W => m # 3
  PROVE  data' = data
<1>1. state \notin {"Data", "Data_01"}
  BY DEF Low, LowState, Taken, Awaiting
<1> QED
  BY <1>1, DataIs

LEMMA ReadingStep ==
  ASSUME TypeInv, ControlInv, Holding, Reading, Ticked, ShiftIn, Moves, TypeInv',
         NEW x \in BOOLEAN, Update(x), Remember(x)
  PROVE  Reading'
<1>1. /\ cs \in {0, 1} /\ cs' \in {0, 1} /\ clk \in {0, 1} /\ clk' \in {0, 1}
      /\ k \in 0..2 * W /\ n \in 0..6 /\ k' \in 0..2 * W /\ W \in Nat /\ W > 1
      /\ cut \in BOOLEAN /\ cut' \in BOOLEAN /\ got \in Byte /\ data \in Byte
  BY MovesAre, WidthAssumption DEF TypeInv
<1>2. Status' \in seen'
  BY DEF Remember
<1>3. cs' = 1 /\ k' = 2 * W /\ ~cut' /\ ~job'.write => MayRead(got)'
  <2> SUFFICES ASSUME cs' = 1, k' = 2 * W, ~cut', ~job'.write
               PROVE  MayRead(got)'
    OBVIOUS
  <2>1. job' = job /\ k' = k /\ ~Begun /\ ~job.write /\ k = 2 * W /\ ~cut
    BY <1>1, MovesAre DEF Begun
  <2>2. got' = got
    BY <1>1, <2>1 DEF Moves, Begin, Rise, Fall, End, Restart, Rest, Hold
  <2>3. MayRead(got)
    <3>1. CASE cs = 1
      BY <2>1, <3>1 DEF Reading
    <3>2. CASE cs = 0
      <4>1. Loaded
        BY <1>1, <2>1 DEF Loaded
      <4>2. PICK l \in Byte : MayRead(l) /\ Sends(l)
        BY <2>1, <3>2, <4>1 DEF Reading
      <4>3. Suffix(got, l, W)
        <5>1. k - W = W
          BY <1>1, <2>1
        <5> QED
          BY <4>2, <5>1 DEF Sends
      <4>4. got = l
        BY <1>1, <4>2, <4>3, SuffixIsAll
      <4> QED
        BY <4>2, <4>4
    <3> QED
      BY <1>1, <3>1, <3>2
  <2>4. PICK l : l = got
    OBVIOUS
  <2>5. MayRead(l)'
    BY <2>1, <2>3, <2>4, MayReadOn
  <2> QED
    BY <2>2, <2>4, <2>5 DEF MayRead
<1>4. cs' = 0 /\ Loaded' /\ ~job'.write => \E l \in Byte : MayRead(l)' /\ Sends(l)'
  <2> SUFFICES ASSUME cs' = 0, Loaded', ~job'.write
               PROVE  \E l \in Byte : MayRead(l)' /\ Sends(l)'
    OBVIOUS
  <2>1. cs = 0 /\ job' = job /\ ~Begun /\ ~job.write
    <3>1. k' # 0
      BY <1>1 DEF Loaded
    <3> QED
      BY <1>1, <3>1, MovesAre DEF Begun
  <2>2. ASSUME NEW l \in Byte, MayRead(l)
        PROVE  MayRead(l)'
    BY <2>1, <2>2, MayReadOn
  <2>3. CASE Loaded
    <3>1. PICK l \in Byte : MayRead(l) /\ Sends(l)
      BY <2>1, <2>3 DEF Reading
    <3>2. MayRead(l)'
      BY <2>2, <3>1
    <3>3. k \in W..2 * W /\ k > 0 /\ k # 0 /\ k \in 1..2 * W
      BY <1>1, <2>3 DEF Loaded
    <3>4. CASE Rise
      <4>1. clk = 0 /\ k \in W..2 * W - 1 /\ k' = k + 1 /\ clk' = 1 /\ n' <= 3
            /\ got' = Shift(got, data[1])
        BY <1>1, <3>3, <3>4 DEF Rise
      <4>2. /\ k' - 1 - W = k - W /\ k' - W = (k - W) + 1 /\ k - W \in 0..W - 1
            /\ 1 \in 1..W - (k - W) /\ (k - W) + 1 = 1 + (k - W)
        BY <1>1, <4>1
      <4>3. Left(data, l, k - W) /\ Suffix(got, l, k - W)
        BY <3>1, <4>1 DEF Sends
      <4>4. data' = data
        <5>1. Low(k, n, CLK0, CLK, state, counter)
          BY <2>1, <3>3, <4>1 DEF ControlInv, Transferring
        <5>2. k = W => n # 3
          BY <1>1, <2>3, <4>1 DEF Loaded
        <5> QED
          BY <1>1, <3>3, <5>1, <5>2, LowKeeps
      <4>5. data[1] = l[(k - W) + 1]
        BY <4>2, <4>3 DEF Left
      <4>6. Suffix(got', l, (k - W) + 1)
        BY <4>1, <4>2, <4>3, <4>5, SuffixOneMore
      <4>7. Sends(l)'
        BY <4>1, <4>2, <4>3, <4>4, <4>6 DEF Sends
      <4> QED
        BY <3>2, <4>7
    <3>5. CASE ~Rise
      <4>1. k' = k /\ got' = got
            /\ \/ clk = 1 /\ clk' = 0 /\ n >= 3
               \/ clk' = clk /\ n' = Later(n)
        <5>1. CASE Fall
          BY <1>1, <5>1 DEF Fall, Long, HalfPeriod
        <5>2. CASE Hold
          BY <5>2 DEF Hold, line, HalfPeriod, Later
        <5> QED
          BY <2>1, <3>5, <5>1, <5>2 DEF Moves, Begin, Idle, End, Restart, Rest
      <4>2. Suffix(got, l, k - W) /\ Left(data, l, IF clk = 1 /\ n <= 3 THEN k - 1 - W ELSE k - W)
        BY <3>1 DEF Sends
      <4>3. CASE clk = 1
        <5>1. k \in W + 1..2 * W
          BY <1>1, <2>3, <3>3, <4>3 DEF Loaded
        <5>2. High(k, n, CLK0, CLK, state, counter)
          BY <2>1, <3>3, <4>3 DEF ControlInv, Transferring
        <5>3. Left(data, l, IF n <= 3 THEN k - 1 - W ELSE k - W)
          BY <4>2, <4>3
        <5>4. Left(data', l, IF n <= 2 THEN k - 1 - W ELSE k - W)
          BY <1>1, <5>1, <5>2, <5>3, LeftHigh
        <5>5. n <= 2 <=> clk' = 1 /\ n' <= 3
          BY <1>1, <4>1, <4>3 DEF Later
        <5>6. Sends(l)'
          BY <4>1, <4>2, <5>4, <5>5 DEF Sends
        <5> QED
          BY <3>2, <5>6
      <4>4. CASE clk = 0
        <5>1. Low(k, n, CLK0, CLK, state, counter)
          BY <2>1, <3>3, <4>4 DEF ControlInv, Transferring
        <5>2. k = W => n # 3
          BY <1>1, <2>3, <4>4 DEF Loaded
        <5>3. data' = data /\ clk' = 0
          BY <1>1, <3>3, <4>1, <4>4, <5>1, <5>2, LowKeeps
        <5>4. Sends(l)'
          BY <4>1, <4>2, <4>4, <5>3 DEF Sends
        <5> QED
          BY <3>2, <5>4
      <4> QED
        BY <1>1, <4>3, <4>4
    <3> QED
      BY <3>4, <3>5
  <2>4. CASE ~Loaded
    <3>1. clk = 0 /\ k = W /\ n = 3 /\ k' = W /\ clk' = 0
      <4>1. CASE Rise
        <5>1. clk = 0 /\ k' = k + 1 /\ (k = W => n >= 5) /\ clk' = 1
          BY <4>1 DEF Rise, Long, HalfPeriod
        <5> QED
          BY <1>1, <2>4, <5>1 DEF Loaded
      <4>2. CASE Fall
        <5>1. k' = k /\ n' = 0
          BY <4>2 DEF Fall
        <5> QED
          BY <1>1, <2>4, <5>1 DEF Loaded
      <4>3. CASE Hold
        <5>1. k' = k /\ clk' = clk /\ n' = Later(n)
          BY <4>3 DEF Hold, line, HalfPeriod, Later
        <5>2. ~(k > W) /\ k = W /\ clk = 0 /\ n' >= 4 /\ ~(n >= 4)
          BY <1>1, <2>4, <5>1 DEF Loaded
        <5>3. n = 3
          BY <1>1, <5>1, <5>2 DEF Later
        <5> QED
          BY <5>1, <5>2, <5>3
      <4> QED
        BY <1>1, <2>1, <4>1, <4>2, <4>3 DEF Moves, Begin, Idle, End, Restart, Rest
    <3>2. data' \in Byte /\ MayRead(data)'
      BY <2>1, <3>1, Loads
    <3>3. PICK l \in Byte : l = data'
      BY <3>2
    <3>4. MayRead(l)'
      BY <3>2, <3>3 DEF MayRead
    <3>5. Sends(l)'
      <4>1. k' - W = 0
        BY <1>1, <3>1
      <4>2. Left(data', l, 0) /\ Suffix(got', l, 0)
        BY <1>1, <3>3 DEF Left, Suffix
      <4> QED
        BY <3>1, <4>1, <4>2 DEF Sends
    <3> QED
      BY <3>4, <3>5
  <2> QED
    BY <2>3, <2>4
<1> QED
  BY <1>2, <1>3, <1>4 DEF Reading

-----------------------------------------------------------------------------
(* The theorems                                                            *)

SlaveInv == TypeInv /\ ControlInv /\ Holding /\ Reading /\ Storing /\ Pulsing

LEMMA SlaveStarts == SlaveInit => SlaveInv
<1> SUFFICES ASSUME SlaveInit
             PROVE  SlaveInv
  OBVIOUS
<1>1. /\ cs = 1 /\ cs # 0 /\ k = 0 /\ k # 2 * W /\ 0 \in 0..2 * W /\ 0 \in 0..W - 1
      /\ state = "Wait" /\ pixels = 0 /\ ~Trigger
  BY WidthAssumption DEF SlaveInit
<1>2. Zero \in Byte
  BY DEF Zero, Byte
<1>3. cut \in BOOLEAN /\ reset \in BOOLEAN /\ Trigger \in BOOLEAN
  BY DEF SlaveInit
<1>4. TypeInv
  BY <1>1, <1>2, <1>3 DEF SlaveInit, TypeInv, SlaveStates
<1>5. Holding
  BY <1>1 DEF SlaveInit, Holding, StoppedLow
<1>6. Reading
  BY <1>1 DEF SlaveInit, Reading
<1>7. Storing
  BY <1>1 DEF SlaveInit, Storing, StoringIn, Value, MayLand
<1>8. Pulsing
  BY <1>1 DEF Pulsing, BlueDone, MayLand
<1> QED
  BY <1>4, <1>5, <1>6, <1>7, <1>8, ControlInit DEF SlaveInv

\* One step, as the tick of the slave with a move of the PIC32.
LEMMA StepIs ==
  ASSUME TypeInv, SlaveNext
  PROVE  \E x \in {FALSE, Resets} : Tick(x) /\ Moves /\ Remember(x)
BY DEF SlaveNext, Step, Moves

LEMMA SlaveNextInv ==
  ASSUME SlaveInv, SlaveNext
  PROVE  SlaveInv'
<1>1. PICK x \in {FALSE, Resets} : Tick(x) /\ Moves /\ Remember(x)
  BY StepIs DEF SlaveInv
<1>2. x \in BOOLEAN
  BY WidthAssumption
<1>3. Ticked /\ ShiftIn /\ Update(x)
  BY <1>1, TickIs DEF Ticked, Tick, SlaveInv
<1>4. TypeInv'
  BY <1>1, TypeStep DEF SlaveInv
<1>5. ControlInv'
  BY <1>1, <1>3, ControlStep DEF SlaveInv
<1>6. Holding'
  BY <1>1, <1>3, <1>4, HoldingStep DEF SlaveInv
<1>7. Reading'
  BY <1>1, <1>2, <1>3, <1>4, ReadingStep DEF SlaveInv
<1>8. Storing'
  BY <1>1, <1>2, <1>3, StoringStep DEF SlaveInv
<1>9. Pulsing'
  BY <1>1, <1>2, <1>3, PulsingStep DEF SlaveInv
<1> QED
  BY <1>4, <1>5, <1>6, <1>7, <1>8, <1>9 DEF SlaveInv

LEMMA SlaveStuttersInv ==
  ASSUME SlaveInv, UNCHANGED slaveVars
  PROVE  SlaveInv'
<1> USE DEF slaveVars, line, pic, sync, slave, regs
<1>1. TypeInv' /\ ControlInv'
  BY DEF SlaveInv, TypeInv, ControlInv, Transferring, Stopping, StoppedLow, StoppedHigh,
         Starting, High, Low, LowSince, HighSince
<1>2. Holding'
  BY DEF SlaveInv, Holding, Holds, StoppedLow, BitIn
<1>3. Reading'
  BY DEF SlaveInv, Reading, MayRead, Loaded, Sends, Left, Suffix
<1>4. Storing'
  BY DEF SlaveInv, Storing, StoringIn, Value, MayLand, Quiet, Landing
<1>5. Pulsing'
  BY DEF SlaveInv, Pulsing, BlueDone, MayLand, Landing
<1> QED
  BY <1>1, <1>2, <1>3, <1>4, <1>5 DEF SlaveInv

\* The invariant holds for every width of a byte, with resets of the FPGA and
\* restarts of the PIC32 anywhere, and every drift of the two clocks that Long
\* and Hold allow.
THEOREM SlaveInvariant == SlaveSpec => []SlaveInv
<1>1. SlaveInv /\ [SlaveNext]_slaveVars => SlaveInv'
  BY SlaveNextInv, SlaveStuttersInv
<1> QED
  BY SlaveStarts, <1>1, PTL DEF SlaveSpec

\* Between two transfers each register holds the byte of the last whole write to
\* it, or may, if that write was cut short or met a reset (MySPI.sv:96, :127-139).
THEOREM WritesOnceWhole == SlaveSpec => []WritesArrive
<1>1. SlaveInv => WritesArrive
  <2> SUFFICES ASSUME SlaveInv, Quiet
               PROVE  Led70 \in due[A_Led70] /\ Blue \in due[A_Blue]
    BY DEF WritesArrive
  <2>1. ASSUME NEW r \in Registers
        PROVE  Value(r) \in due[r]
    BY DEF SlaveInv, Storing, StoringIn, Quiet, Landing
  <2> QED
    BY <2>1, RegistersAre
<1> QED
  BY SlaveInvariant, <1>1, PTL

\* A byte of blue pulls Trigger exactly once, and nothing else pulls it
\* (MySPI.sv:135).
THEOREM OnePixelPerByte == SlaveSpec => []OnePixel
<1>1. SlaveInv => OnePixel
  <2> SUFFICES ASSUME SlaveInv
               PROVE  OnePixel
    OBVIOUS
  <2>1. pixels \in 0..1 /\ (pixels = 1 => MayLand(A_Blue)) /\ (BlueDone => pixels = 1)
    BY DEF SlaveInv, Pulsing
  <2>2. Quiet /\ MayLand(A_Blue) /\ ~cut /\ ~reset => BlueDone
    BY DEF Quiet, BlueDone, Landing
  <2> QED
    BY <2>1, <2>2 DEF OnePixel
<1> QED
  BY SlaveInvariant, <1>1, PTL

\* A read that was neither cut short nor met a reset returns a value the register
\* had during the read, never a mixture of two (MySPI.sv:117).
THEOREM ReadsAreWhole == SlaveSpec => []WholeReads
<1>1. SlaveInv => WholeReads
  BY DEF SlaveInv, Reading, MayRead, WholeReads, Quiet
<1> QED
  BY SlaveInvariant, <1>1, PTL

\* What a step does to the registers, reset or not.
LEMMA OnlyWholeBytes ==
  ASSUME SlaveInv, SlaveNext
  PROVE  /\ Led70' \in {Zero, Led70} \/ (MayLand(A_Led70) /\ Led70' = job.data)
         /\ Blue' \in {Zero, Blue} \/ (MayLand(A_Blue) /\ Blue' = job.data)
<1>1. PICK x \in {FALSE, Resets} : Tick(x)
  BY StepIs DEF SlaveInv
<1>2. x \in BOOLEAN /\ Update(x)
  BY <1>1, WidthAssumption DEF Tick
<1>3. ASSUME NEW r \in Registers
      PROVE  Value(r)' \in {Zero, Value(r)} \/ (MayLand(r) /\ Value(r)' = job.data)
  BY <1>2, ValueIs DEF SlaveInv, Lands
<1> QED
  BY <1>3, RegistersAre DEF Value

\* No step puts in a register anything but zero or a byte whose bits were all put
\* on the line for it (MySPI.sv:104).
THEOREM NothingIsHalf == SlaveSpec => NothingHalf
<1>1. ASSUME SlaveInv, [SlaveNext]_slaveVars
      PROVE  [ /\ Led70' \in {Zero, Led70} \/ (MayLand(A_Led70) /\ Led70' = job.data)
               /\ Blue' \in {Zero, Blue} \/ (MayLand(A_Blue) /\ Blue' = job.data) ]_slaveVars
  BY <1>1, OnlyWholeBytes
<1> QED
  BY SlaveInvariant, <1>1, PTL DEF SlaveSpec, NothingHalf
================================================================================
