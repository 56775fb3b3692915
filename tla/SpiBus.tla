------------------------------- MODULE SpiBus -------------------------------
(***************************************************************************)
(* The one SPI channel of the PIC32, its seven chips and the contexts that *)
(* talk to them: the main loop (level 0) and the interrupt handlers, each  *)
(* named by its priority.  Every driver brackets its bytes with the same   *)
(* moves (disable the interrupts, select the chip, ..., deselect, restore  *)
(* what the interrupts were), but each in a variant of its own:            *)
(*   - WiFi, temperature and SD card also change the configuration of the  *)
(*     channel, and keep the old one and the interrupt status in globals;  *)
(*   - temperature and SD card select their chip several times in between; *)
(*   - the SD card's driver leaves the configuration to the file system,   *)
(*     which sets it when it initialises the card: an image is read in     *)
(*     several reservations, and only in the first of them it does so;     *)
(*   - the radio also masks its own interrupt, which it read beforehand.   *)
(* A handler runs to its end before the context it interrupted goes on.    *)
(***************************************************************************)
EXTENDS Naturals

CONSTANTS
    Levels,      \* the contexts: 0 is the main loop, the others the handlers
    Slaves,      \* the chips on the bus
    Uses,        \* which context talks to which chip: <<level, chip>>
    Early,       \* the chips the main loop talks to before it lets interrupts in
    OwnConfig,   \* the chips whose drivers change the configuration of the channel
    Sessions,    \* the ones selected again and again under one configuration
    Cards,       \* the ones configured when they are initialised, not at every turn
    Radio,       \* the radio chip and
    RadioLevel,  \* the level of its handler (INT3)
    Normal       \* the configuration MySPI_Init gives the channel

ASSUME LevelsAssumption == Levels \subseteq Nat /\ 0 \in Levels
ASSUME UsesAssumption == Uses \subseteq Levels \X Slaves
ASSUME SlavesAssumption ==
    /\ OwnConfig \subseteq Slaves
    /\ Sessions \subseteq OwnConfig
    /\ Cards \subseteq Sessions
    /\ Early \subseteq Slaves \ {Radio}
    /\ Radio \in Slaves \ OwnConfig
    /\ Normal \notin Slaves
ASSUME RadioLevelAssumption == RadioLevel \in Levels \ {0}

VARIABLES
    up,         \* the main loop has reached INTEnableInterrupts
    enabled,    \* the interrupts are enabled
    active,     \* the handlers that have begun and not ended
    at,         \* where each context is in an access
    chip,       \* the chip of that access
    intStatus,  \* the status each context keeps in a local variable
    tmpRFIE,    \* what it read of the radio's own interrupt enable
    saved,      \* the globals WF_..., TC72_..., MDDFS_...: status and SPICON
    config,     \* the configuration of the channel
    mounted,    \* the cards initialised, with a file that is still being read
    selected,   \* the chips whose select line is asserted
    RFIE        \* the radio's interrupt is enabled

vars == <<up, enabled, active, at, chip, intStatus, tmpRFIE, saved,
          config, mounted, selected, RFIE>>

Places == {"rest", "begin", "reserved", "selected", "released", "restored"}
Configs == {Normal} \cup OwnConfig

\* The context the processor is running: the highest handler, or the main loop.
Running(l) == /\ l \in active \cup {0}
              /\ \A m \in active : m <= l

Move(l, from, to) ==
    /\ Running(l)
    /\ at[l] = from
    /\ at' = [at EXCEPT ![l] = to]

Init ==
    /\ up = FALSE /\ enabled = FALSE /\ active = {}
    /\ at = [l \in Levels |-> "rest"]
    /\ chip = [l \in Levels |-> Radio]
    /\ intStatus = [l \in Levels |-> FALSE]
    /\ tmpRFIE = [l \in Levels |-> FALSE]
    /\ saved = [s \in OwnConfig |-> [status |-> FALSE, config |-> Normal]]
    /\ config = Normal
    /\ mounted = {}
    /\ selected = {}
    /\ RFIE = FALSE

-----------------------------------------------------------------------------
\* The end of the initialisations: MyMIWI_Init has enabled INT3, and main
\* lets the interrupts in.
EnableInterrupts ==
    /\ ~up /\ at[0] = "rest"
    /\ up' = TRUE /\ enabled' = TRUE /\ RFIE' = TRUE
    /\ UNCHANGED <<active, at, chip, intStatus, tmpRFIE, saved, config,
                   mounted, selected>>

Interrupt(l) ==
    /\ enabled
    /\ l > 0 /\ \A m \in active : m < l
    /\ l = RadioLevel => RFIE
    /\ active' = active \cup {l}
    /\ UNCHANGED <<up, enabled, at, chip, intStatus, tmpRFIE, saved, config,
                   mounted, selected, RFIE>>

Return(l) ==
    /\ Running(l) /\ l > 0 /\ at[l] = "rest"
    /\ active' = active \ {l}
    /\ UNCHANGED <<up, enabled, at, chip, intStatus, tmpRFIE, saved, config,
                   mounted, selected, RFIE>>

\* A driver is called; the radio's reads RFIE into a local first.
Call(l, s) ==
    /\ <<l, s>> \in Uses /\ (up \/ s \in Early)
    /\ Move(l, "rest", "begin")
    /\ chip' = [chip EXCEPT ![l] = s]
    /\ tmpRFIE' = IF s = Radio THEN [tmpRFIE EXCEPT ![l] = RFIE] ELSE tmpRFIE
    /\ UNCHANGED <<up, enabled, active, intStatus, saved, config, mounted,
                   selected, RFIE>>

\* Bug: the driver saves the status and leaves the interrupts on.
DisableNothing(l) ==
    /\ Move(l, "begin", "reserved")
    /\ IF chip[l] \in OwnConfig
       THEN /\ saved' = [saved EXCEPT ![chip[l]] =
                            [status |-> enabled, config |-> config]]
            /\ config' = IF chip[l] \in Cards THEN config ELSE chip[l]
            /\ UNCHANGED intStatus
       ELSE /\ intStatus' = [intStatus EXCEPT ![l] = enabled]
            /\ UNCHANGED <<saved, config>>
    /\ UNCHANGED <<up, enabled, active, chip, tmpRFIE, mounted, selected, RFIE>>

\* Bug: the status is read after the interrupts have been disabled.
DisableThenSave(l) ==
    /\ Move(l, "begin", "reserved")
    /\ enabled' = FALSE
    /\ IF chip[l] \in OwnConfig
       THEN /\ saved' = [saved EXCEPT ![chip[l]] =
                            [status |-> FALSE, config |-> config]]
            /\ config' = IF chip[l] \in Cards THEN config ELSE chip[l]
            /\ UNCHANGED intStatus
       ELSE /\ intStatus' = [intStatus EXCEPT ![l] = FALSE]
            /\ UNCHANGED <<saved, config>>
    /\ UNCHANGED <<up, active, chip, tmpRFIE, mounted, selected, RFIE>>

\* The status goes to a local or, with the configuration, to the globals of
\* the driver, which then configures the channel; the SD card's does not.
Disable(l) ==
    /\ Move(l, "begin", "reserved")
    /\ enabled' = FALSE
    /\ IF chip[l] \in OwnConfig
       THEN /\ saved' = [saved EXCEPT ![chip[l]] =
                            [status |-> enabled, config |-> config]]
            /\ config' = IF chip[l] \in Cards THEN config ELSE chip[l]
            /\ UNCHANGED intStatus
       ELSE /\ intStatus' = [intStatus EXCEPT ![l] = enabled]
            /\ UNCHANGED <<saved, config>>
    /\ UNCHANGED <<up, active, chip, tmpRFIE, mounted, selected, RFIE>>

\* FSInit: the file system configures the channel and initialises the card.
Mount(l) ==
    /\ Running(l) /\ at[l] = "reserved"
    /\ chip[l] \in Cards \ mounted
    /\ config' = chip[l]
    /\ mounted' = mounted \cup {chip[l]}
    /\ UNCHANGED <<up, enabled, active, at, chip, intStatus, tmpRFIE, saved,
                   selected, RFIE>>

Select(l) ==
    /\ Move(l, "reserved", "selected")
    /\ chip[l] \notin Cards \ mounted
    /\ selected' = selected \cup {chip[l]}
    /\ RFIE' = (RFIE /\ chip[l] # Radio)
    /\ UNCHANGED <<up, enabled, active, chip, intStatus, tmpRFIE, saved, config,
                   mounted>>

\* Bug: the radio's own interrupt stays masked.
DeselectAndStayMasked(l) ==
    /\ Move(l, "selected", "released")
    /\ selected' = selected \ {chip[l]}
    /\ UNCHANGED <<up, enabled, active, chip, intStatus, tmpRFIE, saved, config,
                   mounted, RFIE>>

Deselect(l) ==
    /\ Move(l, "selected", "released")
    /\ selected' = selected \ {chip[l]}
    /\ RFIE' = IF chip[l] = Radio THEN tmpRFIE[l] ELSE RFIE
    /\ UNCHANGED <<up, enabled, active, chip, intStatus, tmpRFIE, saved, config,
                   mounted>>

\* The next register of MyTemperature_Debug, the next sector of a file.
Again(l) ==
    /\ chip[l] \in Sessions
    /\ Move(l, "released", "reserved")
    /\ UNCHANGED <<up, enabled, active, chip, intStatus, tmpRFIE, saved, config,
                   mounted, selected, RFIE>>

\* The channel is given its configuration back, where it was changed; also when
\* there is no card.
Reconfigure(l) ==
    /\ \/ Move(l, "released", "restored")
       \/ chip[l] \in Cards \ mounted /\ Move(l, "reserved", "restored")
    /\ config' = IF chip[l] \in OwnConfig THEN saved[chip[l]].config ELSE config
    /\ UNCHANGED <<up, enabled, active, chip, intStatus, tmpRFIE, saved,
                   mounted, selected, RFIE>>

\* The file on a card has more to read, later, or the reading is over.  The
\* locals of the access are gone.
Restore(l) ==
    /\ Move(l, "restored", "rest")
    /\ mounted' \in {mounted, mounted \ ({chip[l]} \cap Cards)}
    /\ enabled' = IF chip[l] \in OwnConfig THEN saved[chip[l]].status
                  ELSE intStatus[l]
    /\ chip' = [chip EXCEPT ![l] = Radio]
    /\ intStatus' = [intStatus EXCEPT ![l] = FALSE]
    /\ tmpRFIE' = [tmpRFIE EXCEPT ![l] = FALSE]
    /\ UNCHANGED <<up, active, saved, config, selected, RFIE>>

Access(l) ==
    \/ Disable(l) \/ Mount(l) \/ Select(l) \/ Deselect(l) \/ Again(l)
    \/ Reconfigure(l) \/ Restore(l)

Next ==
    \/ EnableInterrupts
    \/ \E l \in Levels : Interrupt(l) \/ Return(l) \/ Access(l)
    \/ \E l \in Levels, s \in Slaves : Call(l, s)

Spec == Init /\ [][Next]_vars

\* The running context goes on; the accesses that main makes before it lets
\* the interrupts in, a handler's body and every loop over registers or sectors
\* are finite.
Fairness ==
    /\ SF_vars(EnableInterrupts)
    /\ \A l \in Levels :
        /\ WF_vars(Access(l))
        /\ SF_vars(Reconfigure(l))
        /\ WF_vars(Return(l))

FairSpec == Spec /\ Fairness

-----------------------------------------------------------------------------
(* What is right about it.                                                 *)

TypeOK ==
    /\ up \in BOOLEAN /\ enabled \in BOOLEAN /\ RFIE \in BOOLEAN
    /\ active \subseteq Levels \ {0}
    /\ at \in [Levels -> Places]
    /\ chip \in [Levels -> Slaves]
    /\ intStatus \in [Levels -> BOOLEAN]
    /\ tmpRFIE \in [Levels -> BOOLEAN]
    /\ saved \in [OwnConfig -> [status : BOOLEAN, config : Configs]]
    /\ config \in Configs
    /\ mounted \subseteq Cards
    /\ selected \subseteq Slaves

\* The configurations a chip is talked to in.  A file of the SD card that is
\* opened again is read in the normal one: MyMDDFS.c:320-324 leave out FSInit.
ConfigsOf(s) ==
    (IF s \in OwnConfig THEN {s} ELSE {Normal}) \cup
    (IF s \in Cards THEN {Normal} ELSE {})

\* While bytes go over the bus, whatever handlers came and went before: the
\* context that sends them is the one that runs, its chip and no other hears
\* them, and the channel is configured as that chip's driver would have it, its
\* own way or, for the SD card's reopened file, the normal one, and never the way
\* of another chip.
BytesReachOneChip ==
    \A l \in Levels : at[l] = "selected" =>
        /\ Running(l)
        /\ selected = {chip[l]}
        /\ config \in ConfigsOf(chip[l])

\* When no context is inside an access the bus is as main left it: the
\* interrupts enabled, the channel in its normal configuration, no chip
\* selected.  Above all the radio is not deaf: its interrupt, which every
\* access to it masks and gives back, is enabled.
AtRest ==
    (\A l \in Levels : at[l] \in {"rest", "begin"}) =>
        /\ enabled = up /\ RFIE = up
        /\ config = Normal
        /\ selected = {}

\* The status that a driver keeps in globals is not overwritten by an access of
\* another context to the same chip before it has been given back.
GlobalsKept ==
    [][\A l \in Levels :
         (at[l] \notin {"rest", "begin"} /\ chip[l] \in OwnConfig)
            => saved'[chip[l]] = saved[chip[l]]]_vars

\* Interrupts are never off for good.
InterruptsComeBack == []<>enabled
=============================================================================
