--------------------------- MODULE LT24TasksProofs ---------------------------
(***************************************************************************)
(* Whatever the delays: the flags MU_1 and MU_2, which the tasks trust     *)
(* instead of the mutex, never let a task play that does not own it.       *)
(***************************************************************************)
EXTENDS LT24Tasks, TLAPS

Places == {"pend", "mbox", "read", "mutex", "work", "shown", "release", "clear",
           "start", "idle", "poll", "after", "post", "wait", "paused"}

IInv == TypeOK /\ WorksAsOwner /\ FlagTellsOwner

\* What every step of one task does to the places of the tasks.
LEMMA StepMoves ==
    ASSUME TypeOK, NEW t \in Tasks, NEW from, NEW to, NEW d, Step(t, from, to, d)
    PROVE  /\ pc[t] = from
           /\ pc'[t] = to
           /\ \A u \in Tasks : u # t => pc'[u] = pc[u]
  BY DEF TypeOK, Step

\* A step to a place where nothing is asked of the owner, that touches neither
\* the mutex nor a flag, preserves the invariant.
LEMMA QuietStep ==
    ASSUME IInv, TypeOK', NEW t \in Tasks, NEW from, NEW to, NEW d,
           Step(t, from, to, d), UNCHANGED <<owner, MU>>,
           from # "clear",
           t \in Players => (to \in {"work", "shown", "release"} => owner = t)
    PROVE  IInv'
  <1>1. /\ pc[t] = from
        /\ pc'[t] = to
        /\ \A u \in Tasks : u # t => pc'[u] = pc[u]
    BY StepMoves DEF IInv
  <1>2. WorksAsOwner'
    BY <1>1 DEF IInv, WorksAsOwner, Players, Tasks
  <1>3. FlagTellsOwner'
    BY <1>1 DEF IInv, FlagTellsOwner, Players, Tasks
  <1> QED BY <1>2, <1>3 DEF IInv

LEMMA InitIInv == Init => IInv
  <1> SUFFICES ASSUME Init PROVE IInv
    OBVIOUS
  <1>1. pc \in [Tasks -> Places]
    BY DEF Init, Places
  <1>2. delay \in [Tasks -> Nat] /\ MU \in [Players -> BOOLEAN]
    BY DEF Init
  <1>3. TypeOK
    BY <1>1, <1>2 DEF Init, TypeOK, Places
  <1>4. \A t \in Players : pc[t] = "pend" /\ ~MU[t]
    BY DEF Init, Players, Tasks
  <1> QED BY <1>3, <1>4 DEF IInv, WorksAsOwner, FlagTellsOwner

\* The types of the places and delays after a step.
LEMMA StepType ==
    ASSUME TypeOK, NEW t \in Tasks, NEW from, NEW to \in Places,
           NEW d \in Nat, Step(t, from, to, d)
    PROVE  /\ pc' \in [Tasks -> Places]
           /\ delay' \in [Tasks -> Nat]
  BY DEF TypeOK, Step, Places

\* A message changes the place of the task that waits for it, and asks nothing
\* of the owner.
LEMMA PostStep ==
    ASSUME IInv, NEW from, NEW to \in {"poll", "wait"}, NEW d \in Nat,
           OSMboxPost(from, to, d), UNCHANGED <<owner, send, touch, MU, buttons>>
    PROVE  IInv'
  <1>1. pc' \in [Tasks -> Places] /\ delay' \in [Tasks -> Nat] /\ mbox' \in BOOLEAN
    BY DEF IInv, TypeOK, OSMboxPost, Places, Tasks
  <1>2. TypeOK'
    BY <1>1 DEF IInv, TypeOK, Places, buttons
  <1>3. \A t \in Players : pc'[t] = pc[t] \/ (pc[t] = "mbox" /\ pc'[t] = "read")
    BY DEF OSMboxPost, Waiting, Players, Tasks
  <1>4. \A t \in Players : (MU[t] /\ pc[t] # "clear") => owner = t
    BY DEF IInv, FlagTellsOwner
  <1>5. WorksAsOwner' /\ FlagTellsOwner'
    BY <1>3, <1>4 DEF IInv, WorksAsOwner, FlagTellsOwner
  <1> QED BY <1>2, <1>5 DEF IInv

LEMMA TickStep == ASSUME IInv, Tick PROVE IInv'
  <1>1. delay' \in [Tasks -> Nat]
    BY DEF IInv, TypeOK, Tick
  <1>2. TypeOK'
    BY <1>1 DEF IInv, TypeOK, Tick, buttons
  <1>3. WorksAsOwner' /\ FlagTellsOwner'
    BY DEF IInv, WorksAsOwner, FlagTellsOwner, Tick, buttons
  <1> QED BY <1>2, <1>3 DEF IInv

LEMMA PlayerStep == ASSUME IInv, NEW t \in Players, Player(t) PROVE IInv'
  <1> USE DelaysAssumption
  <1>0. t \in Tasks
    BY DEF Players, Tasks
  <1>1. CASE OSMboxPend(t) \/ TimedOut(t)
    <2>1. TypeOK'
      BY <1>0, <1>1, StepType
      DEF Places, IInv, TypeOK, OSMboxPend, TimedOut, buttons
    <2> QED BY <1>0, <1>1, <2>1, QuietStep DEF OSMboxPend, TimedOut
  <1>2. CASE ReadMessage(t)
    <2> DEFINE to == IF send = 0 /\ MU[t] THEN "release"
                     ELSE IF ~MU[t] THEN "mutex" ELSE "work"
    <2>1. Step(t, "read", to, 0) /\ UNCHANGED <<owner, MU>>
      BY <1>2 DEF ReadMessage
    <2>2. to \in {"work", "shown", "release"} => owner = t
      BY <1>0, <2>1, StepMoves DEF IInv, FlagTellsOwner
    <2>3. TypeOK'
      BY <1>0, <1>2, StepType DEF Places, IInv, TypeOK, ReadMessage, buttons
    <2> HIDE DEF to
    <2> QED BY <1>0, <2>1, <2>2, <2>3, QuietStep
  <1>3. CASE Pend(t)
    <2>1. /\ pc[t] = "mutex"
          /\ pc'[t] = "work"
          /\ \A u \in Tasks : u # t => pc'[u] = pc[u]
      BY <1>0, <1>3, StepMoves DEF IInv, Pend
    <2>2. owner \in {Nobody, t} /\ owner' = t /\ MU' = MU
      BY <1>3, <2>1 DEF Pend, Step, Ready
    <2>3. TypeOK'
      BY <1>0, <1>3, StepType DEF Places, IInv, TypeOK, Pend, buttons, Players
    <2>4. \A u \in Players : u # t => owner # u
      BY <2>2 DEF Players, Nobody
    <2>5. WorksAsOwner' /\ FlagTellsOwner'
      BY <2>1, <2>2, <2>4 DEF IInv, WorksAsOwner, FlagTellsOwner, Players, Tasks
    <2> QED BY <2>3, <2>5 DEF IInv
  <1>4. CASE Release(t)
    <2>1. /\ pc[t] = "release"
          /\ pc'[t] = "clear"
          /\ \A u \in Tasks : u # t => pc'[u] = pc[u]
      BY <1>0, <1>4, StepMoves DEF IInv, Release
    <2>2. owner = t /\ MU' = MU
      BY <1>4, <2>1 DEF IInv, WorksAsOwner, Release
    <2>3. owner' \in Players \cup {Nobody}
      BY <1>4 DEF Release, OSMutexPost, Other, Players, Nobody, IInv, TypeOK
    <2>8. Step(t, "release", "clear", IF t = 2 THEN Long ELSE 0)
      BY <1>4 DEF Release
    <2>9. pc' \in [Tasks -> Places] /\ delay' \in [Tasks -> Nat]
      BY <1>0, <2>8, StepType DEF IInv, Places
    <2>4. TypeOK'
      BY <1>4, <2>2, <2>3, <2>9 DEF IInv, TypeOK, Release, buttons, Places
    <2>5. \A u \in Players : u # t =>
             /\ pc'[u] \notin {"work", "shown", "release"}
             /\ MU'[u] => pc'[u] = "clear"
      BY <2>1, <2>2 DEF IInv, WorksAsOwner, FlagTellsOwner, Players, Tasks
    <2>6. WorksAsOwner' /\ FlagTellsOwner'
      BY <2>1, <2>5 DEF WorksAsOwner, FlagTellsOwner
    <2> QED BY <2>4, <2>6 DEF IInv
  <1>5. CASE Clear(t)
    <2>1. /\ pc[t] = "clear"
          /\ pc'[t] = "pend"
          /\ \A u \in Tasks : u # t => pc'[u] = pc[u]
      BY <1>0, <1>5, StepMoves DEF IInv, Clear
    <2>2. owner' = owner /\ MU' = [MU EXCEPT ![t] = FALSE]
      BY <1>5 DEF Clear
    <2>3. TypeOK'
      BY <1>0, <1>5, StepType DEF Places, IInv, TypeOK, Clear, buttons
    <2>4. WorksAsOwner' /\ FlagTellsOwner'
      BY <2>1, <2>2 DEF IInv, TypeOK, WorksAsOwner, FlagTellsOwner, Players, Tasks
    <2> QED BY <2>3, <2>4 DEF IInv
  <1> QED BY <1>1, <1>2, <1>3, <1>4, <1>5 DEF Player

\* A task that works sets its flag while it owns the mutex.
LEMMA WorkStep ==
    ASSUME IInv, TypeOK', NEW t \in Players, NEW to, NEW d,
           Step(t, "work", to, d), to \in {"pend", "shown"},
           MU' = [MU EXCEPT ![t] = TRUE], owner' = owner
    PROVE  IInv'
  <1>1. /\ pc[t] = "work"
        /\ pc'[t] = to
        /\ \A u \in Tasks : u # t => pc'[u] = pc[u]
    BY StepMoves DEF IInv, Players, Tasks
  <1>2. owner = t
    BY <1>1 DEF IInv, WorksAsOwner
  <1>3. WorksAsOwner' /\ FlagTellsOwner'
    BY <1>1, <1>2 DEF IInv, TypeOK, WorksAsOwner, FlagTellsOwner, Players, Tasks
  <1> QED BY <1>3 DEF IInv

LEMMA WorksStep == ASSUME IInv, WorkTouch \/ WorkTilt PROVE IInv'
  <1> USE DelaysAssumption
  <1>0. 1 \in Players /\ 2 \in Players /\ 1 \in Tasks /\ 2 \in Tasks
    BY DEF Players, Tasks
  <1>1. CASE WorkTouch
    <2>1. PICK d \in (IF touch THEN {0, Blink} ELSE {0}) :
             Step(1, "work", IF d = 0 THEN "pend" ELSE "shown", d)
      BY <1>1 DEF WorkTouch
    <2>2. d \in Nat
      OBVIOUS
    <2>3. TypeOK'
      BY <1>0, <1>1, <2>1, <2>2, StepType
      DEF Places, IInv, TypeOK, WorkTouch, buttons
    <2> QED BY <1>0, <1>1, <2>1, <2>3, WorkStep DEF WorkTouch
  <1>2. CASE WorkTilt
    <2>1. TypeOK'
      BY <1>0, <1>2, StepType DEF Places, IInv, TypeOK, WorkTilt, buttons
    <2> QED BY <1>0, <1>2, <2>1, WorkStep DEF WorkTilt
  <1> QED BY <1>1, <1>2

\* The steps that clear or set only what the mutex does not depend on.
LEMMA OtherSteps == ASSUME IInv, Unlight \/ StopIdling \/ Task3 PROVE IInv'
  <1> USE DelaysAssumption
  <1>0. 1 \in Tasks /\ 2 \in Tasks /\ 3 \in Tasks /\ 3 \notin Players
    BY DEF Players, Tasks
  <1>1. CASE Unlight \/ StopIdling
    <2>1. TypeOK'
      BY <1>0, <1>1, StepType
      DEF Places, IInv, TypeOK, Unlight, StopIdling, buttons
    <2> QED BY <1>0, <1>1, <2>1, QuietStep DEF Unlight, StopIdling
  <1>2. CASE Unpaused \/ PollNothing \/ PollSwitch \/ PollBreak
    <2>1. TypeOK'
      BY <1>0, <1>2, StepType
      DEF Places, IInv, TypeOK, Unpaused, PollNothing, PollSwitch, PollBreak,
          buttons
    <2> QED BY <1>0, <1>2, <2>1, QuietStep
            DEF Unpaused, PollNothing, PollSwitch, PollBreak
  <1>3. CASE LeaveIdle \/ AskHandover \/ SkipHandover
    <2>1. TypeOK'
      BY <1>0, <1>3, StepType
      DEF Places, IInv, TypeOK, LeaveIdle, AskHandover, SkipHandover, buttons
    <2> QED BY <1>0, <1>3, <2>1, QuietStep
            DEF LeaveIdle, AskHandover, SkipHandover
  <1>4. CASE WaitIdle \/ Again \/ StayPaused \/ Resume
    <2>1. TypeOK'
      BY <1>0, <1>4, StepType
      DEF Places, IInv, TypeOK, WaitIdle, Again, StayPaused, Resume, buttons
    <2> QED BY <1>0, <1>4, <2>1, QuietStep
            DEF WaitIdle, Again, StayPaused, Resume
  <1>5. CASE PostGoOn \/ PostHandover
    BY <1>5, PostStep DEF PostGoOn, PostHandover
  <1> QED BY <1>1, <1>2, <1>3, <1>4, <1>5 DEF Task3

LEMMA NextIInv == IInv /\ [Next]_vars => IInv'
  <1> SUFFICES ASSUME IInv, [Next]_vars PROVE IInv'
    OBVIOUS
  <1>1. CASE Tick
    BY <1>1, TickStep
  <1>2. CASE Task1
    BY <1>2, PlayerStep, WorksStep, OtherSteps DEF Task1, Players
  <1>3. CASE Task2
    BY <1>3, PlayerStep, WorksStep, OtherSteps DEF Task2, Players
  <1>4. CASE Task3
    BY <1>4, OtherSteps
  <1>5. CASE UNCHANGED vars
    BY <1>5 DEF vars, buttons, IInv, TypeOK, WorksAsOwner, FlagTellsOwner
  <1> QED BY <1>1, <1>2, <1>3, <1>4, <1>5 DEF Next

\* Whatever the delays of the tasks are: a task draws and writes to the game
\* only while it owns S_Mutex, and never lets go of a mutex that it does not own.
THEOREM MutexIsKept == Spec => [](TypeOK /\ WorksAsOwner)
  BY InitIInv, NextIInv, PTL DEF Spec, IInv

\* Whatever the delays of the tasks are: the flag of a task that trusts it tells
\* the truth, but for the seconds between OSMutexPost and the clearing of it.
THEOREM FlagTells == Spec => []FlagTellsOwner
  BY InitIInv, NextIInv, PTL DEF Spec, IInv
=============================================================================
