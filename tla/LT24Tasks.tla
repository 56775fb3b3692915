------------------------------ MODULE LT24Tasks ------------------------------
(***************************************************************************)
(* The three uC/OS-II tasks of the LT24 board: task1 plays with the touch  *)
(* screen, task2 with the accelerometer, whichever owns S_Mutex, and task3 *)
(* reads the screen and tells the owner, through a mailbox that holds a    *)
(* pointer to one array, to go on or to hand the game over.  Whom it tells *)
(* is decided when it posts: the first of the two that waits then, or,     *)
(* through the mailbox, the one that asks next.                            *)
(*                                                                         *)
(* A task runs until it waits, unless a delay of one of higher priority    *)
(* ends (task3, then task1, then task2; the priority that the mutex lends  *)
(* its owner changes nothing between them).  The statements of task1 and   *)
(* task2, which draw, take as long as they like; those of task3 no time.   *)
(***************************************************************************)
EXTENDS Naturals

CONSTANTS
    Short,     \* the delays, in any unit: 2 ticks,
    Timeout,   \* 10 ticks, the patience of OSMboxPend,
    Blink,     \* 100 or 200 ms,
    Jump,      \* 500 ms,
    Long       \* 1.5 s and more

ASSUME DelaysAssumption == {Short, Timeout, Blink, Jump, Long} \subseteq Nat \ {0}

Tasks == {1, 2, 3}
Players == {1, 2}
Nobody == 0
Other(t) == 3 - t

VARIABLES
    pc,        \* where each task is
    delay,     \* what is left of its OSTimeDlyHMSM or of its patience
    owner,     \* the owner of S_Mutex
    mbox,      \* the mailbox holds the pointer to send_data
    send,      \* send_data[0]: 0 asks the owner to hand over
    touch,     \* send_data[1..2] is a point of the screen
    MU,        \* MU_1 and MU_2: the task works without taking the mutex again
    Idle, Pause

vars == <<pc, delay, owner, mbox, send, touch, MU, Idle, Pause>>
buttons == <<Idle, Pause>>

Init ==
    /\ pc = [t \in Tasks |-> IF t = 3 THEN "start" ELSE "pend"]
    /\ delay = [t \in Tasks |-> 0]
    /\ owner = Nobody
    /\ mbox = FALSE
    /\ send = 1 /\ touch \in BOOLEAN      \* no value yet
    /\ MU = [t \in Players |-> FALSE]
    /\ Idle = TRUE /\ Pause = FALSE

-----------------------------------------------------------------------------
(* uC/OS-II, as far as these tasks use it.                                 *)

Ready(t) ==
    /\ delay[t] = 0
    /\ pc[t] = "mutex" => owner \in {Nobody, t}

Above(t) == IF t = 1 THEN {3} ELSE IF t = 2 THEN {1, 3} ELSE {}

\* Task t runs, from one place to another, and then waits for d.
Step(t, from, to, d) ==
    /\ Ready(t)
    /\ \A u \in Above(t) : ~Ready(u)
    /\ pc[t] = from
    /\ pc' = [pc EXCEPT ![t] = to]
    /\ delay' = [delay EXCEPT ![t] = d]

\* A delay goes on.
Tick ==
    /\ ~Ready(3)
    /\ \E t \in Tasks : delay[t] > 0
    /\ delay' = [t \in Tasks |-> IF delay[t] > 0 THEN delay[t] - 1 ELSE 0]
    /\ UNCHANGED <<pc, owner, mbox, send, touch, MU, buttons>>

\* OSMutexPost hands the mutex to the task that waits for it.
OSMutexPost(t) ==
    owner' = IF owner # t THEN owner
             ELSE IF pc[Other(t)] = "mutex" THEN Other(t) ELSE Nobody

\* A task whose patience is over waits for the mailbox until it runs again.
Waiting == {t \in Players : pc[t] = "mbox"}

\* OSMboxPost by task3, which goes on and then waits for d: the message goes to
\* the waiting task of the highest priority, past the mailbox, or into the
\* mailbox, where nothing changes if there is one already.
OSMboxPost(from, to, d) ==
    /\ Ready(3) /\ pc[3] = from
    /\ LET woken == IF 1 \in Waiting THEN {1} ELSE Waiting IN
          /\ pc' = [t \in Tasks |-> IF t = 3 THEN to
                                   ELSE IF t \in woken THEN "read" ELSE pc[t]]
          /\ delay' = [t \in Tasks |-> IF t = 3 THEN d
                                      ELSE IF t \in woken THEN 0 ELSE delay[t]]
          /\ mbox' = (mbox \/ woken = {})

-----------------------------------------------------------------------------
(* task1 and task2.                                                        *)

\* OSMboxPend: the message in the mailbox, or a wait for one.
OSMboxPend(t) ==
    /\ \/ mbox /\ Step(t, "pend", "read", 0)
       \/ ~mbox /\ Step(t, "pend", "mbox", Timeout)
    /\ mbox' = FALSE
    /\ UNCHANGED <<owner, send, touch, MU, buttons>>

\* MB_err1 and MB_err2 tell a timeout: the task asks again.
TimedOut(t) ==
    /\ Step(t, "mbox", "pend", 0)
    /\ UNCHANGED <<owner, mbox, send, touch, MU, buttons>>

\* Bug: whoever gets the message lets the mutex go.
ReadMessageUnchecked(t) ==
    /\ Step(t, "read",
            IF send = 0 THEN "release"
            ELSE IF ~MU[t] THEN "mutex" ELSE "work", 0)
    /\ UNCHANGED <<owner, mbox, send, touch, MU, buttons>>

\* What the message points to decides, as it is now.
ReadMessage(t) ==
    /\ Step(t, "read",
            IF send = 0 /\ MU[t] THEN "release"
            ELSE IF ~MU[t] THEN "mutex" ELSE "work", 0)
    /\ UNCHANGED <<owner, mbox, send, touch, MU, buttons>>

Pend(t) ==
    /\ Step(t, "mutex", "work", 0)
    /\ owner' = t
    /\ UNCHANGED <<mbox, send, touch, MU, buttons>>

Release(t) ==
    /\ Step(t, "release", "clear", IF t = 2 THEN Long ELSE 0)
    /\ OSMutexPost(t)
    /\ UNCHANGED <<mbox, send, touch, MU, buttons>>

\* Bug: the flag stays set.
ClearNothing(t) ==
    /\ Step(t, "clear", "pend", IF t = 1 THEN Long ELSE 0)
    /\ UNCHANGED <<owner, mbox, send, touch, MU, buttons>>

Clear(t) ==
    /\ Step(t, "clear", "pend", IF t = 1 THEN Long ELSE 0)
    /\ MU' = [MU EXCEPT ![t] = FALSE]
    /\ UNCHANGED <<owner, mbox, send, touch, buttons>>

\* task1 looks for a direction button under the point.
WorkTouch ==
    /\ \E d \in (IF touch THEN {0, Blink} ELSE {0}) :
          Step(1, "work", IF d = 0 THEN "pend" ELSE "shown", d)
    /\ MU' = [MU EXCEPT ![1] = TRUE]
    /\ UNCHANGED <<owner, mbox, send, touch, buttons>>

\* ... and takes the light of the button away.
Unlight ==
    /\ Step(1, "shown", "pend", 0)
    /\ UNCHANGED <<owner, mbox, send, touch, MU, buttons>>

\* task2 reads the accelerometer: no data yet, held flat, or tilted.
WorkTilt ==
    /\ \/ Step(2, "work", "pend", 0)
       \/ Step(2, "work", "pend", Blink)
       \/ Step(2, "work", "shown", Jump)
    /\ MU' = [MU EXCEPT ![2] = TRUE]
    /\ UNCHANGED <<owner, mbox, send, touch, buttons>>

\* After a tilt task2 clears Idle.
StopIdling ==
    /\ Step(2, "shown", "pend", Blink)
    /\ Idle' = FALSE
    /\ UNCHANGED <<owner, mbox, send, touch, MU, Pause>>

Player(t) ==
    \/ OSMboxPend(t) \/ TimedOut(t) \/ ReadMessage(t)
    \/ Pend(t) \/ Release(t) \/ Clear(t)

Task1 == Player(1) \/ WorkTouch \/ Unlight
Task2 == Player(2) \/ WorkTilt \/ StopIdling

-----------------------------------------------------------------------------
(* task3.                                                                  *)

\* while (!Pause)
Unpaused ==
    /\ Step(3, "start", IF Pause THEN "paused" ELSE "idle", 0)
    /\ send' = IF Pause THEN send ELSE 1
    /\ UNCHANGED <<owner, mbox, touch, MU, buttons>>

\* Bug: the message is posted once Idle is over only.
PostNothing ==
    /\ Idle
    /\ Step(3, "idle", "poll", Short)
    /\ UNCHANGED <<owner, mbox, send, touch, MU, buttons>>

\* while (Idle): OSMboxPost and a short delay.
PostGoOn ==
    /\ Idle
    /\ OSMboxPost("idle", "poll", Short)
    /\ UNCHANGED <<owner, send, touch, MU, buttons>>

\* The point touched is on no button of task3, on BTN_CMD or on BTN_BREAK.
PollNothing ==
    /\ Step(3, "poll", "idle", 0)
    /\ touch' \in BOOLEAN
    /\ UNCHANGED <<owner, mbox, send, MU, buttons>>

PollSwitch ==
    /\ Step(3, "poll", "idle", 0)
    /\ touch' = TRUE
    /\ Idle' = FALSE
    /\ UNCHANGED <<owner, mbox, send, MU, Pause>>

PollBreak ==
    /\ Step(3, "poll", "after", Long)
    /\ touch' = TRUE
    /\ Pause' = TRUE
    /\ UNCHANGED <<owner, mbox, send, MU, Idle>>

LeaveIdle ==
    /\ ~Idle
    /\ Step(3, "idle", "after", 0)
    /\ UNCHANGED <<owner, mbox, send, touch, MU, buttons>>

\* send_data changes first, the mailbox is posted after a delay.
AskHandover ==
    /\ ~Pause
    /\ Step(3, "after", "post", Blink)
    /\ send' = 0
    /\ UNCHANGED <<owner, mbox, touch, MU, buttons>>

PostHandover ==
    /\ OSMboxPost("post", "wait", 0)
    /\ UNCHANGED <<owner, send, touch, MU, buttons>>

SkipHandover ==
    /\ Pause
    /\ Step(3, "after", "wait", 0)
    /\ UNCHANGED <<owner, mbox, send, touch, MU, buttons>>

\* while(!Idle): until BTN_CMD is let go.
WaitIdle ==
    /\ ~Idle
    /\ Step(3, "wait", "wait", Blink)
    /\ Idle' \in BOOLEAN
    /\ UNCHANGED <<owner, mbox, send, touch, MU, Pause>>

Again ==
    /\ Idle
    /\ Step(3, "wait", "start", 0)
    /\ UNCHANGED <<owner, mbox, send, touch, MU, buttons>>

\* while (Pause): until the other side or a button ends it.
StayPaused ==
    /\ Step(3, "paused", "paused", Blink)
    /\ UNCHANGED <<owner, mbox, send, touch, MU, buttons>>

Resume ==
    /\ Step(3, "paused", "start", Long)
    /\ Pause' = FALSE
    /\ UNCHANGED <<owner, mbox, send, touch, MU, Idle>>

Task3 ==
    \/ Unpaused \/ PostGoOn \/ PollNothing \/ PollSwitch \/ PollBreak \/ LeaveIdle
    \/ AskHandover \/ PostHandover \/ SkipHandover \/ WaitIdle \/ Again
    \/ StayPaused \/ Resume

Next == Tick \/ Task1 \/ Task2 \/ Task3

Spec == Init /\ [][Next]_vars

\* Time goes on, the delays of a task leave the processor to the ones below it
\* for long enough, and a finger leaves BTN_CMD.
FairSpec ==
    Spec /\ WF_vars(Tick) /\ SF_vars(Task1) /\ SF_vars(Task2) /\ WF_vars(Task3)
         /\ SF_vars(WaitIdle /\ Idle')

-----------------------------------------------------------------------------
TypeOK ==
    /\ pc \in [Tasks -> {"pend", "mbox", "read", "mutex", "work", "shown", "release",
                         "clear", "start", "idle", "poll", "after", "post",
                         "wait", "paused"}]
    /\ delay \in [Tasks -> Nat]
    /\ owner \in Players \cup {Nobody}
    /\ mbox \in BOOLEAN /\ touch \in BOOLEAN
    /\ Idle \in BOOLEAN /\ Pause \in BOOLEAN
    /\ send \in {0, 1}
    /\ MU \in [Players -> BOOLEAN]

\* A task draws and writes to the game only while it owns the mutex, although
\* it trusts its flag and asks the mutex no more; and it never lets go a mutex
\* that it does not own (OSMutexPost would refuse).
WorksAsOwner ==
    \A t \in Players : pc[t] \in {"work", "shown", "release"} => owner = t

\* A task whose flag says it may work is the owner, except between its
\* OSMutexPost and the clearing of the flag, seconds later for task2.
FlagTellsOwner ==
    \A t \in Players : MU[t] /\ pc[t] # "clear" => owner = t

\* Unless the game stays paused for good, some task plays again and again.
SomeonePlays ==
    []<>~Pause => []<>(\E t \in Players : pc[t] = "work")
=============================================================================
