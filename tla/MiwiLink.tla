------------------------------ MODULE MiwiLink ------------------------------
(***************************************************************************)
(* The wireless link between the PIC32 boards: MyMIWI_Task, which the main *)
(* loop of each board runs over and over, its queue of messages (one step  *)
(* per call: MyFifo shows that its calls are atomic for the main loop),    *)
(* the retries and the acknowledgements, and the two receive banks of the  *)
(* radio driver.  The air may lose any packet.                             *)
(***************************************************************************)
EXTENDS Naturals, Sequences

CONSTANTS
    Boards,     \* the PIC32 boards in reach of each other
    Senders,    \* the boards on whose console messages are typed
    Wrap,       \* the last message number (32 in the code)
    lim_max,    \* how often a message is sent (5 in the code)
    BANK_SIZE,  \* the receive banks of the radio driver (2 in the code)
    MaxQueue,   \* bound: messages waiting on one board
    Residue     \* what the text of a message may have become when it is sent

ASSUME LinkAssumption ==
    /\ Senders \subseteq Boards
    /\ Wrap \in Nat \ {0} /\ lim_max \in Nat \ {0} /\ BANK_SIZE \in Nat \ {0}
    /\ MaxQueue \in Nat
    /\ Residue \subseteq {"whole", "cut", "junk"}

VARIABLES
    fifo,       \* fifo[b]: the numbers of the messages b has to send
    counter,    \* counter[b]: MIWI_Counter
    limit,      \* limit[b]: the tries of the message b is sending
    delay,      \* delay[b]: Delay_Message has passed since b last sent
    OldID,      \* OldID[b]: the number of the last message b received
    done,       \* done[b]: its instruction has been executed
    bank,       \* bank[b][i]: the packet in a receive bank of b
    step,       \* step[b]: the half of MyMIWI_Task that b is about to run
    sent        \* history: how often each message of fifo[b] was sent

vars == <<fifo, counter, limit, delay, OldID, done, bank, step, sent>>

Ids == 1..Wrap

NextId(c) == IF c < Wrap THEN c + 1 ELSE 1

(* The packets: "G5-id:text", "G5-id:AckMIWI", a text that does not begin
   with G5, and one that lacks a part the receiver expects.                *)
Message(n) == [kind |-> "message", id |-> n]
Ack(n)     == [kind |-> "ack", id |-> n]
Junk       == [kind |-> "junk", id |-> 0]
Short      == [kind |-> "short", id |-> 0]
Empty      == [kind |-> "empty", id |-> 0]

Packet == {Junk, Short} \cup {Message(n) : n \in Ids} \cup {Ack(n) : n \in Ids}

-----------------------------------------------------------------------------
(* The radio *)

Full(bk) == {i \in 1..BANK_SIZE : bk[i] # Empty}

Lowest(S) == CHOOSE i \in S : \A j \in S : i <= j

\* Bug: the first bank is taken whether it is free or not.
ArriveInFirst(bk, p) == [bk EXCEPT ![1] = p]

\* The interrupt of the radio stores a packet in the first free bank and drops
\* it when there is none.
Arrive(bk, p) ==
    LET free == (1..BANK_SIZE) \ Full(bk)
    IN  IF free = {} THEN bk ELSE [bk EXCEPT ![Lowest(free)] = p]

\* MiMAC_ReceivedPacket looks at the first bank that holds a packet.
FirstPacket(bk) == bk[Lowest(Full(bk))]

\* MiMAC_DiscardPacket frees it.
Discard(bk) == [bk EXCEPT ![Lowest(Full(bk))] = Empty]

\* The banks after b broadcast p to the boards of got.
Heard(bks, got, p) ==
    [c \in Boards |-> IF c \in got THEN Arrive(bks[c], p) ELSE bks[c]]

\* What b sends when it reads the text of message n: the queue holds a pointer
\* to the local buffer of MyMIWI_InsertMsg, in which fifo_add put two zeros.
TextOf(n) ==
    {Message(n) : r \in Residue \cap {"whole"}} \cup
    {Short : r \in Residue \cap {"cut"}} \cup {Junk : r \in Residue \cap {"junk"}}

-----------------------------------------------------------------------------
Init ==
    /\ fifo = [b \in Boards |-> <<>>]
    /\ counter = [b \in Boards |-> 1]
    /\ limit = [b \in Boards |-> 0]
    /\ delay = [b \in Boards |-> FALSE]
    /\ OldID = [b \in Boards |-> 0]
    /\ done = [b \in Boards |-> FALSE]
    /\ bank = [b \in Boards |-> [i \in 1..BANK_SIZE |-> Empty]]
    /\ step = [b \in Boards |-> "receive"]
    /\ sent = [b \in Boards |-> <<>>]

\* A message typed on the console: MyMIWI_InsertMsg.
InsertMsg(b) ==
    /\ b \in Senders
    /\ step[b] = "receive"
    /\ Len(fifo[b]) < MaxQueue
    /\ fifo' = [fifo EXCEPT ![b] = Append(@, counter[b])]
    /\ sent' = [sent EXCEPT ![b] = Append(@, 0)]
    /\ counter' = [counter EXCEPT ![b] = NextId(@)]
    /\ UNCHANGED <<limit, delay, OldID, done, bank, step>>

\* Bug: the tries of the message removed are counted for the next one.
RemoveKeepsLimit(b) ==
    /\ fifo' = [fifo EXCEPT ![b] = IF @ = <<>> THEN @ ELSE Tail(@)]
    /\ sent' = [sent EXCEPT ![b] = IF @ = <<>> THEN @ ELSE Tail(@)]
    /\ limit' = limit

\* The first message leaves the queue of b, if there is one.
Remove(b) ==
    /\ fifo' = [fifo EXCEPT ![b] = IF @ = <<>> THEN @ ELSE Tail(@)]
    /\ sent' = [sent EXCEPT ![b] = IF @ = <<>> THEN @ ELSE Tail(@)]
    /\ limit' = [limit EXCEPT ![b] = 0]

-----------------------------------------------------------------------------
(* The first half of MyMIWI_Task: a packet, if there is one.               *)

NoPacket(b) ==
    /\ step[b] = "receive"
    /\ Full(bank[b]) = {}
    /\ step' = [step EXCEPT ![b] = "send"]
    /\ UNCHANGED <<fifo, counter, limit, delay, OldID, done, bank, sent>>

\* MyMIWI_RxMsg takes a packet of kind k out of its bank.
Take(b, k) ==
    /\ step[b] = "receive"
    /\ Full(bank[b]) # {}
    /\ FirstPacket(bank[b]).kind = k

\* strtok finds no first, second or third part and returns NULL, which strcmp,
\* strtol or MyConsole_SendMsg reads: the exception handler returns to the
\* faulting instruction for ever.
Trap(b) ==
    /\ Take(b, "short")
    /\ bank' = [bank EXCEPT ![b] = Discard(@)]
    /\ step' = [step EXCEPT ![b] = "trap"]
    /\ UNCHANGED <<fifo, counter, limit, delay, OldID, done, sent>>

Ignore(b) ==
    /\ Take(b, "junk")
    /\ bank' = [bank EXCEPT ![b] = Discard(@)]
    /\ step' = [step EXCEPT ![b] = "send"]
    /\ UNCHANGED <<fifo, counter, limit, delay, OldID, done, sent>>

\* An acknowledgement, whatever its number, removes the first message.
GetAck(b) ==
    /\ Take(b, "ack")
    /\ Remove(b)
    /\ bank' = [bank EXCEPT ![b] = Discard(@)]
    /\ step' = [step EXCEPT ![b] = "send"]
    /\ UNCHANGED <<counter, delay, OldID, done>>

\* Message n has not been executed yet, as far as b knows.
NotDone(b, n) == OldID[b] # n \/ ~done[b]

\* A message is acknowledged.  Its instruction never reaches the FPGA: the end
\* that strtol reports, NoInt, points into the text and is never NULL.
GetMessage(b) ==
    LET n == FirstPacket(bank[b]).id IN
    /\ Take(b, "message")
    /\ \E got \in SUBSET (Boards \ {b}) :
        bank' = Heard([bank EXCEPT ![b] = Discard(@)], got, Ack(n))
    /\ done' = [done EXCEPT ![b] = IF OldID[b] # n THEN FALSE ELSE @]
    /\ OldID' = [OldID EXCEPT ![b] = IF NotDone(b, n) THEN n ELSE @]
    /\ step' = [step EXCEPT ![b] = "send"]
    /\ UNCHANGED <<fifo, counter, limit, delay, sent>>

-----------------------------------------------------------------------------
(* The second half: the first message of the queue, if there is one.       *)

NothingToSend(b) ==
    /\ step[b] = "send"
    /\ fifo[b] = <<>>
    /\ step' = [step EXCEPT ![b] = "receive"]
    /\ UNCHANGED <<fifo, counter, limit, delay, OldID, done, bank, sent>>

\* The first message is due: it was never sent, or not for Delay_Message.
Due(b) == limit[b] = 0 \/ delay[b]

SendFirst(b) ==
    /\ step[b] = "send"
    /\ fifo[b] # <<>> /\ limit[b] < lim_max /\ Due(b)
    /\ \E p \in TextOf(Head(fifo[b])), got \in SUBSET (Boards \ {b}) :
        bank' = Heard(bank, got, p)
    /\ limit' = [limit EXCEPT ![b] = @ + 1]
    /\ sent' = [sent EXCEPT ![b][1] = @ + 1]
    /\ delay' = [delay EXCEPT ![b] = FALSE]
    /\ step' = [step EXCEPT ![b] = "receive"]
    /\ UNCHANGED <<fifo, counter, OldID, done>>

NotYet(b) ==
    /\ step[b] = "send"
    /\ fifo[b] # <<>> /\ limit[b] < lim_max /\ ~Due(b)
    /\ step' = [step EXCEPT ![b] = "receive"]
    /\ UNCHANGED <<fifo, counter, limit, delay, OldID, done, bank, sent>>

\* Bug: the last try is not made.
GiveUpEarly(b) ==
    /\ step[b] = "send"
    /\ fifo[b] # <<>> /\ limit[b] >= lim_max - 1
    /\ Remove(b)
    /\ step' = [step EXCEPT ![b] = "receive"]
    /\ UNCHANGED <<counter, delay, OldID, done, bank>>

\* Bug: the message starts again with its tries instead of being dropped.
GiveUpNever(b) ==
    /\ step[b] = "send"
    /\ fifo[b] # <<>> /\ limit[b] >= lim_max
    /\ limit' = [limit EXCEPT ![b] = 0]
    /\ sent' = [sent EXCEPT ![b][1] = 0]
    /\ step' = [step EXCEPT ![b] = "receive"]
    /\ UNCHANGED <<fifo, counter, delay, OldID, done, bank>>

\* The message was sent lim_max times: it is dropped.
GiveUp(b) ==
    /\ step[b] = "send"
    /\ fifo[b] # <<>> /\ limit[b] >= lim_max
    /\ Remove(b)
    /\ step' = [step EXCEPT ![b] = "receive"]
    /\ UNCHANGED <<counter, delay, OldID, done, bank>>

-----------------------------------------------------------------------------
MyMIWI_Task(b) ==
    \/ NoPacket(b) \/ Trap(b) \/ Ignore(b) \/ GetAck(b) \/ GetMessage(b)
    \/ NothingToSend(b) \/ SendFirst(b) \/ NotYet(b) \/ GiveUp(b)

\* The core timer has moved on by more than Delay_Message since b last sent.
Timer(b) ==
    /\ ~delay[b]
    /\ delay' = [delay EXCEPT ![b] = TRUE]
    /\ UNCHANGED <<fifo, counter, limit, OldID, done, bank, step, sent>>

Next == \E b \in Boards : InsertMsg(b) \/ MyMIWI_Task(b) \/ Timer(b)

Safe == Init /\ [][Next]_vars

\* The main loop runs for ever and the timer counts.
Spec == Safe /\ \A b \in Boards : WF_vars(MyMIWI_Task(b)) /\ WF_vars(Timer(b))

-----------------------------------------------------------------------------
(* Properties *)

\* Only the first message of a queue has ever been sent, and limit counts its
\* tries and no other's, whatever acknowledgements came late or twice
\* (MyMIWI.c:360, 420 and 431 keep the counter).
LimitOfFirst ==
    \A b \in Boards :
        /\ Len(sent[b]) = Len(fifo[b])
        /\ fifo[b] = <<>> => limit[b] = 0
        /\ \A i \in 1..Len(sent[b]) : sent[b][i] = IF i = 1 THEN limit[b] ELSE 0

\* A message leaves its queue after an acknowledgement was received, or after
\* it was sent lim_max times: "failed 5 times in a row" (MyMIWI.c:429).
DroppedAfterAllTries ==
    [][\A b \in Boards : Len(fifo'[b]) < Len(fifo[b]) =>
          \/ sent[b][1] = lim_max
          \/ /\ step[b] = "receive" /\ Full(bank[b]) # {}
             /\ FirstPacket(bank[b]).kind = "ack"]_vars

\* A packet stored in a bank stays there until its board takes it: the
\* interrupt of the radio never writes over it (MRF24J40.c:1659-1669).
KeptUntilTaken ==
    [][\A b \in Boards : \A i \in Full(bank[b]) :
          \/ bank'[b][i] = bank[b][i]
          \/ i = Lowest(Full(bank[b])) /\ step[b] = "receive"]_vars

\* The first message of a queue leaves it, sent to nobody or not, unless its
\* board is trapped: the queue never blocks on a message that nobody answers.
FirstLeaves ==
    \A b \in Boards, n \in Ids :
        (fifo[b] # <<>> /\ fifo[b][1] = n) ~>
            (fifo[b] = <<>> \/ fifo[b][1] # n \/ step[b] = "trap")

=============================================================================
