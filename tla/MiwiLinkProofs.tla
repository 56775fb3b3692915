--------------------------- MODULE MiwiLinkProofs ---------------------------
(***************************************************************************)
(* The retries of the wireless link, for any number of boards, of tries,   *)
(* of receive banks and of waiting messages, whatever the packets hold and *)
(* however many are lost: the counter of tries always belongs to the first *)
(* message of the queue, and no message is given up before its last try.   *)
(***************************************************************************)
EXTENDS MiwiLink, SequenceTheorems, WellFoundedInduction, TLAPS

\* The queue of b, what was sent of it and its counter of tries.
Counted(f, s, l) ==
    /\ f \in Seq(Nat)
    /\ s \in Seq(Nat)
    /\ l \in 0..lim_max
    /\ Len(s) = Len(f)
    /\ f = <<>> => l = 0
    /\ \A i \in 1..Len(s) : s[i] = IF i = 1 THEN l ELSE 0

Inv ==
    /\ fifo \in [Boards -> Seq(Nat)]
    /\ sent \in [Boards -> Seq(Nat)]
    /\ limit \in [Boards -> 0..lim_max]
    /\ counter \in [Boards -> Nat]
    /\ \A b \in Boards : Counted(fifo[b], sent[b], limit[b])

-----------------------------------------------------------------------------
(* One queue *)

LEMMA EmptyCounted == Counted(<<>>, <<>>, 0)
<1> QED
  BY LinkAssumption, SMT DEF Counted

LEMMA AppendCounted ==
  ASSUME NEW f, NEW s, NEW l, NEW n \in Nat, Counted(f, s, l)
  PROVE  Counted(Append(f, n), Append(s, 0), l)
<1>1. /\ f \in Seq(Nat) /\ s \in Seq(Nat) /\ l \in 0..lim_max
      /\ Len(s) = Len(f) /\ Len(s) \in Nat
      /\ \A i \in 1..Len(s) : s[i] = IF i = 1 THEN l ELSE 0
  BY LenProperties DEF Counted
<1>2. f # <<>> \/ l = 0
  BY DEF Counted
<1>3. Len(s) = 0 => l = 0
  BY <1>1, <1>2, EmptySeq
<1>4. /\ Append(f, n) \in Seq(Nat) /\ Append(s, 0) \in Seq(Nat)
      /\ Len(Append(f, n)) = Len(f) + 1 /\ Len(Append(s, 0)) = Len(s) + 1
      /\ Append(f, n) # <<>>
  <2>1. 0 \in Nat
    OBVIOUS
  <2>2. /\ Append(f, n) \in Seq(Nat) /\ Append(f, n) # <<>>
        /\ Len(Append(f, n)) = Len(f) + 1
    BY <1>1, AppendProperties
  <2>3. Append(s, 0) \in Seq(Nat) /\ Len(Append(s, 0)) = Len(s) + 1
    BY <1>1, <2>1, AppendProperties
  <2> QED
    BY <2>2, <2>3
<1>5. \A i \in 1..(Len(s) + 1) :
        Append(s, 0)[i] = IF i = Len(s) + 1 THEN 0 ELSE s[i]
  BY <1>1, AppendProperties
<1>6. \A i \in 1..(Len(s) + 1) : Append(s, 0)[i] = IF i = 1 THEN l ELSE 0
  BY <1>1, <1>3, <1>5
<1> QED
  BY <1>1, <1>4, <1>6 DEF Counted

LEMMA TailCounted ==
  ASSUME NEW f, NEW s, NEW l, Counted(f, s, l), f # <<>>
  PROVE  s # <<>> /\ Counted(Tail(f), Tail(s), 0)
<1>1. /\ f \in Seq(Nat) /\ s \in Seq(Nat) /\ Len(s) = Len(f)
      /\ Len(f) \in Nat \ {0}
      /\ \A i \in 1..Len(s) : s[i] = IF i = 1 THEN l ELSE 0
  BY EmptySeq DEF Counted
<1>2. s # <<>>
  BY <1>1, EmptySeq
<1>3. /\ Tail(f) \in Seq(Nat) /\ Len(Tail(f)) = Len(f) - 1
      /\ Tail(s) \in Seq(Nat) /\ Len(Tail(s)) = Len(s) - 1
      /\ \A i \in 1..Len(Tail(s)) : Tail(s)[i] = s[i + 1]
  BY <1>1, <1>2, HeadTailProperties
<1>4. \A i \in 1..Len(Tail(s)) : i + 1 \in 1..Len(s) /\ i + 1 # 1
  BY <1>1, <1>3
<1>5. \A i \in 1..Len(Tail(s)) : Tail(s)[i] = 0
  BY <1>1, <1>3, <1>4
<1> QED
  BY <1>1, <1>2, <1>3, <1>5, LinkAssumption DEF Counted

LEMMA SendCounted ==
  ASSUME NEW f, NEW s, NEW l, Counted(f, s, l), f # <<>>, l < lim_max
  PROVE  Counted(f, [s EXCEPT ![1] = @ + 1], l + 1)
<1>1. /\ f \in Seq(Nat) /\ s \in Seq(Nat) /\ Len(s) = Len(f)
      /\ Len(f) \in Nat \ {0} /\ l \in Nat
      /\ \A i \in 1..Len(s) : s[i] = IF i = 1 THEN l ELSE 0
  BY EmptySeq, LinkAssumption DEF Counted
<1>2. 1 \in 1..Len(s) /\ s[1] = l /\ s[1] + 1 \in Nat
  BY <1>1
<1>3. /\ [s EXCEPT ![1] = s[1] + 1] \in Seq(Nat)
      /\ Len([s EXCEPT ![1] = s[1] + 1]) = Len(s)
      /\ \A j \in 1..Len(s) :
           [s EXCEPT ![1] = s[1] + 1][j] = IF j = 1 THEN s[1] + 1 ELSE s[j]
  BY <1>1, <1>2, ExceptSeq
<1>4. l + 1 \in 0..lim_max
  BY <1>1, LinkAssumption
<1> QED
  BY <1>1, <1>2, <1>3, <1>4 DEF Counted

-----------------------------------------------------------------------------
(* The invariant *)

LEMMA InitInv == Init => Inv
<1> SUFFICES ASSUME Init PROVE Inv
  OBVIOUS
<1>1. <<>> \in Seq(Nat) /\ 0 \in 0..lim_max
  BY LinkAssumption, EmptySeq
<1> QED
  BY <1>1, EmptyCounted DEF Init, Inv

\* A step that changes one queue only, and keeps it counted.
LEMMA OneQueue ==
  ASSUME Inv, NEW b \in Boards, NEW f, NEW s, NEW l, NEW c \in Nat,
         Counted(f, s, l),
         fifo' = [fifo EXCEPT ![b] = f], sent' = [sent EXCEPT ![b] = s],
         limit' = [limit EXCEPT ![b] = l],
         counter' = counter \/ counter' = [counter EXCEPT ![b] = c]
  PROVE  Inv'
<1>1. f \in Seq(Nat) /\ s \in Seq(Nat) /\ l \in 0..lim_max
  BY DEF Counted
<1>2. /\ fifo' \in [Boards -> Seq(Nat)] /\ sent' \in [Boards -> Seq(Nat)]
      /\ limit' \in [Boards -> 0..lim_max] /\ counter' \in [Boards -> Nat]
  BY <1>1 DEF Inv
<1>3. \A d \in Boards : Counted(fifo'[d], sent'[d], limit'[d])
  <2> SUFFICES ASSUME NEW d \in Boards
               PROVE  Counted(fifo'[d], sent'[d], limit'[d])
    OBVIOUS
  <2>1. CASE d = b
    BY <2>1 DEF Inv
  <2>2. CASE d # b
    BY <2>2 DEF Inv
  <2> QED
    BY <2>1, <2>2
<1> QED
  BY <1>2, <1>3 DEF Inv

LEMMA RemoveInv ==
  ASSUME Inv, NEW b \in Boards, Remove(b), UNCHANGED counter
  PROVE  Inv'
<1>1. CASE fifo[b] = <<>>
  <2>1. sent[b] = <<>>
    <3>1. sent[b] \in Seq(Nat) /\ Len(sent[b]) = 0
      BY <1>1, EmptySeq DEF Inv, Counted
    <3> QED
      BY <3>1, EmptySeq
  <2>2. /\ fifo' = [fifo EXCEPT ![b] = <<>>]
        /\ sent' = [sent EXCEPT ![b] = <<>>]
        /\ limit' = [limit EXCEPT ![b] = 0]
    BY <1>1, <2>1 DEF Remove, Inv
  <2> QED
    BY <2>2, EmptyCounted, OneQueue
<1>2. CASE fifo[b] # <<>>
  <2>1. sent[b] # <<>> /\ Counted(Tail(fifo[b]), Tail(sent[b]), 0)
    BY <1>2, TailCounted DEF Inv
  <2>2. /\ fifo' = [fifo EXCEPT ![b] = Tail(fifo[b])]
        /\ sent' = [sent EXCEPT ![b] = Tail(sent[b])]
        /\ limit' = [limit EXCEPT ![b] = 0]
    BY <1>2, <2>1 DEF Remove, Inv
  <2> QED
    BY <2>1, <2>2, OneQueue
<1> QED
  BY <1>1, <1>2

LEMMA InvStep == Inv /\ [Next]_vars => Inv'
<1> SUFFICES ASSUME Inv, [Next]_vars PROVE Inv'
  OBVIOUS
<1>1. ASSUME NEW b \in Boards, InsertMsg(b) PROVE Inv'
  <2>1. counter[b] \in Nat /\ NextId(counter[b]) \in Nat
    BY LinkAssumption DEF Inv, NextId
  <2>2. Counted(Append(fifo[b], counter[b]), Append(sent[b], 0), limit[b])
    BY <2>1, AppendCounted DEF Inv
  <2>3. limit' = [limit EXCEPT ![b] = limit[b]]
    BY <1>1 DEF InsertMsg, Inv
  <2> QED
    BY <1>1, <2>1, <2>2, <2>3, OneQueue DEF InsertMsg
<1>2. ASSUME NEW b \in Boards, GetAck(b) \/ GiveUp(b) PROVE Inv'
  BY <1>2, RemoveInv DEF GetAck, GiveUp
<1>3. ASSUME NEW b \in Boards, SendFirst(b) PROVE Inv'
  <2>1. Counted(fifo[b], [sent[b] EXCEPT ![1] = @ + 1], limit[b] + 1)
    BY <1>3, SendCounted DEF SendFirst, Inv
  <2>2. /\ fifo' = [fifo EXCEPT ![b] = fifo[b]]
        /\ limit' = [limit EXCEPT ![b] = limit[b] + 1]
        /\ UNCHANGED counter
    BY <1>3 DEF SendFirst, Inv
  <2>3. sent' = [sent EXCEPT ![b] = [sent[b] EXCEPT ![1] = @ + 1]]
    BY <1>3 DEF SendFirst, Inv
  <2> QED
    BY <2>1, <2>2, <2>3, OneQueue DEF Inv
<1>4. ASSUME UNCHANGED <<fifo, sent, limit, counter>> PROVE Inv'
  BY <1>4 DEF Inv
<1>5. ASSUME NEW b \in Boards, NoPacket(b) \/ Trap(b) \/ Ignore(b) \/ GetMessage(b)
             \/ NothingToSend(b) \/ NotYet(b) \/ Timer(b)
      PROVE  UNCHANGED <<fifo, sent, limit, counter>>
  BY <1>5 DEF NoPacket, Trap, Ignore, GetMessage, NothingToSend, NotYet, Timer
<1>6. CASE UNCHANGED vars
  BY <1>6, <1>4 DEF vars
<1> QED
  BY <1>1, <1>2, <1>3, <1>4, <1>5, <1>6 DEF Next, MyMIWI_Task

LEMMA InvAlways == Safe => []Inv
<1> QED
  BY InitInv, InvStep, PTL DEF Safe

\* The counter of tries is that of the first message of the queue, and no
\* other message was ever sent: limit in MyMIWI.c.
THEOREM LimitOfFirstAlways == Safe => []LimitOfFirst
<1>1. Inv => LimitOfFirst
  BY DEF Inv, Counted, LimitOfFirst
<1> QED
  BY <1>1, InvAlways, PTL

-----------------------------------------------------------------------------
(* Giving up *)

LEMMA GiveUpStep ==
  ASSUME Inv, NEW b \in Boards, NEW c \in Boards, GiveUp(c),
         Len(fifo'[b]) < Len(fifo[b])
  PROVE  sent[b][1] = lim_max
<1>1. b = c
  <2>1. b # c => fifo'[b] = fifo[b]
    BY DEF GiveUp, Remove, Inv
  <2>2. Len(fifo[b]) \in Nat
    BY LenProperties DEF Inv
  <2> QED
    BY <2>1, <2>2
<1>2. limit[b] = lim_max
  BY <1>1, LinkAssumption DEF GiveUp, Inv
<1>3. 1 \in 1..Len(sent[b])
  <2>1. fifo[b] # <<>> /\ fifo[b] \in Seq(Nat) /\ Len(sent[b]) = Len(fifo[b])
    BY <1>1 DEF GiveUp, Inv, Counted
  <2> QED
    BY <2>1, EmptySeq
<1> QED
  BY <1>2, <1>3 DEF Inv, Counted

LEMMA DropStep ==
  ASSUME Inv, [Next]_vars, NEW b \in Boards, Len(fifo'[b]) < Len(fifo[b])
  PROVE  \/ sent[b][1] = lim_max
         \/ /\ step[b] = "receive" /\ Full(bank[b]) # {}
            /\ FirstPacket(bank[b]).kind = "ack"
<1>1. Len(fifo[b]) \in Nat
  BY LenProperties DEF Inv
<1>2. fifo'[b] # fifo[b]
  BY <1>1
<1>3. ASSUME NEW c \in Boards, InsertMsg(c) PROVE FALSE
  <2>1. b = c
    BY <1>2, <1>3 DEF InsertMsg, Inv
  <2>2. fifo'[b] = Append(fifo[b], counter[b])
    BY <1>3, <2>1 DEF InsertMsg, Inv
  <2>3. Len(fifo'[b]) = Len(fifo[b]) + 1
    BY <2>2, AppendProperties DEF Inv
  <2> QED
    BY <1>1, <2>3
<1>4. ASSUME NEW c \in Boards, GetAck(c)
      PROVE  /\ step[b] = "receive" /\ Full(bank[b]) # {}
             /\ FirstPacket(bank[b]).kind = "ack"
  <2>1. b = c
    BY <1>2, <1>4 DEF GetAck, Remove, Inv
  <2> QED
    BY <1>4, <2>1 DEF GetAck, Take
<1>5. ASSUME NEW c \in Boards, GiveUp(c) PROVE sent[b][1] = lim_max
  BY <1>5, GiveUpStep
<1>6. ASSUME NEW c \in Boards, NoPacket(c) \/ Trap(c) \/ Ignore(c) \/ GetMessage(c)
             \/ NothingToSend(c) \/ NotYet(c) \/ Timer(c) \/ SendFirst(c)
      PROVE  FALSE
  BY <1>2, <1>6 DEF NoPacket, Trap, Ignore, GetMessage, NothingToSend, NotYet,
                    Timer, SendFirst
<1>7. ~ UNCHANGED vars
  BY <1>2 DEF vars
<1> QED
  BY <1>3, <1>4, <1>5, <1>6, <1>7 DEF Next, MyMIWI_Task

\* A message leaves its queue after lim_max tries or when an acknowledgement
\* was received, and never otherwise: MyMIWI.c:355-362 and 424-431.
THEOREM DropsAfterAllTries == Safe => DroppedAfterAllTries
<1>1. Inv /\ [Next]_vars =>
        [\A b \in Boards : Len(fifo'[b]) < Len(fifo[b]) =>
          \/ sent[b][1] = lim_max
          \/ /\ step[b] = "receive" /\ Full(bank[b]) # {}
             /\ FirstPacket(bank[b]).kind = "ack"]_vars
  BY DropStep
<1> QED
  BY <1>1, InvAlways, PTL DEF Safe, DroppedAfterAllTries

-----------------------------------------------------------------------------
(* The receive banks *)

Held == [kind : {"message", "ack", "junk", "short", "empty"}, id : Nat]

Slots == [1..BANK_SIZE -> Held]

LEMMA LowestIn ==
  ASSUME NEW S \in SUBSET (1..BANK_SIZE), S # {}
  PROVE  Lowest(S) \in S
<1>1. S \in SUBSET Nat
  BY LinkAssumption
<1>2. \E i \in S : \A j \in S : ~ (<<j, i>> \in OpToRel(<, Nat))
  BY <1>1, NatLessThanWellFounded, WFMin
<1>3. \A i, j \in S : ~ (<<j, i>> \in OpToRel(<, Nat)) => i <= j
  BY <1>1 DEF OpToRel
<1>4. \E i \in S : \A j \in S : i <= j
  BY <1>2, <1>3
<1> QED
  BY <1>4 DEF Lowest

\* A packet that arrives takes a free bank or none.
LEMMA ArriveKeeps ==
  ASSUME NEW bk \in Slots, NEW p \in Held
  PROVE  /\ Arrive(bk, p) \in Slots
         /\ \A i \in Full(bk) : Arrive(bk, p)[i] = bk[i]
<1> DEFINE free == (1..BANK_SIZE) \ Full(bk)
<1>1. CASE free = {}
  BY <1>1 DEF Arrive
<1>2. CASE free # {}
  <2>1. Lowest(free) \in free
    BY <1>2, LowestIn
  <2>2. Arrive(bk, p) = [bk EXCEPT ![Lowest(free)] = p]
    BY <1>2 DEF Arrive
  <2>3. \A i \in Full(bk) : i \in 1..BANK_SIZE /\ i \notin free
    BY DEF Full
  <2> HIDE DEF free
  <2> QED
    BY <2>1, <2>2, <2>3 DEF Slots
<1> QED
  BY <1>1, <1>2

\* Taking a packet frees its bank and no other.
LEMMA DiscardKeeps ==
  ASSUME NEW bk \in Slots
  PROVE  /\ Discard(bk) \in Slots
         /\ \A i \in Full(bk) : i # Lowest(Full(bk)) =>
               Discard(bk)[i] = bk[i] /\ i \in Full(Discard(bk))
<1>1. Empty \in Held
  BY DEF Empty, Held
<1> QED
  BY <1>1 DEF Discard, Full, Slots

\* What a broadcast does to the banks of every board.
LEMMA HeardKeeps ==
  ASSUME NEW bks \in [Boards -> Slots], NEW got, NEW p \in Held
  PROVE  /\ Heard(bks, got, p) \in [Boards -> Slots]
         /\ \A c \in Boards : \A i \in Full(bks[c]) : Heard(bks, got, p)[c][i] = bks[c][i]
<1>1. \A c \in Boards :
        /\ Arrive(bks[c], p) \in Slots
        /\ \A i \in Full(bks[c]) : Arrive(bks[c], p)[i] = bks[c][i]
  BY ArriveKeeps
<1> QED
  BY <1>1 DEF Heard

Banks == bank \in [Boards -> Slots]

\* One step keeps the packets, but the first one of the board that takes it.
LEMMA BankStep ==
  ASSUME Inv, Banks, [Next]_vars
  PROVE  /\ Banks'
         /\ \A b \in Boards : \A i \in Full(bank[b]) :
               \/ bank'[b][i] = bank[b][i]
               \/ i = Lowest(Full(bank[b])) /\ step[b] = "receive"
<1> USE DEF Banks
<1>1. CASE UNCHANGED bank
  BY <1>1
<1>2. ASSUME NEW c \in Boards, Trap(c) \/ Ignore(c) \/ GetAck(c)
      PROVE  step[c] = "receive" /\ bank' = [bank EXCEPT ![c] = Discard(bank[c])]
  BY <1>2 DEF Trap, Ignore, GetAck, Take
<1>3. ASSUME NEW c \in Boards, step[c] = "receive",
             bank' = [bank EXCEPT ![c] = Discard(bank[c])]
      PROVE  /\ Banks'
             /\ \A b \in Boards : \A i \in Full(bank[b]) :
                  \/ bank'[b][i] = bank[b][i]
                  \/ i = Lowest(Full(bank[b])) /\ step[b] = "receive"
  BY <1>3, DiscardKeeps
<1>4. ASSUME NEW c \in Boards, GetMessage(c)
      PROVE  /\ Banks'
             /\ \A b \in Boards : \A i \in Full(bank[b]) :
                  \/ bank'[b][i] = bank[b][i]
                  \/ i = Lowest(Full(bank[b])) /\ step[b] = "receive"
  <2> DEFINE n == FirstPacket(bank[c]).id
             bks == [bank EXCEPT ![c] = Discard(bank[c])]
  <2>1. step[c] = "receive" /\ Full(bank[c]) # {}
    BY <1>4 DEF GetMessage, Take
  <2>2. PICK got \in SUBSET (Boards \ {c}) : bank' = Heard(bks, got, Ack(n))
    BY <1>4 DEF GetMessage
  <2>3. n \in Nat
    <3>1. Full(bank[c]) \in SUBSET (1..BANK_SIZE)
      BY DEF Full
    <3>2. Lowest(Full(bank[c])) \in 1..BANK_SIZE
      BY <2>1, <3>1, LowestIn
    <3> QED
      BY <3>2 DEF FirstPacket, Slots, Held
  <2>4. Ack(n) \in Held
    BY <2>3 DEF Ack, Held
  <2>5. bks \in [Boards -> Slots]
    BY DiscardKeeps
  <2>6. /\ Banks'
        /\ \A b \in Boards : \A i \in Full(bks[b]) : bank'[b][i] = bks[b][i]
    <3> HIDE DEF bks, n
    <3> QED
      BY <2>2, <2>4, <2>5, HeardKeeps
  <2>7. \A b \in Boards : \A i \in Full(bank[b]) :
           \/ i \in Full(bks[b]) /\ bks[b][i] = bank[b][i]
           \/ i = Lowest(Full(bank[b])) /\ b = c
    BY DiscardKeeps
  <2> QED
    BY <2>1, <2>6, <2>7
<1>5. ASSUME NEW c \in Boards, SendFirst(c)
      PROVE  /\ Banks'
             /\ \A b \in Boards : \A i \in Full(bank[b]) : bank'[b][i] = bank[b][i]
  <2>1. PICK p \in TextOf(Head(fifo[c])), got \in SUBSET (Boards \ {c}) :
          bank' = Heard(bank, got, p)
    BY <1>5 DEF SendFirst
  <2>2. Head(fifo[c]) \in Nat
    BY <1>5, HeadTailProperties DEF SendFirst, Inv
  <2>3. p \in Held
    BY <2>1, <2>2 DEF TextOf, Message, Short, Junk, Held
  <2> QED
    BY <2>1, <2>3, HeardKeeps
<1>6. ASSUME NEW c \in Boards, InsertMsg(c) \/ NoPacket(c) \/ NothingToSend(c)
             \/ NotYet(c) \/ GiveUp(c) \/ Timer(c)
      PROVE  UNCHANGED bank
  BY <1>6 DEF InsertMsg, NoPacket, NothingToSend, NotYet, GiveUp, Timer
<1> QED
  BY <1>1, <1>2, <1>3, <1>4, <1>5, <1>6 DEF Next, MyMIWI_Task, vars

LEMMA BanksAlways == Safe => [](Inv /\ Banks)
<1>1. Init => Banks
  BY DEF Init, Banks, Slots, Held, Empty
<1>2. Inv /\ Banks /\ [Next]_vars => Banks'
  BY BankStep
<1> QED
  BY <1>1, <1>2, InitInv, InvStep, PTL DEF Safe

\* The interrupt of the radio never writes over a packet its board has not yet
\* taken, whatever arrives and however many banks there are:
\* MRF24J40.c:1659-1669.
THEOREM PacketsAreKept == Safe => KeptUntilTaken
<1>1. Inv /\ Banks /\ [Next]_vars =>
        [\A b \in Boards : \A i \in Full(bank[b]) :
          \/ bank'[b][i] = bank[b][i]
          \/ i = Lowest(Full(bank[b])) /\ step[b] = "receive"]_vars
  BY BankStep
<1> QED
  BY <1>1, BanksAlways, PTL DEF Safe, KeptUntilTaken
=============================================================================
