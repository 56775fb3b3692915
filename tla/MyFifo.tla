------------------------------- MODULE MyFifo -------------------------------
(***************************************************************************)
(* The linked list in which a PIC32 keeps the messages it has to send      *)
(* (MyFifo.c), one action per C statement that touches it, and the two     *)
(* contexts that use it: the main loop, which adds the messages typed on   *)
(* the console and removes those that were sent, and, in the program of    *)
(* the LT24 board only, the INT2 interrupt handler, which adds a message   *)
(* of its own between any two statements of the main loop and runs to its  *)
(* end before the main loop goes on.                                       *)
(***************************************************************************)
EXTENDS Naturals, Sequences

CONSTANTS
    Nodes,     \* the addresses malloc may return: bounds the messages alive
    NULL,      \* the null pointer
    Wrap       \* the last message number (32 in the code)

ASSUME NodesAssumption == NULL \notin Nodes
ASSUME WrapAssumption == Wrap \in Nat \ {0}

VARIABLES
    board,                   \* whose program this is: 01_LT24 or 02_MTL
    f_head, f_tail, fSize,   \* the list (struct fifo)
    fn_next, fn_id,          \* its nodes (struct fifonode)
    allocated,               \* the nodes malloc gave and free did not take
    MIWI_Counter,            \* the number of the next message
    strtokAt,                \* whose string the static pointer of strtok is in
    pc,                      \* the statement the main loop is about to run
    fn, id,                  \* its local variables
    order                    \* history: the nodes linked and not yet unlinked

vars == <<f_head, f_tail, fSize, fn_next, fn_id, allocated, MIWI_Counter,
          strtokAt, pc, fn, id, order>>

list == <<f_head, f_tail, fSize, fn_next, fn_id>>

Ids == 1..Wrap
Body == 0      \* the text of the interrupt's message, read as a number
Pointer == Nodes \cup {NULL}

Statements == {"idle", "cut", "number", "link", "first", "head", "next", "tail",
               "bump", "shrink", "unlink", "drop", "free"}

\* The number that follows c.
NextId(c) == IF c < Wrap THEN c + 1 ELSE 1

Init ==
    /\ board \in {"LT24", "MTL"}
    /\ f_head = NULL /\ f_tail = NULL /\ fSize = 0
    /\ fn_next = [n \in Nodes |-> NULL]
    /\ fn_id = [n \in Nodes |-> Body]
    /\ allocated = {}
    /\ MIWI_Counter = 1
    /\ strtokAt = "nowhere"
    /\ pc = "idle" /\ fn = NULL /\ id = Body
    /\ order = <<>>

-----------------------------------------------------------------------------
(* MyMIWI_InsertMsg and fifo_add, in the main loop.                        *)

\* sprintf(TxtMsg, "G5-%d:%s", MIWI_Counter, theMsg), where id is the number
\* in the text, and the malloc of the node.
Sprintf ==
    /\ pc = "idle"
    /\ id' = MIWI_Counter
    /\ \E n \in Nodes \ allocated :
        /\ fn' = n
        /\ allocated' = allocated \cup {n}
    /\ pc' = "cut"
    /\ UNCHANGED <<list, MIWI_Counter, strtokAt, order>>

\* strtok(data, "-") leaves its static pointer in the string of the main loop.
Cut ==
    /\ pc = "cut"
    /\ strtokAt' = "main"
    /\ pc' = "number"
    /\ UNCHANGED <<list, allocated, MIWI_Counter, fn, id, order>>

\* The number found after the pointer of strtok: the message's own, or what
\* follows in the string an interrupt cut in the meantime.
Number(at, printed) == IF at = "main" THEN printed ELSE Body

\* Bug: the node keeps the successor that its memory held before.
FillKeepsNext ==
    /\ pc = "number"
    /\ id' = Number(strtokAt, id)
    /\ fn_id' = [fn_id EXCEPT ![fn] = id']
    /\ fSize' = fSize + 1
    /\ pc' = "link"
    /\ UNCHANGED <<f_head, f_tail, fn_next, allocated, MIWI_Counter, strtokAt, fn, order>>

\* strtok(NULL, ":"), strtol, and the node filled and counted.
Fill ==
    /\ pc = "number"
    /\ id' = Number(strtokAt, id)
    /\ fn_id' = [fn_id EXCEPT ![fn] = id']
    /\ fn_next' = [fn_next EXCEPT ![fn] = NULL]
    /\ fSize' = fSize + 1
    /\ pc' = "link"
    /\ UNCHANGED <<f_head, f_tail, allocated, MIWI_Counter, strtokAt, fn, order>>

\* Is the list empty?  An interrupt may still fill it before the answer is used.
TestTail ==
    /\ pc = "link"
    /\ pc' = IF f_tail = NULL THEN "first" ELSE "next"
    /\ UNCHANGED <<list, allocated, MIWI_Counter, strtokAt, fn, id, order>>

\* f_head = f_tail = fn makes the new node the tail of the list it found empty...
LinkFirst ==
    /\ pc = "first"
    /\ f_tail' = fn
    /\ order' = Append(order, fn)
    /\ pc' = "head"
    /\ UNCHANGED <<f_head, fSize, fn_next, fn_id, allocated, MIWI_Counter,
                   strtokAt, fn, id>>

\* ... and then its head; the build may take the value again from f_tail.
MoveHead ==
    /\ pc = "head"
    /\ f_head' \in {fn, f_tail}
    /\ pc' = "bump"
    /\ UNCHANGED <<f_tail, fSize, fn_next, fn_id, allocated, MIWI_Counter,
                   strtokAt, fn, id, order>>

\* Bug: the new node is linked in front of the head.
LinkInFront ==
    /\ pc = "next"
    /\ fn_next' = [fn_next EXCEPT ![fn] = f_head]
    /\ f_head' = fn
    /\ order' = <<fn>> \o order
    /\ pc' = "bump"
    /\ UNCHANGED <<f_tail, fSize, fn_id, allocated, MIWI_Counter, strtokAt, fn, id>>

\* The node becomes the successor of the tail,
LinkNext ==
    /\ pc = "next"
    /\ fn_next' = [fn_next EXCEPT ![f_tail] = fn]
    /\ order' = Append(order, fn)
    /\ pc' = "tail"
    /\ UNCHANGED <<f_head, f_tail, fSize, fn_id, allocated, MIWI_Counter, strtokAt, fn, id>>

\* and then the tail.
MoveTail ==
    /\ pc = "tail"
    /\ f_tail' = fn
    /\ pc' = "bump"
    /\ UNCHANGED <<f_head, fSize, fn_next, fn_id, allocated, MIWI_Counter,
                   strtokAt, fn, id, order>>

Bump ==
    /\ pc = "bump"
    /\ MIWI_Counter' = NextId(MIWI_Counter)
    /\ pc' = "idle"
    /\ UNCHANGED <<list, allocated, strtokAt, fn, id, order>>

-----------------------------------------------------------------------------
(* fifo_remove, in the main loop.                                          *)

\* On an empty list it changes nothing.
RemoveNothing ==
    /\ pc = "idle"
    /\ f_head = NULL
    /\ UNCHANGED vars

TakeHead ==
    /\ pc = "idle"
    /\ f_head # NULL
    /\ fn' = f_head
    /\ pc' = "shrink"
    /\ UNCHANGED <<list, allocated, MIWI_Counter, strtokAt, id, order>>

Shrink ==
    /\ pc = "shrink"
    /\ fSize' = fSize - 1
    /\ pc' = "unlink"
    /\ UNCHANGED <<f_head, f_tail, fn_next, fn_id, allocated, MIWI_Counter,
                   strtokAt, fn, id, order>>

\* The messages in order, without the first one whose node is n.
Without(n, q) ==
    LET at == CHOOSE i \in 1..Len(q) : q[i] = n
    IN  [i \in 1..(Len(q) - 1) |-> q[IF i < at THEN i ELSE i + 1]]

\* Bug: a list that has become empty keeps its tail.
UnlinkHeadOnly ==
    /\ pc = "unlink"
    /\ f_head' = fn_next[fn]
    /\ order' = Without(fn, order)
    /\ pc' = "free"
    /\ UNCHANGED <<f_tail, fSize, fn_next, fn_id, allocated, MIWI_Counter,
                   strtokAt, fn, id>>

Unlink ==
    /\ pc = "unlink"
    /\ f_head' = fn_next[fn]
    /\ order' = Without(fn, order)
    /\ pc' = IF fn_next[fn] = NULL THEN "drop" ELSE "free"
    /\ UNCHANGED <<f_tail, fSize, fn_next, fn_id, allocated, MIWI_Counter,
                   strtokAt, fn, id>>

\* The list has become empty: it loses its tail too.
DropTail ==
    /\ pc = "drop"
    /\ f_tail' = NULL
    /\ pc' = "free"
    /\ UNCHANGED <<f_head, fSize, fn_next, fn_id, allocated, MIWI_Counter,
                   strtokAt, fn, id, order>>

Free ==
    /\ pc = "free"
    /\ allocated' = allocated \ {fn}
    /\ pc' = "idle"
    /\ UNCHANGED <<list, MIWI_Counter, strtokAt, fn, id, order>>

-----------------------------------------------------------------------------
(* The INT2 handler: MyMIWI_InsertMsg from its first to its last statement. *)

Interrupt ==
    /\ board = "LT24"
    /\ \E n \in Nodes \ allocated :
          /\ allocated' = allocated \cup {n}
          /\ strtokAt' = "interrupt"
          /\ fn_id' = [fn_id EXCEPT ![n] = MIWI_Counter]
          /\ fn_next' = [m \in Nodes |-> IF m = n THEN NULL
                                         ELSE IF m = f_tail THEN n ELSE fn_next[m]]
          /\ f_head' = IF f_tail = NULL THEN n ELSE f_head
          /\ f_tail' = n
          /\ fSize' = fSize + 1
          /\ MIWI_Counter' = NextId(MIWI_Counter)
          /\ order' = Append(order, n)
          /\ UNCHANGED <<pc, fn, id>>

-----------------------------------------------------------------------------
InsertMsg == Sprintf \/ Cut \/ Fill \/ TestTail \/ LinkFirst \/ MoveHead \/ LinkNext
             \/ MoveTail \/ Bump

fifo_remove == RemoveNothing \/ TakeHead \/ Shrink \/ Unlink \/ DropTail \/ Free

MainLoop == InsertMsg \/ fifo_remove

Next == (MainLoop \/ Interrupt) /\ UNCHANGED board

Spec == Init /\ [][Next]_<<board, vars>>

-----------------------------------------------------------------------------
(* Properties *)

TypeOK ==
    /\ board \in {"LT24", "MTL"}
    /\ f_head \in Pointer /\ f_tail \in Pointer /\ fSize \in Nat
    /\ fn_next \in [Nodes -> Pointer]
    /\ fn_id \in [Nodes -> Nat]
    /\ allocated \subseteq Nodes
    /\ MIWI_Counter \in Ids
    /\ strtokAt \in {"nowhere", "main", "interrupt"}
    /\ pc \in Statements
    /\ fn \in Pointer /\ id \in Nat
    /\ order \in Seq(Nodes)

\* Every message added is found from the head, in the order of the additions,
\* and the tail is the last of them (MyFifo.c:38, "Add an item to the end of
\* the fifo").  On the LT24 board the interrupt may fall between the
\* statements that link a node and lose one: there this does not hold.
ListIsOrder ==
    board = "MTL" /\ pc = "idle" =>
        /\ f_head = (IF order = <<>> THEN NULL ELSE order[1])
        /\ f_tail = (IF order = <<>> THEN NULL ELSE order[Len(order)])
        /\ \A i \in 1..Len(order) :
              fn_next[order[i]] = (IF i = Len(order) THEN NULL ELSE order[i + 1])
        /\ fSize = Len(order)

\* Whoever follows the list from its head or its tail meets no freed node, at any
\* statement and wherever the interrupt falls (MyFifo.c:81 frees the node only
\* after the head has left it, and the tail too if it was the last): the nodes
\* are some of the allocated ones, whose successors are of them too.
NoDangling ==
    \E nodes \in SUBSET allocated :
        /\ {f_head, f_tail} \subseteq nodes \cup {NULL}
        /\ \A n \in nodes : fn_next[n] \in nodes \cup {NULL}

\* A message removed does not come back: even when the interrupt spoils the
\* list, the head is a message not yet removed (MyFifo.c:79).
HeadWaits == f_head # NULL => \E i \in 1..Len(order) : order[i] = f_head

-----------------------------------------------------------------------------
(* On the MTL board the list implements the queue: a message enters it when
   it is linked, with its number, and leaves it when the head moves on.  On
   the LT24 board it is no queue, and the mapping says nothing.            *)

Numbers == [i \in 1..Len(order) |-> fn_id[order[i]]]

NextNumber ==
    IF pc \in {"head", "tail", "bump"} THEN NextId(MIWI_Counter) ELSE MIWI_Counter

Queue == INSTANCE MsgQueue
    WITH queue <- IF board = "MTL" THEN Numbers ELSE <<>>,
         counter <- IF board = "MTL" THEN NextNumber ELSE 1

\* Where no interrupt adds messages, the list is a queue of consecutively
\* numbered messages: none is lost, doubled or overtaken (MyFifo.c:39-83,
\* MyMIWI.c, MyMIWI_InsertMsg).
IsQueue == Queue!QSpec
=============================================================================
