---------------------------- MODULE MyFifoProofs ----------------------------
(***************************************************************************)
(* On the MTL board the linked list of MyFifo.c is a queue: its shape,     *)
(* whatever the statement the main loop has reached, and the refinement of *)
(* MsgQueue, for any set of addresses and any number of message numbers.   *)
(***************************************************************************)
EXTENDS MyFifo, SequenceTheorems, TLAPS

(* The nodes of the list are distinct and allocated, and they are linked in
   the order of their insertion, from the head to the tail.                *)
Distinct == \A i, j \in 1..Len(order) : order[i] = order[j] => i = j

Live == \A i \in 1..Len(order) : order[i] \in allocated

\* The head lags behind between the two stores that begin a list.
First == f_head = IF order = <<>> \/ pc = "head" THEN NULL ELSE order[1]

Links == \A i \in 1..Len(order) :
            fn_next[order[i]] = IF i = Len(order) THEN NULL ELSE order[i + 1]

\* The tail lags behind between the two statements of fifo_add that link a
\* node, and between the two of fifo_remove that empty the list.
Last ==
    IF pc = "drop" THEN f_tail = fn
    ELSE IF pc = "tail" THEN Len(order) > 1 /\ f_tail = order[Len(order) - 1]
    ELSE f_tail = IF order = <<>> THEN NULL ELSE order[Len(order)]

Size ==
    /\ pc \in {"link", "first", "next"} => fSize = Len(order) + 1
    /\ pc = "unlink" => fSize + 1 = Len(order)
    /\ pc \notin {"link", "first", "next", "unlink"} => fSize = Len(order)

\* What the local variable fn is at each statement.
Local ==
    /\ pc \in {"cut", "number", "link", "first", "next"} =>
          fn \in allocated /\ \A i \in 1..Len(order) : order[i] # fn
    /\ pc \in {"link", "first", "next"} => fn_next[fn] = NULL
    /\ pc = "first" => order = <<>>
    /\ pc = "next" => order # <<>>
    /\ pc = "head" => Len(order) = 1
    /\ pc \in {"head", "tail", "bump"} => order # <<>> /\ fn = order[Len(order)]
    /\ pc \in {"shrink", "unlink"} => order # <<>> /\ fn = order[1]
    /\ pc \in {"drop", "free"} =>
          fn \in Nodes /\ \A i \in 1..Len(order) : order[i] # fn
    /\ pc = "drop" => order = <<>>

\* The numbers follow each other, up to the one the next message will have.
Numbered ==
    /\ \A i \in 1..Len(order) :
          fn_id[order[i]] \in Ids
    /\ \A i \in 1..Len(order) :
          i # Len(order) => fn_id[order[i + 1]] = NextId(fn_id[order[i]])
    /\ order # <<>> => NextId(fn_id[order[Len(order)]]) = NextNumber
    /\ pc \in {"cut", "number"} => id = MIWI_Counter
    /\ pc = "number" => strtokAt = "main"
    /\ pc \in {"link", "first", "next", "head", "tail", "bump"} =>
          fn_id[fn] = MIWI_Counter

Shape == Distinct /\ Live /\ First /\ Links /\ Last /\ Size /\ Local

Inv == TypeOK /\ Shape /\ Numbered

-----------------------------------------------------------------------------
(* Sequences and numbers *)

LEMMA AppendFacts ==
  ASSUME order \in Seq(Nodes), NEW n \in Nodes, order' = Append(order, n)
  PROVE  /\ order' \in Seq(Nodes)
         /\ Len(order') = Len(order) + 1
         /\ order' # <<>>
         /\ order'[Len(order) + 1] = n
         /\ \A i \in 1..Len(order) : order'[i] = order[i]
<1> QED
  BY SMT

LEMMA TailFacts ==
  ASSUME order \in Seq(Nodes), order # <<>>, order' = Tail(order)
  PROVE  /\ order' \in Seq(Nodes)
         /\ Len(order') = Len(order) - 1 /\ Len(order') \in Nat
         /\ order' = <<>> <=> Len(order) = 1
         /\ \A i \in 1..Len(order') : order'[i] = order[i + 1]
<1>1. Tail(order) \in Seq(Nodes) /\ Len(Tail(order)) = Len(order) - 1
  BY SMT
<1>2. \A i \in 1..Len(Tail(order)) : Tail(order)[i] = order[i + 1]
  BY <1>1, SMT
<1>3. Tail(order) = <<>> <=> Len(Tail(order)) = 0
  BY <1>1, EmptySeq
<1>4. Len(order) \in Nat /\ Len(order) # 0
  BY EmptySeq, LenProperties
<1> QED
  BY <1>1, <1>2, <1>3, <1>4

\* n is among the messages q.
Waits(n, q) == \E i \in 1..Len(q) : q[i] = n

\* Removing one message keeps the others.
LEMMA WithoutKeeps ==
  ASSUME NEW q \in Seq(Nodes), NEW n, NEW h \in 1..Len(q), q[h] = n
  PROVE  /\ Without(n, q) \in Seq(Nodes)
         /\ \A m : Waits(m, q) /\ m # n => Waits(m, Without(n, q))
<1> DEFINE at == CHOOSE i \in 1..Len(q) : q[i] = n
           rest == [i \in 1..(Len(q) - 1) |-> q[IF i < at THEN i ELSE i + 1]]
<1>1. at \in 1..Len(q) /\ q[at] = n
  OBVIOUS
<1>2. Without(n, q) = rest
  BY DEF Without
<1>3. Len(q) \in Nat \ {0} /\ \A i \in 1..Len(q) : q[i] \in Nodes
  BY ElementOfSeq, LenProperties
<1> HIDE DEF at
<1>4. \A i \in 1..(Len(q) - 1) : rest[i] \in Nodes
  BY <1>1, <1>3
<1>5. rest \in Seq(Nodes) /\ Len(rest) = Len(q) - 1
  BY <1>3, <1>4
<1>6. ASSUME NEW j \in 1..Len(q), q[j] # n
      PROVE  \E k \in 1..(Len(q) - 1) : rest[k] = q[j]
  <2>1. CASE j < at
    <3>1. j \in 1..(Len(q) - 1)
      BY <1>1, <1>3, <2>1
    <3> QED
      BY <2>1, <3>1
  <2>2. CASE j > at
    <3>1. j - 1 \in 1..(Len(q) - 1) /\ ~(j - 1 < at) /\ (j - 1) + 1 = j
      BY <1>1, <1>3, <2>2
    <3> QED
      BY <3>1
  <2> QED
    BY <1>1, <1>6, <2>1, <2>2
<1> HIDE DEF rest
<1>7. ASSUME NEW m, Waits(m, q), m # n PROVE Waits(m, rest)
  BY <1>5, <1>6, <1>7 DEF Waits
<1> QED
  BY <1>2, <1>5, <1>7

\* The list the main loop leaves behind begins with the node it removes.
LEMMA WithoutHead ==
  ASSUME NEW q \in Seq(Nodes), q # <<>>, NEW n, q[1] = n,
         \A i \in 1..Len(q) : q[i] = n => i = 1
  PROVE  Without(n, q) = Tail(q)
<1>1. Len(q) \in Nat \ {0}
  BY EmptySeq, LenProperties
<1>2. (CHOOSE i \in 1..Len(q) : q[i] = n) = 1
  BY <1>1
<1>3. Without(n, q) = [i \in 1..(Len(q) - 1) |-> q[i + 1]]
  BY <1>1, <1>2 DEF Without
<1> DEFINE rest == [i \in 1..(Len(q) - 1) |-> q[i + 1]]
<1>4. \A i \in 1..(Len(q) - 1) : rest[i] \in Nodes
  BY <1>1, ElementOfSeq
<1>5. rest \in Seq(Nodes) /\ Len(rest) = Len(q) - 1
  BY <1>1, <1>4
<1>6. /\ Tail(q) \in Seq(Nodes) /\ Len(Tail(q)) = Len(q) - 1
      /\ \A i \in 1..Len(Tail(q)) : Tail(q)[i] = q[i + 1]
  BY HeadTailProperties
<1>7. \A i \in 1..Len(rest) : rest[i] = Tail(q)[i]
  BY <1>5, <1>6
<1>8. rest = Tail(q)
  <2> HIDE DEF rest
  <2> QED
    BY <1>5, <1>6, <1>7, SeqEqual
<1> QED
  BY <1>3, <1>8

\* The places of a list and those of the list without its first node.
LEMMA Shift ==
  \A n \in Nat \ {0}, m \in Nat : m = n - 1 =>
    /\ n # 1 => 1 \in 1..m /\ 2 \in 1..n
    /\ 1 \in 1..n /\ 1 + 1 = 2
    /\ \A i \in 1..m :
        /\ i + 1 \in 1..n
        /\ i + 1 = n <=> i = m
        /\ i # m => i + 1 \in 1..m
<1> QED
  BY SMT

LEMMA NextIdInIds == \A c \in Ids : NextId(c) \in Ids
<1> QED
  BY WrapAssumption DEF NextId, Ids

-----------------------------------------------------------------------------
(* The invariant *)

LEMMA InitInv == Init => Inv
<1> SUFFICES ASSUME Init PROVE Inv
  OBVIOUS
<1>1. TypeOK
  BY WrapAssumption DEF Init, TypeOK, Pointer, Ids, Statements, Body
<1>2. Shape
  BY DEF Init, Shape, Distinct, Live, First, Links, Last, Size, Local
<1>3. Numbered
  BY DEF Init, Numbered
<1> QED
  BY <1>1, <1>2, <1>3 DEF Inv

LEMMA UnlinkTail ==
  ASSUME Inv, Unlink
  PROVE  /\ order \in Seq(Nodes) /\ order # <<>> /\ fn = order[1]
         /\ order' = Tail(order) /\ Len(order) \in Nat \ {0}
<1>1. order \in Seq(Nodes) /\ order # <<>> /\ fn = order[1]
  BY DEF Inv, TypeOK, Unlink, Shape, Local
<1>2. Len(order) \in Nat \ {0}
  BY <1>1, EmptySeq, LenProperties
<1>3. \A i \in 1..Len(order) : order[i] = fn => i = 1
  BY <1>1, <1>2 DEF Inv, Shape, Distinct
<1> QED
  BY <1>1, <1>2, <1>3, WithoutHead DEF Unlink

\* A list without a tail is empty.
LEMMA NoTail ==
  ASSUME Inv, pc = "link"
  PROVE  f_tail = NULL <=> order = <<>>
<1>1. order = <<>> \/ Len(order) \in 1..Len(order)
  BY EmptySeq, LenProperties DEF Inv, TypeOK
<1>2. order # <<>> => order[Len(order)] \in Nodes
  BY <1>1 DEF Inv, TypeOK
<1> QED
  BY <1>2, NodesAssumption DEF Inv, Shape, Last

LEMMA TypeStep ==
  ASSUME Inv, MainLoop, UNCHANGED board
  PROVE  TypeOK'
<1> USE DEF TypeOK, Pointer, Statements, list
<1>1. CASE Sprintf
  BY <1>1 DEF Inv, Sprintf, Ids
<1>2. CASE Cut
  BY <1>2 DEF Inv, Cut
<1>3. CASE Fill
  <2>1. Number(strtokAt, id) \in Nat
    BY DEF Inv, Number, Body
  <2> QED
    BY <1>3, <2>1 DEF Inv, Fill, Shape, Local
<1>4. CASE LinkFirst
  <2>1. fn \in Nodes
    BY <1>4 DEF Inv, LinkFirst, Shape, Local
  <2>2. order' \in Seq(Nodes)
    BY <1>4, <2>1, AppendFacts DEF Inv, LinkFirst
  <2> QED
    BY <1>4, <2>2 DEF Inv, LinkFirst
<1>5. CASE LinkNext
  <2>1. fn \in Nodes
    BY <1>5 DEF Inv, LinkNext, Shape, Local
  <2>2. order' \in Seq(Nodes)
    BY <1>5, <2>1, AppendFacts DEF Inv, LinkNext
  <2> QED
    BY <1>5, <2>1, <2>2 DEF Inv, LinkNext
<1>6. CASE MoveTail
  BY <1>6 DEF Inv, MoveTail
<1>7. CASE Bump
  BY <1>7, NextIdInIds DEF Inv, Bump
<1>8. CASE RemoveNothing
  BY <1>8 DEF Inv, RemoveNothing, vars
<1>9. CASE TakeHead
  BY <1>9 DEF Inv, TakeHead
<1>10. CASE Shrink
  <2>1. fSize > 0
    BY <1>10 DEF Inv, Shrink, Shape, Size, Local
  <2> QED
    BY <1>10, <2>1 DEF Inv, Shrink
<1>11. CASE Unlink
  <2>1. fn \in Nodes /\ order # <<>> /\ order[1] = fn
    BY <1>11 DEF Inv, Unlink, Shape, Local
  <2>2. order' \in Seq(Nodes)
    BY <1>11, UnlinkTail, TailFacts
  <2> QED
    BY <1>11, <2>1, <2>2 DEF Inv, Unlink
<1>12. CASE DropTail
  BY <1>12 DEF Inv, DropTail
<1>13. CASE Free
  BY <1>13 DEF Inv, Free
<1>14. CASE TestTail
  BY <1>14 DEF Inv, TestTail
<1>15. CASE MoveHead
  BY <1>15 DEF Inv, MoveHead
<1> QED
  BY <1>1, <1>2, <1>3, <1>4, <1>5, <1>6, <1>7, <1>8, <1>9, <1>10, <1>11, <1>12,
     <1>13, <1>14, <1>15 DEF MainLoop, InsertMsg, fifo_remove

LEMMA ShapeStep ==
  ASSUME Inv, MainLoop
  PROVE  Shape'
<1> USE DEF Shape, Distinct, Live, First, Links, Last, Size, Local
<1>1. CASE Sprintf
  BY <1>1 DEF Inv, TypeOK, Sprintf, list
<1>2. CASE Cut
  BY <1>2 DEF Inv, TypeOK, Cut, list
<1>3. CASE Fill
  BY <1>3 DEF Inv, TypeOK, Fill
<1>4. CASE LinkFirst
  <2>1. /\ order \in Seq(Nodes) /\ fn \in Nodes /\ order' = Append(order, fn)
        /\ order = <<>>
    BY <1>4 DEF Inv, TypeOK, LinkFirst
  <2>2. Len(order') = 1 /\ order' # <<>> /\ order'[1] = fn
    BY <2>1, AppendFacts
  <2> QED
    BY <1>4, <2>1, <2>2 DEF Inv, TypeOK, LinkFirst
<1>5. CASE LinkNext
  <2>1. order \in Seq(Nodes) /\ fn \in Nodes /\ order' = Append(order, fn)
    BY <1>5 DEF Inv, TypeOK, LinkNext
  <2>2. order # <<>> /\ Len(order) \in Nat \ {0} /\ f_tail = order[Len(order)]
    BY <1>5, <2>1, EmptySeq, LenProperties DEF Inv, LinkNext
  <2>3. /\ Len(order') = Len(order) + 1 /\ order' # <<>>
        /\ order'[Len(order) + 1] = fn
        /\ \A i \in 1..Len(order) : order'[i] = order[i]
    BY <2>1, AppendFacts
  <2>4. \A i \in 1..Len(order) : order[i] \in Nodes /\ order[i] # fn
    BY <1>5, <2>1 DEF Inv, LinkNext
  <2>5. Distinct'
    BY <2>2, <2>3, <2>4 DEF Inv
  <2>6. Links'
    <3>1. fn_next' = [fn_next EXCEPT ![order[Len(order)]] = fn]
      BY <1>5, <2>2 DEF LinkNext
    <3>2. fn_next'[fn] = NULL
      BY <1>5, <2>2, <2>4, <3>1 DEF Inv, TypeOK, LinkNext
    <3>3. \A i \in 1..Len(order) :
            fn_next'[order[i]] = IF i = Len(order) THEN fn ELSE order[i + 1]
      BY <2>2, <2>4, <3>1 DEF Inv, TypeOK
    <3> QED
      BY <2>2, <2>3, <3>2, <3>3
  <2>7. Live' /\ First' /\ Last' /\ Size' /\ Local'
    BY <1>5, <2>2, <2>3, <2>4 DEF Inv, TypeOK, LinkNext
  <2> QED
    BY <2>5, <2>6, <2>7
<1>6. CASE MoveTail
  BY <1>6 DEF Inv, TypeOK, MoveTail
<1>7. CASE Bump
  BY <1>7 DEF Inv, TypeOK, Bump, list
<1>8. CASE RemoveNothing
  BY <1>8 DEF Inv, TypeOK, RemoveNothing, vars
<1>9. CASE TakeHead
  BY <1>9 DEF Inv, TypeOK, TakeHead, list
<1>10. CASE Shrink
  BY <1>10 DEF Inv, TypeOK, Shrink
<1>11. CASE Unlink
  <2>1. /\ order \in Seq(Nodes) /\ order # <<>> /\ fn = order[1]
        /\ order' = Tail(order) /\ Len(order) \in Nat \ {0}
    BY <1>11, UnlinkTail
  <2>2. /\ Len(order') = Len(order) - 1 /\ Len(order') \in Nat
        /\ order' = <<>> <=> Len(order) = 1
        /\ \A i \in 1..Len(order') : order'[i] = order[i + 1]
    BY <2>1, TailFacts
  <2>3. fn_next[fn] = IF Len(order) = 1 THEN NULL ELSE order[2]
    <3>1. 1 \in 1..Len(order) /\ 1 + 1 = 2
      BY <2>1
    <3>2. fn_next[order[1]] = IF 1 = Len(order) THEN NULL ELSE order[1 + 1]
      BY <3>1 DEF Inv
    <3> QED
      BY <2>1, <3>1, <3>2
  <2>4. \A i \in 1..Len(order) : order[i] \in Nodes
    BY <2>1, ElementOfSeq
  <2>5. Distinct' /\ Live' /\ First' /\ Links'
    <3>1. \A i \in 1..Len(order') :
            /\ i + 1 \in 1..Len(order)
            /\ i + 1 = Len(order) <=> i = Len(order')
            /\ i # Len(order') => i + 1 \in 1..Len(order')
      BY <2>1, <2>2, Shift
    <3>2. /\ f_head' = fn_next[fn]
          /\ UNCHANGED <<fn_next, allocated>>
      BY <1>11 DEF Unlink
    <3>3. Distinct'
      <4> SUFFICES ASSUME NEW i \in 1..Len(order'), NEW j \in 1..Len(order'),
                          order'[i] = order'[j]
                   PROVE  i = j
        OBVIOUS
      <4>1. order[i + 1] = order[j + 1]
        BY <2>2
      <4>2. i + 1 = j + 1
        BY <3>1, <4>1 DEF Inv
      <4> QED
        BY <4>2
    <3>4. Live'
      BY <2>1, <2>2, <3>1, <3>2 DEF Inv
    <3>5. First'
      <4>1. Len(order) # 1 => 1 \in 1..Len(order')
        BY <2>1, <2>2
      <4>2. pc' # "head"
        BY <1>11 DEF Unlink
      <4> QED
        BY <2>1, <2>2, <2>3, <3>2, <4>1, <4>2
    <3>6. Links'
      <4> SUFFICES ASSUME NEW i \in 1..Len(order')
                   PROVE  fn_next'[order'[i]] = IF i = Len(order') THEN NULL
                                                ELSE order'[i + 1]
        OBVIOUS
      <4>1. fn_next[order[i + 1]] = IF i + 1 = Len(order) THEN NULL
                                    ELSE order[i + 1 + 1]
        BY <3>1 DEF Inv
      <4>2. order'[i] = order[i + 1]
        BY <2>2
      <4>3. i # Len(order') => order'[i + 1] = order[i + 1 + 1]
        BY <2>2, <3>1
      <4>4. i + 1 = Len(order) <=> i = Len(order')
        BY <3>1
      <4> QED
        BY <3>2, <4>1, <4>2, <4>3, <4>4
    <3> QED
      BY <3>3, <3>4, <3>5, <3>6
  <2>6. pc' = IF Len(order) = 1 THEN "drop" ELSE "free"
    <3>1. Len(order) # 1 => order[2] # NULL
      BY <2>1, <2>2, <2>4, Shift, NodesAssumption
    <3> QED
      BY <1>11, <2>3, <3>1 DEF Unlink
  <2>7. Last'
    BY <1>11, <2>1, <2>2, <2>6 DEF Inv, Unlink
  <2>8. Size'
    BY <1>11, <2>1, <2>2, <2>6 DEF Inv, TypeOK, Unlink
  <2>9. Local'
    BY <1>11, <2>1, <2>2, <2>4, <2>6 DEF Inv, TypeOK, Unlink
  <2> QED
    BY <2>5, <2>7, <2>8, <2>9
<1>12. CASE DropTail
  BY <1>12 DEF Inv, TypeOK, DropTail
<1>13. CASE Free
  BY <1>13 DEF Inv, TypeOK, Free, list
<1>14. CASE TestTail
  BY <1>14, NoTail DEF Inv, TypeOK, TestTail, list
<1>15. CASE MoveHead
  <2>1. order # <<>> /\ fn = order[1] /\ f_tail = fn /\ f_head' = fn
    BY <1>15 DEF Inv, TypeOK, MoveHead
  <2> QED
    BY <1>15, <2>1 DEF Inv, TypeOK, MoveHead
<1> QED
  BY <1>1, <1>2, <1>3, <1>4, <1>5, <1>6, <1>7, <1>8, <1>9, <1>10, <1>11, <1>12,
     <1>13, <1>14, <1>15 DEF MainLoop, InsertMsg, fifo_remove

LEMMA NumberedStep ==
  ASSUME Inv, MainLoop
  PROVE  Numbered'
<1> USE DEF Numbered, NextNumber
<1>1. CASE Sprintf
  BY <1>1 DEF Inv, TypeOK, Sprintf, list
<1>2. CASE Cut
  BY <1>2 DEF Inv, TypeOK, Cut, list
<1>3. CASE Fill
  <2>1. \A i \in 1..Len(order) : order[i] # fn
    BY <1>3 DEF Inv, Shape, Local, Fill
  <2>2. id' = MIWI_Counter
    BY <1>3 DEF Inv, Fill, Number
  <2>3. fn \in Nodes
    BY <1>3 DEF Inv, TypeOK, Fill, Shape, Local
  <2>4. \A i \in 1..Len(order) : fn_id'[order[i]] = fn_id[order[i]]
    BY <1>3, <2>1 DEF Inv, TypeOK, Fill
  <2>5. order # <<>> => Len(order) \in 1..Len(order)
    BY EmptySeq, LenProperties DEF Inv, TypeOK
  <2> QED
    BY <1>3, <2>2, <2>3, <2>4, <2>5 DEF Inv, TypeOK, Fill
<1>4. CASE LinkFirst
  <2>1. order = <<>> /\ fn \in Nodes /\ order' = Append(order, fn)
    BY <1>4 DEF Inv, TypeOK, LinkFirst, Shape, Local
  <2>2. Len(order') = 1 /\ order' # <<>> /\ order'[1] = fn
    BY <2>1, AppendFacts DEF Inv, TypeOK
  <2> QED
    BY <1>4, <2>1, <2>2 DEF Inv, TypeOK, LinkFirst
<1>5. CASE LinkNext
  <2>1. /\ order \in Seq(Nodes) /\ fn \in Nodes /\ order' = Append(order, fn)
        /\ order # <<>> /\ Len(order) \in Nat \ {0}
    BY <1>5, EmptySeq, LenProperties DEF Inv, TypeOK, LinkNext, Shape, Last, Local
  <2>2. /\ Len(order') = Len(order) + 1 /\ order' # <<>>
        /\ order'[Len(order) + 1] = fn
        /\ \A i \in 1..Len(order) : order'[i] = order[i]
    BY <2>1, AppendFacts
  <2>3. fn_id'[fn] = MIWI_Counter /\ MIWI_Counter \in Ids
    BY <1>5 DEF Inv, TypeOK, LinkNext
  <2>4. NextId(fn_id[order[Len(order)]]) = MIWI_Counter
    BY <1>5, <2>1 DEF Inv, LinkNext
  <2>5. \A i \in 1..Len(order') : i # Len(order') =>
          fn_id'[order'[i + 1]] = NextId(fn_id'[order'[i]])
    <3> SUFFICES ASSUME NEW i \in 1..Len(order'), i # Len(order')
                 PROVE  fn_id'[order'[i + 1]] = NextId(fn_id'[order'[i]])
      OBVIOUS
    <3>1. i \in 1..Len(order) /\ order'[i] = order[i]
      BY <2>1, <2>2
    <3>2. CASE i = Len(order)
      BY <1>5, <2>1, <2>2, <2>3, <2>4, <3>1, <3>2 DEF LinkNext
    <3>3. CASE i # Len(order)
      <4>1. order'[i + 1] = order[i + 1]
        BY <2>1, <2>2, <3>1, <3>3
      <4> QED
        BY <1>5, <3>1, <3>3, <4>1 DEF Inv, LinkNext
    <3> QED
      BY <3>2, <3>3
  <2>6. \A i \in 1..Len(order') : fn_id'[order'[i]] \in Ids
    BY <1>5, <2>1, <2>2, <2>3 DEF Inv, LinkNext
  <2> QED
    BY <1>5, <2>1, <2>2, <2>3, <2>5, <2>6 DEF Inv, LinkNext
<1>6. CASE MoveTail
  BY <1>6 DEF Inv, TypeOK, MoveTail
<1>7. CASE Bump
  BY <1>7 DEF Inv, TypeOK, Bump, list, Shape, Local
<1>8. CASE RemoveNothing
  BY <1>8 DEF Inv, TypeOK, RemoveNothing, vars
<1>9. CASE TakeHead
  BY <1>9 DEF Inv, TypeOK, TakeHead, list
<1>10. CASE Shrink
  BY <1>10 DEF Inv, TypeOK, Shrink
<1>11. CASE Unlink
  <2>1. /\ order \in Seq(Nodes) /\ order # <<>> /\ fn = order[1]
        /\ order' = Tail(order) /\ Len(order) \in Nat \ {0}
    BY <1>11, UnlinkTail
  <2>2. /\ Len(order') = Len(order) - 1 /\ Len(order') \in Nat
        /\ order' = <<>> <=> Len(order) = 1
        /\ \A i \in 1..Len(order') : order'[i] = order[i + 1]
    BY <2>1, TailFacts
  <2>3. \A i \in 1..Len(order') : i + 1 \in 1..Len(order)
    BY <2>1, <2>2
  <2>4. /\ UNCHANGED <<fn_id, MIWI_Counter>>
        /\ pc = "unlink" /\ pc' \in {"drop", "free"}
    BY <1>11 DEF Unlink
  <2>5. \A i \in 1..Len(order') : fn_id'[order'[i]] \in Ids
    BY <2>2, <2>3, <2>4 DEF Inv
  <2>6. \A i \in 1..Len(order') : i # Len(order') =>
          fn_id'[order'[i + 1]] = NextId(fn_id'[order'[i]])
    <3> SUFFICES ASSUME NEW i \in 1..Len(order'), i # Len(order')
                 PROVE  fn_id'[order'[i + 1]] = NextId(fn_id'[order'[i]])
      OBVIOUS
    <3>0. \A k \in 1..Len(order') :
            /\ k + 1 \in 1..Len(order)
            /\ k + 1 = Len(order) <=> k = Len(order')
            /\ k # Len(order') => k + 1 \in 1..Len(order')
      BY <2>1, <2>2, Shift
    <3>1. /\ i + 1 \in 1..Len(order) /\ i + 1 # Len(order)
          /\ i + 1 \in 1..Len(order')
      BY <3>0
    <3>2. order'[i] = order[i + 1] /\ order'[i + 1] = order[i + 1 + 1]
      BY <2>2, <3>1
    <3> QED
      BY <2>4, <3>1, <3>2 DEF Inv
  <2>7. order' # <<>> => order'[Len(order')] = order[Len(order)]
    <3>1. order' # <<>> => Len(order') \in 1..Len(order') /\ Len(order') + 1 = Len(order)
      BY <2>1, <2>2
    <3> QED
      BY <2>2, <3>1
  <2> QED
    BY <2>1, <2>4, <2>5, <2>6, <2>7 DEF Inv
<1>12. CASE DropTail
  BY <1>12 DEF Inv, TypeOK, DropTail
<1>13. CASE Free
  BY <1>13 DEF Inv, TypeOK, Free, list
<1>14. CASE TestTail
  BY <1>14 DEF Inv, TypeOK, TestTail, list
<1>15. CASE MoveHead
  BY <1>15 DEF Inv, TypeOK, MoveHead
<1> QED
  BY <1>1, <1>2, <1>3, <1>4, <1>5, <1>6, <1>7, <1>8, <1>9, <1>10, <1>11, <1>12,
     <1>13, <1>14, <1>15 DEF MainLoop, InsertMsg, fifo_remove

\* The interrupt of the LT24 board keeps none of this.
MTLInv == board = "MTL" => Inv

LEMMA InvStep == MTLInv /\ [Next]_<<board, vars>> => MTLInv'
<1> SUFFICES ASSUME MTLInv, [Next]_<<board, vars>>, board' = "MTL" PROVE Inv'
  BY DEF MTLInv
<1>1. board = "MTL" /\ Inv /\ UNCHANGED board
  BY DEF MTLInv, Next
<1>2. CASE Next
  <2>1. MainLoop
    BY <1>1, <1>2 DEF Next, Interrupt
  <2> QED
    BY <1>1, <2>1, TypeStep, ShapeStep, NumberedStep DEF Inv
<1>3. CASE UNCHANGED <<board, vars>>
  BY <1>1, <1>3 DEF vars, Inv, TypeOK, Shape, Distinct, Live, First, Links, Last,
                    Size, Local, Numbered, NextNumber
<1> QED
  BY <1>2, <1>3

LEMMA InvAlways == Spec => []MTLInv
<1>1. Init => MTLInv
  BY InitInv DEF MTLInv
<1> QED
  BY <1>1, InvStep, PTL DEF Spec

LEMMA InvImpliesListIsOrder == Inv => ListIsOrder
<1> QED
  BY DEF Inv, Shape, First, Links, Last, Size, ListIsOrder

\* On the MTL board, between two calls the list holds every message added
\* and not yet removed, in order: fifo_add and fifo_remove (MyFifo.c:39-83).
THEOREM ListIsOrderAlways == Spec => []ListIsOrder
<1>1. MTLInv => ListIsOrder
  BY InvImpliesListIsOrder DEF MTLInv, ListIsOrder
<1> QED
  BY <1>1, InvAlways, PTL

-----------------------------------------------------------------------------
(* The refinement *)

LEMMA InitQueue == Init => Queue!QInit
<1> SUFFICES ASSUME Init PROVE Queue!QInit
  OBVIOUS
<1>1. Numbers = <<>>
  BY DEF Init, Numbers
<1>2. NextNumber = 1
  BY DEF Init, NextNumber
<1> QED
  BY <1>1, <1>2 DEF Queue!QInit

\* Linking a node appends its number.
LEMMA LinkAdds ==
  ASSUME Inv, board = "MTL", UNCHANGED board, pc \in {"first", "next"}, fn \in Nodes,
         order' = Append(order, fn),
         UNCHANGED <<fn_id, MIWI_Counter>>, pc' \in {"head", "tail"}
  PROVE  Queue!Add
<1>1. /\ order \in Seq(Nodes) /\ fn_id[fn] = MIWI_Counter
      /\ fn_id \in [Nodes -> Nat]
  BY DEF Inv, TypeOK, Numbered
<1>2. /\ Len(order') = Len(order) + 1 /\ Len(order) \in Nat
      /\ order'[Len(order) + 1] = fn
      /\ \A i \in 1..Len(order) : order'[i] = order[i]
  BY <1>1, AppendFacts, LenProperties
<1>3. Numbers \in Seq(Nat) /\ Len(Numbers) = Len(order)
  BY <1>1, <1>2, ElementOfSeq DEF Numbers
<1>4. NextNumber = MIWI_Counter /\ NextNumber' = NextId(MIWI_Counter)
  BY DEF NextNumber
<1>5. Numbers' = [i \in 1..(Len(order) + 1) |->
                    IF i = Len(order) + 1 THEN MIWI_Counter ELSE fn_id[order[i]]]
  BY <1>1, <1>2 DEF Numbers
<1>6. Append(Numbers, MIWI_Counter) =
        [i \in 1..(Len(order) + 1) |->
           IF i = Len(order) + 1 THEN MIWI_Counter ELSE fn_id[order[i]]]
  BY <1>1, <1>2, <1>3 DEF Numbers
<1> QED
  BY <1>4, <1>5, <1>6 DEF Queue!Add, Queue!NextId, NextId

\* Unlinking the head removes the oldest number.
LEMMA UnlinkRemoves ==
  ASSUME Inv, Unlink, board = "MTL", UNCHANGED board
  PROVE  Queue!Remove
<1>1. /\ order \in Seq(Nodes) /\ order # <<>>
      /\ order' = Tail(order) /\ Len(order) \in Nat \ {0}
  BY UnlinkTail
<1>2. /\ Len(order') = Len(order) - 1 /\ Len(order') \in Nat
      /\ \A i \in 1..Len(order') : order'[i] = order[i + 1]
  BY <1>1, TailFacts
<1>3. UNCHANGED <<fn_id, MIWI_Counter>> /\ pc = "unlink" /\ pc' \in {"drop", "free"}
  BY DEF Unlink
<1>4. \A i \in 1..Len(order) : fn_id[order[i]] \in Nat
  BY <1>1, ElementOfSeq DEF Inv, TypeOK
<1>5. Numbers \in Seq(Nat) /\ Len(Numbers) = Len(order) /\ Numbers # <<>>
  BY <1>1, <1>4 DEF Numbers
<1>6. /\ Tail(Numbers) \in Seq(Nat) /\ Len(Tail(Numbers)) = Len(order')
      /\ \A i \in 1..Len(order') : Tail(Numbers)[i] = Numbers[i + 1]
  BY <1>2, <1>5, HeadTailProperties
<1>7. \A i \in 1..Len(order') : i + 1 \in 1..Len(order)
  BY <1>1, <1>2, Shift
<1>8. Numbers' \in Seq(Nat) /\ Len(Numbers') = Len(order')
  BY <1>2, <1>3, <1>4, <1>7 DEF Numbers
<1>9. \A i \in 1..Len(order') : Numbers'[i] = Tail(Numbers)[i]
  BY <1>2, <1>3, <1>6, <1>7 DEF Numbers
<1>10. Numbers' = Tail(Numbers)
  BY <1>6, <1>8, <1>9, SeqEqual
<1> QED
  BY <1>3, <1>5, <1>10 DEF Queue!Remove, NextNumber

\* The other statements leave the queue as it is.
LEMMA OthersStutter ==
  ASSUME Inv, MainLoop, UNCHANGED board, ~LinkFirst, ~LinkNext, ~Unlink
  PROVE  UNCHANGED Queue!qvars
<1> USE DEF NextNumber, Queue!qvars
<1>1. CASE Fill
  <2>1. \A i \in 1..Len(order) : order[i] # fn
    BY <1>1 DEF Inv, Shape, Local, Fill
  <2>2. \A i \in 1..Len(order) : fn_id'[order[i]] = fn_id[order[i]]
    BY <1>1, <2>1, ElementOfSeq DEF Inv, TypeOK, Fill
  <2> QED
    BY <1>1, <2>2 DEF Fill, Numbers
<1>2. CASE Sprintf \/ Cut \/ TestTail \/ MoveHead \/ MoveTail \/ Bump \/ RemoveNothing
  BY <1>2 DEF Sprintf, Cut, TestTail, MoveHead, MoveTail, Bump, RemoveNothing, vars,
              list, Numbers
<1>3. CASE TakeHead \/ Shrink \/ DropTail \/ Free
  BY <1>3 DEF TakeHead, Shrink, DropTail, Free, list, Numbers
<1> QED
  BY <1>1, <1>2, <1>3 DEF MainLoop, InsertMsg, fifo_remove

LEMMA StepQueue ==
  MTLInv /\ [Next]_<<board, vars>> => [Queue!QNext]_(Queue!qvars)
<1> SUFFICES ASSUME MTLInv, [Next]_<<board, vars>>
             PROVE  [Queue!QNext]_(Queue!qvars)
  OBVIOUS
<1>1. UNCHANGED board
  BY DEF Next
<1>2. CASE board # "MTL" \/ UNCHANGED <<board, vars>>
  BY <1>1, <1>2 DEF vars, Queue!qvars, Numbers, NextNumber
<1>3. CASE board = "MTL" /\ MainLoop
  <2>1. Inv
    BY <1>3 DEF MTLInv
  <2>2. CASE LinkFirst \/ LinkNext
    <3>1. fn \in Nodes
      BY <2>1, <2>2 DEF LinkFirst, LinkNext, Inv, TypeOK, Shape, Local
    <3> QED
      BY <1>1, <1>3, <2>1, <2>2, <3>1, LinkAdds
      DEF LinkFirst, LinkNext, Queue!QNext
  <2>3. CASE Unlink
    BY <1>1, <1>3, <2>1, <2>3, UnlinkRemoves DEF Queue!QNext
  <2>4. CASE ~LinkFirst /\ ~LinkNext /\ ~Unlink
    BY <1>1, <1>3, <2>1, <2>4, OthersStutter
  <2> QED
    BY <2>2, <2>3, <2>4
<1> QED
  BY <1>2, <1>3 DEF Next, Interrupt

\* On the MTL board, where only the main loop calls it, the list of MyFifo.c
\* implements the queue of MsgQueue: messages leave in the order they came,
\* each with the number after the one before.
THEOREM FifoIsQueue == Spec => IsQueue
<1> QED
  BY InitQueue, StepQueue, InvAlways, PTL DEF Spec, IsQueue, Queue!QSpec

-----------------------------------------------------------------------------
(* On both boards, wherever the interrupt falls: the list leads to no freed
   node, and its head is a message not yet removed.  The list may lose nodes,
   and a lost node may lead anywhere, so all there is to say is of some set
   of nodes that the head and the tail do not lead out of.                 *)

Kinds ==
    /\ fn_next \in [Nodes -> Pointer]
    /\ allocated \subseteq Nodes
    /\ order \in Seq(Nodes)
    /\ pc \in Statements

Ends(nodes) ==
    /\ f_head # NULL => f_head \in nodes /\ f_tail # NULL /\ Waits(f_head, order)
    /\ f_tail # NULL => f_tail \in nodes
    /\ f_tail # NULL => fn_next[f_tail] = NULL \/ (pc = "tail" /\ fn_next[f_tail] = fn)

Successors(nodes) ==
    /\ \A m \in nodes : fn_next[m] # NULL => fn_next[m] \in nodes /\ Waits(fn_next[m], order)
    /\ \A l, m \in nodes : fn_next[l] = fn_next[m] /\ fn_next[l] # NULL => l = m
    /\ \A m \in nodes : fn_next[m] = f_head => f_head = NULL

AtHand(nodes) ==
    /\ pc \in {"cut", "number", "link", "first", "next"} => fn \in allocated \ nodes
    /\ pc \in {"link", "first", "next", "tail"} => fn_next[fn] = NULL
    /\ pc = "next" => f_tail # NULL
    /\ pc = "head" => /\ fn \in nodes /\ Waits(fn, order)
                      /\ f_tail # NULL /\ Waits(f_tail, order)
                      /\ \A m \in nodes : fn_next[m] # fn
    /\ pc = "tail" => fn \in nodes /\ fn # f_tail /\ f_tail # NULL /\ Waits(fn, order)
    /\ pc \in {"shrink", "unlink"} => fn = f_head /\ fn # NULL
    /\ pc = "drop" => f_head = NULL /\ f_tail # NULL /\ fn \in allocated
    /\ pc = "free" => fn \in allocated \ nodes

Held(nodes) == Ends(nodes) /\ Successors(nodes) /\ AtHand(nodes)

Safe == Kinds /\ \E nodes \in SUBSET allocated : Held(nodes)

LEMMA InitSafe == Init => Safe
<1> SUFFICES ASSUME Init PROVE Safe
  OBVIOUS
<1>1. Kinds
  BY DEF Init, Kinds, Pointer, Statements
<1>2. Held({})
  BY DEF Init, Held, Ends, Successors, AtHand
<1> QED
  BY <1>1, <1>2 DEF Safe

\* A message that waits still waits when another is added.
LEMMA AppendWaits ==
  ASSUME order \in Seq(Nodes), NEW n \in Nodes, order' = Append(order, n)
  PROVE  /\ order' \in Seq(Nodes)
         /\ Waits(n, order')
         /\ \A m : Waits(m, order) => Waits(m, order')
<1>1. /\ order' \in Seq(Nodes) /\ Len(order') = Len(order) + 1
      /\ order'[Len(order) + 1] = n
      /\ \A i \in 1..Len(order) : order'[i] = order[i]
  BY AppendFacts
<1>2. Len(order) \in Nat
  BY LenProperties
<1>3. Len(order) + 1 \in 1..Len(order') /\ 1..Len(order) \subseteq 1..Len(order')
  BY <1>1, <1>2
<1> QED
  BY <1>1, <1>3 DEF Waits

\* A message that waits still waits when another is removed.
LEMMA RemoveWaits ==
  ASSUME order \in Seq(Nodes), Waits(fn, order), order' = Without(fn, order)
  PROVE  /\ order' \in Seq(Nodes)
         /\ \A m : Waits(m, order) /\ m # fn => Waits(m, order')
<1>1. PICK h \in 1..Len(order) : order[h] = fn
  BY DEF Waits
<1>2. /\ Without(order[h], order) \in Seq(Nodes)
      /\ \A m : Waits(m, order) /\ m # order[h] => Waits(m, Without(order[h], order))
  BY <1>1, WithoutKeeps
<1> QED
  BY <1>1, <1>2

\* The statements of the main loop that link or unlink no node keep the set.
LEMMA OthersKeepSafe ==
  ASSUME Kinds, NEW nodes \in SUBSET allocated, Held(nodes),
         \/ Sprintf \/ Cut \/ Fill \/ TestTail \/ MoveTail \/ Bump
         \/ RemoveNothing \/ TakeHead \/ Shrink \/ Free
  PROVE  Kinds' /\ nodes \in SUBSET allocated' /\ Held(nodes)'
<1> USE NodesAssumption
    DEF Kinds, Held, Ends, Successors, AtHand, Pointer, Statements
<1>1. CASE Sprintf
  BY <1>1 DEF Sprintf, list
<1>2. CASE Cut
  BY <1>2 DEF Cut, list
<1>3. CASE Fill
  <2>1. /\ fn \in Nodes /\ fn_next'[fn] = NULL
        /\ \A m \in nodes : fn_next'[m] = fn_next[m]
    BY <1>3 DEF Fill
  <2> QED
    BY <1>3, <2>1 DEF Fill
<1>4. CASE TestTail
  BY <1>4 DEF TestTail, list
<1>5. CASE MoveTail
  BY <1>5 DEF MoveTail
<1>6. CASE Bump
  BY <1>6 DEF Bump, list
<1>7. CASE RemoveNothing
  BY <1>7 DEF RemoveNothing, vars
<1>8. CASE TakeHead
  BY <1>8 DEF TakeHead, list
<1>9. CASE Shrink
  BY <1>9 DEF Shrink
<1>10. CASE Free
  BY <1>10 DEF Free, list
<1> QED
  BY <1>1, <1>2, <1>3, <1>4, <1>5, <1>6, <1>7, <1>8, <1>9, <1>10

\* Linking: the node joins the set, and when the head takes the value of a tail
\* that an interrupt has moved on, the set begins anew with that tail.
LEMMA LinkKeepsSafe ==
  ASSUME Kinds, NEW nodes \in SUBSET allocated, Held(nodes),
         LinkFirst \/ MoveHead \/ LinkNext
  PROVE  Safe'
<1> USE NodesAssumption
    DEF Kinds, Held, Ends, Successors, AtHand, Pointer, Statements
<1>1. CASE LinkFirst
  <2>1. PICK more : more = nodes \cup {fn}
    OBVIOUS
  <2>2. fn \in Nodes /\ order' = Append(order, fn)
    BY <1>1 DEF LinkFirst
  <2>3. order' \in Seq(Nodes) /\ Waits(fn, order') /\ \A m : Waits(m, order) => Waits(m, order')
    BY <2>2, AppendWaits
  <2>4. Kinds' /\ more \in SUBSET allocated' /\ Held(more)'
    BY <1>1, <2>1, <2>2, <2>3 DEF LinkFirst
  <2> QED
    BY <2>4 DEF Safe
<1>2. CASE MoveHead /\ f_head' = fn
  <2>1. Kinds' /\ nodes \in SUBSET allocated' /\ Held(nodes)'
    BY <1>2 DEF MoveHead
  <2> QED
    BY <2>1 DEF Safe
<1>3. CASE MoveHead /\ f_head' = f_tail
  <2>1. PICK anew : anew = {f_tail}
    OBVIOUS
  <2>2. Kinds' /\ anew \in SUBSET allocated' /\ Held(anew)'
    BY <1>3, <2>1 DEF MoveHead
  <2> QED
    BY <2>2 DEF Safe
<1>4. CASE LinkNext
  <2>1. PICK more : more = nodes \cup {fn}
    OBVIOUS
  <2>2. fn \in Nodes /\ f_tail \in Nodes /\ order' = Append(order, fn)
    BY <1>4 DEF LinkNext
  <2>3. order' \in Seq(Nodes) /\ Waits(fn, order') /\ \A m : Waits(m, order) => Waits(m, order')
    BY <2>2, AppendWaits
  <2>4. \A m \in Nodes : fn_next'[m] = IF m = f_tail THEN fn ELSE fn_next[m]
    BY <1>4, <2>2 DEF LinkNext
  <2>5. Kinds' /\ more \in SUBSET allocated' /\ Held(more)'
    BY <1>4, <2>1, <2>2, <2>3, <2>4 DEF LinkNext
  <2> QED
    BY <2>5 DEF Safe
<1> QED
  BY <1>1, <1>2, <1>3, <1>4 DEF MoveHead

\* Unlinking: the node leaves the set, at once unless it is the tail too.
LEMMA UnlinkKeepsSafe ==
  ASSUME Kinds, NEW nodes \in SUBSET allocated, Held(nodes), Unlink \/ DropTail
  PROVE  Safe'
<1> USE NodesAssumption
    DEF Kinds, Held, Ends, Successors, AtHand, Pointer, Statements
<1>1. CASE Unlink
  <2>1. /\ fn \in nodes /\ fn \in Nodes /\ fn = f_head
        /\ Waits(fn, order) /\ order' = Without(fn, order)
    BY <1>1 DEF Unlink
  <2>2. order' \in Seq(Nodes) /\ \A m : Waits(m, order) /\ m # fn => Waits(m, order')
    BY <2>1, RemoveWaits
  <2>3. \A m \in nodes : fn_next[m] # fn
    BY <1>1, <2>1 DEF Unlink
  <2>4. PICK fewer : fewer = IF fn_next[fn] = NULL THEN nodes ELSE nodes \ {fn}
    OBVIOUS
  <2>5. fn_next[fn] # NULL => fn # f_tail
    BY <1>1 DEF Unlink
  <2>6. Kinds' /\ fewer \in SUBSET allocated' /\ Held(fewer)'
    <3>1. CASE fn_next[fn] = NULL
      BY <1>1, <2>1, <2>2, <2>3, <2>4, <3>1 DEF Unlink
    <3>2. CASE fn_next[fn] # NULL
      BY <1>1, <2>1, <2>2, <2>3, <2>4, <2>5, <3>2 DEF Unlink
    <3> QED
      BY <3>1, <3>2
  <2> QED
    BY <2>6 DEF Safe
<1>2. CASE DropTail
  <2>1. Kinds' /\ Held({})'
    BY <1>2 DEF DropTail
  <2> QED
    BY <2>1 DEF Safe
<1> QED
  BY <1>1, <1>2

\* The interrupt's node is new: nothing leads to it but what the handler sets.
LEMMA InterruptKeepsSafe ==
  ASSUME Kinds, NEW nodes \in SUBSET allocated, Held(nodes), Interrupt
  PROVE  Safe'
<1> USE NodesAssumption
    DEF Kinds, Held, Ends, Successors, AtHand, Pointer, Statements
<1>1. PICK n \in Nodes \ allocated :
        /\ allocated' = allocated \cup {n}
        /\ fn_next' = [m \in Nodes |-> IF m = n THEN NULL
                                       ELSE IF m = f_tail THEN n ELSE fn_next[m]]
        /\ f_head' = IF f_tail = NULL THEN n ELSE f_head
        /\ f_tail' = n
        /\ order' = Append(order, n)
        /\ UNCHANGED <<pc, fn, id>>
  BY DEF Interrupt
<1>2. order' \in Seq(Nodes) /\ Waits(n, order') /\ \A m : Waits(m, order) => Waits(m, order')
  BY <1>1, AppendWaits
<1>3. PICK more : more = nodes \cup {n}
  OBVIOUS
<1>4. Kinds' /\ more \in SUBSET allocated'
  BY <1>1, <1>2, <1>3
<1>5. Ends(more)'
  BY <1>1, <1>2, <1>3
<1>6. Successors(more)'
  BY <1>1, <1>2, <1>3
<1>7. AtHand(more)'
  BY <1>1, <1>2, <1>3
<1> QED
  BY <1>4, <1>5, <1>6, <1>7 DEF Safe

LEMMA SafeAlways == Spec => []Safe
<1>1. Safe /\ [Next]_<<board, vars>> => Safe'
  <2> SUFFICES ASSUME Safe, [Next]_<<board, vars>> PROVE Safe'
    OBVIOUS
  <2>1. PICK nodes \in SUBSET allocated : Held(nodes)
    BY DEF Safe
  <2>2. CASE UNCHANGED <<board, vars>>
    <3>1. Kinds' /\ nodes \in SUBSET allocated' /\ Held(nodes)'
      BY <2>1, <2>2 DEF vars, Safe, Kinds, Held, Ends, Successors, AtHand
    <3> QED
      BY <3>1 DEF Safe
  <2>3. CASE MainLoop
    <3>1. CASE LinkFirst \/ MoveHead \/ LinkNext
      BY <2>1, <3>1, LinkKeepsSafe DEF Safe
    <3>2. CASE Unlink \/ DropTail
      BY <2>1, <3>2, UnlinkKeepsSafe DEF Safe
    <3>3. CASE \/ Sprintf \/ Cut \/ Fill \/ TestTail \/ MoveTail \/ Bump
               \/ RemoveNothing \/ TakeHead \/ Shrink \/ Free
      BY <2>1, <3>3, OthersKeepSafe DEF Safe
    <3> QED
      BY <2>3, <3>1, <3>2, <3>3 DEF MainLoop, InsertMsg, fifo_remove
  <2>4. CASE Interrupt
    BY <2>1, <2>4, InterruptKeepsSafe DEF Safe
  <2> QED
    BY <2>2, <2>3, <2>4 DEF Next
<1> QED
  BY <1>1, InitSafe, PTL DEF Spec

\* Following the list from its head or its tail meets no freed node, on either
\* board and wherever the interrupt falls: fifo_remove frees a node only after
\* the last pointer of the list to it is gone (MyFifo.c:70-83).
THEOREM NoDanglingAlways == Spec => []NoDangling
<1>1. Safe => NoDangling
  <2> SUFFICES ASSUME Safe PROVE NoDangling
    OBVIOUS
  <2>1. PICK nodes \in SUBSET allocated : Held(nodes)
    BY DEF Safe
  <2>2. /\ {f_head, f_tail} \subseteq nodes \cup {NULL}
        /\ \A n \in nodes : fn_next[n] \in nodes \cup {NULL}
    BY <2>1 DEF Held, Ends, Successors
  <2> QED
    BY <2>2 DEF NoDangling
<1> QED
  BY <1>1, SafeAlways, PTL

\* What leaves the list next has not left it before, on either board and
\* wherever the interrupt falls (MyFifo.c:79).
THEOREM HeadWaitsAlways == Spec => []HeadWaits
<1>1. Safe => HeadWaits
  BY DEF Safe, Held, Ends, Waits, HeadWaits
<1> QED
  BY <1>1, SafeAlways, PTL
=============================================================================
