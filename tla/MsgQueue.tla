------------------------------ MODULE MsgQueue ------------------------------
(***************************************************************************)
(* What the FIFO of messages of the PIC32 promises: the messages come out  *)
(* in the order they were put in, none is lost, and each one carries the   *)
(* number that follows the number of the message before it.                *)
(***************************************************************************)
EXTENDS Naturals, Sequences

CONSTANT
    Wrap       \* the last message number (32 in the code)

VARIABLES
    queue,     \* the numbers of the messages that wait, oldest first
    counter    \* the number of the next message (MIWI_Counter)

qvars == <<queue, counter>>

Ids == 1..Wrap

NextId(c) == IF c < Wrap THEN c + 1 ELSE 1

QInit ==
    /\ queue = <<>>
    /\ counter = 1

Add ==
    /\ queue' = Append(queue, counter)
    /\ counter' = NextId(counter)

Remove ==
    /\ queue # <<>>
    /\ queue' = Tail(queue)
    /\ UNCHANGED counter

QNext == Add \/ Remove

QSpec == QInit /\ [][QNext]_qvars
=============================================================================
