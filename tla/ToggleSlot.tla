----------------------------- MODULE ToggleSlot ------------------------------
(***************************************************************************)
(* What a register without a "new" flag can promise its two ends when the  *)
(* sender marks every other command and never waits: the reader sees a     *)
(* command at most once, and only the last one sent; a command sent may be *)
(* lost.  Only a restart of the reader shows it the last command again.    *)
(***************************************************************************)
CONSTANTS Cmds,     \* the commands sent
          Cleared,  \* no command: what a restart leaves
          None

VARIABLES slot,     \* the command the reader has yet to take, or None
          last,     \* the last command sent
          hand      \* the command the reader is executing, or Cleared

slotVars == <<slot, last, hand>>

SlotInit == slot = None /\ last = Cleared /\ hand = Cleared

Put(c) == last' = c /\ slot' \in {None, c} /\ UNCHANGED hand

Take ==
  /\ slot # None /\ hand = Cleared
  /\ hand' = slot
  /\ slot' = None
  /\ UNCHANGED last

Done == hand' = Cleared /\ UNCHANGED <<slot, last>>

SenderRestarts ==
  last' = Cleared /\ slot' \in {None, Cleared} /\ UNCHANGED hand

ReaderRestarts ==
  slot' \in {None, last} /\ hand' = Cleared /\ UNCHANGED last

SlotNext ==
  \/ \E c \in Cmds : Put(c)
  \/ Take \/ Done
  \/ SenderRestarts
  \/ ReaderRestarts

SlotSpec == SlotInit /\ [][SlotNext]_slotVars
=============================================================================
