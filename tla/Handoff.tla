------------------------------ MODULE Handoff ------------------------------
(***************************************************************************)
(* What semaphore.c promises, without its semaphores: messages 1, 2, ...,   *)
(* Total cross a buffer of Capacity places in order, each exactly once.     *)
(***************************************************************************)
EXTENDS Naturals, Sequences

CONSTANTS Total, Capacity

VARIABLES sent,       \* messages put into the buffer so far
          received    \* messages taken out, in order
handoff_vars == <<sent, received>>

HandoffInit == sent = 0 /\ received = <<>>

Put ==
  /\ sent < Total /\ sent - Len(received) < Capacity
  /\ sent' = sent + 1
  /\ UNCHANGED received

Take ==
  /\ Len(received) < sent
  /\ received' = Append(received, Len(received) + 1)
  /\ UNCHANGED sent

HandoffNext == Put \/ Take

HandoffSpec == HandoffInit /\ [][HandoffNext]_handoff_vars
=============================================================================
