----------------------------- MODULE OneProcess -----------------------------
(***************************************************************************)
(* The programs that fork nothing and share nothing: one of them runs.      *)
(***************************************************************************)
EXTENDS IovecDemo, Datagrams, ArchPrctl

VARIABLE prog
vars == <<prog, iovec_vars, datagram_vars, prctl_vars>>

TypeOK ==
  /\ prog \in {"iovec_demo", "recvmsg", "arch_prctl"}
  /\ IovecTypeOK /\ DatagramTypeOK /\ PrctlTypeOK

Init ==
  /\ prog \in {"iovec_demo", "recvmsg", "arch_prctl"}
  /\ IovecInit /\ DatagramInit /\ PrctlInit

Running(p, Step) == prog = p /\ Step /\ UNCHANGED prog

RunsDemo == Running("iovec_demo", IovecNext) /\ UNCHANGED <<datagram_vars, prctl_vars>>
RunsReceiver == Running("recvmsg", DatagramNext) /\ UNCHANGED <<iovec_vars, prctl_vars>>
RunsPrctl == Running("arch_prctl", PrctlNext) /\ UNCHANGED <<iovec_vars, datagram_vars>>

Next == RunsDemo \/ RunsReceiver \/ RunsPrctl

Spec == Init /\ [][Next]_vars

(* Every program's thread goes on while its calls can return; no failure    *)
(* is ever obliged to happen.                                               *)
FairSpec ==
  /\ Spec
  /\ WF_vars(prog = "iovec_demo" /\ Demonstrate /\ UNCHANGED <<prog, datagram_vars, prctl_vars>>)
  /\ WF_vars(prog = "recvmsg" /\ DatagramMain /\ UNCHANGED <<prog, iovec_vars, prctl_vars>>)
  /\ WF_vars(prog = "recvmsg" /\ Receiver /\ UNCHANGED <<prog, iovec_vars, prctl_vars>>)
  /\ WF_vars(prog = "recvmsg" /\ Sender /\ UNCHANGED <<prog, iovec_vars, prctl_vars>>)
  /\ WF_vars(RunsPrctl)

Ended ==
  \/ prog = "iovec_demo" /\ IovecEnded
  \/ prog = "recvmsg" /\ DatagramsEnded
  \/ prog = "arch_prctl" /\ PrctlEnded

-----------------------------------------------------------------------------
(* Each program ends, with two exceptions: iovec_demo waits in recvmmsg for  *)
(* a message sendmmsg did not send, and recvmsg's main joins a receiver     *)
(* whose datagram was lost.                                                 *)
EndsOrLost ==
  <>[](Ended \/ (prog = "iovec_demo" /\ StuckInBatch) \/ (prog = "recvmsg" /\ WaitsForLost))
=============================================================================
