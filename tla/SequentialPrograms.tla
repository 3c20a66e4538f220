------------------------- MODULE SequentialPrograms -------------------------
(***************************************************************************)
(* The programs that make one child at a time and wait for it, each in its *)
(* own way: serialfork.c and multiforkexec.c loop over waitpid of the child*)
(* they forked, clone.c calls waitpid(0) once, mkuidns.c waits for the end *)
(* of its child after a handshake.                                         *)
(***************************************************************************)
EXTENDS SequentialFork, CloneSignals, MkUidNs

ASSUME RoomForClones == MaxProcs > NumCalls

VARIABLE prog   \* the program that runs
vars == <<proc_vars, prog, serial_vars, clone_vars, ns_vars>>

Serial == "serialfork"
Cloning == "clone"
Namespace == "mkuidns"

Init ==
  /\ ProcInit(MaxSignals)
  /\ prog \in {Serial, Cloning, Namespace}
  /\ SerialInit /\ CloneInit /\ NsInit
  /\ prog # Cloning => traps      \* of no concern to the others

As(which, others) == prog = which /\ UNCHANGED <<prog, others>>
AsSerial == As(Serial, <<clone_vars, ns_vars>>)
AsClone == As(Cloning, <<serial_vars, ns_vars>>)
AsNs == As(Namespace, <<serial_vars, clone_vars>>)

Next ==
  \/ AsSerial /\ SerialNext
  \/ AsClone /\ CloneNext
  \/ AsNs /\ NsNext

Spec == Init /\ [][Next]_vars

(* Running processes are scheduled, sleeps and commands end.  Nothing makes *)
(* the outside send a signal, nor fork or clone fail.                       *)
FairSpec ==
  /\ Spec
  /\ \A p \in Pids : WF_vars(AsSerial /\ Process(p)) /\ WF_vars(AsClone /\ Fn(p))
  /\ WF_vars(AsClone /\ CloneMain)
  /\ WF_vars(AsNs /\ NsMain) /\ WF_vars(AsNs /\ Childfunc)

-----------------------------------------------------------------------------
TypeOK == ProcTypeOK /\ SerialTypeOK /\ CloneTypeOK /\ NsTypeOK

(* The first process ends.  In clone.c, whose waits take any report, nothing*)
(* from outside can prevent it, although the fourth child is left stopped;  *)
(* the other programs end unless a child stays stopped for ever.            *)
RootEnds ==
  (prog = Cloning \/ <>[](\A p \in Pids : st[p] # "stopped")) => <>(~Alive(Root))
=============================================================================
