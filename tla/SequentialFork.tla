--------------------------- MODULE SequentialFork ---------------------------
(***************************************************************************)
(* serialfork.c and multiforkexec.c: NumForks times, fork a child and loop *)
(* over waitpid until that child has exited or was killed.  In             *)
(* serialfork.c the child exits.  In multiforkexec.c it executes a command,*)
(* and when it cannot it goes on with the loop of its parent.  Since it    *)
(* need not, the behaviours of serialfork.c are among those below; fork.c  *)
(* and forkexec.c are the cases of one fork.                               *)
(***************************************************************************)
EXTENDS Processes

CONSTANT NumForks

ASSUME NumForksAssumption == NumForks \in Nat

VARIABLES pc, forkno, cpid   \* of every process
serial_vars == <<pc, forkno, cpid>>

PC == {"loop", "wait", "child", "command", "done", "failed"}

SerialTypeOK ==
  /\ pc \in [Pids -> PC]
  /\ forkno \in [Pids -> 0..NumForks]
  /\ cpid \in [Pids -> 0..MaxProcs]

SerialInit ==
  /\ pc = [p \in Pids |-> "loop"]
  /\ forkno = [p \in Pids |-> 0]
  /\ cpid = [p \in Pids |-> 0]

Goto(p, to) == pc' = [pc EXCEPT ![p] = to]
At(p, from) == st[p] = "run" /\ pc[p] = from

MoreForks(p) == forkno[p] < NumForks

Fork(p) ==
  /\ At(p, "loop") /\ MoreForks(p)
  /\ \E c \in Pids :
       /\ ForkAs(p, c)
       /\ pc' = [pc EXCEPT ![p] = "wait", ![c] = "child"]
       /\ forkno' = [forkno EXCEPT ![c] = forkno[p]]
       /\ cpid' = [cpid EXCEPT ![p] = c, ![c] = 0]

(* exit(-1)                                                                 *)
ForkFails(p) ==
  /\ At(p, "loop") /\ MoreForks(p)
  /\ Die(p, "exited")
  /\ Goto(p, "failed")
  /\ UNCHANGED <<forkno, cpid>>

(* The child's own code (serialfork.c) or the command it executes.          *)
ChildRuns(p) ==
  /\ At(p, "child")
  /\ Goto(p, "command")
  /\ UNCHANGED <<proc_vars, forkno, cpid>>

ForknoKept(p) == forkno[p]
NextForkno(p) == forkno[p] + 1

(* No command, or execve failed: the child reaches the loop's increment.    *)
ChildFallsThrough(p) ==
  /\ At(p, "child")
  /\ Goto(p, "loop")
  /\ forkno' = [forkno EXCEPT ![p] = NextForkno(p)]
  /\ UNCHANGED <<proc_vars, cpid>>

CommandExits(p) ==
  /\ At(p, "command")
  /\ Die(p, "exited")
  /\ Goto(p, "done")
  /\ UNCHANGED <<forkno, cpid>>

(* do { w = waitpid(cpid) ... } while (!WIFEXITED && !WIFSIGNALED)          *)
AnyReport(r) == TRUE
NoReport(r) == FALSE
Ends(r) == r \in {"exited", "killed"}

Waitpid(p) ==
  /\ At(p, "wait") /\ Reportable(p, cpid[p])
  /\ Collect(cpid[p])
  /\ IF Ends(Report(cpid[p]))
     THEN Goto(p, "loop") /\ forkno' = [forkno EXCEPT ![p] = @ + 1]
     ELSE UNCHANGED <<pc, forkno>>
  /\ UNCHANGED cpid

Finish(p) ==
  /\ At(p, "loop") /\ forkno[p] = NumForks
  /\ Die(p, "exited")
  /\ Goto(p, "done")
  /\ UNCHANGED <<forkno, cpid>>

Process(p) == \/ Fork(p) \/ ChildRuns(p) \/ ChildFallsThrough(p)
              \/ CommandExits(p) \/ Waitpid(p) \/ Finish(p)

SerialNext ==
  \/ \E p \in Pids : Process(p) \/ ForkFails(p)
  \/ Signals /\ UNCHANGED serial_vars

-----------------------------------------------------------------------------
(* No child outlives its parent's main: when a process reaches the end of it *)
(* every child it forked is out of the process table.  (gone is reaped by    *)
(* the parent or, as that dies, by init: see Bury.)                          *)
ReapsWhatItForks ==
  \A p \in Pids : pc[p] = "done" =>
    \A c \in Pids : par[c] = p => st[c] = "gone"

(* However the children that fall through multiply, they are no more than   *)
(* 2^NumForks - 1.                                                          *)
CascadeBound == Cardinality(Created) <= 2^NumForks
=============================================================================
