---------------------------- MODULE ForkThreads ----------------------------
(***************************************************************************)
(* The programs that combine a thread pool with a child process.           *)
(*   "last"   fork_and_pthread.c, forkexec_and_pthread.c, forkmulti.c:     *)
(*            callsys forks a child, main creates and joins its threads    *)
(*            and then waits, once, for the child                          *)
(*   "first"  forkexecwait_and_pthread.c: callsys waits before the threads *)
(*   "system" system_and_pthread.c: callsys is system()                    *)
(*   "swap"   forkexecwait_and_pthreadchild.c: the parent executes the     *)
(*            command and the child has the threads; nobody waits          *)
(*   "pool"   pthread.c: threads only                                      *)
(* A child whose execve fails leaves callsys without a return value and    *)
(* runs the rest of main too ("last" and "first").                         *)
(***************************************************************************)
EXTENDS Processes

CONSTANT NumThreads

ASSUME NumThreadsAssumption == NumThreads \in Nat \ {0}
ASSUME TwoProcesses == MaxProcs = 2

Child == 2
Threads == 1..NumThreads

VARIABLES prog,         \* the program that runs
          pc, i, th     \* of every process: control point, loop index, threads
vars == <<proc_vars, prog, pc, i, th>>

Programs == {"last", "first", "system", "swap", "pool"}
PC == {"callsys", "exec", "command", "wait", "create", "join", "return", "done", "failed"}

TypeOK ==
  /\ ProcTypeOK /\ prog \in Programs
  /\ pc \in [Pids -> PC]
  /\ i \in [Pids -> 0..NumThreads]
  /\ th \in [Pids -> [Threads -> {"none", "run", "exited", "joined"}]]

Init ==
  /\ ProcInit(MaxSignals) /\ prog \in Programs
  /\ pc = [p \in Pids |-> IF prog = "pool" THEN "create" ELSE "callsys"]
  /\ i = [p \in Pids |-> 0]
  /\ th = [p \in Pids |-> [t \in Threads |-> "none"]]

At(p, from) == st[p] = "run" /\ pc[p] = from
Goto(p, to) == pc' = [pc EXCEPT ![p] = to]

-----------------------------------------------------------------------------
(* callsys.                                                                 *)

NoWait == "create"
AfterFork == CASE prog = "last" -> "create"
               [] prog \in {"first", "system"} -> "wait"
               [] prog = "swap" -> "exec"
ChildStart == IF prog = "swap" THEN "create" ELSE "exec"

Fork ==
  /\ At(Root, "callsys")
  /\ ForkAs(Root, Child)
  /\ pc' = [pc EXCEPT ![Root] = AfterFork, ![Child] = ChildStart]
  /\ UNCHANGED <<prog, i, th>>

(* exit(-1)                                                                 *)
Fail(p) == Die(p, "exited") /\ Goto(p, "failed") /\ UNCHANGED <<prog, i, th>>

ForkFails == At(Root, "callsys") /\ prog # "system" /\ Fail(Root)

(* system() returns -1 instead, and main goes on.                           *)
SystemFails ==
  /\ At(Root, "callsys") /\ prog = "system"
  /\ Goto(Root, "create")
  /\ UNCHANGED <<proc_vars, prog, i, th>>

(* execve succeeds, or fork_and_pthread.c's child exits by itself.           *)
Execs(p) ==
  /\ At(p, "exec")
  /\ Goto(p, "command")
  /\ UNCHANGED <<proc_vars, prog, i, th>>

CommandExits(p) ==
  /\ At(p, "command")
  /\ Die(p, "exited")
  /\ Goto(p, "done")
  /\ UNCHANGED <<prog, i, th>>

(* execve fails: callsys is left, but the shell of system() exits.           *)
FallsThrough(p) ==
  /\ At(p, "exec") /\ prog # "system"
  /\ Goto(p, IF prog = "swap" THEN "return" ELSE "create")
  /\ UNCHANGED <<proc_vars, prog, i, th>>

-----------------------------------------------------------------------------
(* The threads: print_thread_id, and the two loops over them in main.       *)

MoreThreads(p) == i[p] < NumThreads

CreateThread(p) ==
  /\ At(p, "create") /\ MoreThreads(p)
  /\ th' = [th EXCEPT ![p][i[p] + 1] = "run"]
  /\ i' = [i EXCEPT ![p] = @ + 1]
  /\ UNCHANGED <<proc_vars, prog, pc>>

CreateFails(p) == At(p, "create") /\ MoreThreads(p) /\ Fail(p)

CreatedAll(p) ==
  /\ At(p, "create") /\ i[p] = NumThreads
  /\ Goto(p, "join")
  /\ i' = [i EXCEPT ![p] = 0]
  /\ UNCHANGED <<proc_vars, prog, th>>

PrintThreadId(p, t) ==
  /\ st[p] = "run" /\ th[p][t] = "run"
  /\ th' = [th EXCEPT ![p][t] = "exited"]
  /\ UNCHANGED <<proc_vars, prog, pc, i>>

JoinThread(p) ==
  /\ At(p, "join") /\ i[p] < NumThreads
  /\ th[p][i[p] + 1] = "exited"
  /\ th' = [th EXCEPT ![p][i[p] + 1] = "joined"]
  /\ i' = [i EXCEPT ![p] = @ + 1]
  /\ UNCHANGED <<proc_vars, prog, pc>>

NeverJoined(p) == i[p] > NumThreads
JoinedOneLess(p) == i[p] >= NumThreads - 1
JoinsDone(p) == i[p] = NumThreads

JoinedAll(p) ==
  /\ At(p, "join") /\ JoinsDone(p)
  /\ Goto(p, IF prog = "last" THEN "wait" ELSE "return")
  /\ UNCHANGED <<proc_vars, prog, i, th>>

-----------------------------------------------------------------------------
(* waitpid(childpid), called once: any report ends the wait, but system()   *)
(* waits for the end.  The childpid of a child that fell through is not set,*)
(* but it has no child to report.                                           *)

AfterWait == IF prog = "last" THEN "return" ELSE "create"

Waitpid(p) ==
  /\ At(p, "wait")
  /\ \E c \in Pids : /\ Reportable(p, c) /\ (prog = "system" => Zombie(c))
                     /\ Collect(c)
  /\ Goto(p, AfterWait)
  /\ UNCHANGED <<prog, i, th>>

WaitFails(p) == At(p, "wait") /\ (\A c \in Pids : NoChild(p, c)) /\ Fail(p)

Return(p) ==
  /\ At(p, "return")
  /\ Die(p, "exited")
  /\ Goto(p, "done")
  /\ UNCHANGED <<prog, i, th>>

-----------------------------------------------------------------------------
Callsys(p) == \/ p = Root /\ Fork
              \/ Execs(p) \/ CommandExits(p) \/ FallsThrough(p)
Main(p) == \/ CreateThread(p) \/ CreatedAll(p) \/ JoinThread(p) \/ JoinedAll(p)
           \/ Waitpid(p) \/ WaitFails(p) \/ Return(p)

Next == \/ ForkFails \/ SystemFails
        \/ \E p \in Pids : \/ Callsys(p) \/ Main(p) \/ CreateFails(p)
                           \/ \E t \in Threads : PrintThreadId(p, t)
        \/ Signals /\ UNCHANGED <<prog, pc, i, th>>

Spec == Init /\ [][Next]_vars

(* Running processes and threads are scheduled, sleeps and commands end.    *)
FairSpec ==
  /\ Spec
  /\ \A p \in Pids : /\ WF_vars(Callsys(p)) /\ WF_vars(Main(p))
                     /\ \A t \in Threads : WF_vars(PrintThreadId(p, t))

-----------------------------------------------------------------------------
(* A process returns from main only when all its threads have ended and     *)
(* been joined: the return kills none of them.                              *)
ThreadsJoined ==
  \A p \in Pids : pc[p] \in {"return", "done"} /\ th[p][1] # "none" =>
    \A t \in Threads : th[p][t] = "joined"

(* The threads of two processes never run together where the wait comes     *)
(* first or one process alone has threads; a stop from outside can end the  *)
(* wait of forkexecwait_and_pthread.c early.                                *)
PoolsExclusive ==
  prog # "last" /\ (prog = "first" => signals = MaxSignals) =>
    \E p \in Pids : ~(Alive(p) /\ pc[p] \in {"create", "join"})

(* If no process stays stopped for ever every process ends, those too that  *)
(* nobody waits for.                                                        *)
AllEnd ==
  (<>[](\A p \in Pids : st[p] # "stopped")) => <>(\A p \in Pids : ~Alive(p))
=============================================================================
