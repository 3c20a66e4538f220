---------------------------- MODULE ParallelFork ----------------------------
(***************************************************************************)
(* What main of parallelfork.c and every do_thread of processesgalore.c    *)
(* does: fork a number of children without waiting, then loop over waitpid *)
(* for the one forked last.  Threads are the threads of the first process  *)
(* that do so; ProcessesGalore adds the programs around them.              *)
(***************************************************************************)
EXTENDS Processes

CONSTANT Threads   \* threads that fork: 0 .. some number

VARIABLES numforks, tpc, forkno, cpid   \* of every thread; cpid 0 is unset
fork_vars == <<numforks, tpc, forkno, cpid>>

TPC == {"unborn", "loop", "wait", "done"}

ForkTypeOK ==
  /\ numforks \in [Threads -> Nat]
  /\ tpc \in [Threads -> TPC]
  /\ forkno \in [Threads -> Nat] /\ \A t \in Threads : forkno[t] <= numforks[t]
  /\ cpid \in [Threads -> 0..MaxProcs]

ForkInit ==
  /\ forkno = [t \in Threads |-> 0]
  /\ cpid = [t \in Threads |-> 0]

At(t, from) == Alive(Root) /\ tpc[t] = from
Goto(t, to) == tpc' = [tpc EXCEPT ![t] = to]

MoreForks(t) == forkno[t] < numforks[t]

Fork(t) ==
  /\ At(t, "loop") /\ MoreForks(t)
  /\ \E c \in Pids : ForkAs(Root, c) /\ cpid' = [cpid EXCEPT ![t] = c]
  /\ forkno' = [forkno EXCEPT ![t] = @ + 1]
  /\ UNCHANGED <<numforks, tpc>>

(* exit(-1) takes every thread with it.                                     *)
ForkFails(t) ==
  /\ At(t, "loop") /\ MoreForks(t)
  /\ Die(Root, "exited")
  /\ UNCHANGED fork_vars

NeverForked(t) == FALSE
ForksDone(t) == forkno[t] = numforks[t]

AllForked(t) ==
  /\ At(t, "loop") /\ ForksDone(t)
  /\ Goto(t, "wait")
  /\ UNCHANGED <<proc_vars, numforks, forkno, cpid>>

AnyChild(t) == {c \in Pids : par[c] = Root}
WaitsFor(t) == {cpid[t]} \cap Pids

AnyReport(r) == TRUE
Ends(r) == r \in {"exited", "killed"}

(* do { w = waitpid(cpid) ... } while (!WIFEXITED && !WIFSIGNALED)          *)
Waitpid(t) ==
  /\ At(t, "wait")
  /\ \E c \in WaitsFor(t) :
       /\ Reportable(Root, c)
       /\ Collect(c)
       /\ IF Ends(Report(c)) THEN Goto(t, "done") ELSE UNCHANGED tpc
  /\ UNCHANGED <<numforks, forkno, cpid>>

(* ECHILD ends the loop; without a fork cpid is not a child whatever it holds. *)
WaitFails(t) ==
  /\ At(t, "wait") /\ \A c \in WaitsFor(t) : NoChild(Root, c)
  /\ Goto(t, "done")
  /\ UNCHANGED <<proc_vars, numforks, forkno, cpid>>

ChildExits(c) ==
  /\ c # Root /\ st[c] = "run"
  /\ Die(c, "exited")
  /\ UNCHANGED fork_vars

ThreadsDone == \A t \in Threads : tpc[t] = "done"

Return ==
  /\ Alive(Root) /\ ThreadsDone
  /\ Die(Root, "exited")
  /\ UNCHANGED fork_vars

Thread(t) == Fork(t) \/ AllForked(t) \/ Waitpid(t) \/ WaitFails(t)

-----------------------------------------------------------------------------
(* A thread leaves its wait loop only when its last child is dead and       *)
(* reaped: reports of stops and continues do not end it.                    *)
LastChildReaped ==
  \A t \in Threads : tpc[t] = "done" /\ cpid[t] # 0 => st[cpid[t]] = "gone"

(* No thread loses the child it waits for to another thread's waitpid.      *)
WaitHasChild ==
  \A t \in Threads : At(t, "wait") /\ cpid[t] # 0 => ~NoChild(Root, cpid[t])
=============================================================================
