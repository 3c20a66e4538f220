----------------------------- MODULE Processes -----------------------------
(***************************************************************************)
(* The kernel's process table as the fork programs use it: fork, exit,     *)
(* death by a signal, job control from outside, and waitpid with           *)
(* WUNTRACED | WCONTINUED.  External to the repository: modelled from its  *)
(* use there.                                                              *)
(***************************************************************************)
EXTENDS Naturals, FiniteSets

CONSTANTS MaxProcs,   \* bound: processes a run can create, the first included
          MaxSignals  \* bound: stops and kills from outside

ASSUME MaxProcsAssumption == MaxProcs \in Nat \ {0}
ASSUME MaxSignalsAssumption == MaxSignals \in Nat

Pids == 1..MaxProcs
Root == 1

VARIABLES
  st,       \* "free", "run", "stopped", "exited" and "killed" (zombies), "gone"
  par,      \* the process that forked it (0: none)
  rep,      \* a stop or continue waitpid has not reported yet
  signals   \* stops and kills the outside may still send

proc_vars == <<st, par, rep, signals>>

Alive(p) == st[p] \in {"run", "stopped"}
Zombie(p) == st[p] \in {"exited", "killed"}
Created == {p \in Pids : st[p] # "free"}

ProcTypeOK ==
  /\ st \in [Pids -> {"free", "run", "stopped", "exited", "killed", "gone"}]
  /\ par \in [Pids -> 0..MaxProcs]
  /\ rep \in [Pids -> {"none", "stop", "cont"}]
  /\ signals \in 0..MaxSignals

ProcInit(n) ==
  /\ st = [p \in Pids |-> IF p = Root THEN "run" ELSE "free"]
  /\ par = [p \in Pids |-> 0]
  /\ rep = [p \in Pids |-> "none"]
  /\ signals = n

(* fork: c is the next process number.                                      *)
NextPid(c) == st[c] = "free" /\ \A d \in Pids : d < c => st[d] # "free"

ForkAs(p, c) ==
  /\ NextPid(c)
  /\ st' = [st EXCEPT ![c] = "run"]
  /\ par' = [par EXCEPT ![c] = p]
  /\ UNCHANGED <<rep, signals>>

(* p dies: it is a zombie until its parent waits for it, and its own        *)
(* zombies are reaped by init.                                              *)
Orphan(p) == par[p] = 0 \/ ~Alive(par[p])

Bury(p, z) ==
  /\ st' = [q \in Pids |->
              IF q = p THEN IF Orphan(p) THEN "gone" ELSE z
              ELSE IF par[q] = p /\ Zombie(q) THEN "gone" ELSE st[q]]
  /\ rep' = [rep EXCEPT ![p] = "none"]
  /\ UNCHANGED par

Die(p, z) == Bury(p, z) /\ UNCHANGED signals

(* waitpid by p: what it finds for child c, and ECHILD when c is not there.  *)
Report(c) == IF Zombie(c) THEN st[c] ELSE rep[c]
Reportable(p, c) == par[c] = p /\ Report(c) \notin {"run", "none"} /\ st[c] # "gone"
NoChild(p, c) == par[c] # p \/ st[c] = "gone"

Collect(c) ==
  /\ st' = IF Zombie(c) THEN [st EXCEPT ![c] = "gone"] ELSE st
  /\ rep' = [rep EXCEPT ![c] = "none"]
  /\ UNCHANGED <<par, signals>>

(* Signals from outside, to any process but the first.                      *)
Stop(p) ==
  /\ p # Root /\ st[p] = "run" /\ signals > 0
  /\ st' = [st EXCEPT ![p] = "stopped"]
  /\ rep' = [rep EXCEPT ![p] = "stop"]
  /\ signals' = signals - 1
  /\ UNCHANGED par

Resume(p) ==
  /\ st[p] = "stopped"
  /\ st' = [st EXCEPT ![p] = "run"]
  /\ rep' = [rep EXCEPT ![p] = "cont"]
  /\ UNCHANGED <<par, signals>>

Kill(p) ==
  /\ p # Root /\ Alive(p) /\ signals > 0
  /\ Bury(p, "killed")
  /\ signals' = signals - 1

Signals == \E p \in Pids : Stop(p) \/ Resume(p) \/ Kill(p)
=============================================================================
