---------------------------- MODULE CloneSignals ----------------------------
(***************************************************************************)
(* clone.c: five times, clone a child that runs fn and call waitpid(0) once.*)
(* The third child is sent SIGTERM and the fourth SIGSTOP, each a second    *)
(* after it began a sleep of two seconds; the sleeps order nothing.  The    *)
(* wait names no child and any report ends it, stops and continues too.     *)
(***************************************************************************)
EXTENDS Processes, Integers, Sequences

NumCalls == 5
Null == -1
CloneArg == <<Null, 0, 1, 1, 3>>   \* what arg points to in the five calls
Slot(c) == c - 1                   \* the call that cloned process c
ChildOf(k) == k + 1

SIGFPE == 8
SIGKILL == 9
SIGSEGV == 11
SIGTERM == 15

VARIABLES
  mpc,       \* main: control point
  call,      \* the call main is at
  code,      \* of every process: exit status or signal, SIGKILL unless set
  termed,    \* stopped children with a SIGTERM pending
  seen,      \* what the waitpids returned, in order
  meddled,   \* a signal came from outside
  traps,     \* 10/0 traps, which the build and the machine decide
  missed     \* history: the calls whose kill found the child at its end
clone_vars == <<mpc, call, code, termed, seen, meddled, traps, missed>>

CloneTypeOK ==
  /\ mpc \in {"clone", "kill", "wait", "return", "done", "failed"}
  /\ call \in 1..NumCalls + 1
  /\ code \in [Pids -> Nat]
  /\ termed \subseteq Pids
  /\ seen \in Seq([child : Pids, how : {"exited", "killed", "stop", "cont"}, code : Nat])
  /\ meddled \in BOOLEAN /\ traps \in BOOLEAN /\ missed \subseteq {3, 4}

CloneInit ==
  /\ mpc = "clone" /\ call = 1
  /\ code = [p \in Pids |-> SIGKILL]
  /\ termed = {} /\ seen = <<>>
  /\ meddled = FALSE /\ traps \in BOOLEAN /\ missed = {}

MainAt(from) == Alive(Root) /\ mpc = from

Clone ==
  /\ MainAt("clone")
  /\ ForkAs(Root, ChildOf(call))
  /\ mpc' = IF call \in {3, 4} THEN "kill" ELSE "wait"
  /\ UNCHANGED <<call, code, termed, seen, meddled, traps, missed>>

CloneFails ==
  /\ MainAt("clone")
  /\ Die(Root, "exited")
  /\ mpc' = "failed"
  /\ UNCHANGED <<call, code, termed, seen, meddled, traps, missed>>

-----------------------------------------------------------------------------
(* fn, in child c.                                                          *)

FnEnds(c, z, n) ==
  /\ Die(c, z)
  /\ code' = [code EXCEPT ![c] = n]
  /\ UNCHANGED <<mpc, call, termed, seen, meddled, traps, missed>>

InFn(c) == c # Root /\ st[c] = "run" /\ c \notin termed
Arg(c) == CloneArg[Slot(c)]

(* The read through a NULL arg, and 10/n of 0 where division traps.         *)
FnFaults(c) ==
  /\ InFn(c) /\ (Arg(c) = Null \/ (Arg(c) = 0 /\ traps))
  /\ FnEnds(c, "killed", IF Arg(c) = Null THEN SIGSEGV ELSE SIGFPE)

(* return n.  10/0 is undefined: on aarch64 and ppc it does not trap, and an *)
(* optimising compiler drops it, since v is never used.                     *)
FnReturns(c) ==
  /\ InFn(c) /\ Arg(c) # Null /\ (Arg(c) = 0 => ~traps)
  /\ FnEnds(c, "exited", Arg(c))

TermDelivered(c) ==
  /\ st[c] = "run" /\ c \in termed
  /\ FnEnds(c, "killed", SIGTERM)

-----------------------------------------------------------------------------
(* kill(pid,SIGTERM) in the third call, kill(pid,SIGSTOP) in the fourth.  A  *)
(* child that has exited is not affected; a stopped one keeps the SIGTERM.  *)

SwappedKill(k) == IF k = 3 THEN "STOP" ELSE "TERM"
KillWith(k) == IF k = 3 THEN "TERM" ELSE "STOP"

SendTerm(c) ==
  /\ IF st[c] = "run"
     THEN Die(c, "killed") /\ code' = [code EXCEPT ![c] = SIGTERM] /\ UNCHANGED termed
     ELSE /\ termed' = IF st[c] = "stopped" THEN termed \cup {c} ELSE termed
          /\ UNCHANGED <<proc_vars, code>>

SendStop(c) ==
  /\ IF st[c] = "run"
     THEN st' = [st EXCEPT ![c] = "stopped"] /\ rep' = [rep EXCEPT ![c] = "stop"]
     ELSE UNCHANGED <<st, rep>>
  /\ UNCHANGED <<par, signals, code, termed>>

KillChild ==
  /\ MainAt("kill")
  /\ IF KillWith(call) = "TERM" THEN SendTerm(ChildOf(call)) ELSE SendStop(ChildOf(call))
  /\ missed' = IF Alive(ChildOf(call)) THEN missed ELSE missed \cup {call}
  /\ mpc' = "wait"
  /\ UNCHANGED <<call, seen, meddled, traps>>

-----------------------------------------------------------------------------
(* waitpid(0, &status, WUNTRACED | WCONTINUED) and the printf of its result. *)

LeaveZombie(c) == rep' = [rep EXCEPT ![c] = "none"] /\ UNCHANGED <<st, par, signals>>
Take(c) == Collect(c)

WaitAnyChild ==
  /\ MainAt("wait")
  /\ \E c \in Pids :
       /\ Reportable(Root, c)
       /\ Take(c)
       /\ seen' = Append(seen, [child |-> c, how |-> Report(c),
                                code |-> IF Zombie(c) THEN code[c] ELSE 0])
  /\ mpc' = IF call = NumCalls THEN "return" ELSE "clone"
  /\ call' = call + 1
  /\ UNCHANGED <<code, termed, meddled, traps, missed>>

CloneReturn ==
  /\ MainAt("return")
  /\ Die(Root, "exited")
  /\ mpc' = "done"
  /\ UNCHANGED <<call, code, termed, seen, meddled, traps, missed>>

CloneMain == Clone \/ KillChild \/ WaitAnyChild \/ CloneReturn
Fn(c) == FnFaults(c) \/ FnReturns(c) \/ TermDelivered(c)

CloneNext ==
  \/ CloneMain \/ CloneFails
  \/ \E c \in Pids : Fn(c)
  \/ Signals /\ meddled' = TRUE /\ UNCHANGED <<mpc, call, code, termed, seen, traps, missed>>

-----------------------------------------------------------------------------
(* What main reads of the child of call k when nobody else sends a signal.  *)
(* Where 10/0 does not trap, the second is what clone.c:92 calls unexpected. *)
(* A child that ends its sleep before main's kill exits with 1, unexpected   *)
(* in the third call (line 115) and "as expected" in the fourth (line 136).  *)
Outcome(k) ==
  CASE k = 1 -> <<"killed", SIGSEGV>>
    [] k = 2 -> IF traps THEN <<"killed", SIGFPE>> ELSE <<"exited", 0>>
    [] k = 3 -> IF 3 \in missed THEN <<"exited", 1>> ELSE <<"killed", SIGTERM>>
    [] k = 4 -> IF 4 \in missed THEN <<"exited", 1>> ELSE <<"stop", 0>>
    [] k = 5 -> <<"exited", 3>>

(* Left alone, clone.c reads every status from the child of that call, and   *)
(* which one it reads is decided by two things only: whether 10/0 traps, and *)
(* whether main's kill came before the end of the child's sleep.             *)
UndisturbedStatuses ==
  ~meddled => \A k \in 1..Len(seen) :
    seen[k].child = ChildOf(k) /\ <<seen[k].how, seen[k].code>> = Outcome(k)

(* Whatever signals arrive, a waitpid takes the child of an earlier call    *)
(* only after some waitpid returned for a stop or a continue: nothing else  *)
(* lets main fall behind its children.                                      *)
WrongChildExplained ==
  \A k \in 1..Len(seen) : seen[k].child # ChildOf(k) =>
    \E j \in 1..k-1 : seen[j].how \in {"stop", "cont"}
=============================================================================
