-------------------------- MODULE ProcessesGalore --------------------------
(***************************************************************************)
(* The two programs around ParallelFork.  processesgalore.c: main creates  *)
(* the threads one after the other, each runs do_thread with thread_id+2   *)
(* children, and main joins them in order.  parallelfork.c: main itself,   *)
(* thread 0, forks as many children as its argument says.                  *)
(***************************************************************************)
EXTENDS ParallelFork

CONSTANT ForkChoices   \* possible arguments of parallelfork.c

ASSUME ForkChoicesAssumption == ForkChoices \subseteq Nat
ASSUME ThreadsAssumption ==
  Cardinality(Threads) \in Nat \ {0} /\ Threads = 0..(Cardinality(Threads) - 1)

VARIABLES created, joined   \* the next thread_id to create, to join
galore_vars == <<fork_vars, created, joined>>

GaloreTypeOK == ForkTypeOK /\ created \in Nat /\ joined \in Nat

(* thread_ids[i] = i; numforks = thread_id+2                                *)
GaloreForks == [t \in Threads |-> t + 2]

DoThreadsInit ==
  /\ ForkInit
  /\ numforks = GaloreForks
  /\ tpc = [t \in Threads |-> "unborn"]
  /\ created = 0 /\ joined = 0

(* The other threads do not exist: nothing is left to create or to join.    *)
ParallelInit ==
  /\ ForkInit
  /\ \E n \in ForkChoices : numforks = [t \in Threads |-> IF t = 0 THEN n ELSE 0]
  /\ tpc = [t \in Threads |-> IF t = 0 THEN "loop" ELSE "done"]
  /\ created = Cardinality(Threads) /\ joined = Cardinality(Threads)

GaloreInit == DoThreadsInit \/ ParallelInit

CreateThread ==
  /\ Alive(Root) /\ created \in Threads
  /\ Goto(created, "loop")
  /\ created' = created + 1
  /\ UNCHANGED <<proc_vars, numforks, forkno, cpid, joined>>

CreateFails ==
  /\ Alive(Root) /\ created \in Threads
  /\ Die(Root, "exited")
  /\ UNCHANGED <<fork_vars, created, joined>>

JoinThread ==
  /\ Alive(Root) /\ created \notin Threads
  /\ joined \in Threads /\ tpc[joined] = "done"
  /\ joined' = joined + 1
  /\ UNCHANGED <<proc_vars, fork_vars, created>>

MainReturns ==
  /\ created \notin Threads /\ joined \notin Threads
  /\ Return
  /\ UNCHANGED <<created, joined>>

Main == CreateThread \/ JoinThread \/ MainReturns
DoThread(t) == Thread(t) /\ UNCHANGED <<created, joined>>
DoThreadFails(t) == ForkFails(t) /\ UNCHANGED <<created, joined>>
ForkedChild(c) == ChildExits(c) /\ UNCHANGED <<created, joined>>
Outside == \/ \E c \in Pids : ForkedChild(c)
           \/ Signals /\ UNCHANGED <<fork_vars, created, joined>>

GaloreNext ==
  \/ Main \/ CreateFails \/ Outside
  \/ \E t \in Threads : DoThread(t) \/ DoThreadFails(t)
=============================================================================
