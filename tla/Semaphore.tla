----------------------------- MODULE Semaphore -----------------------------
(***************************************************************************)
(* semaphore.c: a producer (the forked child) and a consumer (the parent)  *)
(* pass numtrans messages through one shared-memory slot guarded by two    *)
(* System V semaphores, empty (0) and full (1).  Four scratch semaphores   *)
(* (2..5) are incremented once by multisem_op before the fork.             *)
(*                                                                         *)
(* multisem_op(semid, 2, 6, 1) declares sb[4] but fills sb[2..5]: the      *)
(* entries sb[0] and sb[1] that semop() then uses are uninitialised stack, *)
(* and sb[4], sb[5] are written past the array.  What the stack held is    *)
(* the constant Garbage, a set of pairs of sembufs.                        *)
(***************************************************************************)
EXTENDS Integers, Sequences

CONSTANTS NumTrans,   \* numtrans, the first argument (a negative one acts as 0)
          Garbage,    \* possible contents <<sb[0], sb[1]>> of the unset entries
          Leftover    \* values a set left behind by a crashed run may hold

NSems == 6
SEMVMX == 32767       \* the kernel's largest semaphore value

(* A sembuf: sem_num is an unsigned short, so any natural number; flg says  *)
(* whether sem_flg has the IPC_NOWAIT bit.                                  *)
Sembuf == [num : Nat, op : Int, flg : {"wait", "nowait"}]

ASSUME NumTransAssumption == NumTrans \in Nat
ASSUME GarbageAssumption == Garbage \subseteq Sembuf \X Sembuf
ASSUME LeftoverAssumption == Leftover \subseteq [0..NSems-1 -> 0..SEMVMX]

VARIABLES
  sem,        \* values of the six semaphores
  exists,     \* the segment and the semaphore set have not been removed
  sb,         \* the sembufs sb[0..3] handed to semop by multisem_op
  slot,       \* shared_memory: k for "Message k", Torn while being written
  ppc, pi,    \* producer: control point and loop index
  cpc, ci,    \* main process, later the consumer
  got         \* what the consumer printed, in order

vars == <<sem, exists, sb, slot, ppc, pi, cpc, ci, got>>

Torn == -1
Stale == 0

PPC == {"none", "wait", "write", "finish", "signal", "exited"}
CPC == {"shmget", "semget", "setval", "fill", "semop", "fork",
        "wait", "read", "signal", "reap", "cleanup", "exited", "failed"}

TypeOK ==
  /\ sem \in [0..NSems-1 -> 0..SEMVMX]
  /\ exists \in BOOLEAN
  /\ sb \in Seq(Sembuf)
  /\ slot \in Int
  /\ ppc \in PPC /\ pi \in Nat
  /\ cpc \in CPC /\ ci \in Nat
  /\ got \in Seq(Int)

(* semget(IPC_CREAT) opens the set of a run that died before its clean-up.   *)
Init ==
  /\ sem \in Leftover
  /\ exists \in BOOLEAN
  /\ sb = <<>>
  /\ slot = Stale
  /\ ppc = "none" /\ pi = 0
  /\ cpc = "shmget" /\ ci = 0
  /\ got = <<>>

-----------------------------------------------------------------------------
(* Kernel: semop() applies its operations in array order, all or nothing.   *)

Applied(sv, s) == [sv EXCEPT ![s.num] = @ + s.op]

Verdict(sv, s) ==
  LET v == sv[s.num] + s.op IN
  IF v < 0 \/ (s.op = 0 /\ v # 0)
  THEN IF s.flg = "nowait" THEN "EAGAIN" ELSE "block"
  ELSE IF v > SEMVMX THEN "ERANGE" ELSE "done"

SemopSteps(sv, s) ==
  LET s1 == Applied(sv, s[1])
      s2 == Applied(s1, s[2])
      s3 == Applied(s2, s[3])
  IN <<sv, s1, s2, s3, Applied(s3, s[4])>>

SemopOutcome(sv, s) ==
  IF \E k \in 1..4 : s[k].num >= NSems
  THEN "EFBIG"
  ELSE LET verdict == [k \in 1..4 |-> Verdict(SemopSteps(sv, s)[k], s[k])]
           bad == {k \in 1..4 : verdict[k] # "done"}
       IN IF bad = {} THEN "done"
          ELSE verdict[CHOOSE k \in bad : \A j \in bad : k <= j]

-----------------------------------------------------------------------------
(* main, before the fork.  Every failure path is exit(1).                   *)

main_vars == <<sem, exists, sb, slot, ppc, pi, ci, got>>

Shmget ==
  /\ cpc = "shmget"
  /\ cpc' \in {"semget", "failed"}
  /\ UNCHANGED main_vars

Semget ==
  /\ cpc = "semget"
  /\ \/ cpc' = "setval" /\ exists' = TRUE
     \/ cpc' = "failed" /\ UNCHANGED exists
  /\ UNCHANGED <<sem, sb, slot, ppc, pi, ci, got>>

EmptyStartsAtTwo == [k \in 0..NSems-1 |-> IF k = 0 THEN 2 ELSE 0]
InitialValues == [k \in 0..NSems-1 |-> IF k = 0 THEN 1 ELSE 0]

SetVals ==
  /\ cpc = "setval"
  /\ sem' = InitialValues
  /\ cpc' = "fill"
  /\ UNCHANGED <<exists, sb, slot, ppc, pi, ci, got>>

(* The filling loop of multisem_op.  Its stores to sb[4] and sb[5] are past *)
(* the array: they go unnoticed or they smash the stack.                    *)
MultisemFill ==
  /\ cpc = "fill"
  /\ \E g \in Garbage :
       sb' = <<g[1], g[2], [num |-> 2, op |-> 1, flg |-> "nowait"],
                           [num |-> 3, op |-> 1, flg |-> "nowait"]>>
  /\ cpc' \in {"semop", "failed"}
  /\ UNCHANGED <<sem, exists, slot, ppc, pi, ci, got>>

MultisemSemop ==
  /\ cpc = "semop"
  /\ \/ /\ SemopOutcome(sem, sb) = "done"
        /\ sem' = SemopSteps(sem, sb)[5]
        /\ cpc' = "fork"
     \/ /\ SemopOutcome(sem, sb) \notin {"done", "block"}
        /\ cpc' = "failed"
        /\ UNCHANGED sem
  /\ UNCHANGED <<exists, sb, slot, ppc, pi, ci, got>>

(* fork() == -1 is not distinguished from the parent's side.                *)
Fork ==
  /\ cpc = "fork"
  /\ ppc' \in {"wait", "none"}
  /\ cpc' = "wait"
  /\ UNCHANGED <<sem, exists, sb, slot, pi, ci, got>>

-----------------------------------------------------------------------------
(* The producer's loop.                                                     *)

CanDecrementAlways(k) == TRUE
CanDecrement(k) == sem[k] > 0
CanIncrement(k) == sem[k] < SEMVMX

ProducerWaitEmpty ==
  /\ ppc = "wait" /\ pi < NumTrans /\ exists
  /\ CanDecrement(0)
  /\ sem' = [sem EXCEPT ![0] = @ - 1]
  /\ ppc' = "write"
  /\ UNCHANGED <<exists, sb, slot, pi, cpc, ci, got>>

ProducerWrite ==
  /\ ppc = "write"
  /\ slot' = Torn
  /\ ppc' = "finish"
  /\ UNCHANGED <<sem, exists, sb, pi, cpc, ci, got>>

ProducerFinishWrite ==
  /\ ppc = "finish"
  /\ slot' = pi + 1
  /\ ppc' = "signal"
  /\ UNCHANGED <<sem, exists, sb, pi, cpc, ci, got>>

ProducerSignalFull ==
  /\ ppc = "signal" /\ exists
  /\ CanIncrement(1)
  /\ sem' = [sem EXCEPT ![1] = @ + 1]
  /\ pi' = pi + 1
  /\ ppc' = "wait"
  /\ UNCHANGED <<exists, sb, slot, cpc, ci, got>>

(* sem_op exits on EIDRM (the set is gone) and on ERANGE.                    *)
ProducerSemopFails ==
  /\ \/ ppc = "wait" /\ pi < NumTrans /\ ~exists
     \/ ppc = "signal" /\ (~exists \/ ~CanIncrement(1))
  /\ ppc' = "exited"
  /\ UNCHANGED <<sem, exists, sb, slot, pi, cpc, ci, got>>

ProducerExit ==
  /\ ppc = "wait" /\ pi = NumTrans
  /\ ppc' = "exited"
  /\ UNCHANGED <<sem, exists, sb, slot, pi, cpc, ci, got>>

-----------------------------------------------------------------------------
(* The consumer's loop and the clean-up.                                    *)

ConsumerWaitFull ==
  /\ cpc = "wait" /\ ci < NumTrans
  /\ CanDecrement(1)
  /\ sem' = [sem EXCEPT ![1] = @ - 1]
  /\ cpc' = "read"
  /\ UNCHANGED <<exists, sb, slot, ppc, pi, ci, got>>

ConsumerRead ==
  /\ cpc = "read"
  /\ got' = Append(got, slot)
  /\ cpc' = "signal"
  /\ UNCHANGED <<sem, exists, sb, slot, ppc, pi, ci>>

ConsumerSignalNothing ==
  /\ cpc = "signal"
  /\ ci' = ci + 1
  /\ cpc' = "wait"
  /\ UNCHANGED <<sem, exists, sb, slot, ppc, pi, got>>

ConsumerSignalEmpty ==
  /\ cpc = "signal"
  /\ CanIncrement(0)
  /\ sem' = [sem EXCEPT ![0] = @ + 1]
  /\ ci' = ci + 1
  /\ cpc' = "wait"
  /\ UNCHANGED <<exists, sb, slot, ppc, pi, got>>

ConsumerSignalFails ==
  /\ cpc = "signal"
  /\ ~CanIncrement(0)
  /\ cpc' = "failed"
  /\ UNCHANGED main_vars

ConsumerLoopEnd ==
  /\ cpc = "wait" /\ ci = NumTrans
  /\ cpc' = "reap"
  /\ UNCHANGED main_vars

(* wait(NULL) returns when the producer has exited, or at once with ECHILD. *)
ProducerGone == ppc \in {"none", "exited"}
WaitSkipped == TRUE
WaitReturns == ProducerGone

Reap ==
  /\ cpc = "reap"
  /\ WaitReturns
  /\ cpc' = "cleanup"
  /\ UNCHANGED main_vars

Cleanup ==
  /\ cpc = "cleanup"
  /\ exists' = FALSE
  /\ cpc' = "exited"
  /\ UNCHANGED <<sem, sb, slot, ppc, pi, ci, got>>

-----------------------------------------------------------------------------
Producer == \/ ProducerWaitEmpty \/ ProducerWrite \/ ProducerFinishWrite
            \/ ProducerSignalFull \/ ProducerSemopFails \/ ProducerExit

Consumer == \/ Shmget \/ Semget \/ SetVals \/ MultisemFill \/ MultisemSemop
            \/ Fork \/ ConsumerWaitFull \/ ConsumerRead \/ ConsumerSignalEmpty
            \/ ConsumerSignalFails \/ ConsumerLoopEnd \/ Reap \/ Cleanup

Next == Producer \/ Consumer

Spec == Init /\ [][Next]_vars

(* The kernel schedules both processes; sleep() only delays them.           *)
FairSpec == Spec /\ WF_vars(Producer) /\ WF_vars(Consumer)

-----------------------------------------------------------------------------
(* The uninitialised sembufs leave the empty and full semaphores alone.     *)
Clean == \A k \in 1..2 : k \in DOMAIN sb /\ sb[k].num < 2 => sb[k].op = 0

(* The producer holds the slot from its wait on empty to its signal of      *)
(* full, the consumer from its wait on full to its signal of empty.         *)
ProducerHolds == ppc \in {"write", "finish", "signal"}
ConsumerHolds == cpc \in {"read", "signal"}

(* The producer's snprintf into shared_memory and the consumer's printf of  *)
(* it never overlap (semaphore.c:81-86 against 95-99), unless the garbage    *)
(* in multisem_op's array has changed empty or full.                        *)
SlotExclusive == Clean => ~(ProducerHolds /\ ConsumerHolds)

(* The consumer prints message 1, 2, 3, ... : none is lost, read twice or   *)
(* read half-written, whatever the interleaving of the two loops (under the *)
(* same condition).                                                         *)
ReadsInOrder == Clean => \A k \in 1..Len(got) : got[k] = k

(* semctl(IPC_RMID) at the end of the consumer never pulls the semaphore    *)
(* set from under a producer that still has a semop to do.                  *)
SetOutlivesProducer == ~ProducerGone => exists

(* Once the fork has succeeded both processes run to their ends and the     *)
(* IPC objects are removed (under the same condition).                      *)
TransferCompletes ==
  (cpc = "wait" /\ ppc = "wait" /\ Clean) ~>
    (cpc = "exited" /\ ppc = "exited" /\ ~exists /\ Len(got) = NumTrans)

-----------------------------------------------------------------------------
(* The abstract buffer, with one place.  A message is in it from the signal  *)
(* of full to the printf.  A run whose garbage changes empty or full shows   *)
(* the abstract buffer nothing.                                             *)
H == INSTANCE Handoff WITH
       Total <- NumTrans, Capacity <- 1,
       sent <- IF Clean THEN pi ELSE 0,
       received <- IF Clean THEN got ELSE <<>>

(* The two loops and the semaphores implement that buffer: a step of either  *)
(* process is a put, a take or invisible.                                   *)
ImplementsHandoff == H!HandoffSpec

-----------------------------------------------------------------------------
(* The inductive invariant.  One token circulates: it is in empty, in full, *)
(* in the producer or in the consumer.                                      *)
BeforeFork == cpc \in {"shmget", "semget", "setval", "fill", "semop", "fork"}
InTransfer == cpc \in {"wait", "read", "signal", "reap", "cleanup", "exited"}
One(b) == IF b THEN 1 ELSE 0

SbFilled ==
  cpc = "semop" => /\ Len(sb) = 4
                   /\ \A k \in 1..4 : sb[k] \in Sembuf
                   /\ \A k \in 3..4 : sb[k].num >= 2

Quiet ==
  /\ BeforeFork => ppc = "none"
  /\ (BeforeFork \/ (Clean /\ cpc = "failed")) =>
       ppc = "none" /\ pi = 0 /\ ci = 0 /\ got = <<>>
  /\ cpc \in {"fill", "semop"} => sem[0] = 1 /\ sem[1] = 0
  /\ cpc = "fork" /\ Clean => sem[0] = 1 /\ sem[1] = 0

OneToken ==
  Clean /\ InTransfer =>
    sem[0] + sem[1] + One(ProducerHolds) + One(ConsumerHolds) = 1

Progress ==
  Clean /\ InTransfer =>
    /\ pi = ci + sem[1] + One(ConsumerHolds)
    /\ Len(got) = ci + One(cpc = "signal")
    /\ sem[1] = 1 \/ cpc = "read" => slot = pi
    /\ ppc = "signal" => slot = pi + 1

SetLives ==
  /\ cpc \in {"setval", "fill", "semop", "fork", "wait", "read", "signal",
              "reap", "cleanup"} => exists
  /\ cpc \in {"cleanup", "exited"} => ProducerGone

IInv == /\ TypeOK /\ SbFilled /\ Quiet /\ OneToken /\ Progress /\ SetLives
        /\ ReadsInOrder /\ SetOutlivesProducer
=============================================================================
