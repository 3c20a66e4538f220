--------------------------- MODULE SemaphoreProofs ---------------------------
(***************************************************************************)
(* Proofs about Semaphore, for every number of transfers, every content of *)
(* the uninitialised sembufs and every leftover semaphore set.             *)
(***************************************************************************)
EXTENDS Semaphore, TLAPS

Values == [0..NSems-1 -> 0..SEMVMX]
Harmless(s) == s.num < 2 => s.op = 0

(* The kernel's limit is at least the single token the program circulates.  *)
LEMMA SEMVMXNat == SEMVMX \in Nat /\ SEMVMX > 1
BY DEF SEMVMX

(* A sembuf inside the set that semop() lets through keeps every value in   *)
(* 0..SEMVMX, and one that spares empty and full leaves those two alone.    *)
LEMMA AppliedOne ==
  ASSUME NEW sv \in Values, NEW s \in Sembuf, s.num < NSems,
         Verdict(sv, s) = "done"
  PROVE  /\ Applied(sv, s) \in Values
         /\ Harmless(s) => \A k \in 0..1 : Applied(sv, s)[k] = sv[k]
<1>1. s.num \in 0..NSems-1 /\ s.op \in Int
  BY DEF Sembuf, NSems
<1>2. sv[s.num] \in 0..SEMVMX
  BY <1>1 DEF Values
<1>3. sv[s.num] + s.op \in 0..SEMVMX
  <2>1. ~(sv[s.num] + s.op < 0)
    BY DEF Verdict
  <2>2. ~(sv[s.num] + s.op > SEMVMX)
    BY DEF Verdict
  <2> QED
    BY <1>1, <1>2, <2>1, <2>2, SEMVMXNat
<1>4. Applied(sv, s) \in Values
  BY <1>1, <1>3 DEF Applied, Values
<1>5. ASSUME Harmless(s), NEW k \in 0..1
      PROVE  Applied(sv, s)[k] = sv[k]
  <2>1. k \in 0..NSems-1
    BY DEF NSems
  <2>2. CASE s.num = k
    <3>1. s.op = 0
      BY <1>1, <1>5, <2>2 DEF Harmless
    <3>2. sv[s.num] + s.op = sv[s.num]
      BY <1>2, <3>1, SEMVMXNat
    <3> QED
      BY <2>1, <2>2, <3>2 DEF Applied, Values
  <2>3. CASE s.num # k
    BY <2>1, <2>3 DEF Applied, Values
  <2> QED
    BY <2>2, <2>3
<1> QED
  BY <1>4, <1>5

(* A non-empty set of positions has a first one.                            *)
LEMMA FirstOfFour ==
  ASSUME NEW S \in SUBSET (1..4), S # {}
  PROVE  \E k \in S : \A j \in S : k <= j
<1>1. CASE 1 \in S BY <1>1
<1>2. CASE 1 \notin S /\ 2 \in S BY <1>2
<1>3. CASE 1 \notin S /\ 2 \notin S /\ 3 \in S BY <1>3
<1>4. CASE 1 \notin S /\ 2 \notin S /\ 3 \notin S
  <2>1. \A k \in S : k = 4
    BY <1>4
  <2>2. PICK k \in S : k = 4
    BY <2>1
  <2>3. \A j \in S : k <= j
    BY <2>1, <2>2
  <2> QED
    BY <2>2, <2>3
<1> QED
  BY <1>1, <1>2, <1>3, <1>4

(* A semop() of multisem_op that succeeds keeps the values in range, and    *)
(* leaves empty and full alone when all four sembufs spare them.            *)
LEMMA SemopDone ==
  ASSUME NEW sv \in Values, NEW s,
         \A k \in 1..4 : s[k] \in Sembuf,
         SemopOutcome(sv, s) = "done"
  PROVE  /\ SemopSteps(sv, s)[5] \in Values
         /\ (\A k \in 1..4 : Harmless(s[k])) =>
              \A j \in 0..1 : SemopSteps(sv, s)[5][j] = sv[j]
<1> DEFINE verdict == [k \in 1..4 |-> Verdict(SemopSteps(sv, s)[k], s[k])]
           bad == {k \in 1..4 : verdict[k] # "done"}
           first == CHOOSE k \in bad : \A j \in bad : k <= j
           s1 == Applied(sv, s[1])
           s2 == Applied(s1, s[2])
           s3 == Applied(s2, s[3])
           s4 == Applied(s3, s[4])
<1>0. ~ \E k \in 1..4 : s[k].num >= NSems
  BY DEF SemopOutcome
<1>1. \A k \in 1..4 : s[k].num < NSems
  <2> TAKE k \in 1..4
  <2>1. s[k].num \in Nat
    BY DEF Sembuf
  <2> QED
    BY <1>0, <2>1 DEF NSems
<1>2. bad = {}
  <2>1. ASSUME bad # {} PROVE FALSE
    <3>1. bad \in SUBSET (1..4)
      OBVIOUS
    <3>2. \E k \in bad : \A j \in bad : k <= j
      <4> HIDE DEF bad
      <4> QED
        BY <2>1, <3>1, FirstOfFour
    <3>3. first \in bad
      <4> HIDE DEF bad
      <4> QED
        BY <3>2
    <3>4. verdict[first] # "done"
      BY <3>3
    <3>5. SemopOutcome(sv, s) = verdict[first]
      BY <1>0, <2>1 DEF SemopOutcome
    <3> QED
      BY <3>4, <3>5
  <2> QED
    BY <2>1
<1>3. SemopSteps(sv, s) = <<sv, s1, s2, s3, s4>>
  BY DEF SemopSteps
<1>4. \A k \in 1..4 : Verdict(SemopSteps(sv, s)[k], s[k]) = "done"
  BY <1>2
<1> HIDE DEF s1, s2, s3, s4, verdict, bad, first
<1>5. /\ Verdict(sv, s[1]) = "done" /\ Verdict(s1, s[2]) = "done"
      /\ Verdict(s2, s[3]) = "done" /\ Verdict(s3, s[4]) = "done"
  BY <1>3, <1>4
<1>6. s1 \in Values /\ (Harmless(s[1]) => \A j \in 0..1 : s1[j] = sv[j])
  BY <1>1, <1>5, AppliedOne DEF s1
<1>7. s2 \in Values /\ (Harmless(s[2]) => \A j \in 0..1 : s2[j] = s1[j])
  BY <1>1, <1>5, <1>6, AppliedOne DEF s2
<1>8. s3 \in Values /\ (Harmless(s[3]) => \A j \in 0..1 : s3[j] = s2[j])
  BY <1>1, <1>5, <1>7, AppliedOne DEF s3
<1>9. s4 \in Values /\ (Harmless(s[4]) => \A j \in 0..1 : s4[j] = s3[j])
  BY <1>1, <1>5, <1>8, AppliedOne DEF s4
<1> QED
  BY <1>3, <1>6, <1>7, <1>8, <1>9
-----------------------------------------------------------------------------
TypeInv == TypeOK /\ SbFilled

(* The initial states have their types.                                      *)
LEMMA TypeInit == Init => TypeInv
BY NumTransAssumption, LeftoverAssumption
   DEF Init, TypeInv, TypeOK, SbFilled, Stale, PPC, CPC

(* The values SETVAL stores: empty 1, full 0, all in range.                  *)
LEMMA SetValsType == InitialValues \in Values /\ InitialValues[0] = 1 /\ InitialValues[1] = 0
<1>1. 0 \in 0..SEMVMX /\ 1 \in 0..SEMVMX
  BY SEMVMXNat
<1> QED
  BY <1>1 DEF InitialValues, Values, NSems

(* Every step keeps the types; semop never leaves 0..SEMVMX.                 *)
LEMMA TypeStep == TypeInv /\ [Next]_vars => TypeInv'
<1> SUFFICES ASSUME TypeInv, [Next]_vars PROVE TypeInv'
  OBVIOUS
<1> USE DEF TypeInv, TypeOK, SbFilled, PPC, CPC, main_vars
<1>1. CASE UNCHANGED vars
  BY <1>1 DEF vars
<1>2. CASE Shmget
  BY <1>2 DEF Shmget
<1>3. CASE Semget
  BY <1>3 DEF Semget
<1>4. CASE SetVals
  BY <1>4, SetValsType DEF SetVals, Values
<1>5. CASE MultisemFill
  BY <1>5, GarbageAssumption DEF MultisemFill, Sembuf
<1>6. CASE MultisemSemop
  <2>1. CASE SemopOutcome(sem, sb) = "done"
    <3>1. SemopSteps(sem, sb)[5] \in Values
      BY <1>6, <2>1, SemopDone DEF MultisemSemop, Values
    <3> QED
      BY <1>6, <2>1, <3>1 DEF MultisemSemop, Values
  <2>2. CASE SemopOutcome(sem, sb) # "done"
    BY <1>6, <2>2 DEF MultisemSemop
  <2> QED
    BY <2>1, <2>2
<1>7. CASE Fork
  BY <1>7 DEF Fork
<1>8. CASE ProducerWaitEmpty
  <2>1. sem[0] \in 0..SEMVMX /\ sem[0] > 0 /\ sem[0] - 1 \in 0..SEMVMX
    BY <1>8, SEMVMXNat DEF ProducerWaitEmpty, CanDecrement, NSems
  <2> QED
    BY <1>8, <2>1 DEF ProducerWaitEmpty
<1>9. CASE ProducerWrite
  BY <1>9 DEF ProducerWrite, Torn
<1>10. CASE ProducerFinishWrite
  BY <1>10 DEF ProducerFinishWrite
<1>11. CASE ProducerSignalFull
  <2>1. sem[1] \in 0..SEMVMX /\ sem[1] + 1 \in 0..SEMVMX
    BY <1>11, SEMVMXNat DEF ProducerSignalFull, CanIncrement, NSems
  <2>2. sem' \in [0..NSems-1 -> 0..SEMVMX]
    BY <1>11, <2>1 DEF ProducerSignalFull
  <2> QED
    BY <1>11, <2>2 DEF ProducerSignalFull
<1>12. CASE ProducerSemopFails
  BY <1>12 DEF ProducerSemopFails
<1>13. CASE ProducerExit
  BY <1>13 DEF ProducerExit
<1>14. CASE ConsumerWaitFull
  <2>1. sem[1] \in 0..SEMVMX /\ sem[1] - 1 \in 0..SEMVMX
    BY <1>14, SEMVMXNat DEF ConsumerWaitFull, CanDecrement, NSems
  <2> QED
    BY <1>14, <2>1 DEF ConsumerWaitFull
<1>15. CASE ConsumerRead
  BY <1>15 DEF ConsumerRead
<1>16. CASE ConsumerSignalEmpty
  <2>1. sem[0] \in 0..SEMVMX /\ sem[0] + 1 \in 0..SEMVMX
    BY <1>16, SEMVMXNat DEF ConsumerSignalEmpty, CanIncrement, NSems
  <2>2. sem' \in [0..NSems-1 -> 0..SEMVMX]
    BY <1>16, <2>1 DEF ConsumerSignalEmpty
  <2> QED
    BY <1>16, <2>2 DEF ConsumerSignalEmpty
<1>17. CASE ConsumerSignalFails
  BY <1>17 DEF ConsumerSignalFails
<1>18. CASE ConsumerLoopEnd
  BY <1>18 DEF ConsumerLoopEnd
<1>19. CASE Reap
  BY <1>19 DEF Reap
<1>20. CASE Cleanup
  BY <1>20 DEF Cleanup
<1> QED
  BY <1>1, <1>2, <1>3, <1>4, <1>5, <1>6, <1>7, <1>8, <1>9, <1>10, <1>11, <1>12,
     <1>13, <1>14, <1>15, <1>16, <1>17, <1>18, <1>19, <1>20
     DEF Next, Producer, Consumer

(* The semaphores stay within the kernel's range and every variable keeps   *)
(* its type, whatever the uninitialised sembufs contain (semaphore.c:20,34).*)
THEOREM TypeCorrect == Spec => []TypeOK
<1>1. TypeInv => TypeOK
  BY DEF TypeInv
<1> QED
  BY <1>1, TypeInit, TypeStep, PTL DEF Spec

-----------------------------------------------------------------------------
(* The clean-up does not overtake the producer.                             *)
LiveInv == TypeInv /\ SetLives /\ SetOutlivesProducer
           /\ (BeforeFork => ppc = "none")

(* Every step keeps the set alive until the producer is gone.                *)
LEMMA LiveStep == LiveInv /\ [Next]_vars => LiveInv'
<1> SUFFICES ASSUME LiveInv, [Next]_vars PROVE LiveInv'
  OBVIOUS
<1>0. TypeInv'
  BY TypeStep DEF LiveInv
<1> SUFFICES (SetLives /\ SetOutlivesProducer /\ (BeforeFork => ppc = "none"))'
  BY <1>0 DEF LiveInv
<1> USE DEF LiveInv, TypeInv, TypeOK, SetLives, SetOutlivesProducer, BeforeFork,
            ProducerGone, PPC, CPC, main_vars
<1>1. CASE UNCHANGED vars
  BY <1>1 DEF vars
<1>2. CASE Producer
  BY <1>2 DEF Producer, ProducerWaitEmpty, ProducerWrite, ProducerFinishWrite,
              ProducerSignalFull, ProducerSemopFails, ProducerExit
<1>3. CASE Shmget \/ Semget \/ SetVals \/ MultisemFill \/ MultisemSemop \/ Fork
  BY <1>3 DEF Shmget, Semget, SetVals, MultisemFill, MultisemSemop, Fork
<1>4. CASE ConsumerWaitFull \/ ConsumerRead \/ ConsumerSignalEmpty
           \/ ConsumerSignalFails \/ ConsumerLoopEnd
  BY <1>4 DEF ConsumerWaitFull, ConsumerRead, ConsumerSignalEmpty,
              ConsumerSignalFails, ConsumerLoopEnd
<1>5. CASE Reap \/ Cleanup
  BY <1>5 DEF Reap, WaitReturns, Cleanup
<1> QED
  BY <1>1, <1>2, <1>3, <1>4, <1>5 DEF Next, Consumer

(* semctl(IPC_RMID) at semaphore.c:109 never removes the set while the      *)
(* producer still has a semop to do, whatever the sembufs contained.        *)
THEOREM CleanupIsLast == Spec => []SetOutlivesProducer
<1>1. Init => LiveInv
  BY TypeInit DEF Init, LiveInv, SetLives, SetOutlivesProducer, ProducerGone
<1>2. LiveInv => SetOutlivesProducer
  BY DEF LiveInv
<1> QED
  BY <1>1, <1>2, LiveStep, PTL DEF Spec

-----------------------------------------------------------------------------
(* The one token: the part of IInv that depends on Clean.                   *)
TokenInv == LiveInv /\ Quiet /\ OneToken /\ Progress /\ ReadsInOrder

Safe == Quiet /\ OneToken /\ Progress /\ ReadsInOrder

(* The type facts the arithmetic below rests on.                            *)
LEMMA SemNat ==
  ASSUME TypeOK
  PROVE  /\ sem[0] \in Nat /\ sem[1] \in Nat
         /\ pi \in Nat /\ ci \in Nat /\ Len(got) \in Nat /\ slot \in Int
  BY SEMVMXNat DEF TypeOK, NSems

(* The steps of main before the fork preserve the token invariant.           *)
LEMMA BeforeForkStep ==
  ASSUME TokenInv, Shmget \/ Semget \/ SetVals \/ MultisemFill \/ MultisemSemop \/ Fork
  PROVE  Safe'
<1> USE DEF TokenInv, LiveInv, TypeInv, Safe, Quiet, OneToken, Progress, ReadsInOrder,
            BeforeFork, InTransfer, Clean, main_vars
<1>1. CASE Shmget
  BY <1>1 DEF Shmget
<1>2. CASE Semget
  BY <1>2 DEF Semget
<1>3. CASE SetVals
  BY <1>3, SetValsType DEF SetVals
<1>4. CASE MultisemFill
  BY <1>4 DEF MultisemFill
<1>5. CASE MultisemSemop
  <2>1. CASE SemopOutcome(sem, sb) # "done"
    BY <1>5, <2>1 DEF MultisemSemop
  <2>2. CASE SemopOutcome(sem, sb) = "done"
    <3>1. sem \in Values /\ \A k \in 1..4 : sb[k] \in Sembuf
      BY <1>5 DEF MultisemSemop, SbFilled, TypeOK, Values
    <3>2. Clean => \A k \in 1..4 : Harmless(sb[k])
      <4>1. 1 \in DOMAIN sb /\ 2 \in DOMAIN sb
        BY <1>5 DEF MultisemSemop, SbFilled, TypeOK
      <4>2. \A k \in 3..4 : sb[k].num >= 2 /\ sb[k].num \in Nat
        BY <1>5, <3>1 DEF MultisemSemop, SbFilled, Sembuf
      <4> QED
        BY <4>1, <4>2 DEF Harmless
    <3>3. Clean => SemopSteps(sem, sb)[5][0] = 1 /\ SemopSteps(sem, sb)[5][1] = 0
      <4>1. sem[0] = 1 /\ sem[1] = 0
        BY <1>5 DEF MultisemSemop
      <4> HIDE DEF Clean
      <4> QED
        BY <2>2, <3>1, <3>2, <4>1, SemopDone
    <3> QED
      BY <1>5, <2>2, <3>3 DEF MultisemSemop
  <2> QED
    BY <2>1, <2>2
<1>6. CASE Fork
  <2>1. /\ sem' = sem /\ sb' = sb /\ slot' = slot /\ pi' = 0 /\ ci' = 0 /\ got' = <<>>
        /\ cpc' = "wait" /\ ppc' \in {"wait", "none"}
        /\ Clean => sem[0] = 1 /\ sem[1] = 0
    BY <1>6 DEF Fork
  <2>2. One(ProducerHolds)' = 0 /\ One(ConsumerHolds)' = 0 /\ One(cpc = "signal")' = 0
    BY <2>1 DEF One, ProducerHolds, ConsumerHolds
  <2>3. Quiet' /\ ReadsInOrder'
    BY <2>1
  <2>4. OneToken'
    BY <2>1, <2>2
  <2>5. Progress'
    BY <2>1, <2>2
  <2> QED
    BY <2>3, <2>4, <2>5
<1> QED
  BY <1>1, <1>2, <1>3, <1>4, <1>5, <1>6

(* The steps of the producer preserve the token invariant.                   *)
LEMMA ProducerStep ==
  ASSUME TokenInv, Producer
  PROVE  Safe'
<1> USE DEF TokenInv, LiveInv, TypeInv, Safe, Quiet, OneToken, Progress, ReadsInOrder,
            BeforeFork, InTransfer
<1>0. /\ TypeOK /\ sb' = sb /\ cpc' = cpc /\ ci' = ci /\ got' = got
      /\ Clean' = Clean /\ One(ConsumerHolds)' = One(ConsumerHolds)
      /\ One(cpc = "signal")' = One(cpc = "signal")
      /\ One(ConsumerHolds) \in 0..1
  BY DEF Producer, ProducerWaitEmpty, ProducerWrite, ProducerFinishWrite, Clean, One,
         ProducerSignalFull, ProducerSemopFails, ProducerExit, ConsumerHolds
<1>1. CASE ProducerWaitEmpty
  <2>1. /\ sem'[0] = sem[0] - 1 /\ sem'[1] = sem[1] /\ pi' = pi /\ slot' = slot
        /\ ppc = "wait" /\ ppc' = "write" /\ cpc # "fork"
    BY <1>0, <1>1 DEF ProducerWaitEmpty, TypeOK, NSems
  <2>2. One(ProducerHolds) = 0 /\ One(ProducerHolds)' = 1
    BY <2>1 DEF One, ProducerHolds
  <2> QED
    BY <1>0, <2>1, <2>2, SemNat
<1>2. CASE ProducerWrite
  <2>1. /\ sem' = sem /\ pi' = pi /\ ppc = "write" /\ ppc' = "finish" /\ ~BeforeFork
    BY <1>0, <1>2 DEF ProducerWrite
  <2>2. One(ProducerHolds) = 1 /\ One(ProducerHolds)' = 1 /\ (cpc = "read" => One(ConsumerHolds) = 1)
    BY <2>1 DEF One, ProducerHolds, ConsumerHolds
  <2> QED
    BY <1>0, <2>1, <2>2, SemNat
<1>3. CASE ProducerFinishWrite
  <2>1. /\ sem' = sem /\ pi' = pi /\ slot' = pi + 1 /\ ppc = "finish" /\ ppc' = "signal"
        /\ ~BeforeFork
    BY <1>0, <1>3 DEF ProducerFinishWrite
  <2>2. One(ProducerHolds) = 1 /\ One(ProducerHolds)' = 1 /\ (cpc = "read" => One(ConsumerHolds) = 1)
    BY <2>1 DEF One, ProducerHolds, ConsumerHolds
  <2>3. Clean /\ InTransfer => sem[1] = 0 /\ cpc # "read"
    BY <1>0, <2>2, SemNat
  <2> QED
    BY <1>0, <2>1, <2>2, <2>3
<1>4. CASE ProducerSignalFull
  <2>1. /\ sem'[0] = sem[0] /\ sem'[1] = sem[1] + 1 /\ pi' = pi + 1 /\ slot' = slot
        /\ ppc = "signal" /\ ppc' = "wait" /\ ~BeforeFork
    BY <1>0, <1>4 DEF ProducerSignalFull, TypeOK, NSems
  <2>2. One(ProducerHolds) = 1 /\ One(ProducerHolds)' = 0
    BY <2>1 DEF One, ProducerHolds
  <2>3. sem[0] \in Nat /\ sem[1] \in Nat /\ pi \in Nat /\ ci \in Nat
    BY <1>0, SemNat
  <2>4. Clean /\ InTransfer => sem[0] = 0 /\ sem[1] = 0 /\ One(ConsumerHolds) = 0
    <3>1. Clean /\ InTransfer => sem[0] + sem[1] + 1 + One(ConsumerHolds) = 1
      BY <2>2
    <3> QED
      BY <1>0, <2>3, <3>1
  <2>5. Clean /\ InTransfer => sem'[0] = 0 /\ sem'[1] = 1
    BY <2>1, <2>4
  <2>6. OneToken' /\ Quiet' /\ ReadsInOrder'
    BY <1>0, <2>1, <2>2, <2>4, <2>5
  <2>7. Progress'
    BY <1>0, <2>1, <2>2, <2>3, <2>4, <2>5
  <2> QED
    BY <2>6, <2>7
<1>5. CASE ProducerSemopFails
  <2>1. /\ sem' = sem /\ pi' = pi /\ slot' = slot /\ ppc' = "exited" /\ ~BeforeFork
        /\ ppc \in {"wait", "signal"}
    BY <1>0, <1>5 DEF ProducerSemopFails
  <2>2. exists
    BY <2>1 DEF SetOutlivesProducer, ProducerGone
  <2>3. ppc = "signal" /\ sem[1] >= SEMVMX
    BY <1>0, <1>5, <2>2, SemNat, SEMVMXNat DEF ProducerSemopFails, CanIncrement
  <2>4. One(ProducerHolds) = 1
    BY <2>3 DEF One, ProducerHolds
  <2>5. ~Clean
    BY <1>0, <2>1, <2>3, <2>4, SemNat, SEMVMXNat DEF TypeOK, CPC
  <2> QED
    BY <1>0, <2>1, <2>5
<1>6. CASE ProducerExit
  <2>1. /\ sem' = sem /\ pi' = pi /\ slot' = slot /\ ppc = "wait" /\ ppc' = "exited"
        /\ ~BeforeFork
    BY <1>0, <1>6 DEF ProducerExit
  <2>2. One(ProducerHolds) = 0 /\ One(ProducerHolds)' = 0
    BY <2>1 DEF One, ProducerHolds
  <2> QED
    BY <1>0, <2>1, <2>2, SemNat
<1> QED
  BY <1>1, <1>2, <1>3, <1>4, <1>5, <1>6 DEF Producer

(* The steps of the consumer preserve the token invariant.                   *)
LEMMA ConsumerStep ==
  ASSUME TokenInv,
         ConsumerWaitFull \/ ConsumerRead \/ ConsumerSignalEmpty
           \/ ConsumerSignalFails \/ ConsumerLoopEnd \/ Reap \/ Cleanup
  PROVE  Safe'
<1> USE DEF TokenInv, LiveInv, TypeInv, Safe, Quiet, OneToken, Progress, ReadsInOrder,
            BeforeFork, InTransfer, main_vars
<1>0. /\ TypeOK /\ sb' = sb /\ ppc' = ppc /\ pi' = pi /\ slot' = slot
      /\ Clean' = Clean /\ One(ProducerHolds)' = One(ProducerHolds)
      /\ One(ProducerHolds) \in 0..1 /\ (ppc = "signal" => One(ProducerHolds) = 1)
  BY DEF ConsumerWaitFull, ConsumerRead, ConsumerSignalEmpty, ConsumerSignalFails,
         ConsumerLoopEnd, Reap, Cleanup, Clean, One, ProducerHolds
<1>1. CASE ConsumerWaitFull
  <2>1. /\ sem'[0] = sem[0] /\ sem'[1] = sem[1] - 1 /\ sem[1] > 0 /\ ci' = ci
        /\ got' = got /\ cpc = "wait" /\ cpc' = "read"
    BY <1>0, <1>1 DEF ConsumerWaitFull, CanDecrement, TypeOK, NSems
  <2>2. /\ One(ConsumerHolds) = 0 /\ One(ConsumerHolds)' = 1
        /\ One(cpc = "signal") = 0 /\ One(cpc = "signal")' = 0
    BY <2>1 DEF One, ConsumerHolds
  <2> QED
    BY <1>0, <2>1, <2>2, SemNat
<1>2. CASE ConsumerRead
  <2>1. /\ sem' = sem /\ ci' = ci /\ got' = Append(got, slot)
        /\ cpc = "read" /\ cpc' = "signal"
    BY <1>2 DEF ConsumerRead
  <2>2. /\ One(ConsumerHolds) = 1 /\ One(ConsumerHolds)' = 1
        /\ One(cpc = "signal") = 0 /\ One(cpc = "signal")' = 1
    BY <2>1 DEF One, ConsumerHolds
  <2>3. /\ Len(got') = Len(got) + 1
        /\ \A k \in 1..Len(got) : got'[k] = got[k]
        /\ got'[Len(got) + 1] = slot
    BY <1>0, <2>1 DEF TypeOK
  <2>4. Quiet' /\ OneToken' /\ Progress'
    BY <1>0, <2>1, <2>2, <2>3, SemNat
  <2>5. Clean => slot = Len(got) + 1
    BY <1>0, <2>1, <2>2, SemNat
  <2>6. ReadsInOrder'
    <3> SUFFICES ASSUME Clean, NEW k \in 1..Len(got') PROVE got'[k] = k
      BY <1>0
    <3>1. CASE k \in 1..Len(got)
      BY <2>3, <3>1
    <3>2. CASE k = Len(got) + 1
      BY <2>3, <2>5, <3>2
    <3> QED
      BY <1>0, <2>3, <3>1, <3>2, SemNat
  <2> QED
    BY <2>4, <2>6
<1>3. CASE ConsumerSignalEmpty
  <2>1. /\ sem'[0] = sem[0] + 1 /\ sem'[1] = sem[1] /\ ci' = ci + 1
        /\ got' = got /\ cpc = "signal" /\ cpc' = "wait"
    BY <1>0, <1>3 DEF ConsumerSignalEmpty, TypeOK, NSems
  <2>2. /\ One(ConsumerHolds) = 1 /\ One(ConsumerHolds)' = 0
        /\ One(cpc = "signal") = 1 /\ One(cpc = "signal")' = 0
    BY <2>1 DEF One, ConsumerHolds
  <2>3. Quiet' /\ ReadsInOrder'
    BY <1>0, <2>1
  <2>4. sem[0] \in Nat /\ sem[1] \in Nat /\ pi \in Nat /\ ci \in Nat
    BY <1>0, SemNat
  <2>5. Clean => sem[0] = 0 /\ sem[1] = 0 /\ One(ProducerHolds) = 0
    <3>1. Clean => sem[0] + sem[1] + One(ProducerHolds) + 1 = 1
      BY <2>1, <2>2
    <3> QED
      BY <1>0, <2>4, <3>1
  <2>6. Clean => sem'[0] = 1 /\ sem'[1] = 0
    BY <2>1, <2>5
  <2>7. OneToken'
    BY <1>0, <2>2, <2>5, <2>6
  <2>8. Progress'
    BY <1>0, <2>1, <2>2, <2>4, <2>5, <2>6
  <2> QED
    BY <2>3, <2>7, <2>8
<1>4. CASE ConsumerSignalFails
  <2>1. /\ sem' = sem /\ ci' = ci /\ got' = got /\ cpc = "signal" /\ cpc' = "failed"
        /\ sem[0] >= SEMVMX
    BY <1>0, <1>4, SemNat, SEMVMXNat DEF ConsumerSignalFails, CanIncrement
  <2>2. One(ConsumerHolds) = 1
    BY <2>1 DEF One, ConsumerHolds
  <2>3. ~Clean
    BY <1>0, <2>1, <2>2, SemNat, SEMVMXNat
  <2> QED
    BY <1>0, <2>1, <2>3
<1>5. CASE ConsumerLoopEnd \/ Reap \/ Cleanup
  <2>1. /\ sem' = sem /\ ci' = ci /\ got' = got /\ cpc \in {"wait", "reap", "cleanup"}
        /\ cpc' \in {"reap", "cleanup", "exited"}
    BY <1>5 DEF ConsumerLoopEnd, Reap, Cleanup
  <2>2. /\ One(ConsumerHolds) = 0 /\ One(ConsumerHolds)' = 0
        /\ One(cpc = "signal") = 0 /\ One(cpc = "signal")' = 0
    BY <2>1 DEF One, ConsumerHolds
  <2> QED
    BY <1>0, <2>1, <2>2, SemNat
<1> QED
  BY <1>1, <1>2, <1>3, <1>4, <1>5

(* The conjunction the theorems below follow from is inductive.             *)
THEOREM TokenInvariant == Spec => []IInv
<1>1. Init => TokenInv
  BY TypeInit DEF Init, TokenInv, LiveInv, SetLives, SetOutlivesProducer, ProducerGone,
     Quiet, OneToken, Progress, ReadsInOrder, BeforeFork, InTransfer
<1>2. TokenInv /\ [Next]_vars => TokenInv'
  <2> SUFFICES ASSUME TokenInv, [Next]_vars PROVE TokenInv'
    OBVIOUS
  <2>1. LiveInv'
    BY LiveStep DEF TokenInv
  <2>2. Safe'
    <3>1. CASE UNCHANGED vars
      BY <3>1 DEF vars, TokenInv, Safe, Quiet, OneToken, Progress, ReadsInOrder,
         BeforeFork, InTransfer, Clean, ProducerHolds, ConsumerHolds, One
    <3> QED
      BY <3>1, BeforeForkStep, ProducerStep, ConsumerStep DEF Next, Consumer
  <2> QED
    BY <2>1, <2>2 DEF TokenInv, Safe
<1>3. TokenInv => IInv
  BY DEF TokenInv, LiveInv, TypeInv, IInv
<1> QED
  BY <1>1, <1>2, <1>3, PTL DEF Spec

(* snprintf into the slot (semaphore.c:83) and printf of it (97) never      *)
(* overlap.                                                                 *)
THEOREM MutualExclusion == Spec => []SlotExclusive
<1>1. IInv => SlotExclusive
  <2> SUFFICES ASSUME IInv, Clean, ProducerHolds, ConsumerHolds PROVE FALSE
    BY DEF SlotExclusive
  <2>1. One(ProducerHolds) = 1 /\ One(ConsumerHolds) = 1
    BY DEF One
  <2>2. InTransfer /\ TypeOK
    BY DEF InTransfer, ConsumerHolds, IInv
  <2>3. sem[0] + sem[1] + 1 + 1 = 1
    BY <2>1, <2>2 DEF IInv, OneToken
  <2>4. sem[0] \in Nat /\ sem[1] \in Nat
    BY <2>2, SemNat
  <2> QED
    BY <2>3, <2>4
<1> QED
  BY <1>1, TokenInvariant, PTL

(* The consumer prints messages 1, 2, 3, ... with none lost, repeated or    *)
(* torn, for every numtrans.                                                *)
THEOREM InOrderDelivery == Spec => []ReadsInOrder
<1>1. IInv => ReadsInOrder
  BY DEF IInv
<1> QED
  BY <1>1, TokenInvariant, PTL

-----------------------------------------------------------------------------
(* The refinement.  Inside its loop the producer's index is below numtrans. *)
LoopBound == ppc \in {"write", "finish", "signal"} => pi < NumTrans

LEMMA LoopBoundInvariant == Spec => []LoopBound
<1>1. Init => LoopBound
  BY DEF Init, LoopBound
<1>2. LoopBound /\ [Next]_vars => LoopBound'
  <2> SUFFICES ASSUME LoopBound, [Next]_vars PROVE LoopBound'
    OBVIOUS
  <2>1. CASE UNCHANGED <<ppc, pi>>
    BY <2>1 DEF LoopBound
  <2>2. CASE Producer
    BY <2>2 DEF LoopBound, Producer, ProducerWaitEmpty, ProducerWrite, ProducerFinishWrite,
       ProducerSignalFull, ProducerSemopFails, ProducerExit
  <2>3. CASE Consumer
    <3>1. CASE Fork
      BY <3>1 DEF Fork, LoopBound
    <3>2. ~Fork => UNCHANGED <<ppc, pi>>
      BY <2>3 DEF Consumer, main_vars, Shmget, Semget, SetVals, MultisemFill, MultisemSemop,
         ConsumerWaitFull, ConsumerRead, ConsumerSignalEmpty, ConsumerSignalFails,
         ConsumerLoopEnd, Reap, Cleanup
    <3> QED
      BY <2>1, <3>1, <3>2
  <2> QED
    BY <2>1, <2>2, <2>3 DEF Next, vars
<1> QED
  BY <1>1, <1>2, PTL DEF Spec

(* A step that leaves pi and got alone is invisible to the buffer: either   *)
(* the sembufs stay as they are or nothing has been transferred yet.        *)
LEMMA InvisibleStep ==
  ASSUME UNCHANGED <<pi, got>>, UNCHANGED sb \/ (pi = 0 /\ got = <<>>)
  PROVE  UNCHANGED H!handoff_vars
<1>1. CASE UNCHANGED sb
  <2>1. Clean' = Clean
    BY <1>1 DEF Clean
  <2> QED
    BY <2>1 DEF H!handoff_vars
<1>2. CASE pi = 0 /\ got = <<>>
  BY <1>2 DEF H!handoff_vars
<1> QED
  BY <1>1, <1>2

(* The signal of full is a put: the buffer is empty then.                   *)
LEMMA SignalIsPut ==
  ASSUME IInv, LoopBound, ProducerSignalFull
  PROVE  [H!HandoffNext]_H!handoff_vars
<1>1. /\ ppc = "signal" /\ ProducerHolds /\ pi' = pi + 1 /\ UNCHANGED <<sb, got>>
      /\ pi < NumTrans
  BY DEF ProducerSignalFull, LoopBound, ProducerHolds
<1>2. Clean' = Clean
  BY <1>1 DEF Clean
<1>3. CASE ~Clean
  BY <1>2, <1>3 DEF H!handoff_vars
<1>4. CASE Clean
  <2>1. InTransfer /\ TypeOK
    BY <1>1, <1>4 DEF IInv, TypeOK, Quiet, BeforeFork, InTransfer, CPC
  <2>2. sem[0] \in Nat /\ sem[1] \in Nat /\ ci \in Nat /\ pi \in Nat
    BY <2>1, SemNat DEF TypeOK
  <2>3. One(ProducerHolds) = 1 /\ One(ConsumerHolds) \in {0, 1}
    BY <1>1 DEF One
  <2>4. One(ConsumerHolds) = 0 /\ sem[1] = 0
    BY <1>4, <2>1, <2>2, <2>3 DEF IInv, OneToken
  <2>5. One(cpc = "signal") = 0
    BY <2>4 DEF One, ConsumerHolds
  <2>6. pi = ci /\ Len(got) = ci
    BY <1>4, <2>1, <2>2, <2>4, <2>5 DEF IInv, Progress
  <2>7. pi - Len(got) < 1
    BY <2>2, <2>6
  <2>8. H!Put
    BY <1>1, <1>2, <1>4, <2>7 DEF H!Put
  <2> QED
    BY <2>8 DEF H!HandoffNext
<1> QED
  BY <1>3, <1>4

(* The printf is a take: the slot holds the next message.                   *)
LEMMA ReadIsTake ==
  ASSUME IInv, ConsumerRead
  PROVE  [H!HandoffNext]_H!handoff_vars
<1>1. cpc = "read" /\ ConsumerHolds /\ got' = Append(got, slot) /\ UNCHANGED <<sb, pi>>
  BY DEF ConsumerRead, ConsumerHolds
<1>2. Clean' = Clean
  BY <1>1 DEF Clean
<1>3. CASE ~Clean
  BY <1>2, <1>3 DEF H!handoff_vars
<1>4. CASE Clean
  <2>1. InTransfer /\ TypeOK
    BY <1>1 DEF IInv, InTransfer
  <2>2. sem[0] \in Nat /\ sem[1] \in Nat /\ ci \in Nat /\ pi \in Nat
    BY <2>1, SemNat DEF TypeOK
  <2>3. One(ConsumerHolds) = 1 /\ One(ProducerHolds) \in {0, 1} /\ One(cpc = "signal") = 0
    BY <1>1 DEF One
  <2>4. sem[1] = 0
    BY <1>4, <2>1, <2>2, <2>3 DEF IInv, OneToken
  <2>5. pi = ci + 1 /\ Len(got) = ci /\ slot = pi
    <3>1. /\ pi = ci + sem[1] + One(ConsumerHolds)
          /\ Len(got) = ci + One(cpc = "signal")
          /\ slot = pi
      BY <1>1, <1>4, <2>1 DEF IInv, Progress
    <3> QED
      BY <2>2, <2>3, <2>4, <3>1
  <2>6. Len(got) < pi /\ slot = Len(got) + 1
    BY <2>2, <2>5
  <2>7. H!Take
    BY <1>1, <1>2, <1>4, <2>6 DEF H!Take
  <2> QED
    BY <2>7 DEF H!HandoffNext
<1> QED
  BY <1>3, <1>4

(* semaphore.c implements the one-place buffer of Handoff: for every        *)
(* numtrans, and whatever the unset sembufs hold, each step of producer or  *)
(* consumer is a put, a take or leaves the buffer as it is.                 *)
THEOREM Refinement == Spec => ImplementsHandoff
<1>1. Init => H!HandoffInit
  BY DEF Init, H!HandoffInit
<1>2. IInv /\ LoopBound /\ [Next]_vars => [H!HandoffNext]_H!handoff_vars
  <2> SUFFICES ASSUME IInv, LoopBound, [Next]_vars
               PROVE  [H!HandoffNext]_H!handoff_vars
    OBVIOUS
  <2>1. CASE ProducerSignalFull
    BY <2>1, SignalIsPut
  <2>2. CASE ConsumerRead
    BY <2>2, ReadIsTake
  <2>3. CASE MultisemFill
    <3>1. pi = 0 /\ got = <<>> /\ UNCHANGED <<pi, got>>
      BY <2>3 DEF MultisemFill, IInv, Quiet, BeforeFork
    <3> QED
      BY <3>1, InvisibleStep
  <2>4. CASE UNCHANGED <<sb, pi, got>>
    BY <2>4, InvisibleStep
  <2> QED
    BY <2>1, <2>2, <2>3, <2>4 DEF Next, vars, Producer, ProducerWaitEmpty, ProducerWrite,
       ProducerFinishWrite, ProducerSemopFails, ProducerExit, Consumer, main_vars, Shmget,
       Semget, SetVals, MultisemSemop, Fork, ConsumerWaitFull, ConsumerSignalEmpty,
       ConsumerSignalFails, ConsumerLoopEnd, Reap, Cleanup
<1> QED
  BY <1>1, <1>2, TokenInvariant, LoopBoundInvariant, PTL
     DEF Spec, ImplementsHandoff, H!HandoffSpec

-----------------------------------------------------------------------------
(* Termination, up to the fairness of the scheduler: the number of steps    *)
(* left is finite and decreases, and no step is missing before the end.     *)

LoopsBounded ==
  /\ LoopBound /\ pi <= NumTrans /\ ci <= NumTrans
  /\ cpc \in {"read", "signal"} => ci < NumTrans
  /\ cpc \in {"reap", "cleanup", "exited"} => ci = NumTrans

(* A producer that has exited has sent everything.                          *)
AllSent == Clean /\ InTransfer /\ ppc = "exited" => pi = NumTrans

(* The steps a process can still take: four for each message and the exit,  *)
(* three for each message and the end of main.                              *)
ProducerSteps(at, i) ==
  CASE at = "wait"   -> 4 * (NumTrans - i) + 1
    [] at = "write"  -> 4 * (NumTrans - i)
    [] at = "finish" -> 4 * (NumTrans - i) - 1
    [] at = "signal" -> 4 * (NumTrans - i) - 2
    [] OTHER         -> 0
ConsumerSteps(at, i) ==
  CASE at = "wait"    -> 3 * (NumTrans - i) + 3
    [] at = "read"    -> 3 * (NumTrans - i) + 2
    [] at = "signal"  -> 3 * (NumTrans - i) + 1
    [] at = "reap"    -> 2
    [] at = "cleanup" -> 1
    [] OTHER          -> 0
StepsLeft == ProducerSteps(ppc, pi) + ConsumerSteps(cpc, ci)

Countdown == StepsLeft' \in Nat /\ StepsLeft' < StepsLeft

(* Neither process is in a semop or a wait that blocks.                     *)
ProducerMoves ==
  ppc \in {"write", "finish", "signal"} \/ (ppc = "wait" /\ (pi = NumTrans \/ CanDecrement(0)))
ConsumerMoves ==
  \/ cpc \in {"read", "signal", "cleanup"}
  \/ cpc = "wait" /\ (ci = NumTrans \/ CanDecrement(1))
  \/ cpc = "reap" /\ WaitReturns

Complete == cpc = "exited" /\ ppc = "exited" /\ ~exists /\ Len(got) = NumTrans

(* After a successful fork producer and consumer never wait for each other: *)
(* one of them can go on, until both have ended with everything printed and *)
(* the set removed.                                                         *)
NeverStuck ==
  Clean /\ InTransfer /\ ppc # "none" => ProducerMoves \/ ConsumerMoves \/ Complete

LEMMA LoopsInvariant == Spec => []LoopsBounded
<1>1. Init => LoopsBounded
  BY NumTransAssumption DEF Init, LoopsBounded, LoopBound
<1>2. TypeOK /\ LoopsBounded /\ [Next]_vars => LoopsBounded'
  <2> SUFFICES ASSUME TypeOK, LoopsBounded, [Next]_vars PROVE LoopsBounded'
    OBVIOUS
  <2>0. pi \in Nat /\ ci \in Nat /\ NumTrans \in Nat
    BY NumTransAssumption DEF TypeOK
  <2>1. CASE UNCHANGED vars
    BY <2>1 DEF vars, LoopsBounded, LoopBound
  <2>2. CASE Producer
    BY <2>0, <2>2 DEF LoopsBounded, LoopBound, Producer, ProducerWaitEmpty, ProducerWrite,
       ProducerFinishWrite, ProducerSignalFull, ProducerSemopFails, ProducerExit
  <2>3. CASE Consumer
    BY <2>0, <2>3 DEF LoopsBounded, LoopBound, Consumer, main_vars, Shmget, Semget, SetVals,
       MultisemFill, MultisemSemop, Fork, ConsumerWaitFull, ConsumerRead, ConsumerSignalEmpty,
       ConsumerSignalFails, ConsumerLoopEnd, Reap, Cleanup
  <2> QED
    BY <2>1, <2>2, <2>3 DEF Next
<1> QED
  BY <1>1, <1>2, TypeCorrect, PTL DEF Spec

(* The counts at each control point ...                                     *)
LEMMA StepsAt ==
  ASSUME NEW i
  PROVE  /\ ProducerSteps("wait", i) = 4 * (NumTrans - i) + 1
         /\ ProducerSteps("write", i) = 4 * (NumTrans - i)
         /\ ProducerSteps("finish", i) = 4 * (NumTrans - i) - 1
         /\ ProducerSteps("signal", i) = 4 * (NumTrans - i) - 2
         /\ ProducerSteps("none", i) = 0 /\ ProducerSteps("exited", i) = 0
         /\ ConsumerSteps("wait", i) = 3 * (NumTrans - i) + 3
         /\ ConsumerSteps("read", i) = 3 * (NumTrans - i) + 2
         /\ ConsumerSteps("signal", i) = 3 * (NumTrans - i) + 1
         /\ ConsumerSteps("reap", i) = 2 /\ ConsumerSteps("cleanup", i) = 1
         /\ ConsumerSteps("exited", i) = 0 /\ ConsumerSteps("failed", i) = 0
BY DEF ProducerSteps, ConsumerSteps

(* ... are numbers within the bounds of the loops.                          *)
LEMMA StepsNat ==
  ASSUME NEW at, NEW i \in Nat, i <= NumTrans
  PROVE  /\ (at \in {"write", "finish", "signal"} => i < NumTrans)
              => ProducerSteps(at, i) \in Nat
         /\ ConsumerSteps(at, i) \in Nat
<1>0. NumTrans \in Nat
  BY NumTransAssumption
<1> QED BY <1>0 DEF ProducerSteps, ConsumerSteps

LEMMA ProducerCounts ==
  ASSUME TypeOK, LoopsBounded, Producer
  PROVE  ProducerSteps(ppc', pi') < ProducerSteps(ppc, pi) /\ cpc' = cpc /\ ci' = ci
<1>0. pi \in Nat /\ NumTrans \in Nat /\ NumTrans - pi \in Int /\ pi <= NumTrans
  BY NumTransAssumption DEF TypeOK, LoopsBounded
<1> USE StepsAt
<1>1. cpc' = cpc /\ ci' = ci
  BY DEF Producer, ProducerWaitEmpty, ProducerWrite, ProducerFinishWrite,
     ProducerSignalFull, ProducerSemopFails, ProducerExit
<1>2. CASE ProducerWaitEmpty
  <2>1. ppc = "wait" /\ ppc' = "write" /\ pi' = pi
    BY <1>2 DEF ProducerWaitEmpty
  <2> QED BY <1>0, <1>1, <2>1
<1>3. CASE ProducerWrite
  <2>1. ppc = "write" /\ ppc' = "finish" /\ pi' = pi
    BY <1>3 DEF ProducerWrite
  <2> QED BY <1>0, <1>1, <2>1
<1>4. CASE ProducerFinishWrite
  <2>1. ppc = "finish" /\ ppc' = "signal" /\ pi' = pi
    BY <1>4 DEF ProducerFinishWrite
  <2> QED BY <1>0, <1>1, <2>1
<1>5. CASE ProducerSignalFull
  <2>1. ppc = "signal" /\ ppc' = "wait" /\ pi' = pi + 1
    BY <1>5 DEF ProducerSignalFull
  <2>2. 4 * (NumTrans - (pi + 1)) + 1 < 4 * (NumTrans - pi) - 2
    BY <1>0
  <2> QED BY <1>0, <1>1, <2>1, <2>2
<1>6. CASE ProducerSemopFails \/ ProducerExit
  <2>1. ppc \in {"wait", "signal"} /\ ppc' = "exited"
    BY <1>6 DEF ProducerSemopFails, ProducerExit
  <2>2. ppc = "signal" => pi < NumTrans
    BY DEF LoopsBounded, LoopBound
  <2>3. CASE ppc = "wait"
    BY <1>0, <1>1, <2>1, <2>3
  <2>4. CASE ppc = "signal"
    BY <1>0, <1>1, <2>1, <2>2, <2>4
  <2> QED BY <2>1, <2>3, <2>4
<1> QED BY <1>1, <1>2, <1>3, <1>4, <1>5, <1>6 DEF Producer

LEMMA ConsumerCounts ==
  ASSUME TypeOK, LoopsBounded, Consumer, ~BeforeFork
  PROVE  ConsumerSteps(cpc', ci') < ConsumerSteps(cpc, ci) /\ ppc' = ppc /\ pi' = pi
<1>0. ci \in Nat /\ NumTrans \in Nat /\ NumTrans - ci \in Int /\ ci <= NumTrans
  BY NumTransAssumption DEF TypeOK, LoopsBounded
<1> USE StepsAt
<1>1. \/ ConsumerWaitFull \/ ConsumerRead \/ ConsumerSignalEmpty \/ ConsumerSignalFails
      \/ ConsumerLoopEnd \/ Reap \/ Cleanup
  BY DEF Consumer, BeforeFork, Shmget, Semget, SetVals, MultisemFill, MultisemSemop, Fork
<1>2. ppc' = ppc /\ pi' = pi
  BY <1>1 DEF ConsumerWaitFull, ConsumerRead, ConsumerSignalEmpty,
     ConsumerSignalFails, ConsumerLoopEnd, Reap, Cleanup, main_vars
<1>3. CASE ConsumerWaitFull
  <2>1. cpc = "wait" /\ cpc' = "read" /\ ci' = ci
    BY <1>3 DEF ConsumerWaitFull
  <2> QED BY <1>0, <1>2, <2>1
<1>4. CASE ConsumerRead
  <2>1. cpc = "read" /\ cpc' = "signal" /\ ci' = ci
    BY <1>4 DEF ConsumerRead
  <2> QED BY <1>0, <1>2, <2>1
<1>5. CASE ConsumerSignalEmpty
  <2>1. cpc = "signal" /\ cpc' = "wait" /\ ci' = ci + 1
    BY <1>5 DEF ConsumerSignalEmpty
  <2>2. 3 * (NumTrans - (ci + 1)) + 3 < 3 * (NumTrans - ci) + 1
    BY <1>0
  <2> QED BY <1>0, <1>2, <2>1, <2>2
<1>6. CASE ConsumerSignalFails
  <2>1. cpc = "signal" /\ cpc' = "failed" /\ ci' = ci
    BY <1>6 DEF ConsumerSignalFails, main_vars
  <2> QED BY <1>0, <1>2, <2>1
<1>7. CASE ConsumerLoopEnd
  <2>1. cpc = "wait" /\ cpc' = "reap" /\ ci' = ci
    BY <1>7 DEF ConsumerLoopEnd, main_vars
  <2> QED BY <1>0, <1>2, <2>1
<1>8. CASE Reap \/ Cleanup
  <2>1. \/ cpc = "reap" /\ cpc' = "cleanup"
        \/ cpc = "cleanup" /\ cpc' = "exited"
    BY <1>8 DEF Reap, Cleanup
  <2> QED BY <1>2, <2>1
<1> QED BY <1>1, <1>3, <1>4, <1>5, <1>6, <1>7, <1>8

(* Once main has forked, every step of either process of semaphore.c brings *)
(* the end nearer: a natural number of steps is left and each step lowers   *)
(* it, for every numtrans and whatever the uninitialised sembufs did.       *)
THEOREM EveryStepCounts == Spec => [][~BeforeFork => Countdown]_vars
<1>1. TypeOK /\ LoopsBounded /\ TypeOK' /\ LoopsBounded' /\ [Next]_vars
        => [~BeforeFork => Countdown]_vars
  <2> SUFFICES ASSUME TypeOK, LoopsBounded, TypeOK', LoopsBounded', Next, ~BeforeFork
               PROVE  Countdown
    OBVIOUS
  <2>1. ProducerSteps(ppc, pi) \in Nat /\ ConsumerSteps(cpc, ci) \in Nat
    BY StepsNat DEF TypeOK, LoopsBounded, LoopBound
  <2>2. ProducerSteps(ppc', pi') \in Nat /\ ConsumerSteps(cpc', ci') \in Nat
    BY StepsNat DEF TypeOK, LoopsBounded, LoopBound
  <2>3. CASE Producer
    BY <2>1, <2>2, <2>3, ProducerCounts DEF Countdown, StepsLeft
  <2>4. CASE Consumer
    BY <2>1, <2>2, <2>4, ConsumerCounts DEF Countdown, StepsLeft
  <2> QED BY <2>3, <2>4 DEF Next
<1> QED BY <1>1, TypeCorrect, LoopsInvariant, PTL DEF Spec

LEMMA AllSentInvariant == Spec => []AllSent
<1>1. Init => AllSent
  BY DEF Init, AllSent
<1>2. IInv /\ AllSent /\ [Next]_vars => AllSent'
  <2> SUFFICES ASSUME IInv, AllSent, [Next]_vars PROVE AllSent'
    OBVIOUS
  <2>0. sem[0] \in Nat /\ sem[1] \in Nat
    BY SemNat DEF IInv
  <2>1. CASE UNCHANGED vars
    BY <2>1 DEF vars, AllSent, Clean, InTransfer
  <2>2. CASE ProducerSemopFails
    <3>1. exists
      BY <2>2 DEF ProducerSemopFails, IInv, SetOutlivesProducer, ProducerGone
    <3>2. ppc = "signal" /\ ~CanIncrement(1) /\ sb' = sb /\ cpc' = cpc
      BY <2>2, <3>1 DEF ProducerSemopFails
    <3>3. ~(Clean /\ InTransfer)
      <4>1. SUFFICES ASSUME Clean, InTransfer PROVE FALSE
        OBVIOUS
      <4>2. One(ProducerHolds) = 1 /\ One(ConsumerHolds) \in Nat
        BY <3>2 DEF One, ProducerHolds
      <4>3. sem[0] + sem[1] + 1 + One(ConsumerHolds) = 1
        BY <4>1, <4>2 DEF IInv, OneToken
      <4>4. sem[1] = 0
        BY <2>0, <4>2, <4>3
      <4> QED BY <3>2, <4>4, SEMVMXNat DEF CanIncrement
    <3> QED BY <3>2, <3>3 DEF AllSent, Clean, InTransfer
  <2>3. CASE Producer /\ ~ProducerSemopFails
    BY <2>3 DEF Producer, ProducerWaitEmpty, ProducerWrite, ProducerFinishWrite,
       ProducerSignalFull, ProducerExit, AllSent, Clean, InTransfer
  <2>4. CASE Consumer
    <3>1. CASE BeforeFork
      <4>1. ppc = "none"
        BY <3>1 DEF IInv, Quiet
      <4>2. ppc' \in {"none", "wait"}
        BY <2>4, <4>1 DEF Consumer, main_vars, Shmget, Semget, SetVals, MultisemFill,
           MultisemSemop, Fork, ConsumerWaitFull, ConsumerRead, ConsumerSignalEmpty,
           ConsumerSignalFails, ConsumerLoopEnd, Reap, Cleanup
      <4> QED BY <4>2 DEF AllSent
    <3>2. CASE ~BeforeFork
      BY <2>4, <3>2 DEF Consumer, BeforeFork, main_vars, Shmget, Semget, SetVals, MultisemFill,
         MultisemSemop, Fork, ConsumerWaitFull, ConsumerRead, ConsumerSignalEmpty,
         ConsumerSignalFails, ConsumerLoopEnd, Reap, Cleanup, AllSent, Clean, InTransfer
    <3> QED BY <3>1, <3>2
  <2> QED BY <2>1, <2>2, <2>3, <2>4 DEF Next
<1> QED BY <1>1, <1>2, TokenInvariant, PTL DEF Spec

(* The set is gone once main has ended.                                     *)
Removed == cpc = "exited" => ~exists

LEMMA RemovedInvariant == Spec => []Removed
<1>1. Init => Removed
  BY DEF Init, Removed
<1>2. Removed /\ [Next]_vars => Removed'
  <2> SUFFICES ASSUME Removed, [Next]_vars PROVE Removed'
    OBVIOUS
  <2>1. CASE UNCHANGED vars
    BY <2>1 DEF vars, Removed
  <2>2. CASE Producer
    BY <2>2 DEF Removed, Producer, ProducerWaitEmpty, ProducerWrite, ProducerFinishWrite,
       ProducerSignalFull, ProducerSemopFails, ProducerExit
  <2>3. CASE Consumer
    BY <2>3 DEF Removed, Consumer, main_vars, Shmget, Semget, SetVals, MultisemFill,
       MultisemSemop, Fork, ConsumerWaitFull, ConsumerRead, ConsumerSignalEmpty,
       ConsumerSignalFails, ConsumerLoopEnd, Reap, Cleanup
  <2> QED BY <2>1, <2>2, <2>3 DEF Next
<1> QED BY <1>1, <1>2, PTL DEF Spec

(* Producer and consumer of semaphore.c do not deadlock on empty and full,  *)
(* nor main in its wait, for every numtrans and every garbage that leaves   *)
(* the two alone; and when nothing is left to do, all messages were printed *)
(* and the set is removed.  With EveryStepCounts this is TransferCompletes  *)
(* but for the fairness of the scheduler.                                   *)
THEOREM NoDeadlock == Spec => []NeverStuck
<1>1. IInv /\ LoopsBounded /\ AllSent /\ Removed => NeverStuck
  <2> SUFFICES ASSUME IInv, LoopsBounded, AllSent, Removed, Clean, InTransfer, ppc # "none",
                      ~ProducerMoves, ~ConsumerMoves
               PROVE  Complete
    BY DEF NeverStuck
  <2>0. /\ sem[0] \in Nat /\ sem[1] \in Nat /\ pi \in Nat /\ ci \in Nat
        /\ Len(got) \in Nat /\ NumTrans \in Nat
    BY SemNat, NumTransAssumption DEF IInv
  <2>1. ppc \in {"wait", "exited"} /\ cpc \in {"wait", "reap", "exited"}
    BY DEF IInv, TypeOK, PPC, CPC, ProducerMoves, ConsumerMoves, InTransfer
  <2>2. One(ProducerHolds) = 0 /\ One(ConsumerHolds) = 0 /\ One(cpc = "signal") = 0
    BY <2>1 DEF One, ProducerHolds, ConsumerHolds
  <2>3. sem[0] + sem[1] + 0 + 0 = 1 /\ pi = ci + sem[1] + 0 /\ Len(got) = ci + 0
    BY <2>2 DEF IInv, OneToken, Progress
  <2>4. ppc = "wait" => pi < NumTrans /\ sem[0] = 0
    BY <2>0 DEF ProducerMoves, CanDecrement, LoopsBounded
  <2>5. cpc = "wait" => ci < NumTrans /\ sem[1] = 0
    BY <2>0 DEF ConsumerMoves, CanDecrement, LoopsBounded
  <2>6. cpc # "wait" => ci = NumTrans
    BY <2>1 DEF LoopsBounded
  <2>7. ppc = "exited"
    BY <2>0, <2>1, <2>3, <2>4, <2>5, <2>6
  <2>8. pi = NumTrans
    BY <2>7 DEF AllSent
  <2>9. cpc # "wait"
    BY <2>0, <2>3, <2>5, <2>8
  <2>10. cpc # "reap"
    BY <2>7 DEF ConsumerMoves, WaitReturns, ProducerGone
  <2>11. cpc = "exited" /\ ~exists
    BY <2>1, <2>9, <2>10 DEF Removed
  <2>12. Len(got) = NumTrans
    BY <2>0, <2>3, <2>6, <2>9
  <2> QED BY <2>7, <2>11, <2>12 DEF Complete
<1> QED BY <1>1, TokenInvariant, LoopsInvariant, AllSentInvariant, RemovedInvariant, PTL
=============================================================================
