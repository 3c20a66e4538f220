----------------------------- MODULE RobustLock -----------------------------
(***************************************************************************)
(* threadlockfail.c: thread1 takes a futex lock, puts it on its robust     *)
(* list and exits holding it; thread2, created afterwards, looks for       *)
(* FUTEX_OWNER_DIED and takes the lock over.  The futex word is a record:  *)
(* its lower bits and bit 30, FUTEX_OWNER_DIED.                            *)
(***************************************************************************)
EXTENDS TLC

CONSTANT WeakMayFail   \* TRUE where the weak compare-and-exchange is an LL/SC pair

VARIABLES
  futex,      \* lock.futex
  listed,     \* lock.list is on the robust list of thread1
  self,       \* the low 32 bits of each thread's pthread_self()
  pc1, pc2    \* control points of the two threads

vars == <<futex, listed, self, pc1, pc2>>

Word == [bits : {"zero", "self1", "self2", "tid1", "pointer"}, died : BOOLEAN]
Free == [bits |-> "zero", died |-> FALSE]

TypeOK ==
  /\ futex \in Word /\ self \in [{1, 2} -> Word]
  /\ listed \in BOOLEAN
  /\ pc1 \in {"acquire", "wait", "list", "crash", "exited"}
  /\ pc2 \in {"none", "check", "clean", "acquire", "wait", "release", "done"}

(* pthread_self() is an address: bit 30 of its low half may be set or not.  *)
Init ==
  /\ futex = Free /\ listed = FALSE
  /\ \E b1, b2 \in BOOLEAN :
       self = 1 :> [bits |-> "self1", died |-> b1] @@ 2 :> [bits |-> "self2", died |-> b2]
  /\ pc1 = "acquire" /\ pc2 = "none"

(* lock_acquire.  The compare-and-exchange from 0 fails when the word is    *)
(* not 0 and, where it is weak, may fail when it is 0 too.                  *)
Exchange(t) == futex = Free /\ futex' = self[t]
ExchangeFails == (futex # Free \/ WeakMayFail) /\ UNCHANGED futex

(* futex_wait for the value 0: it sleeps while the word is 0 and returns at *)
(* once (EAGAIN) when it is not.                                            *)
WaitOver == futex # Free

Acquire1 ==
  /\ \/ pc1 = "acquire" /\ Exchange(1) /\ pc1' = "list"
     \/ pc1 = "acquire" /\ ExchangeFails /\ pc1' = "wait"
     \/ pc1 = "wait" /\ WaitOver /\ pc1' = "acquire" /\ UNCHANGED futex
  /\ UNCHANGED <<listed, self, pc2>>

AddToList ==
  /\ pc1 = "list"
  /\ listed' = TRUE
  /\ pc1' = "crash"
  /\ UNCHANGED <<futex, self, pc2>>

(* The word the kernel finds: futex_offset is the futex's offset in the     *)
(* structure, 0, where the kernel adds it to the address of lock.list, and  *)
(* so reads the pointer lock.list.next.                                     *)
WordAtOffset == [bits |-> "pointer", died |-> FALSE]

(* pthread_exit: the kernel walks the robust list and marks a word that     *)
(* holds the thread's tid.                                                  *)
Exit1 ==
  /\ pc1 = "crash"
  /\ futex' = IF listed /\ WordAtOffset.bits = "tid1" THEN [futex EXCEPT !.died = TRUE] ELSE futex
  /\ pc1' = "exited"
  /\ UNCHANGED <<listed, self, pc2>>

(* main: join t1, then create t2.                                           *)
CreateThread2 ==
  /\ pc1 = "exited" /\ pc2 = "none"
  /\ pc2' = "check"
  /\ UNCHANGED <<futex, listed, self, pc1>>

CheckOwner ==
  /\ pc2 = "check"
  /\ pc2' = IF futex.died THEN "clean" ELSE "acquire"
  /\ UNCHANGED <<futex, listed, self, pc1>>

CleanUp ==
  /\ pc2 = "clean"
  /\ futex' = Free
  /\ pc2' = "acquire"
  /\ UNCHANGED <<listed, self, pc1>>

Acquire2 ==
  /\ \/ pc2 = "acquire" /\ Exchange(2) /\ pc2' = "release"
     \/ pc2 = "acquire" /\ ExchangeFails /\ pc2' = "wait"
     \/ pc2 = "wait" /\ WaitOver /\ pc2' = "acquire" /\ UNCHANGED futex
  /\ UNCHANGED <<listed, self, pc1>>

Release ==
  /\ pc2 = "release"
  /\ futex' = Free
  /\ pc2' = "done"
  /\ UNCHANGED <<listed, self, pc1>>

Next == \/ Acquire1 \/ AddToList \/ Exit1 \/ CreateThread2
        \/ CheckOwner \/ CleanUp \/ Acquire2 \/ Release

FairSpec == Init /\ [][Next]_vars /\ WF_vars(Next)

(* Lines 85 and 91: thread2 "Detected owner died", cleans up, and           *)
(* "Successfully recovered and acquired lock."                              *)
Recovers == <>(pc2 = "release")
=============================================================================
