---------------------------- MODULE ShmTransfer ----------------------------
(***************************************************************************)
(* shmtest.c: the parent writes DOITERS blocks into the System V segment   *)
(* named SHM_KEY1, sets complete and removes the segment; the child, forked *)
(* before either has called shmget, prints what it finds until complete.   *)
(* The program may be killed from the terminal (both processes at once)    *)
(* and run again: what the kernel holds under the keys survives.           *)
(***************************************************************************)
EXTENDS Naturals, Sequences

CONSTANTS DOITERS,   \* blocks written by one run
          MaxRuns    \* bound: how often the program is started

ASSUME DOITERSAssumption == DOITERS \in Nat \ {0}
ASSUME MaxRunsAssumption == MaxRuns \in Nat \ {0}

VARIABLES
  key1,       \* segment named by SHM_KEY1, None if there is none
  key2,       \* SHM_KEY2 names a segment
  seg,        \* the segments created so far: [live, complete, data]
  wpc, wseg, wi, ch,   \* writer (parent): shmid, numtimes, static ch
  rpc, rseg, seen,     \* reader (child): shmid, what it has printed
  runs,       \* starts of the program
  inherited   \* this run started with a segment left complete = 1 by a killed one

shm_vars == <<key1, key2, seg, wpc, wseg, wi, ch, rpc, rseg, seen, runs, inherited>>
writer_vars == <<wpc, wseg, wi, ch, inherited>>
reader_vars == <<rpc, rseg, seen>>

None == 0
Zero == 0     \* a fresh segment is zero-filled
Torn == 1     \* memset or the store of the final 0 is under way

WPC == {"idle", "shmget", "key2", "shmat", "fill", "filling", "complete", "shmdt",
        "rmid", "done", "failed", "killed"}
RPC == {"idle", "shmget", "shmat", "loop", "print", "shmdt", "done", "failed", "killed"}
Segment == [live : BOOLEAN, complete : {0, 1}, data : Nat]

ShmTypeOK ==
  /\ seg \in Seq(Segment)
  /\ key1 \in 0..Len(seg) /\ key2 \in BOOLEAN
  /\ wpc \in WPC /\ wseg \in 0..Len(seg) /\ wi \in 0..DOITERS /\ ch \in 65..91
  /\ rpc \in RPC /\ rseg \in 0..Len(seg) /\ seen \in Seq(Nat)
  /\ runs \in 0..MaxRuns /\ inherited \in BOOLEAN

ShmInit ==
  /\ key1 = None /\ key2 = FALSE /\ seg = <<>>
  /\ wpc = "idle" /\ wseg = None /\ wi = 0 /\ ch = 65
  /\ rpc = "idle" /\ rseg = None /\ seen = <<>>
  /\ runs = 0 /\ inherited = FALSE

ShmEnded == {"idle", "done", "failed", "killed"}

-----------------------------------------------------------------------------
(* The terminal: starting the program, and ^C.  A segment lives on while *)
(* its key names it.                                                       *)

StartTransfer ==
  /\ wpc \in ShmEnded /\ rpc \in ShmEnded /\ runs < MaxRuns
  /\ runs' = runs + 1
  /\ wpc' \in {"shmget", "failed"} /\ rpc' = wpc'     \* fork() may fail
  /\ wseg' = None /\ wi' = 0 /\ ch' = 65
  /\ rseg' = None /\ seen' = <<>>
  /\ inherited' = (key1 # None /\ seg[key1].complete = 1)
  /\ UNCHANGED <<key1, key2, seg>>

Interrupt ==
  /\ wpc \notin ShmEnded \/ rpc \notin ShmEnded
  /\ wpc' = IF wpc \in ShmEnded THEN wpc ELSE "killed"
  /\ rpc' = IF rpc \in ShmEnded THEN rpc ELSE "killed"
  /\ seg' = [k \in DOMAIN seg |-> [seg[k] EXCEPT !.live = @ /\ k = key1]]
  /\ UNCHANGED <<key1, key2, wseg, wi, ch, rseg, seen, runs, inherited>>

-----------------------------------------------------------------------------
(* Kernel: shmget(SHM_KEY1, IPC_CREAT) opens the segment or creates it.     *)

NewSegment == [live |-> TRUE, complete |-> 0, data |-> Zero]

Shmget(id) ==
  \/ /\ key1 # None /\ id = key1
     /\ UNCHANGED <<key1, seg>>
  \/ /\ key1 = None /\ id = Len(seg) + 1
     /\ key1' = id
     /\ seg' = Append(seg, NewSegment)

-----------------------------------------------------------------------------
(* The writer.                                                              *)

WriterShmget ==
  /\ wpc = "shmget"
  /\ \/ \E id \in 1..Len(seg)+1 :
          /\ Shmget(id)
          /\ wseg' = id
          /\ wpc' = "key2"
     \/ wpc' = "failed" /\ UNCHANGED <<key1, seg, wseg>>
  /\ UNCHANGED <<key2, wi, ch, inherited, reader_vars, runs>>

(* SHM_KEY2 is created if need be; the IPC_EXCL probe that follows always    *)
(* finds it, as nothing removes it.                                         *)
WriterProbeKey2 ==
  /\ wpc = "key2"
  /\ \/ key2' = TRUE /\ wpc' = "shmat"
     \/ wpc' = "failed" /\ UNCHANGED key2
  /\ UNCHANGED <<key1, seg, wseg, wi, ch, inherited, reader_vars, runs>>

WriterShmat ==
  /\ wpc = "shmat"
  /\ wpc' \in {"fill", "failed"}
  /\ UNCHANGED <<key1, key2, seg, wseg, wi, ch, inherited, reader_vars, runs>>

(* fill_buffer writes ch first and only then steps it: '[' (91) is written   *)
(* before ch wraps, and 'A' (65) never comes back.                          *)
NextChStuck(c) == c
NextCh(c) == IF c \in 91..96 \/ c > 122 THEN 66 ELSE c + 1

MoreToWrite == wi < DOITERS

WriterFill ==
  /\ wpc = "fill" /\ MoreToWrite
  /\ seg' = [seg EXCEPT ![wseg].data = Torn]
  /\ wpc' = "filling"
  /\ UNCHANGED <<key1, key2, wseg, wi, ch, inherited, reader_vars, runs>>

WriterFilled ==
  /\ wpc = "filling"
  /\ seg' = [seg EXCEPT ![wseg].data = ch, ![wseg].complete = 0]
  /\ ch' = NextCh(ch)
  /\ wi' = wi + 1
  /\ wpc' = "fill"
  /\ UNCHANGED <<key1, key2, wseg, inherited, reader_vars, runs>>

NotComplete == 0
Complete == 1

WriterComplete ==
  /\ wpc = "fill" /\ wi = DOITERS
  /\ seg' = [seg EXCEPT ![wseg].complete = Complete]
  /\ wpc' = "shmdt"
  /\ UNCHANGED <<key1, key2, wseg, wi, ch, inherited, reader_vars, runs>>

WriterShmdt ==
  /\ wpc = "shmdt"
  /\ wpc' = "rmid"
  /\ UNCHANGED <<key1, key2, seg, wseg, wi, ch, inherited, reader_vars, runs>>

(* IPC_RMID frees the key; the memory goes when nobody is attached.         *)
ReaderAttached == rpc \in {"loop", "print", "shmdt"}

KeepKey == key1
FreeKey == None

WriterRemove ==
  /\ wpc = "rmid"
  /\ key1' = FreeKey
  /\ seg' = [seg EXCEPT ![wseg].live = ReaderAttached /\ rseg = wseg]
  /\ wpc' = "done"
  /\ UNCHANGED <<key2, wseg, wi, ch, inherited, reader_vars, runs>>

-----------------------------------------------------------------------------
(* The reader.                                                              *)

ReaderShmget ==
  /\ rpc = "shmget"
  /\ \/ \E id \in 1..Len(seg)+1 :
          /\ Shmget(id)
          /\ rseg' = id
          /\ rpc' = "shmat"
     \/ rpc' = "failed" /\ UNCHANGED <<key1, seg, rseg>>
  /\ UNCHANGED <<key2, seen, writer_vars, runs>>

(* shmat fails with EINVAL once the segment is gone.                        *)
ReaderShmat ==
  /\ rpc = "shmat"
  /\ rpc' \in IF seg[rseg].live THEN {"loop", "failed"} ELSE {"failed"}
  /\ UNCHANGED <<key1, key2, seg, rseg, seen, writer_vars, runs>>

StopOnFirstBlock == seg[rseg].data >= 65
MustStop == seg[rseg].complete = 1

ReaderTest ==
  /\ rpc = "loop"
  /\ rpc' = IF MustStop THEN "shmdt" ELSE "print"
  /\ UNCHANGED <<key1, key2, seg, rseg, seen, writer_vars, runs>>

(* printf of the buffer; the length it prints is never -1.  sleep() follows. *)
ReaderPrint ==
  /\ rpc = "print"
  /\ IF Len(seen) > 0 /\ seen[Len(seen)] = seg[rseg].data
     THEN UNCHANGED seen
     ELSE seen' = Append(seen, seg[rseg].data)
  /\ rpc' = "loop"
  /\ UNCHANGED <<key1, key2, seg, rseg, writer_vars, runs>>

ReaderShmdt ==
  /\ rpc = "shmdt"
  /\ seg' = [seg EXCEPT ![rseg].live = rseg = key1]
  /\ rpc' = "done"
  /\ UNCHANGED <<key1, key2, rseg, seen, writer_vars, runs>>

-----------------------------------------------------------------------------
Writer == \/ WriterShmget \/ WriterProbeKey2 \/ WriterShmat \/ WriterFill
          \/ WriterFilled \/ WriterComplete \/ WriterShmdt \/ WriterRemove
Reader == \/ ReaderShmget \/ ReaderShmat \/ ReaderTest \/ ReaderPrint \/ ReaderShmdt

ShmNext == StartTransfer \/ Interrupt \/ Writer \/ Reader

ShmSpec == ShmInit /\ [][ShmNext]_shm_vars

(* Both processes are scheduled; nobody need start or interrupt the program. *)
FairShmSpec == ShmSpec /\ WF_shm_vars(Writer) /\ WF_shm_vars(Reader)

-----------------------------------------------------------------------------
(* The reader leaves its loop only after the last block is in the segment,   *)
(* except in a run that found a segment a killed run left complete.          *)
StopsAfterLastBlock ==
  rpc \in {"shmdt", "done"} => wi = DOITERS \/ inherited

(* In a run of a fresh segment the reader prints the blocks in the order     *)
(* they were written (up to the 27th, when ch wraps); it may miss some,      *)
(* print a torn one, or none at all.                                         *)
BlocksInOrder ==
  runs = 1 => \A j, k \in 1..Len(seen) :
                 j < k /\ seen[j] > Torn /\ seen[k] > Torn => seen[j] < seen[k]

(* When both have finished and shared a segment it is gone: a later run      *)
(* starts from a fresh one.                                                  *)
SharedSegmentRemoved ==
  wpc = "done" /\ rpc = "done" /\ rseg = wseg => key1 = None /\ ~seg[wseg].live

(* A reader attached to the segment of a writer that runs to its end stops.  *)
SharedReaderStops ==
  (ReaderAttached /\ wpc \in {"fill", "filling"} /\ rseg = wseg) ~>
    (rpc \in {"done", "killed"})

(* shmtest.c:48: "This program forks and then communicates via system v      *)
(* shared memory": parent and child use one segment.                         *)
SameSegment ==
  ReaderAttached /\ wpc \in {"fill", "filling", "shmdt", "rmid", "done"} => rseg = wseg
=============================================================================
