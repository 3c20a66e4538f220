----------------------------- MODULE SysVProofs -----------------------------
(***************************************************************************)
(* Proofs about the two programs on System V shared memory and message     *)
(* queues.                                                                 *)
(*                                                                         *)
(* shmtest.c, for any number of blocks, starts and kills: the reader stops *)
(* only after the last block or on a segment a killed run left complete; a *)
(* shared segment is removed; the first run prints up to 27 blocks in      *)
(* order.                                                                  *)
(*                                                                         *)
(* msgtest.c, for every number of overlapping runs, any of which may be    *)
(* killed.                                                                 *)
(***************************************************************************)
EXTENDS ShmTransfer, MsgQueue, SequenceTheorems, FiniteSetTheorems,
        WellFoundedInduction, TLAPS

(* The writer's segment is the one the key names, until it removes it.      *)
WriterHolds ==
  /\ wpc \in {"key2", "shmat", "fill", "filling", "shmdt", "rmid"} =>
       wseg # None /\ key1 = wseg
  /\ wpc = "filling" => wi < DOITERS
  /\ wpc \in {"shmdt", "rmid", "done"} => wseg # None /\ wi = DOITERS

ReaderHolds ==
  /\ rpc \in {"shmat", "loop", "print", "shmdt", "done"} => rseg # None
  /\ rpc = "shmget" => rseg = None

(* Until the last block is written nothing the run can reach is complete,   *)
(* unless it started with such a segment.                                   *)
NothingStale ==
  ~inherited /\ wi < DOITERS =>
    /\ key1 # None => seg[key1].complete = 0
    /\ rseg # None => seg[rseg].complete = 0

(* After the writer's IPC_RMID the key is free, or names a segment that a   *)
(* late reader made for itself; the removed one goes with the reader.       *)
Freed ==
  wpc = "done" =>
    /\ key1 = None \/ (key1 = rseg /\ key1 # wseg)
    /\ rpc = "done" /\ rseg = wseg => ~seg[wseg].live

ShmInv == ShmTypeOK /\ WriterHolds /\ ReaderHolds /\ NothingStale /\ Freed /\ StopsAfterLastBlock

(* The first run: ch counts the blocks, the writer's segment holds nothing, *)
(* a torn block or the last one, and the reader has printed earlier ones.   *)
Counting ==
  /\ wpc = "shmget" => wseg = None
  /\ wi <= 26 => ch = 65 + wi
  /\ \A k \in 1..Len(seg) : seg[k].data > Torn => k = wseg /\ seg[k].data = 64 + wi

Printed ==
  /\ rseg = None => seen = <<>>
  /\ \A j \in 1..Len(seen) : seen[j] > Torn => seen[j] <= 64 + wi
  /\ rseg # None /\ seg[rseg].data > Torn =>
       \A j \in 1..Len(seen) - 1 : seen[j] > Torn => seen[j] < 64 + wi

FirstRun ==
  /\ runs = 0 => seg = <<>> /\ wpc = "idle" /\ rpc = "idle"
  /\ runs <= 1 => Counting /\ Printed

-----------------------------------------------------------------------------
(* Replacing one segment leaves the others.                                 *)
LEMMA SegUpdate ==
  ASSUME NEW s \in Seq(Segment), NEW k \in 1..Len(s), NEW x \in Segment,
         NEW t, t = [s EXCEPT ![k] = x]
  PROVE  /\ t \in Seq(Segment) /\ Len(t) = Len(s)
         /\ t[k] = x /\ \A j \in 1..Len(s) : j # k => t[j] = s[j]
OBVIOUS

(* Assigning one field of a segment leaves the other two.                   *)
LEMMA SegLive ==
  ASSUME NEW x \in Segment, NEW b \in BOOLEAN
  PROVE  /\ [x EXCEPT !.live = b] \in Segment /\ [x EXCEPT !.live = b].live = b
         /\ [x EXCEPT !.live = b].complete = x.complete
         /\ [x EXCEPT !.live = b].data = x.data
BY DEF Segment

(* The same for the other fields.                                           *)
LEMMA SegFields ==
  ASSUME NEW x \in Segment, NEW c \in {0, 1}, NEW d \in Nat
  PROVE  /\ [x EXCEPT !.complete = c] \in Segment /\ [x EXCEPT !.complete = c].complete = c
         /\ [x EXCEPT !.complete = c].data = x.data
         /\ [x EXCEPT !.data = d] \in Segment /\ [x EXCEPT !.data = d].data = d
         /\ [x EXCEPT !.data = d].complete = x.complete
         /\ [x EXCEPT !.data = d, !.complete = c] \in Segment
         /\ [x EXCEPT !.data = d, !.complete = c].data = d
         /\ [x EXCEPT !.data = d, !.complete = c].complete = c
BY DEF Segment

(* What shmget does for a caller that is given id.                          *)
LEMMA ShmgetFacts ==
  ASSUME ShmTypeOK, NEW id \in 1..Len(seg)+1, Shmget(id)
  PROVE  /\ key1' = id /\ seg' \in Seq(Segment)
         /\ Len(seg') >= Len(seg) /\ id \in 1..Len(seg')
         /\ \A k \in 1..Len(seg) : seg'[k] = seg[k]
         /\ key1 = None => id = Len(seg) + 1 /\ Len(seg') = id /\ seg'[id] = NewSegment
         /\ key1 # None => id = key1 /\ seg' = seg
<1>1. CASE key1 # None
  BY <1>1 DEF Shmget, ShmTypeOK, None
<1>2. CASE key1 = None
  <2>1. id = Len(seg) + 1 /\ key1' = id /\ seg' = Append(seg, NewSegment)
    BY <1>2 DEF Shmget
  <2>2. NewSegment \in Segment /\ seg \in Seq(Segment)
    BY DEF NewSegment, Segment, Zero, ShmTypeOK
  <2>3. seg' \in Seq(Segment) /\ Len(seg') = Len(seg) + 1 /\ seg'[Len(seg) + 1] = NewSegment
    BY <2>1, <2>2
  <2>4. \A k \in 1..Len(seg) : seg'[k] = seg[k]
    BY <2>1, <2>2
  <2> QED BY <1>2, <2>1, <2>2, <2>3, <2>4
<1> QED BY <1>1, <1>2

(* A new segment has no block in it, and shmget leaves the others alone.    *)
LEMMA ShmgetData ==
  ASSUME ShmTypeOK, NEW id \in 1..Len(seg)+1, Shmget(id)
  PROVE  /\ \A k \in 1..Len(seg) : seg'[k] = seg[k]
         /\ \A k \in 1..Len(seg') : seg'[k].data > Torn => k \in 1..Len(seg)
<1>1. CASE key1 # None
  BY <1>1, ShmgetFacts
<1>2. CASE key1 = None
  <2>1. Len(seg') = Len(seg) + 1 /\ seg'[Len(seg) + 1] = NewSegment
        /\ \A k \in 1..Len(seg) : seg'[k] = seg[k]
    BY <1>2, ShmgetFacts
  <2>2. ~(NewSegment.data > Torn)
    BY DEF NewSegment, Zero, Torn
  <2>3. Len(seg) \in Nat
    BY DEF ShmTypeOK
  <2> QED BY <2>1, <2>2, <2>3
<1> QED BY <1>1, <1>2

(* The initial state satisfies the invariant.                               *)
LEMMA ShmInitial == ShmInit => ShmInv
<1> SUFFICES ASSUME ShmInit PROVE ShmInv
  OBVIOUS
<1> USE DOITERSAssumption, MaxRunsAssumption DEF ShmInit, None
<1>1. ShmTypeOK
  <2>1. seg \in Seq(Segment) /\ Len(seg) = 0 /\ seen \in Seq(Nat)
    OBVIOUS
  <2>2. key2 \in BOOLEAN /\ inherited \in BOOLEAN
    OBVIOUS
  <2> QED BY <2>1, <2>2 DEF ShmTypeOK, WPC, RPC
<1> QED BY <1>1 DEF ShmInv, WriterHolds, ReaderHolds, NothingStale, Freed, StopsAfterLastBlock

(* Killing the program changes what lives, not what is in the segments.     *)
LEMMA InterruptData ==
  ASSUME ShmTypeOK, Interrupt
  PROVE  /\ seg' \in Seq(Segment) /\ Len(seg') = Len(seg)
         /\ \A k \in 1..Len(seg) : /\ seg'[k].complete = seg[k].complete
                                  /\ seg'[k].data = seg[k].data
<1>1. seg \in Seq(Segment) /\ seg' = [k \in 1..Len(seg) |-> [seg[k] EXCEPT !.live = @ /\ k = key1]]
  BY DEF Interrupt, ShmTypeOK
<1>2. ASSUME NEW k \in 1..Len(seg)
      PROVE  /\ seg'[k] \in Segment
             /\ seg'[k].complete = seg[k].complete
             /\ seg'[k].data = seg[k].data
  <2> DEFINE b == seg[k].live /\ k = key1
  <2>1. seg[k] \in Segment /\ b \in BOOLEAN
    BY <1>1
  <2>2. seg'[k] = [seg[k] EXCEPT !.live = b]
    BY <1>1
  <2> HIDE DEF b
  <2> QED BY <2>1, <2>2, SegLive
<1>3. seg' \in Seq(Segment) /\ Len(seg') = Len(seg)
  BY <1>1, <1>2
<1> QED BY <1>2, <1>3

(* Assigning live or complete in one segment changes no block.              *)
LEMMA DataKept ==
  ASSUME ShmTypeOK, NEW k \in 1..Len(seg),
         \/ \E b \in BOOLEAN : seg' = [seg EXCEPT ![k].live = b]
         \/ \E c \in {0, 1} : seg' = [seg EXCEPT ![k].complete = c]
  PROVE  Len(seg') = Len(seg) /\ \A j \in 1..Len(seg) : seg'[j].data = seg[j].data
<1>1. seg \in Seq(Segment) /\ seg[k] \in Segment
  BY DEF ShmTypeOK
<1>2. PICK x \in Segment : seg' = [seg EXCEPT ![k] = x] /\ x.data = seg[k].data
  <2>1. ASSUME NEW b \in BOOLEAN, seg' = [seg EXCEPT ![k].live = b]
        PROVE  \E x \in Segment : seg' = [seg EXCEPT ![k] = x] /\ x.data = seg[k].data
    <3>1. seg' = [seg EXCEPT ![k] = [seg[k] EXCEPT !.live = b]]
      BY <1>1, <2>1
    <3> QED BY <1>1, <3>1, SegLive
  <2>2. ASSUME NEW c \in {0, 1}, seg' = [seg EXCEPT ![k].complete = c]
        PROVE  \E x \in Segment : seg' = [seg EXCEPT ![k] = x] /\ x.data = seg[k].data
    <3>1. seg' = [seg EXCEPT ![k] = [seg[k] EXCEPT !.complete = c]]
      BY <1>1, <2>2
    <3> QED BY <1>1, <3>1, SegFields
  <2> QED BY <2>1, <2>2
<1> QED BY <1>1, <1>2, SegUpdate

(* Starting the program and killing it preserve the invariant.              *)
LEMMA TerminalStep == ShmInv /\ (StartTransfer \/ Interrupt) => ShmInv'
<1> SUFFICES ASSUME ShmInv, StartTransfer \/ Interrupt PROVE ShmInv'
  OBVIOUS
<1> USE DOITERSAssumption, MaxRunsAssumption DEF ShmInv
<1>1. CASE StartTransfer
  <2> USE <1>1 DEF StartTransfer
  <2>1. ShmTypeOK'
    BY DEF ShmTypeOK, WPC, RPC, None
  <2>2. NothingStale'
    <3> SUFFICES ASSUME ~inherited', key1 # None PROVE seg[key1].complete = 0
      BY DEF NothingStale, None
    <3>1. seg[key1].complete # 1
      OBVIOUS
    <3>2. seg[key1] \in Segment
      BY DEF ShmTypeOK, None
    <3> QED BY <3>1, <3>2 DEF Segment
  <2>3. WriterHolds' /\ ReaderHolds' /\ Freed' /\ StopsAfterLastBlock'
    BY DEF WriterHolds, ReaderHolds, Freed, StopsAfterLastBlock
  <2> QED BY <2>1, <2>2, <2>3
<1>2. CASE Interrupt
  <2>1. /\ (wpc' = wpc /\ wpc \in ShmEnded) \/ wpc' = "killed"
        /\ (rpc' = rpc /\ rpc \in ShmEnded) \/ rpc' = "killed"
        /\ wpc' = "killed" \/ rpc' = "killed"
        /\ UNCHANGED <<key1, key2, wseg, wi, ch, rseg, seen, runs, inherited>>
    BY <1>2 DEF Interrupt
  <2>4. /\ seg' \in Seq(Segment) /\ Len(seg') = Len(seg)
        /\ \A k \in 1..Len(seg) : seg'[k].complete = seg[k].complete
    BY <1>2, InterruptData
  <2>5. ShmTypeOK'
    BY <2>1, <2>4 DEF ShmTypeOK, WPC, RPC
  <2>6. WriterHolds' /\ ReaderHolds' /\ StopsAfterLastBlock'
    BY <2>1 DEF WriterHolds, ReaderHolds, StopsAfterLastBlock, ShmEnded
  <2>7. NothingStale'
    BY <2>1, <2>4 DEF NothingStale, ShmTypeOK, None
  <2>8. Freed'
    BY <2>1 DEF Freed
  <2> QED BY <2>5, <2>6, <2>7, <2>8
<1> QED BY <1>1, <1>2

(* The writer's steps preserve the invariant.                               *)
LEMMA WriterStep == ShmInv /\ Writer => ShmInv'
<1> SUFFICES ASSUME ShmInv, Writer PROVE ShmInv'
  OBVIOUS
<1> USE DOITERSAssumption, MaxRunsAssumption DEF ShmInv
<1>0. UNCHANGED <<rpc, rseg, seen, runs, inherited>>
  BY DEF Writer, WriterShmget, WriterProbeKey2, WriterShmat, WriterFill, WriterFilled,
         WriterComplete, WriterShmdt, WriterRemove, reader_vars
<1>1. CASE WriterShmget
  <2>0. UNCHANGED <<key2, wi, ch>> /\ wpc = "shmget"
    BY <1>1 DEF WriterShmget
  <2>1. CASE wpc' = "failed" /\ UNCHANGED <<key1, seg, wseg>>
    <3>1. ShmTypeOK'
      BY <1>0, <2>0, <2>1 DEF ShmTypeOK, WPC
    <3> QED BY <1>0, <2>0, <2>1, <3>1
            DEF WriterHolds, ReaderHolds, NothingStale, Freed, StopsAfterLastBlock
  <2>2. ASSUME NEW id \in 1..Len(seg)+1, Shmget(id), wseg' = id, wpc' = "key2"
        PROVE  ShmInv'
    <3>1. ShmTypeOK'
      BY <1>0, <2>0, <2>2, ShmgetFacts DEF ShmTypeOK, WPC
    <3>2. WriterHolds' /\ ReaderHolds' /\ Freed' /\ StopsAfterLastBlock'
      BY <1>0, <2>0, <2>2, ShmgetFacts
         DEF WriterHolds, ReaderHolds, Freed, StopsAfterLastBlock, None
    <3>3. NothingStale'
      BY <1>0, <2>0, <2>2, ShmgetFacts DEF NothingStale, NewSegment, ShmTypeOK, None
    <3> QED BY <3>1, <3>2, <3>3
  <2> QED BY <1>1, <2>1, <2>2 DEF WriterShmget
<1>2. CASE WriterProbeKey2 \/ WriterShmat \/ WriterShmdt
  <2>1. /\ UNCHANGED <<key1, seg, wseg, wi, ch>> /\ key2' \in BOOLEAN
        /\ \/ wpc' = "failed"
           \/ wpc = "key2" /\ wpc' = "shmat"
           \/ wpc = "shmat" /\ wpc' = "fill"
           \/ wpc = "shmdt" /\ wpc' = "rmid"
    BY <1>2 DEF WriterProbeKey2, WriterShmat, WriterShmdt, ShmTypeOK
  <2>2. ShmTypeOK'
    BY <1>0, <2>1 DEF ShmTypeOK, WPC
  <2>3. WriterHolds' /\ ReaderHolds' /\ Freed'
    BY <1>0, <2>1 DEF WriterHolds, ReaderHolds, Freed
  <2>4. NothingStale' /\ StopsAfterLastBlock'
    BY <1>0, <2>1 DEF NothingStale, StopsAfterLastBlock
  <2> QED BY <2>2, <2>3, <2>4
<1>3. ASSUME NEW x \in Segment, seg' = [seg EXCEPT ![wseg] = x], wseg \in 1..Len(seg),
             UNCHANGED <<key2, wseg>>, wpc \in {"fill", "filling", "rmid"},
             wpc' \in WPC, wi' \in 0..DOITERS, ch' \in 65..91, wi <= wi',
             wi' < DOITERS => x.complete = 0 \/ x.complete = seg[wseg].complete,
             key1' = key1 \/ (key1' = None /\ wi' = DOITERS), WriterHolds', Freed'
      PROVE  ShmInv'
  <2>1. /\ seg' \in Seq(Segment) /\ Len(seg') = Len(seg) /\ seg'[wseg] = x
        /\ \A j \in 1..Len(seg) : j # wseg => seg'[j] = seg[j]
    BY <1>3, SegUpdate DEF ShmTypeOK
  <2>2. ShmTypeOK'
    BY <1>0, <1>3, <2>1 DEF ShmTypeOK, None
  <2>3. ReaderHolds' /\ StopsAfterLastBlock'
    BY <1>0, <1>3 DEF ReaderHolds, StopsAfterLastBlock, ShmTypeOK
  <2>4. NothingStale'
    BY <1>0, <1>3, <2>1 DEF NothingStale, ShmTypeOK, None
  <2> QED BY <1>3, <2>2, <2>3, <2>4
<1>4. wpc \in {"fill", "filling", "rmid"} =>
        /\ wseg \in 1..Len(seg) /\ key1 = wseg /\ seg[wseg] \in Segment /\ seg \in Seq(Segment)
  BY DEF WriterHolds, ShmTypeOK, None
<1>5. CASE WriterFill
  <2> DEFINE x == [seg[wseg] EXCEPT !.data = Torn]
  <2>0. /\ wpc = "fill" /\ wpc' = "filling" /\ wi < DOITERS
        /\ UNCHANGED <<key1, key2, wseg, wi, ch>> /\ seg' = [seg EXCEPT ![wseg].data = Torn]
    BY <1>5 DEF WriterFill, MoreToWrite
  <2>1. seg' = [seg EXCEPT ![wseg] = x]
    BY <1>4, <2>0
  <2>2. x \in Segment /\ x.complete = seg[wseg].complete
    BY <1>4, <2>0, SegFields DEF Torn
  <2>3. WriterHolds' /\ Freed'
    BY <2>0 DEF WriterHolds, Freed
  <2>4. wpc' \in WPC /\ wi' \in 0..DOITERS /\ ch' \in 65..91 /\ wi <= wi'
    BY <2>0 DEF WPC, ShmTypeOK
  <2> HIDE DEF x
  <2> QED BY <1>3, <1>4, <2>0, <2>1, <2>2, <2>3, <2>4
<1>6. CASE WriterFilled
  <2> DEFINE x == [seg[wseg] EXCEPT !.data = ch, !.complete = 0]
  <2>0. /\ wpc = "filling" /\ wpc' = "fill" /\ wi' = wi + 1 /\ ch' = NextCh(ch)
        /\ UNCHANGED <<key1, key2, wseg>>
        /\ seg' = [seg EXCEPT ![wseg].data = ch, ![wseg].complete = 0]
    BY <1>6 DEF WriterFilled
  <2>1. seg' = [seg EXCEPT ![wseg] = x]
    BY <1>4, <2>0
  <2>2. x \in Segment /\ x.complete = 0
    <3>1. ch \in Nat
      BY DEF ShmTypeOK
    <3> QED BY <1>4, <2>0, <3>1, SegFields
  <2>3. WriterHolds' /\ Freed'
    BY <2>0 DEF WriterHolds, Freed
  <2>4. wi' \in 0..DOITERS /\ wi <= wi'
    BY <2>0 DEF WriterHolds, ShmTypeOK
  <2>5. wpc' \in WPC /\ ch' \in 65..91
    <3>1. ch \in 65..91
      BY DEF ShmTypeOK
    <3>2. NextCh(ch) \in 65..91
      BY <3>1 DEF NextCh
    <3> QED BY <2>0, <3>2 DEF WPC
  <2> HIDE DEF x
  <2> QED BY <1>3, <1>4, <2>0, <2>1, <2>2, <2>3, <2>4, <2>5
<1>7. CASE WriterComplete
  <2> DEFINE x == [seg[wseg] EXCEPT !.complete = 1]
  <2>0. /\ wpc = "fill" /\ wpc' = "shmdt" /\ wi = DOITERS /\ UNCHANGED <<key1, key2, wseg, wi, ch>>
        /\ seg' = [seg EXCEPT ![wseg].complete = 1]
    BY <1>7 DEF WriterComplete, Complete
  <2>1. seg' = [seg EXCEPT ![wseg] = x]
    BY <1>4, <2>0
  <2>2. x \in Segment
    BY <1>4, <2>0, SegFields
  <2>3. WriterHolds' /\ Freed'
    BY <2>0 DEF WriterHolds, Freed
  <2>4. wpc' \in WPC /\ wi' \in 0..DOITERS /\ ch' \in 65..91 /\ wi <= wi' /\ ~(wi' < DOITERS)
    BY <2>0 DEF WPC, ShmTypeOK
  <2> HIDE DEF x
  <2> QED BY <1>3, <1>4, <2>0, <2>1, <2>2, <2>3, <2>4
<1>8. CASE WriterRemove
  <2> DEFINE l == ReaderAttached /\ rseg = wseg
             x == [seg[wseg] EXCEPT !.live = l]
  <2>0. /\ wpc = "rmid" /\ wpc' = "done" /\ key1' = None /\ UNCHANGED <<key2, wseg, wi, ch>>
        /\ seg' = [seg EXCEPT ![wseg].live = l]
    BY <1>8 DEF WriterRemove, FreeKey
  <2>1. seg' = [seg EXCEPT ![wseg] = x]
    BY <1>4, <2>0
  <2>2. x \in Segment /\ x.complete = seg[wseg].complete /\ x.live = l
    <3>1. l \in BOOLEAN
      BY DEF ReaderAttached
    <3> HIDE DEF l
    <3> QED BY <1>4, <2>0, <3>1, SegLive
  <2>3. seg'[wseg] = x
    BY <1>4, <2>0, <2>1
  <2>4. WriterHolds' /\ wi = DOITERS
    BY <2>0 DEF WriterHolds
  <2>5. Freed'
    <3> SUFFICES ASSUME rpc = "done" PROVE ~x.live
      BY <1>0, <2>0, <2>3 DEF Freed
    <3> QED BY <2>2 DEF ReaderAttached
  <2>6. wpc' \in WPC /\ wi' \in 0..DOITERS /\ ch' \in 65..91 /\ wi <= wi' /\ wi' = DOITERS
    BY <2>0, <2>4 DEF WPC, ShmTypeOK
  <2> HIDE DEF x
  <2> QED BY <1>3, <1>4, <2>0, <2>1, <2>2, <2>4, <2>5, <2>6
<1> QED BY <1>1, <1>2, <1>5, <1>6, <1>7, <1>8 DEF Writer

(* The reader's steps preserve the invariant.                               *)
LEMMA ReaderStep == ShmInv /\ Reader => ShmInv'
<1> SUFFICES ASSUME ShmInv, Reader PROVE ShmInv'
  OBVIOUS
<1> USE DOITERSAssumption, MaxRunsAssumption DEF ShmInv
<1>0. UNCHANGED <<key2, wpc, wseg, wi, ch, runs, inherited>>
  BY DEF Reader, ReaderShmget, ReaderShmat, ReaderTest, ReaderPrint, ReaderShmdt, writer_vars
<1>1. CASE ReaderShmget
  <2>0. UNCHANGED seen /\ rpc = "shmget"
    BY <1>1 DEF ReaderShmget
  <2>1. CASE rpc' = "failed" /\ UNCHANGED <<key1, seg, rseg>>
    <3>1. ShmTypeOK'
      BY <1>0, <2>0, <2>1 DEF ShmTypeOK, RPC
    <3> QED BY <1>0, <2>0, <2>1, <3>1
            DEF WriterHolds, ReaderHolds, NothingStale, Freed, StopsAfterLastBlock
  <2>2. ASSUME NEW id \in 1..Len(seg)+1, Shmget(id), rseg' = id, rpc' = "shmat"
        PROVE  ShmInv'
    <3>1. ShmTypeOK'
      BY <1>0, <2>0, <2>2, ShmgetFacts DEF ShmTypeOK, RPC
    <3>2. WriterHolds' /\ ReaderHolds' /\ StopsAfterLastBlock'
      BY <1>0, <2>0, <2>2, ShmgetFacts
         DEF WriterHolds, ReaderHolds, StopsAfterLastBlock, None
    <3>3. Freed'
      <4> SUFFICES ASSUME wpc = "done" PROVE key1' = rseg' /\ key1' # wseg'
        BY <1>0, <2>2 DEF Freed
      <4>1. key1 = None
        BY <2>0 DEF Freed, ReaderHolds
      <4> QED BY <1>0, <2>2, <4>1, ShmgetFacts DEF ShmTypeOK
    <3>4. NothingStale'
      BY <1>0, <2>0, <2>2, ShmgetFacts DEF NothingStale, NewSegment, ShmTypeOK, None
    <3> QED BY <3>1, <3>2, <3>3, <3>4
  <2> QED BY <1>1, <2>1, <2>2 DEF ReaderShmget
<1>2. CASE ReaderShmat \/ ReaderTest \/ ReaderPrint
  <2>1. UNCHANGED <<key1, seg, rseg>>
    BY <1>2 DEF ReaderShmat, ReaderTest, ReaderPrint
  <2>2. /\ rpc \in {"shmat", "loop", "print"}
        /\ rpc' \in {"loop", "failed", "print"} \/ (rpc' = "shmdt" /\ seg[rseg].complete = 1)
    BY <1>2 DEF ReaderShmat, ReaderTest, ReaderPrint, MustStop
  <2>3. rseg \in 1..Len(seg) /\ seg[rseg].data \in Nat /\ seg[rseg] \in Segment
    <3>1. rseg \in 1..Len(seg) /\ seg[rseg] \in Segment
      BY <2>2 DEF ReaderHolds, ShmTypeOK, None
    <3> QED BY <3>1 DEF Segment
  <2>4. seen' \in Seq(Nat)
    <3>1. seen' = seen \/ seen' = Append(seen, seg[rseg].data)
      BY <1>2 DEF ReaderShmat, ReaderTest, ReaderPrint
    <3>2. seen \in Seq(Nat)
      BY DEF ShmTypeOK
    <3> QED BY <2>3, <3>1, <3>2
  <2>5. ShmTypeOK'
    BY <1>0, <2>1, <2>2, <2>4 DEF ShmTypeOK, RPC
  <2>6. WriterHolds' /\ ReaderHolds' /\ NothingStale' /\ Freed'
    BY <1>0, <2>1, <2>2 DEF WriterHolds, ReaderHolds, NothingStale, Freed
  <2>7. StopsAfterLastBlock'
    <3>1. seg[rseg].complete = 1 => inherited \/ ~(wi < DOITERS)
      BY <2>3 DEF NothingStale, None
    <3> QED BY <1>0, <2>2, <3>1 DEF StopsAfterLastBlock, ShmTypeOK
  <2> QED BY <2>5, <2>6, <2>7
<1>3. CASE ReaderShmdt
  <2> DEFINE l == rseg = key1
             x == [seg[rseg] EXCEPT !.live = l]
  <2>0. /\ rpc = "shmdt" /\ rpc' = "done" /\ UNCHANGED <<key1, rseg, seen>>
        /\ seg' = [seg EXCEPT ![rseg].live = l]
    BY <1>3 DEF ReaderShmdt
  <2>1. rseg \in 1..Len(seg) /\ seg[rseg] \in Segment /\ seg \in Seq(Segment)
    BY <2>0 DEF ReaderHolds, ShmTypeOK, None
  <2>l. l \in BOOLEAN /\ (rseg # key1 => ~l)
    OBVIOUS
  <2> HIDE DEF l
  <2>2. seg' = [seg EXCEPT ![rseg] = x]
    BY <2>0, <2>1
  <2>3. x \in Segment /\ x.complete = seg[rseg].complete /\ x.live = l
    BY <2>1, <2>l, SegLive
  <2> HIDE DEF x
  <2>4. /\ seg' \in Seq(Segment) /\ Len(seg') = Len(seg) /\ seg'[rseg] = x
        /\ \A j \in 1..Len(seg) : j # rseg => seg'[j] = seg[j]
    BY <2>1, <2>2, <2>3, SegUpdate
  <2>5. ShmTypeOK'
    BY <1>0, <2>0, <2>4 DEF ShmTypeOK, RPC
  <2>6. WriterHolds' /\ ReaderHolds' /\ StopsAfterLastBlock'
    BY <1>0, <2>0 DEF WriterHolds, ReaderHolds, StopsAfterLastBlock
  <2>7. NothingStale'
    BY <1>0, <2>0, <2>1, <2>3, <2>4 DEF NothingStale, ShmTypeOK, None
  <2>8. Freed'
    <3> SUFFICES ASSUME wpc = "done", rseg = wseg PROVE ~x.live
      BY <1>0, <2>0, <2>4 DEF Freed
    <3>1. rseg # key1
      BY <2>1 DEF Freed, None
    <3> QED BY <2>l, <2>3, <3>1
  <2> QED BY <2>5, <2>6, <2>7, <2>8
<1> QED BY <1>1, <1>2, <1>3 DEF Reader

(* Main result: the invariant holds in every reachable state, whenever and  *)
(* however often the program is killed and started again.                   *)
THEOREM ShmInvariant == ShmSpec => []ShmInv
<1>1. ShmInv /\ [ShmNext]_shm_vars => ShmInv'
  <2> SUFFICES ASSUME ShmInv, [ShmNext]_shm_vars PROVE ShmInv'
    OBVIOUS
  <2>1. CASE UNCHANGED shm_vars
    <3>1. ShmTypeOK' /\ WriterHolds' /\ ReaderHolds'
      BY <2>1 DEF ShmInv, shm_vars, ShmTypeOK, WriterHolds, ReaderHolds
    <3>2. NothingStale' /\ Freed' /\ StopsAfterLastBlock'
      BY <2>1 DEF ShmInv, shm_vars, NothingStale, Freed, StopsAfterLastBlock
    <3> QED BY <3>1, <3>2 DEF ShmInv
  <2> QED BY <2>1, TerminalStep, WriterStep, ReaderStep DEF ShmNext
<1> QED BY ShmInitial, <1>1, PTL DEF ShmSpec

(* The reader leaves its loop only once the last block has been written, or *)
(* in a run that found the segment a killed run left complete.              *)
THEOREM StopsLate == ShmSpec => []StopsAfterLastBlock
<1>1. ShmInv => StopsAfterLastBlock
  BY DEF ShmInv
<1> QED BY <1>1, ShmInvariant, PTL

(* When both have finished with one segment, its key and its memory are gone. *)
THEOREM RemovesShared == ShmSpec => []SharedSegmentRemoved
<1>1. ShmInv => SharedSegmentRemoved
  BY DEF ShmInv, Freed, SharedSegmentRemoved
<1> QED BY <1>1, ShmInvariant, PTL

-----------------------------------------------------------------------------
(* What the reader prints next is new, or later than all it has printed.    *)
LEMMA PrintOrdered ==
  ASSUME ShmInv, FirstRun, BlocksInOrder, runs = 1, rpc = "print",
         seen' = Append(seen, seg[rseg].data),
         Len(seen) = 0 \/ seen[Len(seen)] # seg[rseg].data,
         UNCHANGED <<seg, rseg, wi, runs>>
  PROVE  Printed' /\ BlocksInOrder'
<1> DEFINE d == seg[rseg].data
<1>1. rseg \in 1..Len(seg) /\ seg[rseg] \in Segment /\ seen \in Seq(Nat) /\ wi \in Nat
  BY DOITERSAssumption DEF ShmInv, ShmTypeOK, ReaderHolds, None
<1>2. d \in Nat /\ (d > Torn => d = 64 + wi)
  BY <1>1 DEF Segment, FirstRun, Counting
<1>3. \A j \in 1..Len(seen) : seen[j] > Torn => seen[j] <= 64 + wi
  BY DEF FirstRun, Printed
<1>4. d > Torn => \A j \in 1..Len(seen) : seen[j] > Torn => seen[j] < 64 + wi
  <2> SUFFICES ASSUME d > Torn, NEW j \in 1..Len(seen), seen[j] > Torn
               PROVE  seen[j] < 64 + wi
    OBVIOUS
  <2>1. CASE j = Len(seen)
    <3>1. seen[j] # 64 + wi
      BY <1>1, <1>2, <2>1
    <3> QED BY <1>1, <1>3, <3>1
  <2>2. CASE j # Len(seen)
    <3>1. j \in 1..Len(seen) - 1
      BY <1>1, <2>2
    <3> QED BY <1>1, <3>1 DEF FirstRun, Printed, None
  <2> QED BY <2>1, <2>2
<1>5. /\ Len(seen') = Len(seen) + 1 /\ Len(seen) \in Nat /\ seen'[Len(seen) + 1] = d
      /\ \A j \in 1..Len(seen) : seen'[j] = seen[j] /\ seen[j] \in Nat
  BY <1>1, <1>2
<1> HIDE DEF d
<1>6. Printed'
  <2>1. \A j \in 1..Len(seen') : seen'[j] > Torn => seen'[j] <= 64 + wi
    BY <1>1, <1>2, <1>3, <1>5
  <2>2. d > Torn => \A j \in 1..Len(seen') - 1 : seen'[j] > Torn => seen'[j] < 64 + wi
    BY <1>1, <1>2, <1>4, <1>5
  <2>3. rseg' # None
    BY <1>1 DEF None
  <2> QED BY <2>1, <2>2, <2>3 DEF Printed, d
<1>7. BlocksInOrder'
  <2> SUFFICES ASSUME NEW j \in 1..Len(seen'), NEW k \in 1..Len(seen'),
                      j < k, seen'[j] > Torn, seen'[k] > Torn
               PROVE  seen'[j] < seen'[k]
    BY DEF BlocksInOrder
  <2>1. CASE k = Len(seen) + 1
    BY <1>2, <1>4, <1>5, <2>1
  <2>2. CASE k # Len(seen) + 1
    BY <1>5, <2>2 DEF BlocksInOrder
  <2> QED BY <2>1, <2>2
<1> QED BY <1>6, <1>7

(* A step that prints nothing keeps the order.                              *)
LEMMA SameSeen ==
  ASSUME BlocksInOrder, UNCHANGED <<seen, runs>>
  PROVE  BlocksInOrder'
BY DEF BlocksInOrder

(* Every step of the first run preserves the order of the blocks.           *)
LEMMA FirstRunStep ==
  ASSUME DOITERS <= 27, ShmInv, FirstRun, BlocksInOrder, [ShmNext]_shm_vars
  PROVE  FirstRun' /\ BlocksInOrder'
<1> USE DOITERSAssumption
<1>0. seg \in Seq(Segment) /\ seen \in Seq(Nat) /\ wi \in Nat /\ runs \in Nat
      /\ wseg \in 0..Len(seg) /\ rseg \in 0..Len(seg)
  BY MaxRunsAssumption DEF ShmInv, ShmTypeOK
<1>1. CASE UNCHANGED shm_vars
  BY <1>1 DEF shm_vars, FirstRun, Counting, Printed, BlocksInOrder
<1>2. CASE StartTransfer
  <2>1. /\ runs' = runs + 1 /\ wi' = 0 /\ ch' = 65 /\ seen' = <<>> /\ rseg' = None
        /\ wseg' = None /\ UNCHANGED seg
    BY <1>2 DEF StartTransfer
  <2>2. runs' <= 1 => seg' = <<>>
    BY <1>0, <2>1 DEF FirstRun
  <2>3. runs' <= 1 => Counting' /\ Printed'
    BY <2>1, <2>2 DEF Counting, Printed, None
  <2>4. BlocksInOrder'
    BY <2>1 DEF BlocksInOrder
  <2> QED BY <1>0, <2>1, <2>3, <2>4 DEF FirstRun
<1>3. CASE Interrupt
  <2>1. /\ UNCHANGED <<wseg, wi, ch, rseg, seen, runs>>
        /\ wpc' = wpc \/ wpc' = "killed"
        /\ wpc # "idle" \/ rpc # "idle"
    BY <1>0, <1>3 DEF Interrupt, ShmEnded
  <2>2. Len(seg') = Len(seg) /\ \A k \in 1..Len(seg) : seg'[k].data = seg[k].data
    BY <1>3, InterruptData DEF ShmInv
  <2>3. runs # 0
    BY <2>1 DEF FirstRun
  <2>4. runs <= 1 => Counting' /\ Printed'
    BY <1>0, <2>1, <2>2 DEF FirstRun, Counting, Printed, None
  <2>5. BlocksInOrder'
    BY <2>1, SameSeen
  <2> QED BY <2>1, <2>3, <2>4, <2>5 DEF FirstRun
<1>4. CASE Writer
  <2>0. UNCHANGED <<rpc, rseg, seen, runs, inherited>> /\ runs # 0
    BY <1>4 DEF Writer, WriterShmget, WriterProbeKey2, WriterShmat, WriterFill, WriterFilled,
                WriterComplete, WriterShmdt, WriterRemove, reader_vars, FirstRun
  <2> SUFFICES ASSUME runs = 1 PROVE Counting' /\ Printed'
    BY <1>0, <2>0, SameSeen DEF FirstRun
  <2>1. Counting /\ Printed
    BY DEF FirstRun
  <2>2. CASE WriterShmget
    <3>1. UNCHANGED <<wi, ch>> /\ wseg = None /\ wpc' # "shmget"
      BY <1>0, <2>1, <2>2 DEF WriterShmget, Counting
    <3>2. \A k \in 1..Len(seg) : ~(seg[k].data > Torn)
      BY <2>1, <3>1 DEF Counting, None
    <3>3. /\ \A k \in 1..Len(seg') : ~(seg'[k].data > Torn)
          /\ \A k \in 1..Len(seg) : seg'[k] = seg[k]
      BY <1>0, <2>2, <3>2, ShmgetData DEF WriterShmget, ShmInv
    <3> QED BY <1>0, <2>0, <2>1, <3>1, <3>2, <3>3 DEF Counting, Printed, None
  <2>3. CASE WriterProbeKey2 \/ WriterShmat \/ WriterShmdt
    <3>1. UNCHANGED <<seg, wseg, wi, ch>> /\ wpc' # "shmget"
      BY <2>3 DEF WriterProbeKey2, WriterShmat, WriterShmdt
    <3> QED BY <2>0, <2>1, <3>1 DEF Counting, Printed
  <2>4. wpc \in {"fill", "filling", "rmid"} => wseg \in 1..Len(seg) /\ seg[wseg] \in Segment
    BY <1>0 DEF ShmInv, WriterHolds, None
  <2>5. CASE WriterComplete \/ WriterRemove
    <3>1. UNCHANGED <<wseg, wi, ch>> /\ wpc' # "shmget" /\ wpc \in {"fill", "rmid"}
      BY <2>5 DEF WriterComplete, WriterRemove
    <3>2. Len(seg') = Len(seg) /\ \A k \in 1..Len(seg) : seg'[k].data = seg[k].data
      <4>1. CASE WriterComplete
        BY <2>4, <3>1, <4>1, DataKept DEF WriterComplete, Complete, ShmInv
      <4>2. CASE WriterRemove
        <5> DEFINE b == ReaderAttached /\ rseg = wseg
        <5>1. b \in BOOLEAN /\ seg' = [seg EXCEPT ![wseg].live = b]
          BY <4>2 DEF WriterRemove, ReaderAttached
        <5> HIDE DEF b
        <5> QED BY <2>4, <3>1, <5>1, DataKept DEF ShmInv
      <4> QED BY <2>5, <4>1, <4>2
    <3>3. Counting'
      BY <2>1, <3>1, <3>2 DEF Counting
    <3>4. Printed'
      BY <1>0, <2>0, <2>1, <3>1, <3>2 DEF Printed, None
    <3> QED BY <3>3, <3>4
  <2>6. CASE WriterFill
    <3>1. UNCHANGED <<wseg, wi, ch>> /\ wpc' = "filling" /\ wpc = "fill"
      BY <2>6 DEF WriterFill
    <3>2. /\ Len(seg') = Len(seg) /\ seg'[wseg].data = Torn
          /\ \A k \in 1..Len(seg) : k # wseg => seg'[k] = seg[k]
      BY <1>0, <2>4, <2>6, <3>1 DEF WriterFill, Segment
    <3> QED BY <1>0, <2>0, <2>1, <3>1, <3>2 DEF Counting, Printed, None, Torn
  <2>7. CASE WriterFilled
    <3>1. UNCHANGED wseg /\ wi' = wi + 1 /\ ch' = NextCh(ch) /\ wpc' = "fill"
            /\ wpc = "filling" /\ wi <= 26
      BY <1>0, <2>7 DEF WriterFilled, ShmInv, WriterHolds
    <3>2. ch = 65 + wi
      BY <2>1, <3>1 DEF Counting
    <3>3. /\ Len(seg') = Len(seg) /\ seg'[wseg].data = 64 + wi'
          /\ \A k \in 1..Len(seg) : k # wseg => seg'[k] = seg[k]
      BY <1>0, <2>4, <2>7, <3>1, <3>2 DEF WriterFilled, Segment
    <3>4. wi' <= 26 => ch' = 65 + wi'
      BY <1>0, <3>1, <3>2 DEF NextCh
    <3>5. Counting'
      BY <1>0, <2>1, <3>1, <3>3, <3>4 DEF Counting
    <3>6. \A j \in 1..Len(seen) : seen[j] > Torn => seen[j] < 64 + wi' /\ seen[j] <= 64 + wi'
      <4> SUFFICES ASSUME NEW j \in 1..Len(seen), seen[j] > Torn
                   PROVE  seen[j] < 64 + wi' /\ seen[j] <= 64 + wi'
        OBVIOUS
      <4>1. seen[j] \in Nat /\ seen[j] <= 64 + wi
        BY <1>0, <2>1 DEF Printed
      <4> QED BY <1>0, <3>1, <4>1
    <3>7. Printed'
      BY <1>0, <2>0, <2>1, <3>6 DEF Printed
    <3> QED BY <3>5, <3>7
  <2> QED BY <1>4, <2>2, <2>3, <2>5, <2>6, <2>7 DEF Writer
<1>5. CASE Reader
  <2>0. UNCHANGED <<wpc, wseg, wi, ch, runs>> /\ runs # 0
    BY <1>5 DEF Reader, ReaderShmget, ReaderShmat, ReaderTest, ReaderPrint, ReaderShmdt,
                writer_vars, FirstRun
  <2> SUFFICES ASSUME runs = 1 PROVE Counting' /\ Printed' /\ BlocksInOrder'
    BY <1>0, <2>0 DEF FirstRun, BlocksInOrder
  <2>1. Counting /\ Printed
    BY DEF FirstRun
  <2>2. CASE ReaderShmget
    <3>1. rseg = None /\ UNCHANGED seen
      BY <2>2 DEF ReaderShmget, ShmInv, ReaderHolds
    <3>2. CASE UNCHANGED <<seg, rseg>>
      BY <2>0, <2>1, <3>1, <3>2, SameSeen DEF Counting, Printed
    <3>3. ASSUME NEW id \in 1..Len(seg)+1, Shmget(id), rseg' = id
          PROVE  Counting' /\ Printed' /\ BlocksInOrder'
      <4>1. /\ \A k \in 1..Len(seg) : seg'[k] = seg[k]
            /\ \A k \in 1..Len(seg') : seg'[k].data > Torn => k \in 1..Len(seg)
        BY <3>3, ShmgetData DEF ShmInv
      <4>2. Counting'
        BY <2>0, <2>1, <4>1 DEF Counting
      <4>3. seen' = <<>> /\ rseg' # None
        BY <2>1, <3>1, <3>3 DEF Printed, None
      <4> QED BY <3>1, <4>2, <4>3, <2>0, SameSeen DEF Printed
    <3> QED BY <2>2, <3>2, <3>3 DEF ReaderShmget
  <2>3. CASE ReaderShmat \/ ReaderTest
    <3>1. UNCHANGED <<seg, rseg, seen>>
      BY <2>3 DEF ReaderShmat, ReaderTest
    <3> QED BY <2>0, <2>1, <3>1, SameSeen DEF Counting, Printed
  <2>4. CASE ReaderPrint
    <3>1. UNCHANGED <<seg, rseg>> /\ rpc = "print"
      BY <2>4 DEF ReaderPrint
    <3>2. Counting'
      BY <2>0, <2>1, <3>1 DEF Counting
    <3>3. CASE UNCHANGED seen
      BY <2>0, <2>1, <3>1, <3>2, <3>3, SameSeen DEF Printed
    <3>4. CASE ~(Len(seen) > 0 /\ seen[Len(seen)] = seg[rseg].data)
      <4>1. seen' = Append(seen, seg[rseg].data)
        BY <2>4, <3>4 DEF ReaderPrint
      <4>2. Len(seen) = 0 \/ seen[Len(seen)] # seg[rseg].data
        BY <1>0, <3>4
      <4> QED BY <2>0, <3>1, <3>2, <4>1, <4>2, PrintOrdered
    <3> QED BY <2>4, <3>3, <3>4 DEF ReaderPrint
  <2>5. CASE ReaderShmdt
    <3>1. rseg \in 1..Len(seg) /\ UNCHANGED <<rseg, seen>>
      BY <1>0, <2>5 DEF ReaderShmdt, ShmInv, ReaderHolds, None
    <3>2. Len(seg') = Len(seg) /\ \A k \in 1..Len(seg) : seg'[k].data = seg[k].data
      <4> DEFINE b == rseg = key1
      <4>1. b \in BOOLEAN /\ seg' = [seg EXCEPT ![rseg].live = b]
        BY <2>5 DEF ReaderShmdt
      <4> HIDE DEF b
      <4> QED BY <3>1, <4>1, DataKept DEF ShmInv
    <3> QED BY <1>0, <2>0, <2>1, <3>1, <3>2, SameSeen DEF Counting, Printed, None
  <2> QED BY <1>5, <2>2, <2>3, <2>4, <2>5 DEF Reader
<1> QED BY <1>1, <1>2, <1>3, <1>4, <1>5 DEF ShmNext

(* A run that starts afresh prints its blocks in the order they were        *)
(* written, whatever the reader misses, as long as there are no more than   *)
(* 27 (there are two): the 28th would print as 'B' again.                   *)
THEOREM PrintsInOrder ==
  ASSUME DOITERS <= 27
  PROVE  ShmSpec => []BlocksInOrder
<1>1. ShmInit => FirstRun /\ BlocksInOrder
  BY DEF ShmInit, FirstRun, Counting, Printed, BlocksInOrder, None
<1>2. ShmInv /\ FirstRun /\ BlocksInOrder /\ [ShmNext]_shm_vars => FirstRun' /\ BlocksInOrder'
  BY FirstRunStep
<1> QED BY <1>1, <1>2, ShmInvariant, PTL DEF ShmSpec

-----------------------------------------------------------------------------
(* msgtest.c.                                                               *)

AllMessages == Messages(1) \cup Messages(2)

Types ==
  /\ queue \in [id : Nat, msgs : Seq(AllMessages)]
  /\ lastid \in Nat
  /\ pc \in [Instances -> PC]
  /\ msgid \in [Instances -> Nat]
  /\ got \in [Instances -> [1..2 -> AllMessages \cup {NoMessage}]]
  /\ excuse \in [Instances -> BOOLEAN]

(* A run has no identifier before it creates the queue.                     *)
NothingHeld == \A p \in Instances : pc[p] \in {"idle", "create"} => msgid[p] = 0

(* The queue, if there is one, is that of a run at work or of one that was  *)
(* killed, ran out of space or had a probe that succeeded.                  *)
Held ==
  Exists => \E p \in Instances :
    ~Stale(p) /\ (Live(p) \/ pc[p] \in {"killed", "nospace", "probed"})

(* What a run that met nobody has made of the queue.                        *)
Mine(t, p) == <<t, p>>
Alone(p) ==
  /\ Live(p) => \A o \in Instances \ {p} : ~Live(o)
  /\ pc[p] \notin {"failed", "probed"}
  /\ pc[p] \in {"create", "recreate"} => ~Exists
  /\ pc[p] \in {"probe", "destroy", "send1", "send2", "recv2", "recv1", "remove"} =>
       Exists /\ ~Stale(p)
  /\ pc[p] = "send1" => queue.msgs = <<>>
  /\ pc[p] = "send2" => queue.msgs = <<Mine(1, p)>>
  /\ pc[p] = "recv2" => queue.msgs = <<Mine(1, p), Mine(2, p)>>
  /\ pc[p] = "recv1" => queue.msgs = <<Mine(1, p)>>
  /\ pc[p] \in {"recv1", "remove", "done"} => got[p][2] = Mine(2, p)
  /\ pc[p] \in {"remove", "done"} => got[p][1] = Mine(1, p)
SoloRuns == \A p \in Instances : ~excuse[p] => Alone(p)

QueueInv == Types /\ NothingHeld /\ Held /\ SoloRuns

-----------------------------------------------------------------------------
LEMMA QueueInitial == Init => QueueInv
<1> SUFFICES ASSUME Init PROVE QueueInv
  OBVIOUS
<1> USE DEF Init
<1>1. queue.id = 0 /\ queue \in [id : Nat, msgs : Seq(AllMessages)]
  BY DEF NoQueue
<1>2. excuse \in [Instances -> BOOLEAN]
  OBVIOUS
<1>3. Types
  BY <1>1, <1>2 DEF Types, PC
<1>4. NothingHeld /\ Held
  BY <1>1 DEF NothingHeld, Held, Exists
<1>5. SoloRuns
  BY DEF SoloRuns, Alone, Live
<1> QED BY <1>3, <1>4, <1>5 DEF QueueInv

(* A run that met nobody is not disturbed by the step of another run: if it *)
(* were still at work the other would have met it.                          *)
LEMMA OthersAlone ==
  ASSUME QueueInv, NEW p \in Instances, Live(p), NEW r \in Instances \ {p}, ~excuse[r],
         pc'[r] = pc[r], got'[r] = got[r]
  PROVE  Alone(r)'
<1>1. Alone(r)
  BY DEF QueueInv, SoloRuns
<1>2. ~Live(r)
  BY <1>1 DEF Alone
<1> QED BY <1>1, <1>2 DEF Alone, Live, Ended

(* The frame of a step of run p.                                            *)
LEMMA RunMoves ==
  ASSUME QueueInv, Types', NEW p \in Instances, Live(p), NEW to \in PC \ {"idle", "create"},
         pc' = [pc EXCEPT ![p] = to], excuse' = excuse,
         \A r \in Instances \ {p} : got'[r] = got[r] /\ msgid'[r] = msgid[r],
         \/ /\ queue'.id = queue.id /\ msgid' = msgid
            /\ Stale(p) \/ to \notin {"failed", "done"}
         \/ queue'.id = msgid'[p] /\ to \notin {"failed", "done"}
         \/ queue'.id = 0,
         ~excuse[p] => Alone(p)'
  PROVE  QueueInv'
<1>1. pc'[p] = to /\ \A r \in Instances \ {p} : pc'[r] = pc[r]
  BY DEF QueueInv, Types
<1>2. NothingHeld'
  BY <1>1 DEF QueueInv, NothingHeld
<1>3. SoloRuns'
  BY <1>1, OthersAlone DEF QueueInv, SoloRuns
<1>4. to \notin {"failed", "done"} => Live(p)' \/ pc'[p] \in {"killed", "nospace", "probed"}
  BY <1>1 DEF Live, Ended
<1>5. Held'
  <2>1. CASE queue'.id = 0
    BY <2>1 DEF Held, Exists
  <2>2. CASE queue'.id = msgid'[p] /\ to \notin {"failed", "done"}
    BY <1>4, <2>2 DEF Held, Stale
  <2>3. CASE /\ queue'.id = queue.id /\ msgid' = msgid
             /\ Stale(p) \/ to \notin {"failed", "done"}
    <3> SUFFICES ASSUME Exists
                 PROVE  \E r \in Instances : /\ ~Stale(r)'
                                             /\ \/ Live(r)'
                                                \/ pc'[r] \in {"killed", "nospace", "probed"}
      BY <2>3 DEF Held, Exists
    <3>1. PICK r \in Instances :
            ~Stale(r) /\ (Live(r) \/ pc[r] \in {"killed", "nospace", "probed"})
      BY DEF QueueInv, Held
    <3>2. ~Stale(r)'
      BY <2>3, <3>1 DEF Stale
    <3>3. CASE r = p
      BY <1>4, <2>3, <3>1, <3>2, <3>3
    <3>4. CASE r # p
      BY <1>1, <3>1, <3>2, <3>4 DEF Live
    <3> QED BY <3>3, <3>4
  <2> QED BY <2>1, <2>2, <2>3
<1> QED BY <1>2, <1>3, <1>5 DEF QueueInv

-----------------------------------------------------------------------------
LEMMA StartStep ==
  ASSUME QueueInv, NEW p \in Instances, Start(p)
  PROVE  QueueInv'
<1> DEFINE met(r) == \/ excuse[r]
                     \/ r = p /\ (Exists \/ \E o \in Instances \ {p} : Live(o))
                     \/ r # p /\ Live(r)
<1>1. /\ pc[p] = "idle" /\ pc' = [pc EXCEPT ![p] = "create"]
      /\ excuse' = [r \in Instances |-> met(r)]
      /\ queue' = queue /\ lastid' = lastid /\ msgid' = msgid /\ got' = got
  BY DEF Start, Goto
<1>2. excuse' \in [Instances -> BOOLEAN] /\ \A r \in Instances : ~excuse'[r] => ~met(r)
  BY <1>1, Zenon
<1>3. pc'[p] = "create" /\ \A r \in Instances \ {p} : pc'[r] = pc[r]
  BY <1>1 DEF QueueInv, Types
<1>4. Types'
  BY <1>1, <1>2 DEF QueueInv, Types, PC
<1>5. NothingHeld'
  BY <1>1, <1>3 DEF QueueInv, NothingHeld
<1>6. Held'
  BY <1>1, <1>3 DEF QueueInv, Held, NothingHeld, Exists, Stale, Live
<1>7. SoloRuns'
  <2> SUFFICES ASSUME NEW r \in Instances, ~excuse'[r] PROVE Alone(r)'
    BY DEF SoloRuns
  <2>1. ~met(r)
    BY <1>2
  <2>2. CASE r = p
    <3>1. ~Exists /\ \A o \in Instances \ {p} : ~Live(o)
      BY <2>1, <2>2, Zenon
    <3> QED BY <1>1, <1>3, <2>2, <3>1 DEF Alone, Live, Exists
  <2>3. CASE r # p
    <3>1. ~excuse[r] /\ ~Live(r)
      BY <2>1, <2>3, Zenon
    <3>2. Alone(r)
      BY <3>1 DEF QueueInv, SoloRuns
    <3> QED BY <1>1, <1>3, <2>3, <3>1, <3>2 DEF Alone, Live, Ended
  <2> QED BY <2>2, <2>3
<1> QED BY <1>4, <1>5, <1>6, <1>7 DEF QueueInv

(* A run that dies, or is refused by the kernel, leaves the queue as it is. *)
LEMMA EndStep ==
  ASSUME QueueInv, NEW p \in Instances, NoSpace(p) \/ Kill(p)
  PROVE  QueueInv'
<1>1. PICK to \in {"nospace", "killed"} : pc' = [pc EXCEPT ![p] = to]
  BY DEF NoSpace, Kill, Goto
<1>2. /\ queue' = queue /\ lastid' = lastid /\ msgid' = msgid /\ got' = got /\ excuse' = excuse
      /\ Live(p)
  BY DEF NoSpace, Kill, Live, Ended
<1>3. to \in PC \ {"idle", "create"} /\ to \notin {"failed", "done"}
  BY DEF PC, Ended
<1>4. Types'
  BY <1>1, <1>2, <1>3 DEF QueueInv, Types
<1>5. pc'[p] = to
  BY <1>1 DEF QueueInv, Types
<1>6. Alone(p)'
  BY <1>5 DEF Alone, Live, Ended
<1> QED BY <1>1, <1>2, <1>3, <1>4, <1>6, RunMoves

(* The part of Alone that says who else is at work.                         *)
LEMMA StillAlone ==
  ASSUME QueueInv, NEW p \in Instances, Live(p), ~excuse[p],
         NEW to, pc' = [pc EXCEPT ![p] = to]
  PROVE  Alone(p) /\ pc'[p] = to /\ \A o \in Instances \ {p} : ~Live(o)'
<1>1. Alone(p)
  BY DEF QueueInv, SoloRuns
<1> QED BY <1>1 DEF Alone, Live, QueueInv, Types

LEMMA CreateStep ==
  ASSUME QueueInv, NEW p \in Instances, Create(p) \/ Probe(p) \/ Recreate(p)
  PROVE  QueueInv'
<1>0. /\ pc[p] \in {"create", "probe", "recreate"} /\ got' = got /\ excuse' = excuse
      /\ Live(p)
  BY DEF Create, Probe, Recreate, Live, Ended
<1>1. CASE NewQueue(p) /\ ~Exists
  <2>1. PICK to : /\ pc' = [pc EXCEPT ![p] = to]
                  /\ \/ pc[p] = "create" /\ to = "probe"
                     \/ pc[p] = "probe" /\ to = "probed"
                     \/ pc[p] = "recreate" /\ to = "send1"
    BY <1>1 DEF Create, Probe, Recreate, Goto
  <2>2. /\ queue' = [id |-> lastid + 1, msgs |-> <<>>] /\ lastid' = lastid + 1
        /\ msgid' = [msgid EXCEPT ![p] = lastid + 1]
    BY <1>1 DEF NewQueue
  <2>3. queue'.id = lastid + 1 /\ queue'.msgs = <<>> /\ msgid'[p] = lastid + 1
        /\ lastid + 1 \in Nat /\ lastid + 1 # 0
    BY <2>2 DEF QueueInv, Types
  <2>4. queue' \in [id : Nat, msgs : Seq(AllMessages)]
    BY <2>2, <2>3
  <2>5. to \in PC \ {"idle", "create"} /\ to \notin {"failed", "done"}
    BY <2>1 DEF PC, Ended
  <2>6. Types'
    BY <1>0, <2>1, <2>2, <2>3, <2>4, <2>5 DEF QueueInv, Types
  <2>7. ASSUME ~excuse[p] PROVE Alone(p)'
    <3>1. Alone(p) /\ pc'[p] = to /\ \A o \in Instances \ {p} : ~Live(o)'
      BY <1>0, <2>1, <2>7, StillAlone
    <3>2. to # "probed"
      BY <1>1, <2>1, <3>1 DEF Alone
    <3> QED BY <2>1, <2>3, <3>1, <3>2 DEF Alone, Exists, Stale
  <2>8. \A r \in Instances \ {p} : got'[r] = got[r] /\ msgid'[r] = msgid[r]
    BY <1>0, <2>2 DEF QueueInv, Types
  <2> QED BY <1>0, <2>1, <2>3, <2>5, <2>6, <2>7, <2>8, RunMoves
<1>2. CASE pc[p] \in {"create", "probe"} /\ Exists
  <2>1. PICK to : /\ pc' = [pc EXCEPT ![p] = to]
                  /\ \/ pc[p] = "create" /\ to = "failed"
                     \/ pc[p] = "probe" /\ to = "destroy"
                  /\ queue' = queue /\ lastid' = lastid /\ msgid' = msgid
    BY <1>2 DEF Create, Probe, Recreate, Goto
  <2>2. to \in PC \ {"idle", "create"}
    BY <2>1 DEF PC, Ended
  <2>3. Types'
    BY <1>0, <2>1, <2>2 DEF QueueInv, Types
  <2>4. Stale(p) \/ to \notin {"failed", "done"}
    BY <1>2, <2>1 DEF QueueInv, NothingHeld, Stale, Exists
  <2>5. ASSUME ~excuse[p] PROVE Alone(p)'
    <3>1. Alone(p) /\ pc'[p] = to /\ \A o \in Instances \ {p} : ~Live(o)'
      BY <1>0, <2>1, <2>5, StillAlone
    <3>2. to = "destroy" /\ pc[p] = "probe"
      BY <1>2, <2>1, <3>1 DEF Alone
    <3> QED BY <1>2, <2>1, <3>1, <3>2 DEF Alone, Exists, Stale
  <2> QED BY <1>0, <2>1, <2>2, <2>3, <2>4, <2>5, RunMoves
<1>3. CASE pc[p] = "recreate" /\ Exists
  <2>1. /\ pc' = [pc EXCEPT ![p] = "send1"] /\ queue' = queue /\ lastid' = lastid
        /\ msgid' = [msgid EXCEPT ![p] = queue.id]
    BY <1>3 DEF Create, Probe, Recreate, Goto, OpenQueue
  <2>2. "send1" \in PC \ {"idle", "create"}
    BY DEF PC
  <2>3. Types'
    BY <1>0, <2>1, <2>2 DEF QueueInv, Types
  <2>4. /\ queue'.id = msgid'[p]
        /\ \A r \in Instances \ {p} : got'[r] = got[r] /\ msgid'[r] = msgid[r]
    BY <1>0, <2>1 DEF QueueInv, Types
  <2>5. excuse[p]
    BY <1>0, <1>3 DEF QueueInv, SoloRuns, Alone
  <2> QED BY <1>0, <2>1, <2>2, <2>3, <2>4, <2>5, RunMoves
<1> QED BY <1>0, <1>1, <1>2, <1>3 DEF Create, Probe, Recreate

LEMMA RmidStep ==
  ASSUME QueueInv, NEW p \in Instances, Rmid(p, "destroy", "recreate") \/ Rmid(p, "remove", "done")
  PROVE  QueueInv'
<1>0. /\ pc[p] \in {"destroy", "remove"} /\ Live(p)
      /\ lastid' = lastid /\ msgid' = msgid /\ got' = got /\ excuse' = excuse
  BY DEF Rmid, Live, Ended
<1>1. CASE Stale(p)
  <2>1. pc' = [pc EXCEPT ![p] = "failed"] /\ queue' = queue
    BY <1>1 DEF Rmid, Goto
  <2>2. "failed" \in PC \ {"idle", "create"}
    BY DEF PC, Ended
  <2>3. Types'
    BY <1>0, <2>1, <2>2 DEF QueueInv, Types
  <2>4. excuse[p]
    BY <1>0, <1>1 DEF QueueInv, SoloRuns, Alone
  <2> QED BY <1>0, <1>1, <2>1, <2>2, <2>3, <2>4, RunMoves
<1>2. CASE ~Stale(p)
  <2>1. PICK to : /\ pc' = [pc EXCEPT ![p] = to] /\ queue' = NoQueue
                  /\ \/ pc[p] = "destroy" /\ to = "recreate"
                     \/ pc[p] = "remove" /\ to = "done"
    BY <1>2 DEF Rmid, Goto, AfterRemove
  <2>2. to \in PC \ {"idle", "create"}
    BY <2>1 DEF PC, Ended
  <2>3. queue'.id = 0 /\ queue' \in [id : Nat, msgs : Seq(AllMessages)]
    BY <2>1 DEF NoQueue
  <2>4. Types'
    BY <1>0, <2>1, <2>2, <2>3 DEF QueueInv, Types
  <2>5. ASSUME ~excuse[p] PROVE Alone(p)'
    <3>1. Alone(p) /\ pc'[p] = to /\ \A o \in Instances \ {p} : ~Live(o)'
      BY <1>0, <2>1, <2>5, StillAlone
    <3> QED BY <1>0, <2>1, <2>3, <3>1 DEF Alone, Exists
  <2> QED BY <1>0, <2>1, <2>2, <2>3, <2>4, <2>5, RunMoves
<1> QED BY <1>1, <1>2

(* Short queues.                                                            *)
LEMMA OneMessage ==
  ASSUME NEW a
  PROVE  Append(<<>>, a) = <<a>> /\ RemoveAt(<<a>>, 1) = <<>>
<1>1. Append(<<>>, a) = <<a>>
  OBVIOUS
<1>2. SubSeq(<<a>>, 1, 0) = <<>> /\ SubSeq(<<a>>, 2, 1) = <<>> /\ Len(<<a>>) = 1
  OBVIOUS
<1>3. RemoveAt(<<a>>, 1) = <<>>
  BY <1>2 DEF RemoveAt
<1> QED BY <1>1, <1>3

LEMMA TwoMessages ==
  ASSUME NEW a, NEW b
  PROVE  Append(<<a>>, b) = <<a, b>> /\ RemoveAt(<<a, b>>, 2) = <<a>>
<1> DEFINE S == {a, b}
          one == <<a>>
          two == <<a, b>>
<1>1. /\ one \in Seq(S) /\ Len(one) = 1 /\ one[1] = a
      /\ two \in Seq(S) /\ Len(two) = 2 /\ two[1] = a /\ two[2] = b
      /\ a \in S /\ b \in S
  OBVIOUS
<1> HIDE DEF S, one, two
<1>2. Append(one, b) = two
  <2>1. /\ Append(one, b) \in Seq(S) /\ Len(Append(one, b)) = 2
        /\ Append(one, b)[1] = a /\ Append(one, b)[2] = b
    <3>1. /\ Append(one, b) \in Seq(S) /\ Len(Append(one, b)) = Len(one) + 1
          /\ \A k \in 1..Len(one) : Append(one, b)[k] = one[k]
          /\ Append(one, b)[Len(one) + 1] = b
      <4>1. one \in Seq(S) /\ b \in S
        BY <1>1
      <4> QED BY <4>1, AppendProperties
    <3>2. 1 \in 1..Len(one) /\ Len(one) + 1 = 2
      BY <1>1
    <3> QED BY <1>1, <3>1, <3>2, Zenon
  <2> QED BY <1>1, <2>1, SeqEqual
<1>3. SubSeq(two, 1, 1) = one
  <2>1. /\ SubSeq(two, 1, 1) \in Seq(S) /\ Len(SubSeq(two, 1, 1)) = 1
        /\ SubSeq(two, 1, 1)[1] = a
    BY <1>1, SubSeqProperties
  <2> QED BY <1>1, <2>1, SeqEqual
<1>4. SubSeq(two, 3, 2) = <<>>
  BY SubSeqEmpty
<1>5. RemoveAt(two, 2) = one
  BY <1>1, <1>3, <1>4, ConcatEmptySeq DEF RemoveAt
<1> QED BY <1>2, <1>5 DEF one, two

LEMMA RemoveType ==
  ASSUME NEW S, NEW q \in Seq(S), NEW k \in 1..Len(q)
  PROVE  RemoveAt(q, k) \in Seq(S)
<1>1. SubSeq(q, 1, k - 1) \in Seq(S) /\ SubSeq(q, k + 1, Len(q)) \in Seq(S)
  OBVIOUS
<1> QED BY <1>1 DEF RemoveAt

LEMMA SendStep ==
  ASSUME QueueInv, NEW p \in Instances, SendFirst(p) \/ SendSecond(p)
  PROVE  QueueInv'
<1>0. /\ pc[p] \in {"send1", "send2"} /\ Live(p)
      /\ lastid' = lastid /\ msgid' = msgid /\ got' = got /\ excuse' = excuse
  BY DEF SendFirst, SendSecond, Send, Live, Ended
<1>1. CASE Stale(p)
  <2>1. pc' = [pc EXCEPT ![p] = "failed"] /\ queue' = queue
    BY <1>1 DEF SendFirst, SendSecond, Send, Goto
  <2>2. "failed" \in PC \ {"idle", "create"}
    BY DEF PC, Ended
  <2>3. Types'
    BY <1>0, <2>1, <2>2 DEF QueueInv, Types
  <2>4. excuse[p]
    BY <1>0, <1>1 DEF QueueInv, SoloRuns, Alone
  <2> QED BY <1>0, <1>1, <2>1, <2>2, <2>3, <2>4, RunMoves
<1>2. CASE ~Stale(p)
  <2>1. PICK t \in 1..2 : \E to \in PC :
          /\ pc' = [pc EXCEPT ![p] = to]
          /\ queue' = [queue EXCEPT !.msgs = Append(@, <<t, p>>)]
          /\ \/ pc[p] = "send1" /\ to = "send2" /\ t = 1
             \/ pc[p] = "send2" /\ to = "recv2" /\ t = 2
    BY <1>2 DEF SendFirst, SendSecond, Send, Goto, SecondType, PC
  <2> DEFINE m == <<t, p>>
  <2>2. PICK to \in PC :
          /\ pc' = [pc EXCEPT ![p] = to]
          /\ queue' = [queue EXCEPT !.msgs = Append(@, m)]
          /\ \/ pc[p] = "send1" /\ to = "send2" /\ t = 1
             \/ pc[p] = "send2" /\ to = "recv2" /\ t = 2
    BY <2>1
  <2>0. to \in PC \ {"idle", "create"} /\ to \notin {"failed", "done"}
    BY <2>2
  <2>3. m \in AllMessages
    BY DEF AllMessages, Messages
  <2> HIDE DEF m
  <2>4. /\ queue.msgs \in Seq(AllMessages) /\ queue.id \in Nat
        /\ queue'.id = queue.id /\ queue'.msgs = Append(queue.msgs, m)
    BY <2>2 DEF QueueInv, Types
  <2>5. queue' \in [id : Nat, msgs : Seq(AllMessages)]
    <3>1. Append(queue.msgs, m) \in Seq(AllMessages)
      BY <2>3, <2>4, AppendProperties
    <3> DEFINE x == Append(queue.msgs, m)
    <3>2. x \in Seq(AllMessages) /\ queue' = [queue EXCEPT !.msgs = x]
      BY <2>2, <3>1
    <3> HIDE DEF x
    <3> QED BY <3>2 DEF QueueInv, Types
  <2>6. Types'
    BY <1>0, <2>0, <2>2, <2>5 DEF QueueInv, Types
  <2>7. ASSUME ~excuse[p] PROVE Alone(p)'
    <3>1. Alone(p) /\ pc'[p] = to /\ \A o \in Instances \ {p} : ~Live(o)'
      BY <1>0, <2>2, <2>7, StillAlone
    <3>2. CASE to = "send2"
      <4>1. queue'.msgs = <<Mine(1, p)>>
        BY <2>2, <2>3, <2>4, <3>1, <3>2, OneMessage DEF Alone, m, Mine
      <4> QED BY <1>0, <2>4, <3>1, <3>2, <4>1 DEF Alone, Exists, Stale
    <3>3. CASE to = "recv2"
      <4>1. queue'.msgs = <<Mine(1, p), Mine(2, p)>>
        BY <2>2, <2>3, <2>4, <3>1, <3>3, TwoMessages DEF Alone, m, Mine
      <4> QED BY <1>0, <2>4, <3>1, <3>3, <4>1 DEF Alone, Exists, Stale
    <3> QED BY <2>2, <3>2, <3>3
  <2> QED BY <1>0, <2>0, <2>2, <2>4, <2>6, <2>7, RunMoves
<1> QED BY <1>1, <1>2

(* msgrcv of type t at from: the run takes the first message of that type.  *)
LEMMA ReceiveStep ==
  ASSUME QueueInv, NEW p \in Instances, NEW t \in 1..2, NEW from, NEW to,
         \/ from = "recv2" /\ t = 2 /\ to = "recv1"
         \/ from = "recv1" /\ t = 1 /\ to = "remove",
         Receive(p, from, t, to)
  PROVE  QueueInv'
<1>0. /\ pc[p] = from /\ Live(p) /\ lastid' = lastid /\ msgid' = msgid /\ excuse' = excuse
  BY DEF Receive, Live, Ended
<1>1. CASE Stale(p)
  <2>1. pc' = [pc EXCEPT ![p] = "failed"] /\ queue' = queue /\ got' = got
    BY <1>1 DEF Receive, Goto
  <2>2. "failed" \in PC \ {"idle", "create"}
    BY DEF PC, Ended
  <2>3. Types'
    BY <1>0, <2>1, <2>2 DEF QueueInv, Types
  <2>4. excuse[p]
    BY <1>0, <1>1 DEF QueueInv, SoloRuns, Alone
  <2> QED BY <1>0, <1>1, <2>1, <2>2, <2>3, <2>4, RunMoves
<1>2. CASE ~Stale(p)
  <2>1. PICK k \in DOMAIN queue.msgs :
          /\ OfType(queue.msgs[k], t)
          /\ got' = [got EXCEPT ![p][t] = queue.msgs[k]]
          /\ queue' = [queue EXCEPT !.msgs = RemoveAt(@, k)]
    BY <1>2 DEF Receive
  <2>2. pc' = [pc EXCEPT ![p] = to]
    BY <1>2 DEF Receive, Goto
  <2>3. to \in PC \ {"idle", "create"} /\ to \notin {"failed", "done"}
    BY DEF PC
  <2> DEFINE x == RemoveAt(queue.msgs, k)
             m == queue.msgs[k]
  <2>4. queue.msgs \in Seq(AllMessages) /\ queue \in [id : Nat, msgs : Seq(AllMessages)]
    BY DEF QueueInv, Types
  <2>5. k \in 1..Len(queue.msgs) /\ m \in AllMessages
    BY <2>4
  <2>6. x \in Seq(AllMessages)
    BY <2>4, <2>5, RemoveType
  <2>7. queue' = [queue EXCEPT !.msgs = x] /\ got' = [got EXCEPT ![p][t] = m]
    BY <2>1
  <2> HIDE DEF x, m
  <2>8. /\ queue' \in [id : Nat, msgs : Seq(AllMessages)]
        /\ queue'.id = queue.id /\ queue'.msgs = x
    BY <2>4, <2>6, <2>7
  <2>9. /\ got' \in [Instances -> [1..2 -> AllMessages \cup {NoMessage}]]
        /\ got'[p][t] = m /\ \A u \in (1..2) \ {t} : got'[p][u] = got[p][u]
        /\ \A r \in Instances \ {p} : got'[r] = got[r]
    BY <2>5, <2>7 DEF QueueInv, Types
  <2>10. Types'
    BY <1>0, <2>2, <2>3, <2>8, <2>9 DEF QueueInv, Types
  <2>11. ASSUME ~excuse[p] PROVE Alone(p)'
    <3>1. Alone(p) /\ pc'[p] = to /\ \A o \in Instances \ {p} : ~Live(o)'
      BY <1>0, <2>2, <2>11, StillAlone
    <3>2. Mine(1, p)[1] = 1 /\ Mine(2, p)[1] = 2
      BY DEF Mine
    <3>3. CASE to = "recv1"
      <4> DEFINE a == Mine(1, p)
                 b == Mine(2, p)
      <4>1. queue.msgs = <<a, b>> /\ t = 2
        BY <1>0, <3>1, <3>3 DEF Alone
      <4>2. a[1] = 1 /\ b[1] = 2
        BY <3>2
      <4> HIDE DEF a, b
      <4>3. k \in {1, 2} /\ queue.msgs[1] = a /\ queue.msgs[2] = b
        BY <2>5, <4>1
      <4>4. k = 2
        BY <2>1, <4>1, <4>2, <4>3 DEF OfType
      <4>5. m = b /\ x = <<a>>
        BY <4>1, <4>3, <4>4, TwoMessages DEF m, x
      <4>6. queue'.msgs = <<Mine(1, p)>> /\ got'[p][2] = Mine(2, p)
        BY <2>8, <2>9, <4>1, <4>5 DEF a, b
      <4> QED BY <1>0, <2>8, <3>1, <3>3, <4>6 DEF Alone, Exists, Stale
    <3>4. CASE to = "remove"
      <4> DEFINE a == Mine(1, p)
      <4>1. queue.msgs = <<a>> /\ t = 1 /\ got[p][2] = Mine(2, p)
        BY <1>0, <3>1, <3>4 DEF Alone
      <4> HIDE DEF a
      <4>2. k = 1 /\ queue.msgs[1] = a
        BY <2>5, <4>1
      <4>3. m = a
        BY <4>2 DEF m
      <4>4. got'[p][1] = Mine(1, p) /\ got'[p][2] = Mine(2, p)
        BY <2>9, <4>1, <4>3 DEF a
      <4> QED BY <1>0, <2>8, <3>1, <3>4, <4>4 DEF Alone, Exists, Stale
    <3> QED BY <3>3, <3>4
  <2> QED BY <1>0, <2>2, <2>3, <2>8, <2>9, <2>10, <2>11, RunMoves
<1> QED BY <1>1, <1>2

-----------------------------------------------------------------------------
LEMMA QueueStep ==
  ASSUME QueueInv, [Next]_vars
  PROVE  QueueInv'
<1>1. ASSUME NEW p \in Instances, Start(p) \/ NoSpace(p) \/ Kill(p) PROVE QueueInv'
  BY <1>1, StartStep, EndStep
<1>2. ASSUME NEW p \in Instances, Run(p) PROVE QueueInv'
  <2>1. CASE Receive(p, "recv2", 2, "recv1")
    BY <2>1, ReceiveStep
  <2>2. CASE Receive(p, "recv1", 1, "remove")
    BY <2>2, ReceiveStep
  <2> QED BY <1>2, <2>1, <2>2, CreateStep, RmidStep, SendStep DEF Run
<1>3. CASE UNCHANGED vars
  <2>1. /\ queue' = queue /\ lastid' = lastid /\ pc' = pc /\ msgid' = msgid
        /\ got' = got /\ excuse' = excuse
    BY <1>3 DEF vars
  <2>2. Types' /\ NothingHeld'
    BY <2>1 DEF QueueInv, Types, NothingHeld
  <2>3. Held'
    BY <2>1 DEF QueueInv, Held, Exists, Stale, Live
  <2>4. SoloRuns'
    BY <2>1 DEF QueueInv, SoloRuns, Alone, Live, Exists, Stale
  <2> QED BY <2>2, <2>3, <2>4 DEF QueueInv
<1> QED BY <1>1, <1>2, <1>3 DEF Next

(* The invariant of msgtest.c, for every number of runs: the queue belongs  *)
(* to somebody, and a run that met nobody finds in it what it has put there.*)
THEOREM QueueInvariant == Spec => []QueueInv
BY QueueInitial, QueueStep, PTL DEF Spec

(* However many runs overlap, a queue that no live run holds was left by a  *)
(* run that was killed, ran out of space or had a probe that succeeded.     *)
THEOREM LeaksHaveCause == Spec => []LeaksExplained
<1>1. QueueInv => LeaksExplained
  BY DEF QueueInv, Held, LeaksExplained
<1> QED BY <1>1, QueueInvariant, PTL

(* A run that met neither another run nor a leftover queue does not fail,   *)
(* and its two msgrcvs return its own messages in the order of their types, *)
(* not in that of the sends.                                                *)
THEOREM SoloPasses == Spec => []SoloRunPasses
<1>1. QueueInv => SoloRunPasses
  <2> SUFFICES ASSUME QueueInv, NEW p \in Instances, ~excuse[p]
               PROVE  /\ pc[p] \notin {"failed", "probed"}
                      /\ pc[p] = "done" => got[p] = [t \in 1..2 |-> <<t, p>>]
    BY DEF SoloRunPasses
  <2>1. Alone(p)
    BY DEF QueueInv, SoloRuns
  <2>2. ASSUME pc[p] = "done" PROVE got[p] = [t \in 1..2 |-> <<t, p>>]
    <3>1. got[p][1] = Mine(1, p) /\ got[p][2] = Mine(2, p)
      BY <2>1, <2>2 DEF Alone
    <3>2. \A t \in 1..2 : got[p][t] = Mine(t, p)
      BY <3>1
    <3>3. got[p] \in [1..2 -> AllMessages \cup {NoMessage}]
      BY DEF QueueInv, Types
    <3>4. got[p] = [t \in 1..2 |-> Mine(t, p)]
      BY <3>2, <3>3
    <3> QED BY <3>4, Zenon DEF Mine
  <2> QED BY <2>1, <2>2 DEF Alone
<1> QED BY <1>1, QueueInvariant, PTL

-----------------------------------------------------------------------------
(* msgtest.c: nobody is left waiting in msgrcv.                             *)

(* m is among the messages of the sequence s.                               *)
In(m, s) == \E k \in DOMAIN s : s[k] = m

(* The senders of the messages of type t in the queue.                      *)
Senders(t) == {r \in Instances : In(<<t, r>>, queue.msgs)}

(* Where a run has sent its message of type t and not yet received one of   *)
(* that type, and where it has not yet sent it.                             *)
Waits(t) == IF t = 1 THEN {"send2", "recv2", "recv1"} ELSE {"recv2"}
Unsent(t) ==
  {"idle", "create", "probe", "destroy", "recreate", "send1"}
    \cup (IF t = 1 THEN {} ELSE {"send2"})

(* The runs on the present queue that will ask it for a message of type t.  *)
Expecting(t) == {p \in Instances : ~Stale(p) /\ pc[p] \in Waits(t)}

(* Identifiers are given once, and 0 is nobody's.                           *)
Ids ==
  /\ queue.id <= lastid
  /\ \A p \in Instances : /\ msgid[p] <= lastid
                          /\ pc[p] \in {"send1", "send2", "recv2", "recv1"} => msgid[p] # 0

SentOnce == \A t \in 1..2 : \A r \in Senders(t) : pc[r] \notin Unsent(t)

(* No more runs will ask for a message of either type than there are such   *)
(* messages, whoever sent them.                                             *)
Enough == \A t \in 1..2 : Cardinality(Expecting(t)) <= Cardinality(Senders(t))

Supply == Ids /\ SentOnce /\ Enough

(* The queue has a first message of type t, which msgrcv returns.           *)
Receivable(t) ==
  \E k \in DOMAIN queue.msgs :
    /\ OfType(queue.msgs[k], t)
    /\ \A j \in 1..(k - 1) : ~OfType(queue.msgs[j], t)

(* A run in msgrcv whose queue has not been removed finds a message of the  *)
(* type it asks for, although others may have taken the one it sent.        *)
MsgrcvReturns ==
  \A p \in Instances : ~Stale(p) =>
    /\ pc[p] = "recv2" => Receivable(2)
    /\ pc[p] = "recv1" => Receivable(1)

-----------------------------------------------------------------------------
(* A set of numbers that is not empty has a least one.                      *)
LEMMA Least ==
  ASSUME NEW S \in SUBSET Nat, S # {}
  PROVE  \E k \in S : \A j \in S : k <= j
<1>1. PICK k \in S : \A j \in S : ~(<<j, k>> \in OpToRel(<, Nat))
  BY NatLessThanWellFounded, WFMin
<1>2. \A j \in S : ~(j < k)
  BY <1>1 DEF OpToRel
<1> QED BY <1>2

LEMMA AppendAdds ==
  ASSUME NEW S, NEW s \in Seq(S), NEW a \in S, NEW m
  PROVE  In(m, Append(s, a)) <=> m = a \/ In(m, s)
<1> DEFINE x == Append(s, a)
<1>1. /\ x \in Seq(S) /\ Len(x) = Len(s) + 1 /\ Len(s) \in Nat
      /\ \A k \in 1..Len(s) : x[k] = s[k]
      /\ x[Len(s) + 1] = a
      /\ DOMAIN s = 1..Len(s) /\ DOMAIN x = 1..(Len(s) + 1)
  BY AppendProperties
<1> HIDE DEF x
<1>2. (\E k \in DOMAIN x : x[k] = m) <=> (m = a \/ \E k \in DOMAIN s : s[k] = m)
  BY <1>1
<1> QED BY <1>2 DEF In, x

(* RemoveAt takes out one message and keeps all the others.                 *)
LEMMA RemoveKeeps ==
  ASSUME NEW S, NEW s \in Seq(S), NEW k \in 1..Len(s), NEW m
  PROVE  /\ In(m, RemoveAt(s, k)) => In(m, s)
         /\ In(m, s) /\ m # s[k] => In(m, RemoveAt(s, k))
<1> DEFINE a == SubSeq(s, 1, k - 1)
           b == SubSeq(s, k + 1, Len(s))
           x == a \o b
           n == Len(s)
<1>0. n \in Nat /\ k \in 1..n /\ DOMAIN s = 1..n
  OBVIOUS
<1>1. /\ a \in Seq(S) /\ Len(a) = k - 1 /\ \A i \in 1..(k - 1) : a[i] = s[i]
  BY <1>0, SubSeqProperties
<1>2. /\ b \in Seq(S) /\ Len(b) = n - k /\ \A i \in 1..(n - k) : b[i] = s[k + i]
  <2>1. /\ b \in Seq(S) /\ Len(b) = IF k + 1 <= n THEN n - (k + 1) + 1 ELSE 0
        /\ \A i \in 1..(n - (k + 1) + 1) : b[i] = s[k + 1 + i - 1]
    BY <1>0, SubSeqProperties
  <2> HIDE DEF b, n
  <2> QED BY <1>0, <2>1
<1> HIDE DEF a, b
<1>3. /\ x \in Seq(S) /\ Len(x) = n - 1 /\ DOMAIN x = 1..(n - 1)
      /\ \A i \in 1..(k - 1) : x[i] = s[i]
      /\ \A i \in k..(n - 1) : x[i] = s[i + 1]
  <2>1. /\ x \in Seq(S) /\ Len(x) = Len(a) + Len(b)
        /\ \A i \in 1..(Len(a) + Len(b)) :
             x[i] = IF i <= Len(a) THEN a[i] ELSE b[i - Len(a)]
    BY <1>1, <1>2, ConcatProperties
  <2>2. DOMAIN x = 1..Len(x)
    BY <2>1
  <2> HIDE DEF x, n
  <2>3. Len(x) = n - 1 /\ Len(a) + Len(b) = n - 1
    BY <1>0, <1>1, <1>2, <2>1
  <2>4. ASSUME NEW i \in 1..(k - 1) PROVE x[i] = s[i]
    BY <1>0, <1>1, <1>2, <2>1, <2>3
  <2>5. ASSUME NEW i \in k..(n - 1) PROVE x[i] = s[i + 1]
    <3>1. i \in 1..(Len(a) + Len(b)) /\ ~(i <= Len(a)) /\ i - Len(a) = i - (k - 1)
      BY <1>0, <1>1, <2>3
    <3>2. x[i] = b[i - (k - 1)]
      BY <2>1, <3>1
    <3>3. i - (k - 1) \in 1..(n - k) /\ k + (i - (k - 1)) = i + 1
      BY <1>0
    <3> QED BY <1>2, <3>2, <3>3
  <2> QED BY <2>1, <2>2, <2>3, <2>4, <2>5
<1>4. RemoveAt(s, k) = x
  BY DEF RemoveAt, a, b
<1> HIDE DEF x, n
<1>5. ASSUME NEW i \in DOMAIN x PROVE \E j \in DOMAIN s : s[j] = x[i]
  <2>1. CASE i < k
    BY <1>0, <1>3, <2>1
  <2>2. CASE i >= k
    <3>1. i + 1 \in DOMAIN s /\ i \in k..(n - 1)
      BY <1>0, <1>3, <2>2
    <3> QED BY <1>3, <3>1
  <2> QED BY <1>0, <1>3, <2>1, <2>2
<1>6. ASSUME NEW j \in DOMAIN s, j # k PROVE \E i \in DOMAIN x : x[i] = s[j]
  <2>1. CASE j < k
    <3>1. j \in DOMAIN x /\ j \in 1..(k - 1)
      BY <1>0, <1>3, <2>1
    <3> QED BY <1>3, <3>1
  <2>2. CASE j > k
    <3>1. j - 1 \in DOMAIN x /\ j - 1 \in k..(n - 1) /\ (j - 1) + 1 = j
      BY <1>0, <1>3, <2>2
    <3> QED BY <1>3, <3>1
  <2> QED BY <1>0, <1>6, <2>1, <2>2
<1> QED BY <1>4, <1>5, <1>6 DEF In

LEMMA FewerAsk ==
  ASSUME NEW A, NEW B, NEW C, NEW D, IsFiniteSet(A), IsFiniteSet(D),
         C \subseteq A, B \subseteq D, Cardinality(A) <= Cardinality(B)
  PROVE  Cardinality(C) <= Cardinality(D)
<1>1. Cardinality(C) <= Cardinality(A) /\ IsFiniteSet(C)
  BY FS_Subset
<1>2. Cardinality(B) <= Cardinality(D) /\ IsFiniteSet(B)
  BY FS_Subset
<1>3. /\ Cardinality(A) \in Nat /\ Cardinality(B) \in Nat
      /\ Cardinality(C) \in Nat /\ Cardinality(D) \in Nat
  BY <1>1, <1>2, FS_CardinalityType
<1> QED BY <1>1, <1>2, <1>3

LEMMA OneOfBoth ==
  ASSUME NEW A, NEW B, IsFiniteSet(A), IsFiniteSet(B), Cardinality(A) <= Cardinality(B),
         NEW p, NEW q
  PROVE  /\ p \notin B => Cardinality(A \cup {p}) <= Cardinality(B \cup {p})
         /\ p \in A => Cardinality(A \ {p}) <= Cardinality(B \ {q})
<1>1. Cardinality(A) \in Nat /\ Cardinality(B) \in Nat
  BY FS_CardinalityType
<1>2. /\ Cardinality(A \cup {p}) = IF p \in A THEN Cardinality(A) ELSE Cardinality(A) + 1
      /\ Cardinality(B \cup {p}) = IF p \in B THEN Cardinality(B) ELSE Cardinality(B) + 1
  BY FS_AddElement
<1>3. /\ Cardinality(A \ {p}) = IF p \in A THEN Cardinality(A) - 1 ELSE Cardinality(A)
      /\ Cardinality(B \ {q}) = IF q \in B THEN Cardinality(B) - 1 ELSE Cardinality(B)
  BY FS_RemoveElement
<1> QED BY <1>1, <1>2, <1>3

(* The sets of runs are finite.                                             *)
LEMMA FiniteRuns ==
  ASSUME NEW t
  PROVE  IsFiniteSet(Expecting(t)) /\ IsFiniteSet(Senders(t))
BY InstancesAssumption, FS_Subset DEF Expecting, Senders

-----------------------------------------------------------------------------
(* A step that leaves the queue alone and adds nobody to those who expect a *)
(* message.                                                                 *)
LEMMA NobodyAdded ==
  ASSUME Supply, queue' = queue,
         \A t \in 1..2 : /\ Expecting(t)' \subseteq Expecting(t)
                         /\ \A r \in Instances : pc'[r] \in Unsent(t) => pc[r] \in Unsent(t)
  PROVE  SentOnce' /\ Enough'
<1>1. \A t \in 1..2 : Senders(t)' = Senders(t)
  BY DEF Senders
<1>2. SentOnce'
  BY <1>1 DEF Supply, SentOnce, Senders, Unsent
<1>3. ASSUME NEW t \in 1..2 PROVE Cardinality(Expecting(t)') <= Cardinality(Senders(t)')
  <2>1. /\ Cardinality(Expecting(t)) <= Cardinality(Senders(t))
        /\ Expecting(t)' \subseteq Expecting(t) /\ Senders(t) \subseteq Senders(t)'
    BY <1>1 DEF Supply, Enough
  <2>2. /\ IsFiniteSet(Expecting(t)) /\ IsFiniteSet(Senders(t)')
    BY <1>1, FiniteRuns
  <2> QED BY <2>1, <2>2, FewerAsk
<1> QED BY <1>2, <1>3 DEF Enough

(* A step of p within the queue it holds, or to its end.                    *)
LEMMA QuietStep ==
  ASSUME Types, Supply, NEW p \in Instances, NEW to,
         pc' = [pc EXCEPT ![p] = to],
         queue' = queue, lastid' = lastid, msgid' = msgid,
         \/ to \in Ended
         \/ pc[p] \in {"idle", "probe"} /\ to \in {"create", "destroy"}
  PROVE  Supply'
<1>1. pc'[p] = to /\ \A r \in Instances \ {p} : pc'[r] = pc[r]
  BY DEF Types
<1>2. Ids'
  BY <1>1 DEF Supply, Ids, Ended
<1>3. ASSUME NEW t \in 1..2 PROVE Expecting(t)' \subseteq Expecting(t)
  BY <1>1 DEF Expecting, Waits, Stale, Ended
<1>4. ASSUME NEW t \in 1..2, NEW r \in Instances, pc'[r] \in Unsent(t)
      PROVE  pc[r] \in Unsent(t)
  BY <1>1, <1>4 DEF Unsent, Ended
<1> QED BY <1>2, <1>3, <1>4, NobodyAdded DEF Supply

(* A step after which the key's queue is new and empty, or gone: nobody has *)
(* anything to expect from it.                                              *)
LEMMA ClearStep ==
  ASSUME Ids', queue'.msgs = <<>>,
         \A r \in Instances : pc'[r] \in {"send2", "recv2", "recv1"} => msgid'[r] # queue'.id
  PROVE  Supply'
<1>1. ASSUME NEW t \in 1..2 PROVE Senders(t)' = {}
  <2>1. DOMAIN queue'.msgs = {}
    OBVIOUS
  <2> QED BY <2>1 DEF Senders, In
<1>2. ASSUME NEW t \in 1..2 PROVE Expecting(t)' = {}
  BY DEF Expecting, Waits, Stale
<1>3. SentOnce'
  BY <1>1 DEF SentOnce
<1>4. ASSUME NEW t \in 1..2 PROVE Cardinality(Expecting(t)') <= Cardinality(Senders(t)')
  <2>1. Cardinality(Expecting(t)') = 0 /\ Cardinality(Senders(t)') = 0
    BY <1>1, <1>2, FS_EmptySet
  <2> QED BY <2>1
<1> QED BY <1>3, <1>4 DEF Supply, Enough

(* p makes a queue.                                                         *)
LEMMA NewStep ==
  ASSUME Types, Supply, NEW p \in Instances, NEW to,
         pc' = [pc EXCEPT ![p] = to], NewQueue(p), to \in {"probe", "probed", "send1"}
  PROVE  Supply'
<1>1. pc'[p] = to /\ \A r \in Instances \ {p} : pc'[r] = pc[r]
  BY DEF Types
<1>2. /\ queue'.id = lastid + 1 /\ queue'.msgs = <<>> /\ lastid' = lastid + 1
      /\ msgid'[p] = lastid + 1 /\ \A r \in Instances \ {p} : msgid'[r] = msgid[r]
  BY DEF NewQueue, Types
<1>3. Ids'
  BY <1>1, <1>2 DEF Supply, Ids, Types
<1>4. ASSUME NEW r \in Instances, pc'[r] \in {"send2", "recv2", "recv1"}
      PROVE  msgid'[r] # queue'.id
  <2>1. r # p
    BY <1>1, <1>4
  <2>2. msgid'[r] <= lastid /\ msgid'[r] \in Nat /\ lastid \in Nat
    BY <1>2, <2>1 DEF Supply, Ids, Types
  <2> QED BY <1>2, <2>2
<1> QED BY <1>2, <1>3, <1>4, ClearStep

(* msgget at line 48.                                                       *)
LEMMA OpenStep ==
  ASSUME Types, Supply, NEW p \in Instances, pc[p] = "recreate",
         pc' = [pc EXCEPT ![p] = "send1"], OpenQueue(p), Exists
  PROVE  Supply'
<1>1. pc'[p] = "send1" /\ \A r \in Instances \ {p} : pc'[r] = pc[r]
  BY DEF Types
<1>2. /\ queue' = queue /\ lastid' = lastid
      /\ msgid'[p] = queue.id /\ \A r \in Instances \ {p} : msgid'[r] = msgid[r]
  BY DEF OpenQueue, Types
<1>3. Ids'
  BY <1>1, <1>2 DEF Supply, Ids, Exists
<1>4. ASSUME NEW t \in 1..2 PROVE Expecting(t)' \subseteq Expecting(t)
  BY <1>1, <1>2 DEF Expecting, Waits, Stale
<1>5. ASSUME NEW t \in 1..2, NEW r \in Instances, pc'[r] \in Unsent(t)
      PROVE  pc[r] \in Unsent(t)
  BY <1>1, <1>5 DEF Unsent
<1> QED BY <1>2, <1>3, <1>4, <1>5, NobodyAdded DEF Supply

LEMMA RemovalStep ==
  ASSUME Types, Supply, NEW p \in Instances, NEW from, NEW to,
         to \in {"recreate", "done"}, from \in {"destroy", "remove"},
         Rmid(p, from, to)
  PROVE  Supply'
<1>1. CASE Stale(p)
  <2>1. /\ pc' = [pc EXCEPT ![p] = "failed"] /\ queue' = queue
        /\ lastid' = lastid /\ msgid' = msgid
    BY <1>1 DEF Rmid, Goto
  <2> QED BY <2>1, QuietStep DEF Ended
<1>2. CASE ~Stale(p)
  <2>1. /\ pc' = [pc EXCEPT ![p] = to] /\ queue'.id = 0 /\ queue'.msgs = <<>>
        /\ lastid' = lastid /\ msgid' = msgid
    BY <1>2 DEF Rmid, Goto, AfterRemove, NoQueue
  <2>2. pc'[p] = to /\ \A r \in Instances \ {p} : pc'[r] = pc[r]
    BY <2>1 DEF Types
  <2>3. Ids'
    BY <2>1, <2>2 DEF Supply, Ids, Types
  <2>4. ASSUME NEW r \in Instances, pc'[r] \in {"send2", "recv2", "recv1"}
        PROVE  msgid'[r] # queue'.id
    BY <2>1, <2>2, <2>4 DEF Supply, Ids
  <2> QED BY <2>1, <2>3, <2>4, ClearStep
<1> QED BY <1>1, <1>2

(* msgsnd adds one message and one run that will ask for it.                *)
LEMMA SendSupplies ==
  ASSUME Types, Supply, NEW p \in Instances, SendFirst(p) \/ SendSecond(p)
  PROVE  Supply'
<1>0. lastid' = lastid /\ msgid' = msgid
  BY DEF SendFirst, SendSecond, Send
<1>1. CASE Stale(p)
  <2>1. pc' = [pc EXCEPT ![p] = "failed"] /\ queue' = queue
    BY <1>1 DEF SendFirst, SendSecond, Send, Goto
  <2> QED BY <1>0, <2>1, QuietStep DEF Ended
<1>2. CASE ~Stale(p)
  <2>1. PICK t \in 1..2 : \E to \in {"send2", "recv2"} :
          /\ pc' = [pc EXCEPT ![p] = to]
          /\ queue' = [queue EXCEPT !.msgs = Append(@, <<t, p>>)]
          /\ \/ pc[p] = "send1" /\ to = "send2" /\ t = 1
             \/ pc[p] = "send2" /\ to = "recv2" /\ t = 2
    BY <1>2 DEF SendFirst, SendSecond, Send, Goto, SecondType
  <2> DEFINE m == <<t, p>>
  <2>2. PICK to \in {"send2", "recv2"} :
          /\ pc' = [pc EXCEPT ![p] = to]
          /\ queue' = [queue EXCEPT !.msgs = Append(@, m)]
          /\ \/ pc[p] = "send1" /\ to = "send2" /\ t = 1
             \/ pc[p] = "send2" /\ to = "recv2" /\ t = 2
    BY <2>1
  <2>3. pc'[p] = to /\ \A r \in Instances \ {p} : pc'[r] = pc[r]
    BY <2>2 DEF Types
  <2>4. m \in AllMessages
    BY DEF AllMessages, Messages
  <2>5. /\ queue.msgs \in Seq(AllMessages)
        /\ queue'.id = queue.id /\ queue'.msgs = Append(queue.msgs, m)
    BY <2>2 DEF Types
  <2>6. Ids'
    BY <1>0, <2>2, <2>3, <2>5 DEF Supply, Ids
  <2>7. ASSUME NEW u \in 1..2
        PROVE  Senders(u)' = IF u = t THEN Senders(u) \cup {p} ELSE Senders(u)
    <3>1. \A r \in Instances : In(<<u, r>>, queue'.msgs) <=> <<u, r>> = m \/ In(<<u, r>>, queue.msgs)
      BY <2>4, <2>5, AppendAdds
    <3>2. \A r \in Instances : <<u, r>> = m <=> u = t /\ r = p
      OBVIOUS
    <3> QED BY <3>1, <3>2 DEF Senders
  <2>8. ASSUME NEW u \in 1..2
        PROVE  Expecting(u)' = IF u = t THEN Expecting(u) \cup {p} ELSE Expecting(u)
    <3>1. \A r \in Instances : Stale(r)' <=> Stale(r)
      BY <1>0, <2>5 DEF Stale
    <3>2. \A r \in Instances \ {p} : r \in Expecting(u)' <=> r \in Expecting(u)
      BY <2>3, <3>1 DEF Expecting, Waits
    <3>3. p \in Expecting(u)' <=> u = t \/ p \in Expecting(u)
      BY <1>2, <2>2, <2>3, <3>1 DEF Expecting, Waits
    <3> QED BY <3>2, <3>3 DEF Expecting
  <2>9. p \notin Senders(t)
    BY <2>2 DEF Supply, SentOnce, Unsent
  <2>10. SentOnce'
    <3> SUFFICES ASSUME NEW u \in 1..2, NEW r \in Senders(u)' PROVE pc'[r] \notin Unsent(u)
      BY DEF SentOnce, Unsent
    <3>1. CASE u = t /\ r = p
      BY <2>2, <2>3, <3>1 DEF Unsent
    <3>2. CASE ~(u = t /\ r = p)
      <4>1. r \in Senders(u) /\ r \in Instances
        BY <2>7, <3>2 DEF Senders
      <4>2. pc[r] \notin Unsent(u)
        BY <4>1 DEF Supply, SentOnce
      <4> QED BY <2>2, <2>3, <4>1, <4>2 DEF Unsent
    <3> QED BY <3>1, <3>2
  <2>11. ASSUME NEW u \in 1..2 PROVE Cardinality(Expecting(u)') <= Cardinality(Senders(u)')
    <3>1. Cardinality(Expecting(u)) <= Cardinality(Senders(u))
      BY DEF Supply, Enough
    <3>2. CASE u = t
      <4>1. Cardinality(Expecting(u) \cup {p}) <= Cardinality(Senders(u) \cup {p})
        BY <2>9, <3>1, <3>2, FiniteRuns, OneOfBoth
      <4> QED BY <2>7, <2>8, <3>2, <4>1
    <3>3. CASE u # t
      BY <2>7, <2>8, <3>1, <3>3
    <3> QED BY <3>2, <3>3
  <2> QED BY <2>6, <2>10, <2>11 DEF Supply, Enough
<1> QED BY <1>1, <1>2

(* msgrcv takes one message, and the run that took it expects it no longer. *)
LEMMA ReceiveSupplies ==
  ASSUME Types, Supply, NEW p \in Instances, NEW t \in 1..2, NEW from, NEW to,
         \/ from = "recv2" /\ t = 2 /\ to = "recv1"
         \/ from = "recv1" /\ t = 1 /\ to = "remove",
         Receive(p, from, t, to)
  PROVE  Supply'
<1>0. pc[p] = from /\ lastid' = lastid /\ msgid' = msgid
  BY DEF Receive
<1>1. CASE Stale(p)
  <2>1. pc' = [pc EXCEPT ![p] = "failed"] /\ queue' = queue
    BY <1>1 DEF Receive, Goto
  <2> QED BY <1>0, <2>1, QuietStep DEF Ended
<1>2. CASE ~Stale(p)
  <2>1. PICK k \in DOMAIN queue.msgs :
          /\ OfType(queue.msgs[k], t)
          /\ queue' = [queue EXCEPT !.msgs = RemoveAt(@, k)]
    BY <1>2 DEF Receive
  <2>2. pc' = [pc EXCEPT ![p] = to]
    BY <1>2 DEF Receive, Goto
  <2>3. pc'[p] = to /\ \A r \in Instances \ {p} : pc'[r] = pc[r]
    BY <2>2 DEF Types
  <2> DEFINE m == queue.msgs[k]
  <2>4. /\ queue.msgs \in Seq(AllMessages) /\ k \in 1..Len(queue.msgs) /\ m \in AllMessages
        /\ queue'.id = queue.id /\ queue'.msgs = RemoveAt(queue.msgs, k)
    BY <2>1 DEF Types
  <2>5. PICK q \in Instances : m = <<t, q>>
    BY <2>1, <2>4 DEF AllMessages, Messages, OfType
  <2>6. Ids'
    BY <1>0, <2>3, <2>4 DEF Supply, Ids
  <2> HIDE DEF m
  <2>7. \A x : /\ In(x, queue'.msgs) => In(x, queue.msgs)
               /\ In(x, queue.msgs) /\ x # m => In(x, queue'.msgs)
    BY <2>4, RemoveKeeps DEF m
  <2>8. ASSUME NEW u \in 1..2
        PROVE  /\ Senders(u)' \subseteq Senders(u)
               /\ (IF u = t THEN Senders(u) \ {q} ELSE Senders(u)) \subseteq Senders(u)'
    <3>1. \A r \in Instances : <<u, r>> = m <=> u = t /\ r = q
      BY <2>5
    <3> QED BY <2>7, <3>1 DEF Senders
  <2>9. ASSUME NEW u \in 1..2
        PROVE  Expecting(u)' \subseteq IF u = t THEN Expecting(u) \ {p} ELSE Expecting(u)
    <3>1. \A r \in Instances : Stale(r)' <=> Stale(r)
      BY <1>0, <2>4 DEF Stale
    <3>2. \A r \in Instances \ {p} : r \in Expecting(u)' <=> r \in Expecting(u)
      BY <2>3, <3>1 DEF Expecting, Waits
    <3>3. p \in Expecting(u)' => u # t /\ p \in Expecting(u)
      BY <1>0, <1>2, <2>3, <3>1 DEF Expecting, Waits
    <3> QED BY <3>2, <3>3 DEF Expecting
  <2>10. p \in Expecting(t)
    BY <1>0, <1>2 DEF Expecting, Waits
  <2>11. SentOnce'
    <3> SUFFICES ASSUME NEW u \in 1..2, NEW r \in Senders(u)' PROVE pc'[r] \notin Unsent(u)
      BY DEF SentOnce, Unsent
    <3>1. r \in Senders(u) /\ r \in Instances
      BY <2>8 DEF Senders
    <3>2. pc[r] \notin Unsent(u)
      BY <3>1 DEF Supply, SentOnce
    <3> QED BY <2>3, <3>1, <3>2 DEF Unsent
  <2>12. ASSUME NEW u \in 1..2 PROVE Cardinality(Expecting(u)') <= Cardinality(Senders(u)')
    <3>1. /\ Cardinality(Expecting(u)) <= Cardinality(Senders(u))
          /\ IsFiniteSet(Expecting(u)) /\ IsFiniteSet(Senders(u))
      BY FiniteRuns DEF Supply, Enough
    <3>2. IsFiniteSet(Senders(u)')
      BY <2>8, <3>1, FS_Subset
    <3>3. CASE u = t
      <4>1. Cardinality(Expecting(u) \ {p}) <= Cardinality(Senders(u) \ {q})
        BY <2>10, <3>1, <3>3, OneOfBoth
      <4>2. IsFiniteSet(Expecting(u) \ {p})
        BY <3>1, FS_RemoveElement
      <4>3. Expecting(u)' \subseteq Expecting(u) \ {p} /\ Senders(u) \ {q} \subseteq Senders(u)'
        BY <2>8, <2>9, <3>3
      <4> QED BY <3>2, <4>1, <4>2, <4>3, FewerAsk
    <3>4. CASE u # t
      <4>1. Expecting(u)' \subseteq Expecting(u) /\ Senders(u) \subseteq Senders(u)'
        BY <2>8, <2>9, <3>4
      <4> QED BY <3>1, <3>2, <4>1, FewerAsk
    <3> QED BY <3>3, <3>4
  <2> QED BY <2>6, <2>11, <2>12 DEF Supply, Enough
<1> QED BY <1>1, <1>2

LEMMA SupplyStep ==
  ASSUME QueueInv, Supply, [Next]_vars
  PROVE  Supply'
<1>0. Types
  BY DEF QueueInv
<1>1. ASSUME NEW p \in Instances, Start(p) \/ NoSpace(p) \/ Kill(p) PROVE Supply'
  <2>1. PICK to \in {"create", "nospace", "killed"} :
          /\ pc' = [pc EXCEPT ![p] = to]
          /\ queue' = queue /\ lastid' = lastid /\ msgid' = msgid
          /\ to = "create" => pc[p] = "idle"
    BY <1>1 DEF Start, NoSpace, Kill, Goto
  <2> QED BY <1>0, <2>1, QuietStep DEF Ended
<1>2. ASSUME NEW p \in Instances, Create(p) \/ Probe(p) PROVE Supply'
  <2>1. CASE Exists
    <3>1. PICK to \in {"failed", "destroy"} :
            /\ pc' = [pc EXCEPT ![p] = to]
            /\ queue' = queue /\ lastid' = lastid /\ msgid' = msgid
            /\ to = "destroy" => pc[p] = "probe"
      BY <1>2, <2>1 DEF Create, Probe, Goto
    <3> QED BY <1>0, <3>1, QuietStep DEF Ended
  <2>2. CASE ~Exists
    <3>1. PICK to \in {"probe", "probed"} : pc' = [pc EXCEPT ![p] = to] /\ NewQueue(p)
      BY <1>2, <2>2 DEF Create, Probe, Goto
    <3> QED BY <1>0, <3>1, NewStep
  <2> QED BY <2>1, <2>2
<1>3. ASSUME NEW p \in Instances, Recreate(p) PROVE Supply'
  <2>1. pc[p] = "recreate" /\ pc' = [pc EXCEPT ![p] = "send1"]
    BY <1>3 DEF Recreate, Goto
  <2>2. CASE Exists
    BY <1>0, <1>3, <2>1, <2>2, OpenStep DEF Recreate
  <2>3. CASE ~Exists
    BY <1>0, <1>3, <2>1, <2>3, NewStep DEF Recreate
  <2> QED BY <2>2, <2>3
<1>4. ASSUME NEW p \in Instances,
             Rmid(p, "destroy", "recreate") \/ Rmid(p, "remove", "done")
      PROVE  Supply'
  BY <1>0, <1>4, RemovalStep
<1>5. ASSUME NEW p \in Instances,
             Receive(p, "recv2", 2, "recv1") \/ Receive(p, "recv1", 1, "remove")
      PROVE  Supply'
  <2>1. CASE Receive(p, "recv2", 2, "recv1")
    BY <1>0, <2>1, ReceiveSupplies
  <2>2. CASE Receive(p, "recv1", 1, "remove")
    BY <1>0, <2>2, ReceiveSupplies
  <2> QED BY <1>5, <2>1, <2>2
<1>6. CASE UNCHANGED vars
  <2>1. queue' = queue /\ lastid' = lastid /\ pc' = pc /\ msgid' = msgid
    BY <1>6 DEF vars
  <2>2. Ids'
    BY <2>1 DEF Supply, Ids
  <2>3. \A t \in 1..2 : Expecting(t)' = Expecting(t)
    BY <2>1 DEF Expecting, Stale, Waits
  <2>4. SentOnce' /\ Enough'
    BY <2>1, <2>3, NobodyAdded
  <2> QED BY <2>2, <2>4 DEF Supply
<1> QED BY <1>0, <1>1, <1>2, <1>3, <1>4, <1>5, <1>6, SendSupplies DEF Next, Run

(* There are as many messages of each type in the queue as runs that will   *)
(* ask it for one, for every number of runs, however they share a queue.    *)
THEOREM SupplyInvariant == Spec => []Supply
<1>1. Init => Supply
  <2> SUFFICES ASSUME Init PROVE Supply
    OBVIOUS
  <2>1. /\ queue.id = 0 /\ queue.msgs = <<>> /\ lastid = 0
        /\ \A p \in Instances : msgid[p] = 0 /\ pc[p] = "idle"
    BY DEF Init, NoQueue
  <2>2. Ids
    BY <2>1 DEF Ids
  <2>3. ASSUME NEW t \in 1..2 PROVE Senders(t) = {} /\ Expecting(t) = {}
    <3>1. DOMAIN queue.msgs = {}
      BY <2>1
    <3>2. "idle" \notin Waits(t)
      BY DEF Waits
    <3> QED BY <2>1, <3>1, <3>2 DEF Senders, In, Expecting
  <2>4. SentOnce
    BY <2>3 DEF SentOnce
  <2>5. ASSUME NEW t \in 1..2 PROVE Cardinality(Expecting(t)) <= Cardinality(Senders(t))
    <3>1. Cardinality(Expecting(t)) = 0 /\ Cardinality(Senders(t)) = 0
      BY <2>3, FS_EmptySet
    <3> QED BY <3>1
  <2> QED BY <2>2, <2>4, <2>5 DEF Supply, Enough
<1> QED BY <1>1, SupplyStep, QueueInvariant, PTL DEF Spec

(* A run that expects a message of type t finds one, and so a first one.    *)
LEMMA SomeMessage ==
  ASSUME Types, Supply, NEW t \in 1..2, NEW p \in Expecting(t)
  PROVE  Receivable(t)
<1>1. Cardinality(Expecting(t)) \in Nat /\ Cardinality(Expecting(t)) # 0
  BY FiniteRuns, FS_CardinalityType, FS_EmptySet
<1>2. Cardinality(Senders(t)) # 0
  BY <1>1 DEF Supply, Enough
<1>3. Senders(t) # {}
  BY <1>2, FS_EmptySet
<1> DEFINE K == {k \in DOMAIN queue.msgs : OfType(queue.msgs[k], t)}
<1>4. K # {} /\ K \in SUBSET Nat /\ DOMAIN queue.msgs = 1..Len(queue.msgs)
      /\ Len(queue.msgs) \in Nat
  <2>1. PICK r \in Instances : In(<<t, r>>, queue.msgs)
    BY <1>3 DEF Senders
  <2>2. PICK k \in DOMAIN queue.msgs : queue.msgs[k] = <<t, r>>
    BY <2>1 DEF In
  <2>3. OfType(queue.msgs[k], t)
    BY <2>2 DEF OfType
  <2>4. DOMAIN queue.msgs = 1..Len(queue.msgs) /\ Len(queue.msgs) \in Nat
    BY DEF Types
  <2> QED BY <2>3, <2>4
<1>5. PICK k \in K : \A j \in K : k <= j
  <2> HIDE DEF K
  <2> QED BY <1>4, Least
<1>6. ASSUME NEW j \in 1..(k - 1) PROVE ~OfType(queue.msgs[j], t)
  <2>1. j \in DOMAIN queue.msgs /\ ~(k <= j)
    BY <1>4
  <2> QED BY <1>5, <2>1
<1> QED BY <1>5, <1>6 DEF Receivable

(* No run of msgtest.c is left waiting in msgrcv: as long as its queue      *)
(* exists there is a message of the type it asks for, although several runs *)
(* may share the queue, take each other's messages and be killed, and once  *)
(* it is removed msgrcv fails.  This is the safety half of InstancesEnd.    *)
THEOREM NeverWaitsInMsgrcv == Spec => []MsgrcvReturns
<1>1. QueueInv /\ Supply => MsgrcvReturns
  <2> SUFFICES ASSUME QueueInv, Supply, NEW p \in Instances, ~Stale(p)
               PROVE  /\ pc[p] = "recv2" => Receivable(2)
                      /\ pc[p] = "recv1" => Receivable(1)
    BY DEF MsgrcvReturns
  <2>1. pc[p] = "recv2" => p \in Expecting(2)
    BY DEF Expecting, Waits
  <2>2. pc[p] = "recv1" => p \in Expecting(1)
    BY DEF Expecting, Waits
  <2> QED BY <2>1, <2>2, SomeMessage DEF QueueInv
<1> QED BY <1>1, QueueInvariant, SupplyInvariant, PTL
=============================================================================
