--------------------------- MODULE ControlProofs ---------------------------
(***************************************************************************)
(* Proofs about controlthreads.c: the parent and the helper never run their *)
(* threads together, pipewriter is never killed by SIGPIPE, and pipereader *)
(* reports in order and leaves nothing unread, for any number of messages  *)
(* that readbuf holds.                                                     *)
(***************************************************************************)
EXTENDS ControlThreads, TLAPS

(* Where pipewriter and pipereader come in the creation order.              *)
LEMMA OrderFacts ==
  /\ Len(Order) = 7
  /\ \A k \in 1..7 : /\ Order[k] \in Threads
                     /\ Order[k] = "writer" <=> k = 5
                     /\ Order[k] = "reader" <=> k = 6
<1>1. Len(Order) = 7
  BY DEF Order
<1>2. \A k \in 1..7 : Order[k] \in Threads /\ (Order[k] = "writer" <=> k = 5)
                        /\ (Order[k] = "reader" <=> k = 6)
  <2> SUFFICES ASSUME NEW k \in 1..7
               PROVE  /\ Order[k] \in Threads
                      /\ Order[k] = "writer" <=> k = 5
                      /\ Order[k] = "reader" <=> k = 6
    OBVIOUS
  <2>1. k = 1 \/ k = 2 \/ k = 3 \/ k = 4 \/ k = 5 \/ k = 6 \/ k = 7
    OBVIOUS
  <2> QED BY <2>1 DEF Order, Threads
<1> QED BY <1>1, <1>2

(* The initial states satisfy the invariant.                                *)
LEMMA Initial == Init => IInv
<1> SUFFICES ASSUME Init PROVE IInv
  OBVIOUS
<1> USE MessagesAssumption, MaxCharsAssumption
<1>1. StdinType /\ FlagType
  <2>1. StdinType
    BY DEF Init, StdinType
  <2>2. FlagType
    BY DEF Init, FlagType
  <2> QED BY <2>1, <2>2
<1>2. ControlType
  <2>1. pc \in [Procs -> PC]
    BY DEF Init, PC
  <2>2. th \in [Procs -> [Threads -> TS]]
    BY DEF Init, TS
  <2> QED BY <2>1, <2>2, OrderFacts DEF Init, ControlType, DPC
<1>3. PipeType /\ ReportType
  <2>1. PipeType
    BY DEF Init, PipeType
  <2>2. ReportType
    BY DEF Init, ReportType
  <2> QED BY <2>1, <2>2
<1>4. HelperFirst
  BY DEF Init, HelperFirst, Gone, Procs
<1>5. FifoHolds
  BY DEF Init, FifoHolds, InFifo, Procs
<1>6. ASSUME NEW q \in Procs PROVE ThreadsMade(q)
  BY DEF Init, ThreadsMade, Early, Procs, Threads
<1>7. ASSUME NEW q \in Procs PROVE Transfer(q)
  BY DEF Init, Transfer, Connected, Procs, Threads
<1>8. ASSUME NEW q \in Procs PROVE Reported(q)
  BY DEF Init, Reported, Rising
<1> QED BY <1>1, <1>2, <1>3, <1>4, <1>5, <1>6, <1>7, <1>8 DEF IInv, TypeOK

(* Every step preserves the types of the input counters.                    *)
LEMMA StdinStep == StdinType /\ [Next]_vars => StdinType'
<1> SUFFICES ASSUME StdinType, [Next]_vars PROVE StdinType'
  OBVIOUS
<1> USE MaxCharsAssumption DEF StdinType
<1>1. CASE Type
  BY <1>1 DEF Type
<1>2. CASE DemonRead
  BY <1>2 DEF DemonRead
<1>3. CASE HelperRead
  BY <1>3 DEF HelperRead
<1>4. ASSUME NEW q \in Procs, KeyboardThread(q) PROVE StdinType'
  BY <1>4 DEF KeyboardThread
<1>5. CASE UNCHANGED <<avail, typed>>
  BY <1>5
<1>6. CASE CloseStdin
  BY <1>6 DEF CloseStdin
<1>7. CASE Startup
  BY <1>7 DEF Startup, MakeFifo, ForkDemon, ForkHelper, WaitHelper, WaitAny, stdin
<1>8. ASSUME NEW q \in Procs, MainThread(q) \/ CreateThreadFails(q) PROVE StdinType'
  BY <1>8 DEF MainThread, CreateThread, CreateThreadFails, CreatedAll, Join, JoinedAll,
              WaitDemon, Unlink, stdin
<1>9. ASSUME NEW q \in Procs, Thread(q) PROVE StdinType'
  BY <1>4, <1>9 DEF Thread, OpenFifo, OpenToWrite, OpenToRead, Rendezvous, WriterWrite, WriterClose, ReaderRead,
                    ReaderClose, stdin
<1> QED BY <1>1, <1>2, <1>3, <1>5, <1>6, <1>7, <1>8, <1>9 DEF Next, vars

(* Every step preserves the types of the two flags.                         *)
LEMMA FlagStep == FlagType /\ [Next]_vars => FlagType'
<1> SUFFICES ASSUME FlagType, [Next]_vars PROVE FlagType'
  OBVIOUS
<1> USE DEF FlagType
<1>1. CASE UNCHANGED vars
  BY <1>1 DEF vars
<1>2. CASE Type \/ CloseStdin \/ DemonRead \/ HelperRead
  BY <1>2 DEF Type, CloseStdin, DemonRead, HelperRead
<1>3. CASE Startup
  BY <1>3 DEF Startup, MakeFifo, AfterMkfifo, ForkDemon, ForkHelper, WaitHelper, WaitAny, stdin
<1>4. ASSUME NEW q \in Procs, MainThread(q) \/ CreateThreadFails(q) PROVE FlagType'
  BY <1>4 DEF MainThread, CreateThread, CreateThreadFails, CreatedAll, Join, JoinedAll,
              WaitDemon, Unlink, stdin
<1>5. ASSUME NEW q \in Procs, Thread(q) PROVE FlagType'
  <2>1. CASE OpenToWrite(q) \/ OpenToRead(q)
    <3>1. PICK t \in Ends : OpenFifo(q, t)
      BY <2>1 DEF OpenToWrite, OpenToRead, Ends
    <3>2. refused' \subseteq refused \cup {<<q, t>>} /\ UNCHANGED <<eof, fifo>>
      BY <3>1 DEF OpenFifo, stdin
    <3> QED BY <3>2
  <2>2. CASE ~(OpenToWrite(q) \/ OpenToRead(q))
    BY <1>5, <2>2 DEF Thread, KeyboardThread, Rendezvous, WriterWrite, WriterClose,
                      ReaderRead, ReaderClose, stdin
  <2> QED BY <2>1, <2>2
<1> QED BY <1>1, <1>2, <1>3, <1>4, <1>5 DEF Next

(* Every step preserves the types of the control state.                     *)
LEMMA ControlStep == ControlType /\ [Next]_vars => ControlType'
<1> SUFFICES ASSUME ControlType, [Next]_vars PROVE ControlType'
  OBVIOUS
<1> USE OrderFacts DEF ControlType, Goto
<1>1. CASE UNCHANGED vars
  BY <1>1 DEF vars
<1>2. CASE Type \/ CloseStdin \/ DemonRead \/ HelperRead
  BY <1>2 DEF Type, CloseStdin, DemonRead, HelperRead, DPC, PC
<1>3. CASE Startup
  BY <1>3 DEF Startup, MakeFifo, ForkDemon, ForkHelper, WaitHelper, WaitAny, DPC, PC
<1>4. ASSUME NEW q \in Procs, MainThread(q) \/ CreateThreadFails(q) PROVE ControlType'
  <2>1. CASE CreateThread(q)
    BY <2>1 DEF CreateThread, TS
  <2>2. CASE CreateThreadFails(q)
    BY <2>2 DEF CreateThreadFails, PC
  <2>3. CASE CreatedAll(q)
    BY <2>3 DEF CreatedAll, PC
  <2>4. CASE Join(q)
    <3>1. UNCHANGED <<dpc, th>> /\ i[q] < 7
      BY <2>4 DEF Join
    <3>2. \/ i' = [i EXCEPT ![q] = @ + 1] /\ UNCHANGED pc
          \/ pc' = [pc EXCEPT ![q] = "crashed"] /\ UNCHANGED i
      BY <2>4 DEF Join
    <3>3. CASE i' = [i EXCEPT ![q] = @ + 1] /\ UNCHANGED pc
      <4>1. i' \in [Procs -> 0..Len(Order)]
        BY <3>1, <3>3
      <4> QED BY <3>1, <3>3, <4>1
    <3>4. CASE pc' = [pc EXCEPT ![q] = "crashed"] /\ UNCHANGED i
      <4>1. pc' \in [Procs -> PC]
        BY <3>4 DEF PC
      <4> QED BY <3>1, <3>4, <4>1
    <3> QED BY <3>2, <3>3, <3>4
  <2>5. CASE JoinedAll(q)
    BY <2>5 DEF JoinedAll, PC
  <2>6. CASE WaitDemon(q) \/ Unlink(q)
    BY <2>6 DEF WaitDemon, Unlink, DPC, PC
  <2> QED BY <1>4, <2>1, <2>2, <2>3, <2>4, <2>5, <2>6 DEF MainThread
<1>5. ASSUME NEW q \in Procs, Thread(q) PROVE ControlType'
  <2> USE DEF Set, TS
  <2>1. CASE KeyboardThread(q)
    BY <2>1 DEF KeyboardThread
  <2>2. CASE OpenToWrite(q) \/ OpenToRead(q)
    BY <2>2 DEF OpenFifo, OpenToWrite, OpenToRead
  <2>3. CASE Rendezvous(q)
    BY <2>3 DEF Rendezvous
  <2>4. CASE WriterWrite(q) \/ ReaderRead(q)
    BY <2>4 DEF WriterWrite, ReaderRead
  <2>5. CASE WriterClose(q) \/ ReaderClose(q)
    BY <2>5 DEF WriterClose, ReaderClose
  <2> QED BY <1>5, <2>1, <2>2, <2>3, <2>4, <2>5 DEF Thread
<1> QED BY <1>1, <1>2, <1>3, <1>4, <1>5 DEF Next

(* Only one process at a time runs its threads.                             *)
LEMMA OneActive ==
  ASSUME HelperFirst
  PROVE  ThreadsExclusive
BY DEF HelperFirst, ThreadsExclusive, Gone, Procs

(* While a process runs its threads, the FIFO holds its messages only.      *)
LEMMA FifoIsMine ==
  ASSUME HelperFirst, FifoHolds, PipeType,
         NEW q \in Procs, pc[q] \in {"create", "join"}
  PROVE  /\ buf = sent[q] - received[q]
         /\ \A r \in Procs \ {q} : InFifo(r) = 0 /\ pc[r] \notin {"create", "join"}
<1>1. ASSUME NEW r \in Procs \ {q} PROVE InFifo(r) = 0 /\ pc[r] \notin {"create", "join"}
  BY OneActive DEF ThreadsExclusive, FifoHolds, Procs
<1>2. InFifo(q) = sent[q] - received[q]
  BY DEF InFifo
<1>3. InFifo(q) \in Int
  BY <1>2 DEF PipeType
<1>4. buf = InFifo(q)
  <2>1. CASE q = "P"
    BY <2>1, <1>1, <1>3 DEF FifoHolds, Procs
  <2>2. CASE q = "H"
    BY <2>2, <1>1, <1>3 DEF FifoHolds, Procs
  <2> QED BY <2>1, <2>2 DEF Procs
<1> QED BY <1>1, <1>2, <1>4

(* Every step preserves the types of the FIFO and the counters: the FIFO is *)
(* never asked to hold more than Messages.                                  *)
LEMMA PipeStep == IInv /\ [Next]_vars => PipeType'
<1> SUFFICES ASSUME IInv, [Next]_vars PROVE PipeType'
  OBVIOUS
<1> USE MessagesAssumption DEF PipeType
<1>0. PipeType
  BY DEF IInv, TypeOK
<1>1. CASE UNCHANGED pipe
  BY <1>0, <1>1 DEF pipe
<1>2. ASSUME NEW q \in Procs, CreateThreadFails(q) PROVE PipeType'
  BY <1>0, <1>2 DEF CreateThreadFails
<1>3. ASSUME NEW q \in Procs, WriterWrite(q) PROVE PipeType'
  <2>1. buf = sent[q] - received[q]
    BY <1>3, FifoIsMine DEF IInv, TypeOK, WriterWrite, Running
  <2> QED BY <1>0, <1>3, <2>1 DEF WriterWrite
<1>4. ASSUME NEW q \in Procs, ReaderRead(q) PROVE PipeType'
  <2>1. buf = sent[q] - received[q]
    BY <1>4, FifoIsMine DEF IInv, TypeOK, ReaderRead, Running
  <2> QED BY <1>0, <1>4, <2>1 DEF ReaderRead
<1>5. CASE UNCHANGED vars
  BY <1>1, <1>5 DEF vars, pipe
<1>6. CASE Type \/ CloseStdin \/ DemonRead \/ HelperRead \/ Startup
  BY <1>1, <1>6 DEF Type, CloseStdin, DemonRead, HelperRead, Startup, MakeFifo, ForkDemon,
                    ForkHelper, WaitHelper, WaitAny, pipe
<1>7. ASSUME NEW q \in Procs, MainThread(q) PROVE PipeType'
  BY <1>1, <1>7 DEF MainThread, CreateThread, CreatedAll, Join, JoinedAll, WaitDemon, Unlink
<1>8. ASSUME NEW q \in Procs, Thread(q) PROVE PipeType'
  BY <1>1, <1>3, <1>4, <1>8 DEF Thread, KeyboardThread, OpenFifo, OpenToWrite, OpenToRead, Rendezvous, WriterClose,
                                ReaderClose
<1> QED BY <1>2, <1>5, <1>6, <1>7, <1>8 DEF Next

(* Every step preserves the order of helper and parent.                     *)
LEMMA HelperFirstStep == ControlType /\ HelperFirst /\ [Next]_vars => HelperFirst'
<1> SUFFICES ASSUME ControlType, HelperFirst, [Next]_vars PROVE HelperFirst'
  OBVIOUS
<1> USE DEF ControlType, HelperFirst, Gone, Goto, Procs
<1>1. CASE UNCHANGED pc
  BY <1>1
<1>2. CASE UNCHANGED vars
  BY <1>1, <1>2 DEF vars
<1>3. CASE Type \/ CloseStdin \/ DemonRead
  BY <1>1, <1>3 DEF Type, CloseStdin, DemonRead
<1>4. CASE HelperRead
  BY <1>4 DEF HelperRead
<1>5. CASE Startup
  BY <1>5 DEF Startup, MakeFifo, ForkDemon, ForkHelper, WaitHelper, HelperGone, WaitAny
<1>6. ASSUME NEW q \in Procs, MainThread(q) \/ CreateThreadFails(q) PROVE HelperFirst'
  <2>1. CASE CreateThread(q)
    BY <1>1, <2>1 DEF CreateThread
  <2>2. CASE CreateThreadFails(q) \/ CreatedAll(q)
    BY <2>2 DEF CreateThreadFails, CreatedAll
  <2>3. CASE Join(q)
    <3>1. UNCHANGED pc \/ (pc[q] = "join" /\ pc' = [pc EXCEPT ![q] = "crashed"])
      BY <2>3 DEF Join
    <3> QED BY <3>1
  <2>4. CASE JoinedAll(q) \/ WaitDemon(q) \/ Unlink(q)
    BY <2>4 DEF JoinedAll, WaitDemon, Unlink
  <2> QED BY <1>6, <2>1, <2>2, <2>3, <2>4 DEF MainThread
<1>7. ASSUME NEW q \in Procs, Thread(q) PROVE HelperFirst'
  BY <1>1, <1>7 DEF Thread, KeyboardThread, OpenFifo, OpenToWrite, OpenToRead, Rendezvous, WriterWrite, WriterClose,
                    ReaderRead, ReaderClose
<1> QED BY <1>2, <1>3, <1>4, <1>5, <1>6, <1>7 DEF Next

(* Every step preserves where each process's threads stand.                 *)
LEMMA ThreadsMadeStep ==
  ASSUME ControlType, HelperFirst, \A q \in Procs : ThreadsMade(q), [Next]_vars,
         NEW r \in Procs
  PROVE  ThreadsMade(r)'
<1> USE OrderFacts DEF ControlType, ThreadsMade, Early, Goto
<1>1. CASE UNCHANGED <<pc, th, i>>
  BY <1>1
<1>2. CASE UNCHANGED vars
  BY <1>1, <1>2 DEF vars
<1>3. CASE Type \/ CloseStdin \/ DemonRead
  BY <1>1, <1>3 DEF Type, CloseStdin, DemonRead
<1>4. CASE HelperRead
  BY <1>4 DEF HelperRead, Procs, Threads
<1>5. CASE Startup
  <2>1. CASE MakeFifo \/ ForkDemon
    BY <2>1 DEF MakeFifo, ForkDemon, Procs, Threads
  <2>2. CASE ForkHelper
    BY <2>2 DEF ForkHelper, HelperFirst, Procs
  <2>3. CASE WaitHelper \/ WaitAny
    BY <2>3 DEF WaitHelper, WaitAny, Procs, Threads
  <2> QED BY <1>5, <2>1, <2>2, <2>3 DEF Startup
<1>6. ASSUME NEW q \in Procs, MainThread(q) \/ CreateThreadFails(q) PROVE ThreadsMade(r)'
  <2>1. CASE CreateThread(q)
    <3>1. UNCHANGED pc /\ pc[q] = "create" /\ i[q] + 1 \in 1..7
      BY <2>1 DEF CreateThread
    <3>2. \A t \in Threads : th'[q][t] = IF t = Order[i[q] + 1] THEN "run" ELSE th[q][t]
      BY <2>1 DEF CreateThread
    <3>3. r # q => th'[r] = th[r] /\ i'[r] = i[r]
      BY <2>1 DEF CreateThread
    <3>4. i'[q] = i[q] + 1
      BY <2>1 DEF CreateThread
    <3>5. CASE r = q
      <4>1. i'[q] < 5 => th'[q]["writer"] = "none"
        BY <3>1, <3>2, <3>4 DEF Threads
      <4>2. i'[q] < 6 => th'[q]["reader"] = "none"
        BY <3>1, <3>2, <3>4 DEF Threads
      <4> QED BY <3>1, <3>2, <3>5, <4>1, <4>2
    <3> QED BY <3>1, <3>3, <3>5
  <2>2. CASE CreateThreadFails(q)
    BY <2>2 DEF CreateThreadFails
  <2>3. CASE CreatedAll(q)
    BY <2>3 DEF CreatedAll
  <2>4. CASE Join(q)
    <3>1. UNCHANGED th /\ i[q] + 1 \in 1..7 /\ pc[q] = "join"
      BY <2>4 DEF Join
    <3>2. CASE pc' = [pc EXCEPT ![q] = "crashed"] /\ UNCHANGED i
      BY <3>1, <3>2
    <3>3. CASE /\ i' = [i EXCEPT ![q] = @ + 1] /\ UNCHANGED pc
               /\ \A t \in Ends : Order[i[q] + 1] = t => th[q][t] = "exited"
      <4>1. /\ i[q] = 4 => th[q]["writer"] = "exited"
            /\ i[q] = 5 => th[q]["reader"] = "exited"
        BY <3>1, <3>3 DEF Ends
      <4> QED BY <3>1, <3>3, <4>1
    <3> QED BY <2>4, <3>2, <3>3 DEF Join, Plain, PrintThread, FakeThreads, IoctlThread, Ends
  <2>5. CASE JoinedAll(q) \/ WaitDemon(q) \/ Unlink(q)
    BY <2>5 DEF JoinedAll, WaitDemon, Unlink
  <2> QED BY <1>6, <2>1, <2>2, <2>3, <2>4, <2>5 DEF MainThread
<1>7. ASSUME NEW q \in Procs, Thread(q) PROVE ThreadsMade(r)'
  <2> USE DEF Running, Set
  <2>1. CASE KeyboardThread(q)
    BY <2>1 DEF KeyboardThread, Threads
  <2>2. CASE OpenToWrite(q) \/ OpenToRead(q)
    BY <2>2 DEF OpenFifo, OpenToWrite, OpenToRead, Threads
  <2>3. CASE Rendezvous(q)
    BY <2>3 DEF Rendezvous, Threads
  <2>4. CASE WriterWrite(q) \/ ReaderRead(q)
    BY <1>1, <2>4 DEF WriterWrite, ReaderRead
  <2>5. CASE WriterClose(q) \/ ReaderClose(q)
    BY <2>5 DEF WriterClose, ReaderClose, Threads
  <2> QED BY <1>7, <2>1, <2>2, <2>3, <2>4, <2>5 DEF Thread
<1> QED BY <1>2, <1>3, <1>4, <1>5, <1>6, <1>7 DEF Next

(* Every step preserves what the writer and the reader know of each other.  *)
LEMMA TransferStep ==
  ASSUME IInv, [Next]_vars, NEW r \in Procs
  PROVE  Transfer(r)'
<1>0. ControlType /\ PipeType /\ Transfer(r) /\ ThreadsMade(r)
  BY DEF IInv, TypeOK
<1> USE MessagesAssumption, OrderFacts DEF ControlType, PipeType, Transfer, Connected
<1>1. CASE UNCHANGED <<th, sent, reads, received>>
  BY <1>0, <1>1
<1>2. CASE UNCHANGED vars
  BY <1>1, <1>2 DEF vars
<1>3. CASE Type \/ CloseStdin \/ DemonRead \/ HelperRead \/ Startup
  BY <1>1, <1>3 DEF Type, CloseStdin, DemonRead, HelperRead, Startup, MakeFifo, ForkDemon,
                    ForkHelper, WaitHelper, WaitAny, pipe
<1>4. ASSUME NEW q \in Procs, MainThread(q) \/ CreateThreadFails(q) PROVE Transfer(r)'
  <2>1. CASE CreateThread(q)
    <3>1. UNCHANGED <<sent, reads, received>> /\ pc[q] = "create" /\ i[q] + 1 \in 1..7
      BY <1>0, <2>1 DEF CreateThread, pipe
    <3>2. \A t \in Threads : th'[q][t] = IF t = Order[i[q] + 1] THEN "run" ELSE th[q][t]
      BY <1>0, <2>1 DEF CreateThread
    <3>3. r # q => th'[r] = th[r]
      BY <1>0, <2>1 DEF CreateThread
    <3>4. CASE r = q
      <4>1. th'[q]["writer"] = th[q]["writer"]
              \/ (th[q]["writer"] = "none" /\ th'[q]["writer"] = "run")
        BY <1>0, <3>1, <3>2, <3>4 DEF ThreadsMade, Threads
      <4>2. th'[q]["reader"] = th[q]["reader"]
              \/ (th[q]["reader"] = "none" /\ th'[q]["reader"] = "run")
        BY <1>0, <3>1, <3>2, <3>4 DEF ThreadsMade, Threads
      <4> QED BY <1>0, <3>1, <3>4, <4>1, <4>2
    <3> QED BY <1>0, <3>1, <3>3, <3>4
  <2>2. CASE CreateThreadFails(q) \/ CreatedAll(q) \/ Join(q) \/ JoinedAll(q)
               \/ WaitDemon(q) \/ Unlink(q)
    BY <1>1, <2>2 DEF CreateThreadFails, CreatedAll, Join, JoinedAll, WaitDemon, Unlink, pipe
  <2> QED BY <1>4, <2>1, <2>2 DEF MainThread
<1>5. ASSUME NEW q \in Procs, Thread(q) PROVE Transfer(r)'
  <2> USE DEF Running, Set
  <2>0. pc[q] \in {"create", "join"} =>
          buf = sent[q] - received[q] /\ buf \in 0..Messages
    BY FifoIsMine, <1>0 DEF IInv
  <2>1. CASE KeyboardThread(q)
    BY <1>0, <2>1 DEF KeyboardThread, pipe, Threads
  <2>2. CASE OpenToWrite(q) \/ OpenToRead(q)
    <3>1. PICK t \in Ends : OpenFifo(q, t)
      BY <2>2 DEF OpenToWrite, OpenToRead, Ends
    <3>2. /\ UNCHANGED <<sent, reads, received>> /\ th[q][t] = "run" /\ t \in Threads
          /\ \E s \in {"opening", "null"} : th' = [th EXCEPT ![q][t] = s]
      BY <3>1 DEF OpenFifo, pipe, Ends, Threads
    <3> QED BY <1>0, <3>2 DEF Threads
  <2>3. CASE Rendezvous(q)
    BY <1>0, <2>3 DEF Rendezvous, pipe, Threads
  <2>4. CASE WriterWrite(q)
    BY <1>0, <2>4 DEF WriterWrite
  <2>5. CASE WriterClose(q)
    BY <1>0, <2>5 DEF WriterClose, pipe, Threads
  <2>6. CASE ReaderRead(q)
    BY <1>0, <2>0, <2>6 DEF ReaderRead, ReadReturns
  <2>7. CASE ReaderClose(q)
    BY <1>0, <2>7 DEF ReaderClose, ReadsDone, pipe, Threads
  <2> QED BY <1>5, <2>1, <2>2, <2>3, <2>4, <2>5, <2>6, <2>7 DEF Thread
<1> QED BY <1>2, <1>3, <1>4, <1>5 DEF Next

(* What the invariant says of one process: no SIGPIPE and no lost message.  *)
LEMMA TransferSafe ==
  ASSUME PipeType, NEW q \in Procs, Transfer(q)
  PROVE  /\ th[q]["writer"] = "open" /\ sent[q] < Messages => th[q]["reader"] = "open"
         /\ th[q]["reader"] = "exited" => received[q] = Messages /\ sent[q] = Messages
BY MessagesAssumption DEF PipeType, Transfer, Connected

(* Every step preserves the count of the messages in the FIFO.              *)
LEMMA FifoHoldsStep == IInv /\ [Next]_vars => FifoHolds'
<1> SUFFICES ASSUME IInv, [Next]_vars PROVE FifoHolds'
  OBVIOUS
<1>0. /\ ControlType /\ PipeType /\ FifoHolds /\ HelperFirst
      /\ \A q \in Procs : ThreadsMade(q) /\ Transfer(q)
  BY DEF IInv, TypeOK
<1> USE DEF Goto
<1>1. ASSUME UNCHANGED <<buf, sent, received, pc>> PROVE FifoHolds'
  BY <1>0, <1>1 DEF FifoHolds, InFifo, Procs
<1>2. CASE UNCHANGED vars \/ Type \/ CloseStdin \/ DemonRead
  BY <1>1, <1>2 DEF vars, Type, CloseStdin, DemonRead, pipe
<1>3. ASSUME NEW q \in Procs, pc[q] \notin {"create", "join", "failed"}
      PROVE  sent[q] = received[q]
  <2>1. sent[q] - received[q] = 0
    BY <1>0, <1>3 DEF FifoHolds, InFifo
  <2>2. sent[q] \in Int /\ received[q] \in Int
    BY <1>0, MessagesAssumption DEF PipeType
  <2> QED BY <2>1, <2>2
<1>4. ASSUME NEW q \in Procs, NEW s, pc[q] # "failed", sent[q] = received[q],
             pc' = [pc EXCEPT ![q] = s], UNCHANGED pipe
      PROVE  FifoHolds'
  <2>1. InFifo(q)' = 0 /\ InFifo(q) = 0
    BY <1>0, <1>4 DEF InFifo, pipe, PipeType, ControlType
  <2>2. \A r \in Procs \ {q} : InFifo(r)' = InFifo(r) /\ pc'[r] = pc[r]
    BY <1>0, <1>4 DEF InFifo, pipe, ControlType
  <2> QED BY <1>0, <1>4, <2>1, <2>2 DEF FifoHolds, Procs, pipe
<1>5. CASE HelperRead
  <2>1. pc["H"] = "read" /\ pc' = [pc EXCEPT !["H"] = "create"] /\ UNCHANGED pipe
    BY <1>5 DEF HelperRead
  <2> QED BY <2>1, <1>3, <1>4 DEF Procs
<1>6. CASE MakeFifo \/ ForkDemon \/ WaitHelper \/ WaitAny
  <2>1. /\ pc["P"] \notin {"create", "join", "failed"} /\ UNCHANGED pipe
        /\ \E s \in PC : pc' = [pc EXCEPT !["P"] = s]
    BY <1>6 DEF MakeFifo, ForkDemon, WaitHelper, WaitAny, PC
  <2> QED BY <2>1, <1>3, <1>4 DEF Procs
<1>7. CASE ForkHelper
  <2>1. CASE pc' = [pc EXCEPT !["P"] = "waitany"]
    BY <2>1, <1>3, <1>4, <1>7 DEF ForkHelper, Procs
  <2>2. CASE pc' = [pc EXCEPT !["P"] = "wait", !["H"] = "read"]
    <3>1. pc["P"] = "fork" /\ pc["H"] = "none" /\ UNCHANGED pipe
      BY <1>0, <1>7 DEF ForkHelper, HelperFirst
    <3>2. sent["P"] = received["P"] /\ sent["H"] = received["H"]
      BY <3>1, <1>3 DEF Procs
    <3>3. \A r \in Procs : InFifo(r)' = 0 /\ InFifo(r) = 0
      BY <1>0, <2>2, <3>1, <3>2 DEF InFifo, pipe, PipeType, ControlType, Procs
    <3> QED BY <1>0, <3>1, <3>3 DEF FifoHolds, Procs, pipe
  <2> QED BY <1>7, <2>1, <2>2 DEF ForkHelper
<1>8. ASSUME NEW q \in Procs, MainThread(q) \/ CreateThreadFails(q) PROVE FifoHolds'
  <2>1. CASE CreateThread(q)
    BY <1>1, <2>1 DEF CreateThread, pipe
  <2>2. CASE CreateThreadFails(q)
    <3>1. \A r \in Procs \ {q} : InFifo(r) = 0 /\ pc[r] \notin {"create", "join"}
      BY <1>0, <2>2, FifoIsMine DEF CreateThreadFails
    <3>2. \A r \in Procs \ {q} : InFifo(r)' = InFifo(r) /\ pc'[r] = pc[r]
      BY <1>0, <2>2 DEF InFifo, CreateThreadFails, ControlType
    <3>3. InFifo(q)' = 0 /\ buf' = 0
      BY <1>0, <2>2 DEF InFifo, CreateThreadFails, ControlType
    <3> QED BY <3>1, <3>2, <3>3 DEF FifoHolds, Procs
  <2>3. CASE CreatedAll(q)
    <3>1. \A r \in Procs : InFifo(r)' = InFifo(r)
      BY <1>0, <2>3 DEF InFifo, CreatedAll, ControlType, pipe
    <3>2. \A r \in Procs : pc'[r] \notin {"create", "join"} => pc[r] \notin {"create", "join"}
      BY <1>0, <2>3 DEF CreatedAll, ControlType
    <3> QED BY <1>0, <2>3, <3>1, <3>2 DEF FifoHolds, Procs, CreatedAll, pipe
  <2>4. CASE Join(q)
    <3>1. CASE UNCHANGED pc
      BY <1>1, <2>4, <3>1 DEF Join, pipe
    <3>2. CASE /\ pc[q] = "join" /\ pc' = [pc EXCEPT ![q] = "crashed"] /\ UNCHANGED pipe
               /\ \E t \in Threads : th[q][t] = "null"
      <4>1. th[q]["writer"] = "null" \/ th[q]["reader"] = "null"
        BY <1>0, <3>2 DEF ThreadsMade
      <4>2. sent[q] = 0 /\ received[q] <= sent[q]
        BY <1>0, <4>1 DEF Transfer, Connected
      <4>3. sent[q] = received[q]
        BY <1>0, <4>2, MessagesAssumption DEF PipeType
      <4> QED BY <1>4, <3>2, <4>3
    <3>3. i[q] + 1 \in 1..7
      BY <1>0, <2>4, OrderFacts DEF Join, ControlType
    <3> QED BY <2>4, <3>1, <3>2, <3>3, OrderFacts DEF Join
  <2>5. CASE JoinedAll(q)
    <3>1. pc[q] = "join" /\ pc' = [pc EXCEPT ![q] = "waitpid"] /\ UNCHANGED pipe /\ i[q] = 7
      BY <2>5, OrderFacts DEF JoinedAll
    <3>2. th[q]["reader"] = "exited"
      BY <1>0, <3>1 DEF ThreadsMade
    <3>3. sent[q] = received[q]
      BY <1>0, <3>2, TransferSafe
    <3> QED BY <1>4, <3>1, <3>3
  <2>6. CASE WaitDemon(q) \/ Unlink(q)
    <3>1. /\ pc[q] \notin {"create", "join", "failed"} /\ UNCHANGED pipe
          /\ \E s \in PC : pc' = [pc EXCEPT ![q] = s]
      BY <2>6 DEF WaitDemon, Unlink, PC
    <3> QED BY <3>1, <1>3, <1>4
  <2> QED BY <1>8, <2>1, <2>2, <2>3, <2>4, <2>5, <2>6 DEF MainThread
<1>9. ASSUME NEW q \in Procs, Thread(q) PROVE FifoHolds'
  <2>1. CASE KeyboardThread(q) \/ OpenToWrite(q) \/ OpenToRead(q) \/ Rendezvous(q) \/ WriterClose(q)
               \/ ReaderClose(q)
    BY <1>1, <2>1 DEF KeyboardThread, OpenFifo, OpenToWrite, OpenToRead, Rendezvous, WriterClose, ReaderClose, pipe
  <2>2. CASE WriterWrite(q) \/ ReaderRead(q)
    <3>1. UNCHANGED pc /\ pc[q] \in {"create", "join"}
      BY <2>2 DEF WriterWrite, ReaderRead, Running
    <3>2. /\ buf = sent[q] - received[q]
          /\ \A r \in Procs \ {q} : InFifo(r) = 0 /\ pc[r] \notin {"create", "join"}
      BY <1>0, <3>1, FifoIsMine
    <3>3. \A r \in Procs \ {q} : InFifo(r)' = 0
      BY <1>0, <2>2, <3>1, <3>2 DEF InFifo, WriterWrite, ReaderRead, PipeType
    <3>4. InFifo(q)' = buf' /\ buf' \in Int
      BY <1>0, <2>2, <3>1, <3>2, MessagesAssumption
         DEF InFifo, WriterWrite, ReaderRead, PipeType
    <3> QED BY <3>1, <3>3, <3>4 DEF FifoHolds, Procs
  <2> QED BY <1>9, <2>1, <2>2 DEF Thread
<1> QED BY <1>2, <1>5, <1>6, <1>7, <1>8, <1>9 DEF Next, Startup

(* A report appended to a rising sequence of smaller numbers.               *)
LEMMA RisingAppend ==
  ASSUME NEW s \in Seq(1..Messages), NEW n \in 1..Messages, Rising(s),
         \A a \in 1..Len(s) : s[a] < n
  PROVE  /\ Rising(Append(s, n)) /\ Append(s, n) # <<>>
         /\ \A a \in 1..Len(s) + 1 : Append(s, n)[a] <= n
         /\ s # <<>> => Append(s, n)[1] = s[1]
         /\ s = <<>> => Append(s, n)[1] = n
<1> USE MessagesAssumption
<1>1. Len(Append(s, n)) = Len(s) + 1 /\ Len(s) \in Nat
  OBVIOUS
<1>2. \A a \in 1..Len(s) : Append(s, n)[a] = s[a] /\ s[a] \in 1..Messages
  OBVIOUS
<1>3. Append(s, n)[Len(s) + 1] = n
  OBVIOUS
<1>4. Rising(Append(s, n))
  BY <1>1, <1>2, <1>3 DEF Rising
<1>5. \A a \in 1..Len(s) + 1 : Append(s, n)[a] <= n
  BY <1>1, <1>2, <1>3
<1>6. s # <<>> => Len(s) >= 1
  OBVIOUS
<1>7. s = <<>> => Len(s) = 0
  OBVIOUS
<1>8. Append(s, n) # <<>>
  BY <1>1
<1> QED BY <1>1, <1>2, <1>3, <1>4, <1>5, <1>6, <1>7, <1>8

(* What a read reports is a message.                                        *)
LEMMA ReportStep == IInv /\ [Next]_vars => ReportType'
<1> SUFFICES ASSUME IInv, [Next]_vars PROVE ReportType'
  OBVIOUS
<1>0. PipeType /\ ReportType
  BY DEF IInv, TypeOK
<1>1. CASE UNCHANGED reported
  BY <1>0, <1>1 DEF ReportType
<1>2. CASE UNCHANGED vars \/ Type \/ CloseStdin \/ DemonRead \/ HelperRead \/ Startup
  BY <1>1, <1>2 DEF vars, Type, CloseStdin, DemonRead, HelperRead, Startup, MakeFifo,
                    ForkDemon, ForkHelper, WaitHelper, WaitAny, pipe
<1>3. ASSUME NEW q \in Procs, MainThread(q) \/ CreateThreadFails(q) PROVE ReportType'
  BY <1>1, <1>3 DEF MainThread, CreateThread, CreateThreadFails, CreatedAll, Join, JoinedAll,
                    WaitDemon, Unlink, pipe
<1>4. ASSUME NEW q \in Procs, ReaderRead(q) PROVE ReportType'
  <2>1. /\ buf = sent[q] - received[q] /\ buf \in 0..Messages
        /\ sent[q] \in 0..Messages /\ received[q] \in 0..Messages
    BY <1>4, FifoIsMine DEF IInv, TypeOK, ReaderRead, Running, PipeType
  <2>2. buf > 0 => received[q] + 1 \in 1..Messages
    BY <2>1, MessagesAssumption
  <2>3. Report(q) \in Seq(1..Messages)
    <3>1. reported[q] \in Seq(1..Messages)
      BY <1>0 DEF ReportType
    <3>2. ASSUME NEW n \in 1..Messages PROVE Append(reported[q], n) \in Seq(1..Messages)
      BY <3>1
    <3>3. CASE buf > 0
      BY <2>2, <3>2, <3>3 DEF Report
    <3> QED BY <3>1, <3>3 DEF Report
  <2> QED BY <1>0, <1>4, <2>3 DEF ReportType, ReaderRead
<1>5. ASSUME NEW q \in Procs, Thread(q) PROVE ReportType'
  BY <1>1, <1>4, <1>5 DEF Thread, KeyboardThread, OpenFifo, OpenToWrite, OpenToRead, Rendezvous,
                          WriterWrite, WriterClose, ReaderClose, pipe
<1> QED BY <1>2, <1>3, <1>5 DEF Next

(* Every step preserves what has been reported: a read reports the oldest   *)
(* of the messages it takes, which comes after all that were received.      *)
LEMMA ReportedStep ==
  ASSUME IInv, [Next]_vars, NEW r \in Procs
  PROVE  Reported(r)'
<1>0. PipeType /\ ReportType /\ Reported(r)
  BY DEF IInv, TypeOK
<1>1. CASE UNCHANGED <<received, reported>>
  BY <1>0, <1>1 DEF Reported
<1>2. CASE UNCHANGED vars \/ Type \/ CloseStdin \/ DemonRead \/ HelperRead \/ Startup
  BY <1>1, <1>2 DEF vars, Type, CloseStdin, DemonRead, HelperRead, Startup, MakeFifo,
                    ForkDemon, ForkHelper, WaitHelper, WaitAny, pipe
<1>3. ASSUME NEW q \in Procs, MainThread(q) \/ CreateThreadFails(q) PROVE Reported(r)'
  BY <1>1, <1>3 DEF MainThread, CreateThread, CreateThreadFails, CreatedAll, Join, JoinedAll,
                    WaitDemon, Unlink, pipe
<1>4. ASSUME NEW q \in Procs, ReaderRead(q) PROVE Reported(r)'
  <2>1. CASE r # q
    BY <1>0, <1>4, <2>1 DEF ReaderRead, PipeType, ReportType, Reported
  <2>2. CASE r = q
    <3>1. /\ buf = sent[q] - received[q] /\ buf \in 0..Messages
          /\ sent[q] \in 0..Messages /\ received[q] \in 0..Messages
          /\ reported[q] \in Seq(1..Messages)
      BY <1>4, FifoIsMine DEF IInv, TypeOK, ReaderRead, Running, PipeType, ReportType
    <3>2. reported'[q] = Report(q) /\ received'[q] = received[q] + buf
      BY <1>0, <1>4 DEF ReaderRead, PipeType, ReportType
    <3>3. CASE buf = 0
      <4>1. reported'[q] = reported[q] /\ received'[q] = received[q]
        BY <3>1, <3>2, <3>3, MessagesAssumption DEF Report
      <4> QED BY <1>0, <2>2, <4>1 DEF Reported, Rising
    <3>4. CASE buf > 0
      <4> DEFINE n == received[q] + 1
      <4>1. n \in 1..Messages /\ n <= received'[q] /\ reported'[q] = Append(reported[q], n)
        BY <3>1, <3>2, <3>4, MessagesAssumption DEF Report
      <4>2. \A a \in 1..Len(reported[q]) : reported[q][a] \in 1..Messages /\ reported[q][a] < n
        BY <1>0, <2>2, <3>1, MessagesAssumption DEF Reported
      <4>3. Rising(reported[q])
        BY <1>0, <2>2 DEF Reported
      <4>4. /\ Rising(reported'[q]) /\ reported'[q] # <<>>
            /\ \A a \in 1..Len(reported[q]) + 1 : reported'[q][a] <= n
            /\ reported[q] # <<>> => reported'[q][1] = reported[q][1]
            /\ reported[q] = <<>> => reported'[q][1] = n
        BY <3>1, <4>1, <4>2, <4>3, RisingAppend
      <4>5. Len(reported'[q]) = Len(reported[q]) + 1
        BY <3>1, <4>1
      <4>6. \A a \in 1..Len(reported'[q]) : reported'[q][a] <= received'[q]
        <5>1. \A a \in 1..Len(reported'[q]) : reported'[q][a] \in 1..Messages
          <6>1. reported'[q] \in Seq(1..Messages)
            BY ReportStep DEF ReportType
          <6> QED BY <6>1, MessagesAssumption
        <5>2. n \in Int /\ received'[q] \in Int
          BY <3>1, <3>2, MessagesAssumption
        <5> QED BY <4>1, <4>4, <4>5, <5>1, <5>2, MessagesAssumption
      <4>7. reported'[q][1] = 1
        <5>1. CASE reported[q] # <<>>
          BY <1>0, <2>2, <4>4, <5>1 DEF Reported
        <5>2. CASE reported[q] = <<>>
          BY <1>0, <2>2, <3>1, <4>4, <5>2, MessagesAssumption DEF Reported
        <5> QED BY <5>1, <5>2
      <4> QED BY <2>2, <4>4, <4>6, <4>7 DEF Reported
    <3> QED BY <3>1, <3>3, <3>4
  <2> QED BY <2>1, <2>2
<1>5. ASSUME NEW q \in Procs, Thread(q) PROVE Reported(r)'
  BY <1>1, <1>4, <1>5 DEF Thread, KeyboardThread, OpenFifo, OpenToWrite, OpenToRead, Rendezvous,
                          WriterWrite, WriterClose, ReaderClose, pipe
<1> QED BY <1>2, <1>3, <1>5 DEF Next

(* Main result: the invariant holds in every reachable state.               *)
THEOREM FifoInvariant == Spec => []IInv
<1>1. IInv /\ [Next]_vars => IInv'
  <2> SUFFICES ASSUME IInv, [Next]_vars PROVE IInv'
    OBVIOUS
  <2>1. TypeOK'
    BY StdinStep, FlagStep, ControlStep, PipeStep, ReportStep DEF IInv, TypeOK
  <2>2. HelperFirst' /\ FifoHolds'
    BY HelperFirstStep, FifoHoldsStep DEF IInv, TypeOK
  <2>3. \A q \in Procs : ThreadsMade(q)' /\ Transfer(q)' /\ Reported(q)'
    BY ThreadsMadeStep, TransferStep, ReportedStep DEF IInv, TypeOK
  <2> QED BY <2>1, <2>2, <2>3 DEF IInv
<1> QED BY Initial, <1>1, PTL DEF Spec

(* Parent and helper never run their threads at the same time.              *)
THEOREM NeverBoth == Spec => []ThreadsExclusive
<1>1. IInv => ThreadsExclusive
  BY OneActive DEF IInv
<1> QED BY <1>1, FifoInvariant, PTL

(* pipewriter is never left writing to a FIFO whose reader has closed it.   *)
THEOREM WriterSurvives == Spec => []NoSigpipe
<1>1. IInv => NoSigpipe
  BY TransferSafe DEF IInv, TypeOK, NoSigpipe
<1> QED BY <1>1, FifoInvariant, PTL

(* pipereader reports message 1 first, then rising numbers only, and leaves *)
(* nothing unread in the FIFO when it ends.                                 *)
THEOREM ReadsReported == Spec => []ReportsInOrder
<1>1. IInv => ReportsInOrder
  <2> SUFFICES ASSUME IInv, NEW q \in Procs
               PROVE  /\ Rising(reported[q])
                      /\ reported[q] # <<>> => reported[q][1] = 1
                      /\ th[q]["reader"] = "exited" =>
                           received[q] = Messages /\ reported[q] # <<>>
    BY DEF ReportsInOrder
  <2>1. Reported(q) /\ (th[q]["reader"] = "exited" => received[q] = Messages)
    BY TransferSafe DEF IInv, TypeOK
  <2> QED BY <2>1, MessagesAssumption DEF Reported
<1> QED BY <1>1, FifoInvariant, PTL

-----------------------------------------------------------------------------
(* The initial states satisfy what CrashExplained rests on.                 *)
LEMMA CrashInitial == Init => FifoLife /\ \A q \in Procs : NullCause(q)
BY DEF Init, FifoLife, NullCause, Procs, Threads

(* Every step preserves the life of the FIFO: only mkfifo makes it, before  *)
(* there is a helper, and only unlink of a process that ends removes it.    *)
LEMMA FifoLifeStep ==
  ASSUME IInv, FifoLife, [Next]_vars
  PROVE  FifoLife'
<1>0. ControlType /\ HelperFirst /\ FlagType
  BY DEF IInv, TypeOK
<1> USE <1>0 DEF ControlType, FifoLife, Goto, Procs
<1>1. CASE UNCHANGED <<pc, fifo>>
  BY <1>1
<1>2. CASE UNCHANGED vars
  BY <1>1, <1>2 DEF vars
<1>3. CASE Type \/ CloseStdin \/ DemonRead
  BY <1>1, <1>3 DEF Type, CloseStdin, DemonRead
<1>4. CASE HelperRead
  BY <1>4 DEF HelperRead
<1>5. CASE Startup
  <2>1. CASE MakeFifo
    BY <2>1 DEF MakeFifo, AfterMkfifo, HelperFirst, FlagType
  <2>2. CASE ForkDemon \/ ForkHelper
    BY <2>2 DEF ForkDemon, ForkHelper, HelperFirst
  <2>3. CASE WaitHelper \/ WaitAny
    BY <2>3 DEF WaitHelper, WaitAny
  <2> QED BY <1>5, <2>1, <2>2, <2>3 DEF Startup
<1>6. ASSUME NEW q \in Procs, MainThread(q) \/ CreateThreadFails(q) PROVE FifoLife'
  <2>1. CASE CreateThread(q)
    BY <1>1, <2>1 DEF CreateThread
  <2>2. CASE CreateThreadFails(q) \/ CreatedAll(q) \/ JoinedAll(q) \/ WaitDemon(q)
    BY <2>2 DEF CreateThreadFails, CreatedAll, JoinedAll, WaitDemon
  <2>3. CASE Join(q)
    <3>1. UNCHANGED pc \/ (pc[q] = "join" /\ pc' = [pc EXCEPT ![q] = "crashed"])
      BY <2>3 DEF Join
    <3>2. UNCHANGED fifo
      BY <2>3 DEF Join
    <3> QED BY <3>1, <3>2
  <2>4. CASE Unlink(q)
    BY <2>4 DEF Unlink
  <2> QED BY <1>6, <2>1, <2>2, <2>3, <2>4 DEF MainThread
<1>7. ASSUME NEW q \in Procs, Thread(q) PROVE FifoLife'
  BY <1>1, <1>7 DEF Thread, KeyboardThread, OpenFifo, OpenToWrite, OpenToRead, Rendezvous, WriterWrite, WriterClose,
                    ReaderRead, ReaderClose
<1> QED BY <1>2, <1>3, <1>4, <1>5, <1>6, <1>7 DEF Next

(* Every step preserves where a NULL result of pipewriter can come from: it *)
(* is refused or finds the FIFO, unless it is the parent's and the helper   *)
(* has ended.                                                               *)
LEMMA NullCauseStep ==
  ASSUME IInv, FifoLife, NEW r \in Procs, NullCause(r), [Next]_vars
  PROVE  NullCause(r)'
<1>0. /\ ControlType /\ HelperFirst /\ ThreadsMade(r) /\ Transfer(r)
      /\ "writer" \in Threads /\ "reader" \in Threads
  BY DEF IInv, TypeOK, Threads
<1> USE <1>0 DEF ControlType, NullCause, Goto
<1>1. ASSUME UNCHANGED <<pc, th, refused>> PROVE NullCause(r)'
  BY <1>1
<1>2. CASE UNCHANGED vars \/ Type \/ CloseStdin \/ DemonRead
  BY <1>1, <1>2 DEF vars, Type, CloseStdin, DemonRead
<1>3. CASE HelperRead
  BY <1>3 DEF HelperRead, Procs
<1>4. CASE Startup
  BY <1>4 DEF Startup, MakeFifo, ForkDemon, ForkHelper, WaitHelper, WaitAny, HelperFirst, Procs
<1>5. ASSUME NEW q \in Procs, NEW t \in Threads, NEW s \in TS, pc[q] \in {"create", "join"},
             th' = [th EXCEPT ![q][t] = s], UNCHANGED pc, refused \subseteq refused',
             t = "writer" /\ s = "null" =>
               <<q, "writer">> \in refused' \/ (q = "P" /\ pc["H"] = "exited")
      PROVE  NullCause(r)'
  <2>1. CASE r # q
    BY <1>5, <2>1
  <2>2. CASE r = q /\ t # "writer"
    BY <1>5, <2>2
  <2>3. CASE r = q /\ t = "writer"
    BY <1>5, <2>3
  <2> QED BY <2>1, <2>2, <2>3
<1>6. ASSUME NEW q \in Procs, MainThread(q) \/ CreateThreadFails(q) PROVE NullCause(r)'
  <2>1. CASE CreateThread(q)
    <3>1. Order[i[q] + 1] \in Threads /\ pc[q] = "create"
      BY <2>1, OrderFacts DEF CreateThread
    <3> QED BY <1>5, <2>1, <3>1 DEF CreateThread, TS
  <2>2. CASE Join(q)
    <3>1. CASE UNCHANGED pc
      BY <1>1, <2>2, <3>1 DEF Join
    <3>2. CASE /\ pc[q] = "join" /\ pc' = [pc EXCEPT ![q] = "crashed"]
               /\ UNCHANGED <<th, refused>> /\ th[q][Order[i[q] + 1]] = "null"
      <4>1. i[q] + 1 \in 1..7
        BY <2>2, OrderFacts DEF Join
      <4>2. q = r => th[q]["writer"] = "null"
        BY <3>2, <4>1, OrderFacts DEF ThreadsMade, Transfer, Connected
      <4> QED BY <3>2, <4>2
    <3> QED BY <2>2, <3>1, <3>2 DEF Join
  <2>3. CASE CreateThreadFails(q) \/ CreatedAll(q) \/ JoinedAll(q) \/ WaitDemon(q) \/ Unlink(q)
    BY <2>3 DEF CreateThreadFails, CreatedAll, JoinedAll, WaitDemon, Unlink, Procs
  <2> QED BY <1>6, <2>1, <2>2, <2>3 DEF MainThread
<1>7. ASSUME NEW q \in Procs, Thread(q) PROVE NullCause(r)'
  <2> USE DEF Set, Running
  <2>1. CASE KeyboardThread(q) \/ WriterClose(q) \/ ReaderClose(q)
    BY <1>5, <2>1 DEF KeyboardThread, WriterClose, ReaderClose, TS, Threads
  <2>2. CASE Rendezvous(q)
    BY <2>2 DEF Rendezvous, Procs, Threads
  <2>3. CASE WriterWrite(q) \/ ReaderRead(q)
    BY <1>1, <2>3 DEF WriterWrite, ReaderRead
  <2>4. CASE OpenToWrite(q) \/ OpenToRead(q)
    <3>1. PICK t \in Ends : OpenFifo(q, t)
      BY <2>4 DEF OpenToWrite, OpenToRead, Ends
    <3>2. UNCHANGED pc /\ t \in Threads /\ pc[q] \in {"create", "join"}
      BY <3>1 DEF OpenFifo, Threads, Ends
    <3>3. CASE Set(q, t, "opening") /\ UNCHANGED refused
      BY <1>5, <3>2, <3>3 DEF TS
    <3>4. CASE Set(q, t, "null") /\ refused' = IF fifo THEN refused \cup {<<q, t>>} ELSE refused
      <4>1. ~fifo => q = "P" /\ pc["H"] = "exited"
        BY <3>2 DEF FifoLife, HelperFirst, Gone, Procs
      <4>2. refused \subseteq refused' /\ (fifo => <<q, t>> \in refused')
        BY <3>4
      <4> QED BY <1>5, <3>2, <3>4, <4>1, <4>2 DEF TS
    <3> QED BY <3>1, <3>3, <3>4 DEF OpenFifo
  <2> QED BY <1>7, <2>1, <2>2, <2>3, <2>4 DEF Thread
<1> QED BY <1>2, <1>3, <1>4, <1>6, <1>7 DEF Next

(* makethreads faults on a NULL result only after a refused open() of        *)
(* pipewriter, or in the parent once the helper has ended and unlinked the   *)
(* FIFO.                                                                     *)
THEOREM CrashCause == Spec => []CrashExplained
<1>1. CrashInv /\ [Next]_vars => (FifoLife /\ \A q \in Procs : NullCause(q))'
  BY FifoLifeStep, NullCauseStep DEF CrashInv
<1>2. CrashInv => CrashExplained
  BY DEF CrashInv, FifoLife, NullCause, CrashExplained
<1>3. Spec => [](FifoLife /\ \A q \in Procs : NullCause(q))
  BY CrashInitial, FifoInvariant, <1>1, PTL DEF Spec, CrashInv
<1> QED BY <1>2, <1>3, FifoInvariant, PTL DEF CrashInv
=============================================================================
