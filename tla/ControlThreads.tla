--------------------------- MODULE ControlThreads ---------------------------
(***************************************************************************)
(* controlthreads.c: main forks a demon that reads one character, then a   *)
(* helper that it waits for, then runs seven threads.  The helper's branch *)
(* of fork_and_wait returns, so the helper too falls into makethreads and  *)
(* at its end unlinks the FIFO its parent is about to open.                *)
(***************************************************************************)
EXTENDS Integers, Sequences

CONSTANTS Messages,   \* messages the writer sends and reads the reader makes
          MaxChars    \* bound: characters typed

(* readbuf[100] holds all the messages (21 bytes at most) that can be in the *)
(* FIFO at once, so a read empties it.                                       *)
ASSUME MessagesAssumption == Messages \in 1..4
ASSUME MaxCharsAssumption == MaxChars \in Nat

Procs == {"P", "H"}   \* the parent, and the helper fork_and_wait makes
Order == <<"print", "keyboard", "fakedev", "fakefile", "writer", "reader", "ioctls">>
Threads == {"print", "keyboard", "fakedev", "fakefile", "writer", "reader", "ioctls"}

VARIABLES
  avail, typed, eof,  \* standard input: unread characters, all, end of file
  fifo,               \* PIPE_NAME exists
  buf,                \* messages in the FIFO
  dpc,                \* the demon
  pc,                 \* P and H: control point of the main thread
  th,                 \* their threads
  i,                  \* loop index of makethreads
  sent, reads, received, \* loop counters of pipewriter and pipereader; what was read
  reported,           \* history: the messages pipereader has printed
  refused             \* history: the threads whose open() failed although the FIFO exists

vars == <<avail, typed, eof, fifo, buf, dpc, pc, th, i, sent, reads, received, reported, refused>>
stdin == <<avail, typed, eof>>
pipe == <<buf, sent, reads, received, reported>>

DPC == {"none", "read", "exited", "reaped"}
PC == {"none", "mkfifo", "demon", "fork", "read", "wait", "waitany", "create", "join",
       "waitpid", "unlink", "exited", "crashed", "failed"}
TS == {"none", "run", "opening", "open", "exited", "null"}

StdinType == avail \in 0..MaxChars /\ typed \in 0..MaxChars /\ avail <= typed
Ends == {"writer", "reader"}   \* the two threads that open the FIFO

FlagType == eof \in BOOLEAN /\ fifo \in BOOLEAN /\ refused \subseteq Procs \X Ends
ControlType ==
  /\ dpc \in DPC /\ pc \in [Procs -> PC]
  /\ th \in [Procs -> [Threads -> TS]] /\ i \in [Procs -> 0..Len(Order)]
PipeType ==
  /\ buf \in 0..Messages
  /\ sent \in [Procs -> 0..Messages] /\ reads \in [Procs -> 0..Messages]
  /\ received \in [Procs -> 0..Messages]
ReportType == reported \in [Procs -> Seq(1..Messages)]

TypeOK == StdinType /\ FlagType /\ ControlType /\ PipeType /\ ReportType

Init ==
  /\ avail = 0 /\ typed = 0 /\ eof = FALSE
  /\ fifo \in BOOLEAN               \* a killed run leaves the FIFO behind
  /\ buf = 0 /\ dpc = "none"
  /\ pc = [q \in Procs |-> IF q = "P" THEN "mkfifo" ELSE "none"]
  /\ th = [q \in Procs |-> [t \in Threads |-> "none"]]
  /\ i = [q \in Procs |-> 0]
  /\ sent = [q \in Procs |-> 0] /\ reads = [q \in Procs |-> 0]
  /\ received = [q \in Procs |-> 0] /\ reported = [q \in Procs |-> <<>>]
  /\ refused = {}

-----------------------------------------------------------------------------
(* The user at the terminal.                                                *)

Type ==
  /\ typed < MaxChars /\ ~eof
  /\ typed' = typed + 1 /\ avail' = avail + 1
  /\ UNCHANGED <<eof, fifo, dpc, pc, th, i, pipe, refused>>

CloseStdin ==
  /\ ~eof /\ eof' = TRUE
  /\ UNCHANGED <<avail, typed, fifo, dpc, pc, th, i, pipe, refused>>

-----------------------------------------------------------------------------
(* main and the two forks.                                                  *)

Goto(q, from, to) == pc[q] = from /\ pc' = [pc EXCEPT ![q] = to]

FifoForgotten == fifo
AfterMkfifo == TRUE

MakeFifo ==
  /\ \/ Goto("P", "mkfifo", "demon") /\ fifo' = AfterMkfifo
     \/ ~fifo /\ Goto("P", "mkfifo", "failed") /\ UNCHANGED fifo
  /\ UNCHANGED <<stdin, dpc, th, i, pipe, refused>>

ForkDemon ==
  /\ Goto("P", "demon", "fork")
  /\ dpc' \in {"read", "none"}
  /\ UNCHANGED <<stdin, fifo, th, i, pipe, refused>>

(* The demon's read loop; at end of file it spins.                          *)
DemonRead ==
  /\ dpc = "read" /\ avail > 0
  /\ avail' = avail - 1
  /\ dpc' = "exited"
  /\ UNCHANGED <<typed, eof, fifo, pc, th, i, pipe, refused>>

(* When fork fails cpid is -1, and waitpid(-1) waits for the demon instead. *)
ForkHelper ==
  /\ pc["P"] = "fork"
  /\ \/ pc' = [pc EXCEPT !["P"] = "wait", !["H"] = "read"]
     \/ pc' = [pc EXCEPT !["P"] = "waitany"]
  /\ UNCHANGED <<stdin, fifo, dpc, th, i, pipe, refused>>

(* The helper reads its character and returns into main.                    *)
HelperRead ==
  /\ avail > 0
  /\ avail' = avail - 1
  /\ Goto("H", "read", "create")
  /\ UNCHANGED <<typed, eof, fifo, dpc, th, i, pipe, refused>>

NotWaited == TRUE
HelperGone == pc["H"] \in {"exited", "crashed", "failed"}

WaitHelper ==
  /\ HelperGone
  /\ Goto("P", "wait", "create")
  /\ UNCHANGED <<stdin, fifo, dpc, th, i, pipe, refused>>

WaitAny ==
  /\ \/ dpc = "exited" /\ dpc' = "reaped" /\ Goto("P", "waitany", "create")
     \/ dpc = "none" /\ Goto("P", "waitany", "failed") /\ UNCHANGED dpc
  /\ UNCHANGED <<stdin, fifo, th, i, pipe, refused>>

-----------------------------------------------------------------------------
(* makethreads and its threads, in process q.                               *)

CreateThread(q) ==
  /\ pc[q] = "create" /\ i[q] < Len(Order)
  /\ th' = [th EXCEPT ![q][Order[i[q] + 1]] = "run"]
  /\ i' = [i EXCEPT ![q] = @ + 1]
  /\ UNCHANGED <<stdin, fifo, dpc, pc, pipe, refused>>

(* exit(-1) ends the threads created so far; what they left in the FIFO goes *)
(* with its last descriptor.                                                 *)
CreateThreadFails(q) ==
  /\ i[q] < Len(Order)
  /\ Goto(q, "create", "failed")
  /\ buf' = 0
  /\ UNCHANGED <<stdin, fifo, dpc, th, i, sent, reads, received, reported, refused>>

CreatedAll(q) ==
  /\ i[q] = Len(Order)
  /\ Goto(q, "create", "join")
  /\ i' = [i EXCEPT ![q] = 0]
  /\ UNCHANGED <<stdin, fifo, dpc, th, pipe, refused>>

Running(q, t, s) == pc[q] \in {"create", "join"} /\ th[q][t] = s
Set(q, t, s) == th' = [th EXCEPT ![q][t] = s]

(* Threads that touch nothing the others use and return a malloc'ed value on *)
(* every path: that they have ended shows only in pthread_join.              *)
(* print_thread_id prints and sleeps.                                        *)
PrintThread == {"print"}

(* waitfakedev and waitfakefile exit with -1 when their file is absent, and  *)
(* otherwise read until ten bytes begin with "bingo".                        *)
FakeThreads == {"fakedev", "fakefile"}

(* useioctls writes to and reads from a device and exits at the first error. *)
IoctlThread == {"ioctls"}

Plain == PrintThread \cup FakeThreads \cup IoctlThread

(* getchar fills the stdio buffer: it takes what the demon may be waiting for.*)
KeyboardThread(q) ==
  /\ Running(q, "keyboard", "run")
  /\ \/ \E k \in 1..avail : avail' = avail - k
     \/ avail = 0 /\ eof /\ UNCHANGED avail
  /\ Set(q, "keyboard", "exited")
  /\ UNCHANGED <<typed, eof, fifo, dpc, pc, i, pipe, refused>>

(* open() of a FIFO waits for the other end; it fails when the name is gone,  *)
(* and at either end on its own for any other cause (no descriptor left, no   *)
(* permission).  pthread_exit(NULL) follows the failure.                      *)
OpenFifo(q, t) ==
  /\ \/ fifo /\ Running(q, t, "run") /\ Set(q, t, "opening") /\ UNCHANGED refused
     \/ /\ Running(q, t, "run") /\ Set(q, t, "null")
        /\ refused' = IF fifo THEN refused \cup {<<q, t>>} ELSE refused
  /\ UNCHANGED <<stdin, fifo, dpc, pc, i, pipe>>

OpenToWrite(q) == OpenFifo(q, "writer")
OpenToRead(q) == OpenFifo(q, "reader")

Rendezvous(q) ==
  /\ Running(q, "writer", "opening") /\ Running(q, "reader", "opening")
  /\ th' = [th EXCEPT ![q]["writer"] = "open", ![q]["reader"] = "open"]
  /\ UNCHANGED <<stdin, fifo, dpc, pc, i, pipe, refused>>

WriterWrite(q) ==
  /\ Running(q, "writer", "open") /\ sent[q] < Messages
  /\ sent' = [sent EXCEPT ![q] = @ + 1]
  /\ buf' = buf + 1
  /\ UNCHANGED <<stdin, fifo, dpc, pc, th, i, reads, received, reported, refused>>

WriterClose(q) ==
  /\ Running(q, "writer", "open") /\ sent[q] = Messages
  /\ Set(q, "writer", "exited")
  /\ UNCHANGED <<stdin, fifo, dpc, pc, i, pipe, refused>>

(* read() empties the FIFO, or returns 0 once the writer has closed it.      *)
ReadNonblocking(q) == TRUE
ReadReturns(q) == buf > 0 \/ th[q]["writer"] # "open"

(* Each message ends in a NUL and readbuf is printed with %s: of the messages *)
(* one read merges only the first is reported, and the next read overwrites   *)
(* the others.  A read that returns 0 reports nothing.                        *)
StaleReport(q) == Append(reported[q], IF buf > 0 \/ reads[q] = 0 THEN received[q] + 1
                                                ELSE reported[q][Len(reported[q])])
Report(q) == IF buf > 0 THEN Append(reported[q], received[q] + 1) ELSE reported[q]

ReaderRead(q) ==
  /\ Running(q, "reader", "open") /\ reads[q] < Messages
  /\ ReadReturns(q)
  /\ reads' = [reads EXCEPT ![q] = @ + 1]
  /\ received' = [received EXCEPT ![q] = @ + buf]
  /\ reported' = [reported EXCEPT ![q] = Report(q)]
  /\ buf' = 0
  /\ UNCHANGED <<stdin, fifo, dpc, pc, th, i, sent, refused>>

ReadsOneMore(q) == reads[q] = Messages + 1
ReadsDone(q) == reads[q] = Messages

ReaderClose(q) ==
  /\ Running(q, "reader", "open") /\ ReadsDone(q)
  /\ Set(q, "reader", "exited")
  /\ UNCHANGED <<stdin, fifo, dpc, pc, i, pipe, refused>>

(* pthread_join in creation order; *threadstatus of a NULL result faults.    *)
Join(q) ==
  /\ i[q] < Len(Order)
  /\ LET t == Order[i[q] + 1] IN
       \/ /\ pc[q] = "join" /\ th[q][t] = IF t \in Plain THEN "run" ELSE "exited"
          /\ i' = [i EXCEPT ![q] = @ + 1]
          /\ UNCHANGED pc
       \/ /\ th[q][t] = "null" /\ Goto(q, "join", "crashed")
          /\ UNCHANGED i
  /\ UNCHANGED <<stdin, fifo, dpc, th, pipe, refused>>

JoinedAll(q) ==
  /\ i[q] = Len(Order)
  /\ Goto(q, "join", "waitpid")
  /\ UNCHANGED <<stdin, fifo, dpc, th, i, pipe, refused>>

(* The demon is no child of the helper: its waitpid fails at once.           *)
WaitDemon(q) ==
  /\ Goto(q, "waitpid", "unlink")
  /\ q = "P" => dpc # "read"
  /\ dpc' = IF q = "P" /\ dpc = "exited" THEN "reaped" ELSE dpc
  /\ UNCHANGED <<stdin, fifo, th, i, pipe, refused>>

Unlink(q) ==
  /\ Goto(q, "unlink", "exited")
  /\ fifo' = FALSE
  /\ UNCHANGED <<stdin, dpc, th, i, pipe, refused>>

-----------------------------------------------------------------------------
MainThread(q) == \/ CreateThread(q) \/ CreatedAll(q) \/ Join(q)
                 \/ JoinedAll(q) \/ WaitDemon(q) \/ Unlink(q)
Thread(q) == \/ KeyboardThread(q) \/ OpenToWrite(q) \/ OpenToRead(q) \/ Rendezvous(q)
             \/ WriterWrite(q) \/ WriterClose(q) \/ ReaderRead(q) \/ ReaderClose(q)
Startup == MakeFifo \/ ForkDemon \/ ForkHelper \/ WaitHelper \/ WaitAny

Next == \/ Type \/ CloseStdin \/ Startup \/ DemonRead \/ HelperRead
        \/ \E q \in Procs : MainThread(q) \/ CreateThreadFails(q) \/ Thread(q)

Spec == Init /\ [][Next]_vars

(* Every process and every thread is scheduled; what the user does is his own *)
(* affair.  FakeThreads end, that is, the fake device and file are absent or  *)
(* say bingo.                                                                 *)
FairSpec ==
  /\ Spec /\ WF_vars(Startup) /\ WF_vars(HelperRead) /\ WF_vars(DemonRead)
  /\ \A q \in Procs : /\ WF_vars(MainThread(q)) /\ WF_vars(KeyboardThread(q))
                      /\ WF_vars(OpenToWrite(q)) /\ WF_vars(OpenToRead(q))
                      /\ WF_vars(Rendezvous(q))
                      /\ WF_vars(WriterWrite(q) \/ WriterClose(q))
                      /\ WF_vars(ReaderRead(q) \/ ReaderClose(q))

-----------------------------------------------------------------------------
(* Parent and helper never run their threads at the same time, so the two    *)
(* ends of the FIFO are always two threads of one process.                   *)
ThreadsExclusive == \E q \in Procs : pc[q] \notin {"create", "join"}

(* pipereader never closes the FIFO while pipewriter has a write left: the   *)
(* process is not killed by SIGPIPE.                                         *)
NoSigpipe ==
  \A q \in Procs : th[q]["writer"] = "open" /\ sent[q] < Messages
                     => th[q]["reader"] = "open"

(* pipereader reports message 1 first, never one twice and never one after a  *)
(* later one, and when it ends nothing is left unread in the FIFO.  Between   *)
(* two reports any number of messages may be missing: see Report.             *)
Rising(s) == \A a, b \in 1..Len(s) : a < b => s[a] < s[b]

ReportsInOrder ==
  \A q \in Procs :
    /\ Rising(reported[q])
    /\ reported[q] # <<>> => reported[q][1] = 1
    /\ th[q]["reader"] = "exited" => received[q] = Messages /\ reported[q] # <<>>

(* makethreads faults on a NULL thread result only if the system refused       *)
(* pipewriter the existing FIFO, or in the parent after the helper has run to  *)
(* its end and unlinked it: a refused pipereader alone is never dereferenced.  *)
CrashExplained ==
  \A q \in Procs : pc[q] = "crashed" =>
     <<q, "writer">> \in refused \/ (q = "P" /\ pc["H"] = "exited" /\ ~fifo)

(* Once the helper creates threads it comes to an end, in exit of main, in     *)
(* exit(-1) or in the fault, but for two waits: getchar is never given input,  *)
(* or pipereader was refused the FIFO and pipewriter's open() waits for it for *)
(* ever.  (The fake device and file are absent or say bingo: see FakeThreads.) *)
AwaitsInput == th["H"]["keyboard"] = "run" /\ avail = 0 /\ ~eof
WriterStranded == th["H"]["writer"] = "opening" /\ th["H"]["reader"] = "null"

HelperEnds ==
  (pc["H"] = "create") ~> (HelperGone \/ []AwaitsInput \/ []WriterStranded)

-----------------------------------------------------------------------------
(* The inductive invariant behind ThreadsExclusive, NoSigpipe and            *)
(* ReportsInOrder.  The helper is over before the parent creates a thread;    *)
(* the FIFO holds what its process has sent and not received; each read made *)
(* while the writer is open took at least one message, and the first one     *)
(* after its close took all the rest.                                        *)
Gone == {"none", "exited", "crashed", "failed"}
Early == {"none", "mkfifo", "demon", "fork", "read", "wait", "waitany"}
Connected == {"open", "exited"}
InFifo(q) == IF pc[q] = "failed" THEN 0 ELSE sent[q] - received[q]

HelperFirst ==
  /\ pc["P"] # "wait" => pc["H"] \in Gone
  /\ pc["P"] \in {"mkfifo", "demon", "fork", "waitany"} => pc["H"] = "none"
  /\ pc["P"] \notin {"none", "read"}

ThreadsMade(q) ==
  /\ pc[q] \in Early => i[q] = 0 /\ \A t \in Threads : th[q][t] = "none"
  /\ pc[q] = "create" /\ i[q] < 5 => th[q]["writer"] = "none"
  /\ pc[q] = "create" /\ i[q] < 6 => th[q]["reader"] = "none"
  /\ pc[q] = "join" /\ i[q] >= 5 => th[q]["writer"] = "exited"
  /\ pc[q] = "join" /\ i[q] >= 6 => th[q]["reader"] = "exited"
  /\ \A t \in Threads : th[q][t] = "null" => t \in {"writer", "reader"}

Transfer(q) ==
  /\ th[q]["writer"] \in Connected <=> th[q]["reader"] \in Connected
  /\ th[q]["writer"] \notin Connected => sent[q] = 0 /\ reads[q] = 0
  /\ th[q]["writer"] = "exited" => sent[q] = Messages
  /\ th[q]["reader"] = "exited" => reads[q] = Messages
  /\ received[q] <= sent[q]
  /\ reads[q] <= received[q] \/ (th[q]["writer"] = "exited" /\ received[q] = Messages)

Reported(q) ==
  /\ Rising(reported[q])
  /\ \A a \in 1..Len(reported[q]) : reported[q][a] <= received[q]
  /\ received[q] > 0 => reported[q] # <<>>
  /\ reported[q] # <<>> => reported[q][1] = 1

FifoHolds ==
  /\ buf = InFifo("P") + InFifo("H")
  /\ \A q \in Procs : pc[q] \notin {"create", "join"} => InFifo(q) = 0

IInv ==
  /\ TypeOK /\ HelperFirst /\ FifoHolds
  /\ \A q \in Procs : ThreadsMade(q) /\ Transfer(q) /\ Reported(q)

(* What CrashExplained rests on: between mkfifo and the end of main the FIFO   *)
(* is gone exactly when the helper has ended, so a pipewriter of the helper,   *)
(* or of the parent of a helper that crashed or failed, is refused or finds it. *)
FifoLife ==
  /\ pc["P"] \notin {"mkfifo", "failed", "exited"} /\ pc["H"] # "exited" => fifo
  /\ pc["H"] = "exited" => ~fifo

NullCause(q) ==
  /\ pc[q] = "crashed" => th[q]["writer"] = "null"
  /\ th[q]["writer"] = "null" =>
       <<q, "writer">> \in refused \/ (q = "P" /\ pc["H"] = "exited")

CrashInv == IInv /\ FifoLife /\ \A q \in Procs : NullCause(q)

-----------------------------------------------------------------------------
(* controlthreads.c:250: "Wait for all threads to finish": while no open() is *)
(* refused, makethreads joins every thread and returns.                        *)
NoNullDeref == refused = {} => \A q \in Procs : pc[q] # "crashed"
=============================================================================
