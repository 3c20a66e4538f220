# TLA+ models of generic-tests

The repository is a set of small, independent C programs, each of which exercises
a group of Linux system calls (processes, threads, System V IPC, sockets, FIFOs,
futexes) so that its output can be compared between architectures and emulators.
Each program is short. What is hard in them is what the kernel is allowed to do
between two of their lines: which process or thread goes next, what a blocked
call returns, who is killed, what an earlier run left behind. The modules here
model those programs with the kernel calls they use, TLC explores their
interleavings, and TLAPS proves every safety invariant the passing runs check, for every
number of processes, threads, clients, runs or blocks, that `semaphore.c` implements an
abstract buffer, and for the semaphores, the message queue and the programs that fork that
nobody waits for what cannot come.

## 1. Inventory

| Component | Sources | State | Operations | Interaction | What makes it correct |
|---|---|---|---|---|---|
| Semaphore producer/consumer | `semaphore.c` | shared slot, a set of six semaphores | `sem_op`, `multisem_op`, `SETVAL`, `IPC_RMID`, fork | two processes, semaphores `empty`/`full`; leftovers of killed runs | exclusion on the slot, messages in order, removal last, completion |
| Shared-memory transfer | `shmtest.c` | segment with `cnt`, `complete`, buffer | `shmget`, `shmat`, fill, `IPC_RMID` | two processes, no synchronisation, reruns | the reader stops, and after the last block |
| Polling server | `socket.c`, `socketforkserver.c` | `fds`, `num_open`, `timeouts`; sockets | accept, poll, answer, close | three clients, threads or another process | every client answered, loop ends, no descriptor reused while polled |
| Control threads | `controlthreads.c` | FIFO, standard input, seven threads per process | `fork_demon`, `fork_and_wait`, `makethreads`, `pipewriter`, `pipereader` | demon, helper and parent share the terminal and the FIFO | reports in order, no SIGPIPE, no NULL result joined, the waits end |
| Sequential forks | `serialfork.c`, `multiforkexec.c`, `fork.c`, `forkexec.c` | loop counter, child | fork, execve, waitpid loop | parent and child, job control from outside | every child reaped, bounded number of processes |
| Parallel forks, forking threads | `parallelfork.c`, `processesgalore.c` | the last child of every thread | fork, waitpid loop, create, join | several threads wait in one process | nobody takes another's child |
| Fork tree | `forktree_and_pthread.c` | level, children | `spawnforks`, `waitchildren` | recursive processes | the recursion ends with the tree's shape |
| Forks with exec and threads, thread pools | `fork_and_pthread.c`, `forkexec_and_pthread.c`, `forkmulti.c`, `forkexecwait_and_pthread.c`, `forkexecwait_and_pthreadchild.c`, `system_and_pthread.c`, `pthread.c` | child, thread pool | `callsys`, create, join, one waitpid | parent, and a child that falls through | all threads joined before the return, every process ends |
| Message queue | `msgtest.c` | the key's queue | msgget, msgsnd, msgrcv, `IPC_RMID` | several runs on one key | a lone run passes, nothing is left behind, nobody blocks |
| Robust lock | `threadlockfail.c` | futex word, robust list | `lock_acquire`, `lock_release`, exit | owner dies, second thread recovers | the lock is recovered |
| Clone and signals | `clone.c` | five children, statuses | clone, kill, `waitpid(0)` | parent and faulting, killed or stopped children | each status is read from the child it is expected of |
| User namespace set-up | `mkuidns.c` | id map files, socket pair | clone, three writes, "go", mounts, exec | parent and child of a new namespace | the child runs only after its set-up |
| Datagram receivers | `recvmsg.c`, `recvmsg-flush.c` | port, receive buffers | bind, `recvmsg`, `sendmsg` | two threads, ordered by a sleep | the datagram arrives whole |
| Scatter/gather demo | `iovec_demo.c` | buffers and vectors | six pairs of vector calls | none | what is printed is what was sent |
| Segment-base save and restore | `arch_prctl.c` | GS and FS base | save, set, check, reset, check | none | both bases are put back |
| Left out (section 5) | `call64.c`, `timeclock64.c`, `clock.c`, `robustlist.c`, the single-call programs, `devmemmadness.c`, build files, scripts | none | one or two calls and a printout | none | no state for a model to follow |

The hazards of this code, each at its line, are listed in `PROJECT.json`.

## 2. Modules

Kernel objects are modelled from the way the programs use them and are marked
external in the map. Data is reduced to what the properties distinguish: messages
are numbers or sender names, printouts and padding are left out.

**Semaphore** (`MCSemaphore`, proofs in `SemaphoreProofs`). `cpc` and `ppc` are the
control points of the consumer (the original process) and the producer (its
child), `sem` the six semaphores, `slot` the shared text. `multisem_op` is two
actions: filling `sb`, which for `multisem_op(semid,2,6,1)` stores to elements 2
to 5 of an array of four, and the `semop` on elements 0 to 3, the first two of
which are uninitialised: they are chosen from `Garbage`, and `semop` may apply
them, fail or block. `Clean` says that they leave `empty` and `full` alone; the
properties of the transfer are stated under it, `SetOutlivesProducer` and the types
are not. Slot accesses take two steps, so overlaps are visible.
`SEM_UNDO` adjustments at exit are left out.

**Handoff** is what `semaphore.c` promises: a buffer with room for one message, into
which `Put` sends the messages in order and from which `Take` receives them. It has no
semaphores and no processes. In Semaphore, `sent` is the number of messages the producer
has signalled and `received` the number the consumer has printed; in a run
whose garbage is not `Clean` the mapping stays at its initial state. `ImplementsHandoff` is the
abstract specification under that mapping.

**ShmTransfer** (proofs in `SysVProofs`). Writer (parent) and reader (child) of `shmtest.c` and the segments
under its two keys. An interrupt from the terminal ends both at any point, and the
program may be started again on what they left. The buffer is reduced to its
character and to whether the memset is under way.

**PollServer**, **SocketPrograms** (proofs in `SocketProofs`). The server loop and the clients; then both
`main` functions, chosen by `prog` in the initial state. `closed` keeps the
positions of `fds` whose descriptor is closed, for which poll reports POLLNVAL at
once; `muted` those whose events were set to 0; `revents` is poll's snapshot, which
the loop over `fds` reads while clients go on.

**ControlThreads** (proofs in `ControlProofs`). Demon `D`, helper `H` and parent `P`.
The helper returns from `fork_and_wait` into `main`, so both `H` and `P` run
`makethreads`. The four threads that share nothing (`PrintThread`, `FakeThreads`,
`IoctlThread`) are reduced to their join;
`waitkeyboard`, `pipewriter` and `pipereader` have their steps. A FIFO read
empties the FIFO (its buffer holds every message that can be there), or returns 0
after the writer's close. Every message ends in a NUL and what was read is printed with
`%s`, so `reported` gets only the first message of a read. `open` waits for the other end, or
fails, at either end on its own and for any cause; `refused` keeps the failures that
were not due to a missing name.
Stops and continues of the children are not modelled here.

**Processes**. The process table: fork, exit, kills, stops and continues from
outside, reparenting, and what `waitpid` with `WUNTRACED | WCONTINUED` reports. A process is
`gone` once its parent, or init after the parent's death, has reaped it. The
modules of the forking programs extend it, and two compositions run them, one
program per behaviour (`prog`):

- **SequentialPrograms** (proofs in `SequentialProofs`), the programs with one child at a time. **SequentialFork**
  loops over `waitpid` of the child it forked; a child whose `execve` fails goes on in
  its parent's loop, as it does in the source. **CloneSignals**: `waitpid(0)` takes any
  child and any report; `seen` keeps what the five waits returned, `code` the exit
  status or signal of each child, `meddled` whether a signal came from outside. The
  sleeps order nothing: a child may end before the signal meant for it, which `missed`
  keeps. `traps` is fixed at the start: whether the 10/0 of the second child raises a signal
  depends on the build and the machine. **MkUidNs**:
  `file` is the position in the three map files, `kpc`, `kstep` the child; the kernel's
  rule that `gid_map` is refused before `setgroups` is denied is `Accepts`.
- **ParallelPrograms** (`MCParallelPrograms`, proofs in `ParallelProofs`), those that fork several children and wait
  for one: **ParallelFork** is the loop, **ProcessesGalore** the two programs around it,
  **ForkTree** the recursion.

**ForkThreads** (proofs in `ForkThreadProofs`) has the seven programs with a pool of
threads; `prog` tells which comes first, the wait or the pool, and who executes the command.

**Vectors**, **IovecDemo**, **Datagrams**, **ArchPrctl**, **OneProcess** (proofs in
`OneProcessProofs`). Vectors says which
bytes the kernel moves between memory and iovecs and what a `printf` of a buffer shows;
an uninitialised byte is a value of its own. IovecDemo is a table with a row per
demonstration, holding the lengths and addresses of its vectors, and the actions that
run a row: send, receive, show, or fail. Datagrams has main, receiver and sender of
`recvmsg.c`. ArchPrctl follows the two bases through set and reset, with any call
failing; with a wrong FS base, `errno`, `printf` and a failing `assert` crash. OneProcess
runs one of the three.

**MsgQueue** (proofs in `SysVProofs`). Runs of `msgtest.c` on one key, each of which may start at any time,
be killed, or meet an exhausted kernel. `excuse` is a history variable: the run
found a queue at its start or overlapped with another run.

**RobustLock**. The futex word is its low bits and bit 30. The kernel's walk of the
robust list looks at `&lock.list + futex_offset`, which is the list pointer, and
compares with a tid that the lock never holds. `WeakMayFail` adds the spurious
failures of the weak exchange on LL/SC machines.

## 3. Runs

| Run | Shows | Bounds |
|---|---|---|
| `semaphore` | `TypeOK`, `SlotExclusive`, `ReadsInOrder`, `SetOutlivesProducer`, the refinement `ImplementsHandoff`, `TransferCompletes` | three messages: the slot is reused twice; fresh and leftover sets; garbage that applies, fails and blocks |
| `shm_transfer` | `StopsAfterLastBlock`, `BlocksInOrder`, `SharedSegmentRemoved`, `SharedReaderStops` | two blocks; two starts, so that the second meets what a killed one left |
| `shm_rendezvous` | *violation* of `SameSegment` | two blocks, one start |
| `sockets` | `Answered`, `OpenCount`, `NoFdReuse`, `AcceptedRunEnds` for both programs | three clients, as in the source (`poll_count == 3` is meant for them); `timeouts` counted to 4, past both thresholds |
| `control_threads` | `ThreadsExclusive`, `NoSigpipe`, `ReportsInOrder`, `CrashExplained`, `HelperEnds` | two typed characters, so that demon, helper and keyboard thread compete for fewer than they need |
| `control_crash` | *violation* of `NoNullDeref` | as `control_threads` |
| `sequential_children` | `ReapsWhatItForks`, `CascadeBound`; `UndisturbedStatuses`, `WrongChildExplained` (clone); `SetUpFirst` (mkuidns); `RootEnds` | three forks (eight processes when every execve fails; nine numbers, so the bound could be exceeded), five clones, two signals |
| `parallel_children` | `LastChildReaped`, `WaitHasChild`, `OneChildReaped`, `TreeShape`, `RootEnds` | two threads with two and three children; one with none to three; wide, deep and degenerate trees; two signals; the full tree of seven processes without |
| `fork_threads` | `ThreadsJoined`, `PoolsExclusive`, `AllEnd` | three threads, two signals |
| `msg_queue` | `SoloRunPasses`, `LeaksExplained`, `InstancesEnd` | three runs: a third one overlaps with, or follows, any outcome of two |
| `robust_lock` | *violation* of `Recovers` | none needed |
| `one_process` | `ShowsTheMessage`, `ReceivedWhole`, `BasesRestored`, `EndsOrLost` | the lengths of the source; `BUF_SIZE` 32 instead of 1024, so that the datagram of 43 bytes crosses from one buffer to the next |

Two signals are a stop with its continue and a kill. `CHECK_DEADLOCK FALSE` is set
because all these programs end, or wait for ever where a property says so.

**Fairness.** Weak fairness of every process and thread of the program: the kernel
schedules what can run, sleeps and commands end. Nothing forces a fork or another
call to fail, a signal to come, a key to be typed or a stopped process to be
continued; `RootEnds` and `AllEnd` therefore assume that no process stays stopped, except
for `clone.c`, whose waits return for a stop too. `HelperEnds` names two waits that nothing
in the program ends: `getchar`, where nothing is typed and standard input stays open, and
`pipewriter`'s `open`, where `pipereader` was refused the FIFO. It assumes that the fake
device and the fake file are absent or give their `bingo`, without which `waitfakedev` and
`waitfakefile` read for ever. `EndsOrLost` names the two waits that nothing in its
programs ends. No strong fairness is used.

**The three violations.** `shm_rendezvous`: the child's `shmget` may come after the
parent's `IPC_RMID`; it then makes a segment of its own and waits in it for ever.
`control_crash`: the helper unlinks the FIFO before its parent opens it, the
parent's pipe threads exit with NULL and `makethreads` dereferences that.
`robust_lock`: the dead owner's lock is never marked, and the second thread spins
in `lock_acquire`.

**Other behaviours the models contain**, which the properties above describe rather
than deny:

- `multisem_op(semid,2,6,1)` never increments semaphores 4 and 5, and may fail or
  block on garbage (`semaphore.c:76` wants all four incremented); garbage that
  changes `empty` or `full` breaks the exclusion, any other does not (`Clean`).
- `multiforkexec.c` announces `numforks` forks; with failing `execve` there can be
  2^numforks - 1 (`CascadeBound`).
- `parallelfork.c:83` and `forktree_and_pthread.c:137` say that all children have
  exited; the code waits for the last one, or for the first to end
  (`LastChildReaped`, `OneChildReaped` are what holds).
- The programs of ForkThreads call `waitpid` once, so a stopped child counts as
  finished.
- `msgtest.c:30` says that the second exclusive creation fails; if another run opened
  the queue at line 48 and removed it, it succeeds, and the queue it makes stays
  (`LeaksExplained` lists this among the only three causes).
- `controlthreads.c:163`: `pipewriter` sends each message with its NUL (line 144) and
  `pipereader` prints a read with `%s`. Where a read takes several messages only the first
  is reported and the rest are overwritten (`ReportsInOrder` says what is left: the first
  message is reported, the others in order, none twice).
- `controlthreads.c:131` and `157`: a refused `pipewriter` exits with NULL, which `makethreads`
  dereferences (`CrashExplained`). If `pipereader` alone is refused, `pipewriter` waits in its
  `open` for ever and its join, which comes first, never returns (`HelperEnds`).
- In `mkuidns.c:121` main sends SIGTERM to a child it cannot set up. The child is the
  init of its pid namespace, where a signal without a handler is ignored, and holds
  both ends of the socket pair: it waits in its read after main has gone.
- `recvmsg.c:67` says "print the message using its length"; line 73 prints each buffer up
  to the length of its vector, so what follows the message in the uninitialised buffers
  is printed as well (`ReceivedWhole` is about the beginning of it).
- `clone.c:22`: the child is meant to fault on 10/0. Where the division does not trap (aarch64
  and ppc, for which there are makefiles) or the compiler drops it, since `v` is not used,
  the child exits with 0, and line 92 prints that this was unexpected.
- `clone.c:107` and `131`: when the child's sleep ends first the signal is lost and the
  wait reads an exit, which line 115 calls unexpected and line 136 expected. `Outcome` says
  which status is read when. After a stop was reported, a later wait can read the stopped
  child's end (`WrongChildExplained`).
- `arch_prctl.c:77`: if the base of GS could not be read, the sentinel is written to it
  and the assert holds (`BasesRestored` has this exception; FS has none).
- In `threadlockfail.c` a weak exchange that fails on a free lock is followed by a
  `futex_wait` for 0, which sleeps for ever (`WeakMayFail = TRUE`).

## 4. Proofs

The theorems rest on the assumptions named in the component modules and on two
hypotheses stated in the theorems themselves (`NobodyLost`, `PrintsInOrder`). The
assumptions are types of the constants, except for:

- `MessagesAssumption` (`ControlThreads`), at most four messages of at most 21 bytes, so that
  one read into `readbuf[100]` empties the FIFO; the program sends three.
- `ThreadsAssumption` (`ProcessesGalore`), threads are numbered 0 to n - 1, as the loop
  of `processesgalore.c` numbers them.
- `RoomForClones` (`SequentialPrograms`), the process table has room for the five children
  of `clone.c` and the first process. `TwoProcesses` (`ForkThreads`): those programs fork
  once. The other programs may reach `MaxProcs`, where no further fork succeeds.
- `RoomForDatagram` (`Datagrams`), the two receive buffers together hold the datagram; in the
  source they have 1024 bytes each and it has 43.

Few of the properties are inductive. Each proof module states its inductive invariant as a
conjunction of named parts: `IInv`, or one for each program where a module has several
(`ShmInv`, `QueueInv`; `PrctlInv`, `DatagramInv`, `IovecInv`), and the additions that the
absence of deadlock needs (`Supply`, `LoopsBounded`, `Family`, `Order`, `Kinship`). TLC
found each of them true on the instance of its component's run before it was proved
(`Cascade`, which quantifies over functions, on two forks). They are proved, and therefore
not among the invariants of the runs.

**SemaphoreProofs**: `TypeCorrect`, `CleanupIsLast`, `TokenInvariant`, `MutualExclusion`,
`InOrderDelivery`, `Refinement`, for every `numtrans`; the first two for every content of
the uninitialised sembufs, the others for every content that is `Clean`. `SlotExclusive` is
not inductive: it holds because exactly one token exists, in `empty`, in `full`, with the
producer between its wait and its signal, or with the consumer between its own. `IInv`
states that (`OneToken`), with `Progress` (the counters `pi`, `ci` and the slot as functions
of where the token is), `Quiet` (before the fork `empty` is 1, `full` 0 and nothing has been
passed), `SbFilled` (elements 2 and 3 of `sb` name scratch semaphores, so elements 0 and 1
alone decide what `semop` does to the other two) and `SetLives` (the set exists until the
consumer has reaped the producer). Each action preserves `IInv`; the theorems follow.
`Refinement` shows that the initial states map to Handoff's and that under `IInv` the
producer's signal is a `Put` (`SignalIsPut`), the consumer's read a `Take` (`ReadIsTake`)
and every other step leaves `sent` and `received` alone (`InvisibleStep`); `LoopBound` keeps
the counters within Handoff's total.

`EveryStepCounts` and `NoDeadlock` are what `TransferCompletes` needs besides fairness. The
first is an action property: after the fork each step lowers `StepsLeft`, a natural number
made of the control points and loop counters of both processes, whatever the garbage. The
second says that under `Clean`, once the fork has succeeded, one of the two can take its
next step until both have exited, everything was printed and the set is removed: the token is
somewhere, so they cannot both wait, and a producer that has exited has sent everything
(`AllSent`), so the consumer does not wait for more.

**ControlProofs**: `FifoInvariant`, `NeverBoth`, `WriterSurvives`, `ReadsReported`,
`CrashCause`, for any amount of typed input. The argument has two parts: the parent starts its
threads only after it has reaped the helper (`HelperFirst`), so one process at a time
uses the FIFO; within it, what was written is what was read plus what the FIFO
holds, and a read that returned before the writer's close took at least one message
(`Transfer`, `FifoHolds`, `InFifo`). Three reads can thus not end before three
writes, and nothing is left when they do. What was reported rises and is at most what was
read, so the next report, of the message after all that was read, is later than each
(`Reported`). `CrashCause` adds when the FIFO exists (`FifoLife`): until the parent ends it is
gone exactly when the helper has reached the end of main. So a `pipewriter` with a NULL result was refused, or is the parent's after
that end (`NullCause`). Threads are joined in creation order, so the fault is always
`pipewriter`'s: a `pipereader` that fails alone leaves `pipewriter` waiting, and its
result is never looked at.

**SocketProofs**: `CountsOpen`, `ClosedNotReused` for any number of clients, `NobodyLost`
for up to three. `ServerInvariant` says that nobody has two places among `fds` and the
backlog (`Queue`), that a closed connection's client has finished and was read
(`SentOnce`, `ClosedDone`), and that of the positions poll reported, those behind the loop
are answered and those before it have data or an end of file (`Handling`). When all
connections are accepted the places are a bijection with the clients, so every client has
called `socket` and no number can be reused. The break on `poll_count == 3` then loses
nobody if three reported positions are all there are; with a fourth client TLC finds one
that is left without an answer, so the hypothesis `NumThreads <= 3` is sharp. The
programs define `NUM_THREADS` as 3.

**SysVProofs**, on the two programs that meet under a System V key. For `shmtest.c`: `StopsLate`,
`RemovesShared` for any number of blocks and of starts and kills, `PrintsInOrder` for up to
27 blocks. `ShmInv` says which segment writer, reader and key name at each point
(`WriterHolds`, `ReaderHolds`, `Freed`) and that before the last block nothing a run can reach
is complete, unless it started with such a segment (`NothingStale`). For the order, `FirstRun`
says that the character counts the blocks, that one segment at most holds a block and that
what was printed is earlier. The character goes back to 'B' at the 28th block, where the
property fails; `DOITERS` is 2.

For `msgtest.c`, with any number of overlapping runs: `LeaksHaveCause`: the queue is that of a
live run or of one with a cause (`Held`). `SoloPasses`: while a run has met nobody, it
alone is live and the queue holds exactly what it has sent and not received, point by
point (`Alone`). `NeverWaitsInMsgrcv`: `msgrcv` never blocks, although a run may be given
another's message. A run asks for a type only after it has sent a message of that type, and
takes one message for the one it sent; a killed run leaves its messages. So of each type the
runs that will still ask are at most as many as the messages there (`Enough`, an inequality of
cardinalities), and a new queue has a new identifier, so a run whose queue was removed gets an
error and does not count (`Ids`).

**SequentialProofs**, for any number of forks, processes and signals. `NamespaceReady`: main
counts its files up to the go, the child waits for it (`FilesInOrder`). `ReapsAll`: a child
that is in the process table is the one its parent waits for, and a process number that is
not in use has no children (`OneAtATime`, `FreeHasNone`). `CascadeBounded` counts the processes of
`multiforkexec.c` by a labelling: a process is labelled with the rounds of the loop in
which it or an ancestor was forked. Any two labels differ in a round both processes
have passed (`Lineage`), which later forks cannot change, so the labels are distinct
subsets of the rounds, of which there are 2^NumForks. It is stated for `prog = Serial`,
since `clone.c` makes five children whatever `NumForks` is. `WrongChildOnlyAfterStop`: while
every report was an end, the children of all earlier calls are reaped (`CaughtUp`).
`StatusesDecided`: without signals from outside, the only earlier child that can be
left is the stopped fourth one, already reported (`EarlierChildren`), and this call's
child ends in the way that `traps` and `missed` decide (`ThisChild`, `EndOf`). For `serialfork.c` and `multiforkexec.c`:
`WaitpidNotEchild`, the child a process waits for is its own and was not reaped
(`ChildThere`); `NobodyWaitsInVain`: process numbers are given in order (`Contiguous`), so a
child is younger than its parent (`Younger`), and the youngest live process has no live child
to wait for. If it is not stopped it can go on.

**ParallelProofs**, for any number of threads, children and signals, and any width and depth
of the tree. `ReapsLastChild`, `KeepsItsChild`: a thread's `cpid` is a child of the first
process, differs from every other thread's and is not reaped before this thread waited
(`OwnChild`). `TreeBounded`, `TreeReapsOne`: a node has as many children as its loop has
counted, a cardinality (`Counted`), each one level down (`Levels`); a number not in use has
no children (`FreshNodes`). `NobodyWaitsInVain`: in the tree by the youngest process again; in
the other two, when main waits in a join and every child is dead, a thread that has not ended
waits for a zombie of its own. `EachChildReapedOnce` is the action property behind
`OwnChild`: a reaped process stays reaped, and while main lives a child is reaped only by the
thread that forked it last.

**ForkThreadProofs**, for any number of threads and signals. `JoinsAll`: at each control
point the states of a process's threads are known from the loop variable (`ThreadsAt`).
`NoTwoPools`: in each program one of the two processes never reaches its pool
(`PoolAlone`, `SwapParent`, `SystemChild`), or makes it after the child's end because,
while no signal came, only an end is reported (`FirstWaits`). `NobodyWaitsInVain`: a child
that lives has no child itself, and a joined thread has ended or runs (`ThreadsAt`), so the
child can go on; without it the parent can.

**OneProcessProofs**. `BasesAlwaysRestored`: `PrctlInv` keeps what was saved of GS, or why it
could not be (`Saved`), until FS is done. `DatagramReceivedWhole`, for every `BUF_SIZE` with room
for the datagram: the receive buffers are fresh until the one `recvmsg` and filled after it
(`DatagramInv`); where the datagram ends in the first buffer or crosses into the second, the
bytes printed begin with it. With two buffers the flattening and the scattering need no
induction. `DemosShowTheMessages`: the buffers are as the row of the demonstration
sets them until the receive and hold its messages after it (`IovecInv`), row by row.

**Model-checked only.** The temporal properties `TransferCompletes`, `SharedReaderStops`,
`AcceptedRunEnds`, `HelperEnds`, `RootEnds`, `AllEnd`, `InstancesEnd` and `EndsOrLost`: fairness
and ENABLED are beyond the prover. For that reason the theorems on the absence of deadlock
repeat the guards of the actions (`Moves` and its like) where one would write ENABLED. That the
steps are finitely many is proved for `semaphore.c` alone.

## 5. Not modelled

- `call64.c`, `timeclock64.c`, `clock.c`: one process makes one call after the other and
  prints what each returns. Nothing is shared and no result decides a later call, so
  there is one behaviour and nothing for a model to explore. One thing a reader of
  `call64.c` should know: `ftruncate64` does not move the file position that `lseek64`
  left at the end, so the `write` that follows "to have contents" lands more than a
  terabyte into the file and `sendfile64` from offset 0 copies zeros.
- `robustlist.c`, `stat.c`, `hello*.c`, `identity.c`, `termios.c`, `exec.c`,
  `waitkeyboard.c`, `system.c` and the other single-call programs: one or two calls and a
  printout.
- `devmemmadness.c`: reads a device and prints; its result depends on the machine only.
- Makefiles, the container image and the shell scripts.
- In modelled programs: wording and padding of the output, a failing `pthread_create`
  where its result is ignored (`recvmsg.c`), a `msgsnd` that waits on a full queue
  (`msgtest.c:64`: the few messages of the runs are far below its limit), arguments outside the arrays they index
  (`processesgalore.c:82`), negative arguments (`forktree_and_pthread.c:87`).

## 6. Plan

Every safety invariant of the passing runs is proved. What is left:

- the absence of deadlock, proved for the semaphores, the message queue and the programs that
  fork, for `socket.c` (`AcceptedRunEnds`), `controlthreads.c` (`HelperEnds`), `clone.c` and
  `mkuidns.c` (`RootEnds`);
- a count of the steps left, as in `EveryStepCounts`, for the programs that fork;
- one abstract specification of fork and wait, which the modules that share `Processes` would
  refine.
