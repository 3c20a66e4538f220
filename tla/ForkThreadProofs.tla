-------------------------- MODULE ForkThreadProofs --------------------------
(***************************************************************************)
(* Proofs about the programs that combine a thread pool with a child       *)
(* process, for every number of threads and of signals from outside.       *)
(***************************************************************************)
EXTENDS ForkThreads, TLAPS

(* What no step but a fork does to the process table: make a process, and   *)
(* what no step at all does: bring a dead one back.                         *)
KeepsTable ==
  \A q \in Pids : /\ st'[q] = "free" <=> st[q] = "free"
                  /\ Alive(q)' => Alive(q)

-----------------------------------------------------------------------------
(* How far each process is with its threads.                                *)

NoThreads(p) == \A t \in Threads : th[p][t] = "none"
AllJoined(p) == \A t \in Threads : th[p][t] = "joined"
Unstarted(p) == i[p] = 0 /\ NoThreads(p)

ThreadsAt(p) ==
  /\ st[p] = "free" => Unstarted(p)
  /\ pc[p] \in {"callsys", "exec", "command"} => Unstarted(p)
  /\ pc[p] = "wait" => IF prog = "last" THEN AllJoined(p) ELSE Unstarted(p)
  /\ pc[p] = "create" =>
       \A t \in Threads : IF t <= i[p] THEN th[p][t] \in {"run", "exited"} ELSE th[p][t] = "none"
  /\ pc[p] = "join" =>
       \A t \in Threads : IF t <= i[p] THEN th[p][t] = "joined" ELSE th[p][t] \in {"run", "exited"}
  /\ pc[p] \in {"return", "done"} => AllJoined(p) \/ NoThreads(p)

-----------------------------------------------------------------------------
(* Which process can have threads in which program.                         *)

PoolAlone == prog = "pool" => st[Child] = "free" /\ pc[Root] # "callsys"
SwapParent ==
  /\ prog = "swap" => pc[Root] \notin {"create", "join", "wait"}
  /\ pc[Root] = "exec" => prog = "swap"
SystemChild == prog = "system" => pc[Child] \notin {"create", "join", "wait", "return"}

(* While nobody has sent a signal nothing but an end is reported, so that   *)
(* forkexecwait_and_pthread.c makes its threads after its child's end.      *)
Quiet == \A p \in Pids : rep[p] = "none" /\ st[p] # "stopped"
FirstWaits ==
  prog = "first" /\ signals = MaxSignals =>
    /\ Quiet
    /\ pc[Root] \in {"create", "join"} => ~Alive(Child)

IInv ==
  /\ TypeOK /\ \A p \in Pids : ThreadsAt(p)
  /\ PoolAlone /\ SwapParent /\ SystemChild /\ FirstWaits

-----------------------------------------------------------------------------
(* The process table.                                                       *)

LEMMA TwoPids == Pids = {Root, Child} /\ Root # Child /\ 0 \notin Pids
BY TwoProcesses DEF Pids, Root, Child

LEMMA StutterKeeps ==
  ASSUME ProcTypeOK, UNCHANGED proc_vars
  PROVE  ProcTypeOK' /\ KeepsTable /\ (Quiet => Quiet') /\ signals' = signals
BY DEF proc_vars, ProcTypeOK, KeepsTable, Quiet, Alive

LEMMA BuryKeeps ==
  ASSUME ProcTypeOK, NEW p \in Pids, NEW z \in {"exited", "killed"},
         Alive(p), Bury(p, z), signals' \in 0..MaxSignals
  PROVE  ProcTypeOK' /\ KeepsTable /\ (Quiet => Quiet')
<1>1. st' \in [Pids -> {"free", "run", "stopped", "exited", "killed", "gone"}]
  BY DEF Bury, ProcTypeOK
<1>2. rep' \in [Pids -> {"none", "stop", "cont"}] /\ par' = par
  BY DEF Bury, ProcTypeOK
<1>3. ASSUME NEW q \in Pids
      PROVE  /\ st'[q] = "free" <=> st[q] = "free"
             /\ Alive(q)' => Alive(q)
  BY <1>3 DEF Bury, ProcTypeOK, Alive, Zombie
<1>4. ASSUME Quiet PROVE Quiet'
  BY <1>4 DEF Bury, ProcTypeOK, Quiet
<1> QED BY <1>1, <1>2, <1>3, <1>4 DEF ProcTypeOK, KeepsTable

LEMMA DieKeeps ==
  ASSUME ProcTypeOK, NEW p \in Pids, Alive(p), Die(p, "exited")
  PROVE  ProcTypeOK' /\ KeepsTable /\ (Quiet => Quiet') /\ signals' = signals
<1>1. Bury(p, "exited") /\ signals' \in 0..MaxSignals /\ signals' = signals
  BY DEF Die, ProcTypeOK
<1> QED BY <1>1, BuryKeeps

LEMMA CollectKeeps ==
  ASSUME ProcTypeOK, NEW c \in Pids, Collect(c)
  PROVE  ProcTypeOK' /\ KeepsTable /\ (Quiet => Quiet') /\ signals' = signals
<1>1. ProcTypeOK' /\ signals' = signals BY DEF Collect, ProcTypeOK
<1>2. KeepsTable BY DEF Collect, ProcTypeOK, KeepsTable, Zombie, Alive
<1>3. Quiet => Quiet' BY DEF Collect, ProcTypeOK, Quiet
<1> QED BY <1>1, <1>2, <1>3

-----------------------------------------------------------------------------
LEMMA Initial == Init => IInv
<1> SUFFICES ASSUME Init PROVE IInv
  OBVIOUS
<1> USE DEF Init
<1>1. /\ 0 \in 0..MaxProcs /\ 0 \in 0..NumThreads /\ MaxSignals \in 0..MaxSignals
      /\ \A t \in Threads : ~(t <= 0)
  BY MaxProcsAssumption, MaxSignalsAssumption, NumThreadsAssumption DEF Threads
<1>2. ProcTypeOK /\ Quiet /\ st[Child] = "free"
  BY <1>1, TwoPids DEF ProcInit, ProcTypeOK, Quiet
<1>3. TypeOK
  BY <1>1, <1>2 DEF TypeOK, PC
<1>4. \A p \in Pids : ThreadsAt(p)
  BY <1>1 DEF ThreadsAt, Unstarted, NoThreads
<1>5. PoolAlone /\ SwapParent /\ SystemChild /\ FirstWaits
  BY <1>2, TwoPids DEF PoolAlone, SwapParent, SystemChild, FirstWaits, Alive
<1> QED BY <1>3, <1>4, <1>5 DEF IInv

(* A process that has not moved.                                            *)
LEMMA OtherProcess ==
  ASSUME NEW q \in Pids, ThreadsAt(q), prog' = prog, pc'[q] = pc[q], i'[q] = i[q],
         th'[q] = th[q], st'[q] = "free" => st[q] = "free"
  PROVE  ThreadsAt(q)'
BY DEF ThreadsAt, Unstarted, NoThreads, AllJoined

(* A process goes on to "to", and no thread moves.                          *)
LEMMA Move ==
  ASSUME IInv, NEW p \in Pids, st[p] = "run", NEW to \in PC \ {"callsys", "exec", "join"},
         pc' = [pc EXCEPT ![p] = to], prog' = prog, i' = i, th' = th,
         ProcTypeOK', KeepsTable, Quiet => Quiet', signals' = signals,
         to \in {"command", "create"} => Unstarted(p),
         to = "wait" => IF prog = "last" THEN AllJoined(p) ELSE Unstarted(p),
         to \in {"return", "done"} => AllJoined(p) \/ NoThreads(p),
         prog = "swap" /\ p = Root => to \notin {"create", "wait"},
         prog = "system" /\ p = Child => to \notin {"create", "wait", "return"},
         prog = "first" /\ signals = MaxSignals /\ p = Root /\ to = "create" => ~Alive(Child)
  PROVE  IInv'
<1>1. TypeOK'
  BY DEF IInv, TypeOK
<1>2. pc'[p] = to /\ \A q \in Pids \ {p} : pc'[q] = pc[q]
  BY DEF IInv, TypeOK
<1>3. st'[p] # "free" /\ \A q \in Pids : st'[q] = "free" => st[q] = "free"
  BY DEF KeepsTable
<1>4. ThreadsAt(p)'
  <2>1. \A t \in Threads : ~(t <= 0)
    BY NumThreadsAssumption DEF Threads
  <2> QED BY <1>2, <1>3, <2>1 DEF ThreadsAt, Unstarted, NoThreads, AllJoined
<1>5. \A q \in Pids : ThreadsAt(q)'
  BY <1>2, <1>3, <1>4, OtherProcess DEF IInv
<1>6. (PoolAlone /\ SwapParent /\ SystemChild)'
  BY <1>2, TwoPids DEF IInv, PoolAlone, SwapParent, SystemChild, KeepsTable
<1>7. FirstWaits'
  BY <1>2, TwoPids DEF IInv, FirstWaits, KeepsTable
<1> QED BY <1>1, <1>5, <1>6, <1>7 DEF IInv

(* A process goes on with its threads, and the process table stays.         *)
LEMMA ThreadMove ==
  ASSUME IInv, NEW p \in Pids, st[p] = "run", TypeOK', ThreadsAt(p)',
         UNCHANGED proc_vars, prog' = prog,
         \/ pc' = pc
         \/ pc[p] = "create" /\ pc' = [pc EXCEPT ![p] = "join"],
         \A q \in Pids \ {p} : i'[q] = i[q] /\ th'[q] = th[q]
  PROVE  IInv'
<1>1. ProcTypeOK' /\ KeepsTable /\ (Quiet => Quiet') /\ signals' = signals
  BY StutterKeeps DEF IInv, TypeOK
<1>2. /\ \A q \in Pids \ {p} : pc'[q] = pc[q]
      /\ pc'[p] = pc[p] \/ (pc[p] = "create" /\ pc'[p] = "join")
  BY DEF IInv, TypeOK
<1>3. \A q \in Pids : ThreadsAt(q)'
  BY <1>1, <1>2, OtherProcess DEF IInv, KeepsTable
<1>4. (PoolAlone /\ SwapParent /\ SystemChild)'
  BY <1>1, <1>2, TwoPids DEF IInv, PoolAlone, SwapParent, SystemChild, KeepsTable
<1>5. FirstWaits'
  BY <1>1, <1>2, TwoPids DEF IInv, FirstWaits, KeepsTable
<1> QED BY <1>3, <1>4, <1>5 DEF IInv

-----------------------------------------------------------------------------
(* callsys.                                                                 *)

LEMMA ForkStep ==
  ASSUME IInv, Fork
  PROVE  IInv'
<1>1. /\ st[Root] = "run" /\ pc[Root] = "callsys" /\ ForkAs(Root, Child)
      /\ pc' = [pc EXCEPT ![Root] = AfterFork, ![Child] = ChildStart]
      /\ prog' = prog /\ i' = i /\ th' = th
  BY DEF Fork, At
<1>2. prog \in {"last", "first", "system", "swap"}
  BY <1>1 DEF IInv, TypeOK, Programs, PoolAlone
<1>3. /\ st[Child] = "free" /\ st' = [st EXCEPT ![Child] = "run"]
      /\ par' = [par EXCEPT ![Child] = Root] /\ rep' = rep /\ signals' = signals
  BY <1>1 DEF ForkAs, NextPid
<1>4. ProcTypeOK'
  <2>1. Root \in 0..MaxProcs
    BY TwoProcesses DEF Root
  <2> QED BY <1>3, <2>1, TwoPids DEF IInv, TypeOK, ProcTypeOK
<1>5. /\ AfterFork \in {"create", "wait", "exec"} /\ ChildStart \in {"create", "exec"}
      /\ AfterFork = "wait" => prog # "last"
      /\ prog = "swap" => AfterFork = "exec"
      /\ prog = "first" => AfterFork = "wait"
      /\ AfterFork = "exec" => prog = "swap"
      /\ prog # "swap" => ChildStart = "exec"
  BY <1>2 DEF AfterFork, ChildStart
<1>6. pc'[Root] = AfterFork /\ pc'[Child] = ChildStart
  BY <1>1, TwoPids DEF IInv, TypeOK
<1>7. TypeOK'
  BY <1>1, <1>4, <1>5 DEF IInv, TypeOK, PC
<1>8. Unstarted(Root) /\ Unstarted(Child)
  BY <1>1, <1>3, TwoPids DEF IInv, ThreadsAt
<1>9. ThreadsAt(Root)' /\ ThreadsAt(Child)'
  <2>1. \A t \in Threads : ~(t <= 0)
    BY NumThreadsAssumption DEF Threads
  <2> QED BY <1>1, <1>5, <1>6, <1>8, <2>1 DEF ThreadsAt, Unstarted, NoThreads
<1>10. (PoolAlone /\ SwapParent /\ SystemChild)'
  BY <1>1, <1>2, <1>5, <1>6 DEF PoolAlone, SwapParent, SystemChild
<1>11. FirstWaits'
  BY <1>1, <1>3, <1>5, <1>6, TwoPids DEF IInv, FirstWaits, Quiet, TypeOK, ProcTypeOK
<1> QED BY <1>7, <1>9, <1>10, <1>11, TwoPids DEF IInv

(* The exits with a negative status.                                        *)
LEMMA FailStep ==
  ASSUME IInv, NEW p \in Pids, st[p] = "run", Fail(p)
  PROVE  IInv'
<1>1. Die(p, "exited") /\ pc' = [pc EXCEPT ![p] = "failed"] /\ prog' = prog /\ i' = i /\ th' = th
  BY DEF Fail, Goto
<1>2. ProcTypeOK' /\ KeepsTable /\ (Quiet => Quiet') /\ signals' = signals
  BY <1>1, DieKeeps DEF IInv, TypeOK, Alive
<1>3. "failed" \in PC \ {"callsys", "exec", "join"} BY DEF PC
<1> QED BY <1>1, <1>2, <1>3, Move

(* The ends of a command or of main.                                        *)
LEMMA EndStep ==
  ASSUME IInv, NEW p \in Pids, CommandExits(p) \/ Return(p)
  PROVE  IInv'
<1>1. /\ st[p] = "run" /\ pc[p] \in {"command", "return"} /\ Die(p, "exited")
      /\ pc' = [pc EXCEPT ![p] = "done"] /\ prog' = prog /\ i' = i /\ th' = th
  BY DEF CommandExits, Return, At, Goto
<1>2. ProcTypeOK' /\ KeepsTable /\ (Quiet => Quiet') /\ signals' = signals
  BY <1>1, DieKeeps DEF IInv, TypeOK, Alive
<1>3. "done" \in PC \ {"callsys", "exec", "join"} BY DEF PC
<1>4. AllJoined(p) \/ NoThreads(p)
  BY <1>1 DEF IInv, ThreadsAt, Unstarted
<1> QED BY <1>1, <1>2, <1>3, <1>4, Move

LEMMA CallsysStep ==
  ASSUME IInv, NEW p \in Pids, Execs(p) \/ FallsThrough(p) \/ (p = Root /\ SystemFails)
  PROVE  IInv'
<1>1. st[p] = "run" /\ UNCHANGED proc_vars /\ prog' = prog /\ i' = i /\ th' = th
  BY DEF Execs, FallsThrough, SystemFails, At
<1>2. ProcTypeOK' /\ KeepsTable /\ (Quiet => Quiet') /\ signals' = signals
  BY <1>1, StutterKeeps DEF IInv, TypeOK
<1>3. PICK to : /\ pc' = [pc EXCEPT ![p] = to] /\ to \in {"command", "return", "create"}
                /\ to = "return" => prog = "swap"
                /\ to = "create" => /\ prog # "swap"
                                    /\ prog = "system" => p = Root
                                    /\ prog = "first" => pc[p] = "exec"
  BY DEF Execs, FallsThrough, SystemFails, Goto, At
<1>4. to \in PC \ {"callsys", "exec", "join"}
  BY <1>3 DEF PC
<1>5. Unstarted(p) /\ NoThreads(p)
  BY DEF IInv, ThreadsAt, Unstarted, Execs, FallsThrough, SystemFails, At
<1>6. prog = "first" /\ p = Root => to # "create"
  BY <1>3 DEF IInv, SwapParent
<1> QED BY <1>1, <1>2, <1>3, <1>4, <1>5, <1>6, TwoPids, Move

-----------------------------------------------------------------------------
(* The threads and the waits.                                               *)

LEMMA ThreadsStep ==
  ASSUME IInv, NEW p \in Pids,
         CreateThread(p) \/ CreatedAll(p) \/ JoinThread(p)
  PROVE  IInv'
<1>0. /\ st[p] = "run" /\ UNCHANGED proc_vars /\ prog' = prog
      /\ i \in [Pids -> 0..NumThreads] /\ NumThreads \in Nat \ {0}
      /\ th \in [Pids -> [Threads -> {"none", "run", "exited", "joined"}]]
      /\ pc \in [Pids -> PC]
  BY NumThreadsAssumption DEF CreateThread, CreatedAll, JoinThread, At, IInv, TypeOK
<1>1. ProcTypeOK' /\ (prog \in Programs)'
  BY <1>0, StutterKeeps DEF IInv, TypeOK
<1>2. st'[p] # "free"
  BY <1>0 DEF proc_vars
<1>3. CASE CreateThread(p)
  <2> DEFINE n == i[p] + 1
  <2>1. /\ pc[p] = "create" /\ pc' = pc /\ i[p] < NumThreads
        /\ th' = [th EXCEPT ![p][n] = "run"] /\ i' = [i EXCEPT ![p] = n]
    BY <1>3 DEF CreateThread, At, MoreThreads
  <2>2. n \in 0..NumThreads /\ n \in Threads /\ i[p] \in 0..NumThreads
    BY <1>0, <2>1 DEF Threads
  <2>3. /\ i'[p] = n /\ th'[p] = [th[p] EXCEPT ![n] = "run"]
        /\ i' \in [Pids -> 0..NumThreads]
        /\ th' \in [Pids -> [Threads -> {"none", "run", "exited", "joined"}]]
    BY <1>0, <2>1, <2>2
  <2>4. TypeOK'
    BY <1>0, <1>1, <2>1, <2>3 DEF TypeOK
  <2>5. \A t \in Threads : IF t <= i[p] THEN th[p][t] \in {"run", "exited"} ELSE th[p][t] = "none"
    BY <2>1 DEF IInv, ThreadsAt
  <2>6. \A t \in Threads : t <= n <=> (t <= i[p] \/ t = n)
    BY <2>2 DEF Threads
  <2> HIDE DEF n
  <2>7. \A t \in Threads : IF t <= n THEN th'[p][t] \in {"run", "exited"} ELSE th'[p][t] = "none"
    BY <1>0, <2>2, <2>3, <2>5, <2>6
  <2>8. ThreadsAt(p)'
    BY <1>2, <2>1, <2>3, <2>7 DEF ThreadsAt
  <2>9. \A q \in Pids \ {p} : i'[q] = i[q] /\ th'[q] = th[q]
    BY <1>0, <2>1
  <2> QED BY <1>0, <2>1, <2>4, <2>8, <2>9, ThreadMove
<1>4. CASE CreatedAll(p)
  <2>1. /\ pc[p] = "create" /\ i[p] = NumThreads /\ pc' = [pc EXCEPT ![p] = "join"]
        /\ i' = [i EXCEPT ![p] = 0] /\ th' = th
    BY <1>4 DEF CreatedAll, At, Goto
  <2>2. TypeOK'
    BY <1>0, <1>1, <2>1 DEF TypeOK, PC
  <2>3. \A t \in Threads : t <= NumThreads /\ ~(t <= 0)
    BY <1>0 DEF Threads
  <2>4. \A t \in Threads : th[p][t] \in {"run", "exited"}
    BY <2>1, <2>3 DEF IInv, ThreadsAt
  <2>5. ThreadsAt(p)'
    BY <1>0, <1>2, <2>1, <2>3, <2>4 DEF ThreadsAt
  <2>6. \A q \in Pids \ {p} : i'[q] = i[q] /\ th'[q] = th[q]
    BY <1>0, <2>1
  <2> QED BY <1>0, <2>1, <2>2, <2>5, <2>6, ThreadMove
<1>5. CASE JoinThread(p)
  <2> DEFINE n == i[p] + 1
  <2>1. /\ pc[p] = "join" /\ pc' = pc /\ i[p] < NumThreads
        /\ th' = [th EXCEPT ![p][n] = "joined"] /\ i' = [i EXCEPT ![p] = n]
    BY <1>5 DEF JoinThread, At
  <2>2. n \in 0..NumThreads /\ n \in Threads /\ i[p] \in 0..NumThreads
    BY <1>0, <2>1 DEF Threads
  <2>3. /\ i'[p] = n /\ th'[p] = [th[p] EXCEPT ![n] = "joined"]
        /\ i' \in [Pids -> 0..NumThreads]
        /\ th' \in [Pids -> [Threads -> {"none", "run", "exited", "joined"}]]
    BY <1>0, <2>1, <2>2
  <2>4. TypeOK'
    BY <1>0, <1>1, <2>1, <2>3 DEF TypeOK
  <2>5. \A t \in Threads : IF t <= i[p] THEN th[p][t] = "joined" ELSE th[p][t] \in {"run", "exited"}
    BY <2>1 DEF IInv, ThreadsAt
  <2>6. \A t \in Threads : t <= n <=> (t <= i[p] \/ t = n)
    BY <2>2 DEF Threads
  <2> HIDE DEF n
  <2>7. \A t \in Threads : IF t <= n THEN th'[p][t] = "joined" ELSE th'[p][t] \in {"run", "exited"}
    BY <1>0, <2>2, <2>3, <2>5, <2>6
  <2>8. ThreadsAt(p)'
    BY <1>2, <2>1, <2>3, <2>7 DEF ThreadsAt
  <2>9. \A q \in Pids \ {p} : i'[q] = i[q] /\ th'[q] = th[q]
    BY <1>0, <2>1
  <2> QED BY <1>0, <2>1, <2>4, <2>8, <2>9, ThreadMove
<1> QED BY <1>3, <1>4, <1>5

LEMMA PrintStep ==
  ASSUME IInv, NEW p \in Pids, NEW t \in Threads, PrintThreadId(p, t)
  PROVE  IInv'
<1>1. /\ st[p] = "run" /\ th[p][t] = "run" /\ th' = [th EXCEPT ![p][t] = "exited"]
      /\ UNCHANGED proc_vars /\ prog' = prog /\ pc' = pc /\ i' = i
  BY DEF PrintThreadId
<1>2. /\ th'[p] = [th[p] EXCEPT ![t] = "exited"]
      /\ th' \in [Pids -> [Threads -> {"none", "run", "exited", "joined"}]]
      /\ th[p] \in [Threads -> {"none", "run", "exited", "joined"}]
      /\ \A q \in Pids \ {p} : th'[q] = th[q]
  BY <1>1 DEF IInv, TypeOK
<1>3. TypeOK'
  BY <1>1, <1>2, StutterKeeps DEF IInv, TypeOK
<1>4. ThreadsAt(p)'
  <2>1. ~NoThreads(p) /\ ~AllJoined(p)
    BY <1>1 DEF NoThreads, AllJoined
  <2>2. \A u \in Threads : IF u = t THEN th'[p][u] = "exited" ELSE th'[p][u] = th[p][u]
    BY <1>2
  <2>3. ThreadsAt(p)
    BY DEF IInv
  <2>4. pc[p] \in {"create", "join", "failed"}
    BY <2>1, <2>3 DEF ThreadsAt, Unstarted, IInv, TypeOK, PC
  <2>5. st'[p] # "free"
    BY <1>1 DEF proc_vars
  <2> QED BY <1>1, <2>2, <2>3, <2>4, <2>5 DEF ThreadsAt
<1> QED BY <1>1, <1>2, <1>3, <1>4, ThreadMove

LEMMA JoinedStep ==
  ASSUME IInv, NEW p \in Pids, JoinedAll(p)
  PROVE  IInv'
<1> DEFINE to == IF prog = "last" THEN "wait" ELSE "return"
<1>1. /\ st[p] = "run" /\ pc[p] = "join" /\ i[p] = NumThreads
      /\ pc' = [pc EXCEPT ![p] = to]
      /\ UNCHANGED proc_vars /\ prog' = prog /\ i' = i /\ th' = th
  BY DEF JoinedAll, At, Goto, JoinsDone
<1>2. ProcTypeOK' /\ KeepsTable /\ (Quiet => Quiet') /\ signals' = signals
  BY <1>1, StutterKeeps DEF IInv, TypeOK
<1>3. to \in PC \ {"callsys", "exec", "join"} /\ to \in {"wait", "return"}
      /\ (to = "wait" => prog = "last")
  BY DEF PC
<1>4. AllJoined(p)
  <2>1. \A t \in Threads : t <= NumThreads
    BY NumThreadsAssumption DEF Threads
  <2> QED BY <1>1, <2>1 DEF IInv, ThreadsAt, AllJoined
<1>5. prog = "system" => p # Child
  BY <1>1 DEF IInv, SystemChild
<1> HIDE DEF to
<1> QED BY <1>1, <1>2, <1>3, <1>4, <1>5, Move

(* The wait of forkexecwait_and_pthread.c, when no signal has come: what it *)
(* finds is the end of the child.                                           *)
LEMMA WaitStep ==
  ASSUME IInv, NEW p \in Pids, Waitpid(p)
  PROVE  IInv'
<1>1. PICK c \in Pids : Reportable(p, c) /\ Collect(c)
  BY DEF Waitpid
<1> DEFINE to == AfterWait
<1>2. /\ st[p] = "run" /\ pc[p] = "wait" /\ pc' = [pc EXCEPT ![p] = to]
      /\ prog' = prog /\ i' = i /\ th' = th
  BY DEF Waitpid, At, Goto
<1>3. ProcTypeOK' /\ KeepsTable /\ (Quiet => Quiet') /\ signals' = signals
  BY <1>1, CollectKeeps DEF IInv, TypeOK
<1>4. /\ to \in PC \ {"callsys", "exec", "join"} /\ to \in {"create", "return"}
      /\ to = "create" => prog # "last"
      /\ to = "return" => prog = "last"
  BY DEF PC, AfterWait
<1>5. /\ to = "create" => Unstarted(p)
      /\ to = "return" => AllJoined(p)
  BY <1>2, <1>4 DEF IInv, ThreadsAt
<1>6. (prog = "swap" => p # Root) /\ (prog = "system" => p # Child)
  BY <1>2 DEF IInv, SwapParent, SystemChild
<1>7. prog = "first" /\ signals = MaxSignals /\ p = Root => ~Alive(Child)
  <2> SUFFICES ASSUME prog = "first", signals = MaxSignals, p = Root
               PROVE  ~Alive(Child)
    OBVIOUS
  <2>1. Quiet
    BY DEF IInv, FirstWaits
  <2>2. Zombie(c)
    BY <1>1, <2>1 DEF Reportable, Report, Quiet
  <2>3. c # Root /\ ~Alive(c)
    BY <1>2, <2>2 DEF Zombie, Alive
  <2> QED BY <2>3, TwoPids
<1> HIDE DEF to
<1> QED BY <1>2, <1>3, <1>4, <1>5, <1>6, <1>7, Move

LEMMA SignalsKeep ==
  ASSUME ProcTypeOK, Signals
  PROVE  ProcTypeOK' /\ KeepsTable /\ par' = par
<1>1. PICK p \in Pids : Stop(p) \/ Resume(p) \/ Kill(p)
  BY DEF Signals
<1>2. CASE Stop(p)
  BY <1>2, MaxSignalsAssumption DEF Stop, ProcTypeOK, KeepsTable, Alive
<1>3. CASE Resume(p)
  BY <1>3 DEF Resume, ProcTypeOK, KeepsTable, Alive
<1>4. CASE Kill(p)
  <2>1. signals' \in 0..MaxSignals /\ Alive(p) /\ Bury(p, "killed")
    BY <1>4, MaxSignalsAssumption DEF Kill, ProcTypeOK
  <2> QED BY <2>1, BuryKeeps DEF Bury
<1> QED BY <1>1, <1>2, <1>3, <1>4

LEMMA SignalStep ==
  ASSUME IInv, Signals, UNCHANGED <<prog, pc, i, th>>
  PROVE  IInv'
<1>1. PICK p \in Pids : Stop(p) \/ Resume(p) \/ Kill(p)
  BY DEF Signals
<1>2. ProcTypeOK' /\ KeepsTable
  BY SignalsKeep DEF IInv, TypeOK
<1>3. TypeOK'
  BY <1>2 DEF IInv, TypeOK
<1>4. \A q \in Pids : ThreadsAt(q)'
  BY <1>2, OtherProcess DEF IInv, KeepsTable
<1>5. (PoolAlone /\ SwapParent /\ SystemChild)'
  BY <1>2, TwoPids DEF IInv, PoolAlone, SwapParent, SystemChild, KeepsTable
<1>6. FirstWaits'
  <2>1. CASE Stop(p) \/ Kill(p)
    <3>1. signals' # MaxSignals
      BY <2>1, MaxSignalsAssumption DEF Stop, Kill, IInv, TypeOK, ProcTypeOK
    <3> QED BY <3>1 DEF FirstWaits
  <2>2. CASE Resume(p)
    <3>1. st[p] = "stopped" /\ signals' = signals
      BY <2>2 DEF Resume
    <3> QED BY <3>1 DEF IInv, FirstWaits, Quiet
  <2> QED BY <1>1, <2>1, <2>2
<1> QED BY <1>3, <1>4, <1>5, <1>6 DEF IInv

-----------------------------------------------------------------------------
LEMMA Step ==
  ASSUME IInv, [Next]_vars
  PROVE  IInv'
<1>0. Root \in Pids
  BY TwoPids
<1>1. CASE ForkFails \/ SystemFails
  BY <1>0, <1>1, FailStep, CallsysStep DEF ForkFails, At
<1>2. ASSUME NEW p \in Pids, Callsys(p) \/ CreateFails(p) PROVE IInv'
  BY <1>2, ForkStep, CallsysStep, EndStep, FailStep DEF Callsys, CreateFails, At
<1>3. ASSUME NEW p \in Pids, Main(p) PROVE IInv'
  BY <1>3, ThreadsStep, JoinedStep, WaitStep, FailStep, EndStep DEF Main, WaitFails, At
<1>4. ASSUME NEW p \in Pids, NEW t \in Threads, PrintThreadId(p, t) PROVE IInv'
  BY <1>4, PrintStep
<1>5. CASE Signals /\ UNCHANGED <<prog, pc, i, th>>
  BY <1>5, SignalStep
<1>6. CASE UNCHANGED vars
  <2>1. UNCHANGED proc_vars /\ prog' = prog /\ pc' = pc /\ i' = i /\ th' = th
    BY <1>6 DEF vars
  <2>2. ProcTypeOK' /\ KeepsTable /\ (Quiet => Quiet') /\ signals' = signals
    BY <2>1, StutterKeeps DEF IInv, TypeOK
  <2>3. TypeOK'
    BY <2>1, <2>2 DEF IInv, TypeOK
  <2>4. \A q \in Pids : ThreadsAt(q)'
    BY <2>1, <2>2, OtherProcess DEF IInv, KeepsTable
  <2>5. (PoolAlone /\ SwapParent /\ SystemChild /\ FirstWaits)'
    BY <2>1, <2>2, TwoPids DEF IInv, PoolAlone, SwapParent, SystemChild, FirstWaits, KeepsTable
  <2> QED BY <2>3, <2>4, <2>5 DEF IInv
<1> QED BY <1>1, <1>2, <1>3, <1>4, <1>5, <1>6 DEF Next

(* The invariant of the programs with threads and a child: how many of its  *)
(* threads each process has created or joined at each point of main, and    *)
(* which processes can have threads at all.                                 *)
THEOREM ForkThreadInvariant == Spec => []IInv
BY Initial, Step, PTL DEF Spec

(* With any number of threads, no process returns from main while a thread  *)
(* of its still runs or was not joined, a child that fell through included. *)
THEOREM JoinsAll == Spec => []ThreadsJoined
<1>1. IInv => ThreadsJoined
  <2>1. 1 \in Threads
    BY NumThreadsAssumption DEF Threads
  <2> QED BY <2>1 DEF IInv, ThreadsAt, ThreadsJoined, AllJoined, NoThreads
<1> QED BY <1>1, ForkThreadInvariant, PTL

(* The threads of parent and child never overlap where the wait comes first *)
(* (unless a signal from outside has ended it) or one process alone has     *)
(* threads.                                                                 *)
THEOREM NoTwoPools == Spec => []PoolsExclusive
<1>1. IInv => PoolsExclusive
  <2> SUFFICES ASSUME IInv, prog # "last", prog = "first" => signals = MaxSignals
               PROVE  \E p \in Pids : ~(Alive(p) /\ pc[p] \in {"create", "join"})
    BY DEF PoolsExclusive
  <2>1. CASE prog = "pool"
    BY <2>1, TwoPids DEF IInv, PoolAlone, Alive
  <2>2. CASE prog = "swap"
    BY <2>2, TwoPids DEF IInv, SwapParent
  <2>3. CASE prog = "system"
    BY <2>3, TwoPids DEF IInv, SystemChild
  <2>4. CASE prog = "first"
    BY <2>4, TwoPids DEF IInv, FirstWaits
  <2> QED BY <2>1, <2>2, <2>3, <2>4 DEF IInv, TypeOK, Programs
<1> QED BY <1>1, ForkThreadInvariant, PTL

-----------------------------------------------------------------------------
(* Nobody waits in vain.  The child is the first process's, the first       *)
(* process is nobody's, only a dead process has finished, and the child     *)
(* starts behind the fork.                                                  *)
Kinship ==
  /\ par[Root] \notin Pids /\ par[Child] # Child
  /\ st[Child] = "free" => par[Child] \notin Pids
  /\ Alive(Child) => pc[Child] # "callsys"
  /\ \A p \in Pids : Alive(p) => pc[p] \notin {"done", "failed"}

(* A process is not blocked: its next line can be executed, the thread it   *)
(* joins has ended or one of its threads runs, or its waitpid returns, with *)
(* a report or with ECHILD.                                                 *)
Moves(p) ==
  \/ p = Root /\ At(p, "callsys")
  \/ \E at \in {"exec", "command", "create", "return"} : At(p, at)
  \/ /\ At(p, "join")
     /\ i[p] = NumThreads \/ th[p][i[p] + 1] = "exited" \/ (\E t \in Threads : th[p][t] = "run")
  \/ /\ At(p, "wait")
     /\ \/ \E c \in Pids : Reportable(p, c) /\ (prog = "system" => Zombie(c))
        \/ \A c \in Pids : NoChild(p, c)

(* As long as a process is left one is not blocked, unless one was stopped  *)
(* from outside.                                                            *)
SomeoneMoves ==
  (\E p \in Pids : Alive(p)) /\ (\A p \in Pids : st[p] # "stopped") =>
    \E p \in Pids : Moves(p)

LEMMA KinshipInitial == Init => Kinship
<1> SUFFICES ASSUME Init PROVE Kinship
  OBVIOUS
<1>1. /\ par[Root] = 0 /\ par[Child] = 0 /\ st[Child] = "free" /\ Child # 0
      /\ \A p \in Pids : pc[p] \in {"create", "callsys"}
  BY TwoPids DEF Init, ProcInit, Child
<1> QED BY <1>1, TwoPids DEF Kinship, Alive

(* A step that makes no process.                                            *)
LEMMA KinshipKept ==
  ASSUME IInv, Kinship, KeepsTable, par' = par,
         \A p \in Pids : Alive(p)' => /\ pc'[p] \notin {"done", "failed"}
                                      /\ pc'[p] = "callsys" => pc[p] = "callsys"
  PROVE  Kinship'
BY TwoPids DEF Kinship, KeepsTable

LEMMA KinshipFork ==
  ASSUME IInv, Kinship, Fork
  PROVE  Kinship'
<1>1. /\ At(Root, "callsys") /\ ForkAs(Root, Child)
      /\ pc' = [pc EXCEPT ![Root] = AfterFork, ![Child] = ChildStart]
  BY DEF Fork
<1>2. prog \in {"last", "first", "system", "swap"}
  BY <1>1 DEF At, IInv, PoolAlone, TypeOK, Programs
<1>3. AfterFork \in {"create", "wait", "exec"} /\ ChildStart \in {"create", "exec"}
  BY <1>2 DEF AfterFork, ChildStart
<1>4. pc'[Root] = AfterFork /\ pc'[Child] = ChildStart
  BY <1>1, TwoPids DEF IInv, TypeOK
<1>5. par'[Root] = par[Root] /\ par'[Child] = Root /\ st'[Child] = "run"
  BY <1>1, TwoPids DEF ForkAs, IInv, TypeOK, ProcTypeOK
<1> QED BY <1>3, <1>4, <1>5, TwoPids DEF Kinship

LEMMA KinshipStep ==
  ASSUME IInv, Kinship, [Next]_vars
  PROVE  Kinship'
<1>0. Root \in Pids /\ ProcTypeOK /\ pc \in [Pids -> PC]
  BY TwoPids DEF IInv, TypeOK
<1>1. ASSUME NEW p \in Pids, NEW to \in {"done", "failed"}, st[p] = "run", Die(p, "exited"), Goto(p, to)
      PROVE  Kinship'
  <2>1. KeepsTable /\ par' = par
    BY <1>0, <1>1, DieKeeps DEF Alive, Die, Bury
  <2>2. ~Alive(p)'
    BY <1>1 DEF Die, Bury, Alive
  <2>3. \A q \in Pids : Alive(q)' => pc'[q] = pc[q] /\ Alive(q)
    BY <1>0, <1>1, <2>1, <2>2 DEF Goto, KeepsTable
  <2> QED BY <2>1, <2>3, KinshipKept DEF Kinship
<1>2. ASSUME NEW p \in Pids, Fail(p), st[p] = "run" PROVE Kinship'
  BY <1>1, <1>2 DEF Fail
<1>3. ASSUME NEW p \in Pids, CommandExits(p) \/ Return(p) PROVE Kinship'
  BY <1>1, <1>3 DEF CommandExits, Return, At
<1>4. ASSUME NEW p \in Pids, UNCHANGED proc_vars \/ \E c \in Pids : Collect(c),
             \/ pc' = pc
             \/ \E to \in {"command", "create", "return", "join", "wait"} : Goto(p, to)
      PROVE  Kinship'
  <2>1. KeepsTable /\ par' = par
    BY <1>0, <1>4, StutterKeeps, CollectKeeps DEF proc_vars, Collect
  <2>2. \A q \in Pids : \/ pc'[q] = pc[q]
                        \/ pc'[q] \in {"command", "create", "return", "join", "wait"}
    BY <1>0, <1>4 DEF Goto
  <2>3. \A q \in Pids : Alive(q)' => Alive(q)
    BY <2>1 DEF KeepsTable
  <2> QED BY <2>1, <2>2, <2>3, KinshipKept DEF Kinship
<1>5. ASSUME NEW p \in Pids, Callsys(p) PROVE Kinship'
  <2>1. CASE Execs(p) \/ FallsThrough(p)
    BY <1>4, <2>1 DEF Execs, FallsThrough
  <2> QED BY <1>3, <1>5, <2>1, KinshipFork DEF Callsys
<1>6. ASSUME NEW p \in Pids, Main(p) PROVE Kinship'
  <2>1. CASE CreateThread(p) \/ CreatedAll(p) \/ JoinThread(p) \/ JoinedAll(p)
    BY <1>4, <2>1 DEF CreateThread, CreatedAll, JoinThread, JoinedAll
  <2>2. CASE Waitpid(p)
    <3>1. AfterWait \in {"return", "create"}
      BY DEF AfterWait
    <3>2. (\E c \in Pids : Collect(c)) /\ Goto(p, AfterWait)
      BY <2>2 DEF Waitpid
    <3> QED BY <1>4, <3>1, <3>2
  <2> QED BY <1>2, <1>3, <1>6, <2>1, <2>2 DEF Main, WaitFails, At
<1>7. CASE ForkFails \/ SystemFails
  <2>1. CASE ForkFails
    BY <1>0, <1>2, <2>1 DEF ForkFails, At
  <2>2. CASE SystemFails
    BY <1>0, <1>4, <2>2 DEF SystemFails
  <2> QED BY <1>7, <2>1, <2>2
<1>8. ASSUME NEW p \in Pids, CreateFails(p) PROVE Kinship'
  BY <1>2, <1>8 DEF CreateFails, At
<1>9. ASSUME NEW p \in Pids, NEW t \in Threads, PrintThreadId(p, t) PROVE Kinship'
  BY <1>4, <1>9 DEF PrintThreadId
<1>10. CASE Signals /\ UNCHANGED <<prog, pc, i, th>>
  <2>1. KeepsTable /\ par' = par
    BY <1>0, <1>10, SignalsKeep
  <2>2. \A q \in Pids : Alive(q)' => Alive(q)
    BY <2>1 DEF KeepsTable
  <2> QED BY <1>10, <2>1, <2>2, KinshipKept DEF Kinship
<1>11. CASE UNCHANGED vars
  BY <1>0, <1>4, <1>11 DEF vars
<1> QED BY <1>5, <1>6, <1>7, <1>8, <1>9, <1>10, <1>11 DEF Next

LEMMA KinshipInvariant == Spec => []Kinship
BY KinshipInitial, KinshipStep, ForkThreadInvariant, PTL DEF Spec

(* A process that waits and has no live child is not blocked.               *)
LEMMA WaitMoves ==
  ASSUME IInv, Kinship, NEW p \in Pids, At(p, "wait"),
         \A c \in Pids : par[c] = p => ~Alive(c)
  PROVE  Moves(p)
<1>1. CASE \A c \in Pids : NoChild(p, c)
  BY <1>1 DEF Moves
<1>2. CASE \E c \in Pids : ~NoChild(p, c)
  <2>1. PICK c \in Pids : par[c] = p /\ st[c] # "gone"
    BY <1>2 DEF NoChild
  <2>2. st[c] # "free"
    BY <2>1, TwoPids DEF Kinship
  <2>3. Zombie(c)
    BY <2>1, <2>2 DEF IInv, TypeOK, ProcTypeOK, Alive, Zombie
  <2>4. Reportable(p, c)
    BY <2>1, <2>3 DEF Reportable, Report, Zombie
  <2> QED BY <2>3, <2>4 DEF Moves
<1> QED BY <1>1, <1>2

(* A process that joins its threads is not blocked.                         *)
LEMMA JoinMoves ==
  ASSUME IInv, NEW p \in Pids, At(p, "join")
  PROVE  Moves(p)
<1>1. CASE i[p] = NumThreads
  BY <1>1 DEF Moves
<1>2. CASE i[p] # NumThreads
  <2>1. i[p] \in 0..NumThreads /\ i[p] + 1 \in Threads /\ ~(i[p] + 1 <= i[p])
    BY <1>2, NumThreadsAssumption DEF IInv, TypeOK, Threads
  <2>2. th[p][i[p] + 1] \in {"run", "exited"}
    BY <2>1 DEF IInv, ThreadsAt, At
  <2> QED BY <2>1, <2>2 DEF Moves
<1> QED BY <1>1, <1>2

(* The programs with a thread pool and a child never come to a point where  *)
(* everybody waits: for any number of threads, and whether the wait comes   *)
(* before the pool, after it or never, a live child, or else its parent,    *)
(* can go on, unless one of them was stopped from outside.                  *)
THEOREM NobodyWaitsInVain == Spec => []SomeoneMoves
<1>1. IInv /\ Kinship => SomeoneMoves
  <2> SUFFICES ASSUME IInv, Kinship, \E p \in Pids : Alive(p),
                      \A p \in Pids : st[p] # "stopped"
               PROVE  \E p \in Pids : Moves(p)
    BY DEF SomeoneMoves
  <2>1. ASSUME NEW p \in Pids, Alive(p), \A c \in Pids : par[c] = p => ~Alive(c)
        PROVE  Moves(p)
    <3>1. st[p] = "run" /\ pc[p] \in PC \ {"done", "failed"} /\ (p # Root => pc[p] # "callsys")
      BY <2>1, TwoPids DEF Alive, IInv, TypeOK, Kinship
    <3>2. CASE pc[p] = "wait"
      BY <2>1, <3>1, <3>2, WaitMoves DEF At
    <3>3. CASE pc[p] = "join"
      BY <2>1, <3>1, <3>3, JoinMoves DEF At
    <3> QED BY <3>1, <3>2, <3>3 DEF Moves, At, PC
  <2>2. CASE Alive(Child)
    <3>1. \A c \in Pids : par[c] # Child
      BY TwoPids DEF Kinship
    <3> QED BY <2>1, <2>2, <3>1, TwoPids
  <2>3. CASE ~Alive(Child)
    <3>1. Alive(Root) /\ par[Root] # Root
      BY <2>3, TwoPids DEF Kinship
    <3> QED BY <2>1, <2>3, <3>1, TwoPids
  <2> QED BY <2>2, <2>3
<1> QED BY <1>1, ForkThreadInvariant, KinshipInvariant, PTL
=============================================================================
