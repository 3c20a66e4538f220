--------------------------- MODULE ParallelProofs ---------------------------
(***************************************************************************)
(* Proofs about the programs that fork without waiting and then wait for   *)
(* one child, for every number of threads and of children, every width and *)
(* depth of the tree, and any number of signals from outside.              *)
(***************************************************************************)
EXTENDS ParallelPrograms, FiniteSetTheorems, WellFoundedInduction, TLAPS

(* What no step but a fork does to the process table: make a process.  And  *)
(* what no step at all does: bring a dead or a reaped process back.         *)
KeepsTable ==
  /\ par' = par
  /\ \A q \in Pids : /\ st[q] = "gone" => st'[q] = "gone"
                     /\ st'[q] = "free" <=> st[q] = "free"
                     /\ Alive(q)' => Alive(q)

(* A child of the first process is reaped by nobody else while that lives.  *)
OnlyWaitReaps ==
  \A c \in Pids : par[c] = Root /\ Alive(Root)' /\ st'[c] = "gone" => st[c] = "gone"

-----------------------------------------------------------------------------
(* parallelfork.c and processesgalore.c.                                    *)

Births ==
  \A t \in Threads : /\ t >= created => tpc[t] = "unborn"
                     /\ tpc[t] = "unborn" => cpid[t] = 0

(* A thread's cpid is a child of the first process, no other thread's, and  *)
(* not reaped before the thread itself waited for it.                       *)
OwnChild ==
  \A t \in Threads : cpid[t] # 0 =>
    /\ par[cpid[t]] = Root /\ st[cpid[t]] # "free"
    /\ \A u \in Threads \ {t} : cpid[u] # cpid[t]
    /\ Alive(Root) /\ tpc[t] # "done" => st[cpid[t]] # "gone"

GaloreInv ==
  /\ prog \in {Galore, Tree}
  /\ prog = Tree => \A t \in Threads : tpc[t] = "unborn"
  /\ prog = Galore => Births /\ OwnChild
  /\ LastChildReaped

-----------------------------------------------------------------------------
(* forktree_and_pthread.c.                                                  *)

Kids(p) == {d \in Pids : par[d] = p}

FreshNodes ==
  \A c \in Pids : st[c] = "free" =>
    npc[c] = "spawn" /\ par[c] = 0 /\ \A d \in Pids : par[d] # c
LoopPoints ==
  \A p \in Pids : /\ npc[p] = "loop" => level[p] # 0
                  /\ npc[p] = "wait" => nfork[p] = width
Counted == \A p \in Pids : Cardinality(Kids(p)) = nfork[p]
Levels == \A c \in Pids : par[c] # 0 => level[c] = level[par[c]] - 1

TreeInv ==
  /\ prog = Galore => \A p \in Pids : npc[p] = "spawn"
  /\ LoopPoints
  /\ prog = Tree => FreshNodes /\ Counted /\ Levels
  /\ OneChildReaped

IInv == TypeOK /\ GaloreInv /\ TreeInv

-----------------------------------------------------------------------------
(* The process table.                                                       *)

LEMMA RootPid == Root \in Pids
BY MaxProcsAssumption DEF Root, Pids

LEMMA StutterKeeps ==
  ASSUME ProcTypeOK, UNCHANGED proc_vars
  PROVE  ProcTypeOK' /\ KeepsTable /\ OnlyWaitReaps
BY DEF proc_vars, ProcTypeOK, KeepsTable, OnlyWaitReaps, Alive

LEMMA BuryKeeps ==
  ASSUME ProcTypeOK, NEW p \in Pids, NEW z \in {"exited", "killed"},
         Alive(p), Bury(p, z), signals' \in 0..MaxSignals
  PROVE  ProcTypeOK' /\ KeepsTable /\ OnlyWaitReaps
<1>1. st' \in [Pids -> {"free", "run", "stopped", "exited", "killed", "gone"}]
  BY DEF Bury, ProcTypeOK
<1>2. rep' \in [Pids -> {"none", "stop", "cont"}] /\ par' = par
  BY DEF Bury, ProcTypeOK
<1>3. ASSUME NEW q \in Pids
      PROVE  /\ st[q] = "gone" => st'[q] = "gone"
             /\ st'[q] = "free" <=> st[q] = "free"
             /\ Alive(q)' => Alive(q)
  BY <1>3 DEF Bury, ProcTypeOK, Alive, Zombie
<1>4. OnlyWaitReaps
  <2> SUFFICES ASSUME NEW c \in Pids, par[c] = Root, Alive(Root)', st'[c] = "gone"
               PROVE  st[c] = "gone"
    BY DEF OnlyWaitReaps
  <2>1. p # Root /\ Alive(Root)
    BY <1>3, RootPid DEF Bury, Alive
  <2>2. ~Orphan(c)
    BY <2>1 DEF Orphan, Root
  <2>3. c # p
    BY <2>2 DEF Bury
  <2> QED BY <2>1, <2>3 DEF Bury
<1> QED BY <1>1, <1>2, <1>3, <1>4 DEF ProcTypeOK, KeepsTable

LEMMA DieKeeps ==
  ASSUME ProcTypeOK, NEW p \in Pids, Alive(p), Die(p, "exited")
  PROVE  ProcTypeOK' /\ KeepsTable /\ OnlyWaitReaps
<1>1. Bury(p, "exited") /\ signals' \in 0..MaxSignals
  BY DEF Die, ProcTypeOK
<1> QED BY <1>1, BuryKeeps

LEMMA SignalsKeep ==
  ASSUME ProcTypeOK, Signals
  PROVE  ProcTypeOK' /\ KeepsTable /\ OnlyWaitReaps
<1>1. PICK p \in Pids : Stop(p) \/ Resume(p) \/ Kill(p)
  BY DEF Signals
<1>2. CASE Stop(p)
  BY <1>2, MaxSignalsAssumption DEF Stop, ProcTypeOK, KeepsTable, OnlyWaitReaps, Alive
<1>3. CASE Resume(p)
  BY <1>3 DEF Resume, ProcTypeOK, KeepsTable, OnlyWaitReaps, Alive
<1>4. CASE Kill(p)
  <2>1. signals' \in 0..MaxSignals /\ Alive(p) /\ Bury(p, "killed")
    BY <1>4, MaxSignalsAssumption DEF Kill, ProcTypeOK
  <2> QED BY <2>1, BuryKeeps
<1> QED BY <1>1, <1>2, <1>3, <1>4

LEMMA CollectKeeps ==
  ASSUME ProcTypeOK, NEW c \in Pids, Collect(c)
  PROVE  /\ ProcTypeOK' /\ KeepsTable
         /\ IF Report(c) \in {"exited", "killed"} THEN st'[c] = "gone" ELSE st'[c] = st[c]
         /\ \A q \in Pids \ {c} : st'[q] = st[q]
<1>1. ProcTypeOK' BY DEF Collect, ProcTypeOK
<1>2. KeepsTable BY DEF Collect, ProcTypeOK, KeepsTable, Zombie, Alive
<1>3. IF Report(c) \in {"exited", "killed"} THEN st'[c] = "gone" ELSE st'[c] = st[c]
  BY DEF Collect, ProcTypeOK, Zombie, Report
<1>4. \A q \in Pids \ {c} : st'[q] = st[q]
  BY DEF Collect, ProcTypeOK
<1> QED BY <1>1, <1>2, <1>3, <1>4

LEMMA ForkType ==
  ASSUME ProcTypeOK, NEW p \in Pids, NEW c \in Pids, ForkAs(p, c)
  PROVE  /\ ProcTypeOK' /\ st[c] = "free"
         /\ st' = [st EXCEPT ![c] = "run"] /\ par' = [par EXCEPT ![c] = p]
<1>1. /\ st[c] = "free" /\ rep' = rep /\ signals' = signals
      /\ st' = [st EXCEPT ![c] = "run"] /\ par' = [par EXCEPT ![c] = p]
  BY DEF ForkAs, NextPid
<1>2. p \in 0..MaxProcs
  BY MaxProcsAssumption DEF Pids
<1>3. ProcTypeOK'
  BY <1>1, <1>2 DEF ProcTypeOK
<1> QED BY <1>1, <1>3

(* The children of a process are finitely many.                             *)
LEMMA KidsFinite ==
  ASSUME NEW p
  PROVE  IsFiniteSet(Kids(p))
<1>1. IsFiniteSet(Pids)
  BY MaxProcsAssumption, FS_Interval DEF Pids
<1> QED BY <1>1, FS_Subset DEF Kids

-----------------------------------------------------------------------------
(* The initial states.                                                      *)

LEMMA ProcInitial ==
  ASSUME NEW n \in 0..MaxSignals, ProcInit(n)
  PROVE  /\ ProcTypeOK
         /\ \A p \in Pids : par[p] = 0 /\ par[p] \notin Pids
<1>1. 0 \in 0..MaxProcs /\ 0 \notin Pids
  BY MaxProcsAssumption DEF Pids
<1> QED BY <1>1 DEF ProcInit, ProcTypeOK

LEMMA ThreadsNat == Threads \subseteq Nat /\ Cardinality(Threads) \in Nat
                    /\ \A t \in Threads : t < Cardinality(Threads)
BY ThreadsAssumption

LEMMA GaloreInitial ==
  ASSUME DoThreadsInit \/ (ParallelInit /\ prog = Galore), prog \in {Galore, Tree}
  PROVE  GaloreTypeOK /\ GaloreInv
<1>1. cpid = [t \in Threads |-> 0] /\ forkno = [t \in Threads |-> 0]
  BY DEF DoThreadsInit, ParallelInit, ForkInit
<1>2. 0 \in 0..MaxProcs
  BY MaxProcsAssumption
<1>3. Galore # Tree
  BY DEF Galore, Tree
<1>4. CASE DoThreadsInit
  <2>1. /\ numforks = [t \in Threads |-> t + 2] /\ created = 0 /\ joined = 0
        /\ tpc = [t \in Threads |-> "unborn"]
    BY <1>4 DEF DoThreadsInit, GaloreForks
  <2>2. GaloreTypeOK
    BY <1>1, <1>2, <2>1, ThreadsNat DEF GaloreTypeOK, ForkTypeOK, TPC
  <2>3. GaloreInv
    BY <1>1, <2>1 DEF GaloreInv, Births, OwnChild, LastChildReaped
  <2> QED BY <2>2, <2>3
<1>5. CASE ParallelInit /\ prog = Galore
  <2>1. PICK n \in ForkChoices : numforks = [t \in Threads |-> IF t = 0 THEN n ELSE 0]
    BY <1>5 DEF ParallelInit
  <2>2. /\ created = Cardinality(Threads) /\ joined = Cardinality(Threads)
        /\ tpc = [t \in Threads |-> IF t = 0 THEN "loop" ELSE "done"]
    BY <1>5 DEF ParallelInit
  <2>3. n \in Nat
    BY ForkChoicesAssumption
  <2>4. GaloreTypeOK
    BY <1>1, <1>2, <2>1, <2>2, <2>3, ThreadsNat DEF GaloreTypeOK, ForkTypeOK, TPC
  <2>5. Births
    BY <1>1, <2>2, ThreadsNat DEF Births
  <2>6. GaloreInv
    BY <1>1, <1>3, <1>5, <2>5 DEF GaloreInv, OwnChild, LastChildReaped
  <2> QED BY <2>4, <2>6
<1> QED BY <1>4, <1>5

LEMMA TreeInitial ==
  ASSUME NEW a \in Nat \X Nat \X (0..MaxSignals), TreeInit(a), ProcInit(a[3])
  PROVE  TreeTypeOK /\ TreeInv
<1>1. a[1] \in Nat /\ a[2] \in Nat /\ a[3] \in 0..MaxSignals
  OBVIOUS
<1>2. /\ width = a[1] /\ level = [p \in Pids |-> IF p = Root THEN a[2] ELSE 0]
      /\ npc = [p \in Pids |-> "spawn"] /\ nfork = [p \in Pids |-> 0]
  BY DEF TreeInit
<1>3. \A p \in Pids : par[p] = 0 /\ par[p] \notin Pids
  BY <1>1, ProcInitial
<1>4. TreeTypeOK
  BY <1>1, <1>2 DEF TreeTypeOK, NPC
<1>5. Counted
  <2> SUFFICES ASSUME NEW p \in Pids PROVE Cardinality(Kids(p)) = 0
    BY <1>2 DEF Counted
  <2>1. Kids(p) = {}
    BY <1>3 DEF Kids
  <2> QED BY <2>1, FS_EmptySet
<1>6. LoopPoints /\ OneChildReaped /\ FreshNodes /\ Levels
  BY <1>2, <1>3 DEF LoopPoints, OneChildReaped, FreshNodes, Levels
<1> QED BY <1>2, <1>4, <1>5, <1>6 DEF TreeInv

LEMMA Initial == Init => IInv
<1> SUFFICES ASSUME Init PROVE IInv
  OBVIOUS
<1>1. CASE prog = Galore /\ ProcInit(MaxSignals) /\ GaloreInit /\ TreeInit(NoTree)
  <2>1. MaxSignals \in 0..MaxSignals
    BY MaxSignalsAssumption
  <2>2. ProcTypeOK /\ \A p \in Pids : par[p] = 0 /\ par[p] \notin Pids
    BY <1>1, <2>1, ProcInitial
  <2>3. GaloreTypeOK /\ GaloreInv
    BY <1>1, GaloreInitial DEF GaloreInit
  <2>4. /\ width = 0 /\ level = [p \in Pids |-> 0]
        /\ npc = [p \in Pids |-> "spawn"] /\ nfork = [p \in Pids |-> 0]
    BY <1>1 DEF TreeInit, NoTree
  <2>5. TreeTypeOK
    BY <2>4 DEF TreeTypeOK, NPC
  <2>6. TreeInv
    BY <1>1, <2>4 DEF TreeInv, LoopPoints, OneChildReaped, Galore, Tree
  <2> QED BY <2>2, <2>3, <2>5, <2>6 DEF IInv, TypeOK
<1>2. CASE /\ prog = Tree /\ DoThreadsInit
           /\ \E args \in Choices : ProcInit(args[3]) /\ TreeInit(args)
  <2>1. PICK a \in Choices : ProcInit(a[3]) /\ TreeInit(a)
    BY <1>2
  <2>2. a \in Nat \X Nat \X (0..MaxSignals)
    BY ChoicesAssumption
  <2>3. a[3] \in 0..MaxSignals
    BY <2>2
  <2>4. ProcTypeOK
    BY <2>1, <2>3, ProcInitial
  <2>5. TreeTypeOK /\ TreeInv
    BY <2>1, <2>2, TreeInitial
  <2>6. GaloreTypeOK /\ GaloreInv
    BY <1>2, GaloreInitial
  <2> QED BY <2>4, <2>5, <2>6 DEF IInv, TypeOK
<1> QED BY <1>1, <1>2 DEF Init

-----------------------------------------------------------------------------
(* parallelfork.c and processesgalore.c, step by step.                      *)

LEMMA CpidPid ==
  ASSUME GaloreTypeOK, NEW t \in Threads, cpid[t] # 0
  PROVE  cpid[t] \in Pids
BY MaxProcsAssumption DEF GaloreTypeOK, ForkTypeOK, Pids

(* A step that makes no process and moves no thread.                        *)
LEMMA GaloreMove ==
  ASSUME GaloreTypeOK, GaloreInv, prog' = prog, UNCHANGED fork_vars, created' = created,
         joined' \in Nat, prog = Galore => KeepsTable /\ OnlyWaitReaps
  PROVE  (GaloreTypeOK /\ GaloreInv)'
<1>1. numforks' = numforks /\ tpc' = tpc /\ forkno' = forkno /\ cpid' = cpid
  BY DEF fork_vars
<1>2. GaloreTypeOK'
  BY <1>1 DEF GaloreTypeOK, ForkTypeOK
<1>3. CASE prog = Tree
  BY <1>1, <1>2, <1>3 DEF GaloreInv, LastChildReaped, Galore, Tree
<1>4. CASE prog = Galore
  <2>1. Births'
    BY <1>1, <1>4 DEF GaloreInv, Births
  <2>2. OwnChild'
    <3> SUFFICES ASSUME NEW t \in Threads, cpid[t] # 0
                 PROVE  /\ par'[cpid[t]] = Root /\ st'[cpid[t]] # "free"
                        /\ \A u \in Threads \ {t} : cpid[u] # cpid[t]
                        /\ Alive(Root)' /\ tpc[t] # "done" => st'[cpid[t]] # "gone"
      BY <1>1 DEF OwnChild
    <3>1. cpid[t] \in Pids
      BY CpidPid
    <3>2. /\ par[cpid[t]] = Root /\ st[cpid[t]] # "free"
          /\ \A u \in Threads \ {t} : cpid[u] # cpid[t]
          /\ Alive(Root) /\ tpc[t] # "done" => st[cpid[t]] # "gone"
      BY <1>4 DEF GaloreInv, OwnChild
    <3> QED BY <1>4, <3>1, <3>2, RootPid DEF KeepsTable, OnlyWaitReaps
  <2>3. LastChildReaped'
    BY <1>1, <1>4, CpidPid DEF GaloreInv, LastChildReaped, KeepsTable
  <2> QED BY <1>2, <1>4, <2>1, <2>2, <2>3 DEF GaloreInv, Galore, Tree
<1> QED BY <1>3, <1>4 DEF GaloreInv

(* A thread moves on, away from "done" or not.                              *)
LEMMA GaloreGoto ==
  ASSUME ProcTypeOK, GaloreTypeOK, GaloreInv, prog = Galore, prog' = prog,
         UNCHANGED proc_vars, NEW t \in Threads, NEW to \in {"loop", "wait", "done"},
         tpc[t] # "done", tpc' = [tpc EXCEPT ![t] = to],
         to = "done" => cpid[t] = 0,
         numforks' = numforks, forkno' = forkno, cpid' = cpid, joined' = joined,
         (created' = created /\ t < created) \/ (t = created /\ created' = created + 1)
  PROVE  (GaloreTypeOK /\ GaloreInv)'
<1>1. GaloreTypeOK'
  BY ThreadsNat DEF GaloreTypeOK, ForkTypeOK, TPC
<1>2. Births'
  BY ThreadsNat DEF GaloreInv, Births, GaloreTypeOK, ForkTypeOK
<1>3. OwnChild'
  BY DEF GaloreInv, OwnChild, GaloreTypeOK, ForkTypeOK, proc_vars, Alive
<1>4. LastChildReaped'
  BY DEF GaloreInv, LastChildReaped, GaloreTypeOK, ForkTypeOK, proc_vars
<1> QED BY <1>1, <1>2, <1>3, <1>4 DEF GaloreInv, Galore, Tree

LEMMA GaloreFork ==
  ASSUME ProcTypeOK, GaloreTypeOK, GaloreInv, prog = Galore, prog' = prog,
         NEW t \in Threads, Fork(t), UNCHANGED <<created, joined>>
  PROVE  (ProcTypeOK /\ GaloreTypeOK /\ GaloreInv)'
<1>1. PICK c \in Pids : ForkAs(Root, c) /\ cpid' = [cpid EXCEPT ![t] = c]
  BY DEF Fork
<1>2. /\ Alive(Root) /\ tpc[t] = "loop" /\ forkno[t] < numforks[t]
      /\ forkno' = [forkno EXCEPT ![t] = @ + 1] /\ numforks' = numforks /\ tpc' = tpc
      /\ created' = created /\ joined' = joined
  BY DEF Fork, At, MoreForks
<1>3. /\ ProcTypeOK' /\ st[c] = "free" /\ st' = [st EXCEPT ![c] = "run"]
      /\ par' = [par EXCEPT ![c] = Root]
  BY <1>1, RootPid, ForkType
<1>4. c # Root /\ c \in 0..MaxProcs /\ c # 0
  BY <1>2, <1>3, MaxProcsAssumption DEF Alive, Pids
<1>5. GaloreTypeOK'
  BY <1>1, <1>2, <1>4 DEF GaloreTypeOK, ForkTypeOK
<1>6. Births'
  BY <1>1, <1>2 DEF GaloreInv, Births, GaloreTypeOK, ForkTypeOK
<1>7. \A u \in Threads : cpid[u] # c
  BY <1>3, <1>4 DEF GaloreInv, OwnChild
<1>8. OwnChild'
  <2> SUFFICES ASSUME NEW u \in Threads, cpid'[u] # 0
               PROVE  /\ par'[cpid'[u]] = Root /\ st'[cpid'[u]] # "free"
                      /\ \A v \in Threads \ {u} : cpid'[v] # cpid'[u]
                      /\ Alive(Root)' /\ tpc[u] # "done" => st'[cpid'[u]] # "gone"
    BY <1>2 DEF OwnChild
  <2>1. CASE u = t
    BY <1>1, <1>3, <1>7, <2>1 DEF ProcTypeOK, GaloreTypeOK, ForkTypeOK
  <2>2. CASE u # t
    <3>1. cpid'[u] = cpid[u] /\ cpid[u] # c /\ cpid[u] \in Pids
      BY <1>1, <1>7, <2>2, CpidPid DEF GaloreTypeOK, ForkTypeOK
    <3>2. /\ par[cpid[u]] = Root /\ st[cpid[u]] # "free"
          /\ \A v \in Threads \ {u} : cpid[v] # cpid[u]
          /\ tpc[u] # "done" => st[cpid[u]] # "gone"
      BY <1>2, <3>1 DEF GaloreInv, OwnChild
    <3> QED BY <1>1, <1>3, <3>1, <3>2 DEF ProcTypeOK, GaloreTypeOK, ForkTypeOK
  <2> QED BY <2>1, <2>2
<1>9. LastChildReaped'
  <2> SUFFICES ASSUME NEW u \in Threads, tpc[u] = "done", cpid'[u] # 0
               PROVE  st'[cpid'[u]] = "gone"
    BY <1>2 DEF LastChildReaped
  <2>1. u # t /\ cpid'[u] = cpid[u] /\ cpid[u] # c
    BY <1>1, <1>2, <1>7 DEF GaloreTypeOK, ForkTypeOK
  <2> QED BY <1>3, <2>1, CpidPid DEF GaloreInv, LastChildReaped, ProcTypeOK
<1> QED BY <1>3, <1>5, <1>6, <1>8, <1>9 DEF GaloreInv, Galore, Tree

(* A thread's wait takes its own child, and no other thread's.              *)
LEMMA GaloreWaits ==
  ASSUME ProcTypeOK, GaloreTypeOK, GaloreInv, prog = Galore, prog' = prog,
         NEW t \in Threads, Waitpid(t), UNCHANGED <<created, joined>>
  PROVE  (ProcTypeOK /\ GaloreTypeOK /\ GaloreInv)'
<1>1. PICK c \in WaitsFor(t) :
        /\ Collect(c)
        /\ IF Ends(Report(c)) THEN tpc' = [tpc EXCEPT ![t] = "done"] ELSE tpc' = tpc
  BY DEF Waitpid, Goto
<1>2. /\ Alive(Root) /\ tpc[t] = "wait" /\ numforks' = numforks /\ forkno' = forkno
      /\ cpid' = cpid /\ created' = created /\ joined' = joined
  BY DEF Waitpid, At
<1>3. c \in Pids /\ cpid[t] = c
  BY DEF WaitsFor
<1>4. /\ ProcTypeOK' /\ KeepsTable
      /\ IF Ends(Report(c)) THEN st'[c] = "gone" ELSE st'[c] = st[c]
      /\ \A q \in Pids \ {c} : st'[q] = st[q]
  BY <1>1, <1>3, CollectKeeps DEF Ends
<1>5. GaloreTypeOK'
  BY <1>1, <1>2 DEF GaloreTypeOK, ForkTypeOK, TPC
<1>6. Births'
  BY <1>1, <1>2 DEF GaloreInv, Births, GaloreTypeOK, ForkTypeOK
<1>7. c # 0
  BY <1>3, MaxProcsAssumption DEF Pids
<1>8. \A u \in Threads \ {t} : cpid[u] # c
  BY <1>3, <1>7 DEF GaloreInv, OwnChild
<1>9. OwnChild'
  <2> SUFFICES ASSUME NEW u \in Threads, cpid[u] # 0
               PROVE  /\ par'[cpid[u]] = Root /\ st'[cpid[u]] # "free"
                      /\ \A v \in Threads \ {u} : cpid[v] # cpid[u]
                      /\ Alive(Root)' /\ tpc'[u] # "done" => st'[cpid[u]] # "gone"
    BY <1>2 DEF OwnChild
  <2>1. /\ cpid[u] \in Pids /\ par[cpid[u]] = Root /\ st[cpid[u]] # "free"
        /\ \A v \in Threads \ {u} : cpid[v] # cpid[u]
        /\ tpc[u] # "done" => st[cpid[u]] # "gone"
    BY <1>2, CpidPid DEF GaloreInv, OwnChild
  <2>2. par'[cpid[u]] = Root /\ st'[cpid[u]] # "free"
    BY <1>4, <2>1 DEF KeepsTable
  <2>3. tpc'[u] # "done" => st'[cpid[u]] # "gone"
    <3>1. CASE u = t
      BY <1>1, <1>2, <1>3, <1>4, <2>1, <3>1 DEF GaloreTypeOK, ForkTypeOK
    <3>2. CASE u # t
      <4>1. tpc'[u] = tpc[u] /\ st'[cpid[u]] = st[cpid[u]]
        BY <1>1, <1>4, <1>8, <2>1, <3>2 DEF GaloreTypeOK, ForkTypeOK
      <4> QED BY <2>1, <4>1
    <3> QED BY <3>1, <3>2
  <2> QED BY <2>1, <2>2, <2>3
<1>10. LastChildReaped'
  <2> SUFFICES ASSUME NEW u \in Threads, tpc'[u] = "done", cpid[u] # 0
               PROVE  st'[cpid[u]] = "gone"
    BY <1>2 DEF LastChildReaped
  <2>1. CASE u = t
    BY <1>1, <1>2, <1>3, <1>4, <2>1 DEF GaloreTypeOK, ForkTypeOK
  <2>2. CASE u # t
    <3>1. tpc[u] = "done"
      BY <1>1, <2>2 DEF GaloreTypeOK, ForkTypeOK
    <3>2. st[cpid[u]] = "gone" /\ cpid[u] \in Pids
      BY <3>1, CpidPid DEF GaloreInv, LastChildReaped
    <3> QED BY <1>4, <3>2 DEF KeepsTable
  <2> QED BY <2>1, <2>2
<1> QED BY <1>4, <1>5, <1>6, <1>9, <1>10 DEF GaloreInv, Galore, Tree

(* A thread that waits has its child, so that its wait fails only when it   *)
(* forked none.                                                             *)
LEMMA ChildThere ==
  ASSUME ProcTypeOK, GaloreTypeOK, GaloreInv
  PROVE  WaitHasChild
<1> SUFFICES ASSUME NEW t \in Threads, Alive(Root), tpc[t] = "wait", cpid[t] # 0
             PROVE  ~NoChild(Root, cpid[t])
  BY DEF WaitHasChild, At
<1>1. prog = Galore
  BY DEF GaloreInv
<1> QED BY <1>1 DEF GaloreInv, OwnChild, NoChild

LEMMA GaloreStep ==
  ASSUME ProcTypeOK, GaloreTypeOK, GaloreInv, AsGalore, GaloreNext
  PROVE  (ProcTypeOK /\ GaloreTypeOK /\ GaloreInv)'
<1>0. prog = Galore /\ prog' = prog
  BY DEF AsGalore
<1>1. CASE CreateThread
  <2>1. /\ created \in Threads /\ tpc' = [tpc EXCEPT ![created] = "loop"]
        /\ created' = created + 1 /\ joined' = joined
        /\ UNCHANGED proc_vars /\ numforks' = numforks /\ forkno' = forkno /\ cpid' = cpid
    BY <1>1 DEF CreateThread, Goto
  <2>2. tpc[created] # "done"
    BY <1>0, <2>1, ThreadsNat DEF GaloreInv, Births
  <2> QED BY <1>0, <2>1, <2>2, GaloreGoto, StutterKeeps
<1>2. CASE JoinThread
  <2>1. /\ UNCHANGED proc_vars /\ UNCHANGED fork_vars /\ created' = created
        /\ joined' \in Nat
    BY <1>2 DEF JoinThread, GaloreTypeOK
  <2> QED BY <1>0, <2>1, GaloreMove, StutterKeeps
<1>3. CASE \/ CreateFails \/ MainReturns
           \/ \E t \in Threads : DoThreadFails(t)
           \/ \E c \in Pids : ForkedChild(c)
  <2>1. /\ UNCHANGED fork_vars /\ created' = created /\ joined' = joined
        /\ \E c \in Pids : Alive(c) /\ Die(c, "exited")
    BY <1>3, RootPid DEF CreateFails, MainReturns, Return, DoThreadFails, ForkFails, At,
                        ForkedChild, ChildExits, Alive
  <2>2. joined' \in Nat
    BY <2>1 DEF GaloreTypeOK
  <2> QED BY <1>0, <2>1, <2>2, DieKeeps, GaloreMove
<1>4. CASE Signals /\ UNCHANGED <<fork_vars, created, joined>>
  <2>1. joined' \in Nat
    BY <1>4 DEF GaloreTypeOK
  <2> QED BY <1>0, <1>4, <2>1, SignalsKeep, GaloreMove
<1>5. ASSUME NEW t \in Threads, DoThread(t)
      PROVE  (ProcTypeOK /\ GaloreTypeOK /\ GaloreInv)'
  <2>1. created' = created /\ joined' = joined
    BY <1>5 DEF DoThread
  <2>2. tpc[t] \in {"loop", "wait"} => t < created
    BY <1>0, ThreadsNat DEF GaloreInv, Births, GaloreTypeOK
  <2>3. CASE Fork(t)
    BY <1>0, <2>1, <2>3, GaloreFork
  <2>4. CASE AllForked(t)
    <3>1. /\ tpc[t] = "loop" /\ tpc' = [tpc EXCEPT ![t] = "wait"] /\ UNCHANGED proc_vars
          /\ numforks' = numforks /\ forkno' = forkno /\ cpid' = cpid
      BY <2>4 DEF AllForked, At, Goto
    <3> QED BY <1>0, <2>1, <2>2, <3>1, GaloreGoto, StutterKeeps
  <2>5. CASE Waitpid(t)
    BY <1>0, <2>1, <2>5, GaloreWaits
  <2>6. CASE WaitFails(t)
    <3>1. /\ Alive(Root) /\ tpc[t] = "wait" /\ tpc' = [tpc EXCEPT ![t] = "done"]
          /\ UNCHANGED proc_vars
          /\ numforks' = numforks /\ forkno' = forkno /\ cpid' = cpid
          /\ \A c \in WaitsFor(t) : NoChild(Root, c)
      BY <2>6 DEF WaitFails, At, Goto
    <3>2. cpid[t] = 0
      BY <3>1, ChildThere, CpidPid DEF WaitHasChild, At, WaitsFor
    <3> QED BY <1>0, <2>1, <2>2, <3>1, <3>2, GaloreGoto, StutterKeeps
  <2> QED BY <1>5, <2>3, <2>4, <2>5, <2>6 DEF DoThread, Thread
<1> QED BY <1>1, <1>2, <1>3, <1>4, <1>5 DEF GaloreNext, Main, Outside

-----------------------------------------------------------------------------
(* forktree_and_pthread.c, step by step.                                    *)

(* A step that makes no process and leaves the loop indices alone.          *)
LEMMA TreeMove ==
  ASSUME ProcTypeOK, TreeTypeOK, TreeInv, prog' = prog, KeepsTable,
         width' = width, level' = level, nfork' = nfork,
         NEW p \in Pids, NEW to \in NPC, npc' = [npc EXCEPT ![p] = to],
         to # npc[p] => prog = Tree /\ st[p] # "free",
         to = "loop" => level[p] # 0,
         to = "wait" => nfork[p] = width,
         to = "after" /\ width > 0 => \E c \in Pids : par[c] = p /\ st'[c] = "gone"
  PROVE  (TreeTypeOK /\ TreeInv)'
<1>1. TreeTypeOK'
  BY DEF TreeTypeOK
<1>2. (prog = Galore => \A q \in Pids : npc[q] = "spawn")'
  BY DEF TreeInv, TreeTypeOK, Galore, Tree
<1>3. LoopPoints'
  BY DEF TreeInv, LoopPoints, TreeTypeOK
<1>4. ASSUME prog = Tree PROVE FreshNodes' /\ Counted' /\ Levels'
  <2>1. FreshNodes'
    BY <1>4 DEF TreeInv, FreshNodes, TreeTypeOK, KeepsTable
  <2>2. Counted'
    BY <1>4 DEF TreeInv, Counted, Kids, KeepsTable
  <2>3. Levels'
    BY <1>4 DEF TreeInv, Levels, KeepsTable
  <2> QED BY <2>1, <2>2, <2>3
<1>5. OneChildReaped'
  <2> SUFFICES ASSUME NEW q \in Pids, npc'[q] = "after", width > 0
               PROVE  \E c \in Pids : par'[c] = q /\ st'[c] = "gone"
    BY DEF OneChildReaped
  <2>1. CASE q = p /\ to = "after"
    BY <2>1 DEF KeepsTable
  <2>2. CASE q # p
    BY <2>2 DEF TreeInv, OneChildReaped, TreeTypeOK, KeepsTable
  <2> QED BY <2>1, <2>2 DEF TreeTypeOK
<1> QED BY <1>1, <1>2, <1>3, <1>4, <1>5 DEF TreeInv

LEMMA TreeForks ==
  ASSUME ProcTypeOK, TreeTypeOK, TreeInv, prog = Tree, prog' = prog,
         NEW p \in Pids, TreeFork(p)
  PROVE  (ProcTypeOK /\ TreeTypeOK /\ TreeInv)'
<1>1. PICK c \in Pids : ForkAs(p, c) /\ level' = [level EXCEPT ![c] = level[p] - 1]
  BY DEF TreeFork, ChildLevel
<1>2. /\ st[p] = "run" /\ npc[p] = "loop" /\ nfork[p] < width
      /\ nfork' = [nfork EXCEPT ![p] = @ + 1] /\ width' = width /\ npc' = npc
  BY DEF TreeFork, NodeAt, MoreNodes
<1>3. /\ ProcTypeOK' /\ st[c] = "free" /\ p # c
      /\ st' = [st EXCEPT ![c] = "run"] /\ par' = [par EXCEPT ![c] = p]
  BY <1>1, <1>2, ForkType
<1>4. npc[c] = "spawn" /\ par[c] = 0 /\ \A d \in Pids : par[d] # c
  BY <1>3 DEF TreeInv, FreshNodes
<1>5. level[p] - 1 \in Nat /\ nfork[p] + 1 \in 0..width
  BY <1>2 DEF TreeInv, LoopPoints, TreeTypeOK
<1>6. TreeTypeOK'
  BY <1>1, <1>2, <1>5 DEF TreeTypeOK
<1>7. LoopPoints'
  BY <1>1, <1>2, <1>3, <1>4 DEF TreeInv, LoopPoints, TreeTypeOK
<1>8. FreshNodes'
  BY <1>2, <1>3 DEF TreeInv, FreshNodes, ProcTypeOK
<1>9. p # 0
  BY MaxProcsAssumption DEF Pids
<1>10. Counted'
  <2> SUFFICES ASSUME NEW q \in Pids PROVE Cardinality(Kids(q)') = nfork'[q]
    BY DEF Counted
  <2>1. CASE q = p
    <3>1. Kids(q)' = Kids(q) \cup {c} /\ c \notin Kids(q)
      BY <1>3, <1>4, <1>9, <2>1 DEF Kids, ProcTypeOK
    <3>2. Cardinality(Kids(q) \cup {c}) = Cardinality(Kids(q)) + 1
      BY <3>1, KidsFinite, FS_AddElement
    <3> QED BY <1>2, <2>1, <3>1, <3>2 DEF TreeInv, Counted, TreeTypeOK
  <2>2. CASE q # p
    <3>1. Kids(q)' = Kids(q)
      BY <1>3, <1>4, <2>2, MaxProcsAssumption DEF Kids, ProcTypeOK, Pids
    <3> QED BY <1>2, <2>2, <3>1 DEF TreeInv, Counted, TreeTypeOK
  <2> QED BY <2>1, <2>2
<1>11. Levels'
  <2> SUFFICES ASSUME NEW d \in Pids, par'[d] # 0
               PROVE  level'[d] = level'[par'[d]] - 1
    BY DEF Levels
  <2>1. CASE d = c
    BY <1>1, <1>3, <2>1 DEF ProcTypeOK, TreeTypeOK
  <2>2. CASE d # c
    <3>1. par'[d] = par[d] /\ par[d] \in Pids /\ par[d] # c
      BY <1>3, <1>4, <2>2, MaxProcsAssumption DEF ProcTypeOK, Pids
    <3> QED BY <1>1, <2>2, <3>1 DEF TreeInv, Levels, TreeTypeOK
  <2> QED BY <2>1, <2>2
<1>12. OneChildReaped'
  <2> SUFFICES ASSUME NEW q \in Pids, npc[q] = "after", width > 0
               PROVE  \E d \in Pids : par'[d] = q /\ st'[d] = "gone"
    BY <1>2 DEF OneChildReaped
  <2>1. PICK d \in Pids : par[d] = q /\ st[d] = "gone"
    BY DEF TreeInv, OneChildReaped
  <2> QED BY <1>3, <2>1 DEF ProcTypeOK
<1> QED BY <1>3, <1>6, <1>7, <1>8, <1>10, <1>11, <1>12 DEF TreeInv, Galore, Tree

LEMMA TreeStep ==
  ASSUME ProcTypeOK, TreeTypeOK, TreeInv, AsTree, TreeNext
  PROVE  (ProcTypeOK /\ TreeTypeOK /\ TreeInv)'
<1>0. prog = Tree /\ prog' = prog
  BY DEF AsTree
<1>1. CASE Signals /\ UNCHANGED node_vars
  <2>1. width' = width /\ level' = level /\ nfork' = nfork /\ npc' = npc
    BY <1>1 DEF node_vars
  <2>2. npc' = [npc EXCEPT ![Root] = npc[Root]] /\ npc[Root] \in NPC
    BY <2>1, RootPid DEF TreeTypeOK
  <2>3. ProcTypeOK' /\ KeepsTable
    BY <1>1, SignalsKeep
  <2>4. npc[Root] = "after" /\ width > 0 => \E c \in Pids : par[c] = Root /\ st'[c] = "gone"
    BY <2>3, RootPid DEF TreeInv, OneChildReaped, KeepsTable
  <2>5. /\ npc[Root] = "loop" => level[Root] # 0
        /\ npc[Root] = "wait" => nfork[Root] = width
    BY RootPid DEF TreeInv, LoopPoints
  <2> QED BY <1>0, <2>1, <2>2, <2>3, <2>4, <2>5, RootPid, TreeMove
<1>2. ASSUME NEW p \in Pids, Node(p) \/ SpawnFails(p)
      PROVE  (ProcTypeOK /\ TreeTypeOK /\ TreeInv)'
  <2>1. CASE TreeFork(p)
    BY <1>0, <2>1, TreeForks
  <2>2. CASE Spawnforks(p)
    <3> DEFINE to == IF level[p] = 0 THEN "threads" ELSE "loop"
    <3>1. /\ st[p] = "run" /\ npc' = [npc EXCEPT ![p] = to] /\ UNCHANGED proc_vars
          /\ width' = width /\ level' = level /\ nfork' = nfork
      BY <2>2 DEF Spawnforks, NodeAt, NodeGoto
    <3>2. to \in NPC /\ (to = "loop" => level[p] # 0) /\ to # "wait" /\ to # "after"
      BY DEF NPC
    <3> HIDE DEF to
    <3> QED BY <1>0, <3>1, <3>2, StutterKeeps, TreeMove
  <2>3. CASE AllNodesForked(p)
    <3>1. /\ st[p] = "run" /\ npc' = [npc EXCEPT ![p] = "wait"] /\ UNCHANGED proc_vars
          /\ nfork[p] = width
          /\ width' = width /\ level' = level /\ nfork' = nfork
      BY <2>3 DEF AllNodesForked, NodeAt, NodeGoto, NodesDone
    <3>2. "wait" \in NPC BY DEF NPC
    <3> QED BY <1>0, <3>1, <3>2, StutterKeeps, TreeMove
  <2>4. CASE Waitchildren(p)
    <3>1. PICK c \in Pids :
            /\ Reportable(p, c) /\ Collect(c)
            /\ IF NodeEnds(Report(c)) THEN npc' = [npc EXCEPT ![p] = "after"] ELSE npc' = npc
      BY <2>4 DEF Waitchildren, NodeGoto
    <3>2. /\ st[p] = "run" /\ npc[p] = "wait"
          /\ width' = width /\ level' = level /\ nfork' = nfork
      BY <2>4 DEF Waitchildren, NodeAt
    <3>3. /\ ProcTypeOK' /\ KeepsTable /\ par[c] = p
          /\ NodeEnds(Report(c)) => st'[c] = "gone"
      BY <3>1, CollectKeeps DEF NodeEnds, Reportable
    <3> DEFINE to == IF NodeEnds(Report(c)) THEN "after" ELSE "wait"
    <3>4. npc' = [npc EXCEPT ![p] = to] /\ to \in NPC
      BY <3>1, <3>2 DEF TreeTypeOK, NPC
    <3>5. /\ to # "loop" /\ (to = "wait" => nfork[p] = width)
          /\ (to = "after" => \E d \in Pids : par[d] = p /\ st'[d] = "gone")
      BY <3>2, <3>3 DEF TreeInv, LoopPoints
    <3> HIDE DEF to
    <3> QED BY <1>0, <3>2, <3>3, <3>4, <3>5, TreeMove
  <2>5. CASE NoChildren(p)
    <3>1. /\ st[p] = "run" /\ npc[p] = "wait" /\ npc' = [npc EXCEPT ![p] = "after"]
          /\ UNCHANGED proc_vars /\ \A c \in Pids : NoChild(p, c)
          /\ width' = width /\ level' = level /\ nfork' = nfork
      BY <2>5 DEF NoChildren, NodeAt, NodeGoto
    <3>2. ASSUME width > 0 PROVE \E c \in Pids : par[c] = p /\ st'[c] = "gone"
      <4>1. Cardinality(Kids(p)) = width /\ width # 0
        BY <1>0, <3>1, <3>2 DEF TreeInv, LoopPoints, Counted, TreeTypeOK
      <4>2. Kids(p) # {}
        BY <4>1, KidsFinite, FS_EmptySet
      <4> QED BY <3>1, <4>2 DEF Kids, NoChild, proc_vars
    <3>3. "after" \in NPC BY DEF NPC
    <3> QED BY <1>0, <3>1, <3>2, <3>3, StutterKeeps, TreeMove
  <2>6. CASE NodeExit(p) \/ SpawnFails(p)
    <3>1. /\ st[p] = "run" /\ Alive(p) /\ Die(p, "exited")
          /\ \E to \in {"done", "failed"} : npc' = [npc EXCEPT ![p] = to]
          /\ width' = width /\ level' = level /\ nfork' = nfork
      BY <2>6 DEF NodeExit, SpawnFails, NodeAt, NodeGoto, Alive
    <3>2. ProcTypeOK' /\ KeepsTable
      BY <3>1, DieKeeps
    <3>3. PICK to \in {"done", "failed"} : npc' = [npc EXCEPT ![p] = to]
      BY <3>1
    <3>4. to \in NPC BY DEF NPC
    <3> QED BY <1>0, <3>1, <3>2, <3>3, <3>4, TreeMove
  <2> QED BY <1>2, <2>1, <2>2, <2>3, <2>4, <2>5, <2>6 DEF Node
<1> QED BY <1>1, <1>2 DEF TreeNext

-----------------------------------------------------------------------------
LEMMA Step ==
  ASSUME IInv, [Next]_vars
  PROVE  IInv'
<1>1. CASE AsGalore /\ GaloreNext
  <2>1. /\ prog = Galore /\ prog' = prog /\ width' = width /\ npc' = npc
        /\ level' = level /\ nfork' = nfork
    BY <1>1 DEF AsGalore, node_vars
  <2>2. (ProcTypeOK /\ GaloreTypeOK /\ GaloreInv)'
    BY <1>1, GaloreStep DEF IInv, TypeOK
  <2>3. TreeTypeOK'
    BY <2>1 DEF IInv, TypeOK, TreeTypeOK
  <2>4. TreeInv'
    BY <2>1 DEF IInv, TreeInv, LoopPoints, OneChildReaped, Galore, Tree
  <2> QED BY <2>2, <2>3, <2>4 DEF IInv, TypeOK
<1>2. CASE AsTree /\ TreeNext
  <2>1. prog = Tree /\ prog' = prog /\ UNCHANGED galore_vars /\ prog # Galore
    BY <1>2 DEF AsTree, Galore, Tree
  <2>2. UNCHANGED fork_vars /\ created' = created /\ joined' \in Nat
    BY <2>1 DEF galore_vars, IInv, TypeOK, GaloreTypeOK
  <2>3. (GaloreTypeOK /\ GaloreInv)'
    BY <2>1, <2>2, GaloreMove DEF IInv, TypeOK
  <2>4. (ProcTypeOK /\ TreeTypeOK /\ TreeInv)'
    BY <1>2, TreeStep DEF IInv, TypeOK
  <2> QED BY <2>3, <2>4 DEF IInv, TypeOK
<1>3. CASE UNCHANGED vars
  <2>1. /\ UNCHANGED proc_vars /\ prog' = prog /\ UNCHANGED fork_vars
        /\ created' = created /\ joined' = joined
        /\ width' = width /\ npc' = npc /\ level' = level /\ nfork' = nfork
    BY <1>3 DEF vars, galore_vars, node_vars
  <2>2. ProcTypeOK' /\ KeepsTable /\ OnlyWaitReaps
    BY <2>1, StutterKeeps DEF IInv, TypeOK
  <2>3. joined' \in Nat
    BY <2>1 DEF IInv, TypeOK, GaloreTypeOK
  <2>4. (GaloreTypeOK /\ GaloreInv)'
    BY <2>1, <2>2, <2>3, GaloreMove DEF IInv, TypeOK
  <2>5. TreeTypeOK'
    BY <2>1 DEF IInv, TypeOK, TreeTypeOK
  <2>6. TreeInv'
    BY <2>1 DEF IInv, TreeInv, LoopPoints, OneChildReaped, FreshNodes, Counted, Levels, Kids,
                proc_vars
  <2> QED BY <2>2, <2>4, <2>5, <2>6 DEF IInv, TypeOK
<1> QED BY <1>1, <1>2, <1>3 DEF Next

(* The invariant of the programs that fork in parallel: the types, that     *)
(* each thread's cpid is a child of its own that nobody else can reap, and  *)
(* that each node of the tree has as many children as its loop has counted. *)
THEOREM ParallelInvariant == Spec => []IInv
BY Initial, Step, PTL DEF Spec

(* parallelfork.c and processesgalore.c: however stops, continues and kills *)
(* fall between the waits, a thread leaves its wait loop with its last      *)
(* child reaped.                                                            *)
THEOREM ReapsLastChild == Spec => []LastChildReaped
<1>1. IInv => LastChildReaped
  BY DEF IInv, GaloreInv
<1> QED BY <1>1, ParallelInvariant, PTL

(* processesgalore.c: with any number of threads in one process, no         *)
(* thread's waitpid takes the child that another one waits for.             *)
THEOREM KeepsItsChild == Spec => []WaitHasChild
<1>1. IInv => WaitHasChild
  BY ChildThere DEF IInv, TypeOK
<1> QED BY <1>1, ParallelInvariant, PTL

(* forktree_and_pthread.c: a process that has forked passes waitchildren    *)
(* only with one of its children dead and reaped, also when waitpid finds   *)
(* no child.                                                                *)
THEOREM TreeReapsOne == Spec => []OneChildReaped
<1>1. IInv => OneChildReaped
  BY DEF IInv, TreeInv
<1> QED BY <1>1, ParallelInvariant, PTL

(* forktree_and_pthread.c: no process has more than numforks children, and  *)
(* each is one level below its parent, so that the recursion stops at level *)
(* 0.                                                                       *)
THEOREM TreeBounded == Spec => []TreeShape
<1>1. IInv => TreeShape
  <2> SUFFICES ASSUME IInv, npc[Root] # "spawn", NEW c \in Created
               PROVE  /\ par[c] # 0 => level[c] = level[par[c]] - 1
                      /\ Cardinality({d \in Pids : par[d] = c}) <= width
    BY DEF TreeShape
  <2>1. prog = Tree
    BY RootPid DEF IInv, GaloreInv, TreeInv
  <2>2. c \in Pids
    BY DEF Created
  <2>3. Levels /\ Counted
    BY <2>1 DEF IInv, TreeInv
  <2>4. nfork[c] \in 0..width
    BY <2>2 DEF IInv, TypeOK, TreeTypeOK
  <2>5. Cardinality({d \in Pids : par[d] = c}) <= width
    BY <2>2, <2>3, <2>4 DEF Counted, Kids, IInv, TypeOK, TreeTypeOK
  <2> QED BY <2>2, <2>3, <2>5 DEF Levels
<1> QED BY <1>1, ParallelInvariant, PTL

-----------------------------------------------------------------------------
(* Nobody waits in vain.  In the tree process numbers are given in order,   *)
(* so that a child is younger than its parent, and only a dead process has  *)
(* finished; in the other two a thread main has created is born, and the    *)
(* first process is not its own child.                                      *)
Contiguous == \A d, e \in Pids : d < e /\ st[e] # "free" => st[d] # "free"
Younger == \A c \in Pids : par[c] < c
Working == \A p \in Pids : Alive(p) => npc[p] \notin {"done", "failed"}
Kinship == Contiguous /\ Younger /\ Working
Born == \A t \in Threads : tpc[t] = "unborn" => t >= created

NotOwnChild == par[Root] # Root

Order == (prog = Tree => Kinship) /\ (prog = Galore => Born /\ NotOwnChild)

(* A process of the tree is not blocked: its next line can be executed, or  *)
(* its waitpid returns, with a report or with ECHILD.                       *)
NodeMoves(p) ==
  \/ \E at \in {"spawn", "threads", "loop", "after"} : NodeAt(p, at)
  \/ /\ NodeAt(p, "wait")
     /\ (\E c \in Pids : Reportable(p, c)) \/ (\A c \in Pids : NoChild(p, c))

(* The same for main, a thread and a child of the other two programs.       *)
MainMoves ==
  /\ Alive(Root)
  /\ \/ created \in Threads
     \/ joined \in Threads /\ tpc[joined] = "done"
     \/ joined \notin Threads /\ ThreadsDone
ThreadMoves(t) ==
  \/ At(t, "loop")
  \/ /\ At(t, "wait")
     /\ (\E c \in WaitsFor(t) : Reportable(Root, c)) \/ (\A c \in WaitsFor(t) : NoChild(Root, c))
ChildMoves(c) == c # Root /\ st[c] = "run"

(* As long as a process is left, one of them, or one of its threads, is not *)
(* blocked, unless one was stopped from outside.                            *)
SomeoneMoves ==
  (\E p \in Pids : Alive(p)) /\ (\A p \in Pids : st[p] # "stopped") =>
    IF prog = Tree THEN \E p \in Pids : NodeMoves(p)
    ELSE MainMoves \/ (\E t \in Threads : ThreadMoves(t)) \/ (\E c \in Pids : ChildMoves(c))

(* A set of process numbers that is not empty has a greatest one.           *)
LEMMA Youngest ==
  ASSUME NEW S \in SUBSET Pids, S # {}
  PROVE  \E p \in S : \A q \in S : q <= p
<1>0. MaxProcs \in Nat /\ \A q \in S : q \in 1..MaxProcs
  BY MaxProcsAssumption DEF Pids
<1> DEFINE T == {MaxProcs - q : q \in S}
<1>1. T \in SUBSET Nat /\ T # {}
  BY <1>0
<1> HIDE DEF T
<1>2. PICK k \in T : \A j \in T : ~(<<j, k>> \in OpToRel(<, Nat))
  BY <1>1, NatLessThanWellFounded, WFMin
<1>3. k \in Nat /\ \A j \in T : j \in Nat /\ ~(j < k)
  BY <1>1, <1>2 DEF OpToRel
<1>4. PICK p \in S : k = MaxProcs - p
  BY DEF T
<1>5. ASSUME NEW q \in S PROVE q <= p
  <2>1. MaxProcs - q \in T
    BY DEF T
  <2>2. ~(MaxProcs - q < MaxProcs - p)
    BY <1>3, <1>4, <2>1
  <2> QED BY <1>0, <2>2
<1> QED BY <1>5

(* A step of the tree that forks nobody.                                    *)
LEMMA KinshipKept ==
  ASSUME Kinship, KeepsTable,
         \A q \in Pids : Alive(q)' => npc'[q] \notin {"done", "failed"}
  PROVE  Kinship'
BY DEF Kinship, Contiguous, Younger, Working, KeepsTable

LEMMA KinshipFork ==
  ASSUME ProcTypeOK, TreeTypeOK, FreshNodes, Kinship, NEW p \in Pids, TreeFork(p)
  PROVE  Kinship'
<1>1. PICK c \in Pids : ForkAs(p, c)
  BY DEF TreeFork
<1>2. st[p] = "run" /\ npc' = npc
  BY DEF TreeFork, NodeAt
<1>3. /\ st[c] = "free" /\ p # c
      /\ st' = [st EXCEPT ![c] = "run"] /\ par' = [par EXCEPT ![c] = p]
      /\ \A d \in Pids : d < c => st[d] # "free"
  BY <1>1, <1>2, ForkType DEF ForkAs, NextPid
<1>4. /\ st'[c] = "run" /\ par'[c] = p
      /\ \A q \in Pids \ {c} : st'[q] = st[q] /\ par'[q] = par[q]
  BY <1>3 DEF ProcTypeOK
<1>5. p < c
  <2>1. ~(c < p)
    BY <1>2, <1>3 DEF Kinship, Contiguous
  <2> QED BY <1>3, <2>1 DEF Pids
<1>6. Contiguous'
  <2> SUFFICES ASSUME NEW d \in Pids, NEW e \in Pids, d < e, st'[e] # "free"
               PROVE  st'[d] # "free"
    BY DEF Contiguous
  <2> QED BY <1>3, <1>4 DEF Kinship, Contiguous
<1>7. Younger'
  BY <1>4, <1>5 DEF Kinship, Younger
<1>8. Working'
  <2>1. npc[c] = "spawn"
    BY <1>3 DEF FreshNodes
  <2> QED BY <1>2, <1>4, <2>1 DEF Kinship, Working, Alive
<1> QED BY <1>6, <1>7, <1>8 DEF Kinship

LEMMA KinshipStep ==
  ASSUME ProcTypeOK, TreeTypeOK, FreshNodes, Kinship, TreeNext
  PROVE  Kinship'
<1>1. CASE Signals /\ UNCHANGED node_vars
  <2>1. KeepsTable
    BY <1>1, SignalsKeep
  <2>2. \A q \in Pids : Alive(q)' => npc'[q] \notin {"done", "failed"}
    BY <1>1, <2>1 DEF KeepsTable, Kinship, Working, node_vars
  <2> QED BY <2>1, <2>2, KinshipKept
<1>2. ASSUME NEW p \in Pids, Node(p) \/ SpawnFails(p) PROVE Kinship'
  <2>1. CASE TreeFork(p)
    BY <2>1, KinshipFork
  <2>2. CASE Spawnforks(p) \/ AllNodesForked(p) \/ NoChildren(p)
    <3>1. PICK to \in {"threads", "loop", "wait", "after"} :
            npc' = [npc EXCEPT ![p] = to] /\ UNCHANGED proc_vars
      BY <2>2 DEF Spawnforks, AllNodesForked, NoChildren, NodeGoto
    <3>2. KeepsTable
      BY <3>1, StutterKeeps
    <3>3. \A q \in Pids : Alive(q)' => npc'[q] \notin {"done", "failed"}
      BY <3>1, <3>2 DEF KeepsTable, Kinship, Working, TreeTypeOK
    <3> QED BY <3>2, <3>3, KinshipKept
  <2>3. CASE Waitchildren(p)
    <3>1. PICK c \in Pids :
            Collect(c) /\ (npc' = npc \/ npc' = [npc EXCEPT ![p] = "after"])
      BY <2>3 DEF Waitchildren, NodeGoto
    <3>2. KeepsTable
      BY <3>1, CollectKeeps
    <3>3. \A q \in Pids : Alive(q)' => npc'[q] \notin {"done", "failed"}
      BY <3>1, <3>2 DEF KeepsTable, Kinship, Working, TreeTypeOK
    <3> QED BY <3>2, <3>3, KinshipKept
  <2>4. CASE NodeExit(p) \/ SpawnFails(p)
    <3>1. /\ Alive(p) /\ Die(p, "exited")
          /\ \E to \in {"done", "failed"} : npc' = [npc EXCEPT ![p] = to]
      BY <2>4 DEF NodeExit, SpawnFails, NodeAt, NodeGoto, Alive
    <3>2. KeepsTable
      BY <3>1, DieKeeps
    <3>3. ~Alive(p)'
      BY <3>1 DEF Die, Bury, Alive
    <3>4. \A q \in Pids : Alive(q)' => npc'[q] \notin {"done", "failed"}
      BY <3>1, <3>2, <3>3 DEF KeepsTable, Kinship, Working, TreeTypeOK
    <3> QED BY <3>2, <3>4, KinshipKept
  <2> QED BY <1>2, <2>1, <2>2, <2>3, <2>4 DEF Node
<1> QED BY <1>1, <1>2 DEF TreeNext

LEMMA BornStep ==
  ASSUME GaloreTypeOK, Born, GaloreNext
  PROVE  Born'
<1>0. tpc \in [Threads -> TPC] /\ created \in Nat /\ Threads \subseteq Nat
  BY ThreadsNat DEF GaloreTypeOK, ForkTypeOK
<1>1. CASE CreateThread
  <2>1. created \in Threads /\ tpc' = [tpc EXCEPT ![created] = "loop"] /\ created' = created + 1
    BY <1>1 DEF CreateThread, Goto
  <2> SUFFICES ASSUME NEW t \in Threads, tpc'[t] = "unborn" PROVE t >= created'
    BY DEF Born
  <2>2. t # created /\ tpc[t] = "unborn"
    BY <1>0, <2>1
  <2>3. t >= created /\ t \in Nat
    BY <1>0, <2>2 DEF Born
  <2> QED BY <1>0, <2>1, <2>2, <2>3
<1>2. CASE ~CreateThread
  <2>1. created' = created /\ \A t \in Threads : tpc'[t] = "unborn" => tpc[t] = "unborn"
    BY <1>0, <1>2 DEF GaloreNext, Main, JoinThread, MainReturns, Return, CreateFails, Outside,
       ForkedChild, ChildExits, DoThread, DoThreadFails, Thread, Fork, AllForked, Waitpid,
       WaitFails, ForkFails, Goto, fork_vars
  <2> QED BY <2>1 DEF Born
<1> QED BY <1>1, <1>2

LEMMA NotOwnChildStep ==
  ASSUME ProcTypeOK, NotOwnChild, GaloreNext
  PROVE  NotOwnChild'
<1>1. ASSUME NEW t \in Threads, Fork(t) PROVE par'[Root] = par[Root]
  <2>1. PICK c \in Pids : ForkAs(Root, c)
    BY <1>1 DEF Fork
  <2>2. Alive(Root)
    BY <1>1 DEF Fork, At
  <2>3. st[c] = "free" /\ par' = [par EXCEPT ![c] = Root]
    BY <2>1 DEF ForkAs, NextPid
  <2>4. c # Root
    BY <2>2, <2>3 DEF Alive
  <2> QED BY <2>3, <2>4, RootPid DEF ProcTypeOK
<1>2. CASE \A t \in Threads : ~Fork(t)
  <2>1. par' = par
    BY <1>2 DEF GaloreNext, Main, CreateThread, JoinThread, MainReturns, Return, CreateFails,
       Outside, ForkedChild, ChildExits, DoThread, DoThreadFails, Thread, AllForked, Waitpid,
       WaitFails, ForkFails, Signals, Stop, Resume, Kill, Die, Bury, Collect, proc_vars
  <2> QED BY <2>1 DEF NotOwnChild
<1> QED BY <1>1, <1>2 DEF NotOwnChild

LEMMA OrderInvariant == Spec => []Order
<1>1. Init => Order
  <2> SUFFICES ASSUME Init PROVE Order
    OBVIOUS
  <2>1. /\ \A p \in Pids : st[p] = IF p = 1 THEN "run" ELSE "free"
        /\ \A p \in Pids : par[p] = 0 /\ npc[p] = "spawn"
    BY DEF Init, ProcInit, TreeInit, Root
  <2>2. Contiguous
    BY <2>1 DEF Contiguous, Pids
  <2>3. Younger /\ Working
    BY <2>1 DEF Younger, Working, Pids
  <2>4. NotOwnChild
    BY <2>1, RootPid DEF NotOwnChild, Root
  <2>5. Born
    <3>1. CASE DoThreadsInit
      BY <3>1, ThreadsNat DEF DoThreadsInit, Born
    <3>2. CASE ParallelInit
      BY <3>2 DEF ParallelInit, Born
    <3> QED BY <3>1, <3>2 DEF Init, GaloreInit
  <2> QED BY <2>2, <2>3, <2>4, <2>5 DEF Order, Kinship
<1>2. IInv /\ Order /\ [Next]_vars => Order'
  <2> SUFFICES ASSUME IInv, Order, [Next]_vars PROVE Order'
    OBVIOUS
  <2>1. CASE UNCHANGED vars
    <3>1. UNCHANGED <<st, par, npc, tpc, created, prog>>
      BY <2>1 DEF vars, proc_vars, galore_vars, fork_vars, node_vars
    <3>2. Kinship => Kinship'
      BY <3>1 DEF Kinship, Contiguous, Younger, Working, Alive
    <3>3. (Born => Born') /\ (NotOwnChild => NotOwnChild')
      BY <3>1 DEF Born, NotOwnChild
    <3> QED BY <3>1, <3>2, <3>3 DEF Order
  <2>2. CASE AsGalore /\ GaloreNext
    <3>1. prog = Galore /\ prog' = Galore /\ Galore # Tree
      BY <2>2 DEF AsGalore, Galore, Tree
    <3> QED BY <2>2, <3>1, BornStep, NotOwnChildStep DEF Order, IInv, TypeOK
  <2>3. CASE AsTree /\ TreeNext
    <3>1. prog = Tree /\ prog' = Tree /\ Galore # Tree
      BY <2>3 DEF AsTree, Galore, Tree
    <3> QED BY <2>3, <3>1, KinshipStep DEF Order, IInv, TypeOK, TreeInv
  <2> QED BY <2>1, <2>2, <2>3 DEF Next
<1> QED BY <1>1, <1>2, ParallelInvariant, PTL DEF Spec

LEMMA TreeMoves ==
  ASSUME IInv, Order, prog = Tree, \E p \in Pids : Alive(p),
         \A p \in Pids : st[p] # "stopped"
  PROVE  \E p \in Pids : NodeMoves(p)
<1> DEFINE S == {p \in Pids : Alive(p)}
<1>1. PICK p \in S : \A q \in S : q <= p
  <2>1. S \in SUBSET Pids /\ S # {}
    OBVIOUS
  <2> HIDE DEF S
  <2> QED BY <2>1, Youngest
<1>2. p \in Pids /\ st[p] = "run" /\ npc[p] \in {"spawn", "threads", "loop", "after", "wait"}
  BY DEF Alive, Order, Kinship, Working, IInv, TypeOK, TreeTypeOK, NPC
<1>3. CASE npc[p] # "wait"
  BY <1>2, <1>3 DEF NodeMoves, NodeAt
<1>4. CASE npc[p] = "wait" /\ \A c \in Pids : NoChild(p, c)
  BY <1>2, <1>4 DEF NodeMoves, NodeAt
<1>5. CASE npc[p] = "wait" /\ \E c \in Pids : ~NoChild(p, c)
  <2>1. PICK c \in Pids : par[c] = p /\ st[c] # "gone"
    BY <1>5 DEF NoChild
  <2>2. st[c] # "free"
    BY <1>2, <2>1 DEF IInv, TreeInv, FreshNodes, Pids
  <2>3. ~(c <= p)
    BY <1>2, <2>1 DEF Order, Kinship, Younger, Pids
  <2>4. Zombie(c)
    <3>1. ~Alive(c)
      BY <1>1, <2>1, <2>3
    <3> QED BY <2>1, <2>2, <3>1 DEF IInv, TypeOK, ProcTypeOK, Alive, Zombie
  <2>5. Reportable(p, c)
    BY <2>1, <2>4 DEF Reportable, Report, Zombie
  <2> QED BY <1>2, <1>5, <2>5 DEF NodeMoves, NodeAt
<1> QED BY <1>3, <1>4, <1>5

LEMMA GaloreMoves ==
  ASSUME IInv, Order, prog = Galore, \E p \in Pids : Alive(p),
         \A p \in Pids : st[p] # "stopped"
  PROVE  MainMoves \/ (\E t \in Threads : ThreadMoves(t)) \/ (\E c \in Pids : ChildMoves(c))
<1> SUFFICES ASSUME ~MainMoves, \A c \in Pids : ~ChildMoves(c)
             PROVE  \E t \in Threads : ThreadMoves(t)
  OBVIOUS
<1>1. Alive(Root) /\ \A c \in Pids \ {Root} : ~Alive(c)
  BY DEF ChildMoves, Alive
<1>2. /\ created \in Nat /\ Threads \subseteq Nat /\ created \notin Threads
      /\ tpc \in [Threads -> TPC]
  BY <1>1, ThreadsNat DEF MainMoves, IInv, TypeOK, GaloreTypeOK, ForkTypeOK
<1>3. ~ThreadsDone
  BY <1>1 DEF MainMoves, ThreadsDone
<1>4. PICK t \in Threads : tpc[t] # "done"
  BY <1>3 DEF ThreadsDone
<1>5. tpc[t] # "unborn"
  <2>1. ~(t >= created)
    BY <1>2, ThreadsAssumption
  <2> QED BY <2>1 DEF Order, Born
<1>6. CASE tpc[t] = "loop"
  BY <1>1, <1>6 DEF ThreadMoves, At
<1>7. CASE tpc[t] = "wait" /\ cpid[t] = 0
  <2>1. WaitsFor(t) = {}
    BY <1>7 DEF WaitsFor, Pids
  <2> QED BY <1>1, <1>7, <2>1 DEF ThreadMoves, At
<1>8. CASE tpc[t] = "wait" /\ cpid[t] # 0
  <2> DEFINE c == cpid[t]
  <2>1. c \in Pids /\ c \in WaitsFor(t)
    BY <1>8, CpidPid DEF IInv, TypeOK, WaitsFor
  <2>2. par[c] = Root /\ st[c] \notin {"free", "gone"}
    BY <1>1, <1>8 DEF IInv, GaloreInv, OwnChild
  <2>3. c # Root
    BY <2>2 DEF Order, NotOwnChild
  <2>4. Reportable(Root, c)
    <3>1. Zombie(c)
      BY <1>1, <2>1, <2>2, <2>3 DEF IInv, TypeOK, ProcTypeOK, Alive, Zombie
    <3> QED BY <2>2, <3>1 DEF Reportable, Report, Zombie
  <2> QED BY <1>1, <1>8, <2>1, <2>4 DEF ThreadMoves, At
<1> QED BY <1>2, <1>4, <1>5, <1>6, <1>7, <1>8 DEF TPC

(* The programs that wait for one child of several never come to a point    *)
(* where everybody waits: with no process stopped, the youngest of the tree *)
(* can go on, and so can main, one of its threads or a child of the other   *)
(* two programs, for any number of threads and children and any tree.       *)
THEOREM NobodyWaitsInVain == Spec => []SomeoneMoves
<1>1. IInv /\ Order => SomeoneMoves
  BY TreeMoves, GaloreMoves DEF SomeoneMoves, IInv, GaloreInv
<1> QED BY <1>1, ParallelInvariant, OrderInvariant, PTL

-----------------------------------------------------------------------------
(* A step that reaps: a reaped process stays reaped, and while the first    *)
(* process lives a child of its leaves the process table only by the        *)
(* waitpid of the thread that forked it last, which is then done.           *)
Reaps(t, c) == tpc[t] = "wait" /\ cpid[t] = c /\ tpc'[t] = "done"
ReapedOnce ==
  \A c \in Pids :
    /\ st[c] = "gone" => st'[c] = "gone"
    /\ prog = Galore /\ par[c] = Root /\ Alive(Root)' /\ st[c] # "gone" /\ st'[c] = "gone"
         => \E t \in Threads : Reaps(t, c)

LEMMA TableKept ==
  ASSUME KeepsTable, OnlyWaitReaps
  PROVE  ReapedOnce
BY DEF KeepsTable, OnlyWaitReaps, ReapedOnce

LEMMA ForkReapsNone ==
  ASSUME ProcTypeOK, NEW p \in Pids, NEW c \in Pids, ForkAs(p, c)
  PROVE  ReapedOnce
<1>1. st[c] = "free" /\ st' = [st EXCEPT ![c] = "run"]
  BY ForkType
<1>2. \A q \in Pids : (st'[q] = "gone") <=> (st[q] = "gone")
  BY <1>1 DEF ProcTypeOK
<1> QED BY <1>2 DEF ReapedOnce

LEMMA GaloreReaps ==
  ASSUME TypeOK, GaloreNext
  PROVE  ReapedOnce
<1>0. ProcTypeOK /\ Root \in Pids /\ tpc \in [Threads -> TPC]
  BY RootPid DEF TypeOK, GaloreTypeOK, ForkTypeOK
<1>1. ASSUME UNCHANGED proc_vars PROVE ReapedOnce
  BY <1>0, <1>1, StutterKeeps, TableKept
<1>2. ASSUME NEW p \in Pids, Alive(p), Die(p, "exited") PROVE ReapedOnce
  BY <1>0, <1>2, DieKeeps, TableKept
<1>3. CASE Main \/ CreateFails
  BY <1>0, <1>1, <1>2, <1>3 DEF Main, CreateThread, JoinThread, MainReturns, Return, CreateFails
<1>4. CASE Outside
  <2>1. CASE Signals
    BY <1>0, <2>1, SignalsKeep, TableKept
  <2> QED BY <1>2, <1>4, <2>1 DEF Outside, ForkedChild, ChildExits, Alive
<1>5. ASSUME NEW t \in Threads, Waitpid(t) PROVE ReapedOnce
  <2>1. PICK c \in WaitsFor(t) : /\ Collect(c)
                                 /\ IF Ends(Report(c)) THEN Goto(t, "done") ELSE UNCHANGED tpc
    BY <1>5 DEF Waitpid
  <2>2. c \in Pids /\ cpid[t] = c /\ tpc[t] = "wait"
    BY <1>5, <2>1 DEF WaitsFor, Waitpid, At
  <2>3. /\ KeepsTable /\ \A q \in Pids \ {c} : st'[q] = st[q]
        /\ IF Report(c) \in {"exited", "killed"} THEN st'[c] = "gone" ELSE st'[c] = st[c]
    BY <1>0, <2>1, <2>2, CollectKeeps
  <2>4. st'[c] # st[c] => Reaps(t, c)
    BY <1>0, <2>1, <2>2, <2>3 DEF Ends, Goto, Reaps
  <2> QED BY <2>3, <2>4 DEF ReapedOnce, KeepsTable
<1>6. ASSUME NEW t \in Threads, DoThread(t) \/ DoThreadFails(t) PROVE ReapedOnce
  <2>1. CASE Fork(t)
    BY <1>0, <2>1, ForkReapsNone DEF Fork
  <2>2. CASE AllForked(t) \/ WaitFails(t)
    BY <1>1, <2>2 DEF AllForked, WaitFails
  <2>3. CASE ForkFails(t)
    BY <1>0, <1>2, <2>3 DEF ForkFails, At
  <2> QED BY <1>5, <1>6, <2>1, <2>2, <2>3 DEF DoThread, DoThreadFails, Thread
<1> QED BY <1>3, <1>4, <1>6 DEF GaloreNext

LEMMA TreeReaps ==
  ASSUME TypeOK, TreeNext, prog = Tree
  PROVE  ReapedOnce
<1>0. ProcTypeOK /\ prog # Galore
  BY DEF TypeOK, Galore, Tree
<1>1. ASSUME KeepsTable PROVE ReapedOnce
  BY <1>0, <1>1 DEF KeepsTable, ReapedOnce
<1>2. CASE Signals
  BY <1>0, <1>1, <1>2, SignalsKeep
<1>3. ASSUME NEW p \in Pids, Node(p) \/ SpawnFails(p) PROVE ReapedOnce
  <2>1. CASE TreeFork(p)
    BY <1>0, <2>1, ForkReapsNone DEF TreeFork
  <2>2. CASE Spawnforks(p) \/ AllNodesForked(p) \/ NoChildren(p)
    BY <1>0, <1>1, <2>2, StutterKeeps DEF Spawnforks, AllNodesForked, NoChildren
  <2>3. CASE Waitchildren(p)
    BY <1>0, <1>1, <2>3, CollectKeeps DEF Waitchildren
  <2>4. CASE NodeExit(p) \/ SpawnFails(p)
    BY <1>0, <1>1, <2>4, DieKeeps DEF NodeExit, SpawnFails, NodeAt, Alive
  <2> QED BY <1>3, <2>1, <2>2, <2>3, <2>4 DEF Node
<1> QED BY <1>2, <1>3 DEF TreeNext

(* Each child of parallelfork.c and processesgalore.c is reaped at most     *)
(* once, and while main lives only by the thread that waits for it: the     *)
(* waitpid calls of different threads never take each other's child.        *)
THEOREM EachChildReapedOnce == Spec => [][ReapedOnce]_vars
<1>1. IInv /\ [Next]_vars => [ReapedOnce]_vars
  <2> SUFFICES ASSUME IInv, Next PROVE ReapedOnce
    OBVIOUS
  <2> QED BY GaloreReaps, TreeReaps DEF Next, AsTree, IInv
<1> QED BY <1>1, ParallelInvariant, PTL DEF Spec
=============================================================================
