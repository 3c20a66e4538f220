-------------------------- MODULE SequentialProofs --------------------------
(***************************************************************************)
(* Proofs about the programs that wait for one child at a time, for every  *)
(* number of forks, of processes and of signals from outside.              *)
(***************************************************************************)
EXTENDS SequentialPrograms, FiniteSetTheorems, WellFoundedInduction, TLAPS

(* What no step but a fork does to the process table: make a process, and   *)
(* what no step at all does: bring a dead or a reaped one back.             *)
KeepsTable ==
  /\ par' = par
  /\ \A q \in Pids : /\ st[q] = "gone" => st'[q] = "gone"
                     /\ st'[q] = "free" <=> st[q] = "free"
                     /\ Alive(q)' => Alive(q)

-----------------------------------------------------------------------------
(* mkuidns.c.  main counts its files up to the go, the child waits for it,  *)
(* and a file main has passed was written or turned down.                   *)
FilesInOrder ==
  /\ upc \in {"go", "wait", "done"} => file = 4
  /\ go => file = 4
  /\ kpc # "read" => go
  /\ file > 1 => "uid_map" \in written \cup refused
  /\ file > 2 => "setgroups" \in written \cup refused
  /\ file > 3 => "gid_map" \in written \cup refused \/ "setgroups" \in refused

-----------------------------------------------------------------------------
(* serialfork.c and multiforkexec.c.  Only a process that exists has        *)
(* children, and a child that is not reaped is the one its parent waits for.*)
SerialIdle == prog # Serial => \A p \in Pids : pc[p] = "loop"
InLoop ==
  \A p \in Pids : /\ pc[p] \in {"wait", "child"} => forkno[p] < NumForks
                  /\ pc[p] = "wait" => cpid[p] \in Pids
FreeHasNone == \A c, d \in Pids : par[d] = c => st[c] # "free"
OneAtATime ==
  \A p, c \in Pids : par[c] = p /\ st[c] # "gone" => pc[p] = "wait" /\ cpid[p] = c

SerialInv ==
  /\ SerialIdle /\ InLoop
  /\ prog = Serial => FreeHasNone /\ OneAtATime

-----------------------------------------------------------------------------
(* clone.c.  The processes are main and the children of the calls so far,   *)
(* all of them main's.                                                      *)
Last == IF mpc \in {"kill", "wait"} THEN ChildOf(call) ELSE call

CloneTable ==
  /\ \A p \in Pids : st[p] # "free" <=> p <= Last
  /\ \A p \in Pids : par[p] = IF p # Root /\ p <= Last THEN Root ELSE 0
  /\ mpc \in {"clone", "kill", "wait"} => call <= NumCalls
  /\ mpc = "kill" => call \in {3, 4}
  /\ Len(seen) = call - 1
  /\ termed \subseteq {ChildOf(3)}

(* While every report was of an end main has reaped the child of every      *)
(* earlier call.                                                            *)
AllEnds == \A k \in 1..Len(seen) : seen[k].how \notin {"stop", "cont"}
CaughtUp ==
  Alive(Root) /\ AllEnds =>
    \A c \in Pids : c # Root /\ c <= call => st[c] = "gone"

(* Without signals from outside the children of earlier calls are reaped,   *)
(* but for the fourth, which may be left stopped and has been reported; the *)
(* child of this call ends as traps and missed decide.                      *)
EarlierChildren ==
  \A c \in Pids : c # Root /\ c <= call =>
    st[c] = "gone" \/ (c = ChildOf(4) /\ st[c] = "stopped" /\ rep[c] = "none")
EndOf == IF mpc = "kill" THEN <<"exited", 1>> ELSE Outcome(call)
ThisChild ==
  mpc \in {"kill", "wait"} =>
    LET c == ChildOf(call) IN
      /\ st[c] \in {"run", "stopped", "exited", "killed"}
      /\ IF st[c] = "stopped" THEN call = 4 /\ mpc = "wait" /\ rep[c] = "stop" /\ 4 \notin missed
                              ELSE rep[c] = "none"
      /\ st[c] = "run" /\ mpc = "wait" => call \notin {3, 4}
      /\ st[c] \in {"exited", "killed"} => <<st[c], code[c]>> = EndOf
Undisturbed ==
  /\ termed = {}
  /\ \A k \in missed : k < call \/ (k = call /\ mpc = "wait")
  /\ \A c \in Pids : st[c] = "free" => rep[c] = "none"
  /\ EarlierChildren /\ ThisChild

CloneInv ==
  /\ prog # Cloning => seen = <<>>
  /\ prog = Cloning => /\ CloneTable /\ CaughtUp
                       /\ ~meddled /\ Alive(Root) => Undisturbed
  /\ WrongChildExplained /\ UndisturbedStatuses

IInv == TypeOK /\ FilesInOrder /\ SerialInv /\ CloneInv

-----------------------------------------------------------------------------
LEMMA BuryKeeps ==
  ASSUME ProcTypeOK, NEW p \in Pids, NEW z \in {"exited", "killed"},
         Alive(p), Bury(p, z), signals' \in 0..MaxSignals
  PROVE  ProcTypeOK' /\ KeepsTable
<1>1. st' \in [Pids -> {"free", "run", "stopped", "exited", "killed", "gone"}]
  BY DEF Bury, ProcTypeOK
<1>2. rep' \in [Pids -> {"none", "stop", "cont"}] /\ par' = par
  BY DEF Bury, ProcTypeOK
<1>3. ASSUME NEW q \in Pids
      PROVE  /\ st[q] = "gone" => st'[q] = "gone"
             /\ st'[q] = "free" <=> st[q] = "free"
             /\ Alive(q)' => Alive(q)
  BY <1>3 DEF Bury, ProcTypeOK, Alive, Zombie
<1> QED BY <1>1, <1>2, <1>3 DEF ProcTypeOK, KeepsTable

LEMMA SignalsKeep ==
  ASSUME ProcTypeOK, Signals
  PROVE  ProcTypeOK' /\ KeepsTable
<1>1. PICK p \in Pids : Stop(p) \/ Resume(p) \/ Kill(p)
  BY DEF Signals
<1>2. CASE Stop(p)
  BY <1>2, MaxSignalsAssumption DEF Stop, ProcTypeOK, KeepsTable, Alive
<1>3. CASE Resume(p)
  BY <1>3 DEF Resume, ProcTypeOK, KeepsTable, Alive
<1>4. CASE Kill(p)
  <2>1. signals' \in 0..MaxSignals /\ Alive(p) /\ Bury(p, "killed")
    BY <1>4, MaxSignalsAssumption DEF Kill, ProcTypeOK
  <2> QED BY <2>1, BuryKeeps
<1> QED BY <1>1, <1>2, <1>3, <1>4

LEMMA CollectKeeps ==
  ASSUME ProcTypeOK, NEW c \in Pids, Collect(c)
  PROVE  /\ ProcTypeOK' /\ KeepsTable
         /\ Ends(Report(c)) => st'[c] = "gone"
         /\ \A q \in Pids \ {c} : st'[q] = st[q]
<1>1. ProcTypeOK' BY DEF Collect, ProcTypeOK
<1>2. KeepsTable BY DEF Collect, ProcTypeOK, KeepsTable, Zombie, Alive
<1>3. Ends(Report(c)) => st'[c] = "gone"
  BY DEF Collect, ProcTypeOK, Zombie, Report, Ends
<1>4. \A q \in Pids \ {c} : st'[q] = st[q]
  BY DEF Collect, ProcTypeOK
<1> QED BY <1>1, <1>2, <1>3, <1>4

LEMMA ForkType ==
  ASSUME ProcTypeOK, NEW p \in Pids, NEW c \in Pids, ForkAs(p, c)
  PROVE  /\ ProcTypeOK' /\ st[c] = "free"
         /\ st' = [st EXCEPT ![c] = "run"] /\ par' = [par EXCEPT ![c] = p]
<1>1. /\ st[c] = "free" /\ rep' = rep /\ signals' = signals
      /\ st' = [st EXCEPT ![c] = "run"] /\ par' = [par EXCEPT ![c] = p]
  BY DEF ForkAs, NextPid
<1>2. p \in 0..MaxProcs
  BY MaxProcsAssumption DEF Pids
<1>3. ProcTypeOK'
  BY <1>1, <1>2 DEF ProcTypeOK
<1> QED BY <1>1, <1>3

LEMMA RootPid == Root \in Pids
BY MaxProcsAssumption DEF Root, Pids

-----------------------------------------------------------------------------
LEMMA FilesInitial == Init => NsTypeOK /\ FilesInOrder
<1>1. Len(ChildSteps) = 8 BY DEF ChildSteps
<1>2. Init => NsTypeOK
  <2>1. Init => go \in BOOLEAN
    BY Zenon DEF Init, NsInit
  <2>2. Init => /\ upc = "socketpair" /\ file = 1 /\ written = {} /\ refused = {}
                /\ kpc = "read" /\ kstep = 1
    BY Zenon DEF Init, NsInit
  <2> QED BY <1>1, <2>1, <2>2 DEF NsTypeOK
<1>3. Init => FilesInOrder BY DEF Init, NsInit, FilesInOrder
<1> QED BY <1>2, <1>3

LEMMA FilesStep ==
  ASSUME NsTypeOK, FilesInOrder, [Next]_vars
  PROVE  (NsTypeOK /\ FilesInOrder)'
<1>0. Len(ChildSteps) = 8 /\ Len(FileOrder) = 3
  BY DEF ChildSteps, FileOrder
<1>1. CASE UNCHANGED ns_vars
  BY <1>1 DEF ns_vars, NsTypeOK, FilesInOrder
<1>2. CASE Socketpair \/ CloneInner \/ OpenFails \/ WaitInner
  BY <1>2 DEF Socketpair, CloneInner, OpenFails, WaitInner, NsFails, NsAt,
              NsTypeOK, FilesInOrder
<1>3. CASE WriteFile
  <2>1. file \in 1..3 /\ file' = file + 1 /\ upc = "open" /\ ~go /\ kpc = "read"
        /\ go' = go /\ kpc' = kpc /\ kstep' = kstep
        /\ upc' = IF file = 3 THEN "go" ELSE "open"
    BY <1>0, <1>3 DEF WriteFile, NsAt, NsTypeOK, FilesInOrder
  <2>2. PICK f : /\ f = FileOrder[file]
                 /\ \/ /\ written' = (IF Accepts(f) THEN written \cup {f} ELSE written)
                       /\ refused' = refused
                    \/ refused' = refused \cup {f} /\ written' = written
    BY <1>3 DEF WriteFile
  <2>3. f \in MapFiles /\ (file = 1 => f = "uid_map") /\ (file = 2 => f = "setgroups")
        /\ (file = 3 => f = "gid_map")
    BY <2>1, <2>2 DEF FileOrder, MapFiles
  <2>4. written' \subseteq MapFiles /\ refused' \subseteq MapFiles
        /\ written \subseteq written' /\ refused \subseteq refused'
    BY <2>2, <2>3 DEF NsTypeOK
  <2>5. f \in written' \cup refused' \/ (f = "gid_map" /\ "setgroups" \notin written)
    BY <2>2 DEF Accepts
  <2>6. NsTypeOK'
    BY <2>1, <2>4 DEF NsTypeOK
  <2>7. FilesInOrder'
    BY <2>1, <2>3, <2>4, <2>5 DEF FilesInOrder, MapFiles
  <2> QED BY <2>6, <2>7
<1>4. CASE WriteGo
  BY <1>4 DEF WriteGo, NsAt, NsTypeOK, FilesInOrder
<1>5. CASE ReadGo \/ ChildStep \/ ChildEnds
  BY <1>0, <1>5 DEF ReadGo, ChildStep, ChildEnds, NsTypeOK, FilesInOrder
<1> QED
  BY <1>1, <1>2, <1>3, <1>4, <1>5
     DEF Next, AsSerial, AsClone, AsNs, As, NsNext, NsMain, Childfunc, vars

(* mkuidns.c: the child never runs ahead of its set-up, and no map is lost  *)
(* to the order in which main writes the three files (mkuidns.c, the loop   *)
(* over the files and the child's read of "go").                            *)
THEOREM NamespaceReady == Spec => []SetUpFirst
<1>1. NsTypeOK /\ FilesInOrder => SetUpFirst
  BY DEF NsTypeOK, FilesInOrder, SetUpFirst, FileOrder, MapFiles
<1> QED BY <1>1, FilesInitial, FilesStep, PTL DEF Spec
-----------------------------------------------------------------------------
LEMMA SerialInitial == Init => ProcTypeOK /\ SerialTypeOK /\ SerialInv
<1> SUFFICES ASSUME Init PROVE ProcTypeOK /\ SerialTypeOK /\ SerialInv
  OBVIOUS
<1>1. 0 \notin Pids /\ 0 \in 0..MaxProcs /\ 0 \in 0..NumForks /\ MaxSignals \in 0..MaxSignals
  BY MaxProcsAssumption, MaxSignalsAssumption, NumForksAssumption DEF Pids
<1>2. ProcTypeOK
  BY <1>1 DEF Init, ProcInit, ProcTypeOK
<1>3. SerialTypeOK
  BY <1>1 DEF Init, SerialInit, SerialTypeOK, PC
<1>4. SerialInv
  BY <1>1 DEF Init, ProcInit, SerialInit, SerialInv, SerialIdle, InLoop, FreeHasNone, OneAtATime
<1> QED BY <1>2, <1>3, <1>4

(* A step that keeps the process table and moves one process that does not  *)
(* wait.                                                                    *)
LEMMA SerialMove ==
  ASSUME ProcTypeOK, SerialTypeOK, SerialInv, prog = Serial, prog' = prog,
         NEW p \in Pids, NEW to \in PC \ {"wait", "child"},
         pc[p] # "wait", pc' = [pc EXCEPT ![p] = to], cpid' = cpid,
         forkno' = forkno, KeepsTable
  PROVE  (SerialTypeOK /\ SerialInv)'
<1>1. SerialTypeOK' BY DEF SerialTypeOK, PC
<1>2. (SerialIdle /\ InLoop)'
  BY DEF SerialTypeOK, SerialInv, SerialIdle, InLoop
<1>3. FreeHasNone'
  BY DEF SerialInv, FreeHasNone, KeepsTable
<1>4. OneAtATime'
  BY DEF SerialInv, SerialTypeOK, OneAtATime, KeepsTable
<1> QED BY <1>1, <1>2, <1>3, <1>4 DEF SerialInv

LEMMA SerialProcess ==
  ASSUME ProcTypeOK, SerialTypeOK, SerialInv, AsSerial, NEW p \in Pids,
         Process(p) \/ ForkFails(p)
  PROVE  (ProcTypeOK /\ SerialTypeOK /\ SerialInv)'
<1>0. prog = Serial /\ prog' = prog
  BY DEF AsSerial, As
<1>1. CASE Fork(p)
  <2>1. PICK c \in Pids : /\ ForkAs(p, c)
                          /\ pc' = [pc EXCEPT ![p] = "wait", ![c] = "child"]
                          /\ forkno' = [forkno EXCEPT ![c] = forkno[p]]
                          /\ cpid' = [cpid EXCEPT ![p] = c, ![c] = 0]
    BY <1>1 DEF Fork
  <2>2. st[p] = "run" /\ pc[p] = "loop" /\ forkno[p] < NumForks
    BY <1>1 DEF Fork, At, MoreForks
  <2>3. /\ ProcTypeOK' /\ st[c] = "free" /\ p # c
        /\ st' = [st EXCEPT ![c] = "run"] /\ par' = [par EXCEPT ![c] = p]
    BY <2>1, <2>2, ForkType
  <2>4. c \in 0..MaxProcs /\ 0 \in 0..MaxProcs
    BY MaxProcsAssumption DEF Pids
  <2>5. SerialTypeOK'
    BY <2>1, <2>4 DEF SerialTypeOK, PC
  <2>6. (SerialIdle /\ InLoop)'
    BY <1>0, <2>1, <2>2, <2>3 DEF SerialTypeOK, SerialInv, SerialIdle, InLoop
  <2>7. FreeHasNone'
    BY <1>0, <2>2, <2>3 DEF ProcTypeOK, SerialInv, FreeHasNone
  <2>8. OneAtATime'
    <3> SUFFICES ASSUME NEW q \in Pids, NEW d \in Pids, par'[d] = q, st'[d] # "gone"
                 PROVE  pc'[q] = "wait" /\ cpid'[q] = d
      BY DEF OneAtATime
    <3>1. CASE d = c
      BY <2>1, <2>3, <3>1 DEF ProcTypeOK, SerialTypeOK
    <3>2. CASE d # c
      <4>1. par[d] = q /\ st[d] # "gone"
        BY <2>3, <3>2 DEF ProcTypeOK
      <4>2. pc[q] = "wait" /\ cpid[q] = d
        BY <1>0, <4>1 DEF SerialInv, OneAtATime
      <4>3. q # p /\ q # c
        BY <1>0, <2>2, <2>3, <4>1, <4>2 DEF SerialInv, FreeHasNone
      <4> QED BY <2>1, <4>2, <4>3 DEF SerialTypeOK
    <3> QED BY <3>1, <3>2
  <2> QED BY <2>3, <2>5, <2>6, <2>7, <2>8 DEF SerialInv
<1>2. CASE ForkFails(p) \/ CommandExits(p) \/ Finish(p)
  <2>1. /\ Alive(p) /\ Bury(p, "exited") /\ signals' = signals
        /\ pc[p] # "wait" /\ cpid' = cpid /\ forkno' = forkno
        /\ \E to \in {"done", "failed"} : pc' = [pc EXCEPT ![p] = to]
    BY <1>2 DEF ForkFails, CommandExits, Finish, At, Goto, Die, Alive
  <2>2. ProcTypeOK' /\ KeepsTable
    <3>1. signals' \in 0..MaxSignals BY <2>1 DEF ProcTypeOK
    <3> QED BY <2>1, <3>1, BuryKeeps
  <2>3. PICK to \in {"done", "failed"} : pc' = [pc EXCEPT ![p] = to]
    BY <2>1
  <2>4. to \in PC \ {"wait", "child"} BY DEF PC
  <2> QED BY <1>0, <2>1, <2>2, <2>3, <2>4, SerialMove
<1>3. CASE ChildRuns(p)
  <2>1. ProcTypeOK' /\ KeepsTable
    BY <1>3 DEF ChildRuns, proc_vars, ProcTypeOK, KeepsTable, Alive
  <2>2. /\ pc[p] # "wait" /\ cpid' = cpid /\ forkno' = forkno
        /\ pc' = [pc EXCEPT ![p] = "command"]
    BY <1>3 DEF ChildRuns, At, Goto
  <2>3. "command" \in PC \ {"wait", "child"} BY DEF PC
  <2> QED BY <1>0, <2>1, <2>2, <2>3, SerialMove
<1>4. CASE ChildFallsThrough(p)
  <2>1. /\ ProcTypeOK' /\ par' = par /\ st' = st /\ cpid' = cpid
        /\ pc[p] = "child" /\ pc' = [pc EXCEPT ![p] = "loop"]
        /\ forkno' = [forkno EXCEPT ![p] = forkno[p] + 1]
    BY <1>4 DEF ChildFallsThrough, At, Goto, proc_vars, ProcTypeOK, NextForkno
  <2>2. forkno[p] + 1 \in 0..NumForks
    BY <2>1, NumForksAssumption DEF SerialInv, InLoop, SerialTypeOK
  <2>3. SerialTypeOK'
    BY <2>1, <2>2 DEF SerialTypeOK, PC
  <2>4. SerialInv'
    BY <1>0, <2>1 DEF SerialInv, SerialIdle, InLoop, FreeHasNone, OneAtATime, SerialTypeOK
  <2> QED BY <2>1, <2>3, <2>4
<1>5. CASE Waitpid(p)
  <2> DEFINE c == cpid[p]
  <2>1. /\ st[p] = "run" /\ pc[p] = "wait" /\ par[c] = p /\ Collect(c) /\ cpid' = cpid
        /\ IF Ends(Report(c))
           THEN pc' = [pc EXCEPT ![p] = "loop"] /\ forkno' = [forkno EXCEPT ![p] = @ + 1]
           ELSE pc' = pc /\ forkno' = forkno
    BY <1>5 DEF Waitpid, At, Reportable, Goto
  <2>2. c \in Pids
    BY <2>1 DEF SerialInv, InLoop
  <2>3. /\ ProcTypeOK' /\ KeepsTable
        /\ Ends(Report(c)) => st'[c] = "gone"
        /\ \A q \in Pids \ {c} : st'[q] = st[q]
    BY <2>1, <2>2, CollectKeeps
  <2>4. CASE ~Ends(Report(c))
    BY <1>0, <2>1, <2>3, <2>4
       DEF SerialInv, SerialIdle, InLoop, FreeHasNone, OneAtATime, SerialTypeOK, KeepsTable
  <2>5. CASE Ends(Report(c))
    <3>1. forkno[p] + 1 \in 0..NumForks
      BY <2>1, NumForksAssumption DEF SerialInv, InLoop, SerialTypeOK
    <3>2. SerialTypeOK'
      BY <2>1, <2>5, <3>1 DEF SerialTypeOK, PC
    <3>3. (SerialIdle /\ InLoop)'
      BY <1>0, <2>1, <2>5 DEF SerialTypeOK, SerialInv, SerialIdle, InLoop
    <3>4. FreeHasNone'
      BY <1>0, <2>3 DEF SerialInv, FreeHasNone, KeepsTable
    <3>5. OneAtATime'
      <4> HIDE DEF c
      <4>1. cpid[p] = c BY DEF c
      <4> QED BY <1>0, <2>1, <2>3, <2>5, <4>1 DEF SerialTypeOK, SerialInv, OneAtATime, KeepsTable
    <3> QED BY <2>3, <3>2, <3>3, <3>4, <3>5 DEF SerialInv
  <2> QED BY <2>4, <2>5
<1> QED BY <1>1, <1>2, <1>3, <1>4, <1>5 DEF Process

LEMMA SerialOther ==
  ASSUME SerialTypeOK, SerialInv, UNCHANGED serial_vars, prog' = prog,
         prog = Serial => KeepsTable
  PROVE  (SerialTypeOK /\ SerialInv)'
<1>1. CASE prog # Serial
  BY <1>1 DEF serial_vars, SerialTypeOK, SerialInv, SerialIdle, InLoop
<1>2. CASE prog = Serial
  BY <1>2 DEF serial_vars, SerialTypeOK, SerialInv, SerialIdle, InLoop, FreeHasNone,
              OneAtATime, KeepsTable
<1> QED BY <1>1, <1>2

(* The process table in the steps of mkuidns.c.                             *)
LEMMA NsTable ==
  ASSUME ProcTypeOK, NsNext
  PROVE  ProcTypeOK'
<1>1. Inner \in Pids
  BY RoomForClones, MaxProcsAssumption DEF Inner, Pids, NumCalls
<1>2. CASE UNCHANGED proc_vars
  BY <1>2 DEF proc_vars, ProcTypeOK
<1>3. CASE \E p \in {Root, Inner} : Alive(p) /\ Die(p, "exited")
  <2>1. PICK p \in {Root, Inner} : Alive(p) /\ Die(p, "exited")
    BY <1>3
  <2>2. p \in Pids /\ Bury(p, "exited") /\ signals' \in 0..MaxSignals
    BY <1>1, <2>1, RootPid DEF Die, ProcTypeOK
  <2> QED BY <2>1, <2>2, BuryKeeps
<1>4. CASE ForkAs(Root, Inner)
  BY <1>1, <1>4, RootPid, ForkType
<1>5. CASE Signals
  BY <1>5, SignalsKeep
<1>6. CASE Socketpair \/ CloneInner \/ OpenFails \/ WaitInner \/ WriteFile \/ WriteGo
  BY <1>2, <1>3, <1>4, <1>6
     DEF Socketpair, CloneInner, OpenFails, WaitInner, WriteFile, WriteGo, NsFails, NsAt
<1>7. CASE ReadGo \/ ChildStep \/ ChildEnds
  BY <1>2, <1>3, <1>7 DEF ReadGo, ChildStep, ChildEnds, Alive
<1> QED BY <1>5, <1>6, <1>7 DEF NsNext, NsMain, Childfunc

-----------------------------------------------------------------------------
LEMMA CloneInitial == Init => CloneTypeOK /\ CloneInv
<1> SUFFICES ASSUME Init PROVE CloneTypeOK /\ CloneInv
  OBVIOUS
<1>1. meddled \in BOOLEAN /\ traps \in BOOLEAN
  BY Zenon DEF Init, CloneInit
<1>2. mpc = "clone" /\ call = 1 /\ termed = {} /\ seen = <<>> /\ missed = {}
      /\ code = [p \in Pids |-> SIGKILL]
  BY Zenon DEF Init, CloneInit
<1>3. CloneTypeOK
  BY <1>1, <1>2 DEF CloneTypeOK, NumCalls, SIGKILL
<1>4. Last = 1
  BY <1>2 DEF Last
<1>5. CloneTable
  BY <1>2, <1>4 DEF Init, ProcInit, CloneTable, Root, Pids, NumCalls
<1>6. CaughtUp /\ EarlierChildren /\ ThisChild
  BY <1>2 DEF CaughtUp, EarlierChildren, ThisChild, Pids, Root
<1>7. Undisturbed
  BY <1>2, <1>6 DEF Undisturbed, Init, ProcInit
<1>8. WrongChildExplained /\ UndisturbedStatuses
  BY <1>2 DEF WrongChildExplained, UndisturbedStatuses
<1> QED BY <1>2, <1>3, <1>5, <1>6, <1>7, <1>8 DEF CloneInv

LEMMA CloneOther ==
  ASSUME CloneTypeOK, CloneInv, UNCHANGED clone_vars, prog' = prog, prog # Cloning
  PROVE  (CloneTypeOK /\ CloneInv)'
<1>1. CloneTypeOK'
  BY DEF clone_vars, CloneTypeOK
<1>2. (WrongChildExplained /\ UndisturbedStatuses)'
  BY DEF clone_vars, CloneInv, WrongChildExplained, UndisturbedStatuses, Outcome
<1> QED BY <1>1, <1>2 DEF clone_vars, CloneInv

(* A step of clone.c that makes no process and takes no report.             *)
LEMMA CloneMove ==
  ASSUME CloneTypeOK, CloneTable, CaughtUp, WrongChildExplained,
         KeepsTable, call' = call, seen' = seen, Last' = Last,
         termed' \subseteq {ChildOf(3)},
         mpc' \in {"clone", "kill", "wait"} => call <= NumCalls,
         mpc' = "kill" => call \in {3, 4}
  PROVE  (CloneTable /\ CaughtUp /\ WrongChildExplained)'
<1>1. CloneTable'
  BY DEF CloneTable, KeepsTable
<1>2. CaughtUp'
  BY RootPid DEF CaughtUp, AllEnds, KeepsTable
<1>3. WrongChildExplained'
  BY DEF WrongChildExplained
<1> QED BY <1>1, <1>2, <1>3

(* The outcome of each call, before and after a step.                       *)
LEMMA OutcomeIs ==
  /\ Outcome(1) = <<"killed", SIGSEGV>>
  /\ Outcome(2) = IF traps THEN <<"killed", SIGFPE>> ELSE <<"exited", 0>>
  /\ Outcome(3) = IF 3 \in missed THEN <<"exited", 1>> ELSE <<"killed", SIGTERM>>
  /\ Outcome(4) = IF 4 \in missed THEN <<"exited", 1>> ELSE <<"stop", 0>>
  /\ Outcome(5) = <<"exited", 3>>
BY DEF Outcome

LEMMA OutcomeWillBe ==
  /\ Outcome(1)' = <<"killed", SIGSEGV>>
  /\ Outcome(2)' = IF traps' THEN <<"killed", SIGFPE>> ELSE <<"exited", 0>>
  /\ Outcome(3)' = IF 3 \in missed' THEN <<"exited", 1>> ELSE <<"killed", SIGTERM>>
  /\ Outcome(4)' = IF 4 \in missed' THEN <<"exited", 1>> ELSE <<"stop", 0>>
  /\ Outcome(5)' = <<"exited", 3>>
BY DEF Outcome

(* Once read, a status stays the outcome of its call.                       *)
LEMMA OutcomeKept ==
  ASSUME traps' = traps, NEW k \in 1..5, k \in missed' <=> k \in missed
  PROVE  Outcome(k)' = Outcome(k)
<1>1. CASE k = 1
  BY <1>1, OutcomeIs, OutcomeWillBe
<1>2. CASE k = 2
  BY <1>2, OutcomeIs, OutcomeWillBe
<1>3. CASE k = 3
  BY <1>3, OutcomeIs, OutcomeWillBe
<1>4. CASE k = 4
  BY <1>4, OutcomeIs, OutcomeWillBe
<1>5. CASE k = 5
  BY <1>5, OutcomeIs, OutcomeWillBe
<1> QED BY <1>1, <1>2, <1>3, <1>4, <1>5

LEMMA StatusesKept ==
  ASSUME UndisturbedStatuses, seen' = seen, meddled' = meddled, traps' = traps,
         missed' = missed
  PROVE  UndisturbedStatuses'
BY DEF UndisturbedStatuses, Outcome

LEMMA ArgOf ==
  /\ Arg(2) = Null /\ Arg(3) = 0 /\ Arg(4) = 1 /\ Arg(5) = 1 /\ Arg(6) = 3
BY DEF Arg, Slot, CloneArg

(* Left alone, the only child that can run is that of this call.            *)
LEMMA RunsNow ==
  ASSUME ProcTypeOK, CloneTypeOK, CloneTable, EarlierChildren,
         NEW c \in Pids, c # Root, st[c] = "run"
  PROVE  c = ChildOf(call) /\ mpc \in {"kill", "wait"} /\ call \in 1..5
BY DEF CloneTable, EarlierChildren, Last, ChildOf, CloneTypeOK, Pids, Root, NumCalls

LEMMA ThisChildDies ==
  ASSUME ProcTypeOK, CloneTypeOK, CloneTable, Undisturbed, Alive(Root),
         NEW c \in Pids, c = ChildOf(call), call \in 1..5, st[c] = "run",
         NEW z \in {"exited", "killed"}, NEW n \in Nat, <<z, n>> = EndOf',
         Die(c, z), code' = [code EXCEPT ![c] = n],
         call' = call, termed' = termed, missed' = missed,
         mpc \in {"kill", "wait"}, mpc' \in {"kill", "wait"}, mpc = "wait" => mpc' = "wait"
  PROVE  Undisturbed'
<1>1. c # Root /\ par[c] = Root /\ \A q \in Pids : par[q] # c
  BY DEF CloneTable, Last, ChildOf, Root, Pids
<1>2. st' = [st EXCEPT ![c] = z]
  <2>1. ~Orphan(c)
    BY <1>1 DEF Orphan, Root
  <2>2. st' = [q \in Pids |-> IF q = c THEN z ELSE st[q]]
    BY <1>1, <2>1 DEF Die, Bury
  <2> QED BY <2>2 DEF ProcTypeOK
<1>3. rep' = [rep EXCEPT ![c] = "none"]
  BY DEF Die, Bury
<1>4. EarlierChildren'
  BY <1>2, <1>3 DEF Undisturbed, EarlierChildren, ProcTypeOK, ChildOf, Pids
<1>5. ThisChild'
  <2>1. st'[c] = z /\ rep'[c] = "none" /\ code'[c] = n
    BY <1>2, <1>3 DEF ProcTypeOK, CloneTypeOK
  <2>2. c = ChildOf(call') /\ z # "stopped" /\ z # "run"
    OBVIOUS
  <2> QED BY <2>1, <2>2 DEF ThisChild
<1> QED BY <1>2, <1>3, <1>4, <1>5 DEF Undisturbed, ProcTypeOK

-----------------------------------------------------------------------------
(* Main's part in the steps of clone.c: each of these lemmas takes the      *)
(* invariant in a state where clone.c runs and main is alive.               *)

CloneHere ==
  /\ ProcTypeOK /\ CloneTypeOK /\ CloneTable /\ CaughtUp
  /\ ~meddled /\ Alive(Root) => Undisturbed
  /\ WrongChildExplained /\ UndisturbedStatuses

LEMMA CloneStarts ==
  ASSUME CloneHere, Clone
  PROVE  CloneHere'
<1> DEFINE c == ChildOf(call)
<1>1. /\ Alive(Root) /\ mpc = "clone" /\ ForkAs(Root, c)
      /\ mpc' = IF call \in {3, 4} THEN "kill" ELSE "wait"
      /\ call' = call /\ code' = code /\ termed' = termed /\ seen' = seen
      /\ meddled' = meddled /\ traps' = traps /\ missed' = missed
  BY DEF Clone, MainAt
<1>2. call \in 1..5 /\ c = call + 1 /\ c \in Pids
  BY <1>1, RoomForClones, MaxProcsAssumption
     DEF CloneHere, CloneTypeOK, CloneTable, NumCalls, ChildOf, Pids
<1> HIDE DEF c
<1>3. /\ ProcTypeOK' /\ st[c] = "free" /\ st' = [st EXCEPT ![c] = "run"]
      /\ par' = [par EXCEPT ![c] = Root] /\ rep' = rep
  BY <1>1, <1>2, RootPid, ForkType DEF CloneHere, ForkAs
<1>4. CloneTypeOK'
  BY <1>1 DEF CloneHere, CloneTypeOK
<1>5. Last = call /\ Last' = c
  BY <1>1, <1>2 DEF Last, ChildOf
<1>6. CloneTable'
  BY <1>1, <1>2, <1>3, <1>5
     DEF CloneHere, CloneTable, ProcTypeOK, Pids, Root, NumCalls
<1>7. Root # c
  BY <1>2 DEF Root
<1>8. CaughtUp'
  BY <1>1, <1>2, <1>3 DEF CloneHere, CaughtUp, AllEnds, ProcTypeOK, Pids
<1>9. (WrongChildExplained /\ UndisturbedStatuses)'
  BY <1>1, StatusesKept DEF CloneHere, WrongChildExplained
<1>10. ASSUME ~meddled' PROVE Undisturbed'
  <2>1. Undisturbed
    BY <1>1, <1>10 DEF CloneHere
  <2>2. EarlierChildren'
    BY <1>1, <1>2, <1>3, <2>1 DEF CloneHere, Undisturbed, EarlierChildren, ProcTypeOK, Pids
  <2>3. st'[c] = "run" /\ rep'[c] = "none" /\ c = ChildOf(call')
    BY <1>1, <1>2, <1>3, <2>1 DEF CloneHere, Undisturbed, ProcTypeOK, ChildOf
  <2>4. ThisChild'
    BY <1>1, <2>3 DEF ThisChild
  <2> QED BY <1>1, <1>2, <1>3, <2>1, <2>2, <2>4 DEF CloneHere, Undisturbed, ProcTypeOK
<1> QED BY <1>3, <1>4, <1>6, <1>8, <1>9, <1>10 DEF CloneHere

(* Main's end: nothing is promised of the children it leaves behind.        *)
LEMMA CloneMainEnds ==
  ASSUME CloneHere, CloneFails \/ CloneReturn
  PROVE  CloneHere'
<1>1. /\ Alive(Root) /\ Die(Root, "exited")
      /\ \/ mpc = "clone" /\ mpc' = "failed"
         \/ mpc = "return" /\ mpc' = "done"
      /\ call' = call /\ code' = code /\ termed' = termed /\ seen' = seen
      /\ meddled' = meddled /\ traps' = traps /\ missed' = missed
  BY DEF CloneFails, CloneReturn, MainAt
<1>2. ProcTypeOK' /\ KeepsTable
  <2>1. Bury(Root, "exited") /\ signals' \in 0..MaxSignals
    BY <1>1 DEF CloneHere, Die, ProcTypeOK
  <2> QED BY <1>1, <2>1, RootPid, BuryKeeps DEF CloneHere
<1>3. ~Alive(Root)'
  BY <1>1, RootPid DEF Die, Bury, Alive
<1>4. CloneTypeOK'
  BY <1>1 DEF CloneHere, CloneTypeOK
<1>5. Last' = Last /\ termed' \subseteq {ChildOf(3)}
  BY <1>1 DEF Last, CloneHere, CloneTable
<1>6. (CloneTable /\ CaughtUp /\ WrongChildExplained)'
  BY <1>1, <1>2, <1>5, CloneMove DEF CloneHere
<1>7. UndisturbedStatuses'
  BY <1>1, StatusesKept DEF CloneHere
<1> QED BY <1>2, <1>3, <1>4, <1>6, <1>7 DEF CloneHere

(* A child ends: by itself, or by the SIGTERM of main.                      *)
LEMMA CloneChildEnds ==
  ASSUME CloneHere, NEW c \in Pids, c # Root, st[c] = "run",
         NEW z \in {"exited", "killed"}, NEW n \in Nat,
         Die(c, z), code' = [code EXCEPT ![c] = n],
         ~meddled /\ Alive(Root) => <<z, n>> = EndOf',
         call' = call, seen' = seen, termed' = termed, meddled' = meddled,
         traps' = traps, missed' = missed,
         mpc' = mpc \/ (mpc = "kill" /\ mpc' = "wait")
  PROVE  CloneHere'
<1>1. ProcTypeOK' /\ KeepsTable
  <2>1. Alive(c) /\ Bury(c, z) /\ signals' \in 0..MaxSignals
    BY DEF CloneHere, Die, ProcTypeOK, Alive
  <2> QED BY <2>1, BuryKeeps DEF CloneHere
<1>2. CloneTypeOK'
  BY DEF CloneHere, CloneTypeOK
<1>3. /\ Last' = Last /\ termed' \subseteq {ChildOf(3)}
      /\ mpc' \in {"clone", "kill", "wait"} => call <= NumCalls
      /\ mpc' = "kill" => call \in {3, 4}
  BY DEF Last, CloneHere, CloneTable
<1>4. (CloneTable /\ CaughtUp /\ WrongChildExplained)'
  BY <1>1, <1>3, CloneMove DEF CloneHere
<1>5. UndisturbedStatuses'
  BY StatusesKept DEF CloneHere
<1>6. ASSUME ~meddled', Alive(Root)' PROVE Undisturbed'
  <2>1. Alive(Root) /\ Undisturbed
    BY <1>1, <1>6, RootPid DEF CloneHere, KeepsTable
  <2>2. c = ChildOf(call) /\ mpc \in {"kill", "wait"} /\ call \in 1..5
    BY <2>1, RunsNow DEF CloneHere, Undisturbed
  <2>3. <<z, n>> = EndOf'
    BY <1>6, <2>1
  <2>4. mpc' \in {"kill", "wait"} /\ (mpc = "wait" => mpc' = "wait")
    BY <2>2
  <2> QED BY <2>1, <2>2, <2>3, <2>4, ThisChildDies DEF CloneHere
<1> QED BY <1>1, <1>2, <1>4, <1>5, <1>6 DEF CloneHere

(* Left alone, fn runs before main's kill, or in a call without one.        *)
LEMMA FnRuns ==
  ASSUME CloneHere, ~meddled, Alive(Root), NEW c \in Pids, c # Root, st[c] = "run"
  PROVE  /\ c = ChildOf(call) /\ termed = {}
         /\ (mpc = "kill" /\ call \in {3, 4}) \/ (mpc = "wait" /\ call \in {1, 2, 5})
<1>1. Undisturbed
  BY DEF CloneHere
<1>2. c = ChildOf(call) /\ mpc \in {"kill", "wait"} /\ call \in 1..5
  BY <1>1, RunsNow DEF CloneHere, Undisturbed
<1>3. mpc = "wait" => call \notin {3, 4}
  BY <1>1, <1>2 DEF Undisturbed, ThisChild
<1> QED BY <1>1, <1>2, <1>3 DEF Undisturbed, CloneHere, CloneTable

LEMMA CloneFn ==
  ASSUME CloneHere, NEW c \in Pids, Fn(c)
  PROVE  CloneHere'
<1>1. c # Root /\ st[c] = "run" /\ call' = call /\ seen' = seen /\ termed' = termed
      /\ meddled' = meddled /\ mpc' = mpc /\ traps' = traps /\ missed' = missed
  BY DEF Fn, FnFaults, FnReturns, TermDelivered, FnEnds, InFn, CloneHere, CloneTable,
         ChildOf, Root
<1>2. c \in 2..6
  BY <1>1 DEF CloneHere, CloneTypeOK, CloneTable, Last, ChildOf, Pids, Root, NumCalls
<1>0. ASSUME ~meddled, Alive(Root)
      PROVE  /\ c = call + 1 /\ termed = {}
             /\ \/ mpc' = "kill" /\ call \in {3, 4}
                \/ mpc' = "wait" /\ call \in {1, 2, 5} /\ EndOf' = Outcome(call)'
  BY <1>0, <1>1, FnRuns DEF ChildOf, EndOf
<1>3. CASE TermDelivered(c)
  <2>1. c \in termed /\ Die(c, "killed") /\ code' = [code EXCEPT ![c] = SIGTERM]
        /\ SIGTERM \in Nat
    BY <1>3 DEF TermDelivered, FnEnds, SIGTERM
  <2> QED BY <1>0, <1>1, <2>1, CloneChildEnds
<1>4. CASE FnFaults(c)
  <2> DEFINE n == IF Arg(c) = Null THEN SIGSEGV ELSE SIGFPE
  <2>1. /\ Arg(c) = Null \/ (Arg(c) = 0 /\ traps)
        /\ Die(c, "killed") /\ code' = [code EXCEPT ![c] = n]
    BY <1>4 DEF FnFaults, FnEnds
  <2>2. n \in Nat
    BY DEF SIGSEGV, SIGFPE
  <2>3. c = 2 \/ (c = 3 /\ traps)
    BY <1>2, <2>1, ArgOf DEF Null
  <2>4. ASSUME ~meddled, Alive(Root) PROVE <<"killed", n>> = EndOf'
    <3>1. CASE c = 2
      BY <1>0, <1>1, <2>4, <3>1, ArgOf, OutcomeWillBe
    <3>2. CASE c = 3 /\ traps
      BY <1>0, <1>1, <2>4, <3>2, ArgOf, OutcomeWillBe DEF Null
    <3> QED BY <2>3, <3>1, <3>2
  <2> HIDE DEF n
  <2> QED BY <1>1, <2>1, <2>2, <2>4, CloneChildEnds
<1>5. CASE FnReturns(c)
  <2>1. /\ Arg(c) # Null /\ (Arg(c) = 0 => ~traps) /\ Die(c, "exited")
        /\ code' = [code EXCEPT ![c] = Arg(c)]
    BY <1>5 DEF FnReturns, FnEnds
  <2>2. c \in {3, 4, 5, 6} /\ (c = 3 => ~traps)
    BY <1>2, <2>1, ArgOf
  <2>3. Arg(c) \in Nat
    BY <2>2, ArgOf
  <2>4. ASSUME ~meddled, Alive(Root) PROVE <<"exited", Arg(c)>> = EndOf'
    <3>1. CASE c = 3
      BY <1>0, <1>1, <2>2, <2>4, <3>1, ArgOf, OutcomeWillBe
    <3>2. CASE c \in {4, 5}
      BY <1>0, <2>4, <3>2, ArgOf DEF EndOf
    <3>3. CASE c = 6
      BY <1>0, <1>1, <2>4, <3>3, ArgOf, OutcomeWillBe
    <3> QED BY <2>2, <3>1, <3>2, <3>3
  <2> QED BY <1>1, <2>1, <2>3, <2>4, CloneChildEnds
<1> QED BY <1>3, <1>4, <1>5 DEF Fn

LEMMA CloneKill ==
  ASSUME CloneHere, KillChild
  PROVE  CloneHere'
<1> DEFINE c == ChildOf(call)
<1>1. /\ Alive(Root) /\ mpc = "kill" /\ mpc' = "wait"
      /\ IF KillWith(call) = "TERM" THEN SendTerm(c) ELSE SendStop(c)
      /\ call' = call /\ seen' = seen /\ meddled' = meddled /\ traps' = traps
      /\ missed' = IF Alive(c) THEN missed ELSE missed \cup {call}
  BY DEF KillChild, MainAt
<1>2. call \in {3, 4} /\ c = call + 1 /\ c \in Pids /\ c # Root
  BY <1>1, RoomForClones, MaxProcsAssumption
     DEF CloneHere, CloneTable, NumCalls, ChildOf, Pids, Root
<1>3. UndisturbedStatuses'
  <2> SUFFICES ASSUME ~meddled, NEW k \in 1..Len(seen)
               PROVE  seen[k].child = ChildOf(k) /\ <<seen[k].how, seen[k].code>> = Outcome(k)'
    BY <1>1 DEF UndisturbedStatuses
  <2>1. seen[k].child = ChildOf(k) /\ <<seen[k].how, seen[k].code>> = Outcome(k)
    BY Zenon DEF CloneHere, UndisturbedStatuses
  <2>2. k \in 1..5 /\ k # call
    BY <1>2 DEF CloneHere, CloneTable
  <2>3. k \in missed' <=> k \in missed
    BY <1>1, <2>2
  <2> QED BY <1>1, <2>1, <2>2, <2>3, OutcomeKept
<1>4. Last' = Last /\ missed' \subseteq {3, 4} /\ traps' \in BOOLEAN
  BY <1>1, <1>2 DEF Last, CloneHere, CloneTypeOK
<1>8. ASSUME ~meddled'
      PROVE  /\ Undisturbed /\ call \notin missed
             /\ \A k \in missed' : k < call' \/ (k = call' /\ mpc' = "wait")
  <2>1. Undisturbed /\ \A k \in missed : k < call
    BY <1>1, <1>8 DEF CloneHere, Undisturbed
  <2> QED BY <1>1, <1>2, <2>1
<1>5. CASE call = 3 /\ st[c] = "run"
  <2>1. /\ Die(c, "killed") /\ code' = [code EXCEPT ![c] = SIGTERM] /\ termed' = termed
        /\ SIGTERM \in Nat /\ missed' = missed
    BY <1>1, <1>2, <1>5 DEF KillWith, SendTerm, SIGTERM, Alive
  <2>2. ~meddled => <<"killed", SIGTERM>> = EndOf'
    BY <1>1, <1>5, <1>8, <2>1, OutcomeWillBe DEF EndOf
  <2> HIDE DEF c
  <2> QED BY <1>1, <1>2, <1>5, <2>1, <2>2, CloneChildEnds
<1>6. CASE call = 3 /\ st[c] # "run"
  <2>1. /\ termed' = (IF st[c] = "stopped" THEN termed \cup {c} ELSE termed)
        /\ UNCHANGED <<proc_vars, code>>
    BY <1>1, <1>6 DEF KillWith, SendTerm
  <2>2. ProcTypeOK' /\ KeepsTable
    BY <2>1 DEF CloneHere, proc_vars, ProcTypeOK, KeepsTable, Alive
  <2>3. termed' \subseteq {ChildOf(3)}
    BY <1>6, <2>1 DEF CloneHere, CloneTable
  <2>4. CloneTypeOK'
    BY <1>1, <1>2, <1>4, <2>1 DEF CloneHere, CloneTypeOK
  <2>5. (CloneTable /\ CaughtUp /\ WrongChildExplained)'
    BY <1>1, <1>2, <1>4, <2>2, <2>3, CloneMove DEF CloneHere, NumCalls
  <2>6. ASSUME ~meddled' PROVE Undisturbed'
    <3>1. Undisturbed /\ st[c] # "stopped"
      BY <1>1, <1>6, <2>6 DEF CloneHere, Undisturbed, ThisChild
    <3>2. EarlierChildren'
      BY <1>1, <2>1, <3>1 DEF Undisturbed, EarlierChildren, proc_vars
    <3>3. /\ st[c] \in {"exited", "killed"} /\ rep[c] = "none"
          /\ <<st[c], code[c]>> = <<"exited", 1>>
      BY <1>1, <1>6, <3>1 DEF Undisturbed, ThisChild, EndOf
    <3>4. EndOf' = <<"exited", 1>>
      BY <1>1, <1>6, <3>3, OutcomeWillBe DEF EndOf, Alive
    <3>5. ThisChild'
      BY <1>1, <2>1, <3>3, <3>4 DEF ThisChild, proc_vars
    <3> QED BY <1>8, <2>1, <2>6, <3>1, <3>2, <3>5 DEF Undisturbed, proc_vars
  <2> QED BY <1>3, <2>2, <2>4, <2>5, <2>6 DEF CloneHere
<1>7. CASE call = 4
  <2>1. /\ par' = par /\ signals' = signals /\ code' = code /\ termed' = termed
        /\ IF st[c] = "run"
           THEN st' = [st EXCEPT ![c] = "stopped"] /\ rep' = [rep EXCEPT ![c] = "stop"]
           ELSE st' = st /\ rep' = rep
    BY <1>1, <1>7 DEF KillWith, SendStop
  <2> HIDE DEF c
  <2>2. ProcTypeOK' /\ KeepsTable
    BY <1>2, <2>1 DEF CloneHere, ProcTypeOK, KeepsTable, Alive
  <2>3. termed' \subseteq {ChildOf(3)}
    BY <2>1 DEF CloneHere, CloneTable
  <2>4. CloneTypeOK'
    BY <1>1, <1>4, <2>1 DEF CloneHere, CloneTypeOK
  <2>5. (CloneTable /\ CaughtUp /\ WrongChildExplained)'
    BY <1>1, <1>2, <1>4, <2>2, <2>3, CloneMove DEF CloneHere, NumCalls
  <2>6. ASSUME ~meddled' PROVE Undisturbed'
    <3>1. Undisturbed /\ call \notin missed
      BY <1>1, <1>8, <2>6 DEF CloneHere
    <3>2. c = ChildOf(call) BY DEF c
    <3>3. EarlierChildren'
      <4> SUFFICES ASSUME NEW d \in Pids, d # Root, d <= call
                   PROVE  \/ st'[d] = "gone"
                          \/ d = ChildOf(4) /\ st'[d] = "stopped" /\ rep'[d] = "none"
        BY <1>1 DEF EarlierChildren
      <4>1. d # c
        BY <1>2 DEF Pids
      <4>2. st'[d] = st[d] /\ rep'[d] = rep[d]
        BY <2>1, <4>1 DEF CloneHere, ProcTypeOK
      <4> QED BY <3>1, <4>2 DEF Undisturbed, EarlierChildren
    <3>4. ThisChild'
      <4>1. /\ st[c] \in {"run", "exited", "killed"} /\ rep[c] = "none"
            /\ st[c] \in {"exited", "killed"} => <<st[c], code[c]>> = <<"exited", 1>>
        BY <1>1, <3>1, <3>2 DEF Undisturbed, ThisChild, EndOf
      <4>2. CASE st[c] = "run"
        <5>1. st'[c] = "stopped" /\ rep'[c] = "stop"
          BY <1>2, <2>1, <4>2 DEF CloneHere, ProcTypeOK
        <5>2. 4 \notin missed'
          BY <1>1, <1>7, <3>1, <3>2, <4>2 DEF Alive
        <5> QED BY <1>1, <1>7, <3>2, <5>1, <5>2 DEF ThisChild
      <4>3. CASE st[c] # "run"
        <5>1. EndOf' = <<"exited", 1>>
          BY <1>1, <1>7, <3>2, <4>1, <4>3, OutcomeWillBe DEF EndOf, Alive
        <5> QED BY <1>1, <2>1, <3>2, <4>1, <4>3, <5>1 DEF ThisChild
      <4> QED BY <4>2, <4>3
    <3> QED BY <1>2, <1>8, <2>1, <2>6, <3>1, <3>3, <3>4 DEF CloneHere, Undisturbed, ProcTypeOK
  <2> QED BY <1>3, <2>2, <2>4, <2>5, <2>6 DEF CloneHere
<1> QED BY <1>2, <1>5, <1>6, <1>7

(* waitpid(0): the one step in which main could take the wrong child.       *)
LEMMA CloneWait ==
  ASSUME CloneHere, WaitAnyChild
  PROVE  CloneHere'
<1>1. PICK c \in Pids :
        /\ Reportable(Root, c) /\ Collect(c)
        /\ seen' = Append(seen, [child |-> c, how |-> Report(c),
                                 code |-> IF Zombie(c) THEN code[c] ELSE 0])
  BY DEF WaitAnyChild, Take
<1>2. /\ Alive(Root) /\ mpc = "wait" /\ call' = call + 1
      /\ mpc' = (IF call = NumCalls THEN "return" ELSE "clone")
      /\ code' = code /\ termed' = termed /\ meddled' = meddled
      /\ traps' = traps /\ missed' = missed
  BY DEF WaitAnyChild, MainAt
<1> DEFINE r == [child |-> c, how |-> Report(c), code |-> IF Zombie(c) THEN code[c] ELSE 0]
<1>3. /\ ProcTypeOK' /\ KeepsTable
      /\ Ends(Report(c)) => st'[c] = "gone"
      /\ \A q \in Pids \ {c} : st'[q] = st[q]
  BY <1>1, CollectKeeps DEF CloneHere
<1>4. Report(c) \in {"exited", "killed", "stop", "cont"}
  BY <1>1 DEF CloneHere, ProcTypeOK, Reportable, Report, Zombie
<1>5. r \in [child : Pids, how : {"exited", "killed", "stop", "cont"}, code : Nat]
  BY <1>4 DEF CloneHere, CloneTypeOK
<1>6. /\ r.child = c /\ r.how = Report(c)
      /\ r.code = IF Zombie(c) THEN code[c] ELSE 0
  OBVIOUS
<1>7. seen' = Append(seen, r)
  BY <1>1
<1> HIDE DEF r
<1>8. call \in 1..5 /\ Len(seen) = call - 1
      /\ seen \in Seq([child : Pids, how : {"exited", "killed", "stop", "cont"}, code : Nat])
  BY <1>2 DEF CloneHere, CloneTypeOK, CloneTable, NumCalls
<1>9. /\ Len(seen') = call /\ seen'[call] = r
      /\ \A k \in 1..call - 1 : seen'[k] = seen[k]
  BY <1>5, <1>7, <1>8
<1>10. CloneTypeOK'
  BY <1>2, <1>5, <1>7, <1>8 DEF CloneHere, CloneTypeOK, NumCalls
<1>11. Last = call + 1 /\ Last' = call + 1
  BY <1>2 DEF Last, ChildOf
<1>12. CloneTable'
  BY <1>2, <1>3, <1>8, <1>9, <1>11 DEF CloneHere, CloneTable, KeepsTable, NumCalls
<1>13. c # Root /\ c <= call + 1 /\ par[c] = Root /\ st[c] # "gone"
  BY <1>1, <1>11 DEF CloneHere, CloneTable, Reportable, Root, Pids
<1>14. AllEnds => c = call + 1
  BY <1>2, <1>8, <1>13 DEF CloneHere, CaughtUp, Pids
<1>15. CaughtUp'
  <2> SUFFICES ASSUME AllEnds', NEW d \in Pids, d # Root, d <= call + 1
               PROVE  st'[d] = "gone"
    BY <1>2 DEF CaughtUp
  <2>1. AllEnds /\ Ends(Report(c))
    BY <1>4, <1>6, <1>8, <1>9 DEF AllEnds, Ends
  <2>2. CASE d = c
    BY <1>3, <2>1, <2>2
  <2>3. CASE d # c
    BY <1>2, <1>3, <1>8, <1>14, <2>1, <2>3 DEF CloneHere, CaughtUp, KeepsTable, Pids
  <2> QED BY <2>2, <2>3
<1>16. WrongChildExplained'
  <2> SUFFICES ASSUME NEW k \in 1..call, seen'[k].child # ChildOf(k)
               PROVE  \E j \in 1..k-1 : seen'[j].how \in {"stop", "cont"}
    BY <1>9 DEF WrongChildExplained
  <2>1. CASE k = call
    <3>1. ~AllEnds
      BY <1>6, <1>9, <1>14, <2>1 DEF ChildOf
    <3> QED BY <1>8, <1>9, <2>1, <3>1 DEF AllEnds
  <2>2. CASE k # call
    <3>1. k \in 1..Len(seen) /\ seen[k].child # ChildOf(k)
      BY <1>8, <1>9, <2>2
    <3>2. PICK j \in 1..k-1 : seen[j].how \in {"stop", "cont"}
      BY <3>1 DEF CloneHere, WrongChildExplained
    <3> QED BY <1>8, <1>9, <3>1, <3>2
  <2> QED BY <2>1, <2>2
<1>17. ASSUME ~meddled'
       PROVE  Undisturbed' /\ UndisturbedStatuses'
  <2>1. Undisturbed /\ UndisturbedStatuses /\ ~meddled
    BY <1>2, <1>17 DEF CloneHere
  <2>2. c = call + 1
    BY <1>1, <1>8, <1>13, <2>1
       DEF Undisturbed, EarlierChildren, Reportable, Report, Zombie, Pids
  <2>3. /\ st[c] \in {"run", "stopped", "exited", "killed"}
        /\ IF st[c] = "stopped" THEN call = 4 /\ rep[c] = "stop" /\ 4 \notin missed
                                ELSE rep[c] = "none"
        /\ st[c] \in {"exited", "killed"} => <<st[c], code[c]>> = Outcome(call)
    BY <1>2, <2>1, <2>2 DEF Undisturbed, ThisChild, ChildOf, EndOf
  <2>4. <<r.how, r.code>> = Outcome(call)
    <3>1. CASE st[c] \in {"exited", "killed"}
      BY <1>6, <2>3, <3>1 DEF Report, Zombie
    <3>2. CASE st[c] \notin {"exited", "killed"}
      <4>1. Report(c) = rep[c] /\ rep[c] # "none"
        BY <1>1, <3>2 DEF Reportable, Report, Zombie
      <4>2. call = 4 /\ r.how = "stop" /\ r.code = 0 /\ 4 \notin missed
        BY <1>6, <2>3, <3>2, <4>1 DEF Zombie
      <4> QED BY <4>2, OutcomeIs
    <3> QED BY <3>1, <3>2
  <2>5. UndisturbedStatuses'
    <3> SUFFICES ASSUME NEW k \in 1..call
                 PROVE  /\ seen'[k].child = ChildOf(k)
                        /\ <<seen'[k].how, seen'[k].code>> = Outcome(k)
      <4>1. \A k \in 1..call : Outcome(k)' = Outcome(k)
        BY <1>2, <1>8, OutcomeKept
      <4> QED BY <1>9, <4>1 DEF UndisturbedStatuses
    <3>1. CASE k = call
      BY <1>6, <1>9, <2>2, <2>4, <3>1 DEF ChildOf
    <3>2. CASE k # call
      <4>1. k \in 1..Len(seen) /\ seen'[k] = seen[k]
        BY <1>8, <1>9, <3>2
      <4>2. seen[k].child = ChildOf(k) /\ <<seen[k].how, seen[k].code>> = Outcome(k)
        BY <2>1, <4>1, Zenon DEF UndisturbedStatuses
      <4> QED BY <4>1, <4>2
    <3> QED BY <3>1, <3>2
  <2>6. rep' = [rep EXCEPT ![c] = "none"]
    BY <1>1 DEF Collect
  <2>7. EarlierChildren'
    <3> SUFFICES ASSUME NEW d \in Pids, d # Root, d <= call + 1
                 PROVE  \/ st'[d] = "gone"
                        \/ d = ChildOf(4) /\ st'[d] = "stopped" /\ rep'[d] = "none"
      BY <1>2 DEF EarlierChildren
    <3>1. CASE d = c
      <4>1. CASE st[c] \in {"exited", "killed"}
        BY <1>3, <3>1, <4>1 DEF Ends, Report, Zombie
      <4>2. CASE st[c] \notin {"exited", "killed"}
        <5>1. rep[c] # "none"
          BY <1>1, <4>2 DEF Reportable, Report, Zombie
        <5>2. st[c] = "stopped" /\ call = 4 /\ st' = st
          BY <1>1, <2>3, <4>2, <5>1 DEF Collect, Zombie
        <5> QED BY <2>2, <2>6, <3>1, <5>2 DEF ChildOf, CloneHere, ProcTypeOK
      <4> QED BY <4>1, <4>2
    <3>2. CASE d # c
      BY <1>3, <1>8, <2>1, <2>2, <2>6, <3>2
         DEF Undisturbed, EarlierChildren, CloneHere, ProcTypeOK, Pids
    <3> QED BY <3>1, <3>2
  <2>8. ThisChild' /\ \A k \in missed' : k < call'
    BY <1>2, <1>8, <2>1 DEF ThisChild, Undisturbed, CloneHere, CloneTypeOK
  <2> QED BY <1>2, <1>3, <2>1, <2>5, <2>6, <2>7, <2>8 DEF Undisturbed, KeepsTable, CloneHere, ProcTypeOK
<1>18. UndisturbedStatuses'
  BY <1>17 DEF UndisturbedStatuses
<1> QED BY <1>3, <1>10, <1>12, <1>15, <1>16, <1>17, <1>18 DEF CloneHere

-----------------------------------------------------------------------------
LEMMA CloneStep ==
  ASSUME CloneHere, CloneNext
  PROVE  CloneHere'
<1>1. CASE CloneMain \/ CloneFails
  BY <1>1, CloneStarts, CloneKill, CloneWait, CloneMainEnds DEF CloneMain
<1>2. CASE \E c \in Pids : Fn(c)
  BY <1>2, CloneFn
<1>3. CASE Signals /\ meddled' = TRUE /\ UNCHANGED <<mpc, call, code, termed, seen, traps, missed>>
  <2>1. ProcTypeOK' /\ KeepsTable
    BY <1>3, SignalsKeep DEF CloneHere
  <2>2. /\ mpc' = mpc /\ call' = call /\ code' = code /\ termed' = termed /\ seen' = seen
        /\ traps' = traps /\ missed' = missed
    BY <1>3
  <2>3. meddled' \in BOOLEAN /\ meddled'
    BY <1>3
  <2>4. CloneTypeOK'
    BY <2>2, <2>3 DEF CloneHere, CloneTypeOK
  <2>5. /\ Last' = Last /\ termed' \subseteq {ChildOf(3)}
        /\ mpc' \in {"clone", "kill", "wait"} => call <= NumCalls
        /\ mpc' = "kill" => call \in {3, 4}
    BY <2>2 DEF Last, CloneHere, CloneTable
  <2>6. (CloneTable /\ CaughtUp /\ WrongChildExplained)'
    BY <2>1, <2>2, <2>5, CloneMove DEF CloneHere
  <2>7. UndisturbedStatuses'
    BY <2>3 DEF UndisturbedStatuses
  <2> QED BY <2>1, <2>3, <2>4, <2>6, <2>7 DEF CloneHere
<1> QED BY <1>1, <1>2, <1>3 DEF CloneNext

LEMMA Initial == Init => IInv
BY FilesInitial, SerialInitial, CloneInitial DEF IInv, TypeOK

LEMMA Step ==
  ASSUME IInv, [Next]_vars
  PROVE  IInv'
<1>1. (NsTypeOK /\ FilesInOrder)'
  BY FilesStep DEF IInv, TypeOK
<1>2. CASE AsSerial /\ SerialNext
  <2>1. prog = Serial /\ prog' = prog /\ prog # Cloning /\ UNCHANGED clone_vars
    BY <1>2 DEF AsSerial, As, Serial, Cloning
  <2>2. (CloneTypeOK /\ CloneInv)'
    BY <2>1, CloneOther DEF IInv, TypeOK
  <2>3. (ProcTypeOK /\ SerialTypeOK /\ SerialInv)'
    <3>1. CASE \E p \in Pids : Process(p) \/ ForkFails(p)
      BY <1>2, <3>1, SerialProcess DEF IInv, TypeOK
    <3>2. CASE Signals /\ UNCHANGED serial_vars
      <4>1. ProcTypeOK' /\ KeepsTable
        BY <3>2, SignalsKeep DEF IInv, TypeOK
      <4> QED BY <2>1, <3>2, <4>1, SerialOther DEF IInv, TypeOK
    <3> QED BY <1>2, <3>1, <3>2 DEF SerialNext
  <2> QED BY <1>1, <2>2, <2>3 DEF IInv, TypeOK
<1>3. CASE AsClone /\ CloneNext
  <2>1. prog = Cloning /\ prog' = prog /\ prog # Serial /\ UNCHANGED serial_vars
    BY <1>3 DEF AsClone, As, Serial, Cloning
  <2>2. (SerialTypeOK /\ SerialInv)'
    BY <2>1, SerialOther DEF IInv, TypeOK
  <2>3. CloneHere
    BY <2>1 DEF IInv, TypeOK, CloneInv, CloneHere
  <2>4. CloneHere'
    BY <1>3, <2>3, CloneStep
  <2>5. ProcTypeOK' /\ CloneTypeOK' /\ CloneInv'
    BY <2>1, <2>4 DEF CloneInv, CloneHere
  <2> QED BY <1>1, <2>2, <2>5 DEF IInv, TypeOK
<1>4. CASE AsNs /\ NsNext
  <2>1. /\ prog # Cloning /\ prog' = prog /\ prog # Serial
        /\ UNCHANGED serial_vars /\ UNCHANGED clone_vars
    BY <1>4 DEF AsNs, As, Serial, Cloning, Namespace
  <2>2. (SerialTypeOK /\ SerialInv)' /\ (CloneTypeOK /\ CloneInv)'
    BY <2>1, SerialOther, CloneOther DEF IInv, TypeOK
  <2>3. ProcTypeOK'
    BY <1>4, NsTable DEF IInv, TypeOK
  <2> QED BY <1>1, <2>2, <2>3 DEF IInv, TypeOK
<1>5. CASE UNCHANGED vars
  <2>1. /\ UNCHANGED proc_vars /\ prog' = prog /\ UNCHANGED serial_vars
        /\ UNCHANGED clone_vars
    BY <1>5 DEF vars
  <2>2. ProcTypeOK' /\ KeepsTable
    BY <2>1 DEF IInv, TypeOK, ProcTypeOK, KeepsTable, Alive, proc_vars
  <2>3. (SerialTypeOK /\ SerialInv)'
    BY <2>1, <2>2, SerialOther DEF IInv, TypeOK
  <2>4. CloneTypeOK' /\ CloneInv'
    <3>1. CASE prog # Cloning
      BY <2>1, <3>1, CloneOther DEF IInv, TypeOK
    <3>2. CASE prog = Cloning
      <4>1. /\ mpc' = mpc /\ call' = call /\ code' = code /\ termed' = termed
            /\ seen' = seen /\ meddled' = meddled /\ traps' = traps /\ missed' = missed
            /\ st' = st /\ rep' = rep
        BY <2>1 DEF clone_vars, proc_vars
      <4>2. CloneTypeOK'
        BY <4>1 DEF IInv, TypeOK, CloneTypeOK
      <4>3. /\ Last' = Last /\ termed' \subseteq {ChildOf(3)}
            /\ mpc' \in {"clone", "kill", "wait"} => call <= NumCalls
            /\ mpc' = "kill" => call \in {3, 4}
        BY <3>2, <4>1 DEF Last, IInv, CloneInv, CloneTable
      <4>4. (CloneTable /\ CaughtUp /\ WrongChildExplained)'
        BY <2>2, <3>2, <4>1, <4>3, CloneMove DEF IInv, TypeOK, CloneInv
      <4>5. (~meddled /\ Alive(Root) => Undisturbed)'
        BY <3>2, <4>1 DEF IInv, CloneInv, Alive, Undisturbed, EarlierChildren, ThisChild,
                             EndOf, Outcome
      <4>6. UndisturbedStatuses'
        BY <4>1, StatusesKept DEF IInv, CloneInv
      <4> QED BY <2>1, <3>2, <4>2, <4>4, <4>5, <4>6 DEF CloneInv
    <3> QED BY <3>1, <3>2
  <2> QED BY <1>1, <2>2, <2>3, <2>4 DEF IInv, TypeOK
<1> QED BY <1>2, <1>3, <1>4, <1>5 DEF Next

(* The invariant of the three programs, for every number of forks and of    *)
(* signals from outside: the types, the order of mkuidns.c's files, the one *)
(* unreaped child of serialfork.c and what clone.c's waits leave behind.    *)
THEOREM SequentialInvariant == Spec => []IInv
BY Initial, Step, PTL DEF Spec

(* serialfork.c and multiforkexec.c, children that fall through included:   *)
(* a process that reaches the end of main has reaped every child it forked. *)
THEOREM ReapsAll == Spec => []ReapsWhatItForks
<1>1. IInv => ReapsWhatItForks
  <2> SUFFICES ASSUME IInv, NEW p \in Pids, pc[p] = "done", NEW c \in Pids, par[c] = p
               PROVE  st[c] = "gone"
    BY DEF ReapsWhatItForks
  <2>1. prog = Serial
    BY DEF IInv, SerialInv, SerialIdle
  <2> QED BY <2>1 DEF IInv, SerialInv, OneAtATime
<1> QED BY <1>1, SequentialInvariant, PTL

(* clone.c: whatever signals arrive, waitpid(0) takes the child of an       *)
(* earlier call only after a stop or a continue was reported.               *)
THEOREM WrongChildOnlyAfterStop == Spec => []WrongChildExplained
<1>1. IInv => WrongChildExplained
  BY DEF IInv, CloneInv
<1> QED BY <1>1, SequentialInvariant, PTL

(* clone.c left alone: each of the five waits reads the child of its call,  *)
(* and the status is exactly the one that whether 10/0 traps and whether    *)
(* main's kill was in time decide.                                          *)
THEOREM StatusesDecided == Spec => []UndisturbedStatuses
<1>1. IInv => UndisturbedStatuses
  BY DEF IInv, CloneInv
<1> QED BY <1>1, SequentialInvariant, PTL
-----------------------------------------------------------------------------
(* How the children that fall through multiply.  Every process has a set of *)
(* rounds: those of its parent and the round in which it was forked.  Two   *)
(* processes differ in a round that both have left behind, so no later fork *)
(* can make their sets equal.                                               *)
Rounds == 0..(NumForks - 1)
Past(p, k) == k < forkno[p] \/ (k = forkno[p] /\ pc[p] # "loop")
Apart(a, p, q) ==
  \E k \in Rounds : Past(p, k) /\ Past(q, k) /\ ~(k \in a[p] <=> k \in a[q])

Lineage(a) ==
  /\ a \in [Pids -> SUBSET Rounds]
  /\ \A p \in Pids : st[p] # "free" => \A k \in a[p] : Past(p, k)
  /\ \A p, q \in Pids : st[p] # "free" /\ st[q] # "free" /\ p # q => Apart(a, p, q)

Cascade == prog = Serial => \E a \in [Pids -> SUBSET Rounds] : Lineage(a)

LEMMA CascadeInitial == Init => Cascade
<1> SUFFICES ASSUME Init PROVE Cascade
  OBVIOUS
<1> DEFINE a == [p \in Pids |-> {}]
<1>1. a \in [Pids -> SUBSET Rounds]
  OBVIOUS
<1>2. Lineage(a)
  BY <1>1 DEF Lineage, Init, ProcInit
<1> QED BY <1>1, <1>2 DEF Cascade

(* Without a fork the lineage stays as it is, since no round comes back.    *)
LEMMA LineageKept ==
  ASSUME NEW a, Lineage(a),
         \A q \in Pids : st'[q] = "free" <=> st[q] = "free",
         \A q \in Pids, k \in Rounds : st[q] # "free" /\ Past(q, k) => Past(q, k)'
  PROVE  Lineage(a)'
<1>1. ASSUME NEW p \in Pids, st'[p] # "free", NEW k \in a[p]
      PROVE  Past(p, k)'
  BY <1>1 DEF Lineage
<1>2. ASSUME NEW p \in Pids, NEW q \in Pids, st'[p] # "free", st'[q] # "free", p # q
      PROVE  Apart(a, p, q)'
  <2>1. PICK k \in Rounds : Past(p, k) /\ Past(q, k) /\ ~(k \in a[p] <=> k \in a[q])
    BY <1>2 DEF Lineage, Apart
  <2> QED BY <1>2, <2>1 DEF Apart
<1> QED BY <1>1, <1>2 DEF Lineage

(* A forked child adds this round to its parent's.                          *)
LEMMA LineageFork ==
  ASSUME ProcTypeOK, SerialTypeOK, NEW p \in Pids, Fork(p), NEW a, Lineage(a)
  PROVE  \E b \in [Pids -> SUBSET Rounds] : Lineage(b)'
<1>1. PICK c \in Pids : /\ ForkAs(p, c)
                        /\ pc' = [pc EXCEPT ![p] = "wait", ![c] = "child"]
                        /\ forkno' = [forkno EXCEPT ![c] = forkno[p]]
  BY DEF Fork
<1>2. st[p] = "run" /\ pc[p] = "loop" /\ forkno[p] < NumForks
  BY DEF Fork, At, MoreForks
<1>3. st[c] = "free" /\ p # c /\ st' = [st EXCEPT ![c] = "run"]
  BY <1>1, <1>2, ForkType
<1>4. PICK f \in Rounds : f = forkno[p]
  BY <1>2, NumForksAssumption DEF SerialTypeOK, Rounds
<1>5. PICK b \in [Pids -> SUBSET Rounds] : b = [a EXCEPT ![c] = a[p] \cup {f}]
  BY DEF Lineage
<1>6. /\ b[c] = a[p] \cup {f}
      /\ \A q \in Pids : q # c => b[q] = a[q]
  BY <1>5 DEF Lineage
<1>7. ASSUME NEW q \in Pids, q # c, NEW k \in Rounds, Past(q, k)
      PROVE  Past(q, k)'
  BY <1>1, <1>2, <1>7 DEF Past, SerialTypeOK
<1>8. \A k \in Rounds : Past(c, k)' <=> Past(p, k) \/ k = f
  BY <1>1, <1>2, <1>3, <1>4 DEF Past, SerialTypeOK, Rounds
<1>9. Past(p, f)' /\ Past(c, f)' /\ f \notin a[p]
  <2>1. ~Past(p, f)
    BY <1>2, <1>4 DEF Past, SerialTypeOK
  <2> QED BY <1>1, <1>2, <1>3, <1>4, <2>1 DEF Past, Lineage, SerialTypeOK
<1>10. ASSUME NEW q \in Pids, st'[q] # "free", NEW k \in b[q]
       PROVE  Past(q, k)'
  <2>0. k \in Rounds BY <1>10
  <2>1. CASE q # c
    BY <1>3, <1>6, <1>7, <1>10, <2>0, <2>1 DEF Lineage, ProcTypeOK
  <2>2. CASE q = c
    BY <1>2, <1>6, <1>8, <1>10, <2>0, <2>2 DEF Lineage
  <2> QED BY <2>1, <2>2
<1>11. ASSUME NEW q \in Pids, NEW r \in Pids, q # c, st'[q] # "free", st'[r] # "free", q # r
       PROVE  Apart(b, q, r)'
  <2>1. st[q] # "free"
    BY <1>3, <1>11 DEF ProcTypeOK
  <2>2. CASE r # c
    <3>1. PICK k \in Rounds : Past(q, k) /\ Past(r, k) /\ ~(k \in a[q] <=> k \in a[r])
      BY <1>3, <1>11, <2>1, <2>2 DEF Lineage, Apart, ProcTypeOK
    <3> QED BY <1>6, <1>7, <1>11, <2>2, <3>1 DEF Apart
  <2>3. CASE r = c /\ q = p
    BY <1>3, <1>4, <1>6, <1>9, <2>3 DEF Apart
  <2>4. CASE r = c /\ q # p
    <3>1. PICK k \in Rounds : Past(q, k) /\ Past(p, k) /\ ~(k \in a[q] <=> k \in a[p])
      BY <1>2, <2>1, <2>4 DEF Lineage, Apart
    <3>2. k # f
      BY <1>2, <1>4, <3>1 DEF Past, SerialTypeOK
    <3> QED BY <1>6, <1>7, <1>8, <1>11, <2>4, <3>1, <3>2 DEF Apart
  <2> QED BY <2>2, <2>3, <2>4
<1>12. ASSUME NEW q \in Pids, NEW r \in Pids, Apart(b, q, r)'
       PROVE  Apart(b, r, q)'
  BY <1>12 DEF Apart
<1>13. Lineage(b)'
  BY <1>5, <1>10, <1>11, <1>12 DEF Lineage
<1> QED BY <1>5, <1>13

LEMMA CascadeStep ==
  ASSUME IInv, Cascade, [Next]_vars
  PROVE  Cascade'
<1> SUFFICES ASSUME prog' = Serial
             PROVE  \E a \in [Pids -> SUBSET Rounds] : Lineage(a)'
  BY DEF Cascade
<1>1. prog = Serial
  BY DEF Next, AsSerial, AsClone, AsNs, As, vars
<1>2. PICK a \in [Pids -> SUBSET Rounds] : Lineage(a)
  BY <1>1 DEF Cascade
<1>3. ProcTypeOK /\ SerialTypeOK /\ SerialInv
  BY DEF IInv, TypeOK
<1>4. CASE UNCHANGED serial_vars /\ KeepsTable
  <2>1. \A q \in Pids, k \in Rounds : Past(q, k) => Past(q, k)'
    BY <1>4 DEF Past, serial_vars
  <2> QED BY <1>2, <1>4, <2>1, LineageKept DEF KeepsTable
<1>5. CASE \E p \in Pids : Fork(p)
  BY <1>2, <1>3, <1>5, LineageFork
<1>6. ASSUME NEW p \in Pids,
             ForkFails(p) \/ ChildRuns(p) \/ ChildFallsThrough(p) \/ CommandExits(p)
               \/ Waitpid(p) \/ Finish(p)
      PROVE  Lineage(a)'
  <2>1. \A q \in Pids : st'[q] = "free" <=> st[q] = "free"
    BY <1>3, <1>6 DEF ForkFails, ChildRuns, ChildFallsThrough, CommandExits, Waitpid, Finish,
       Die, Bury, Collect, proc_vars, Zombie, At, Reportable, ProcTypeOK
  <2>2. forkno[p] \in Nat
    BY <1>3 DEF SerialTypeOK
  <2>3. \/ forkno' = forkno /\ pc[p] = "loop" /\ \E to \in PC : pc' = [pc EXCEPT ![p] = to]
        \/ forkno' = forkno /\ \E to \in PC \ {"loop"} : pc' = [pc EXCEPT ![p] = to]
        \/ forkno' = forkno /\ pc' = pc
        \/ forkno' = [forkno EXCEPT ![p] = @ + 1] /\ pc' = [pc EXCEPT ![p] = "loop"]
    BY <1>6 DEF ForkFails, ChildRuns, ChildFallsThrough, CommandExits, Waitpid, Finish,
       Goto, At, NextForkno, PC
  <2>4. ASSUME NEW q \in Pids, NEW k \in Rounds, Past(q, k)
        PROVE  Past(q, k)'
    <3>1. k \in Int /\ forkno[q] \in Int BY <1>3 DEF Rounds, SerialTypeOK
    <3>2. CASE q = p
      BY <1>3, <2>3, <2>4, <3>1, <3>2 DEF Past, SerialTypeOK
    <3>3. CASE q # p
      BY <1>3, <2>3, <2>4, <3>1, <3>3 DEF Past, SerialTypeOK
    <3> QED BY <3>2, <3>3
  <2> QED BY <1>2, <2>1, <2>4, LineageKept
<1>7. CASE Signals /\ UNCHANGED serial_vars
  BY <1>3, <1>4, <1>7, SignalsKeep
<1>8. CASE UNCHANGED vars
  BY <1>4, <1>8 DEF vars, proc_vars, KeepsTable, Alive
<1>9. CASE AsSerial /\ SerialNext
  BY <1>2, <1>5, <1>6, <1>7, <1>9 DEF SerialNext, Process
<1> QED BY <1>1, <1>8, <1>9 DEF Next, AsClone, AsNs, As, Serial, Cloning, Namespace

(* multiforkexec.c: however the children whose execve fails multiply, there *)
(* are never more than 2^NumForks processes, the first included (clone.c    *)
(* makes five children whatever NumForks is).                               *)
THEOREM CascadeBounded == Spec => [](prog = Serial => CascadeBound)
<1>1. Cascade => (prog = Serial => CascadeBound)
  <2> SUFFICES ASSUME NEW a \in [Pids -> SUBSET Rounds], Lineage(a)
               PROVE  Cardinality(Created) <= 2^NumForks
    BY DEF Cascade, CascadeBound
  <2>1. Created \subseteq Pids BY DEF Created
  <2> DEFINE g == [p \in Created |-> a[p]]
  <2>2. g \in [Created -> SUBSET Rounds]
    BY <2>1
  <2>3. \A p, q \in Created : g[p] = g[q] => p = q
    BY <2>1 DEF Lineage, Apart, Created
  <2>4. g \in Injection(Created, SUBSET Rounds)
    BY <2>2, <2>3 DEF Injection, IsInjective
  <2>5. IsFiniteSet(Rounds) /\ Cardinality(Rounds) = NumForks
    BY FS_Interval, NumForksAssumption DEF Rounds
  <2>6. IsFiniteSet(SUBSET Rounds) /\ Cardinality(SUBSET Rounds) = 2^NumForks
    BY <2>5, FS_SUBSET
  <2> HIDE DEF g
  <2> QED BY <2>4, <2>6, FS_Injection
<1> QED BY <1>1, SequentialInvariant, CascadeInitial, CascadeStep, PTL DEF Spec

-----------------------------------------------------------------------------
(* serialfork.c and multiforkexec.c: nobody waits in vain.  Process numbers *)
(* are given in order, so that a child is younger than its parent; a live   *)
(* process that waits has the child it waits for; and none stays in the     *)
(* table after its exit.                                                    *)
Contiguous == \A d, e \in Pids : d < e /\ st[e] # "free" => st[d] # "free"
Younger == \A c \in Pids : par[c] < c
ChildThere ==
  \A p \in Pids : Alive(p) /\ pc[p] = "wait" =>
    par[cpid[p]] = p /\ st[cpid[p]] \notin {"gone", "free"}
Working == \A p \in Pids : Alive(p) => pc[p] \notin {"done", "failed"}

Kinship == Contiguous /\ Younger /\ ChildThere /\ Working
Family == prog = Serial => Kinship

(* waitpid of serialfork.c and multiforkexec.c never fails with ECHILD.     *)
WaitFindsChild ==
  prog = Serial => \A p \in Pids : Alive(p) /\ pc[p] = "wait" => ~NoChild(p, cpid[p])

(* p is not blocked: its next line can be executed, or its waitpid returns. *)
Moves(p) ==
  \/ At(p, "loop") \/ At(p, "child") \/ At(p, "command")
  \/ At(p, "wait") /\ Reportable(p, cpid[p])

(* As long as a process is left, one of them is not blocked, unless one was *)
(* stopped from outside.                                                    *)
SomeoneMoves ==
  prog = Serial /\ (\E p \in Pids : Alive(p)) =>
    \E p \in Pids : st[p] = "stopped" \/ Moves(p)

(* A set of process numbers that is not empty has a greatest one.           *)
LEMMA Youngest ==
  ASSUME NEW S \in SUBSET Pids, S # {}
  PROVE  \E p \in S : \A q \in S : q <= p
<1>0. MaxProcs \in Nat /\ \A q \in S : q \in 1..MaxProcs
  BY MaxProcsAssumption DEF Pids
<1> DEFINE T == {MaxProcs - q : q \in S}
<1>1. T \in SUBSET Nat /\ T # {}
  BY <1>0
<1> HIDE DEF T
<1>2. PICK k \in T : \A j \in T : ~(<<j, k>> \in OpToRel(<, Nat))
  BY <1>1, NatLessThanWellFounded, WFMin
<1>3. k \in Nat /\ \A j \in T : j \in Nat /\ ~(j < k)
  BY <1>1, <1>2 DEF OpToRel
<1>4. PICK p \in S : k = MaxProcs - p
  BY DEF T
<1>5. ASSUME NEW q \in S PROVE q <= p
  <2>1. MaxProcs - q \in T
    BY DEF T
  <2>2. ~(MaxProcs - q < MaxProcs - p)
    BY <1>3, <1>4, <2>1
  <2> QED BY <1>0, <2>2
<1> QED BY <1>5

(* A death leaves the zombies of the living to their parents.               *)
LEMMA BurySpares ==
  ASSUME ProcTypeOK, NEW p \in Pids, NEW z \in {"exited", "killed"}, Bury(p, z),
         NEW q \in Pids, Alive(q)', NEW c \in Pids, par[c] = q, st[c] # "gone"
  PROVE  st'[c] # "gone"
<1>0. 0 \notin Pids
  BY DEF Pids
<1>1. \A r \in Pids : st'[r] = IF r = p THEN IF Orphan(p) THEN "gone" ELSE z
                               ELSE IF par[r] = p /\ Zombie(r) THEN "gone" ELSE st[r]
  BY DEF Bury
<1>2. q # p
  BY <1>1 DEF Alive
<1>3. Alive(q)
  BY <1>1, <1>2 DEF Alive
<1>4. CASE c = p
  <2>1. ~Orphan(p)
    BY <1>0, <1>3, <1>4 DEF Orphan
  <2> QED BY <1>1, <1>4, <2>1
<1>5. CASE c # p
  BY <1>1, <1>2, <1>5
<1> QED BY <1>4, <1>5

(* A step that forks nobody.                                                *)
LEMMA KinshipKept ==
  ASSUME ProcTypeOK, InLoop, Kinship, KeepsTable,
         \A q \in Pids : Alive(q)' =>
           /\ pc'[q] \notin {"done", "failed"}
           /\ pc'[q] = "wait" =>
                /\ pc[q] = "wait" /\ cpid'[q] = cpid[q]
                /\ \A c \in Pids : par[c] = q /\ st[c] # "gone" => st'[c] # "gone"
  PROVE  Kinship'
<1>1. Contiguous' /\ Younger' /\ Working'
  BY DEF Kinship, Contiguous, Younger, Working, KeepsTable
<1>2. ChildThere'
  <2> SUFFICES ASSUME NEW q \in Pids, Alive(q)', pc'[q] = "wait"
               PROVE  par'[cpid'[q]] = q /\ st'[cpid'[q]] \notin {"gone", "free"}
    BY DEF ChildThere
  <2>1. Alive(q) /\ pc[q] = "wait" /\ cpid'[q] = cpid[q] /\ cpid[q] \in Pids
    BY DEF KeepsTable, InLoop
  <2>2. par[cpid[q]] = q /\ st[cpid[q]] \notin {"gone", "free"}
    BY <2>1 DEF Kinship, ChildThere
  <2>3. st'[cpid[q]] \notin {"gone", "free"} /\ par' = par
    BY <2>1, <2>2 DEF KeepsTable
  <2> QED BY <2>1, <2>2, <2>3
<1> QED BY <1>1, <1>2 DEF Kinship

LEMMA KinshipFork ==
  ASSUME ProcTypeOK, SerialTypeOK, InLoop, Kinship, NEW p \in Pids, Fork(p)
  PROVE  Kinship'
<1>1. PICK c \in Pids : /\ ForkAs(p, c)
                        /\ pc' = [pc EXCEPT ![p] = "wait", ![c] = "child"]
                        /\ cpid' = [cpid EXCEPT ![p] = c, ![c] = 0]
  BY DEF Fork
<1>2. st[p] = "run" /\ pc[p] = "loop"
  BY DEF Fork, At
<1>3. /\ st[c] = "free" /\ p # c
      /\ st' = [st EXCEPT ![c] = "run"] /\ par' = [par EXCEPT ![c] = p]
      /\ \A d \in Pids : d < c => st[d] # "free"
  BY <1>1, <1>2, ForkType DEF ForkAs, NextPid
<1>4. /\ st'[c] = "run" /\ par'[c] = p
      /\ \A q \in Pids \ {c} : st'[q] = st[q] /\ par'[q] = par[q]
      /\ pc'[p] = "wait" /\ pc'[c] = "child" /\ cpid'[p] = c
      /\ \A q \in Pids \ {p, c} : pc'[q] = pc[q] /\ cpid'[q] = cpid[q]
  BY <1>1, <1>3 DEF ProcTypeOK, SerialTypeOK
<1>5. p < c
  <2>1. ~(c < p)
    BY <1>2, <1>3 DEF Kinship, Contiguous
  <2> QED BY <1>3, <2>1 DEF Pids
<1>6. Contiguous'
  <2> SUFFICES ASSUME NEW d \in Pids, NEW e \in Pids, d < e, st'[e] # "free"
               PROVE  st'[d] # "free"
    BY DEF Contiguous
  <2> QED BY <1>3, <1>4 DEF Kinship, Contiguous
<1>7. Younger'
  BY <1>4, <1>5 DEF Kinship, Younger
<1>8. Working'
  BY <1>4 DEF Kinship, Working, Alive
<1>9. ChildThere'
  <2> SUFFICES ASSUME NEW q \in Pids, Alive(q)', pc'[q] = "wait"
               PROVE  par'[cpid'[q]] = q /\ st'[cpid'[q]] \notin {"gone", "free"}
    BY DEF ChildThere
  <2>1. CASE q = p
    BY <1>4, <2>1
  <2>2. CASE q # p
    <3>1. q # c /\ Alive(q) /\ pc[q] = "wait" /\ cpid'[q] = cpid[q]
      BY <1>4, <2>2 DEF Alive
    <3>2. par[cpid[q]] = q /\ st[cpid[q]] \notin {"gone", "free"} /\ cpid[q] \in Pids
      BY <3>1 DEF Kinship, ChildThere, InLoop
    <3>3. cpid[q] # c
      BY <1>3, <3>2
    <3> QED BY <1>4, <3>1, <3>2, <3>3
  <2> QED BY <2>1, <2>2
<1> QED BY <1>6, <1>7, <1>8, <1>9 DEF Kinship

LEMMA KinshipProcess ==
  ASSUME ProcTypeOK, SerialTypeOK, InLoop, Kinship, NEW p \in Pids,
         Process(p) \/ ForkFails(p)
  PROVE  Kinship'
<1>1. CASE Fork(p)
  BY <1>1, KinshipFork
<1>2. CASE ForkFails(p) \/ CommandExits(p) \/ Finish(p)
  <2>1. /\ Alive(p) /\ Bury(p, "exited") /\ signals' = signals /\ cpid' = cpid
        /\ \E to \in {"done", "failed"} : pc' = [pc EXCEPT ![p] = to]
    BY <1>2 DEF ForkFails, CommandExits, Finish, At, Goto, Die, Alive
  <2>2. KeepsTable
    <3>1. signals' \in 0..MaxSignals BY <2>1 DEF ProcTypeOK
    <3> QED BY <2>1, <3>1, BuryKeeps
  <2>3. ~Alive(p)' /\ \A q \in Pids \ {p} : pc'[q] = pc[q]
    BY <2>1 DEF Bury, Alive, SerialTypeOK
  <2>4. ASSUME NEW q \in Pids, Alive(q)'
        PROVE  /\ pc'[q] \notin {"done", "failed"}
               /\ pc'[q] = "wait" =>
                    /\ pc[q] = "wait" /\ cpid'[q] = cpid[q]
                    /\ \A c \in Pids : par[c] = q /\ st[c] # "gone" => st'[c] # "gone"
    <3>1. q # p /\ Alive(q) /\ pc'[q] = pc[q]
      BY <2>2, <2>3, <2>4 DEF KeepsTable
    <3>2. pc[q] \notin {"done", "failed"}
      BY <3>1 DEF Kinship, Working
    <3>3. \A c \in Pids : par[c] = q /\ st[c] # "gone" => st'[c] # "gone"
      BY <2>1, <2>4, BurySpares
    <3> QED BY <2>1, <3>1, <3>2, <3>3
  <2> QED BY <2>2, <2>4, KinshipKept
<1>3. CASE ChildRuns(p) \/ ChildFallsThrough(p)
  <2>1. /\ par' = par /\ st' = st /\ cpid' = cpid
        /\ \E to \in {"command", "loop"} : pc' = [pc EXCEPT ![p] = to]
    BY <1>3 DEF ChildRuns, ChildFallsThrough, proc_vars, Goto
  <2>2. KeepsTable
    BY <2>1 DEF KeepsTable, Alive
  <2>3. \A q \in Pids : Alive(q)' =>
          /\ pc'[q] \notin {"done", "failed"}
          /\ pc'[q] = "wait" =>
               /\ pc[q] = "wait" /\ cpid'[q] = cpid[q]
               /\ \A c \in Pids : par[c] = q /\ st[c] # "gone" => st'[c] # "gone"
    BY <2>1, <2>2 DEF KeepsTable, Kinship, Working, SerialTypeOK
  <2> QED BY <2>2, <2>3, KinshipKept
<1>4. CASE Waitpid(p)
  <2> DEFINE c == cpid[p]
  <2>1. /\ st[p] = "run" /\ pc[p] = "wait" /\ par[c] = p /\ Collect(c) /\ cpid' = cpid
        /\ IF Ends(Report(c)) THEN pc' = [pc EXCEPT ![p] = "loop"] ELSE pc' = pc
    BY <1>4 DEF Waitpid, At, Reportable, Goto
  <2>2. c \in Pids
    BY <2>1 DEF InLoop
  <2>3. KeepsTable /\ \A q \in Pids \ {c} : st'[q] = st[q]
    BY <2>1, <2>2, CollectKeeps
  <2>4. ~Ends(Report(c)) => st' = st
    BY <2>1 DEF Collect, Ends, Report, Zombie
  <2> HIDE DEF c
  <2>5. ASSUME NEW q \in Pids, Alive(q)'
        PROVE  /\ pc'[q] \notin {"done", "failed"}
               /\ pc'[q] = "wait" =>
                    /\ pc[q] = "wait" /\ cpid'[q] = cpid[q]
                    /\ \A d \in Pids : par[d] = q /\ st[d] # "gone" => st'[d] # "gone"
    <3>1. Alive(q) /\ pc[q] \notin {"done", "failed"}
      BY <2>3, <2>5 DEF KeepsTable, Kinship, Working
    <3>2. CASE ~Ends(Report(c))
      BY <2>1, <2>4, <3>1, <3>2
    <3>3. CASE Ends(Report(c))
      <4>1. q = p => pc'[q] = "loop"
        BY <2>1, <3>3 DEF SerialTypeOK
      <4>2. q # p => pc'[q] = pc[q] /\ \A d \in Pids : par[d] = q => st'[d] = st[d]
        BY <2>1, <2>3, <3>3 DEF SerialTypeOK
      <4> QED BY <2>1, <3>1, <4>1, <4>2
    <3> QED BY <3>2, <3>3
  <2> QED BY <2>3, <2>5, KinshipKept
<1> QED BY <1>1, <1>2, <1>3, <1>4 DEF Process

LEMMA KinshipSignals ==
  ASSUME ProcTypeOK, InLoop, Kinship, Signals, UNCHANGED serial_vars
  PROVE  Kinship'
<1>1. KeepsTable
  BY SignalsKeep
<1>2. ASSUME NEW q \in Pids, Alive(q)', NEW c \in Pids, par[c] = q, st[c] # "gone"
      PROVE  st'[c] # "gone"
  <2>1. PICK p \in Pids : Stop(p) \/ Resume(p) \/ Kill(p)
    BY DEF Signals
  <2>2. CASE Stop(p) \/ Resume(p)
    BY <1>2, <2>2 DEF Stop, Resume, ProcTypeOK
  <2>3. CASE Kill(p)
    <3>1. Bury(p, "killed")
      BY <2>3 DEF Kill
    <3> QED BY <1>2, <3>1, BurySpares
  <2> QED BY <2>1, <2>2, <2>3
<1>3. ASSUME NEW q \in Pids, Alive(q)'
      PROVE  /\ pc'[q] \notin {"done", "failed"}
             /\ pc'[q] = "wait" =>
                  /\ pc[q] = "wait" /\ cpid'[q] = cpid[q]
                  /\ \A c \in Pids : par[c] = q /\ st[c] # "gone" => st'[c] # "gone"
  <2>1. Alive(q)
    BY <1>1, <1>3 DEF KeepsTable
  <2> QED BY <1>2, <1>3, <2>1 DEF Kinship, Working, serial_vars
<1> QED BY <1>1, <1>3, KinshipKept

LEMMA FamilyInvariant == Spec => []Family
<1>1. Init => Family
  <2> SUFFICES ASSUME Init PROVE Kinship
    BY DEF Family
  <2>1. /\ \A p \in Pids : st[p] = IF p = 1 THEN "run" ELSE "free"
        /\ \A p \in Pids : par[p] = 0 /\ pc[p] = "loop"
    BY DEF Init, ProcInit, SerialInit, Root
  <2>2. Contiguous
    BY <2>1 DEF Contiguous, Pids
  <2>3. Younger /\ ChildThere /\ Working
    BY <2>1 DEF Younger, ChildThere, Working, Pids
  <2> QED BY <2>2, <2>3 DEF Kinship
<1>2. IInv /\ Family /\ [Next]_vars => Family'
  <2> SUFFICES ASSUME IInv, Family, [Next]_vars, prog' = Serial PROVE Kinship'
    BY DEF Family
  <2>1. prog = Serial
    BY DEF Next, vars, AsSerial, AsClone, AsNs, As, Serial, Cloning, Namespace
  <2>2. ProcTypeOK /\ SerialTypeOK /\ InLoop /\ Kinship
    BY <2>1 DEF IInv, TypeOK, SerialInv, Family
  <2>3. CASE UNCHANGED vars
    <3>1. UNCHANGED <<st, par, pc, cpid>>
      BY <2>3 DEF vars, proc_vars, serial_vars
    <3> QED BY <2>2, <3>1 DEF Kinship, Contiguous, Younger, ChildThere, Working, Alive
  <2>4. CASE Next
    <3>1. SerialNext
      BY <2>1, <2>4 DEF Next, AsSerial, AsClone, AsNs, As, Serial, Cloning, Namespace
    <3> QED BY <2>2, <3>1, KinshipProcess, KinshipSignals DEF SerialNext
  <2> QED BY <2>3, <2>4
<1> QED BY <1>1, <1>2, SequentialInvariant, PTL DEF Spec

(* No process of serialfork.c or multiforkexec.c, a child that falls through *)
(* included, calls waitpid for a child that is not there: nobody else can    *)
(* reap it, whoever dies or is stopped.                                      *)
THEOREM WaitpidNotEchild == Spec => []WaitFindsChild
<1>1. Family => WaitFindsChild
  BY DEF Family, Kinship, ChildThere, WaitFindsChild, NoChild
<1> QED BY <1>1, FamilyInvariant, PTL

(* Parents and children of serialfork.c and multiforkexec.c never all wait   *)
(* for each other, however many have fallen through: the youngest process    *)
(* left is not blocked, since its child, if it waits for one, is dead.       *)
THEOREM NobodyWaitsInVain == Spec => []SomeoneMoves
<1>1. IInv /\ Family => SomeoneMoves
  <2> SUFFICES ASSUME IInv, Kinship, \E p \in Pids : Alive(p),
                      \A p \in Pids : st[p] # "stopped"
               PROVE  \E p \in Pids : Moves(p)
    BY DEF Family, SomeoneMoves
  <2> DEFINE S == {p \in Pids : Alive(p)}
  <2>1. PICK p \in S : \A q \in S : q <= p
    <3>1. S \in SUBSET Pids /\ S # {}
      OBVIOUS
    <3> HIDE DEF S
    <3> QED BY <3>1, Youngest
  <2>2. p \in Pids /\ st[p] = "run" /\ pc[p] \in {"loop", "child", "command", "wait"}
    BY DEF Alive, Kinship, Working, IInv, TypeOK, SerialTypeOK, PC
  <2>3. CASE pc[p] # "wait"
    BY <2>2, <2>3 DEF Moves, At
  <2>4. CASE pc[p] = "wait"
    <3> DEFINE c == cpid[p]
    <3>1. c \in Pids /\ par[c] = p /\ st[c] \notin {"gone", "free"}
      BY <2>2, <2>4 DEF Alive, Kinship, ChildThere, IInv, SerialInv, InLoop
    <3>2. ~(c <= p)
      BY <2>2, <3>1 DEF Kinship, Younger, Pids
    <3>3. Zombie(c)
      <4>1. ~Alive(c)
        BY <2>1, <3>1, <3>2
      <4> QED BY <3>1, <4>1 DEF IInv, TypeOK, ProcTypeOK, Alive, Zombie
    <3>4. Reportable(p, c)
      BY <3>1, <3>3 DEF Reportable, Report, Zombie
    <3> QED BY <2>2, <2>4, <3>4 DEF Moves, At
  <2> QED BY <2>3, <2>4
<1> QED BY <1>1, SequentialInvariant, FamilyInvariant, PTL
=============================================================================
