-------------------------- MODULE ParallelPrograms --------------------------
(***************************************************************************)
(* The programs that fork without waiting and then wait for one child:     *)
(* parallelfork.c and processesgalore.c for the one forked last,           *)
(* forktree_and_pthread.c for whichever ends first.                        *)
(***************************************************************************)
EXTENDS ProcessesGalore, ForkTree

VARIABLE prog   \* the program that runs
vars == <<proc_vars, prog, galore_vars, node_vars>>

Galore == "processesgalore"
Tree == "forktree"

NoTree == <<0, 0, 0>>

Init ==
  \/ /\ prog = Galore /\ ProcInit(MaxSignals)
     /\ GaloreInit /\ TreeInit(NoTree)
  \/ /\ prog = Tree
     /\ DoThreadsInit
     /\ \E args \in Choices : ProcInit(args[3]) /\ TreeInit(args)

AsGalore == prog = Galore /\ UNCHANGED <<prog, node_vars>>
AsTree == prog = Tree /\ UNCHANGED <<prog, galore_vars>>

Next == \/ AsGalore /\ GaloreNext
        \/ AsTree /\ TreeNext

Spec == Init /\ [][Next]_vars

(* Running processes and threads are scheduled; sleeps end.                 *)
FairSpec ==
  /\ Spec /\ WF_vars(AsGalore /\ Main)
  /\ \A t \in Threads : WF_vars(AsGalore /\ DoThread(t))
  /\ \A p \in Pids : WF_vars(AsGalore /\ ForkedChild(p)) /\ WF_vars(AsTree /\ Node(p))

-----------------------------------------------------------------------------
TypeOK == ProcTypeOK /\ GaloreTypeOK /\ TreeTypeOK

(* If no child stays stopped for ever the first process ends.               *)
RootEnds == (<>[](\A p \in Pids : st[p] # "stopped")) => <>(~Alive(Root))
=============================================================================
