------------------------------ MODULE ForkTree ------------------------------
(***************************************************************************)
(* forktree_and_pthread.c: spawnforks forks numforks (here width) children, *)
(* each of which does the same one level down; at level 0 as many threads  *)
(* are created and joined.  waitchildren returns after the first child that*)
(* exits or is killed.                                                     *)
(***************************************************************************)
EXTENDS Processes

CONSTANT Choices   \* possible arguments numforks and numlevels, and how many
                   \* signals come from outside in a run with them

ASSUME ChoicesAssumption == Choices \subseteq Nat \X Nat \X (0..MaxSignals)

VARIABLES width,               \* numforks, the first argument
          npc, level, nfork    \* of every process: control point, level, loop index
node_vars == <<width, npc, level, nfork>>

NPC == {"spawn", "threads", "loop", "wait", "after", "done", "failed"}

TreeTypeOK ==
  /\ width \in Nat
  /\ npc \in [Pids -> NPC]
  /\ level \in [Pids -> Nat]
  /\ nfork \in [Pids -> 0..width]

TreeInit(args) ==
  /\ width = args[1]
  /\ level = [p \in Pids |-> IF p = Root THEN args[2] ELSE 0]
  /\ npc = [p \in Pids |-> "spawn"]
  /\ nfork = [p \in Pids |-> 0]

NodeAt(p, from) == st[p] = "run" /\ npc[p] = from
NodeGoto(p, to) == npc' = [npc EXCEPT ![p] = to]

Spawnforks(p) ==
  /\ NodeAt(p, "spawn")
  /\ NodeGoto(p, IF level[p] = 0 THEN "threads" ELSE "loop")
  /\ UNCHANGED <<proc_vars, width, level, nfork>>

MoreNodes(p) == nfork[p] < width
SameLevel(p) == level[p]
ChildLevel(p) == level[p] - 1

TreeFork(p) ==
  /\ NodeAt(p, "loop") /\ MoreNodes(p)
  /\ \E c \in Pids :
       /\ ForkAs(p, c)
       /\ level' = [level EXCEPT ![c] = ChildLevel(p)]
  /\ nfork' = [nfork EXCEPT ![p] = @ + 1]
  /\ UNCHANGED <<width, npc>>

NodesDone(p) == nfork[p] = width

AllNodesForked(p) ==
  /\ NodeAt(p, "loop") /\ NodesDone(p)
  /\ NodeGoto(p, "wait")
  /\ UNCHANGED <<proc_vars, width, level, nfork>>

(* waitpid(0): any child, all being in one process group.                   *)
AnyNodeReport(r) == TRUE
NodeEnds(r) == r \in {"exited", "killed"}

Waitchildren(p) ==
  /\ NodeAt(p, "wait")
  /\ \E c \in Pids :
       /\ Reportable(p, c)
       /\ Collect(c)
       /\ IF NodeEnds(Report(c)) THEN NodeGoto(p, "after") ELSE UNCHANGED npc
  /\ UNCHANGED <<width, level, nfork>>

NoChildren(p) ==
  /\ NodeAt(p, "wait") /\ \A c \in Pids : NoChild(p, c)
  /\ NodeGoto(p, "after")
  /\ UNCHANGED <<proc_vars, width, level, nfork>>

(* exit(forkno) in a child, the end of main in the first process; a leaf has *)
(* joined its threads by then.                                              *)
NodeExit(p) ==
  /\ NodeAt(p, "after") \/ NodeAt(p, "threads")
  /\ Die(p, "exited")
  /\ NodeGoto(p, "done")
  /\ UNCHANGED <<width, level, nfork>>

(* exit(-1) when fork or pthread_create fails.                              *)
SpawnFails(p) ==
  /\ \/ NodeAt(p, "loop") /\ MoreNodes(p)
     \/ NodeAt(p, "threads")
  /\ Die(p, "exited")
  /\ NodeGoto(p, "failed")
  /\ UNCHANGED <<width, level, nfork>>

Node(p) == \/ Spawnforks(p) \/ TreeFork(p) \/ AllNodesForked(p) \/ Waitchildren(p)
           \/ NoChildren(p) \/ NodeExit(p)

TreeNext ==
  \/ \E p \in Pids : Node(p) \/ SpawnFails(p)
  \/ Signals /\ UNCHANGED node_vars

-----------------------------------------------------------------------------
(* A process passes waitchildren only when one child it forked is dead and  *)
(* reaped (or it forked none).                                              *)
OneChildReaped ==
  \A p \in Pids : npc[p] = "after" /\ width > 0 =>
    \E c \in Pids : par[c] = p /\ st[c] = "gone"

(* The recursion stops: the processes are those of a width-ary tree of      *)
(* numlevels levels, and each is one level below the process that forked it.*)
TreeShape ==
  npc[Root] # "spawn" =>
    \A c \in Created : /\ par[c] # 0 => level[c] = level[par[c]] - 1
                       /\ Cardinality({d \in Pids : par[d] = c}) <= width
=============================================================================
