------------------------------ MODULE MsgQueue ------------------------------
(***************************************************************************)
(* msgtest.c: each run creates the System V message queue of one fixed key *)
(* exclusively, probes that this cannot be done twice, destroys the queue, *)
(* creates it again, this time without IPC_EXCL, passes two messages       *)
(* through it and destroys it.  Several runs may overlap, and any of them  *)
(* may be killed.                                                          *)
(***************************************************************************)
EXTENDS Naturals, Sequences, SequencesExt, FiniteSets

CONSTANT Instances   \* the runs of the program

ASSUME InstancesAssumption == IsFiniteSet(Instances)

VARIABLES
  queue,    \* the key's queue: its identifier (0: there is none), messages
  lastid,   \* identifiers given so far; the kernel does not reuse them
  pc, msgid,   \* of every run: control point, identifier it holds
  got,      \* of every run: the messages it received as "1" and "2"
  excuse    \* history: the run met a leftover queue or another run

vars == <<queue, lastid, pc, msgid, got, excuse>>

Ended == {"done", "failed", "probed", "nospace", "killed"}
PC == {"idle", "create", "probe", "destroy", "recreate", "send1", "send2",
       "recv2", "recv1", "remove"} \cup Ended

NoMessage == <<>>
Messages(t) == {<<t, p>> : p \in Instances}   \* type and sender
NoQueue == [id |-> 0, msgs |-> <<>>]

MaxIds == 2 * Cardinality(Instances)

TypeOK ==
  /\ queue.id \in 0..MaxIds
  /\ queue.msgs \in Seq(Messages(1) \cup Messages(2))
  /\ lastid \in 0..MaxIds
  /\ pc \in [Instances -> PC]
  /\ msgid \in [Instances -> 0..MaxIds]
  /\ \A p \in Instances : \A t \in 1..2 : got[p][t] \in Messages(t) \cup {NoMessage}
  /\ excuse \in [Instances -> BOOLEAN]

Init ==
  /\ queue = NoQueue
  /\ lastid = 0
  /\ pc = [p \in Instances |-> "idle"]
  /\ msgid = [p \in Instances |-> 0]
  /\ got = [p \in Instances |-> [t \in 1..2 |-> NoMessage]]
  /\ excuse = [p \in Instances |-> FALSE]

Live(p) == pc[p] \notin {"idle"} \cup Ended
Exists == queue.id # 0
Goto(p, to) == pc' = [pc EXCEPT ![p] = to]

(* A new queue, held by p; and p opening the one there is.                  *)
NewQueue(p) ==
  /\ queue' = [id |-> lastid + 1, msgs |-> <<>>]
  /\ lastid' = lastid + 1
  /\ msgid' = [msgid EXCEPT ![p] = lastid + 1]

OpenQueue(p) ==
  /\ msgid' = [msgid EXCEPT ![p] = queue.id]
  /\ UNCHANGED <<queue, lastid>>

(* The identifier p holds is no longer a queue's: EIDRM or EINVAL.           *)
Stale(p) == msgid[p] # queue.id

-----------------------------------------------------------------------------
Start(p) ==
  /\ pc[p] = "idle"
  /\ Goto(p, "create")
  /\ excuse' = [r \in Instances |->
                  \/ excuse[r]
                  \/ r = p /\ (Exists \/ \E o \in Instances \ {p} : Live(o))
                  \/ r # p /\ Live(r)]
  /\ UNCHANGED <<queue, lastid, msgid, got>>

Create(p) ==
  /\ pc[p] = "create"
  /\ \/ ~Exists /\ NewQueue(p) /\ Goto(p, "probe")
     \/ Exists /\ Goto(p, "failed") /\ UNCHANGED <<queue, lastid, msgid>>
  /\ UNCHANGED <<got, excuse>>

(* The second exclusive creation.  If it succeeds, exit(1): newmsgid is then *)
(* all the run holds.                                                       *)
Probe(p) ==
  /\ pc[p] = "probe"
  /\ \/ ~Exists /\ NewQueue(p) /\ Goto(p, "probed")
     \/ Exists /\ Goto(p, "destroy") /\ UNCHANGED <<queue, lastid, msgid>>
  /\ UNCHANGED <<got, excuse>>

(* msgctl(msgid, IPC_RMID) at from, then on to to.                          *)
KeepQueue == queue
AfterRemove == NoQueue

Rmid(p, from, to) ==
  /\ pc[p] = from
  /\ \/ Stale(p) /\ Goto(p, "failed") /\ UNCHANGED queue
     \/ ~Stale(p) /\ Goto(p, to) /\ queue' = AfterRemove
  /\ UNCHANGED <<lastid, msgid, got, excuse>>

Recreate(p) ==
  /\ pc[p] = "recreate"
  /\ IF Exists THEN OpenQueue(p) ELSE NewQueue(p)
  /\ Goto(p, "send1")
  /\ UNCHANGED <<got, excuse>>

(* msgsnd of a message of type t.  That it waits on a full queue is left out: *)
(* the limit of a queue is far above the few messages the runs send.         *)
Send(p, from, t, to) ==
  /\ pc[p] = from
  /\ \/ Stale(p) /\ Goto(p, "failed") /\ UNCHANGED queue
     \/ ~Stale(p) /\ Goto(p, to) /\ queue' = [queue EXCEPT !.msgs = Append(@, <<t, p>>)]
  /\ UNCHANGED <<lastid, msgid, got, excuse>>

TypeUnset == 1
SecondType == 2

SendFirst(p) == Send(p, "send1", 1, "send2")
SendSecond(p) == Send(p, "send2", SecondType, "recv2")

(* msgrcv of type t: the first message of that type, blocking for one.      *)
AnyType(m, t) == TRUE
OfType(m, t) == m[1] = t

Receive(p, from, t, to) ==
  /\ pc[p] = from
  /\ \/ Stale(p) /\ Goto(p, "failed") /\ UNCHANGED <<queue, got>>
     \/ /\ ~Stale(p) /\ \E k \in DOMAIN queue.msgs :
             /\ OfType(queue.msgs[k], t)
             /\ \A j \in 1..(k - 1) : ~OfType(queue.msgs[j], t)
             /\ got' = [got EXCEPT ![p][t] = queue.msgs[k]]
             /\ queue' = [queue EXCEPT !.msgs = RemoveAt(@, k)]
        /\ Goto(p, to)
  /\ UNCHANGED <<lastid, msgid, excuse>>

-----------------------------------------------------------------------------
(* The kernel is out of queues or memory: exit(1), whatever was made stays. *)
NoSpace(p) ==
  /\ \/ pc[p] \in {"create", "recreate"} /\ ~Exists
     \/ pc[p] \in {"send1", "send2"} /\ ~Stale(p)
  /\ Goto(p, "nospace")
  /\ UNCHANGED <<queue, lastid, msgid, got, excuse>>

Kill(p) ==
  /\ Live(p)
  /\ Goto(p, "killed")
  /\ UNCHANGED <<queue, lastid, msgid, got, excuse>>

Run(p) ==
  \/ Create(p) \/ Probe(p) \/ Rmid(p, "destroy", "recreate") \/ Recreate(p)
  \/ SendFirst(p) \/ SendSecond(p)
  \/ Receive(p, "recv2", 2, "recv1") \/ Receive(p, "recv1", 1, "remove")
  \/ Rmid(p, "remove", "done")

Next == \E p \in Instances : Start(p) \/ Run(p) \/ NoSpace(p) \/ Kill(p)

Spec == Init /\ [][Next]_vars
FairSpec == Spec /\ \A p \in Instances : WF_vars(Run(p))   \* runs are scheduled

-----------------------------------------------------------------------------
(* A run that met neither a leftover queue nor another run does not fail,   *)
(* and when it is done it has received its own two messages, each where it  *)
(* asked for its type (lines 82-97).                                        *)
SoloRunPasses ==
  \A p \in Instances : ~excuse[p] =>
    /\ pc[p] \notin {"failed", "probed"}
    /\ pc[p] = "done" => got[p] = [t \in 1..2 |-> <<t, p>>]

(* A queue without a live run that holds it was left by a run that was      *)
(* killed, ran out of space or had a probe that succeeded: the other error  *)
(* exits, which remove nothing either, leave nothing behind.                *)
LeaksExplained ==
  Exists /\ (\A p \in Instances : Live(p) => Stale(p)) =>
    \E p \in Instances : pc[p] \in {"killed", "nospace", "probed"} /\ ~Stale(p)

(* Every run that starts ends: none waits for ever in msgrcv, although runs *)
(* that share a queue take each other's messages and remove it under them.  *)
InstancesEnd == \A p \in Instances : (pc[p] = "create") ~> (pc[p] \in Ended)
=============================================================================
