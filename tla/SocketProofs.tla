---------------------------- MODULE SocketProofs ----------------------------
(***************************************************************************)
(* Proofs about socket.c and socketforkserver.c: the server's count of     *)
(* open connections, the descriptors it leaves in fds after closing them,  *)
(* and, for at most three clients, that its break on poll_count == 3 loses *)
(* nobody.                                                                 *)
(***************************************************************************)
EXTENDS SocketPrograms, FiniteSetTheorems, TLAPS

(* A client that has a connection, accepted or waiting, or has had one.     *)
Met == {"send", "read", "close", "done", "failed"}

(* Nobody is served twice, and everybody with a place has connected.        *)
Queue ==
  /\ \A i, j \in DOMAIN fds : fds[i] = fds[j] => i = j
  /\ \A i, j \in DOMAIN backlog : backlog[i] = backlog[j] => i = j
  /\ \A i \in DOMAIN fds, j \in DOMAIN backlog : fds[i] # backlog[j]
  /\ \A i \in DOMAIN fds : cpc[fds[i]] \in Met
  /\ \A j \in DOMAIN backlog : cpc[backlog[j]] \in Met
  /\ Len(fds) <= NumThreads
  /\ spc \in {"test", "poll", "handle", "close", "done"} \/ closed # {} =>
       Len(fds) = NumThreads
  /\ spc \in {"socket", "accept"} => closed = {}
  /\ \A c \in Clients : c > created => cpc[c] = "unborn"

(* A client that has sent its request never sends again.                    *)
SentOnce == \A c \in request : cpc[c] \in {"read", "close", "done", "failed"}

(* A closed connection is one whose client has finished and been read.      *)
ClosedDone == \A i \in closed : cpc[fds[i]] = "done" /\ fds[i] \notin request

(* In the loop over fds: the positions poll reported that are still to be   *)
(* handled have data or an end of file, the handled ones have been answered.*)
Reported == revents.in \cup revents.nval

Handling ==
  spc = "handle" =>
    /\ Reported \subseteq DOMAIN fds
    /\ poll_count = Cardinality(Reported)
    /\ revents.nval \subseteq closed
    /\ hi <= Len(fds) + 1
    /\ \A i \in revents.in :
         i >= hi => /\ i \notin closed
                    /\ fds[i] \in request \/ cpc[fds[i]] = "done"
    /\ \A i \in Reported : i < hi => ~Unanswered(fds[i])

IInv == TypeOK /\ Queue /\ SentOnce /\ ClosedDone /\ OpenCount /\ Handling

-----------------------------------------------------------------------------
(* When every connection has been accepted, every client has connected: an  *)
(* injection of 1..NumThreads into the clients is onto.                     *)
LEMMA AllMet ==
  ASSUME IInv, Len(fds) = NumThreads
  PROVE  \A c \in Clients : cpc[c] \in Met /\ \E i \in DOMAIN fds : fds[i] = c
<1> USE NumThreadsAssumption
<1>1. DOMAIN fds = Clients /\ fds \in [Clients -> Clients]
  BY DEF IInv, TypeOK, ServerTypeOK, Clients
<1>2. fds \in Injection(Clients, Clients)
  BY <1>1 DEF Injection, IsInjective, IInv, Queue
<1>3. IsFiniteSet(Clients)
  BY FS_Interval DEF Clients
<1>4. fds \in Surjection(Clients, Clients)
  BY <1>2, <1>3, FS_Injection
<1>5. \A c \in Clients : \E i \in Clients : fds[i] = c
  BY <1>4 DEF Surjection
<1> QED BY <1>1, <1>5 DEF IInv, Queue

(* The closed positions are finitely many, at most as many as fds has.      *)
LEMMA ClosedFinite ==
  ASSUME ServerTypeOK, NEW S \in SUBSET DOMAIN fds
  PROVE  IsFiniteSet(S) /\ Cardinality(S) \in 0..Len(fds)
<1>1. DOMAIN fds = 1..Len(fds) /\ Len(fds) \in Nat
  BY DEF ServerTypeOK
<1>2. IsFiniteSet(1..Len(fds)) /\ Cardinality(1..Len(fds)) = Len(fds)
  BY <1>1, FS_Interval
<1>3. IsFiniteSet(S) /\ Cardinality(S) <= Len(fds)
  BY <1>1, <1>2, FS_Subset
<1> QED BY <1>1, <1>3, FS_CardinalityType

(* The initial states satisfy the invariant.                                *)
LEMMA Initial == Init => IInv
<1> SUFFICES ASSUME Init PROVE IInv
  OBVIOUS
<1> USE NumThreadsAssumption DEF Init, ServerInit
<1>1. TypeOK
  BY DEF TypeOK, ServerTypeOK, SPC, CPC, Clients, TimeoutCap
<1>2. Queue
  BY DEF Queue, Clients
<1>3. SentOnce /\ ClosedDone /\ OpenCount /\ Handling
  BY DEF SentOnce, ClosedDone, OpenCount, Handling
<1> QED BY <1>1, <1>2, <1>3 DEF IInv

(* main's steps, CreateClient among them, preserve the invariant.           *)
LEMMA MainStep == IInv /\ Main => IInv'
<1> SUFFICES ASSUME IInv, Main PROVE IInv'
  OBVIOUS
<1> USE NumThreadsAssumption DEF IInv
<1>1. CASE CreateClient
  <2>1. created + 1 \in Clients /\ cpc[created + 1] = "unborn" /\ created' = created + 1
        /\ cpc' = [cpc EXCEPT ![created + 1] = "socket"]
        /\ UNCHANGED <<server_vars, request, reply, backlog, mpc>>
    BY <1>1 DEF CreateClient, Clients, TypeOK, Queue
  <2>2. TypeOK'
    BY <2>1 DEF TypeOK, ServerTypeOK, server_vars, CPC, Clients
  <2>3. \A c \in Clients : c # created + 1 => cpc'[c] = cpc[c]
    BY <2>1 DEF TypeOK, ServerTypeOK
  <2>4. \A c \in Clients : cpc[c] \in Met => cpc'[c] = cpc[c]
    BY <2>1, <2>3 DEF Met
  <2>5. Queue'
    BY <2>1, <2>3, <2>4 DEF Queue, server_vars, TypeOK, ServerTypeOK, Clients
  <2>6. SentOnce'
    BY <2>1, <2>4 DEF SentOnce, Met, TypeOK, ServerTypeOK
  <2>7. ClosedDone' /\ OpenCount'
    BY <2>1, <2>4 DEF ClosedDone, OpenCount, server_vars, Met, TypeOK, ServerTypeOK
  <2>8. Handling'
    BY <2>1, <2>4 DEF Handling, Reported, Unanswered, server_vars, Met, TypeOK, ServerTypeOK, Queue
  <2> QED BY <2>2, <2>5, <2>6, <2>7, <2>8
<1>2. CASE Fork \/ JoinServer \/ JoinClients \/ WaitServer
  <2>1. UNCHANGED <<vars, created>> /\ mpc' \in {"create", "join", "waitpid", "done", "failed"}
    BY <1>2 DEF Fork, JoinServer, JoinClients, WaitServer, MainGoes
  <2>2. UNCHANGED <<prog, spc, fds, closed, muted, revents, poll_count, hi, num_open, timeouts,
                    cpc, request, reply, backlog, created>>
    BY <2>1 DEF vars, server_vars, client_vars
  <2>3. TypeOK'
    BY <2>1, <2>2 DEF TypeOK, ServerTypeOK
  <2>4. Queue' /\ SentOnce' /\ ClosedDone'
    BY <2>2 DEF Queue, SentOnce, ClosedDone
  <2>5. OpenCount' /\ Handling'
    BY <2>2 DEF OpenCount, Handling, Reported, Unanswered
  <2> QED BY <2>3, <2>4, <2>5
<1> QED BY <1>1, <1>2 DEF Main

(* A client's steps preserve the invariant.                                 *)
LEMMA ClientStep ==
  ASSUME IInv, NEW c \in Clients, Client(c), UNCHANGED main_vars
  PROVE  IInv'
<1> USE DEF IInv
<1>0. UNCHANGED <<prog, spc, fds, closed, muted, revents, poll_count, hi, num_open, timeouts,
                  mpc, created>>
  BY DEF Client, ClientSocket, ClientConnect, ClientGetpeernameFails, ClientSend, ClientRead,
         ClientClose, server_vars, main_vars
<1>1. ASSUME NEW to \in CPC, cpc[c] \in CPC \ {"unborn"},
             cpc' = [cpc EXCEPT ![c] = to], UNCHANGED <<request, backlog>>,
             cpc[c] \in Met => to \in Met \ {"send"}, to # "send", cpc[c] # "done",
             reply' \subseteq Clients, c \in request => to \in {"read", "close", "done"}
      PROVE  IInv'
  <2>1. \A d \in Clients : d # c => cpc'[d] = cpc[d]
    BY <1>1 DEF TypeOK, ServerTypeOK
  <2>2. cpc'[c] = to
    BY <1>1 DEF TypeOK, ServerTypeOK
  <2>3. TypeOK'
    BY <1>0, <1>1 DEF TypeOK, ServerTypeOK
  <2>4. Queue'
    BY <1>0, <1>1, <2>1, <2>2 DEF Queue, TypeOK, ServerTypeOK
  <2>5. SentOnce' /\ ClosedDone' /\ OpenCount'
    BY <1>0, <1>1, <2>1, <2>2 DEF SentOnce, ClosedDone, OpenCount, TypeOK, ServerTypeOK
  <2>6. Handling'
    BY <1>0, <1>1, <2>1, <2>2 DEF Handling, Reported, Unanswered, TypeOK, ServerTypeOK, Queue
  <2> QED BY <2>3, <2>4, <2>5, <2>6
<1>2. CASE ClientSocket(c)
  BY <1>1, <1>2 DEF ClientSocket, Move, CPC, Met, SentOnce, TypeOK, ServerTypeOK
<1>3. CASE ClientConnect(c)
  <2>1. CASE ~Listening
    BY <1>1, <1>3, <2>1 DEF ClientConnect, Move, CPC, Met, SentOnce, TypeOK, ServerTypeOK
  <2>2. CASE Listening
    <3>1. /\ cpc[c] = "connect" /\ cpc' = [cpc EXCEPT ![c] = "send"]
          /\ backlog' = Append(backlog, c) /\ UNCHANGED <<request, reply>>
      BY <1>3, <2>2 DEF ClientConnect, Move
    <3>2. \A d \in Clients : d # c => cpc'[d] = cpc[d]
      BY <3>1 DEF TypeOK, ServerTypeOK
    <3>3. cpc'[c] = "send"
      BY <3>1 DEF TypeOK, ServerTypeOK
    <3>4. \A k \in DOMAIN backlog : backlog[k] # c
      BY <3>1 DEF Queue, Met
    <3>5. \A k \in DOMAIN fds : fds[k] # c
      BY <3>1 DEF Queue, Met
    <3>6. TypeOK'
      BY <1>0, <3>1 DEF TypeOK, ServerTypeOK, CPC
    <3>7. /\ DOMAIN backlog' = DOMAIN backlog \cup {Len(backlog) + 1}
          /\ \A k \in DOMAIN backlog : backlog'[k] = backlog[k]
          /\ backlog'[Len(backlog) + 1] = c
      BY <3>1 DEF TypeOK, ServerTypeOK
    <3>8. Queue'
      BY <1>0, <3>1, <3>2, <3>3, <3>4, <3>5, <3>7 DEF Queue, Met, TypeOK, ServerTypeOK
    <3>9. SentOnce' /\ ClosedDone' /\ OpenCount'
      BY <1>0, <3>1, <3>2, <3>5 DEF SentOnce, ClosedDone, OpenCount, TypeOK, ServerTypeOK
    <3>10. Handling'
      BY <1>0, <3>1, <3>2, <3>5 DEF Handling, Reported, Unanswered, TypeOK, ServerTypeOK
    <3> QED BY <3>6, <3>8, <3>9, <3>10
  <2> QED BY <2>1, <2>2
<1>4. CASE ClientGetpeernameFails(c)
  BY <1>1, <1>4 DEF ClientGetpeernameFails, Move, CPC, Met, SentOnce, TypeOK, ServerTypeOK
<1>5. CASE ClientSend(c)
  <2>1. /\ cpc[c] = "send" /\ cpc' = [cpc EXCEPT ![c] = "read"]
        /\ request' = request \cup {c} /\ UNCHANGED <<reply, backlog>>
    BY <1>5 DEF ClientSend, Move
  <2>2. \A d \in Clients : d # c => cpc'[d] = cpc[d]
    BY <2>1 DEF TypeOK, ServerTypeOK
  <2>3. cpc'[c] = "read"
    BY <2>1 DEF TypeOK, ServerTypeOK
  <2>4. TypeOK'
    BY <1>0, <2>1 DEF TypeOK, ServerTypeOK, CPC
  <2>5. Queue'
    BY <1>0, <2>1, <2>2, <2>3 DEF Queue, Met, TypeOK, ServerTypeOK
  <2>6. SentOnce' /\ ClosedDone' /\ OpenCount'
    BY <1>0, <2>1, <2>2, <2>3 DEF SentOnce, ClosedDone, OpenCount, TypeOK, ServerTypeOK
  <2>7. Handling'
    BY <1>0, <2>1, <2>2, <2>3 DEF Handling, Reported, Unanswered, TypeOK, ServerTypeOK
  <2> QED BY <2>4, <2>5, <2>6, <2>7
<1>6. CASE ClientRead(c)
  BY <1>1, <1>6 DEF ClientRead, Move, CPC, Met, TypeOK, ServerTypeOK
<1>7. CASE ClientClose(c)
  BY <1>1, <1>7 DEF ClientClose, Move, CPC, Met, TypeOK, ServerTypeOK
<1> QED BY <1>2, <1>3, <1>4, <1>5, <1>6, <1>7 DEF Client

(* The server's steps up to and around the poll preserve the invariant.     *)
LEMMA ServerOutsideLoop ==
  ASSUME IInv, UNCHANGED main_vars,
         \/ ServerListen \/ ServerAccept \/ ServerAllAccepted \/ ServerTest
         \/ ServerPollTimeout \/ ServerHandled \/ ServerClose \/ ServerFails
  PROVE  IInv'
<1> USE NumThreadsAssumption DEF IInv
<1>0. UNCHANGED <<prog, cpc, request, reply, mpc, created, closed, muted, revents, hi>>
  BY DEF ServerListen, ServerAccept, ServerAllAccepted, ServerTest, ServerPollTimeout,
         ServerHandled, ServerClose, ServerFails, client_vars, main_vars
<1>1. CASE ServerListen \/ ServerFails
  <2>1. /\ UNCHANGED <<backlog, fds, poll_count, num_open, timeouts>>
        /\ spc' = "failed" \/ (spc = "socket" /\ spc' = "accept")
    BY <1>1 DEF ServerListen, ServerFails, client_vars
  <2>2. TypeOK'
    BY <1>0, <2>1 DEF TypeOK, ServerTypeOK, SPC
  <2>3. Queue' /\ SentOnce' /\ ClosedDone'
    BY <1>0, <2>1 DEF Queue, SentOnce, ClosedDone
  <2>4. OpenCount' /\ Handling'
    BY <2>1 DEF OpenCount, Handling
  <2> QED BY <2>2, <2>3, <2>4
<1>2. CASE ServerAccept
  <2>1. /\ spc = "accept" /\ Len(fds) < NumThreads /\ backlog # <<>>
        /\ fds' = Append(fds, Head(backlog)) /\ backlog' = Tail(backlog)
        /\ UNCHANGED <<spc, poll_count, num_open, timeouts>>
    BY <1>2 DEF ServerAccept
  <2>2. /\ Head(backlog) \in Clients /\ Head(backlog) = backlog[1] /\ 1 \in DOMAIN backlog
        /\ DOMAIN fds' = DOMAIN fds \cup {Len(fds) + 1}
        /\ Len(fds') = Len(fds) + 1
        /\ \A k \in DOMAIN fds : fds'[k] = fds[k]
        /\ fds'[Len(fds) + 1] = Head(backlog)
    BY <2>1 DEF TypeOK, ServerTypeOK
  <2>3. /\ \A k \in DOMAIN backlog' : k + 1 \in DOMAIN backlog /\ backlog'[k] = backlog[k + 1]
        /\ DOMAIN backlog' \subseteq Nat \ {0}
    BY <2>1 DEF TypeOK, ServerTypeOK
  <2>4. closed = {}
    BY <2>1 DEF Queue
  <2>5. TypeOK'
    BY <1>0, <2>1, <2>2 DEF TypeOK, ServerTypeOK
  <2>6. Queue'
    <3>1. \A k, l \in DOMAIN fds' : fds'[k] = fds'[l] => k = l
      BY <2>2 DEF Queue
    <3>2. \A k, l \in DOMAIN backlog' : backlog'[k] = backlog'[l] => k = l
      BY <2>3 DEF Queue
    <3>3. \A k \in DOMAIN fds', l \in DOMAIN backlog' : fds'[k] # backlog'[l]
      BY <2>2, <2>3 DEF Queue
    <3>4. \A k \in DOMAIN fds' : cpc'[fds'[k]] \in Met
      BY <1>0, <2>2 DEF Queue
    <3>5. \A k \in DOMAIN backlog' : cpc'[backlog'[k]] \in Met
      BY <1>0, <2>3 DEF Queue
    <3> QED BY <1>0, <2>1, <2>2, <2>4, <3>1, <3>2, <3>3, <3>4, <3>5
            DEF Queue, TypeOK, ServerTypeOK
  <2>7. SentOnce' /\ ClosedDone' /\ OpenCount' /\ Handling'
    BY <1>0, <2>1, <2>4 DEF SentOnce, ClosedDone, OpenCount, Handling
  <2> QED BY <2>5, <2>6, <2>7
<1>3. CASE ServerAllAccepted
  <2>1. /\ spc = "accept" /\ Len(fds) = NumThreads /\ num_open' = Len(fds) /\ spc' = "test"
        /\ UNCHANGED <<backlog, fds, poll_count, timeouts>>
    BY <1>3 DEF ServerAllAccepted, AcceptedAll, client_vars
  <2>2. closed' = {}
    BY <1>0, <2>1 DEF Queue
  <2>3. TypeOK'
    BY <1>0, <2>1 DEF TypeOK, ServerTypeOK, SPC
  <2>4. Queue' /\ SentOnce' /\ ClosedDone' /\ Handling'
    BY <1>0, <2>1 DEF Queue, SentOnce, ClosedDone, Handling
  <2>5. OpenCount'
    BY <2>1, <2>2, FS_EmptySet DEF OpenCount, TypeOK, ServerTypeOK
  <2> QED BY <2>3, <2>4, <2>5
<1>4. CASE ServerTest \/ ServerPollTimeout \/ ServerHandled \/ ServerClose
  <2>1. /\ spc \in {"test", "poll", "handle", "close"} /\ spc' \in {"test", "poll", "close", "done"}
        /\ UNCHANGED <<backlog, fds, num_open>>
    BY <1>4 DEF ServerTest, ServerPollTimeout, ServerHandled, ServerClose, client_vars
  <2>2. poll_count' \in 0..NumThreads /\ timeouts' \in 0..TimeoutCap
    BY <1>4 DEF ServerTest, ServerPollTimeout, ServerHandled, ServerClose, TimeoutCap,
                TypeOK, ServerTypeOK
  <2>3. TypeOK'
    BY <1>0, <2>1, <2>2 DEF TypeOK, ServerTypeOK, SPC
  <2>4. Queue' /\ SentOnce' /\ ClosedDone' /\ OpenCount' /\ Handling'
    BY <1>0, <2>1 DEF Queue, SentOnce, ClosedDone, OpenCount, Handling
  <2> QED BY <2>3, <2>4
<1> QED BY <1>1, <1>2, <1>3, <1>4

(* poll and the turns of the loop over fds preserve the invariant.          *)
LEMMA ServerInLoop ==
  ASSUME IInv, UNCHANGED main_vars,
         ServerPoll \/ ServerHandleData \/ ServerHandleEof \/ ServerHandleOther
  PROVE  IInv'
<1> USE NumThreadsAssumption DEF IInv
<1>0. UNCHANGED <<prog, cpc, backlog, fds, timeouts, mpc, created>>
  BY DEF ServerPoll, ServerHandleData, ServerHandleEof, ServerHandleOther, client_vars, main_vars
<1>1. Len(fds) = NumThreads /\ DOMAIN fds = Clients /\ spc \in {"poll", "handle"}
  BY DEF ServerPoll, ServerHandleData, ServerHandleEof, ServerHandleOther, Queue, TypeOK,
         ServerTypeOK, Clients
<1>2. CASE ServerPoll
  <2>1. /\ revents' = [in |-> Readable, nval |-> closed] /\ hi' = 1 /\ spc' = "handle"
        /\ poll_count' = Cardinality(Readable \cup closed)
        /\ UNCHANGED <<closed, muted, num_open, request, reply>> /\ spc = "poll"
    BY <1>2 DEF ServerPoll, Invalid, client_vars
  <2>2. Readable \subseteq DOMAIN fds /\ closed \subseteq DOMAIN fds
    BY DEF Readable, TypeOK, ServerTypeOK
  <2>3. poll_count' \in 0..NumThreads
    BY <1>1, <2>1, <2>2, ClosedFinite DEF TypeOK
  <2>4. TypeOK'
    BY <1>0, <1>1, <2>1, <2>2, <2>3 DEF TypeOK, ServerTypeOK, SPC
  <2>5. Queue' /\ SentOnce' /\ ClosedDone' /\ OpenCount'
    BY <1>0, <1>1, <2>1 DEF Queue, SentOnce, ClosedDone, OpenCount
  <2>6. Handling'
    <3>1. Reported' = Readable \cup closed
      BY <2>1 DEF Reported
    <3>2. \A k \in Readable : k \notin closed /\ (fds[k] \in request \/ cpc[fds[k]] = "done")
      BY DEF Readable
    <3> QED BY <1>0, <1>1, <2>1, <2>2, <3>1, <3>2 DEF Handling, Clients
  <2> QED BY <2>4, <2>5, <2>6
<1>3. CASE ServerHandleData
  <2>1. /\ spc = "handle" /\ hi <= Len(fds) /\ hi \in revents.in /\ fds[hi] \in request
        /\ request' = request \ {fds[hi]} /\ reply' = reply \cup {fds[hi]} /\ hi' = hi + 1
        /\ UNCHANGED <<spc, closed, muted, revents, poll_count, num_open>>
    BY <1>3 DEF ServerHandleData, Answer
  <2>2. hi \in Clients /\ fds[hi] \in Clients
    BY <1>1, <2>1 DEF TypeOK, ServerTypeOK, Clients
  <2>3. TypeOK'
    <3>1. request' \subseteq Clients /\ reply' \subseteq Clients
      BY <2>1, <2>2 DEF TypeOK, ServerTypeOK
    <3>2. hi' \in 1..NumThreads+1
      BY <2>1, <2>2 DEF Clients
    <3> QED BY <1>0, <2>1, <3>1, <3>2 DEF TypeOK, ServerTypeOK
  <2>4. Queue' /\ SentOnce' /\ ClosedDone' /\ OpenCount'
    BY <1>0, <1>1, <2>1 DEF Queue, SentOnce, ClosedDone, OpenCount
  <2>5. cpc'[fds[hi]] # "send" /\ fds[hi] \notin request'
    BY <1>0, <2>1 DEF SentOnce
  <2>6. \A k \in Clients : k # hi => fds[k] # fds[hi]
    BY <1>1, <2>2 DEF Queue
  <2>7. Handling'
    BY <1>0, <1>1, <2>1, <2>2, <2>5, <2>6
       DEF Handling, Reported, Unanswered, TypeOK, ServerTypeOK, Clients
  <2> QED BY <2>3, <2>4, <2>7
<1>4. CASE ServerHandleEof
  <2>1. /\ spc = "handle" /\ hi <= Len(fds) /\ hi \in revents.in /\ fds[hi] \notin request
        /\ closed' = closed \cup {hi} /\ num_open' = num_open - 1 /\ hi' = hi + 1
        /\ UNCHANGED <<spc, muted, revents, poll_count, request, reply>>
    BY <1>4 DEF ServerHandleEof, OneLess, client_vars
  <2>2. hi \in DOMAIN fds /\ hi \notin closed /\ cpc[fds[hi]] = "done"
    BY <1>1, <2>1 DEF TypeOK, ServerTypeOK, Clients, Handling
  <2>3. IsFiniteSet(closed) /\ closed' \subseteq DOMAIN fds /\ ServerTypeOK
    BY <2>1, <2>2, ClosedFinite DEF TypeOK, ServerTypeOK
  <2>4. Cardinality(closed') = Cardinality(closed) + 1 /\ Cardinality(closed) \in Nat
    BY <2>1, <2>2, <2>3, FS_AddElement, FS_CardinalityType
  <2>5. Cardinality(closed') <= Len(fds)
    BY <2>3, ClosedFinite
  <2>6. num_open' = Len(fds) - Cardinality(closed') /\ num_open' \in 0..NumThreads
    BY <1>1, <2>1, <2>4, <2>5 DEF OpenCount
  <2>7. TypeOK'
    BY <1>0, <1>1, <2>1, <2>3, <2>6 DEF TypeOK, ServerTypeOK
  <2>8. Queue' /\ SentOnce' /\ ClosedDone' /\ OpenCount'
    BY <1>0, <1>1, <2>1, <2>2, <2>6 DEF Queue, SentOnce, ClosedDone, OpenCount
  <2>9. Handling'
    BY <1>0, <1>1, <2>1, <2>2 DEF Handling, Reported, Unanswered, TypeOK, ServerTypeOK, Clients
  <2> QED BY <2>7, <2>8, <2>9
<1>5. CASE ServerHandleOther
  <2>1. /\ spc = "handle" /\ hi <= Len(fds) /\ hi \notin revents.in
        /\ muted' = muted \cup ({hi} \cap revents.nval) /\ hi' = hi + 1
        /\ UNCHANGED <<spc, closed, revents, poll_count, num_open, request, reply>>
    BY <1>5 DEF ServerHandleOther, client_vars
  <2>2. hi \in DOMAIN fds
    BY <1>1, <2>1 DEF TypeOK, ServerTypeOK, Clients
  <2>3. TypeOK'
    BY <1>0, <1>1, <2>1, <2>2 DEF TypeOK, ServerTypeOK
  <2>4. Queue' /\ SentOnce' /\ ClosedDone' /\ OpenCount'
    BY <1>0, <1>1, <2>1 DEF Queue, SentOnce, ClosedDone, OpenCount
  <2>5. hi \in revents.nval => ~Unanswered(fds[hi])
    BY <2>1, <2>2 DEF Handling, ClosedDone, Unanswered
  <2>6. Handling'
    BY <1>0, <1>1, <2>1, <2>2, <2>5
       DEF Handling, Reported, Unanswered, TypeOK, ServerTypeOK, Clients
  <2> QED BY <2>3, <2>4, <2>6
<1> QED BY <1>2, <1>3, <1>4, <1>5

(* Main result: the invariant holds in every reachable state, for any       *)
(* number of clients.                                                       *)
THEOREM ServerInvariant == Spec => []IInv
<1>1. IInv /\ [Next]_all_vars => IInv'
  <2> SUFFICES ASSUME IInv, [Next]_all_vars PROVE IInv'
    OBVIOUS
  <2>1. CASE Main
    BY <2>1, MainStep
  <2>2. CASE ServerThread \/ ServerThreadFails
    BY <2>2, ServerOutsideLoop, ServerInLoop DEF ServerThread, ServerThreadFails, Server
  <2>3. ASSUME NEW c \in Clients, ClientThread(c) PROVE IInv'
    BY <2>3, ClientStep DEF ClientThread
  <2>4. CASE UNCHANGED all_vars
    <3>1. UNCHANGED <<prog, spc, fds, closed, muted, revents, poll_count, hi, num_open, timeouts,
                      cpc, request, reply, backlog, mpc, created>>
      BY <2>4 DEF all_vars, main_vars, vars, server_vars, client_vars
    <3>2. TypeOK' /\ Queue' /\ SentOnce'
      BY <3>1 DEF IInv, TypeOK, ServerTypeOK, Queue, SentOnce
    <3>3. ClosedDone' /\ OpenCount' /\ Handling'
      BY <3>1 DEF IInv, ClosedDone, OpenCount, Handling, Reported, Unanswered
    <3> QED BY <3>2, <3>3 DEF IInv
  <2> QED BY <2>1, <2>2, <2>3, <2>4 DEF Next
<1> QED BY Initial, <1>1, PTL DEF Spec

(* num_open always agrees with the descriptors the server still holds.      *)
THEOREM CountsOpen == Spec => []OpenCount
<1>1. IInv => OpenCount
  BY DEF IInv
<1> QED BY <1>1, ServerInvariant, PTL

(* A closed descriptor that stays in fds is never the number of another     *)
(* connection: by then every thread has called socket().                    *)
THEOREM ClosedNotReused == Spec => []NoFdReuse
<1>1. IInv => NoFdReuse
  <2> SUFFICES ASSUME IInv, closed # {}
               PROVE  /\ \A c \in Clients : cpc[c] \notin {"unborn", "socket"}
                      /\ \A i \in closed : cpc[fds[i]] = "done"
    BY DEF NoFdReuse
  <2>1. Len(fds) = NumThreads
    BY DEF IInv, Queue
  <2>2. \A c \in Clients : cpc[c] \in Met
    BY <2>1, AllMet
  <2> QED BY <2>2 DEF IInv, ClosedDone, Met
<1> QED BY <1>1, ServerInvariant, PTL

-----------------------------------------------------------------------------
(* A client that has connected and been answered stays answered, and a      *)
(* client step changes neither the server's control point nor its counters. *)
LEMMA StaysAnswered ==
  ASSUME IInv, NEW c \in Clients, Client(c), NEW d \in Clients,
         cpc[d] \in Met, ~Unanswered(d)
  PROVE  ~Unanswered(d)'
<1>1. cpc \in [Clients -> CPC] /\ cpc[d] # "send" /\ d \notin request
  BY DEF IInv, TypeOK, ServerTypeOK, Unanswered
<1>2. CASE ClientSend(c)
  BY <1>1, <1>2 DEF ClientSend, Move, Unanswered
<1>3. CASE ClientConnect(c)
  BY <1>1, <1>3 DEF ClientConnect, Move, Unanswered, Met
<1>4. CASE ClientSocket(c) \/ ClientGetpeernameFails(c) \/ ClientRead(c) \/ ClientClose(c)
  BY <1>1, <1>4 DEF ClientSocket, ClientGetpeernameFails, ClientRead, ClientClose, Move,
                    Unanswered
<1> QED BY <1>2, <1>3, <1>4 DEF Client

(* With every connection closed nobody is left unanswered.                  *)
LEMMA NoneOpen ==
  ASSUME IInv, Len(fds) = NumThreads, num_open = Len(fds) - Cardinality(closed), num_open = 0
  PROVE  \A c \in Clients : ~Unanswered(c)
<1> USE NumThreadsAssumption
<1>1. DOMAIN fds = 1..NumThreads /\ closed \subseteq DOMAIN fds /\ ServerTypeOK
  BY DEF IInv, TypeOK, ServerTypeOK
<1>2. Cardinality(closed) \in Nat
  BY <1>1, ClosedFinite
<1>3. Cardinality(closed) = NumThreads
  BY <1>2
<1>4. IsFiniteSet(1..NumThreads) /\ Cardinality(1..NumThreads) = NumThreads
  BY FS_Interval
<1>5. closed = DOMAIN fds
  BY <1>1, <1>3, <1>4, FS_Subset
<1> QED BY <1>5, AllMet DEF IInv, ClosedDone, Unanswered

(* With at most three clients, a poll that reports three positions reports  *)
(* all of them, and the break after it comes when all have been answered.   *)
LEMMA BreakAnswersAll ==
  ASSUME NumThreads <= 3, IInv, spc = "handle", hi = Len(fds) + 1, BreakNow
  PROVE  \A c \in Clients : ~Unanswered(c)
<1> USE NumThreadsAssumption
<1>1. Len(fds) = NumThreads /\ DOMAIN fds = 1..NumThreads /\ Reported \subseteq DOMAIN fds
  BY DEF IInv, TypeOK, ServerTypeOK, Queue, Handling
<1>2. Cardinality(Reported) = 3
  BY DEF IInv, Handling, BreakNow
<1>3. IsFiniteSet(1..NumThreads) /\ Cardinality(1..NumThreads) = NumThreads
  BY FS_Interval
<1>4. Reported = DOMAIN fds
  BY <1>1, <1>2, <1>3, FS_Subset
<1>5. \A i \in DOMAIN fds : ~Unanswered(fds[i])
  BY <1>1, <1>4 DEF IInv, Handling
<1> QED BY <1>1, <1>5, AllMet

(* Every step preserves Answered.                                           *)
LEMMA AnsweredStep ==
  ASSUME NumThreads <= 3, IInv, Answered, [Next]_all_vars
  PROVE  Answered'
<1> USE DEF Answered
<1>1. ASSUME UNCHANGED <<prog, spc, cpc, request, timeouts>> PROVE Answered'
  BY <1>1 DEF Unanswered, Separate
<1>2. CASE UNCHANGED all_vars
  BY <1>1, <1>2 DEF all_vars, vars, server_vars, client_vars
<1>3. CASE Main
  <2>1. CASE CreateClient
    <3>1. created + 1 \in Clients /\ cpc[created + 1] = "unborn"
      BY <2>1, NumThreadsAssumption DEF CreateClient, Clients, IInv, TypeOK, Queue
    <3>2. Len(fds) # NumThreads
      BY <3>1, AllMet DEF Met
    <3>3. spc \notin {"close", "done"}
      BY <3>2 DEF IInv, Queue
    <3> QED BY <2>1, <3>3 DEF CreateClient, server_vars
  <2>2. CASE Fork \/ JoinServer \/ JoinClients \/ WaitServer
    BY <1>1, <2>2 DEF Fork, JoinServer, JoinClients, WaitServer, MainGoes, vars, server_vars,
                      client_vars
  <2> QED BY <1>3, <2>1, <2>2 DEF Main
<1>4. ASSUME NEW c \in Clients, ClientThread(c) PROVE Answered'
  <2>1. Client(c) /\ UNCHANGED <<prog, spc, timeouts>>
    BY <1>4 DEF ClientThread, Client, ClientSocket, ClientConnect, ClientGetpeernameFails,
                ClientSend, ClientRead, ClientClose, server_vars
  <2>2. CASE spc \in {"close", "done"} /\ \A d \in Clients : ~Unanswered(d)
    <3>1. \A d \in Clients : cpc[d] \in Met
      BY <2>2, AllMet DEF IInv, Queue
    <3> QED BY <2>1, <2>2, <3>1, StaysAnswered
  <2> QED BY <2>1, <2>2 DEF Separate
<1>5. CASE ServerThread \/ ServerThreadFails
  <2>1. Started /\ (Server \/ ServerFails)
    BY <1>5 DEF ServerThread, ServerThreadFails
  <2>2. CASE ServerTest
    <3>1. spc = "test" /\ UNCHANGED <<prog, cpc, request, timeouts>>
            /\ spc' = IF Continue THEN "poll" ELSE "close"
      BY <2>2 DEF ServerTest, client_vars
    <3>2. Len(fds) = NumThreads /\ num_open = Len(fds) - Cardinality(closed)
      BY <3>1 DEF IInv, Queue, OpenCount
    <3>3. num_open \in Nat /\ timeouts \in Nat
      BY NumThreadsAssumption DEF IInv, TypeOK, ServerTypeOK, TimeoutCap
    <3>4. CASE num_open = 0
      BY <3>1, <3>2, <3>4, NoneOpen DEF Unanswered
    <3>5. CASE num_open # 0 /\ ~Continue
      <4>1. Separate /\ timeouts >= 3
        BY <3>3, <3>5 DEF Continue, ForkContinue, ThreadContinue
      <4> QED BY <3>1, <4>1 DEF Separate
    <3> QED BY <3>1, <3>4, <3>5
  <2>3. CASE ServerHandled
    <3>1. /\ spc = "handle" /\ hi = Len(fds) + 1 /\ spc' = IF BreakNow THEN "close" ELSE "test"
          /\ UNCHANGED <<cpc, request>>
      BY <2>3 DEF ServerHandled, client_vars
    <3> QED BY <3>1, BreakAnswersAll DEF Unanswered
  <2>4. CASE ServerClose
    BY <2>4 DEF ServerClose, client_vars, Unanswered, Separate
  <2>5. CASE \/ ServerListen \/ ServerAccept \/ ServerAllAccepted \/ ServerPoll
             \/ ServerPollTimeout \/ ServerHandleData \/ ServerHandleEof
             \/ ServerHandleOther \/ ServerFails
    <3>1. spc' \notin {"close", "done"}
      BY <2>5 DEF ServerListen, ServerAccept, ServerAllAccepted, ServerPoll, ServerPollTimeout,
                  ServerHandleData, ServerHandleEof, ServerHandleOther, ServerFails
    <3> QED BY <3>1
  <2> QED BY <2>1, <2>2, <2>3, <2>4, <2>5 DEF Server
<1> QED BY <1>2, <1>3, <1>4, <1>5 DEF Next

(* With NUM_THREADS at most 3 (it is 3 in both programs) a server that      *)
(* leaves its loop has answered every client, or is that of                 *)
(* socketforkserver.c and has timed out: breaking on poll_count == 3 loses  *)
(* nobody.                                                                  *)
THEOREM NobodyLost ==
  ASSUME NumThreads <= 3
  PROVE  Spec => []Answered
<1>1. Init => Answered
  BY DEF Init, ServerInit, Answered
<1>2. IInv /\ Answered /\ [Next]_all_vars => Answered'
  BY AnsweredStep
<1> QED BY <1>1, <1>2, ServerInvariant, PTL DEF Spec
=============================================================================
