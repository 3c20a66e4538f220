----------------------------- MODULE PollServer -----------------------------
(***************************************************************************)
(* The server and the clients of socket.c and socketforkserver.c: the      *)
(* server accepts one TCP connection per client, then polls all of them,   *)
(* answers what it reads and closes a connection at its end of file.  It   *)
(* leaves a closed descriptor in fds, where poll reports POLLNVAL for it   *)
(* from then on.  SocketPrograms adds the two main functions.              *)
(***************************************************************************)
EXTENDS Integers, Sequences, FiniteSets

CONSTANT NumThreads       \* NUM_THREADS

ASSUME NumThreadsAssumption == NumThreads \in Nat \ {0}

Clients == 1..NumThreads
TimeoutCap == 4           \* bound: timeouts counts no further than this

VARIABLES
  prog,       \* the program that runs
  spc,        \* server: control point
  backlog,    \* connections waiting for accept, oldest first
  fds,        \* the client behind each pollfd, in the order accepted
  closed,     \* positions of fds whose descriptor has been closed
  muted,      \* positions whose events have been set to 0
  revents,    \* positions poll reported: the POLLIN ones, the POLLNVAL ones
  poll_count, hi,         \* poll's result, and the loop index over fds
  num_open, timeouts,
  cpc,        \* clients: control points
  request, reply          \* bytes in flight to the server, to the client

server_vars == <<prog, spc, fds, closed, muted, revents, poll_count, hi, num_open, timeouts>>
client_vars == <<cpc, request, reply, backlog>>
vars == <<server_vars, client_vars>>

Programs == {"socket.c", "socketforkserver.c"}

(* The server is a process of its own.                                      *)
Separate == prog = "socketforkserver.c"

SPC == {"socket", "accept", "test", "poll", "handle", "close", "done", "failed"}
CPC == {"unborn", "socket", "connect", "send", "read", "close", "done", "failed"}

ServerTypeOK ==
  /\ prog \in Programs
  /\ spc \in SPC
  /\ backlog \in Seq(Clients) /\ fds \in Seq(Clients)
  /\ closed \subseteq DOMAIN fds /\ muted \subseteq DOMAIN fds
  /\ revents \in [in : SUBSET Clients, nval : SUBSET Clients]
  /\ poll_count \in 0..NumThreads /\ hi \in 1..NumThreads+1
  /\ num_open \in 0..NumThreads /\ timeouts \in 0..TimeoutCap
  /\ cpc \in [Clients -> CPC]
  /\ request \subseteq Clients /\ reply \subseteq Clients

ServerInit ==
  /\ prog \in Programs
  /\ spc = "socket" /\ backlog = <<>> /\ fds = <<>>
  /\ closed = {} /\ muted = {} /\ revents = [in |-> {}, nval |-> {}]
  /\ poll_count = 0 /\ hi = 1 /\ num_open = 0 /\ timeouts = 0
  /\ cpc = [c \in Clients |-> "unborn"]
  /\ request = {} /\ reply = {}

-----------------------------------------------------------------------------
(* client_thread.  A server that exits the process it shares takes the      *)
(* clients with it; one in a process of its own closes its connections.     *)

ClientAlive == Separate \/ spc # "failed"
PeerLingers == FALSE
PeerGone == Separate /\ spc \in {"done", "failed"}

Move(c, from, to) == cpc[c] = from /\ cpc' = [cpc EXCEPT ![c] = to]

ClientSocket(c) ==
  /\ \/ Move(c, "socket", "connect")
     \/ Move(c, "socket", "failed")
  /\ UNCHANGED <<server_vars, request, reply, backlog>>

(* connect is refused unless the server is listening.                       *)
Listening == spc \in {"accept", "test", "poll", "handle", "close"}

ClientConnect(c) ==
  /\ \/ Listening /\ Move(c, "connect", "send") /\ backlog' = Append(backlog, c)
     \/ ~Listening /\ Move(c, "connect", "failed") /\ UNCHANGED backlog
  /\ UNCHANGED <<server_vars, request, reply>>

(* socketforkserver.c: getpeername fails if the connection was reset.       *)
ClientGetpeernameFails(c) ==
  /\ PeerGone
  /\ Move(c, "send", "failed")
  /\ UNCHANGED <<server_vars, request, reply, backlog>>

ClientSend(c) ==
  /\ Move(c, "send", "read")
  /\ request' = request \cup {c}
  /\ UNCHANGED <<server_vars, reply, backlog>>

ClientRead(c) ==
  /\ c \in reply \/ PeerGone
  /\ Move(c, "read", "close")
  /\ reply' = reply \ {c}
  /\ UNCHANGED <<server_vars, request, backlog>>

ClientClose(c) ==
  /\ Move(c, "close", "done")
  /\ UNCHANGED <<server_vars, request, reply, backlog>>

Client(c) ==
  ClientAlive /\ (ClientSocket(c) \/ ClientConnect(c) \/ ClientGetpeernameFails(c)
                    \/ ClientSend(c) \/ ClientRead(c) \/ ClientClose(c))

-----------------------------------------------------------------------------
(* server_thread.                                                           *)

(* socket, bind and listen.                                                 *)
ServerListen ==
  /\ spc = "socket"
  /\ spc' = "accept"
  /\ UNCHANGED <<prog, fds, closed, muted, revents, poll_count, hi, num_open, timeouts,
                 client_vars>>

ServerAccept ==
  /\ spc = "accept" /\ Len(fds) < NumThreads /\ backlog # <<>>
  /\ fds' = Append(fds, Head(backlog))
  /\ backlog' = Tail(backlog)
  /\ UNCHANGED <<prog, spc, closed, muted, revents, poll_count, hi, num_open, timeouts,
                 cpc, request, reply>>

AcceptedOne == Len(fds) >= 1
AcceptedAll == Len(fds) = NumThreads

ServerAllAccepted ==
  /\ spc = "accept" /\ AcceptedAll
  /\ num_open' = Len(fds)
  /\ spc' = "test"
  /\ UNCHANGED <<prog, fds, closed, muted, revents, poll_count, hi, timeouts, client_vars>>

(* while ((num_open > 0) || (timeouts > 3))                                 *)
ThreadContinue == num_open > 0 \/ timeouts > 3

(* while ((num_open > 0) && (timeouts < 3))                                 *)
ForkContinue == num_open > 0 /\ timeouts < 3

Continue == IF Separate THEN ForkContinue ELSE ThreadContinue

ServerTest ==
  /\ spc = "test"
  /\ spc' = IF Continue THEN "poll" ELSE "close"
  /\ UNCHANGED <<prog, fds, closed, muted, revents, poll_count, hi, num_open, timeouts,
                 client_vars>>

(* Kernel: what poll finds.  A closed descriptor is POLLNVAL whatever its   *)
(* events; an open one is POLLIN when there is data or the peer has closed. *)
Invalid == closed
Readable == {i \in DOMAIN fds \ (closed \cup muted) :
               fds[i] \in request \/ cpc[fds[i]] = "done"}

ServerPoll ==
  /\ spc = "poll" /\ Readable \cup Invalid # {}
  /\ revents' = [in |-> Readable, nval |-> Invalid]
  /\ poll_count' = Cardinality(Readable \cup Invalid)
  /\ hi' = 1
  /\ spc' = "handle"
  /\ UNCHANGED <<prog, fds, closed, muted, num_open, timeouts, client_vars>>

ServerPollTimeout ==
  /\ spc = "poll" /\ Readable \cup Invalid = {}
  /\ timeouts' = IF timeouts < TimeoutCap THEN timeouts + 1 ELSE timeouts
  /\ poll_count' = 0
  /\ spc' = "test"
  /\ UNCHANGED <<prog, fds, closed, muted, revents, hi, num_open, client_vars>>

(* One turn of the loop over fds: a message is read and answered, an end of *)
(* file closes the descriptor, anything but POLLIN silences the position.   *)
Answer(c) == reply \cup {c}

StillOpen == num_open
OneLess == num_open - 1

ServerHandleData ==
  /\ spc = "handle" /\ hi <= Len(fds)
  /\ hi \in revents.in /\ fds[hi] \in request
  /\ request' = request \ {fds[hi]}
  /\ reply' = Answer(fds[hi])
  /\ hi' = hi + 1
  /\ UNCHANGED <<prog, spc, fds, closed, muted, revents, poll_count, num_open, timeouts,
                 cpc, backlog>>

ServerHandleEof ==
  /\ spc = "handle" /\ hi <= Len(fds)
  /\ hi \in revents.in /\ fds[hi] \notin request
  /\ closed' = closed \cup {hi}
  /\ num_open' = OneLess
  /\ hi' = hi + 1
  /\ UNCHANGED <<prog, spc, fds, muted, revents, poll_count, timeouts, client_vars>>

ServerHandleOther ==
  /\ spc = "handle" /\ hi <= Len(fds)
  /\ hi \notin revents.in
  /\ muted' = muted \cup ({hi} \cap revents.nval)
  /\ hi' = hi + 1
  /\ UNCHANGED <<prog, spc, fds, closed, revents, poll_count, num_open, timeouts, client_vars>>

BreakOnAny == poll_count > 0
BreakNow == poll_count = 3

ServerHandled ==
  /\ spc = "handle" /\ hi = Len(fds) + 1
  /\ spc' = IF BreakNow THEN "close" ELSE "test"
  /\ UNCHANGED <<prog, fds, closed, muted, revents, poll_count, hi, num_open, timeouts,
                 client_vars>>

ServerClose ==
  /\ spc = "close"
  /\ spc' = "done"
  /\ UNCHANGED <<prog, fds, closed, muted, revents, poll_count, hi, num_open, timeouts,
                 client_vars>>

(* A failing socket, bind, listen, accept or poll is exit(EXIT_FAILURE).     *)
ServerFails ==
  /\ spc \in {"socket", "accept", "poll"}
  /\ spc' = "failed"
  /\ UNCHANGED <<prog, fds, closed, muted, revents, poll_count, hi, num_open, timeouts,
                 client_vars>>

Server == \/ ServerListen \/ ServerAccept \/ ServerAllAccepted \/ ServerTest
          \/ ServerPoll \/ ServerPollTimeout \/ ServerHandleData \/ ServerHandleEof
          \/ ServerHandleOther \/ ServerHandled \/ ServerClose

-----------------------------------------------------------------------------
(* A client that the server has not read from yet.                          *)
Unanswered(c) == cpc[c] = "send" \/ c \in request

(* num_open agrees with the descriptors the server still holds.             *)
OpenCount ==
  spc \in {"test", "poll", "handle", "close", "done"} =>
    num_open = Len(fds) - Cardinality(closed)

(* The server closes a connection only after the client's end of file, and  *)
(* by then no thread can still call socket() and be given the number that   *)
(* fds keeps polling.                                                       *)
NoFdReuse ==
  closed # {} => /\ \A c \in Clients : cpc[c] \notin {"unborn", "socket"}
                 /\ \A i \in closed : cpc[fds[i]] = "done"
=============================================================================
