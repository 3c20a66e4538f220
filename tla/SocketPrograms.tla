--------------------------- MODULE SocketPrograms ---------------------------
(***************************************************************************)
(* The main functions around PollServer.  In socket.c server and clients   *)
(* are threads of one process: main starts the server, sleeps, starts the  *)
(* clients and joins them all.  In socketforkserver.c the server is a      *)
(* forked child, and the parent joins its clients and then waits for it.   *)
(* The sleeps order nothing.                                               *)
(***************************************************************************)
EXTENDS PollServer

VARIABLES mpc, created    \* main: control point, client threads created
main_vars == <<mpc, created>>
all_vars == <<vars, main_vars>>

TypeOK ==
  /\ ServerTypeOK
  /\ mpc \in {"fork", "create", "join", "waitpid", "done", "failed"}
  /\ created \in 0..NumThreads

Init ==
  /\ ServerInit
  /\ mpc = IF Separate THEN "fork" ELSE "create"
  /\ created = 0

Started == mpc \notin {"fork", "failed"}
ClientsEnded == \A c \in Clients : cpc[c] \in {"done", "failed"}
MainGoes(from, to) == mpc = from /\ mpc' = to /\ UNCHANGED <<vars, created>>

(* fork() failing is exit(-1) in the parent.                                *)
Fork == MainGoes("fork", "create") \/ MainGoes("fork", "failed")

CreateClient ==
  /\ mpc = "create" /\ created < NumThreads /\ ClientAlive
  /\ created' = created + 1
  /\ cpc' = [cpc EXCEPT ![created'] = "socket"]
  /\ UNCHANGED <<server_vars, request, reply, backlog, mpc>>

(* socket.c joins the server first, then the clients.                       *)
JoinServer ==
  /\ ~Separate /\ created = NumThreads /\ spc = "done"
  /\ MainGoes("create", "join")

JoinClients ==
  /\ ClientsEnded
  /\ \/ MainGoes("join", "done")
     \/ Separate /\ created = NumThreads /\ MainGoes("create", "waitpid")

(* waitpid; the status is that of an exit, 0 or EXIT_FAILURE.               *)
WaitServer == spc \in {"done", "failed"} /\ MainGoes("waitpid", "done")

Main == Fork \/ CreateClient \/ JoinServer \/ JoinClients \/ WaitServer
ServerThread == Started /\ Server /\ UNCHANGED main_vars
ServerThreadFails == Started /\ ServerFails /\ UNCHANGED main_vars
ClientThread(c) == Client(c) /\ UNCHANGED main_vars

Next == Main \/ ServerThread \/ ServerThreadFails \/ \E c \in Clients : ClientThread(c)

Spec == Init /\ [][Next]_all_vars

(* Every process and thread is scheduled again and again by the kernel; no   *)
(* system call has to fail.                                                 *)
FairSpec ==
  /\ Spec /\ WF_all_vars(Main) /\ WF_all_vars(ServerThread)
  /\ \A c \in Clients : WF_all_vars(ClientThread(c))

-----------------------------------------------------------------------------
(* A server that leaves its loop has read and answered every client; only   *)
(* that of socketforkserver.c may instead have given up, after three polls  *)
(* without activity.  The break on poll_count == 3 loses nobody.            *)
Answered ==
  spc \in {"close", "done"} =>
    \/ \A c \in Clients : ~Unanswered(c)
    \/ Separate /\ timeouts >= 3

(* Once the server has accepted every connection the whole program ends,    *)
(* although closed descriptors stay in fds; in socket.c a poll that fails   *)
(* ends it too.                                                             *)
AcceptedRunEnds ==
  (spc = "test") ~> (mpc = "done" \/ (~Separate /\ spc = "failed"))
=============================================================================
