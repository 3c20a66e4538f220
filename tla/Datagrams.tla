----------------------------- MODULE Datagrams -----------------------------
(***************************************************************************)
(* recvmsg.c and recvmsg-flush.c, which differ only in what they print: a   *)
(* receiver thread binds a UDP port and waits in recvmsg for one datagram,  *)
(* which a sender thread gathers from two texts.  main creates the receiver,*)
(* sleeps, creates the sender and joins both; sleep(1) orders nothing, so   *)
(* the sender may run before the port is bound.                             *)
(***************************************************************************)
EXTENDS Vectors

CONSTANT BUF_SIZE        \* bytes of each receive buffer
NUMBUFS == 2
Texts == <<19, 24>>      \* lengths of msg_text and msg_text2

(* The vectors, a byte short of their buffers, hold the whole datagram.     *)
ASSUME RoomForDatagram == BUF_SIZE \in Nat /\ NUMBUFS * (BUF_SIZE - 1) >= Texts[1] + Texts[2]

VARIABLES
  mpc, rpc, spc,   \* control points of main, the receiver and the sender
  bound,           \* the port is bound to the receiver's socket
  inbox,           \* datagrams queued on that socket
  rbuf,            \* buffer[NUMBUFS][BUF_SIZE]
  printed          \* the lines printed from the buffers
datagram_vars == <<mpc, rpc, spc, bound, inbox, rbuf, printed>>

DatagramTypeOK ==
  /\ mpc \in {"recv_create", "sender_create", "join_sender", "join_recv", "end"}
  /\ rpc \in {"none", "socket", "bind", "recvmsg", "print", "end"}
  /\ spc \in {"none", "socket", "sendmsg", "badfd", "end"}
  /\ bound \in BOOLEAN
  /\ inbox \in Seq(Seq(Nat)) /\ rbuf \in Seq(Int) /\ printed \in Seq(Seq(Int))

DatagramInit ==
  /\ mpc = "recv_create" /\ rpc = "none" /\ spc = "none"
  /\ bound = FALSE /\ inbox = <<>>
  /\ rbuf = [a \in 1..NUMBUFS * BUF_SIZE |-> Junk]
  /\ printed = <<>>

(* iov_len = sizeof of a pointer to the buffer instead of the buffer.       *)
PointerSized == [i \in 1..NUMBUFS |-> Vec((i - 1) * BUF_SIZE + 1, 7)]

iov == [i \in 1..NUMBUFS |-> Vec((i - 1) * BUF_SIZE + 1, BUF_SIZE - 1)]

Datagram == FlattenSeq([k \in DOMAIN Texts |-> Text(k, Texts[k])])

-----------------------------------------------------------------------------
(* recv_thread.                                                             *)
RecvSocket ==
  /\ rpc = "socket" /\ rpc' \in {"bind", "end"}
  /\ UNCHANGED <<mpc, spc, bound, inbox, rbuf, printed>>

RecvBind ==
  /\ rpc = "bind"
  /\ \/ rpc' = "recvmsg" /\ bound' = TRUE
     \/ rpc' = "end" /\ UNCHANGED bound
  /\ UNCHANGED <<mpc, spc, inbox, rbuf, printed>>

RecvMsg ==
  /\ rpc = "recvmsg" /\ inbox # <<>>
  /\ rbuf' = Scatter(rbuf, iov, Head(inbox))
  /\ inbox' = Tail(inbox)
  /\ rpc' = "print"
  /\ UNCHANGED <<mpc, spc, bound, printed>>

RecvFails ==
  /\ rpc = "recvmsg"
  /\ rpc' = "end" /\ bound' = FALSE /\ inbox' = <<>>
  /\ UNCHANGED <<mpc, spc, rbuf, printed>>

(* A receiver that goes back to recvmsg after a datagram.                   *)
ReceivesAgain ==
  /\ rpc = "print"
  /\ printed' = [i \in DOMAIN iov |-> Printed(rbuf, iov[i].base, iov[i].len)]
  /\ rpc' = "recvmsg"
  /\ UNCHANGED <<mpc, spc, bound, inbox, rbuf>>

(* Each buffer is printed up to its vector's length, not the datagram's:    *)
(* what recvmsg left unwritten is printed too.                              *)
RecvPrint ==
  /\ rpc = "print"
  /\ printed' = [i \in DOMAIN iov |-> Printed(rbuf, iov[i].base, iov[i].len)]
  /\ rpc' = "end" /\ bound' = FALSE /\ inbox' = <<>>
  /\ UNCHANGED <<mpc, spc, rbuf>>

Receiver == RecvSocket \/ RecvBind \/ RecvMsg \/ RecvPrint

(* sender_thread: neither socket's result nor sendmsg's is looked at.       *)
SenderSocket ==
  /\ spc = "socket" /\ spc' \in {"sendmsg", "badfd"}
  /\ UNCHANGED <<mpc, rpc, bound, inbox, rbuf, printed>>

SenderSends ==
  /\ spc = "sendmsg" /\ bound
  /\ inbox' = Append(inbox, Datagram)
  /\ spc' = "end"
  /\ UNCHANGED <<mpc, rpc, bound, rbuf, printed>>

(* No socket, a failing sendmsg, or nobody bound to the port.               *)
SenderLoses ==
  /\ spc \in {"sendmsg", "badfd"} /\ spc' = "end"
  /\ UNCHANGED <<mpc, rpc, bound, inbox, rbuf, printed>>

Sender == SenderSocket \/ SenderSends \/ SenderLoses

CreateReceiver ==
  /\ mpc = "recv_create" /\ mpc' = "sender_create" /\ rpc' = "socket"
  /\ UNCHANGED <<spc, bound, inbox, rbuf, printed>>

CreateSender ==
  /\ mpc = "sender_create" /\ mpc' = "join_sender" /\ spc' = "socket"
  /\ UNCHANGED <<rpc, bound, inbox, rbuf, printed>>

Joins ==
  /\ \/ mpc = "join_sender" /\ spc = "end" /\ mpc' = "join_recv"
     \/ mpc = "join_recv" /\ rpc = "end" /\ mpc' = "end"
  /\ UNCHANGED <<rpc, spc, bound, inbox, rbuf, printed>>

DatagramMain == CreateReceiver \/ CreateSender \/ Joins

DatagramNext == DatagramMain \/ Receiver \/ Sender \/ RecvFails

DatagramsEnded == mpc = "end"

(* main waits for the receiver, which waits for a datagram already lost.    *)
WaitsForLost ==
  /\ mpc = "join_recv" /\ rpc = "recvmsg"
  /\ inbox = <<>> /\ printed = <<>>

-----------------------------------------------------------------------------
(* What the receiver prints starts with the whole datagram, the second text *)
(* right after the first, however sender and receiver interleave and        *)
(* wherever the datagram crosses from one buffer to the next.               *)
ReceivedWhole == printed # <<>> => IsPrefix(Datagram, FlattenSeq(printed))
=============================================================================
