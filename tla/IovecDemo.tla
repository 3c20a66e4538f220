----------------------------- MODULE IovecDemo -----------------------------
(***************************************************************************)
(* iovec_demo.c: one demonstration after the other, each of which gathers   *)
(* messages from iovecs into a pipe, a file, a socket pair or its own       *)
(* memory, scatters them into a buffer and prints the result.  A demo is a  *)
(* record:                                                                  *)
(*   texts   lengths of the parts of each message                           *)
(*   nul     the message's last byte is a NUL                               *)
(*   fresh   contents of the buffer before: Junk, NUL, or Kept              *)
(*   into    for each message, the iovecs it is received into               *)
(*   shows   the start of each printed string and how its length is found   *)
(*   fatal   a failing call ends the program, by die()                      *)
(***************************************************************************)
EXTENDS Vectors

Size == 128      \* the largest buffer: rbufs[2][64]
Kept == -2

Count == "the number of bytes received"
Strlen == "strlen"

ReadvWritev ==
  [texts |-> <<<<7, 13>>>>, nul |-> FALSE, fresh |-> Junk, fatal |-> TRUE,
   into |-> <<<<Vec(1, 7), Vec(8, 57)>>>>, shows |-> <<<<1, Count>>>>]

PreadvPwritev ==
  [texts |-> <<<<10, 10>>>>, nul |-> FALSE, fresh |-> NUL, fatal |-> TRUE,
   into |-> <<<<Vec(1, 31), Vec(33, 31)>>>>, shows |-> <<<<1, Strlen>>, <<33, Strlen>>>>]

(* The second vector one byte too far into rbuf.                            *)
SendmsgRecvmsgShifted ==
  [texts |-> <<<<7, 6>>>>, nul |-> FALSE, fresh |-> Junk, fatal |-> TRUE,
   into |-> <<<<Vec(1, 8), Vec(33, 32)>>>>, shows |-> <<<<1, Count>>>>]

SendmsgRecvmsg ==
  [texts |-> <<<<7, 6>>>>, nul |-> FALSE, fresh |-> Junk, fatal |-> TRUE,
   into |-> <<<<Vec(1, 32), Vec(33, 32)>>>>, shows |-> <<<<1, Count>>>>]

SendmmsgRecvmmsg ==
  [texts |-> <<<<11, 10>>, <<11, 10>>>>, nul |-> FALSE, fresh |-> Junk, fatal |-> TRUE,
   into |-> <<<<Vec(1, 64)>>, <<Vec(65, 64)>>>>, shows |-> <<<<1, Count>>, <<65, Count>>>>]

Vmsplice ==
  [texts |-> <<<<17>>>>, nul |-> FALSE, fresh |-> Junk, fatal |-> TRUE,
   into |-> <<<<Vec(1, 64)>>>>, shows |-> <<<<1, Count>>>>]

(* process_vm_readv of secret, terminator included, into out ...            *)
ProcessVmReadv ==
  [texts |-> <<<<18>>>>, nul |-> TRUE, fresh |-> NUL, fatal |-> FALSE,
   into |-> <<<<Vec(1, 64)>>>>, shows |-> <<<<1, Count>>>>]

(* ... and process_vm_writev of newdata, terminator excluded, over it.      *)
ProcessVmWritev ==
  [texts |-> <<<<28>>>>, nul |-> FALSE, fresh |-> Kept, fatal |-> FALSE,
   into |-> <<<<Vec(1, 64)>>>>, shows |-> <<<<1, Strlen>>>>]

Demos == <<ReadvWritev, PreadvPwritev, SendmsgRecvmsg, SendmmsgRecvmmsg, Vmsplice,
           ProcessVmReadv, ProcessVmWritev>>

VARIABLES
  demo, dpc,   \* the demo that runs, its control point
  chan,        \* messages written and not yet received
  buf, lens,   \* the receiving buffer; the lengths received
  shown        \* the strings printed by this demo, joined
iovec_vars == <<demo, dpc, chan, buf, lens, shown>>

IovecTypeOK ==
  /\ demo \in 1..Len(Demos) + 1
  /\ dpc \in {"write", "read", "show", "end", "died"}
  /\ chan \in Seq(Seq(Nat)) /\ buf \in Seq(Int) /\ lens \in Seq(Nat) /\ shown \in Seq(Int)

IovecInit ==
  /\ demo = 1 /\ dpc = "write"
  /\ chan = <<>> /\ lens = <<>> /\ shown = <<>>
  /\ buf = [a \in 1..Size |-> Junk]

Now == Demos[demo]
DemoAt(from) == demo <= Len(Demos) /\ dpc = from

Total(lengths) == FoldSeq(LAMBDA x, y : x + y, 0, lengths)

(* Message m of the current demo, part after part as its iovecs name them.  *)
Message(m) ==
  LET n == Total(Now.texts[m])
      text == Text(10 * demo + m, n)
  IN IF Now.nul THEN [text EXCEPT ![n] = NUL] ELSE text

(* The sending call.  sendmmsg may send fewer messages than it was given.   *)
DemoWrite ==
  /\ DemoAt("write")
  /\ \E n \in 1..Len(Now.texts) : chan' = [m \in 1..n |-> Message(m)]
  /\ buf' = IF Now.fresh = Kept THEN buf ELSE [a \in 1..Size |-> Now.fresh]
  /\ lens' = <<>> /\ shown' = <<>>
  /\ dpc' = "read"
  /\ UNCHANGED demo

(* Each message into the iovecs it is received into.                        *)
ScatterAll(mem, into, data) ==
  FoldSeq(LAMBDA m, b : Scatter(b, into[m], data[m]), mem, [m \in DOMAIN data |-> m])

(* The receiving call; recvmmsg, without a time-out, returns when it has    *)
(* filled every header it was given.                                        *)
DemoRead ==
  /\ DemoAt("read") /\ Len(chan) = Len(Now.into)
  /\ buf' = ScatterAll(buf, Now.into, chan)
  /\ lens' = [m \in DOMAIN chan |-> Len(chan[m])]
  /\ chan' = <<>>
  /\ dpc' = "show"
  /\ UNCHANGED <<demo, shown>>

(* show_buf, and the printf of demo_sendmsg_recvmsg.                        *)
ShowLength(k) ==
  IF Now.shows[k][2] = Strlen THEN Size - Now.shows[k][1] ELSE lens[k]

DemoShow ==
  /\ DemoAt("show")
  /\ shown' = FlattenSeq([k \in DOMAIN Now.shows |->
                            Printed(buf, Now.shows[k][1], ShowLength(k))])
  /\ dpc' = "end"
  /\ UNCHANGED <<demo, chan, buf, lens>>

NextDemo ==
  /\ DemoAt("end")
  /\ demo' = demo + 1 /\ dpc' = "write"
  /\ UNCHANGED <<chan, buf, lens, shown>>

(* die(), or the warning of the process_vm calls, which leave the buffer    *)
(* as its initialiser made it.                                              *)
DemoFails ==
  /\ DemoAt("write") \/ (DemoAt("read") /\ Now.fatal)
  /\ IF Now.fatal
     THEN dpc' = "died" /\ UNCHANGED <<demo, buf>>
     ELSE /\ dpc' = "write" /\ demo' = demo + 1
          /\ buf' = IF Now.fresh = Kept THEN buf ELSE [a \in 1..Size |-> Now.fresh]
  /\ UNCHANGED <<chan, lens, shown>>

Demonstrate == DemoWrite \/ DemoRead \/ DemoShow \/ NextDemo
IovecNext == Demonstrate \/ DemoFails

IovecEnded == demo > Len(Demos) \/ dpc = "died"
StuckInBatch == DemoAt("read") /\ Len(chan) < Len(Now.into)

-----------------------------------------------------------------------------
(* A message without its terminator.                                        *)
Visible(m) == IF Now.nul THEN Front(Message(m)) ELSE Message(m)

(* Every demo prints its messages, whole and in order, and no byte of       *)
(* uninitialised memory or of an earlier content of the buffer: not even    *)
(* where the length comes from strlen and no call wrote a terminator.       *)
ShowsTheMessage ==
  DemoAt("end") => shown = FlattenSeq([m \in DOMAIN Now.texts |-> Visible(m)])
=============================================================================
