-------------------------- MODULE OneProcessProofs --------------------------
(***************************************************************************)
(* Proofs about the programs that fork nothing: the segment bases that     *)
(* arch_prctl.c leaves, whichever of its calls fail; what recvmsg.c prints,*)
(* for every buffer size that leaves room for the datagram; and what the   *)
(* demonstrations of iovec_demo.c print.                                   *)
(***************************************************************************)
EXTENDS OneProcess, SequenceTheorems, TLAPS

-----------------------------------------------------------------------------
(* arch_prctl.c.                                                            *)

(* What orig_val holds once the GS base was asked for: the base itself, or  *)
(* the sentinel if the GET failed.                                          *)
Saved == orig_val = Orig \/ (orig_val = Sentinel /\ "GS" \in lost)

GSRestored == base["GS"] = Orig \/ "GS" \in lost

PrctlInv ==
  /\ PrctlTypeOK
  /\ reg = 1 =>
       /\ step \notin {"probes", "end"}
       /\ step = "save" => base["GS"] = Orig
       /\ step \in {"set", "check_set", "reset", "check_reset"} => Saved
  /\ reg = 2 => GSRestored
  /\ step = "end" => base["FS"] = Orig

(* Nothing has been saved at the start, and both bases are the original.    *)
LEMMA PrctlInitial == PrctlInit => PrctlInv
BY DEF PrctlInit, PrctlInv, PrctlTypeOK, Steps, Bases, GSRestored

(* Every call of arch_prctl.c, successful or not, keeps the invariant.      *)
LEMMA PrctlStep ==
  ASSUME PrctlInv, [PrctlNext]_prctl_vars
  PROVE  PrctlInv'
<1> USE DEF PrctlInv, PrctlTypeOK, Steps, Bases, GSRestored, Saved
<1>a. /\ (reg = 1 /\ R = "GS") \/ (reg = 2 /\ R = "FS")
      /\ base["GS"] \in Bases /\ base["FS"] \in Bases
  <2>1. reg = 1 => R = "GS"
    BY DEF R, Registers
  <2>2. reg = 2 => R = "FS"
    BY DEF R, Registers
  <2> QED BY <2>1, <2>2
<1>b. Orig # test_val /\ Orig # Sentinel /\ test_val # Sentinel
  BY DEF Orig, test_val, Sentinel
<1>c. ASSUME Dies PROVE PrctlInv'
  BY <1>a, <1>c DEF Dies
<1>d. ASSUME NEW r \in {"GS", "FS"}, NEW v \in Bases, base' = [base EXCEPT ![r] = v]
      PROVE  /\ base'[r] = v
             /\ \A o \in {"GS", "FS"} : o # r => base'[o] = base[o]
             /\ base' \in [{"GS", "FS"} -> Bases]
  BY <1>d
<1>e. ASSUME NEW from, NEW to \in Steps, NEW val \in Bases, SetBase(from, to, val),
             from \in {"set", "reset"}, to \in {"check_set", "check_reset"}
      PROVE  PrctlInv'
  <2>1. CASE Dies
    BY <2>1, <1>c
  <2>2. CASE /\ base' = [base EXCEPT ![R] = val] /\ step' = to
             /\ UNCHANGED <<reg, orig_val, out_val, lost>>
    <3>1. CASE reg = 1
      <4>1. base' \in [{"GS", "FS"} -> Bases]
        BY <1>a, <1>d, <2>2
      <4> QED BY <3>1, <4>1, <1>e, <2>2 DEF SetBase
    <3>2. CASE reg = 2
      <4>1. R = "FS"
        BY <1>a, <3>2
      <4>2. base' \in [{"GS", "FS"} -> Bases] /\ base'["GS"] = base["GS"]
        BY <4>1, <1>d, <2>2
      <4> QED BY <3>2, <4>2, <1>e, <2>2 DEF SetBase
    <3> QED BY <1>a, <3>1, <3>2
  <2>3. CASE step' = to /\ UNCHANGED <<base, reg, orig_val, out_val, lost>>
    BY <2>3, <1>e, <1>a DEF SetBase
  <2> QED BY <2>1, <2>2, <2>3, <1>e DEF SetBase
<1>1. CASE SaveBase
  <2>0. /\ step = "save" /\ step' = "set" /\ base' = base /\ reg' = reg
        /\ out_val' = Sentinel /\ out_val' \in Bases /\ step' \in Steps
        /\ \/ orig_val' = base[R] /\ lost' = lost
           \/ orig_val' = Sentinel /\ lost' = lost \cup {R}
    BY <1>1 DEF SaveBase
  <2>1. PrctlTypeOK'
    BY <2>0, <1>a
  <2>2. CASE reg = 1
    BY <2>0, <2>1, <2>2, <1>a
  <2>3. CASE reg = 2
    BY <2>0, <2>1, <2>3
  <2> QED BY <1>a, <2>2, <2>3
<1>2. CASE SetTest
  BY <1>2, <1>e DEF SetTest
<1>3. CASE CheckSet
  BY <1>3, <1>a, <1>c DEF CheckSet, CheckBase, ReadBack
<1>4. CASE Reset
  BY <1>4, <1>e DEF Reset
<1>5. CASE CheckReset
  <2>1. CASE reg = 1
    <3>1. R = "GS" /\ "GS" # "FS" /\ Sentinel \in Bases
      BY <1>a, <2>1
    <3>2. CheckBase("check_reset", orig_val, "save", 2)
      BY <1>5, <3>1 DEF CheckReset
    <3>3. PICK got \in BOOLEAN :
            \/ Dies
            \/ /\ Asserted(ReadBack(got), orig_val) /\ out_val' = ReadBack(got)
               /\ step' = "save" /\ reg' = 2 /\ UNCHANGED <<base, orig_val, lost>>
      BY <3>2 DEF CheckBase
    <3>4. ReadBack(got) \in {base["GS"], Sentinel} /\ step = "check_reset"
      BY <3>1, <3>2 DEF ReadBack, CheckBase
    <3>5. CASE Dies
      BY <3>5, <1>c
    <3>6. CASE /\ Asserted(ReadBack(got), orig_val) /\ out_val' = ReadBack(got)
               /\ step' = "save" /\ reg' = 2 /\ UNCHANGED <<base, orig_val, lost>>
      <4>1. GSRestored
        BY <2>1, <3>4, <3>6, <1>b DEF Asserted
      <4> QED BY <3>1, <3>4, <3>6, <4>1, <1>a
    <3> QED BY <3>3, <3>5, <3>6
  <2>2. CASE reg = 2
    <3>1. R = "FS" /\ "GS" # "FS"
      BY <1>a, <2>2
    <3>2. CheckBase("check_reset", orig_val, "probes", 2)
      BY <1>5, <3>1 DEF CheckReset
    <3>3. PICK got \in BOOLEAN :
            \/ Dies
            \/ /\ out_val' = ReadBack(got)
               /\ step' = "probes" /\ reg' = 2 /\ UNCHANGED <<base, orig_val, lost>>
      BY <3>2 DEF CheckBase
    <3>4. ReadBack(got) \in Bases
      BY <3>1, <1>a DEF ReadBack
    <3>5. CASE Dies
      BY <3>5, <1>c
    <3>6. CASE /\ out_val' = ReadBack(got)
               /\ step' = "probes" /\ reg' = 2 /\ UNCHANGED <<base, orig_val, lost>>
      BY <2>2, <3>4, <3>6
    <3> QED BY <3>3, <3>5, <3>6
  <2> QED BY <1>a, <2>1, <2>2
<1>6. CASE Probes
  BY <1>6 DEF Probes, Sound
<1>7. CASE UNCHANGED prctl_vars
  BY <1>7 DEF prctl_vars
<1> QED BY <1>1, <1>2, <1>3, <1>4, <1>5, <1>6, <1>7 DEF PrctlNext

(* arch_prctl.c never ends normally with a wrong base in FS, nor with one   *)
(* in GS unless it could not read the original, whichever calls failed.     *)
THEOREM BasesAlwaysRestored == Spec => []BasesRestored
<1>1. Init => PrctlInv
  BY PrctlInitial DEF Init
<1>2. PrctlInv /\ [Next]_vars => PrctlInv'
  BY PrctlStep DEF Next, vars, RunsDemo, RunsReceiver, RunsPrctl, Running
<1>3. PrctlInv => BasesRestored
  <2>1. ASSUME PrctlInv, step = "end" PROVE reg = 2
    BY <2>1 DEF PrctlInv, PrctlTypeOK
  <2> QED BY <2>1 DEF PrctlInv, BasesRestored, GSRestored
<1> QED BY <1>1, <1>2, <1>3, PTL DEF Spec

-----------------------------------------------------------------------------
(* Sequences of two parts, and the scattering of bytes over two vectors.    *)

(* Flattening one sequence returns it.                                      *)
LEMMA FlattenOne ==
  ASSUME NEW s
  PROVE  FlattenSeq(<<s>>) = s
<1> DEFINE q == <<s>>
           D(e) == [i \in 1..Len(q) |-> IF i = 1 THEN q[i] ELSE e[i-1] \o q[i]]
           g == [i \in 1..1 |-> s]
           h == CHOOSE e : e = D(e)
<1>1. Len(q) = 1 /\ q[1] = s
  OBVIOUS
<1> HIDE DEF q
<1>2. g = D(g)
  BY <1>1
<1>3. h = D(h)
  BY <1>2
<1>4. FlattenSeq(q) = h[1]
  BY <1>1 DEF FlattenSeq
<1> HIDE DEF h
<1>5. h[1] = s
  BY <1>1, <1>3
<1> QED BY <1>4, <1>5 DEF q

(* Flattening two sequences concatenates them.                              *)
LEMMA FlattenTwo ==
  ASSUME NEW s, NEW t
  PROVE  FlattenSeq(<<s, t>>) = s \o t
<1> DEFINE q == <<s, t>>
           D(e) == [i \in 1..Len(q) |-> IF i = 1 THEN q[i] ELSE e[i-1] \o q[i]]
           g == [i \in 1..2 |-> IF i = 1 THEN s ELSE s \o t]
           h == CHOOSE e : e = D(e)
<1>1. Len(q) = 2 /\ q[1] = s /\ q[2] = t
  OBVIOUS
<1> HIDE DEF q
<1>2. g = D(g)
  BY <1>1
<1>3. h = D(h)
  BY <1>2
<1>4. FlattenSeq(q) = h[2]
  BY <1>1 DEF FlattenSeq
<1> HIDE DEF h
<1>5. h[1] = s
  BY <1>1, <1>3
<1>6. \A i \in 1..Len(q) : i # 1 => h[i] = h[i-1] \o q[i]
  BY <1>3
<1>7. 2 - 1 = 1 /\ 2 \in 1..Len(q) /\ 2 # 1
  BY <1>1
<1>8. h[2] = h[2 - 1] \o q[2]
  BY <1>6, <1>7, Zenon
<1>9. h[2] = s \o t
  BY <1>1, <1>5, <1>7, <1>8, Zenon
<1> QED BY <1>4, <1>9 DEF q

(* Sequences that agree up to k begin with the same k elements.             *)
LEMMA SamePrefix ==
  ASSUME NEW u \in Seq(Int), NEW v \in Seq(Int), NEW k \in Nat,
         k <= Len(u), k <= Len(v), \A j \in 1..k : v[j] = u[j]
  PROVE  SubSeq(u, 1, k) = SubSeq(v, 1, k)
<1>1. SubSeq(u, 1, k) = [j \in 1..k |-> u[j]]
  OBVIOUS
<1>2. SubSeq(v, 1, k) = [j \in 1..k |-> v[j]]
  OBVIOUS
<1> QED BY <1>1, <1>2

(* The elements of a concatenation, by the part they come from.             *)
LEMMA JoinTwo ==
  ASSUME NEW T, NEW s \in Seq(T), NEW t \in Seq(T)
  PROVE  /\ s \o t \in Seq(T) /\ Len(s \o t) = Len(s) + Len(t)
         /\ \A j \in 1..Len(s) : (s \o t)[j] = s[j]
         /\ \A j \in 1..Len(t) : (s \o t)[Len(s) + j] = t[j]
<1>1. Len(s) \in Nat /\ Len(t) \in Nat
  OBVIOUS
<1>2. s \o t \in Seq(T) /\ Len(s \o t) = Len(s) + Len(t)
  BY ConcatProperties
<1>3. \A j \in 1..Len(s) + Len(t) : (s \o t)[j] = IF j <= Len(s) THEN s[j] ELSE t[j - Len(s)]
  BY ConcatProperties
<1>4. ASSUME NEW j \in 1..Len(t) PROVE (s \o t)[Len(s) + j] = t[j]
  <2>1. /\ Len(s) + j \in 1..Len(s) + Len(t) /\ ~(Len(s) + j <= Len(s))
        /\ Len(s) + j - Len(s) = j
    BY <1>1
  <2> QED BY <2>1, <1>3
<1>5. ASSUME NEW j \in 1..Len(s) PROVE (s \o t)[j] = s[j]
  <2>1. j \in 1..Len(s) + Len(t) /\ j <= Len(s)
    BY <1>1
  <2> QED BY <2>1, <1>3
<1> QED BY <1>2, <1>4, <1>5

(* The datagram is 43 bytes, none of them a NUL.                            *)
LEMMA DatagramBytes == Datagram \in Seq(Nat \ {0}) /\ Len(Datagram) = 43
<1> DEFINE s == Text(1, 19)
           t == Text(2, 24)
           B == Nat \ {0}
<1>1. [k \in DOMAIN Texts |-> Text(k, Texts[k])] = <<s, t>>
  BY DEF Texts
<1>2. s \in Seq(B) /\ Len(s) = 19
  BY DEF Text, Byte
<1>3. t \in Seq(B) /\ Len(t) = 24
  BY DEF Text, Byte
<1> HIDE DEF s, t, B
<1>4. Datagram = s \o t
  BY <1>1, FlattenTwo DEF Datagram
<1>5. Datagram \in Seq(B) /\ Len(Datagram) = Len(s) + Len(t)
  BY <1>2, <1>3, <1>4, JoinTwo
<1> QED BY <1>2, <1>3, <1>5 DEF B

(* n consecutive numbers from c on.                                         *)
RunFrom(c, n) == [j \in 1..n |-> c + j - 1]

(* RunFrom is a sequence of that length.                                    *)
LEMMA RunFromElements ==
  ASSUME NEW c \in Int, NEW n \in Nat
  PROVE  /\ RunFrom(c, n) \in Seq(Int) /\ Len(RunFrom(c, n)) = n
         /\ \A j \in 1..n : RunFrom(c, n)[j] = c + j - 1
BY DEF RunFrom

(* The addresses of one vector are consecutive.                             *)
LEMMA OneVector ==
  ASSUME NEW b \in Nat, NEW n \in Nat
  PROVE  /\ Len(Addresses(<<Vec(b, n)>>)) = n
         /\ Addresses(<<Vec(b, n)>>) \in Seq(Int)
         /\ \A j \in 1..n : Addresses(<<Vec(b, n)>>)[j] = b + j - 1
<1> DEFINE v == <<Vec(b, n)>>
           s == RunFrom(b, n)
<1>1. DOMAIN v = 1..1 /\ v[1].base = b /\ v[1].len = n
  BY DEF Vec
<1> HIDE DEF v
<1>2. [k \in DOMAIN v |-> [j \in 1..v[k].len |-> v[k].base + j - 1]] = <<s>>
  <2> DEFINE e == [k \in DOMAIN v |-> [j \in 1..v[k].len |-> v[k].base + j - 1]]
  <2>1. e[1] = [j \in 1..n |-> b + j - 1] /\ e = [k \in 1..1 |-> e[k]]
    BY <1>1
  <2>2. s = [j \in 1..n |-> b + j - 1]
    BY DEF RunFrom, Zenon
  <2> HIDE DEF e, s
  <2>3. e[1] = s
    BY <2>1, <2>2
  <2>4. e = <<s>>
    BY <2>1, <2>3
  <2> QED BY <2>4 DEF e
<1>3. s \in Seq(Int) /\ Len(s) = n /\ \A j \in 1..n : s[j] = b + j - 1
  <2>1. b \in Int
    OBVIOUS
  <2> QED BY <2>1, RunFromElements, Zenon
<1> HIDE DEF s
<1>4. Addresses(v) = s
  BY <1>2, FlattenOne DEF Addresses
<1> QED BY <1>3, <1>4 DEF v

(* a counts n numbers up from b, then l numbers up from c.                  *)
TwoRuns(a, b, n, c, l) ==
  /\ a \in Seq(Int) /\ Len(a) = n + l
  /\ \A j \in 1..n : a[j] = b + j - 1
  /\ \A j \in 1..l : a[n + j] = c + j - 1

(* The addresses of two vectors: those of the first come first.             *)
LEMMA TwoVectors ==
  ASSUME NEW b \in Nat, NEW n \in Nat, NEW c \in Nat, NEW l \in Nat
  PROVE  TwoRuns(Addresses(<<Vec(b, n), Vec(c, l)>>), b, n, c, l)
<1> DEFINE v == <<Vec(b, n), Vec(c, l)>>
           s == RunFrom(b, n)
           t == RunFrom(c, l)
<1>1. /\ DOMAIN v = 1..2 /\ v[1].base = b /\ v[1].len = n
      /\ v[2].base = c /\ v[2].len = l
  BY DEF Vec
<1> HIDE DEF v
<1>2. [k \in DOMAIN v |-> [j \in 1..v[k].len |-> v[k].base + j - 1]] = <<s, t>>
  <2> DEFINE e == [k \in DOMAIN v |-> [j \in 1..v[k].len |-> v[k].base + j - 1]]
  <2>1. /\ e[1] = [j \in 1..n |-> b + j - 1] /\ e[2] = [j \in 1..l |-> c + j - 1]
        /\ e = [k \in 1..2 |-> e[k]]
    BY <1>1
  <2>2. s = [j \in 1..n |-> b + j - 1] /\ t = [j \in 1..l |-> c + j - 1]
    BY DEF RunFrom, Zenon
  <2> HIDE DEF e, s, t
  <2>3. e[1] = s /\ e[2] = t
    BY <2>1, <2>2
  <2>4. e = <<s, t>>
    BY <2>1, <2>3
  <2> QED BY <2>4 DEF e
<1>a. b \in Int /\ c \in Int
  OBVIOUS
<1>3. s \in Seq(Int) /\ Len(s) = n /\ \A j \in 1..n : s[j] = b + j - 1
  BY <1>a, RunFromElements, Zenon
<1>4. t \in Seq(Int) /\ Len(t) = l /\ \A j \in 1..l : t[j] = c + j - 1
  BY <1>a, RunFromElements, Zenon
<1> HIDE DEF s, t
<1>5. Addresses(v) = s \o t
  BY <1>2, FlattenTwo DEF Addresses
<1>6. /\ s \o t \in Seq(Int) /\ Len(s \o t) = Len(s) + Len(t)
      /\ \A j \in 1..Len(s) : (s \o t)[j] = s[j]
      /\ \A j \in 1..Len(t) : (s \o t)[Len(s) + j] = t[j]
  <2>1. s \in Seq(Int) /\ t \in Seq(Int)
    BY <1>3, <1>4
  <2> QED BY <2>1, JoinTwo
<1>7. Len(s) = n /\ Len(t) = l
  BY <1>3, <1>4
<1>8. /\ Addresses(v) \in Seq(Int) /\ Len(Addresses(v)) = n + l
      /\ \A j \in 1..n : Addresses(v)[j] = s[j]
      /\ \A j \in 1..l : Addresses(v)[n + j] = t[j]
  BY <1>5, <1>6, <1>7, Zenon
<1>9. /\ \A j \in 1..n : Addresses(v)[j] = b + j - 1
      /\ \A j \in 1..l : Addresses(v)[n + j] = c + j - 1
  BY <1>3, <1>4, <1>8, Zenon
<1> QED BY <1>8, <1>9, Zenon DEF v, TwoRuns

(* The two vectors name the buffers' bytes in order, all but the last of    *)
(* each buffer.                                                             *)
LEMMA VectorAddresses ==
  ASSUME NEW n, n = BUF_SIZE - 1
  PROVE  /\ Addresses(iov) \in Seq(Int) /\ Len(Addresses(iov)) = n + n
         /\ \A j \in 1..n : Addresses(iov)[j] = j
         /\ \A j \in 1..n : Addresses(iov)[n + j] = BUF_SIZE + j
<1>1. BUF_SIZE \in Nat /\ BUF_SIZE >= 23 /\ n \in Nat /\ BUF_SIZE + 1 \in Nat /\ 1 \in Nat
  BY RoomForDatagram DEF NUMBUFS, Texts
<1>2. iov = <<Vec(1, n), Vec(BUF_SIZE + 1, n)>>
  BY <1>1 DEF iov, NUMBUFS
<1>3. TwoRuns(Addresses(iov), 1, n, BUF_SIZE + 1, n)
  BY <1>1, <1>2, TwoVectors
<1>4. ASSUME NEW j \in 1..n
      PROVE  Addresses(iov)[j] = j /\ Addresses(iov)[n + j] = BUF_SIZE + j
  <2>1. /\ Addresses(iov)[j] = 1 + j - 1
        /\ Addresses(iov)[n + j] = BUF_SIZE + 1 + j - 1
    BY <1>3, Zenon DEF TwoRuns
  <2> QED BY <1>1, <2>1
<1> QED BY <1>3, <1>4, Zenon DEF TwoRuns

(* What is printed ends at the first NUL or after n bytes.                  *)
LEMMA PrintedUpTo ==
  ASSUME NEW mem, NEW at \in Nat, NEW n \in Nat, NEW l \in 0..n,
         l = n \/ mem[at + l] = NUL,
         \A j \in 0..n : j < l => mem[at + j] # NUL
  PROVE  Printed(mem, at, n) = SubSeq(mem, at, at + l - 1)
<1> DEFINE stops == {j \in 0..n : j = n \/ mem[at + j] = NUL}
           c == CHOOSE j \in stops : \A k \in stops : j <= k
<1>1. l \in stops /\ \A k \in stops : l <= k
  OBVIOUS
<1>2. c = l
  <2>1. c \in stops /\ \A k \in stops : c <= k
    BY <1>1
  <2> HIDE DEF c
  <2> QED BY <1>1, <2>1
<1> QED BY <1>2 DEF Printed

(* Without a NUL among the first n bytes, all n are printed.                *)
LEMMA PrintedWhole ==
  ASSUME NEW mem, NEW at \in Nat, NEW n \in Nat,
         \A j \in 0..n : j < n => mem[at + j] # NUL
  PROVE  Printed(mem, at, n) = SubSeq(mem, at, at + n - 1)
<1>1. n \in 0..n
  OBVIOUS
<1> QED BY <1>1, PrintedUpTo

(* The receive buffers before recvmsg and after it, and what is printed.    *)
Fresh == [a \in 1..NUMBUFS * BUF_SIZE |-> Junk]
Filled == Scatter(Fresh, iov, Datagram)
Lines == [i \in DOMAIN iov |-> Printed(Filled, iov[i].base, iov[i].len)]

(* recvmsg fills the two buffers with the datagram, skipping the byte that  *)
(* the first vector leaves out, and nothing in them is a NUL.               *)
LEMMA FilledBytes ==
  ASSUME NEW n, n = BUF_SIZE - 1
  PROVE  /\ Filled \in Seq(Int) /\ Len(Filled) = BUF_SIZE + BUF_SIZE
         /\ \A x \in 1..BUF_SIZE + BUF_SIZE : Filled[x] # NUL
         /\ \A j \in 1..n : j <= 43 => Filled[j] = Datagram[j]
         /\ \A j \in 1..n : n + j <= 43 => Filled[BUF_SIZE + j] = Datagram[n + j]
<1> DEFINE a == Addresses(iov)
           D == 1..BUF_SIZE + BUF_SIZE
           moved == {j \in DOMAIN a : j <= Len(Datagram)}
<1>1. BUF_SIZE \in Nat /\ BUF_SIZE >= 23 /\ n \in Nat /\ 43 <= n + n
  BY RoomForDatagram DEF NUMBUFS, Texts
<1>2. /\ DOMAIN a = 1..(n + n)
      /\ \A j \in 1..n : a[j] = j
      /\ \A j \in 1..n : a[n + j] = BUF_SIZE + j
  BY VectorAddresses
<1>3. Len(Datagram) = 43 /\ \A j \in 1..43 : Datagram[j] \in Nat \ {0}
  BY DatagramBytes, ElementOfSeq
<1>4. moved = 1..43
  <2> HIDE DEF a
  <2>1. \A j : j \in 1..(n + n) /\ j <= 43 <=> j \in 1..43
    BY <1>1
  <2> QED BY <1>2, <1>3, <2>1
<1>5. DOMAIN Fresh = D /\ \A x \in D : Fresh[x] = Junk
  BY <1>1 DEF Fresh, NUMBUFS
<1>6. Filled = [x \in D |-> IF \E j \in moved : a[j] = x
                            THEN Datagram[CHOOSE j \in moved : a[j] = x]
                            ELSE Fresh[x]]
  BY <1>5 DEF Filled, Scatter
<1> HIDE DEF a, moved
<1>7. \A j \in 1..43 : a[j] = IF j <= n THEN j ELSE j + 1
  <2>1. ASSUME NEW j \in 1..43, ~(j <= n) PROVE a[j] = j + 1
    <3>1. j - n \in 1..n /\ n + (j - n) = j /\ BUF_SIZE + (j - n) = j + 1
      BY <1>1, <2>1
    <3> QED BY <1>2, <3>1
  <2> QED BY <1>1, <1>2, <2>1
<1>8. ASSUME NEW j \in 1..43, NEW x \in D, a[j] = x
      PROVE  Filled[x] = Datagram[j]
  <2> DEFINE k == CHOOSE i \in moved : a[i] = x
  <2>1. k \in moved /\ a[k] = x
    BY <1>4, <1>8
  <2>2. Filled[x] = Datagram[k]
    BY <1>6, <2>1
  <2> HIDE DEF k
  <2>3. k = j
    BY <1>1, <1>4, <1>7, <1>8, <2>1
  <2> QED BY <2>2, <2>3
<1>9. ASSUME NEW x \in D PROVE Filled[x] \in Int \ {0}
  <2>1. CASE \E j \in moved : a[j] = x
    BY <1>3, <1>4, <1>8, <2>1
  <2>2. CASE ~\E j \in moved : a[j] = x
    BY <1>5, <1>6, <2>2 DEF Junk
  <2> QED BY <2>1, <2>2
<1>10. Filled \in Seq(Int) /\ Len(Filled) = BUF_SIZE + BUF_SIZE
  <2>1. Filled = [x \in D |-> Filled[x]] /\ BUF_SIZE + BUF_SIZE \in Nat
    BY <1>1, <1>6
  <2>2. \A x \in D : Filled[x] \in Int
    BY <1>9
  <2> QED BY <2>1, <2>2
<1>11. ASSUME NEW j \in 1..n, j <= 43 PROVE Filled[j] = Datagram[j]
  <2>1. j \in D /\ j \in 1..43
    BY <1>1, <1>11
  <2> QED BY <1>2, <1>8, <2>1
<1>12. ASSUME NEW j \in 1..n, n + j <= 43 PROVE Filled[BUF_SIZE + j] = Datagram[n + j]
  <2>1. BUF_SIZE + j \in D /\ n + j \in 1..43
    BY <1>1, <1>12
  <2> QED BY <1>2, <1>8, <2>1
<1> QED BY <1>9, <1>10, <1>11, <1>12 DEF NUL

(* The lines printed from the buffers start with the whole datagram.        *)
LEMMA LinesWhole == IsPrefix(Datagram, FlattenSeq(Lines))
<1> DEFINE n == BUF_SIZE - 1
           s == SubSeq(Filled, 1, n)
           t == SubSeq(Filled, BUF_SIZE + 1, BUF_SIZE + n)
<1>1. BUF_SIZE \in Nat /\ BUF_SIZE >= 23 /\ n \in Nat /\ 43 <= n + n
  BY RoomForDatagram DEF NUMBUFS, Texts
<1>2. /\ DOMAIN iov = 1..2
      /\ iov[1].base = 1 /\ iov[1].len = n
      /\ iov[2].base = BUF_SIZE + 1 /\ iov[2].len = n
  BY <1>1 DEF iov, NUMBUFS, Vec
<1>3. /\ Filled \in Seq(Int) /\ Len(Filled) = BUF_SIZE + BUF_SIZE
      /\ \A x \in 1..BUF_SIZE + BUF_SIZE : Filled[x] # NUL
      /\ \A j \in 1..n : j <= 43 => Filled[j] = Datagram[j]
      /\ \A j \in 1..n : n + j <= 43 => Filled[BUF_SIZE + j] = Datagram[n + j]
  BY FilledBytes
<1>4. Printed(Filled, 1, n) = s
  <2>1. \A j \in 0..n : j < n => Filled[1 + j] # NUL
    BY <1>1, <1>3
  <2>2. Printed(Filled, 1, n) = SubSeq(Filled, 1, 1 + n - 1)
    BY <1>1, <2>1, PrintedWhole
  <2> QED BY <1>1, <2>2
<1>5. Printed(Filled, BUF_SIZE + 1, n) = t
  <2>1. \A j \in 0..n : j < n => Filled[(BUF_SIZE + 1) + j] # NUL
    <3>1. ASSUME NEW j \in 0..n, j < n
          PROVE  (BUF_SIZE + 1) + j \in 1..BUF_SIZE + BUF_SIZE
      BY <1>1, <3>1
    <3> QED BY <1>3, <3>1
  <2>2. BUF_SIZE + 1 \in Nat /\ BUF_SIZE + 1 + n - 1 = BUF_SIZE + n
    BY <1>1
  <2>3. Printed(Filled, BUF_SIZE + 1, n) = SubSeq(Filled, BUF_SIZE + 1, BUF_SIZE + 1 + n - 1)
    BY <1>1, <2>1, <2>2, PrintedWhole
  <2> QED BY <2>2, <2>3
<1>6. s \in Seq(Int) /\ Len(s) = n /\ \A j \in 1..n : s[j] = Filled[j]
  BY <1>1, <1>3
<1>7. t \in Seq(Int) /\ Len(t) = n /\ \A j \in 1..n : t[j] = Filled[BUF_SIZE + j]
  BY <1>1, <1>3
<1>8. Lines = <<s, t>>
  <2>1. Lines = [i \in 1..2 |-> Lines[i]]
    BY <1>2 DEF Lines
  <2>2. Lines[1] = s /\ Lines[2] = t
    BY <1>2, <1>4, <1>5 DEF Lines
  <2> HIDE DEF s, t
  <2> QED BY <2>1, <2>2
<1> DEFINE f == FlattenSeq(Lines)
<1> HIDE DEF n, s, t
<1>9. f = s \o t
  BY <1>8, FlattenTwo
<1>10. /\ s \o t \in Seq(Int) /\ Len(s \o t) = Len(s) + Len(t)
       /\ \A j \in 1..Len(s) : (s \o t)[j] = s[j]
       /\ \A j \in 1..Len(t) : (s \o t)[Len(s) + j] = t[j]
  <2>1. s \in Seq(Int) /\ t \in Seq(Int)
    BY <1>6, <1>7
  <2> QED BY <2>1, JoinTwo
<1> HIDE DEF f
<1>11. /\ f \in Seq(Int) /\ Len(f) = n + n
       /\ \A j \in 1..n : f[j] = s[j]
       /\ \A j \in 1..n : f[n + j] = t[j]
  <2>1. Len(s) = n /\ Len(t) = n
    BY <1>6, <1>7
  <2> QED BY <1>9, <1>10, <2>1, Zenon
<1>12. ASSUME NEW j \in 1..43 PROVE f[j] = Datagram[j]
  <2>1. CASE j <= n
    BY <1>1, <1>3, <1>6, <1>11, <2>1
  <2>2. CASE ~(j <= n)
    <3>1. j - n \in 1..n /\ n + (j - n) = j
      BY <1>1, <2>2
    <3>2. f[n + (j - n)] = Filled[BUF_SIZE + (j - n)]
      BY <1>7, <1>11, <3>1
    <3>3. Filled[BUF_SIZE + (j - n)] = Datagram[n + (j - n)]
      BY <1>3, <3>1
    <3> QED BY <3>1, <3>2, <3>3
  <2> QED BY <2>1, <2>2
<1>13. Datagram \in Seq(Int) /\ Len(Datagram) = 43
  BY DatagramBytes
<1>14. SubSeq(Datagram, 1, 43) = SubSeq(f, 1, 43)
  <2>1. 43 <= Len(f) /\ 43 <= Len(Datagram) /\ 43 \in Nat
    BY <1>1, <1>11, <1>13
  <2>2. f \in Seq(Int) /\ Datagram \in Seq(Int)
    BY <1>11, <1>13
  <2> QED BY <1>12, <2>1, <2>2, SamePrefix
<1> QED BY <1>1, <1>11, <1>13, <1>14 DEF IsPrefix, f

-----------------------------------------------------------------------------
(* recvmsg.c.  The socket's queue holds nothing but copies of the datagram, *)
(* the buffers are fresh until recvmsg returns one, and filled after it.    *)
DatagramInv ==
  /\ \A k \in 1..Len(inbox) : inbox[k] = Datagram
  /\ inbox \in Seq(Seq(Nat \ {0}))
  /\ rpc \in {"none", "socket", "bind", "recvmsg"} => rbuf = Fresh
  /\ rpc = "print" => rbuf = Filled
  /\ printed \in {<<>>, Lines}
  /\ mpc = "recv_create" => rpc = "none"

(* Nothing is queued and the buffers are fresh at the start.                *)
LEMMA DatagramInitial == DatagramInit => DatagramInv
BY DEF DatagramInit, DatagramInv, Fresh

(* Every step of main, of the receiver and of the sender keeps this.        *)
LEMMA DatagramStep ==
  ASSUME DatagramInv, [DatagramNext]_datagram_vars
  PROVE  DatagramInv'
<1> USE DEF DatagramInv
<1>1. CASE RecvSocket
  BY <1>1 DEF RecvSocket
<1>2. CASE RecvBind
  BY <1>2 DEF RecvBind
<1>3. CASE RecvMsg
  <2>1. Head(inbox) = Datagram /\ rbuf' = Filled
    BY <1>3 DEF RecvMsg, Filled
  <2>2. inbox' \in Seq(Seq(Nat \ {0})) /\ \A k \in 1..Len(inbox') : inbox'[k] = Datagram
    <3> DEFINE B == Seq(Nat \ {0})
    <3> HIDE DEF B
    <3>1. inbox \in Seq(B) /\ inbox # <<>> /\ inbox' = Tail(inbox)
      BY <1>3 DEF RecvMsg, B
    <3>2. inbox' \in Seq(B) /\ \A k \in 1..Len(inbox') : inbox'[k] = Datagram
      BY <3>1
    <3> QED BY <3>2 DEF B
  <2> QED BY <1>3, <2>1, <2>2 DEF RecvMsg
<1>4. CASE RecvFails
  BY <1>4 DEF RecvFails
<1>5. CASE RecvPrint
  BY <1>5 DEF RecvPrint, Lines
<1>6. CASE SenderSends
  <2>1. inbox' \in Seq(Seq(Nat \ {0})) /\ \A k \in 1..Len(inbox') : inbox'[k] = Datagram
    <3> DEFINE B == Seq(Nat \ {0})
    <3>1. Datagram \in B
      BY DatagramBytes
    <3> HIDE DEF B
    <3>2. inbox \in Seq(B) /\ inbox' = Append(inbox, Datagram)
      BY <1>6 DEF SenderSends, B
    <3>3. inbox' \in Seq(B) /\ \A k \in 1..Len(inbox') : inbox'[k] = Datagram
      BY <3>1, <3>2
    <3> QED BY <3>3 DEF B
  <2> QED BY <1>6, <2>1 DEF SenderSends
<1>7. CASE SenderSocket \/ SenderLoses
  BY <1>7 DEF SenderSocket, SenderLoses
<1>8. CASE CreateReceiver
  BY <1>8 DEF CreateReceiver
<1>9. CASE CreateSender \/ Joins
  BY <1>9 DEF CreateSender, Joins
<1>10. CASE UNCHANGED datagram_vars
  BY <1>10 DEF datagram_vars
<1> QED
  BY <1>1, <1>2, <1>3, <1>4, <1>5, <1>6, <1>7, <1>8, <1>9, <1>10
  DEF DatagramNext, DatagramMain, Receiver, Sender

(* What recvmsg.c prints starts with the whole datagram, for every buffer   *)
(* size with room for it: wherever the datagram crosses from one buffer to  *)
(* the next, however main, sender and receiver interleave, and whichever    *)
(* calls fail.                                                              *)
THEOREM DatagramReceivedWhole == Spec => []ReceivedWhole
<1>1. Init => DatagramInv
  BY DatagramInitial DEF Init
<1>2. DatagramInv /\ [Next]_vars => DatagramInv'
  BY DatagramStep DEF Next, vars, RunsDemo, RunsReceiver, RunsPrctl, Running
<1>3. DatagramInv => ReceivedWhole
  BY LinesWhole DEF DatagramInv, ReceivedWhole
<1> QED BY <1>1, <1>2, <1>3, PTL DEF Spec

-----------------------------------------------------------------------------
(* iovec_demo.c.                                                            *)

(* The demo that runs, by its number.                                       *)
LEMMA NowIs ==
  /\ demo = 1 => Now = ReadvWritev
  /\ demo = 2 => Now = PreadvPwritev
  /\ demo = 3 => Now = SendmsgRecvmsg
  /\ demo = 4 => Now = SendmmsgRecvmmsg
  /\ demo = 5 => Now = Vmsplice
  /\ demo = 6 => Now = ProcessVmReadv
  /\ demo = 7 => Now = ProcessVmWritev
BY DEF Now, Demos

(* The folds of one and of two lengths.                                     *)
LEMMA TotalOne ==
  ASSUME NEW q, NEW a \in Nat, DOMAIN q = {1}, q[1] = a
  PROVE  Total(q) = a
<1> DEFINE D(e) == [s \in SUBSET DOMAIN q |->
                      IF s = {} THEN 0
                      ELSE q[CHOOSE x \in s : TRUE] + e[s \ {CHOOSE x \in s : TRUE}]]
           g == [s \in SUBSET {1} |-> IF s = {} THEN 0 ELSE a]
           h == CHOOSE e : e = D(e)
<1>1. \A s \in SUBSET {1} : s = {} \/ s = {1}
  OBVIOUS
<1>2. (CHOOSE x \in {1} : TRUE) = 1 /\ {1} \ {1} = {}
  OBVIOUS
<1>3. g = D(g)
  <2>1. g[{}] = 0 /\ g[{1}] = a /\ D(g)[{}] = 0 /\ D(g)[{1}] = a + 0
    BY <1>2
  <2>2. \A s \in SUBSET {1} : g[s] = D(g)[s]
    <3> HIDE DEF g, D
    <3>1. a + 0 = a
      OBVIOUS
    <3> QED BY <1>1, <2>1, <3>1, Zenon
  <2>3. g = [s \in SUBSET {1} |-> g[s]] /\ D(g) = [s \in SUBSET {1} |-> D(g)[s]]
    OBVIOUS
  <2> HIDE DEF g, D
  <2> QED BY <2>2, <2>3
<1>4. h = D(h)
  BY <1>3
<1>5. Total(q) = h[DOMAIN q]
  BY DEF Total, FoldSeq, FoldFunction, FoldFunctionOnSet, MapThenFoldSet
<1> HIDE DEF h
<1>6. h[{}] = 0
  BY <1>4
<1>7. h[{1}] = a + 0
  BY <1>4, <1>6, <1>2
<1> QED BY <1>5, <1>7

(* The sum of two lengths.                                                  *)
LEMMA TotalTwo ==
  ASSUME NEW q, NEW a \in Nat, NEW b \in Nat, DOMAIN q = {1, 2}, q[1] = a, q[2] = b
  PROVE  Total(q) = a + b
<1> DEFINE D(e) == [s \in SUBSET DOMAIN q |->
                      IF s = {} THEN 0
                      ELSE q[CHOOSE x \in s : TRUE] + e[s \ {CHOOSE x \in s : TRUE}]]
           c == CHOOSE x \in {1, 2} : TRUE
           g == [s \in SUBSET {1, 2} |->
                   IF s = {} THEN 0 ELSE IF s = {1} THEN a ELSE IF s = {2} THEN b ELSE a + b]
           h == CHOOSE e : e = D(e)
<1>1. \A s \in SUBSET {1, 2} : s = {} \/ s = {1} \/ s = {2} \/ s = {1, 2}
  OBVIOUS
<1>2. /\ (CHOOSE x \in {1} : TRUE) = 1 /\ {1} \ {1} = {}
      /\ (CHOOSE x \in {2} : TRUE) = 2 /\ {2} \ {2} = {}
      /\ {1, 2} \ {1} = {2} /\ {1, 2} \ {2} = {1} /\ c \in {1, 2}
  OBVIOUS
<1> HIDE DEF c
<1>3. g = D(g)
  <2>1. g[{}] = 0 /\ g[{1}] = a /\ g[{2}] = b /\ g[{1, 2}] = a + b
    OBVIOUS
  <2>2. D(g)[{}] = 0 /\ D(g)[{1}] = a + 0 /\ D(g)[{2}] = b + 0
    BY <1>2, <2>1
  <2>3. D(g)[{1, 2}] = q[c] + g[{1, 2} \ {c}]
    BY <1>2 DEF c
  <2>4. D(g)[{1, 2}] = a + b /\ a + 0 = a /\ b + 0 = b
    BY <1>2, <2>3, <2>1
  <2>5. g = [s \in SUBSET {1, 2} |-> g[s]] /\ D(g) = [s \in SUBSET {1, 2} |-> D(g)[s]]
    OBVIOUS
  <2> HIDE DEF g, D
  <2>6. ASSUME NEW s \in SUBSET {1, 2} PROVE g[s] = D(g)[s]
    <3>1. s = {} \/ s = {1} \/ s = {2} \/ s = {1, 2}
      BY <1>1
    <3>2. s = {} => g[s] = D(g)[s]
      BY <2>1, <2>2, <2>4, Zenon
    <3>3. s = {1} => g[s] = D(g)[s]
      BY <2>1, <2>2, <2>4, Zenon
    <3>4. s = {2} => g[s] = D(g)[s]
      BY <2>1, <2>2, <2>4, Zenon
    <3>5. s = {1, 2} => g[s] = D(g)[s]
      BY <2>1, <2>2, <2>4, Zenon
    <3> QED BY <3>1, <3>2, <3>3, <3>4, <3>5, Zenon
  <2> QED BY <2>5, <2>6
<1>4. h = D(h)
  BY <1>3
<1>5. Total(q) = h[DOMAIN q]
  BY DEF Total, FoldSeq, FoldFunction, FoldFunctionOnSet, MapThenFoldSet
<1> HIDE DEF h
<1>6. h[{}] = 0
  BY <1>4
<1>7. h[{1}] = a + 0 /\ h[{2}] = b + 0
  BY <1>4, <1>6, <1>2
<1>8. h[{1, 2}] = q[c] + h[{1, 2} \ {c}]
  BY <1>4, <1>2 DEF c
<1>9. h[{1, 2}] = a + b
  BY <1>2, <1>7, <1>8
<1> QED BY <1>5, <1>9

(* One message is scattered into its vectors.                               *)
LEMMA ScatterAllOne ==
  ASSUME NEW mem, NEW into, NEW data, DOMAIN data = {1}
  PROVE  ScatterAll(mem, into, data) = Scatter(mem, into[1], data[1])
<1> DEFINE q == [m \in DOMAIN data |-> m]
           Op(m, b) == Scatter(b, into[m], data[m])
           D(e) == [s \in SUBSET DOMAIN q |->
                      IF s = {} THEN mem
                      ELSE Op(q[CHOOSE x \in s : TRUE], e[s \ {CHOOSE x \in s : TRUE}])]
           g == [s \in SUBSET {1} |-> IF s = {} THEN mem ELSE Op(1, mem)]
           h == CHOOSE e : e = D(e)
<1>1. \A s \in SUBSET {1} : s = {} \/ s = {1}
  OBVIOUS
<1>2. (CHOOSE x \in {1} : TRUE) = 1 /\ {1} \ {1} = {} /\ DOMAIN q = {1} /\ q[1] = 1
  OBVIOUS
<1>5. ScatterAll(mem, into, data) = h[DOMAIN q]
  BY DEF ScatterAll, FoldSeq, FoldFunction, FoldFunctionOnSet, MapThenFoldSet
<1> HIDE DEF q, Op
<1>3. g = D(g)
  <2>1. g[{}] = mem /\ g[{1}] = Op(1, mem)
    OBVIOUS
  <2>2. D(g)[{}] = mem /\ D(g)[{1}] = Op(1, mem)
    BY <1>2, <2>1
  <2>3. g = [s \in SUBSET {1} |-> g[s]] /\ D(g) = [s \in SUBSET {1} |-> D(g)[s]]
    BY <1>2
  <2> HIDE DEF g, D
  <2>4. \A s \in SUBSET {1} : g[s] = D(g)[s]
    BY <1>1, <2>1, <2>2, Zenon
  <2> QED BY <2>3, <2>4
<1>4. h = D(h)
  BY <1>3
<1> HIDE DEF h
<1>6. h[{}] = mem
  BY <1>4
<1>7. h[{1}] = Op(1, mem)
  BY <1>4, <1>6, <1>2
<1> QED BY <1>5, <1>7, <1>2 DEF Op

(* Two messages are scattered into their vectors, in one order or the other. *)
LEMMA ScatterAllTwo ==
  ASSUME NEW mem, NEW into, NEW data, DOMAIN data = {1, 2}
  PROVE  \/ ScatterAll(mem, into, data)
              = Scatter(Scatter(mem, into[1], data[1]), into[2], data[2])
         \/ ScatterAll(mem, into, data)
              = Scatter(Scatter(mem, into[2], data[2]), into[1], data[1])
<1> DEFINE q == [m \in DOMAIN data |-> m]
           Op(m, b) == Scatter(b, into[m], data[m])
           D(e) == [s \in SUBSET DOMAIN q |->
                      IF s = {} THEN mem
                      ELSE Op(q[CHOOSE x \in s : TRUE], e[s \ {CHOOSE x \in s : TRUE}])]
           c == CHOOSE x \in {1, 2} : TRUE
           both == IF c = 1 THEN Op(1, Op(2, mem)) ELSE Op(2, Op(1, mem))
           g == [s \in SUBSET {1, 2} |->
                   IF s = {} THEN mem ELSE IF s = {1} THEN Op(1, mem)
                   ELSE IF s = {2} THEN Op(2, mem) ELSE both]
           h == CHOOSE e : e = D(e)
<1>1. \A s \in SUBSET {1, 2} : s = {} \/ s = {1} \/ s = {2} \/ s = {1, 2}
  OBVIOUS
<1>2. /\ (CHOOSE x \in {1} : TRUE) = 1 /\ {1} \ {1} = {}
      /\ (CHOOSE x \in {2} : TRUE) = 2 /\ {2} \ {2} = {}
      /\ {1, 2} \ {1} = {2} /\ {1, 2} \ {2} = {1} /\ c \in {1, 2}
      /\ DOMAIN q = {1, 2} /\ q[1] = 1 /\ q[2] = 2
  OBVIOUS
<1>3. ScatterAll(mem, into, data) = h[DOMAIN q]
  BY DEF ScatterAll, FoldSeq, FoldFunction, FoldFunctionOnSet, MapThenFoldSet
<1> HIDE DEF c, q, Op
<1>4. g = D(g)
  <2>1. g[{}] = mem /\ g[{1}] = Op(1, mem) /\ g[{2}] = Op(2, mem) /\ g[{1, 2}] = both
    OBVIOUS
  <2>2. D(g)[{}] = mem /\ D(g)[{1}] = Op(1, mem) /\ D(g)[{2}] = Op(2, mem)
    BY <1>2, <2>1
  <2>3. D(g)[{1, 2}] = Op(q[c], g[{1, 2} \ {c}])
    BY <1>2 DEF c
  <2>4. D(g)[{1, 2}] = both
    BY <1>2, <2>3, <2>1
  <2>5. g = [s \in SUBSET {1, 2} |-> g[s]] /\ D(g) = [s \in SUBSET {1, 2} |-> D(g)[s]]
    BY <1>2
  <2> HIDE DEF g, D
  <2>6. ASSUME NEW s \in SUBSET {1, 2} PROVE g[s] = D(g)[s]
    <3>1. s = {} \/ s = {1} \/ s = {2} \/ s = {1, 2}
      BY <1>1
    <3>2. s = {} => g[s] = D(g)[s]
      BY <2>1, <2>2, <2>4, Zenon
    <3>3. s = {1} => g[s] = D(g)[s]
      BY <2>1, <2>2, <2>4, Zenon
    <3>4. s = {2} => g[s] = D(g)[s]
      BY <2>1, <2>2, <2>4, Zenon
    <3>5. s = {1, 2} => g[s] = D(g)[s]
      BY <2>1, <2>2, <2>4, Zenon
    <3> QED BY <3>1, <3>2, <3>3, <3>4, <3>5, Zenon
  <2> QED BY <2>5, <2>6
<1>5. h = D(h)
  BY <1>4
<1> HIDE DEF h
<1>6. h[{}] = mem
  BY <1>5
<1>7. h[{1}] = Op(1, mem) /\ h[{2}] = Op(2, mem)
  BY <1>5, <1>6, <1>2
<1>8. h[{1, 2}] = Op(q[c], h[{1, 2} \ {c}])
  BY <1>5, <1>2 DEF c
<1>9. h[{1, 2}] = Op(1, Op(2, mem)) \/ h[{1, 2}] = Op(2, Op(1, mem))
  BY <1>2, <1>7, <1>8
<1> QED BY <1>2, <1>3, <1>9 DEF Op

(* How many messages the demo passes, the length of each, and the buffer    *)
(* position its first byte goes to.                                         *)
NumMessages == IF demo = 4 THEN 2 ELSE 1
Bytes == IF demo \in {1, 2} THEN 20 ELSE IF demo = 3 THEN 13 ELSE IF demo = 4 THEN 21
         ELSE IF demo = 5 THEN 17 ELSE IF demo = 6 THEN 18 ELSE 28
Offset(m) == 64 * (m - 1)

(* The lengths of the demos' messages.                                      *)
LEMMA DemoLengths ==
  ASSUME demo \in 1..7
  PROVE  /\ Len(Now.texts) = NumMessages /\ Len(Now.into) = NumMessages
         /\ \A m \in 1..NumMessages : Total(Now.texts[m]) = Bytes
<1>1. CASE demo = 1
  <2>1. Now.texts = <<<<7, 13>>>> /\ Len(Now.into) = 1
    BY NowIs, <1>1 DEF ReadvWritev
  <2>2. DOMAIN <<7, 13>> = {1, 2} /\ <<7, 13>>[1] = 7 /\ <<7, 13>>[2] = 13
    OBVIOUS
  <2>3. Total(<<7, 13>>) = 7 + 13
    BY <2>2, TotalTwo
  <2>4. NumMessages = 1 /\ Bytes = 7 + 13
    BY <1>1 DEF NumMessages, Bytes
  <2> QED BY <2>1, <2>3, <2>4
<1>2. CASE demo = 2
  <2>1. Now.texts = <<<<10, 10>>>> /\ Len(Now.into) = 1
    BY NowIs, <1>2 DEF PreadvPwritev
  <2>2. DOMAIN <<10, 10>> = {1, 2} /\ <<10, 10>>[1] = 10 /\ <<10, 10>>[2] = 10
    OBVIOUS
  <2>3. Total(<<10, 10>>) = 10 + 10
    BY <2>2, TotalTwo
  <2>4. NumMessages = 1 /\ Bytes = 10 + 10
    BY <1>2 DEF NumMessages, Bytes
  <2> QED BY <2>1, <2>3, <2>4
<1>3. CASE demo = 3
  <2>1. Now.texts = <<<<7, 6>>>> /\ Len(Now.into) = 1
    BY NowIs, <1>3 DEF SendmsgRecvmsg
  <2>2. DOMAIN <<7, 6>> = {1, 2} /\ <<7, 6>>[1] = 7 /\ <<7, 6>>[2] = 6
    OBVIOUS
  <2>3. Total(<<7, 6>>) = 7 + 6
    BY <2>2, TotalTwo
  <2>4. NumMessages = 1 /\ Bytes = 7 + 6
    BY <1>3 DEF NumMessages, Bytes
  <2> QED BY <2>1, <2>3, <2>4
<1>4. CASE demo = 4
  <2>1. Now.texts = <<<<11, 10>>, <<11, 10>>>> /\ Len(Now.into) = 2
    BY NowIs, <1>4 DEF SendmmsgRecvmmsg
  <2>2. DOMAIN <<11, 10>> = {1, 2} /\ <<11, 10>>[1] = 11 /\ <<11, 10>>[2] = 10
    OBVIOUS
  <2>3. Total(<<11, 10>>) = 11 + 10
    BY <2>2, TotalTwo
  <2>4. NumMessages = 2 /\ Bytes = 11 + 10
    BY <1>4 DEF NumMessages, Bytes
  <2> QED BY <2>1, <2>3, <2>4
<1>5. CASE demo = 5
  <2>1. Now.texts = <<<<17>>>> /\ Len(Now.into) = 1
    BY NowIs, <1>5 DEF Vmsplice
  <2>2. DOMAIN <<17>> = {1} /\ <<17>>[1] = 17
    OBVIOUS
  <2>3. Total(<<17>>) = 17
    BY <2>2, TotalOne
  <2>4. NumMessages = 1 /\ Bytes = 17
    BY <1>5 DEF NumMessages, Bytes
  <2> QED BY <2>1, <2>3, <2>4
<1>6. CASE demo = 6
  <2>1. Now.texts = <<<<18>>>> /\ Len(Now.into) = 1
    BY NowIs, <1>6 DEF ProcessVmReadv
  <2>2. DOMAIN <<18>> = {1} /\ <<18>>[1] = 18
    OBVIOUS
  <2>3. Total(<<18>>) = 18
    BY <2>2, TotalOne
  <2>4. NumMessages = 1 /\ Bytes = 18
    BY <1>6 DEF NumMessages, Bytes
  <2> QED BY <2>1, <2>3, <2>4
<1>7. CASE demo = 7
  <2>1. Now.texts = <<<<28>>>> /\ Len(Now.into) = 1
    BY NowIs, <1>7 DEF ProcessVmWritev
  <2>2. DOMAIN <<28>> = {1} /\ <<28>>[1] = 28
    OBVIOUS
  <2>3. Total(<<28>>) = 28
    BY <2>2, TotalOne
  <2>4. NumMessages = 1 /\ Bytes = 28
    BY <1>7 DEF NumMessages, Bytes
  <2> QED BY <2>1, <2>3, <2>4
<1> QED BY <1>1, <1>2, <1>3, <1>4, <1>5, <1>6, <1>7

(* The first l bytes that v names are consecutive, from the one after off.  *)
Onto(v, off, l) ==
  /\ Addresses(v) \in Seq(Int) /\ l <= Len(Addresses(v))
  /\ \A j \in 1..l : Addresses(v)[j] = off + j

(* mem after data was written to it, from the byte after off on.            *)
Written(mem, off, data) ==
  [x \in DOMAIN mem |-> IF x - off \in 1..Len(data) THEN data[x - off] ELSE mem[x]]

(* Every message goes to consecutive bytes, from its offset on.             *)
LEMMA DemoAddresses ==
  ASSUME demo \in 1..7, NEW m \in 1..NumMessages
  PROVE  Onto(Now.into[m], Offset(m), Bytes)
<1> DEFINE a == Addresses(Now.into[m])
<1> SUFFICES /\ a \in Seq(Int) /\ Bytes <= Len(a)
             /\ \A j \in 1..Bytes : a[j] = Offset(m) + j
  BY DEF Onto
<1>1. CASE demo = 1
  <2>1. Now.into[m] = <<Vec(1, 7), Vec(8, 57)>> /\ Bytes = 20 /\ m = 1
    BY NowIs, <1>1 DEF ReadvWritev, NumMessages, Bytes
  <2>2. TwoRuns(Addresses(<<Vec(1, 7), Vec(8, 57)>>), 1, 7, 8, 57)
    BY TwoVectors
  <2>3. TwoRuns(a, 1, 7, 8, 57)
    BY <2>1, <2>2
  <2> HIDE DEF a
  <2>4. ASSUME NEW j \in 1..20, ~(j <= 7) PROVE a[j] = j
    <3>1. j - 7 \in 1..57 /\ 7 + (j - 7) = j /\ 8 + (j - 7) - 1 = j
      BY <2>4
    <3> QED BY <2>3, <3>1 DEF TwoRuns
  <2>5. \A j \in 1..20 : a[j] = j
    <3>1. ASSUME NEW j \in 1..20, j <= 7 PROVE a[j] = j
      <4>1. j \in 1..7 /\ 1 + j - 1 = j
        BY <3>1
      <4>2. a[j] = 1 + j - 1
        BY <2>3, <4>1, Zenon DEF TwoRuns
      <4> QED BY <4>1, <4>2
    <3> QED BY <2>4, <3>1
  <2> QED BY <2>1, <2>3, <2>5 DEF Offset, TwoRuns
<1>2. CASE demo = 2
  <2>1. Now.into[m] = <<Vec(1, 31), Vec(33, 31)>> /\ Bytes = 20 /\ m = 1
    BY NowIs, <1>2 DEF PreadvPwritev, NumMessages, Bytes
  <2>2. TwoRuns(Addresses(<<Vec(1, 31), Vec(33, 31)>>), 1, 31, 33, 31)
    BY TwoVectors
  <2>3. TwoRuns(a, 1, 31, 33, 31)
    BY <2>1, <2>2
  <2> HIDE DEF a
  <2> QED BY <2>1, <2>3 DEF Offset, TwoRuns
<1>3. CASE demo = 3
  <2>1. Now.into[m] = <<Vec(1, 32), Vec(33, 32)>> /\ Bytes = 13 /\ m = 1
    BY NowIs, <1>3 DEF SendmsgRecvmsg, NumMessages, Bytes
  <2>2. TwoRuns(Addresses(<<Vec(1, 32), Vec(33, 32)>>), 1, 32, 33, 32)
    BY TwoVectors
  <2>3. TwoRuns(a, 1, 32, 33, 32)
    BY <2>1, <2>2
  <2> HIDE DEF a
  <2> QED BY <2>1, <2>3 DEF Offset, TwoRuns
<1>4. CASE demo \in 4..7
  <2>1. Bytes <= 64 /\ Bytes \in Nat /\ Offset(m) + 1 \in Nat /\ 64 \in Nat
    BY <1>4 DEF Bytes, Offset, NumMessages
  <2>2. Now.into[m] = <<Vec(Offset(m) + 1, 64)>>
    <3>1. CASE demo = 4
      <4>1. m \in {1, 2}
        BY <3>1 DEF NumMessages
      <4>2. Now.into = <<<<Vec(1, 64)>>, <<Vec(65, 64)>>>>
        BY NowIs, <3>1 DEF SendmmsgRecvmmsg
      <4> QED BY <4>1, <4>2 DEF Offset
    <3>2. CASE demo = 5
      BY NowIs, <3>2 DEF Vmsplice, NumMessages, Offset
    <3>3. CASE demo = 6
      BY NowIs, <3>3 DEF ProcessVmReadv, NumMessages, Offset
    <3>4. CASE demo = 7
      BY NowIs, <3>4 DEF ProcessVmWritev, NumMessages, Offset
    <3> QED BY <1>4, <3>1, <3>2, <3>3, <3>4
  <2>3. /\ a \in Seq(Int) /\ Len(a) = 64
        /\ \A j \in 1..64 : a[j] = (Offset(m) + 1) + j - 1
    <3> DEFINE v == <<Vec(Offset(m) + 1, 64)>>
    <3>1. /\ Addresses(v) \in Seq(Int) /\ Len(Addresses(v)) = 64
          /\ \A j \in 1..64 : Addresses(v)[j] = (Offset(m) + 1) + j - 1
      BY <2>1, OneVector, Zenon
    <3> HIDE DEF v, a
    <3>2. a = Addresses(v)
      BY <2>2 DEF v, a
    <3> QED BY <3>1, <3>2, Zenon
  <2> HIDE DEF a
  <2>4. \A j \in 1..Bytes : j \in 1..64 /\ (Offset(m) + 1) + j - 1 = Offset(m) + j
    BY <2>1 DEF Offset, NumMessages
  <2> QED BY <2>1, <2>3, <2>4
<1> QED BY <1>1, <1>2, <1>3, <1>4

(* Scattering over consecutive bytes replaces those and no others.          *)
LEMMA ScatterRun ==
  ASSUME NEW mem, NEW v, NEW data, NEW off \in Nat, Len(data) \in Nat,
         DOMAIN mem \subseteq Nat, Onto(v, off, Len(data))
  PROVE  Scatter(mem, v, data) = Written(mem, off, data)
<1> DEFINE a == Addresses(v)
           moved == {j \in DOMAIN a : j <= Len(data)}
           S == Scatter(mem, v, data)
           L == Len(data)
<1>1. moved = 1..L
  <2> HIDE DEF a
  <2>1. a \in Seq(Int) /\ L <= Len(a) /\ DOMAIN a = 1..Len(a) /\ Len(a) \in Nat
    BY DEF a, Onto
  <2> HIDE DEF L
  <2>2. L \in Nat /\ moved = {j \in DOMAIN a : j <= L}
    BY DEF L
  <2>3. \A j : j \in 1..Len(a) /\ j <= L <=> j \in 1..L
    BY <2>1, <2>2
  <2> HIDE DEF moved
  <2>4. \A j : j \in moved <=> j \in 1..L
    BY <2>1, <2>2, <2>3, Zenon
  <2> QED BY <2>4, Zenon
<1>2. S = [x \in DOMAIN mem |-> IF \E j \in moved : a[j] = x
                          THEN data[CHOOSE j \in moved : a[j] = x] ELSE mem[x]]
  BY DEF Scatter
<1> HIDE DEF moved, a, S, L
<1>3. \A j \in moved : a[j] = off + j
  BY <1>1 DEF a, L, Onto
<1>a. L \in Nat /\ off \in Nat
  BY DEF L
<1>4. ASSUME NEW x \in DOMAIN mem
      PROVE  S[x] = IF x - off \in 1..L THEN data[x - off] ELSE mem[x]
  <2>1. CASE x - off \in 1..L
    <3>1. x - off \in moved /\ a[x - off] = x
      BY <1>1, <1>3, <1>a, <2>1
    <3> DEFINE k == CHOOSE j \in moved : a[j] = x
    <3>2. k \in moved /\ a[k] = x
      BY <3>1
    <3>3. S[x] = data[k]
      BY <1>2, <3>1
    <3> HIDE DEF k
    <3>4. k = x - off
      BY <1>1, <1>3, <1>a, <3>2
    <3> QED BY <2>1, <3>3, <3>4
  <2>2. CASE ~(x - off \in 1..L)
    <3>1. ~\E j \in moved : a[j] = x
      BY <1>1, <1>3, <1>a, <2>2
    <3> QED BY <1>2, <2>2, <3>1
  <2> QED BY <2>1, <2>2
<1>5. S = [x \in DOMAIN mem |-> S[x]]
  BY <1>2
<1> QED BY <1>4, <1>5 DEF S, L, Written

(* The demos' initialisers, and which calls may fail without ending it.     *)
LEMMA DemoFlags ==
  ASSUME demo \in 1..7
  PROVE  /\ (Now.nul <=> demo = 6)
         /\ Now.fresh = IF demo \in {2, 6} THEN NUL ELSE IF demo = 7 THEN Kept ELSE Junk
         /\ (Now.fatal <=> demo <= 5)
<1>1. CASE demo = 1
  <2>1. Now = ReadvWritev
    BY NowIs, <1>1
  <2>2. ReadvWritev.nul = FALSE /\ ReadvWritev.fresh = Junk /\ ReadvWritev.fatal = TRUE
    BY DEF ReadvWritev
  <2>3. Now.nul = FALSE /\ Now.fresh = Junk /\ Now.fatal = TRUE
    BY <2>1, <2>2, Zenon
  <2> QED BY <1>1, <2>3
<1>2. CASE demo = 2
  <2>1. Now = PreadvPwritev
    BY NowIs, <1>2
  <2>2. PreadvPwritev.nul = FALSE /\ PreadvPwritev.fresh = NUL /\ PreadvPwritev.fatal = TRUE
    BY DEF PreadvPwritev
  <2>3. Now.nul = FALSE /\ Now.fresh = NUL /\ Now.fatal = TRUE
    BY <2>1, <2>2, Zenon
  <2> QED BY <1>2, <2>3
<1>3. CASE demo = 3
  <2>1. Now = SendmsgRecvmsg
    BY NowIs, <1>3
  <2>2. SendmsgRecvmsg.nul = FALSE /\ SendmsgRecvmsg.fresh = Junk /\ SendmsgRecvmsg.fatal = TRUE
    BY DEF SendmsgRecvmsg
  <2>3. Now.nul = FALSE /\ Now.fresh = Junk /\ Now.fatal = TRUE
    BY <2>1, <2>2, Zenon
  <2> QED BY <1>3, <2>3
<1>4. CASE demo = 4
  <2>1. Now = SendmmsgRecvmmsg
    BY NowIs, <1>4
  <2>2. SendmmsgRecvmmsg.nul = FALSE /\ SendmmsgRecvmmsg.fresh = Junk /\ SendmmsgRecvmmsg.fatal = TRUE
    BY DEF SendmmsgRecvmmsg
  <2>3. Now.nul = FALSE /\ Now.fresh = Junk /\ Now.fatal = TRUE
    BY <2>1, <2>2, Zenon
  <2> QED BY <1>4, <2>3
<1>5. CASE demo = 5
  <2>1. Now = Vmsplice
    BY NowIs, <1>5
  <2>2. Vmsplice.nul = FALSE /\ Vmsplice.fresh = Junk /\ Vmsplice.fatal = TRUE
    BY DEF Vmsplice
  <2>3. Now.nul = FALSE /\ Now.fresh = Junk /\ Now.fatal = TRUE
    BY <2>1, <2>2, Zenon
  <2> QED BY <1>5, <2>3
<1>6. CASE demo = 6
  <2>1. Now = ProcessVmReadv
    BY NowIs, <1>6
  <2>2. ProcessVmReadv.nul = TRUE /\ ProcessVmReadv.fresh = NUL /\ ProcessVmReadv.fatal = FALSE
    BY DEF ProcessVmReadv
  <2>3. Now.nul = TRUE /\ Now.fresh = NUL /\ Now.fatal = FALSE
    BY <2>1, <2>2, Zenon
  <2> QED BY <1>6, <2>3
<1>7. CASE demo = 7
  <2>1. Now = ProcessVmWritev
    BY NowIs, <1>7
  <2>2. ProcessVmWritev.nul = FALSE /\ ProcessVmWritev.fresh = Kept /\ ProcessVmWritev.fatal = FALSE
    BY DEF ProcessVmWritev
  <2>3. Now.nul = FALSE /\ Now.fresh = Kept /\ Now.fatal = FALSE
    BY <2>1, <2>2, Zenon
  <2> QED BY <1>7, <2>3
<1> QED BY <1>1, <1>2, <1>3, <1>4, <1>5, <1>6, <1>7

(* The only NUL in a message is the terminator of the sixth demo's.         *)
LEMMA MessageBytes ==
  ASSUME demo \in 1..7, NEW m \in 1..NumMessages
  PROVE  /\ Message(m) \in Seq(Nat) /\ Len(Message(m)) = Bytes
         /\ \A j \in 1..Bytes : Message(m)[j] = NUL <=> demo = 6 /\ j = Bytes
<1> DEFINE k == 10 * demo + m
           text == Text(k, Bytes)
<1>1. k \in Nat /\ k > 0 /\ Bytes \in Nat /\ Bytes > 0
  BY DEF NumMessages, Bytes
<1>2. Message(m) = IF demo = 6 THEN [text EXCEPT ![Bytes] = NUL] ELSE text
  BY DemoLengths, DemoFlags DEF Message
<1> HIDE DEF k
<1>3. text \in Seq(Nat) /\ Len(text) = Bytes /\ \A j \in 1..Bytes : text[j] # NUL
  BY <1>1 DEF Text, Byte, NUL
<1> HIDE DEF text
<1>4. CASE demo = 6
  <2>1. Message(m) = [text EXCEPT ![Bytes] = NUL]
    BY <1>2, <1>4
  <2> QED BY <1>1, <1>3, <1>4, <2>1 DEF NUL
<1>5. CASE demo # 6
  BY <1>2, <1>3, <1>5
<1> QED BY <1>4, <1>5

(* The first n elements of a sequence.                                      *)
LEMMA FirstElements ==
  ASSUME NEW T, NEW s \in Seq(T), NEW n \in 0..Len(s)
  PROVE  /\ SubSeq(s, 1, n) \in Seq(T) /\ Len(SubSeq(s, 1, n)) = n
         /\ \A j \in 1..n : SubSeq(s, 1, n)[j] = s[j]
OBVIOUS

(* The bytes of a message that are printed.                                 *)
Seen == IF demo = 6 THEN 17 ELSE Bytes

(* Visible has them, and none is a NUL.                                     *)
LEMMA VisibleBytes ==
  ASSUME demo \in 1..7, NEW m \in 1..NumMessages
  PROVE  /\ Visible(m) \in Seq(Nat) /\ Len(Visible(m)) = Seen
         /\ \A j \in 1..Seen : Visible(m)[j] = Message(m)[j] /\ Message(m)[j] # NUL
<1>1. /\ Message(m) \in Seq(Nat) /\ Len(Message(m)) = Bytes
      /\ \A j \in 1..Bytes : Message(m)[j] = NUL <=> demo = 6 /\ j = Bytes
  BY MessageBytes
<1>2. Bytes \in Nat
  BY DEF Bytes
<1>3. CASE demo = 6
  <2>1. Bytes = 18 /\ Seen = 17
    BY <1>3 DEF Bytes, Seen
  <2>2. Visible(m) = SubSeq(Message(m), 1, 17)
    <3>1. Visible(m) = Front(Message(m)) /\ Len(Message(m)) - 1 = 17
      BY <1>1, <1>3, <2>1, DemoFlags DEF Visible
    <3> QED BY <3>1 DEF Front
  <2>3. /\ SubSeq(Message(m), 1, 17) \in Seq(Nat) /\ Len(SubSeq(Message(m), 1, 17)) = 17
        /\ \A j \in 1..17 : SubSeq(Message(m), 1, 17)[j] = Message(m)[j]
    <3>1. 17 \in 0..Len(Message(m))
      BY <1>1, <2>1
    <3> QED BY <1>1, <3>1, FirstElements
  <2>4. \A j \in 1..17 : Message(m)[j] # NUL
    BY <1>1, <2>1
  <2> QED BY <2>1, <2>2, <2>3, <2>4, Zenon
<1>4. CASE demo # 6
  <2>1. Seen = Bytes /\ Visible(m) = Message(m)
    BY <1>4, DemoFlags DEF Visible, Seen
  <2> QED BY <1>1, <1>2, <1>4, <2>1
<1> QED BY <1>3, <1>4

(* What the buffer holds once the messages were received: each of them, and *)
(* where strlen will look for the end, nothing but NULs after the message.  *)
Held(mem) ==
  /\ mem \in Seq(Int) /\ Len(mem) = Size
  /\ \A m \in 1..NumMessages : \A j \in 1..Bytes : mem[Offset(m) + j] = Message(m)[j]
  /\ demo \in {2, 6, 7} => \A x \in 1..Size : x > Bytes => mem[x] = NUL

(* The buffer of the seventh demo is clear where its message ends.          *)
Clear(mem) == \A x \in 1..Size : x > 28 => mem[x] = NUL

IovecInv ==
  /\ demo \in 1..8 /\ dpc \in {"write", "read", "show", "end", "died"}
  /\ buf \in Seq(Int) /\ Len(buf) = Size
  /\ demo = 7 /\ dpc \in {"write", "read"} => Clear(buf)
  /\ DemoAt("read") =>
       /\ \E n \in 1..NumMessages : chan = [m \in 1..n |-> Message(m)]
       /\ demo # 7 => buf = [a \in 1..Size |-> Now.fresh]
  /\ DemoAt("show") => Held(buf) /\ \A m \in 1..NumMessages : lens[m] = Bytes
  /\ demo = 6 /\ dpc = "end" => Clear(buf)
  /\ ShowsTheMessage

(* The bounds of what the demos write.                                      *)
LEMMA DemoBounds ==
  ASSUME demo \in 1..7
  PROVE  /\ NumMessages \in 1..2 /\ Bytes \in 13..28 /\ Seen \in 13..Bytes
         /\ \A m \in 1..NumMessages : Offset(m) \in {0, 64}
         /\ Offset(1) = 0 /\ Offset(2) = 64 /\ Size = 128 /\ Len(Demos) = 7
BY DEF NumMessages, Bytes, Seen, Offset, Size, Demos

(* Receiving one message.                                                   *)
LEMMA ReceiveOne ==
  ASSUME demo \in 1..7, NEW m \in 1..NumMessages, NEW mem, mem \in Seq(Int), Len(mem) = Size
  PROVE  Scatter(mem, Now.into[m], Message(m)) = Written(mem, Offset(m), Message(m))
<1>1. Bytes \in Nat /\ Offset(m) \in Nat
  <2>1. Offset(m) \in {0, 64} /\ Bytes \in 13..28
    BY DemoBounds
  <2> QED BY <2>1
<1>2. DOMAIN mem \subseteq Nat
  OBVIOUS
<1>3. Onto(Now.into[m], Offset(m), Bytes)
  BY DemoAddresses
<1>4. Len(Message(m)) = Bytes
  BY MessageBytes
<1> QED BY <1>1, <1>2, <1>3, <1>4, ScatterRun

(* Receiving every message.                                                 *)
LEMMA ReceiveAll ==
  ASSUME IovecInv, DemoAt("read"), Len(chan) = Len(Now.into)
  PROVE  /\ Held(ScatterAll(buf, Now.into, chan))
         /\ \A m \in 1..NumMessages : Len(chan[m]) = Bytes
         /\ DOMAIN chan = 1..NumMessages
<1>1. demo \in 1..7
  BY DEF IovecInv, DemoAt, Demos
<1>2. /\ NumMessages \in 1..2 /\ Bytes \in 13..28 /\ Size = 128
      /\ Offset(1) = 0 /\ Offset(2) = 64
  BY <1>1, DemoBounds
<1>3. chan = [m \in 1..NumMessages |-> Message(m)]
  <2>1. PICK n \in 1..NumMessages : chan = [m \in 1..n |-> Message(m)]
    BY DEF IovecInv
  <2>2. n \in Nat
    BY <1>2
  <2>3. Len(chan) = n
    BY <2>1, <2>2
  <2>4. n = NumMessages
    BY <1>1, <2>3, DemoLengths
  <2> QED BY <2>1, <2>4
<1>4. \A m \in 1..NumMessages : chan[m] = Message(m) /\ Len(chan[m]) = Bytes
  BY <1>1, <1>3, MessageBytes
<1>5. \A m \in 1..NumMessages : Message(m) \in Seq(Nat) /\ Len(Message(m)) = Bytes
  BY <1>1, MessageBytes
<1>b. \A m \in 1..NumMessages : \A j \in 1..Bytes : Message(m)[j] \in Int
  <2>1. ASSUME NEW m \in 1..NumMessages, NEW j \in 1..Bytes PROVE Message(m)[j] \in Int
    <3>1. Message(m)[j] \in Nat
      BY <1>5, ElementOfSeq
    <3> QED BY <3>1
  <2> QED BY <2>1
<1> DEFINE S == ScatterAll(buf, Now.into, chan)
           After(m, mem) == Written(mem, Offset(m), Message(m))
<1>6. buf \in Seq(Int) /\ Len(buf) = Size
  BY DEF IovecInv
<1>7. ASSUME NEW m \in 1..NumMessages, NEW mem \in Seq(Int), Len(mem) = Size
      PROVE  /\ After(m, mem) \in Seq(Int) /\ Len(After(m, mem)) = Size
             /\ \A x \in 1..Size :
                  After(m, mem)[x] = IF x - Offset(m) \in 1..Bytes
                                     THEN Message(m)[x - Offset(m)] ELSE mem[x]
  <2> DEFINE f == After(m, mem)
  <2>1. Offset(m) \in {0, 64} /\ Len(Message(m)) = Bytes /\ DOMAIN mem = 1..Size
    BY <1>1, <1>5, <1>7, DemoBounds
  <2>2. \A x \in 1..Size : mem[x] \in Int
    BY <1>7, ElementOfSeq
  <2>3. f = [x \in 1..Size |-> IF x - Offset(m) \in 1..Bytes
                               THEN Message(m)[x - Offset(m)] ELSE mem[x]]
    BY <2>1 DEF Written
  <2> HIDE DEF f
  <2>4. \A x \in 1..Size : f[x] \in Int
    BY <1>b, <2>1, <2>2, <2>3
  <2>5. f \in Seq(Int) /\ Len(f) = Size
    BY <1>2, <2>3, <2>4
  <2>6. \A x \in 1..Size : f[x] = IF x - Offset(m) \in 1..Bytes
                                  THEN Message(m)[x - Offset(m)] ELSE mem[x]
    BY <2>3
  <2> QED BY <2>5, <2>6 DEF f
<1>8. ASSUME NEW m \in 1..NumMessages, NEW mem \in Seq(Int), Len(mem) = Size
      PROVE  Scatter(mem, Now.into[m], chan[m]) = After(m, mem)
  BY <1>1, <1>4, <1>8, ReceiveOne
<1> HIDE DEF After
<1>9. Held(S)
  <2>1. CASE NumMessages = 1
    <3>1. DOMAIN chan = {1} /\ 1 \in 1..NumMessages
      BY <1>3, <2>1
    <3>2. S = After(1, buf)
      BY <1>6, <1>8, <3>1, ScatterAllOne
    <3>3. S \in Seq(Int) /\ Len(S) = Size
      BY <1>6, <1>7, <3>1, <3>2
    <3> HIDE DEF S
    <3>a. \A x \in 1..Size : S[x] = IF x - Offset(1) \in 1..Bytes
                                    THEN Message(1)[x - Offset(1)] ELSE buf[x]
      BY <1>6, <1>7, <3>1, <3>2
    <3>b. ASSUME NEW x \in 1..Size
          PROVE  S[x] = IF x <= Bytes THEN Message(1)[x] ELSE buf[x]
      <4>1. x - Offset(1) = x /\ (x \in 1..Bytes <=> x <= Bytes)
        BY <1>2
      <4> QED BY <3>a, <4>1
    <3>4. ASSUME NEW j \in 1..Bytes PROVE S[Offset(1) + j] = Message(1)[j]
      <4>1. j \in 1..Size /\ j <= Bytes /\ Offset(1) + j = j
        BY <1>2
      <4> QED BY <3>b, <4>1
    <3>5. ASSUME demo \in {2, 6, 7}, NEW x \in 1..Size, x > Bytes PROVE S[x] = NUL
      <4>1. S[x] = buf[x]
        <5>1. ~(x <= Bytes)
          BY <1>2, <3>5
        <5> QED BY <3>b, <5>1
      <4>2. CASE demo = 7
        <5>1. Clear(buf) /\ Bytes = 28
          BY <4>2 DEF IovecInv, DemoAt, Bytes
        <5> QED BY <3>5, <4>1, <5>1 DEF Clear
      <4>3. CASE demo \in {2, 6}
        <5>1. Now.fresh = NUL
          BY <1>1, <4>3, DemoFlags
        <5>2. buf = [a \in 1..Size |-> Now.fresh]
          BY <4>3 DEF IovecInv
        <5> QED BY <4>1, <5>1, <5>2
      <4> QED BY <3>5, <4>2, <4>3
    <3>6. \A m \in 1..NumMessages : m = 1
      BY <2>1
    <3> QED BY <3>3, <3>4, <3>5, <3>6 DEF Held
  <2>2. CASE NumMessages = 2
    <3>1. DOMAIN chan = {1, 2} /\ 1 \in 1..NumMessages /\ 2 \in 1..NumMessages /\ demo = 4
      BY <1>3, <2>2 DEF NumMessages
    <3>2. S = After(2, After(1, buf)) \/ S = After(1, After(2, buf))
      <4>1. /\ After(1, buf) \in Seq(Int) /\ Len(After(1, buf)) = Size
            /\ After(2, buf) \in Seq(Int) /\ Len(After(2, buf)) = Size
        BY <1>6, <1>7, <3>1
      <4>2. /\ Scatter(buf, Now.into[1], chan[1]) = After(1, buf)
            /\ Scatter(buf, Now.into[2], chan[2]) = After(2, buf)
            /\ Scatter(After(1, buf), Now.into[2], chan[2]) = After(2, After(1, buf))
            /\ Scatter(After(2, buf), Now.into[1], chan[1]) = After(1, After(2, buf))
        BY <1>6, <1>8, <3>1, <4>1
      <4> QED BY <3>1, <4>2, ScatterAllTwo
    <3>3. S \in Seq(Int) /\ Len(S) = Size
      BY <1>6, <1>7, <3>1, <3>2
    <3> HIDE DEF S
    <3>4. ASSUME NEW j \in 1..Bytes
          PROVE  S[Offset(1) + j] = Message(1)[j] /\ S[Offset(2) + j] = Message(2)[j]
      <4>1. /\ j \in 1..Size /\ j - 0 \in 1..Bytes /\ j - 0 = j /\ ~(j - 64 \in 1..Bytes)
            /\ 64 + j \in 1..Size /\ (64 + j) - 64 = j /\ ~((64 + j) - 0 \in 1..Bytes)
        BY <1>2
      <4>a. /\ After(1, buf) \in Seq(Int) /\ Len(After(1, buf)) = Size
            /\ After(2, buf) \in Seq(Int) /\ Len(After(2, buf)) = Size
        BY <1>6, <1>7, <3>1
      <4>b. /\ After(1, buf)[j] = Message(1)[j] /\ After(2, buf)[64 + j] = Message(2)[j]
            /\ After(1, After(2, buf))[j] = Message(1)[j]
            /\ After(1, After(2, buf))[64 + j] = After(2, buf)[64 + j]
            /\ After(2, After(1, buf))[64 + j] = Message(2)[j]
            /\ After(2, After(1, buf))[j] = After(1, buf)[j]
        <5> DEFINE At(m, mem, x) == IF x - Offset(m) \in 1..Bytes
                                    THEN Message(m)[x - Offset(m)] ELSE mem[x]
        <5>1. /\ \A x \in 1..Size : After(1, buf)[x] = At(1, buf, x)
              /\ \A x \in 1..Size : After(2, buf)[x] = At(2, buf, x)
          BY <1>6, <1>7, <3>1
        <5>2. /\ \A x \in 1..Size : After(1, After(2, buf))[x] = At(1, After(2, buf), x)
              /\ \A x \in 1..Size : After(2, After(1, buf))[x] = At(2, After(1, buf), x)
          BY <4>a, <1>7, <3>1
        <5>3. ASSUME NEW mem
              PROVE  /\ At(1, mem, j) = Message(1)[j] /\ At(2, mem, j) = mem[j]
                     /\ At(2, mem, 64 + j) = Message(2)[j] /\ At(1, mem, 64 + j) = mem[64 + j]
          BY <1>2, <4>1
        <5> HIDE DEF At
        <5> QED BY <4>1, <5>1, <5>2, <5>3
      <4>2. S[j] = Message(1)[j] /\ S[64 + j] = Message(2)[j]
        BY <3>2, <4>b
      <4>3. Offset(1) + j = j /\ Offset(2) + j = 64 + j
        BY <1>2
      <4> QED BY <4>2, <4>3
    <3>5. \A m \in 1..NumMessages : m = 1 \/ m = 2
      BY <2>2
    <3> QED BY <3>1, <3>3, <3>4, <3>5 DEF Held
  <2> QED BY <1>2, <2>1, <2>2
<1> QED BY <1>3, <1>4, <1>9

(* The strings that are printed, by their start and the way their length is *)
(* found.                                                                   *)
LEMMA DemoShows ==
  ASSUME demo \in 1..7
  PROVE  /\ demo \in {1, 3, 5, 6} => Now.shows = <<<<1, Count>>>>
         /\ demo = 2 => Now.shows = <<<<1, Strlen>>, <<33, Strlen>>>>
         /\ demo = 4 => Now.shows = <<<<1, Count>>, <<65, Count>>>>
         /\ demo = 7 => Now.shows = <<<<1, Strlen>>>>
<1>1. CASE demo = 1 BY NowIs, <1>1 DEF ReadvWritev
<1>2. CASE demo = 2 BY NowIs, <1>2 DEF PreadvPwritev
<1>3. CASE demo = 3 BY NowIs, <1>3 DEF SendmsgRecvmsg
<1>4. CASE demo = 4 BY NowIs, <1>4 DEF SendmmsgRecvmmsg
<1>5. CASE demo = 5 BY NowIs, <1>5 DEF Vmsplice
<1>6. CASE demo = 6 BY NowIs, <1>6 DEF ProcessVmReadv
<1>7. CASE demo = 7 BY NowIs, <1>7 DEF ProcessVmWritev
<1> QED BY <1>1, <1>2, <1>3, <1>4, <1>5, <1>6, <1>7

(* n elements of a sequence after the first k.                              *)
LEMMA Stretch ==
  ASSUME NEW T, NEW s \in Seq(T), NEW k \in Nat, NEW n \in Nat, k + n <= Len(s)
  PROVE  /\ SubSeq(s, k + 1, k + n) \in Seq(T) /\ Len(SubSeq(s, k + 1, k + n)) = n
         /\ \A j \in 1..n : SubSeq(s, k + 1, k + n)[j] = s[k + j]
OBVIOUS

(* Printing from a message's place shows the message, if it is printed for  *)
(* its length or, where NULs follow it, for more.                           *)
LEMMA PrintedMessage ==
  ASSUME demo \in 1..7, Held(buf), NEW m \in 1..NumMessages, NEW n \in Nat,
         n = Bytes \/ (demo \in {2, 7} /\ n >= Bytes)
  PROVE  Printed(buf, Offset(m) + 1, n) = Visible(m)
<1> DEFINE o == Offset(m)
<1>1. /\ Bytes \in 13..28 /\ Seen \in 13..Bytes /\ Size = 128 /\ o \in {0, 64}
      /\ demo # 4 => m = 1 /\ o = 0
  BY DemoBounds DEF NumMessages
<1>2. /\ Visible(m) \in Seq(Nat) /\ Len(Visible(m)) = Seen
      /\ \A j \in 1..Seen : Visible(m)[j] = Message(m)[j] /\ Message(m)[j] # NUL
  BY VisibleBytes
<1>3. /\ buf \in Seq(Int) /\ Len(buf) = Size
      /\ \A j \in 1..Bytes : buf[o + j] = Message(m)[j]
  BY DEF Held
<1> HIDE DEF o
<1>4. ASSUME NEW j \in 1..Seen PROVE buf[o + j] = Visible(m)[j] /\ buf[o + j] # NUL
  <2>1. j \in 1..Bytes
    BY <1>1
  <2> QED BY <1>2, <1>3, <2>1
<1>5. Seen = n \/ buf[(o + 1) + Seen] = NUL
  <2>1. CASE demo = 6
    <3>1. Seen = 17 /\ Bytes = 18 /\ 18 \in 1..Bytes /\ (o + 1) + 17 = o + 18
      BY <1>1, <2>1 DEF Seen, Bytes
    <3>2. Message(m)[18] = NUL
      BY <2>1, <3>1, MessageBytes
    <3> QED BY <1>3, <3>1, <3>2
  <2>2. CASE demo \in {2, 7}
    <3>1. Seen = Bytes /\ o = 0 /\ (o + 1) + Seen \in 1..Size /\ (o + 1) + Seen > Bytes
      BY <1>1, <2>2 DEF Seen
    <3> QED BY <2>2, <3>1 DEF Held
  <2>3. CASE demo \notin {2, 6, 7}
    BY <2>3 DEF Seen
  <2> QED BY <2>1, <2>2, <2>3
<1>6. \A j \in 0..n : j < Seen => buf[(o + 1) + j] # NUL
  <2>1. ASSUME NEW j \in 0..n, j < Seen PROVE buf[(o + 1) + j] # NUL
    <3>1. j + 1 \in 1..Seen /\ (o + 1) + j = o + (j + 1)
      BY <1>1, <2>1
    <3> QED BY <1>4, <3>1
  <2> QED BY <2>1
<1>7. Seen \in 0..n /\ o + 1 \in Nat
  BY <1>1
<1>8. Printed(buf, o + 1, n) = SubSeq(buf, o + 1, (o + 1) + Seen - 1)
  BY <1>5, <1>6, <1>7, PrintedUpTo
<1>9. SubSeq(buf, o + 1, (o + 1) + Seen - 1) = Visible(m)
  <2> DEFINE s == SubSeq(buf, o + 1, o + Seen)
  <2>1. (o + 1) + Seen - 1 = o + Seen
    BY <1>1
  <2>2. s \in Seq(Int) /\ Len(s) = Seen /\ \A j \in 1..Seen : s[j] = buf[o + j]
    <3>1. o \in Nat /\ Seen \in Nat /\ o + Seen <= Len(buf)
      BY <1>1, <1>3
    <3> QED BY <1>3, <3>1, Stretch
  <2> HIDE DEF s
  <2>3. s = Visible(m)
    BY <1>1, <1>2, <1>4, <2>2
  <2> QED BY <2>1, <2>3 DEF s
<1> QED BY <1>8, <1>9 DEF o

(* Every demo's printout is its messages.                                   *)
LEMMA DemoPrintout ==
  ASSUME demo \in 1..7, Held(buf), \A m \in 1..NumMessages : lens[m] = Bytes
  PROVE  FlattenSeq([k \in DOMAIN Now.shows |-> Printed(buf, Now.shows[k][1], ShowLength(k))])
           = FlattenSeq([m \in DOMAIN Now.texts |-> Visible(m)])
<1> DEFINE p == [k \in DOMAIN Now.shows |-> Printed(buf, Now.shows[k][1], ShowLength(k))]
           q == [m \in DOMAIN Now.texts |-> Visible(m)]
<1>1. Size = 128 /\ Bytes \in 13..28 /\ NumMessages \in 1..2 /\ Offset(1) = 0 /\ Offset(2) = 64
  BY DemoBounds
<1>2. DOMAIN Now.texts = 1..NumMessages
  <2>1. CASE demo = 1 BY NowIs, <2>1 DEF ReadvWritev, NumMessages
  <2>2. CASE demo = 2 BY NowIs, <2>2 DEF PreadvPwritev, NumMessages
  <2>3. CASE demo = 3 BY NowIs, <2>3 DEF SendmsgRecvmsg, NumMessages
  <2>4. CASE demo = 4 BY NowIs, <2>4 DEF SendmmsgRecvmmsg, NumMessages
  <2>5. CASE demo = 5 BY NowIs, <2>5 DEF Vmsplice, NumMessages
  <2>6. CASE demo = 6 BY NowIs, <2>6 DEF ProcessVmReadv, NumMessages
  <2>7. CASE demo = 7 BY NowIs, <2>7 DEF ProcessVmWritev, NumMessages
  <2> QED BY <2>1, <2>2, <2>3, <2>4, <2>5, <2>6, <2>7
<1>3. CASE demo \in {1, 3, 5, 6}
  <2>1. NumMessages = 1 /\ Now.shows = <<<<1, Count>>>> /\ 1 \in 1..NumMessages
    BY <1>3, DemoShows DEF NumMessages
  <2>2. ShowLength(1) = Bytes
    <3>1. Now.shows[1][2] = Count /\ lens[1] = Bytes
      BY <2>1
    <3>2. Count # Strlen
      BY DEF Count, Strlen
    <3> QED BY <3>1, <3>2 DEF ShowLength
  <2>3. Printed(buf, 1, Bytes) = Visible(1)
    <3>1. Bytes \in Nat /\ Offset(1) + 1 = 1
      BY <1>1
    <3>2. Printed(buf, Offset(1) + 1, Bytes) = Visible(1)
      BY <2>1, <3>1, PrintedMessage, Zenon
    <3> QED BY <3>1, <3>2
  <2>4. DOMAIN p = 1..1 /\ p[1] = Visible(1)
    BY <2>1, <2>2, <2>3
  <2>5. p = q
    BY <1>2, <2>1, <2>4
  <2> QED BY <2>5
<1>4. CASE demo = 7
  <2>1. NumMessages = 1 /\ Now.shows = <<<<1, Strlen>>>> /\ 1 \in 1..NumMessages
    BY <1>4, DemoShows DEF NumMessages
  <2>2. ShowLength(1) = 127
    BY <1>1, <2>1 DEF ShowLength
  <2>3. Printed(buf, 1, 127) = Visible(1)
    BY <1>1, <1>4, <2>1, PrintedMessage
  <2>4. DOMAIN p = 1..1 /\ p[1] = Visible(1)
    BY <2>1, <2>2, <2>3
  <2>5. p = q
    BY <1>2, <2>1, <2>4
  <2> QED BY <2>5
<1>5. CASE demo = 4
  <2>1. NumMessages = 2 /\ 1 \in 1..NumMessages /\ 2 \in 1..NumMessages
    BY <1>5 DEF NumMessages
  <2>2. Now.shows = <<<<1, Count>>, <<65, Count>>>>
    BY <1>5, DemoShows
  <2>3. ShowLength(1) = Bytes /\ ShowLength(2) = Bytes
    <3>1. Now.shows[1][2] = Count /\ lens[1] = Bytes
      BY <2>1, <2>2
    <3>2. Now.shows[2][2] = Count /\ lens[2] = Bytes
      BY <2>1, <2>2
    <3>3. Count # Strlen
      BY DEF Count, Strlen
    <3> QED BY <3>1, <3>2, <3>3 DEF ShowLength
  <2>4. Printed(buf, 1, Bytes) = Visible(1) /\ Printed(buf, 65, Bytes) = Visible(2)
    <3>1. Bytes \in Nat /\ Offset(1) + 1 = 1 /\ Offset(2) + 1 = 65
      BY <1>1
    <3>2. /\ Printed(buf, Offset(1) + 1, Bytes) = Visible(1)
          /\ Printed(buf, Offset(2) + 1, Bytes) = Visible(2)
      BY <2>1, <3>1, PrintedMessage, Zenon
    <3> QED BY <3>1, <3>2
  <2>5. DOMAIN p = 1..2 /\ p[1] = Visible(1) /\ p[2] = Visible(2)
    BY <2>2, <2>3, <2>4
  <2>6. p = q
    BY <1>2, <2>1, <2>5
  <2> QED BY <2>6
<1>6. CASE demo = 2
  <2>1. NumMessages = 1 /\ 1 \in 1..NumMessages /\ Bytes = 20
    BY <1>6 DEF NumMessages, Bytes
  <2>2. Now.shows = <<<<1, Strlen>>, <<33, Strlen>>>>
    BY <1>6, DemoShows
  <2>3. ShowLength(1) = 127 /\ ShowLength(2) = 95
    BY <1>1, <2>2 DEF ShowLength
  <2>4. Printed(buf, 1, 127) = Visible(1)
    BY <1>1, <1>6, <2>1, PrintedMessage
  <2>5. Printed(buf, 33, 95) = <<>>
    <3>1. buf[33] = NUL /\ buf \in Seq(Int) /\ Len(buf) = 128
      BY <1>1, <1>6, <2>1 DEF Held
    <3>2. 0 \in 0..95 /\ 33 + 0 = 33 /\ \A j \in 0..95 : ~(j < 0)
      OBVIOUS
    <3>3. Printed(buf, 33, 95) = SubSeq(buf, 33, 33 + 0 - 1)
      <4>1. 33 \in Nat /\ 95 \in Nat /\ \A j \in 0..95 : j < 0 => buf[33 + j] # NUL
        BY <3>2
      <4>2. 0 = 95 \/ buf[33 + 0] = NUL
        BY <3>1, <3>2
      <4> QED BY <3>2, <4>1, <4>2, PrintedUpTo, Zenon
    <3>4. SubSeq(buf, 33, 32) = <<>>
      BY <3>1
    <3> QED BY <3>3, <3>4
  <2>6. p = <<Visible(1), <<>>>>
    BY <2>2, <2>3, <2>4, <2>5
  <2>7. q = <<Visible(1)>>
    BY <1>2, <2>1
  <2>8. Visible(1) \in Seq(Nat)
    BY <2>1, VisibleBytes
  <2>9. Visible(1) \o <<>> = Visible(1)
    BY <2>8
  <2> HIDE DEF p, q
  <2>10. FlattenSeq(p) = Visible(1) \o <<>> /\ FlattenSeq(q) = Visible(1)
    BY <2>6, <2>7, FlattenOne, FlattenTwo
  <2> QED BY <2>9, <2>10 DEF p, q
<1> QED BY <1>3, <1>4, <1>5, <1>6

(* Nothing has run yet.                                                     *)
LEMMA IovecInitial == IovecInit => IovecInv
<1> SUFFICES ASSUME IovecInit PROVE IovecInv
  OBVIOUS
<1>1. buf \in Seq(Int) /\ Len(buf) = Size
  BY DEF IovecInit, Size, Junk
<1>2. demo = 1 /\ dpc = "write"
  BY DEF IovecInit
<1>3. demo \in 1..8 /\ demo # 7 /\ demo # 6 /\ dpc \in {"write", "read", "show", "end", "died"}
  BY <1>2
<1>4. ~DemoAt("read") /\ ~DemoAt("show") /\ ~DemoAt("end")
  BY <1>2 DEF DemoAt
<1> QED BY <1>1, <1>3, <1>4 DEF IovecInv, ShowsTheMessage

(* A buffer made by its initialiser.                                        *)
LEMMA FreshBuffer ==
  ASSUME demo \in 1..7, Now.fresh # Kept
  PROVE  [a \in 1..Size |-> Now.fresh] \in Seq(Int) /\ Len([a \in 1..Size |-> Now.fresh]) = Size
<1>1. Now.fresh \in Int
  BY DemoFlags DEF NUL, Junk, Kept
<1> QED BY <1>1 DEF Size

(* Every call of every demo, successful or not, keeps the invariant.        *)
LEMMA IovecStep ==
  ASSUME IovecInv, [IovecNext]_iovec_vars
  PROVE  IovecInv'
<1>0. Len(Demos) = 7
  BY DEF Demos
<1>a. ASSUME demo \in 1..7
      PROVE  Now.fresh = Kept <=> demo = 7
  BY <1>a, DemoFlags DEF NUL, Junk, Kept
<1>b. ASSUME demo' = demo
      PROVE  /\ Now' = Now /\ NumMessages' = NumMessages /\ Bytes' = Bytes
             /\ \A m \in 1..NumMessages : Message(m)' = Message(m) /\ Visible(m)' = Visible(m)
  BY <1>b DEF Now, NumMessages, Bytes, Message, Visible
<1>1. CASE DemoWrite
  <2>1. demo \in 1..7 /\ demo' = demo /\ dpc' = "read"
    BY <1>0, <1>1 DEF DemoWrite, DemoAt, IovecInv
  <2>2. buf' \in Seq(Int) /\ Len(buf') = Size
    BY <1>1, <2>1, FreshBuffer DEF DemoWrite, IovecInv
  <2>3. demo # 7 => buf' = [a \in 1..Size |-> Now.fresh]
    BY <1>1, <1>a, <2>1 DEF DemoWrite
  <2>4. demo = 7 => Clear(buf')
    BY <1>1, <1>a, <2>1 DEF DemoWrite, DemoAt, IovecInv, Clear
  <2>5. \E n \in 1..NumMessages' : chan' = [m \in 1..n |-> Message(m)']
    <3>1. PICK n \in 1..Len(Now.texts) : chan' = [m \in 1..n |-> Message(m)]
      BY <1>1 DEF DemoWrite
    <3>2. n \in 1..NumMessages' /\ \A m \in 1..n : m \in 1..NumMessages
      BY <1>b, <2>1, <3>1, DemoLengths, DemoBounds
    <3>3. [m \in 1..n |-> Message(m)] = [m \in 1..n |-> Message(m)']
      BY <1>b, <2>1, <3>2
    <3> QED BY <3>1, <3>2, <3>3
  <2>6. Now' = Now
    BY <1>b, <2>1
  <2> QED BY <2>1, <2>2, <2>3, <2>4, <2>5, <2>6 DEF IovecInv, DemoAt, ShowsTheMessage, Clear
<1>2. CASE DemoRead
  <2>1. demo \in 1..7 /\ demo' = demo /\ dpc' = "show"
    BY <1>0, <1>2 DEF DemoRead, DemoAt, IovecInv
  <2>2. Held(buf') /\ \A m \in 1..NumMessages : lens'[m] = Bytes
    BY <1>2, ReceiveAll DEF DemoRead
  <2>3. Held(buf)'
    BY <1>b, <2>1, <2>2 DEF Held, Offset
  <2>4. \A m \in 1..NumMessages' : lens'[m] = Bytes'
    BY <1>b, <2>1, <2>2
  <2> QED BY <2>1, <2>3, <2>4 DEF IovecInv, DemoAt, ShowsTheMessage, Held
<1>3. CASE DemoShow
  <2>1. demo \in 1..7 /\ demo' = demo /\ dpc' = "end" /\ buf' = buf
    BY <1>0, <1>3 DEF DemoShow, DemoAt, IovecInv
  <2>2. Held(buf) /\ \A m \in 1..NumMessages : lens[m] = Bytes
    BY <1>3 DEF DemoShow, IovecInv
  <2>3. shown' = FlattenSeq([m \in DOMAIN Now.texts |-> Visible(m)])
    BY <1>3, <2>1, <2>2, DemoPrintout DEF DemoShow
  <2>4. [m \in DOMAIN Now.texts |-> Visible(m)] = [m \in DOMAIN Now'.texts |-> Visible(m)']
    BY <2>1 DEF Now, Visible, Message
  <2>5. ShowsTheMessage'
    BY <2>3, <2>4 DEF ShowsTheMessage
  <2>6. demo = 6 => Clear(buf')
    BY <2>1, <2>2 DEF Held, Clear, Bytes
  <2> QED BY <2>1, <2>5, <2>6 DEF IovecInv, DemoAt, Clear
<1>4. CASE NextDemo
  BY <1>0, <1>4 DEF NextDemo, IovecInv, DemoAt, ShowsTheMessage, Clear
<1>5. CASE DemoFails
  <2>1. demo \in 1..7 /\ (Now.fatal <=> demo <= 5)
    BY <1>0, <1>5, DemoFlags DEF DemoFails, DemoAt, IovecInv
  <2>2. CASE demo <= 5
    BY <2>1, <2>2, <1>5 DEF DemoFails, IovecInv, DemoAt, ShowsTheMessage
  <2>3. CASE demo \in {6, 7}
    <3>1. dpc' = "write" /\ demo' = demo + 1
      BY <1>5, <2>1, <2>3 DEF DemoFails
    <3>2. buf' = IF Now.fresh = Kept THEN buf ELSE [a \in 1..Size |-> Now.fresh]
      BY <1>5, <2>1, <2>3 DEF DemoFails
    <3>3. buf' \in Seq(Int) /\ Len(buf') = Size
      BY <2>1, <3>2, FreshBuffer DEF IovecInv
    <3>4. demo = 6 => Clear(buf')
      BY <1>a, <2>1, <3>2, DemoFlags DEF Clear
    <3> QED BY <2>3, <3>1, <3>3, <3>4 DEF IovecInv, DemoAt, ShowsTheMessage, Clear
  <2> QED BY <2>1, <2>2, <2>3
<1>6. CASE UNCHANGED iovec_vars
  <2>1. /\ demo' = demo /\ dpc' = dpc /\ buf' = buf /\ chan' = chan /\ lens' = lens
        /\ shown' = shown
    BY <1>6 DEF iovec_vars
  <2> QED BY <2>1 DEF IovecInv, DemoAt, ShowsTheMessage, Clear, Held, Now, NumMessages,
                      Bytes, Message, Visible, Offset
<1> QED BY <1>1, <1>2, <1>3, <1>4, <1>5, <1>6 DEF IovecNext, Demonstrate

(* Every demo of iovec_demo.c prints its messages, whole, in order and with *)
(* no byte of uninitialised or earlier memory, whichever calls failed       *)
(* before it.                                                               *)
THEOREM DemosShowTheMessages == Spec => []ShowsTheMessage
<1>1. Init => IovecInv
  BY IovecInitial DEF Init
<1>2. IovecInv /\ [Next]_vars => IovecInv'
  BY IovecStep DEF Next, vars, RunsDemo, RunsReceiver, RunsPrctl, Running
<1>3. IovecInv => ShowsTheMessage
  BY DEF IovecInv
<1> QED BY <1>1, <1>2, <1>3, PTL DEF Spec
=============================================================================
