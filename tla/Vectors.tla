------------------------------ MODULE Vectors ------------------------------
(***************************************************************************)
(* How the kernel moves bytes between memory and a struct iovec array.     *)
(* Memory is a sequence of bytes, an iovec has a base (a position in it)   *)
(* and a len.  External to the repository: readv, writev, sendmsg, recvmsg *)
(* and their relatives as iovec_demo.c and recvmsg.c use them.             *)
(***************************************************************************)
EXTENDS Integers, Sequences, SequencesExt

NUL == 0
Junk == -1                            \* a byte of uninitialised memory
Byte(m, j) == 100 * m + j             \* byte j of message m
Text(m, len) == [j \in 1..len |-> Byte(m, j)]

Vec(base, len) == [base |-> base, len |-> len]

(* The addresses an iovec array names, in the order they are used.          *)
Addresses(iov) ==
  FlattenSeq([k \in DOMAIN iov |-> [j \in 1..iov[k].len |-> iov[k].base + j - 1]])

Scatter(mem, iov, data) ==
  LET a == Addresses(iov)
      moved == {j \in DOMAIN a : j <= Len(data)}
  IN [x \in DOMAIN mem |-> IF \E j \in moved : a[j] = x
                           THEN data[CHOOSE j \in moved : a[j] = x]
                           ELSE mem[x]]

(* printf("%.*s", n, mem + at): at most n bytes, and none from a NUL on.    *)
Printed(mem, at, n) ==
  LET stops == {j \in 0..n : j = n \/ mem[at + j] = NUL}
  IN SubSeq(mem, at, at + (CHOOSE j \in stops : \A k \in stops : j <= k) - 1)
=============================================================================
