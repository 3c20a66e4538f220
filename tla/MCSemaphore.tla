---------------------------- MODULE MCSemaphore ----------------------------
(* Instance of Semaphore for TLC: the uninitialised sembufs range over every *)
(* kind of operation (wait, test for zero, signal, overflow) on the empty and the full *)
(* semaphore, a scratch one and one outside the set.                         *)
EXTENDS Semaphore

MCSembuf == [num : {0, 1, 4, 6}, op : {-1, 0, 1, SEMVMX - 1}, flg : {"wait", "nowait"}]
MCGarbage == MCSembuf \X MCSembuf
MCLeftover == {[k \in 0..NSems-1 |-> 0], [k \in 0..NSems-1 |-> IF k = 1 THEN 1 ELSE 0]}
=============================================================================
