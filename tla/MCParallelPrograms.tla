------------------------- MODULE MCParallelPrograms -------------------------
(* processesgalore.c with two threads, which fork two and three children,   *)
(* parallelfork.c with none to three children, and wide, deep and degenerate*)
(* fork trees with two signals, with the smallest full tree, of seven       *)
(* processes, without any.                                                  *)
EXTENDS ParallelPrograms

MCThreads == {0, 1}
MCForkChoices == 0..3
MCChoices == {<<0, 1, 2>>, <<2, 0, 2>>, <<3, 1, 2>>, <<1, 3, 2>>, <<2, 2, 0>>}
=============================================================================
