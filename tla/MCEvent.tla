------------------------------- MODULE MCEvent -------------------------------
(***************************************************************************)
(* Event instantiated for TLC: the main thread and one worker pushing      *)
(* events, three messages and three modal-draw contexts.                   *)
(***************************************************************************)
EXTENDS Event, TLC

CONSTANTS m1, m2, m3, tMain, tWorker, c1, c2, c3

\* Messages and contexts are interchangeable; the threads are too.
Symm == Permutations(Msgs) \cup Permutations(Ctxs) \cup Permutations(Threads)

=============================================================================
