---------------------------- MODULE MCAtomicMetrics ----------------------------
(***************************************************************************)
(* Two threads that record, in up to three calls, and one that reads.      *)
(***************************************************************************)
EXTENDS AtomicMetrics, TLC

CONSTANTS t1, t2

TwoRecorders == {t1, t2}

(* Threads are not told apart. *)
MCSymmetry == Permutations(TwoRecorders)
=============================================================================
