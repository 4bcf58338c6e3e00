--------------------------- MODULE MCCableLedger ----------------------------
(* Model values for the runs of CableLedger.                                *)
EXTENDS CableLedger, TLC

CONSTANTS t1, t2

ThreadSymmetry == Permutations(Threads)
=============================================================================
