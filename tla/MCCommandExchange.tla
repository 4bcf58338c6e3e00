------------------------- MODULE MCCommandExchange -------------------------
(* Model values and symmetry for the runs of CommandExchange.              *)
EXTENDS CommandExchange, TLC

CONSTANTS t1, t2

MCThreads == {t1, t2}
ThreadSymmetry == Permutations(MCThreads)
=============================================================================
