----------------------------- MODULE MCRxQueue ------------------------------
(* Model values for the runs of RxQueue.                                    *)
EXTENDS RxQueue

CONSTANTS t1, t2

MCThreads == {t1, t2}
=============================================================================
