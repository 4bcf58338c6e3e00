------------------------- MODULE MCSessionLifecycle -------------------------
(* Model values for the runs of SessionLifecycle.                          *)
EXTENDS SessionLifecycle

CONSTANTS t1, t2, t3

=============================================================================
