--------------------------- MODULE MCReplyStorage ---------------------------
(* Model values for the runs of ReplyStorage.                              *)
EXTENDS ReplyStorage

CONSTANTS t1, t2

MCThreads == {t1, t2}
MCOneInitiator == {t1}
=============================================================================
