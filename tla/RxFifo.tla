------------------------------- MODULE RxFifo -------------------------------
(***************************************************************************)
(* What a channel's receive queue promises: messages come out whole, once, *)
(* in the order they arrived; a message that is refused is counted until   *)
(* the count is reported or the queue is wiped, and refusing one never     *)
(* disturbs those already queued.  No bytes, ring or capacity.             *)
(***************************************************************************)
EXTENDS Naturals, Sequences

CONSTANTS Messages, Nothing

VARIABLES
    queue,    \* the messages waiting, oldest first
    refused,  \* arrivals refused since the last report
    taken     \* the message handed out last

vars == <<queue, refused, taken>>

Init == queue = <<>> /\ refused = 0 /\ taken = Nothing

Accept ==
    /\ \E m \in Messages : queue' = Append(queue, m)
    /\ UNCHANGED <<refused, taken>>

Refuse == refused' = refused + 1 /\ UNCHANGED <<queue, taken>>

Take ==
    /\ queue # <<>>
    /\ taken' = Head(queue) /\ queue' = Tail(queue)
    /\ UNCHANGED refused

Report == refused' = 0 /\ UNCHANGED <<queue, taken>>

Wipe == queue' = <<>> /\ refused' = 0 /\ UNCHANGED taken

Next == Accept \/ Refuse \/ Take \/ Report \/ Wipe

Spec == Init /\ [][Next]_vars
=============================================================================
