--------------------------- MODULE CommandService ---------------------------
(***************************************************************************)
(* What op_device_cmd promises its callers (op_device.h:126-138), with no  *)
(* wire, numbers or reply slot: commands are served one at a time; a       *)
(* command that succeeds returns its own reply; one that is not served     *)
(* returns because the session is over; the transport goes away only when  *)
(* no command is being served; and every command returns.                  *)
(***************************************************************************)
CONSTANTS Threads, NoThread

VARIABLES
    phase,      \* "idle", "waiting" for its turn or "serving"
    server,     \* the thread being served
    usable,     \* the session is open and its cable has not gone away
    retired,    \* the transport has been closed
    outcome     \* the last result: its status, and whether the reply is its own

vars == <<phase, server, usable, retired, outcome>>

Results == [status : {"none", "ok", "timeout", "no_device", "write_error", "sent"},
            own : BOOLEAN]

Init ==
    /\ phase = [t \in Threads |-> "idle"]
    /\ server = NoThread
    /\ usable = TRUE
    /\ retired = FALSE
    /\ outcome = [t \in Threads |-> [status |-> "none", own |-> TRUE]]

Request(t) ==
    /\ phase[t] = "idle"
    /\ phase' = [phase EXCEPT ![t] = "waiting"]
    /\ UNCHANGED <<server, usable, retired, outcome>>

Serve(t) ==
    /\ phase[t] = "waiting" /\ server = NoThread /\ usable
    /\ phase' = [phase EXCEPT ![t] = "serving"]
    /\ server' = t
    /\ UNCHANGED <<usable, retired, outcome>>

\* A served command returns: with its own reply, or without one.
Respond(t) ==
    /\ server = t
    /\ phase' = [phase EXCEPT ![t] = "idle"]
    /\ server' = NoThread
    /\ \E s \in {"ok", "timeout", "write_error", "sent"} :
          outcome' = [outcome EXCEPT ![t] = [status |-> s, own |-> TRUE]]
    /\ UNCHANGED <<usable, retired>>

\* No command is told that the session is over while it is not.
Reject(t) ==
    /\ ~usable
    /\ \/ phase[t] = "waiting" /\ server = NoThread /\ UNCHANGED server
       \/ server = t /\ server' = NoThread
    /\ phase' = [phase EXCEPT ![t] = "idle"]
    /\ outcome' = [outcome EXCEPT ![t] = [status |-> "no_device", own |-> TRUE]]
    /\ UNCHANGED <<usable, retired>>

\* The session is closed, or its cable goes away.
End ==
    /\ usable' = FALSE
    /\ UNCHANGED <<phase, server, retired, outcome>>

Retire ==
    /\ ~usable /\ server = NoThread
    /\ retired' = TRUE
    /\ UNCHANGED <<phase, server, usable, outcome>>

Next ==
    \/ \E t \in Threads : Request(t) \/ Serve(t) \/ Respond(t) \/ Reject(t)
    \/ End \/ Retire

Fairness ==
    \A t \in Threads : WF_vars(Serve(t) \/ Respond(t) \/ Reject(t))

SafeSpec == Init /\ [][Next]_vars
Spec == SafeSpec /\ Fairness
=============================================================================
