---------------------------- MODULE CableLedger -----------------------------
(***************************************************************************)
(* What the driver believes of the cable against what the cable does:      *)
(* open channels, running periodic messages, grounded and powered pins     *)
(* (op_j2534.c: PassThruConnect, Disconnect, Start/StopPeriodicMsg,        *)
(* SetProgrammingVoltage, CLEAR_PERIODIC_MSGS).                            *)
(*                                                                         *)
(* Each call checks the driver's record without a lock, sends one command  *)
(* and, when the reply comes, updates the record without a lock.  Commands *)
(* are served one at a time (CommandExchange), but the checks and the      *)
(* updates of two threads interleave with them.  A command may also be     *)
(* lost, or be served and its reply lost: the call then returns an error.  *)
(*                                                                         *)
(* The cable is external: its side follows docs/PROTOCOL.md sections 5, 8  *)
(* and 10 as the driver relies on them.                                    *)
(***************************************************************************)
EXTENDS Integers, FiniteSets

CONSTANTS
    Threads,    \* the application's threads
    KeptApart,  \* whether the application keeps calls that conflict apart
    Channels,   \* firmware channels, of 3, 4, 7 and 8
    Pins,       \* OBD pins
    Limit,      \* OP_PERIODIC_PER_CH
    FirmwareLimit,  \* messages the firmware runs on a channel: ten as well
    UnsignedMax,\* the largest `unsigned`: what nperiodic wraps to below zero
    MaxIds,     \* bound: periodic messages ever started
    MaxLosses   \* bound: commands or replies lost

ASSUME LedgerAssumption ==
    /\ Channels \subseteq {3, 4, 7, 8} /\ Pins \subseteq 0 .. 31
    /\ KeptApart \in BOOLEAN
    /\ Limit \in Nat \ {0} /\ FirmwareLimit \in Nat /\ UnsignedMax \in Nat /\ Limit < UnsignedMax
    /\ MaxIds \in Nat /\ MaxLosses \in Nat

OP_PIN_K == 7
OP_PIN_L == 15
Ids == 1 .. MaxIds
NoId == 0
Slots == 0 .. Limit - 1
Voltages == {"off", "ground", "volts"}

VARIABLES
    open,      \* d->ch[].open, the set of open channels
    periodic, nperiodic,
    pinsGrounded, pinsPowered,
    op,        \* each thread's call: its command and how far it is
    cable,     \* the cable's side
    losses,    \* commands or replies lost
    \* History that only the properties read: what a lost command or reply was
    \* about, until an answer tells again how the cable has it.
    unsureChannels, unsurePins

record == <<open, periodic, nperiodic, pinsGrounded, pinsPowered>>
unsure == <<unsureChannels, unsurePins>>
vars == <<record, op, cable, losses, unsure>>

Idle == [stage |-> "idle", verb |-> "none", ch |-> 0, pin |-> 0,
         volt |-> "off", id |-> NoId, slot |-> 0, reply |-> "none"]

\* The cable after `atz` and `ata`; ids are never reused, not even then.
Fresh(nextId) == [open |-> {}, live |-> [c \in Channels |-> {}],
                  ground |-> {}, power |-> {}, nextId |-> nextId]

TypeOK ==
    /\ open \subseteq Channels
    /\ periodic \in [Channels -> [Slots -> Ids \cup {NoId}]]
    /\ nperiodic \in [Channels -> 0 .. UnsignedMax]
    /\ pinsGrounded \subseteq Pins /\ pinsPowered \subseteq Pins
    /\ op \in [Threads ->
          [stage : {"idle", "sent", "answered"},
           verb : {"none", "ato", "atc", "undo", "atm", "atn", "atl", "atv"},
           ch : Channels \cup {0}, pin : Pins \cup {0}, volt : Voltages,
           id : Ids \cup {NoId}, slot : Slots,
           reply : {"none", "aro", "are", "are13", "lost"}]]
    /\ cable \in [open : SUBSET Channels, live : [Channels -> SUBSET Ids],
                  ground : SUBSET Pins, power : SUBSET Pins, nextId : 1 .. MaxIds + 1]
    /\ losses \in 0 .. MaxLosses
    /\ unsureChannels \subseteq Channels /\ unsurePins \subseteq Pins

Init ==
    /\ open = {}
    /\ periodic = [c \in Channels |-> [s \in Slots |-> NoId]]
    /\ nperiodic = [c \in Channels |-> 0]
    /\ pinsGrounded = {} /\ pinsPowered = {}
    /\ op = [t \in Threads |-> Idle]
    /\ cable = Fresh(1)
    /\ losses = 0 /\ unsureChannels = {} /\ unsurePins = {}

(***************************************************************************)
(* The cable.                                                              *)
(***************************************************************************)
Partner(c) == CASE c = 3 -> 4 [] c = 4 -> 3 [] c = 7 -> 8 [] c = 8 -> 7

\* A command's effect and reply, a pair; an `are` changes nothing.
Refused(code) == <<cable, code>>

ServeOpen(c) ==
    IF c \in cable.open \/ Partner(c) \in cable.open THEN Refused("are")
    ELSE <<[cable EXCEPT !.open = @ \cup {c}], "aro">>

\* Answered so even when the channel is not open.
ServeClose(c) ==
    <<[cable EXCEPT !.open = @ \ {c}, !.live[c] = {}], "aro">>

ServeStart(c) ==
    IF c \notin cable.open \/ Cardinality(cable.live[c]) >= FirmwareLimit
                         \/ cable.nextId > MaxIds
    THEN Refused("are")
    ELSE <<[cable EXCEPT !.live[c] = @ \cup {cable.nextId}, !.nextId = @ + 1], "aro">>

ServeStop(c, id) ==
    IF id \notin cable.live[c] THEN Refused("are13")
    ELSE <<[cable EXCEPT !.live[c] = @ \ {id}], "aro">>

ServeClear(c) ==
    IF c \notin cable.open THEN Refused("are")
    ELSE <<[cable EXCEPT !.live[c] = {}], "aro">>

\* It grounds a line in use and powers a second pin when asked to.
ServeVoltage(pin, v) ==
    <<[cable EXCEPT !.ground = IF v = "ground" THEN @ \cup {pin} ELSE @ \ {pin},
                    !.power = IF v = "volts" THEN @ \cup {pin} ELSE @ \ {pin}], "aro">>

\* What the cable may do with a command.  `are 12`, an interval of the wrong
\* size and the end of the ids are alike: no message is started; a voltage
\* may be out of range, or the pin not take it.
Outcomes(o) ==
    CASE o.verb = "ato" -> {ServeOpen(o.ch)}
      [] o.verb \in {"atc", "undo"} -> {ServeClose(o.ch)}
      [] o.verb = "atm" -> {ServeStart(o.ch)}
      [] o.verb = "atn" -> {ServeStop(o.ch, o.id)}
      [] o.verb = "atl" -> {ServeClear(o.ch)}
      [] o.verb = "atv" -> {ServeVoltage(o.pin, o.volt), Refused("are")}

Answer(t, reply) ==
    op' = [op EXCEPT ![t].stage = "answered", ![t].reply = reply,
                     ![t].id = IF op[t].verb = "atm" /\ reply = "aro" THEN cable.nextId ELSE @]

Serve(t) ==
    /\ op[t].stage = "sent"
    /\ \E outcome \in Outcomes(op[t]) :
          cable' = outcome[1] /\ Answer(t, outcome[2])
    /\ UNCHANGED <<record, losses, unsure>>

LoseReply(t) ==
    /\ op[t].stage = "sent" /\ losses < MaxLosses
    /\ \/ \E outcome \in Outcomes(op[t]) : cable' = outcome[1]
       \/ UNCHANGED cable
    /\ Answer(t, "lost")
    /\ losses' = losses + 1
    /\ unsureChannels' = unsureChannels \cup ({op[t].ch} \cap Channels)
    /\ unsurePins' = unsurePins \cup IF op[t].verb = "atv" THEN {op[t].pin} ELSE {}
    /\ UNCHANGED record

(***************************************************************************)
(* The calls: the checks, up to the command.                               *)
(***************************************************************************)
\* Calls about one channel, two about the pins, or one that connects a line
\* and one about the pins.
Opens(o) == o.verb \in {"ato", "undo"}
Conflict(o, p) ==
    \/ o.ch = p.ch
    \/ o.verb = "atv" /\ Opens(p)
    \/ p.verb = "atv" /\ Opens(o)

Busy(t) == op[t].stage # "idle"

Send(t, o) ==
    /\ ~Busy(t)
    /\ op' = [op EXCEPT ![t] = [o EXCEPT !.stage = "sent"]]
    /\ KeptApart => \A u \in Threads : Busy(u) => ~Conflict(o, op[u])
    /\ UNCHANGED <<record, cable, losses, unsure>>

\* protocol_uses_pin, for the protocol of each channel.
UsesPin(c, pin) ==
    \/ c \in {3, 4} /\ pin = OP_PIN_K
    \/ c \in {7, 8} /\ pin = OP_PIN_L

\* Mutant: the grounded pins are not looked at.
LineFreeUngrounded(c) == c \notin open /\ Partner(c) \notin open

LineFree(c) ==
    /\ c \notin open /\ Partner(c) \notin open
    /\ \A pin \in pinsGrounded : ~UsesPin(c, pin)

Connect(t, c) == LineFree(c) /\ Send(t, [Idle EXCEPT !.verb = "ato", !.ch = c])

Disconnect(t, c) == c \in open /\ Send(t, [Idle EXCEPT !.verb = "atc", !.ch = c])

\* Mutant: one more than the list has room for.
StartOneTooMany(t, c) ==
    /\ c \in open /\ nperiodic[c] <= Limit
    /\ Send(t, [Idle EXCEPT !.verb = "atm", !.ch = c])

StartPeriodicMsg(t, c) ==
    /\ c \in open /\ nperiodic[c] < Limit
    /\ Send(t, [Idle EXCEPT !.verb = "atm", !.ch = c])

StopPeriodicMsg(t, c, s) ==
    /\ c \in open /\ s < nperiodic[c]
    /\ \A r \in Slots : r < s => periodic[c][r] # periodic[c][s]
    /\ Send(t, [Idle EXCEPT !.verb = "atn", !.ch = c, !.slot = s, !.id = periodic[c][s]])

ClearPeriodicMsgs(t, c) == c \in open /\ Send(t, [Idle EXCEPT !.verb = "atl", !.ch = c])

PinAllowed(pin, v) ==
    /\ v = "volts" => pinsPowered \subseteq {pin}
    /\ v = "ground" => \A c \in open : ~UsesPin(c, pin)

SetProgrammingVoltage(t, pin, v) ==
    PinAllowed(pin, v) /\ Send(t, [Idle EXCEPT !.verb = "atv", !.pin = pin, !.volt = v])

(***************************************************************************)
(* The calls: the reply, and what the driver records of it.                *)
(***************************************************************************)
Done(t) == op' = [op EXCEPT ![t] = Idle]

Answered(t, verb) == op[t].stage = "answered" /\ op[t].verb = verb

\* Mutant: the slot is dropped on any reply, a lost one included.
StopAnswers == {"aro", "are13", "are", "lost"}

\* The replies on which periodic_stop forgets the message.
GoneAnswers == {"aro", "are13"}

Failed(t) ==
    /\ op[t].stage = "answered"
    /\ op[t].verb \in {"ato", "atm", "atn", "atl", "atv"}
    /\ op[t].reply \notin IF op[t].verb = "atn" THEN GoneAnswers ELSE {"aro"}
    /\ Done(t)
    /\ UNCHANGED <<record, cable, losses, unsure>>

\* op_device_open_channel clears the record of the channel; when it finds no
\* memory the channel is closed again, whatever the cable says to that.
Connected(t) ==
    /\ Answered(t, "ato") /\ op[t].reply = "aro"
    /\ \/ /\ open' = open \cup {op[t].ch}
          /\ Done(t)
       \/ /\ op' = [op EXCEPT ![t].stage = "sent", ![t].verb = "undo", ![t].reply = "none"]
          /\ UNCHANGED open
    /\ nperiodic' = [nperiodic EXCEPT ![op[t].ch] = 0]
    /\ periodic' = [periodic EXCEPT ![op[t].ch] = [s \in Slots |-> NoId]]
    /\ unsureChannels' = unsureChannels \ {op[t].ch}
    /\ UNCHANGED <<pinsGrounded, pinsPowered, cable, losses, unsurePins>>

Undone(t) ==
    /\ Answered(t, "undo") /\ Done(t)
    /\ UNCHANGED <<record, cable, losses, unsure>>

\* Whatever the reply.
Disconnected(t) ==
    /\ Answered(t, "atc") /\ Done(t)
    /\ open' = open \ {op[t].ch}
    /\ nperiodic' = [nperiodic EXCEPT ![op[t].ch] = 0]
    /\ unsureChannels' = unsureChannels \ IF op[t].reply = "aro" THEN {op[t].ch} ELSE {}
    /\ UNCHANGED <<periodic, pinsGrounded, pinsPowered, cable, losses, unsurePins>>

\* Only calls that overlap on a channel can make this write past the list;
\* the model does not follow where to.
Started(t) ==
    /\ Answered(t, "atm") /\ op[t].reply = "aro" /\ Done(t)
    /\ LET c == op[t].ch IN
       /\ periodic' = [periodic EXCEPT ![c] =
                          [s \in Slots |-> IF s = nperiodic[c] THEN op[t].id ELSE @[s]]]
       /\ nperiodic' = [nperiodic EXCEPT ![c] = (@ + 1) % (UnsignedMax + 1)]
    /\ UNCHANGED <<open, pinsGrounded, pinsPowered, cable, losses, unsure>>

Decrement(n) == IF n = 0 THEN UnsignedMax ELSE n - 1

\* The last entry moves into the slot found before the command was sent.
Stopped(t) ==
    /\ Answered(t, "atn") /\ op[t].reply \in GoneAnswers /\ Done(t)
    /\ LET c == op[t].ch
           n == Decrement(nperiodic[c]) IN
       /\ nperiodic' = [nperiodic EXCEPT ![c] = n]
       /\ periodic' = [periodic EXCEPT ![c][op[t].slot] =
                          IF n \in Slots THEN periodic[c][n] ELSE @]
    /\ UNCHANGED <<open, pinsGrounded, pinsPowered, cable, losses, unsure>>

Cleared(t) ==
    /\ Answered(t, "atl") /\ op[t].reply = "aro" /\ Done(t)
    /\ nperiodic' = [nperiodic EXCEPT ![op[t].ch] = 0]
    /\ unsureChannels' = unsureChannels \ {op[t].ch}
    /\ UNCHANGED <<open, periodic, pinsGrounded, pinsPowered, cable, losses, unsurePins>>

VoltageSet(t) ==
    /\ Answered(t, "atv") /\ op[t].reply = "aro" /\ Done(t)
    /\ LET rest(pins) == pins \ {op[t].pin} IN
       /\ pinsGrounded' = rest(pinsGrounded) \cup IF op[t].volt = "ground" THEN {op[t].pin} ELSE {}
       /\ pinsPowered' = rest(pinsPowered) \cup IF op[t].volt = "volts" THEN {op[t].pin} ELSE {}
    /\ unsurePins' = unsurePins \ {op[t].pin}
    /\ UNCHANGED <<open, periodic, nperiodic, cable, losses, unsureChannels>>

Quiet == \A t \in Threads : ~Busy(t)

\* PassThruClose, then PassThruOpen, with no other call under way: the record
\* is reset and the cable too.
Restart ==
    /\ Quiet
    /\ open' = {} /\ pinsGrounded' = {} /\ pinsPowered' = {}
    /\ periodic' = [c \in Channels |-> [s \in Slots |-> NoId]]
    /\ nperiodic' = [c \in Channels |-> 0]
    /\ cable' = Fresh(cable.nextId)
    /\ unsureChannels' = {} /\ unsurePins' = {}
    /\ UNCHANGED <<op, losses>>

Finish(t) ==
    \/ Failed(t) \/ Connected(t) \/ Undone(t) \/ Disconnected(t) \/ Started(t)
    \/ Stopped(t) \/ Cleared(t) \/ VoltageSet(t)

Begin(t) ==
    \/ \E c \in Channels :
          \/ Connect(t, c) \/ Disconnect(t, c) \/ StartPeriodicMsg(t, c)
          \/ ClearPeriodicMsgs(t, c)
          \/ \E s \in Slots : StopPeriodicMsg(t, c, s)
    \/ \E pin \in Pins, v \in Voltages : SetProgrammingVoltage(t, pin, v)

Next ==
    \/ Restart
    \/ \E t \in Threads : Begin(t) \/ Serve(t) \/ LoseReply(t) \/ Finish(t)

Spec == Init /\ [][Next]_vars

(***************************************************************************)
(* Properties.                                                             *)
(***************************************************************************)
Recorded(c) == {periodic[c][s] : s \in {r \in Slots : r < nperiodic[c]}}

\* While no call is under way about a channel, the record of the channel is the
\* truth, whatever other threads do with other channels: it is open, and its
\* messages run, as the cable has it.  So with each pin.  A lost command or reply
\* makes nothing doubtful but what its call was about, and that only until a
\* later answer settles it.  And no entry is ever past the end of the list.
RecordIsTrue ==
    /\ TypeOK
    /\ \A c \in Channels : nperiodic[c] <= Limit
    /\ \A c \in Channels \ unsureChannels : (\A t \in Threads : op[t].ch # c) =>
          (c \in open <=> c \in cable.open) /\ Recorded(c) = cable.live[c]
    /\ \A pin \in Pins \ unsurePins :
          (\A t \in Threads : ~(op[t].verb = "atv" /\ op[t].pin = pin)) =>
             /\ pin \in pinsGrounded <=> pin \in cable.ground
             /\ pin \in pinsPowered <=> pin \in cable.power

\* While its channel stays open, a recorded message is forgotten only once
\* the cable has stopped it, even when replies are lost: until then it can be
\* stopped by its id.
ForgottenOnlyWhenStopped ==
    [][\A c \in open \cap open' :
          (Recorded(c) \ Recorded(c)') \cap cable'.live[c] = {}]_vars

\* docs/API.md, "No grounding a line in use": the cable never has an open
\* K-line or L-line channel on a grounded pin, unless a lost reply left the
\* channel or the pin in doubt.
LineNotGrounded ==
    \A c \in cable.open \ unsureChannels, pin \in cable.ground \ unsurePins :
        ~UsesPin(c, pin)

\* The same, and "One pin at a time": of the pins that are not in doubt, the
\* supply is on one at most.
PinsRespected ==
    LineNotGrounded /\ \A p, q \in cable.power \ unsurePins : p = q
=============================================================================
