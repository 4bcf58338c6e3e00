-------------------------- MODULE CableLedgerProofs --------------------------
(***************************************************************************)
(* Proofs about CableLedger for an application that keeps calls apart that *)
(* conflict: whatever its threads call, on any channels and pins and for   *)
(* any number of messages, the driver's record stays what the cable does,  *)
(* but for what a lost command or reply was about.                         *)
(***************************************************************************)
EXTENDS CableLedger, TLAPS

ChannelVerbs == {"ato", "undo", "atc", "atm", "atn", "atl"}
Verbs == {"ato", "undo", "atc", "atm", "atn", "atl", "atv"}
Replies == {"aro", "are", "are13", "lost"}

\* What a call is about; a voltage and no call at all are about no channel.
StageInv(o) ==
    /\ o.stage = "idle" <=> o.verb = "none"
    /\ o.stage # "answered" <=> o.reply = "none"
    /\ IF o.verb \in ChannelVerbs THEN o.ch \in Channels ELSE o.ch = 0
    /\ o.verb = "atv" => o.pin \in Pins
    /\ o.verb = "atm" /\ o.reply = "aro" => o.id \in Ids

\* The cable runs messages on open channels, and gives each an id of its own.
CableInv ==
    \A c \in Channels : /\ c \notin cable.open => cable.live[c] = {}
                        /\ \A id \in cable.live[c] : id < cable.nextId

TypeInv == TypeOK /\ (\A t \in Threads : StageInv(op[t])) /\ CableInv

ApartInv ==
    \A t, u \in Threads : t # u /\ Busy(t) /\ Busy(u) => ~Conflict(op[t], op[u])

\* What a call checked before its command is still so when the reply is there:
\* nobody else changes what it is about.
ChannelCall(o) ==
    /\ Opens(o) => o.ch \notin open /\ \A pin \in pinsGrounded : ~UsesPin(o.ch, pin)
    /\ o.verb \in {"atc", "atm", "atn", "atl"} => o.ch \in open

StartCall(o) == o.verb = "atm" => nperiodic[o.ch] < Limit

\* A message is forgotten on a reply that says it is gone.
StopCall(o) ==
    o.verb = "atn" => /\ o.slot < nperiodic[o.ch] /\ o.id = periodic[o.ch][o.slot]
                      /\ o.reply \in GoneAnswers => o.id \notin cable.live[o.ch]

\* What an answer of "aro" leaves of the cable b, whatever it was before.
Settled(o, r, b) ==
    r = "aro" =>
        /\ o.verb \in {"ato", "atc", "atl"} =>
              b.live[o.ch] = {} /\ (o.ch \in b.open <=> o.verb # "atc")
        /\ o.verb = "atv" => /\ o.pin \in b.ground <=> o.volt = "ground"
                             /\ o.pin \in b.power <=> o.volt = "volts"

SettledCall(o) == Settled(o, o.reply, cable)

PinCall(o) == o.verb = "atv" => PinAllowed(o.pin, o.volt)

CallInv(o) ==
    ChannelCall(o) /\ StartCall(o) /\ StopCall(o) /\ SettledCall(o) /\ PinCall(o)

\* The list of messages is no longer than its array, and empty when closed.
ListInv ==
    \A c \in Channels : nperiodic[c] <= Limit /\ (c \notin open => nperiodic[c] = 0)

\* The record breaks no rule about the pins.
PinsInv == /\ \A c \in open, pin \in pinsGrounded : ~UsesPin(c, pin)
           /\ \A p, q \in pinsPowered : p = q

HoldInv == ApartInv /\ (\A t \in Threads : CallInv(op[t])) /\ ListInv /\ PinsInv

\* What the cable has done that a call has yet to record: it is open if it was
\* recorded or opened, and the call has not closed it.
Opened(o) == \/ o.verb = "ato" /\ o.reply = "aro"
             \/ o.verb = "undo" /\ o.stage = "sent"
Closed(o) == o.verb = "atc" /\ o.stage = "answered"

LiveAfter(o, ids) ==
    CASE o.verb = "atm" /\ o.reply = "aro" -> ids \cup {o.id}
      [] o.verb = "atn" /\ o.reply \in GoneAnswers -> ids \ {o.id}
      [] o.verb = "atl" /\ o.reply = "aro" -> {}
      [] o.verb = "atc" /\ o.stage = "answered" -> {}
      [] OTHER -> ids

\* No message is recorded twice.
Distinct(c) ==
    \A r, s \in Slots :
        r < nperiodic[c] /\ s < nperiodic[c] /\ periodic[c][r] = periodic[c][s] => r = s

\* A channel at the cable, when o is the call about it.
ChannelTrue(c, o) ==
    /\ c \in cable.open <=> (c \in open \/ Opened(o)) /\ ~Closed(o)
    /\ cable.live[c] = LiveAfter(o, Recorded(c))
    /\ o.verb = "atm" /\ o.reply = "aro" => o.id \notin Recorded(c)
    /\ Distinct(c)

\* Of the channels that no lost command or reply has left in doubt.
ChannelsTrue ==
    \A c \in Channels \ unsureChannels :
        /\ \A t \in Threads : op[t].ch = c => ChannelTrue(c, op[t])
        /\ (\A t \in Threads : op[t].ch # c) => ChannelTrue(c, Idle)

\* Whether a pin has the voltage v, when o is the call about the pins.
Moved(o, p) == o.verb = "atv" /\ o.pin = p /\ o.reply = "aro"
PinHas(o, p, v, pins) == IF Moved(o, p) THEN o.volt = v ELSE p \in pins

PinTrue(p, o) == /\ p \in cable.ground <=> PinHas(o, p, "ground", pinsGrounded)
                 /\ p \in cable.power <=> PinHas(o, p, "volts", pinsPowered)

PinsTrue ==
    \A p \in Pins \ unsurePins :
        /\ \A t \in Threads : op[t].verb = "atv" => PinTrue(p, op[t])
        /\ (\A t \in Threads : op[t].verb # "atv") => PinTrue(p, Idle)

TruthInv == ChannelsTrue /\ PinsTrue

IInv == TypeInv /\ HoldInv /\ TruthInv
-----------------------------------------------------------------------------
Ops == [stage : {"idle", "sent", "answered"}, verb : {"none"} \cup Verbs,
        ch : Channels \cup {0}, pin : Pins \cup {0}, volt : Voltages,
        id : Ids \cup {NoId}, slot : Slots, reply : {"none"} \cup Replies]

Cables == [open : SUBSET Channels, live : [Channels -> SUBSET Ids],
           ground : SUBSET Pins, power : SUBSET Pins, nextId : 1 .. MaxIds + 1]

\* The types, by component.
RecordTypes ==
    /\ open \subseteq Channels
    /\ periodic \in [Channels -> [Slots -> Ids \cup {NoId}]]
    /\ nperiodic \in [Channels -> 0 .. UnsignedMax]
    /\ pinsGrounded \subseteq Pins /\ pinsPowered \subseteq Pins

UnsureTypes == unsureChannels \subseteq Channels /\ unsurePins \subseteq Pins

LEMMA Types ==
    TypeOK <=> /\ RecordTypes /\ op \in [Threads -> Ops] /\ cable \in Cables
               /\ losses \in 0 .. MaxLosses /\ UnsureTypes
<1>1. /\ {"none"} \cup Verbs = {"none", "ato", "atc", "undo", "atm", "atn", "atl", "atv"}
      /\ {"none"} \cup Replies = {"none", "aro", "are", "are13", "lost"}
  BY DEF Verbs, Replies
<1> QED
  BY <1>1 DEF TypeOK, RecordTypes, UnsureTypes, Ops, Cables

\* An idle call, and the first slot, are well formed; 0 is no channel.
LEMMA IdleType == Idle \in Ops /\ 0 \in Slots /\ 0 \notin Channels
<1>1. 0 \in Slots /\ 0 \notin Channels
  BY LedgerAssumption DEF Slots
<1> QED
  BY <1>1 DEF Idle, Ops, Voltages, NoId

\* What a step keeps of a channel, and of the pins.
KeepsChannel(c) ==
    /\ c \in open' <=> c \in open
    /\ periodic'[c] = periodic[c] /\ nperiodic'[c] = nperiodic[c]
    /\ c \in cable'.open <=> c \in cable.open
    /\ cable'.live[c] = cable.live[c]
    /\ c \in unsureChannels' <=> c \in unsureChannels

KeepsPins == /\ UNCHANGED <<pinsGrounded, pinsPowered, unsurePins>>
             /\ cable'.ground = cable.ground /\ cable'.power = cable.power

\* What a command leaves alone at the cable.
CableKept(o) ==
    /\ \A c \in Channels : o.ch # c => /\ c \in cable'.open <=> c \in cable.open
                                      /\ cable'.live[c] = cable.live[c]
    /\ o.verb # "atv" => cable'.ground = cable.ground /\ cable'.power = cable.power
    /\ \A p \in Pins : o.pin # p => /\ p \in cable'.ground <=> p \in cable.ground
                                    /\ p \in cable'.power <=> p \in cable.power

\* What the cable makes of a command.
LEMMA CableMoves ==
    ASSUME TypeInv, NEW t \in Threads, op[t].stage = "sent",
           NEW x \in Outcomes(op[t]), cable' = x[1]
    PROVE  /\ cable' \in Cables /\ CableInv' /\ x[2] \in {"aro", "are", "are13"}
           /\ op[t].verb = "atm" /\ x[2] = "aro" => cable.nextId \in Ids
           /\ op[t].verb = "atn" /\ x[2] \in GoneAnswers
                  => op[t].id \notin cable'.live[op[t].ch]
           /\ Settled(op[t], x[2], cable') /\ CableKept(op[t])
<1> DEFINE o == op[t]
<1>1. /\ o \in Ops /\ cable \in Cables /\ CableInv /\ o.verb \in Verbs
      /\ o.verb # "atv" => o.ch \in Channels
      /\ o.verb = "atv" => o.pin \in Pins
  BY Types DEF TypeInv, StageInv, Ops, Verbs, ChannelVerbs
<1> HIDE DEF o
<1>2. x \in Outcomes(o)
  BY DEF o
<1> SUFFICES /\ cable' \in Cables /\ CableInv' /\ x[2] \in {"aro", "are", "are13"}
             /\ o.verb = "atm" /\ x[2] = "aro" => cable.nextId \in Ids
             /\ o.verb = "atn" /\ x[2] \in GoneAnswers => o.id \notin cable'.live[o.ch]
             /\ Settled(o, x[2], cable') /\ CableKept(o)
  BY DEF o
<1> USE DEF Cables, CableInv, Refused, GoneAnswers, CableKept, Settled
<1>3. CASE o.verb = "ato"
  <2>1. \/ x = <<cable, "are">>
        \/ /\ o.ch \notin cable.open
           /\ x = <<[cable EXCEPT !.open = @ \cup {o.ch}], "aro">>
    BY <1>2, <1>3 DEF Outcomes, ServeOpen
  <2>2. CASE /\ o.ch \notin cable.open
             /\ x = <<[cable EXCEPT !.open = @ \cup {o.ch}], "aro">>
    <3>1. cable' = [cable EXCEPT !.open = @ \cup {o.ch}] /\ x[2] = "aro"
      BY <2>2
    <3> QED
      BY <1>1, <1>3, <2>2, <3>1
  <2> QED
    BY <1>1, <1>3, <2>1, <2>2
<1>4. CASE o.verb \in {"atc", "undo"}
  <2>1. cable' = [cable EXCEPT !.open = @ \ {o.ch}, !.live[o.ch] = {}] /\ x[2] = "aro"
    BY <1>2, <1>4 DEF Outcomes, ServeClose
  <2>2. /\ cable'.open = cable.open \ {o.ch} /\ cable'.nextId = cable.nextId
        /\ cable'.live[o.ch] = {}
        /\ \A c \in Channels \ {o.ch} : cable'.live[c] = cable.live[c]
        /\ cable'.ground = cable.ground /\ cable'.power = cable.power
    BY <1>1, <1>4, <2>1
  <2>3. cable' \in Cables
    <3>1. [cable.live EXCEPT ![o.ch] = {}] \in [Channels -> SUBSET Ids]
      BY <1>1, <1>4
    <3>2. cable' = [open |-> cable.open \ {o.ch}, live |-> [cable.live EXCEPT ![o.ch] = {}],
                    ground |-> cable.ground, power |-> cable.power, nextId |-> cable.nextId]
      BY <1>1, <2>1
    <3> QED
      BY <1>1, <3>1, <3>2
  <2>4. CableInv'
    BY <1>1, <2>2
  <2> QED
    BY <1>4, <2>1, <2>2, <2>3, <2>4
<1>5. CASE o.verb = "atm"
  <2>1. \/ x = <<cable, "are">>
        \/ /\ o.ch \in cable.open /\ cable.nextId \in Ids
           /\ x = <<[cable EXCEPT !.live[o.ch] = @ \cup {cable.nextId}, !.nextId = @ + 1],
                    "aro">>
    BY <1>1, <1>2, <1>5, LedgerAssumption DEF Outcomes, ServeStart, Ids
  <2>2. CASE /\ o.ch \in cable.open /\ cable.nextId \in Ids
             /\ x = <<[cable EXCEPT !.live[o.ch] = @ \cup {cable.nextId}, !.nextId = @ + 1],
                      "aro">>
    <3>1. /\ cable' = [cable EXCEPT !.live[o.ch] = @ \cup {cable.nextId}, !.nextId = @ + 1]
          /\ x[2] = "aro"
      BY <2>2
    <3>2. /\ cable'.open = cable.open /\ cable'.nextId = cable.nextId + 1
          /\ cable'.live[o.ch] = cable.live[o.ch] \cup {cable.nextId}
          /\ \A c \in Channels \ {o.ch} : cable'.live[c] = cable.live[c]
      BY <1>1, <1>5, <3>1
    <3>3. cable' \in Cables
      <4>1. [cable.live EXCEPT ![o.ch] = @ \cup {cable.nextId}] \in [Channels -> SUBSET Ids]
        BY <1>1, <1>5, <2>2
      <4>2. cable' = [open |-> cable.open,
                      live |-> [cable.live EXCEPT ![o.ch] = @ \cup {cable.nextId}],
                      ground |-> cable.ground, power |-> cable.power,
                      nextId |-> cable.nextId + 1]
        BY <1>1, <3>1
      <4>3. cable.nextId + 1 \in 1 .. MaxIds + 1
        BY <2>2, LedgerAssumption DEF Ids
      <4> QED
        BY <1>1, <4>1, <4>2, <4>3
    <3>4. CableInv'
      <4>1. cable.nextId \in Nat /\ \A c \in Channels : cable.live[c] \subseteq Nat
        BY <1>1, LedgerAssumption DEF Ids
      <4>2. ASSUME NEW c \in Channels, NEW id \in cable'.live[c]
            PROVE  id < cable'.nextId
        <5>1. id \in cable.live[c] \/ id = cable.nextId
          BY <1>5, <1>1, <3>2
        <5>2. id < cable.nextId + 1
          BY <1>1, <4>1, <5>1
        <5> QED
          BY <3>2, <5>2
      <4>3. ASSUME NEW c \in Channels, c \notin cable'.open
            PROVE  cable'.live[c] = {}
        BY <1>1, <2>2, <3>2, <4>3
      <4> QED
        BY <4>2, <4>3
    <3> QED
      BY <1>5, <2>2, <3>1, <3>3, <3>4
  <2> QED
    BY <1>1, <1>5, <2>1, <2>2
<1>6. CASE o.verb = "atn"
  BY <1>1, <1>2, <1>6 DEF Outcomes, ServeStop
<1>7. CASE o.verb = "atl"
  BY <1>1, <1>2, <1>7 DEF Outcomes, ServeClear
<1>8. CASE o.verb = "atv"
  <2> DEFINE moved(v, pins) == IF o.volt = v THEN pins \cup {o.pin} ELSE pins \ {o.pin}
  <2>1. \/ x = <<cable, "are">>
        \/ x = <<[cable EXCEPT !.ground = moved("ground", @), !.power = moved("volts", @)],
                 "aro">>
    BY <1>2, <1>8 DEF Outcomes, ServeVoltage
  <2>2. CASE x = <<[cable EXCEPT !.ground = moved("ground", @),
                                 !.power = moved("volts", @)], "aro">>
    <3>1. /\ cable' = [cable EXCEPT !.ground = moved("ground", @), !.power = moved("volts", @)]
          /\ x[2] = "aro"
      BY <2>2
    <3>2. PICK g \in SUBSET Pins : g = moved("ground", cable.ground)
      BY <1>1, <1>8
    <3>3. PICK p \in SUBSET Pins : p = moved("volts", cable.power)
      BY <1>1, <1>8
    <3> HIDE DEF moved
    <3>4. /\ cable' \in Cables /\ cable'.open = cable.open /\ cable'.live = cable.live
          /\ cable'.nextId = cable.nextId /\ cable'.ground = g /\ cable'.power = p
      BY <1>1, <3>1, <3>2, <3>3
    <3>5. CableInv'
      BY <1>1, <3>4
    <3>6. /\ o.pin \in g <=> o.volt = "ground"
          /\ o.pin \in p <=> o.volt = "volts"
          /\ \A q \in Pins : o.pin # q => /\ q \in g <=> q \in cable.ground
                                          /\ q \in p <=> q \in cable.power
      BY <3>2, <3>3 DEF moved
    <3> QED
      BY <1>8, <3>1, <3>4, <3>5, <3>6
  <2> QED
    BY <1>1, <1>8, <2>1, <2>2
<1> QED
  BY <1>1, <1>3, <1>4, <1>5, <1>6, <1>7, <1>8 DEF Verbs

\* A reply changes its call's stage, and tells the id of a message started.
LEMMA AnswerMoves ==
    ASSUME TypeInv, NEW t \in Threads, NEW r \in Replies, Answer(t, r),
           op[t].verb = "atm" /\ r = "aro" => cable.nextId \in Ids
    PROVE  /\ op' \in [Threads -> Ops]
           /\ \A u \in Threads \ {t} : op'[u] = op[u]
           /\ op'[t] = [op[t] EXCEPT !.stage = "answered", !.reply = r,
                         !.id = IF op[t].verb = "atm" /\ r = "aro" THEN cable.nextId ELSE @]
<1>1. op \in [Threads -> Ops]
  BY Types DEF TypeInv
<1>2. op[t] \in Ops
  BY <1>1
<1>3. op'[t] = [op[t] EXCEPT !.stage = "answered", !.reply = r,
                !.id = IF op[t].verb = "atm" /\ r = "aro" THEN cable.nextId ELSE @]
  BY <1>1, <1>2 DEF Answer, Ops
<1>4. op'[t] \in Ops
  BY <1>2, <1>3 DEF Ops
<1> QED
  BY <1>1, <1>3, <1>4 DEF Answer


\* A call begins with what it checked, and apart from what it conflicts with.
LEMMA BeginMoves ==
    ASSUME TypeInv, NEW me \in Threads, Begin(me)
    PROVE  /\ UNCHANGED <<open, periodic, nperiodic, pinsGrounded, pinsPowered, cable,
                          losses, unsureChannels, unsurePins>>
           /\ op' \in [Threads -> Ops] /\ \A u \in Threads \ {me} : op'[u] = op[u]
           /\ op[me].stage = "idle" /\ op'[me].stage = "sent" /\ op'[me].reply = "none"
           /\ op'[me].verb # "undo"
           /\ StageInv(op'[me]) /\ CallInv(op'[me])
           /\ KeptApart => \A u \in Threads : Busy(u) => ~Conflict(op'[me], op[u])
<1>1. RecordTypes /\ op \in [Threads -> Ops]
  BY Types DEF TypeInv
<1>2. /\ UNCHANGED <<open, periodic, nperiodic, pinsGrounded, pinsPowered, cable, losses,
                     unsureChannels, unsurePins>>
      /\ op[me].stage = "idle"
  BY DEF Begin, Connect, Disconnect, StartPeriodicMsg, StopPeriodicMsg, ClearPeriodicMsgs,
         SetProgrammingVoltage, Send, Busy, record, unsure
<1>3. ASSUME NEW o \in Ops, Send(me, o)
      PROVE  /\ op' \in [Threads -> Ops] /\ op'[me] = [o EXCEPT !.stage = "sent"]
             /\ \A u \in Threads \ {me} : op'[u] = op[u]
             /\ KeptApart => \A u \in Threads : Busy(u) => ~Conflict(op'[me], op[u])
  <2>1. [o EXCEPT !.stage = "sent"] \in Ops
    BY DEF Ops
  <2>2. /\ op' \in [Threads -> Ops] /\ op'[me] = [o EXCEPT !.stage = "sent"]
        /\ \A u \in Threads \ {me} : op'[u] = op[u]
    BY <1>1, <1>3, <2>1 DEF Send
  <2>3. op'[me].ch = o.ch /\ op'[me].verb = o.verb
    BY <2>2 DEF Ops
  <2> QED
    BY <1>3, <2>2, <2>3 DEF Send, Conflict, Opens
<1> DEFINE Goal ==
      /\ op' \in [Threads -> Ops] /\ \A u \in Threads \ {me} : op'[u] = op[u]
      /\ op'[me].stage = "sent" /\ op'[me].reply = "none" /\ op'[me].verb # "undo"
      /\ StageInv(op'[me]) /\ CallInv(op'[me])
      /\ KeptApart => \A u \in Threads : Busy(u) => ~Conflict(op'[me], op[u])
<1> USE DEF CallInv, StageInv, ChannelCall, StartCall, StopCall, SettledCall, Settled,
            PinCall, Opens, ChannelVerbs
<1>4. ASSUME NEW c \in Channels,
             \/ Connect(me, c) \/ Disconnect(me, c) \/ StartPeriodicMsg(me, c)
             \/ ClearPeriodicMsgs(me, c)
      PROVE  Goal
  <2>1. PICK v \in {"ato", "atc", "atm", "atl"} :
           /\ v = "ato" => LineFree(c)
           /\ v \in {"atc", "atm", "atl"} => c \in open
           /\ v = "atm" => nperiodic[c] < Limit
           /\ Send(me, [Idle EXCEPT !.verb = v, !.ch = c])
    BY <1>4 DEF Connect, Disconnect, StartPeriodicMsg, ClearPeriodicMsgs
  <2>2. [Idle EXCEPT !.verb = v, !.ch = c] \in Ops
    BY IdleType DEF Idle, Ops, Verbs
  <2>3. op'[me] = [[Idle EXCEPT !.verb = v, !.ch = c] EXCEPT !.stage = "sent"]
    BY <1>3, <2>1, <2>2
  <2>4. /\ op'[me].stage = "sent" /\ op'[me].reply = "none"
        /\ op'[me].verb = v /\ op'[me].ch = c
    BY <2>3 DEF Idle
  <2>5. StageInv(op'[me]) /\ CallInv(op'[me])
    BY <2>1, <2>4 DEF LineFree
  <2> HIDE DEF StageInv, CallInv
  <2> QED
    BY <1>3, <2>1, <2>2, <2>4, <2>5
<1>5. ASSUME NEW c \in Channels, NEW s \in Slots, StopPeriodicMsg(me, c, s)
      PROVE  Goal
  <2>1. PICK o : o = [Idle EXCEPT !.verb = "atn", !.ch = c, !.slot = s, !.id = periodic[c][s]]
    OBVIOUS
  <2>2. o \in Ops
    <3>1. periodic[c][s] \in Ids \cup {NoId}
      BY <1>1 DEF RecordTypes
    <3> QED
      BY <2>1, <3>1, IdleType DEF Idle, Ops, Verbs
  <2>3. Send(me, o) /\ c \in open /\ s < nperiodic[c]
    BY <1>5, <2>1 DEF StopPeriodicMsg
  <2>4. /\ op'[me].stage = "sent" /\ op'[me].reply = "none" /\ op'[me].verb = "atn"
        /\ op'[me].ch = c /\ op'[me].slot = s /\ op'[me].id = periodic[c][s]
    BY <1>3, <2>1, <2>2, <2>3 DEF Idle
  <2>5. StageInv(op'[me]) /\ CallInv(op'[me])
    BY <2>3, <2>4 DEF GoneAnswers
  <2> HIDE DEF StageInv, CallInv
  <2> QED
    BY <1>3, <2>2, <2>3, <2>4, <2>5
<1>6. ASSUME NEW pin \in Pins, NEW v \in Voltages, SetProgrammingVoltage(me, pin, v)
      PROVE  Goal
  <2>1. PICK o : o = [Idle EXCEPT !.verb = "atv", !.pin = pin, !.volt = v]
    OBVIOUS
  <2>2. o \in Ops
    BY <2>1, IdleType DEF Idle, Ops, Verbs
  <2>3. Send(me, o) /\ PinAllowed(pin, v)
    BY <1>6, <2>1 DEF SetProgrammingVoltage
  <2>4. /\ op'[me].stage = "sent" /\ op'[me].reply = "none" /\ op'[me].verb = "atv"
        /\ op'[me].pin = pin /\ op'[me].volt = v /\ op'[me].ch = 0
    BY <1>3, <2>1, <2>2, <2>3 DEF Idle
  <2>5. StageInv(op'[me]) /\ CallInv(op'[me])
    BY <2>3, <2>4
  <2> HIDE DEF StageInv, CallInv
  <2> QED
    BY <1>3, <2>2, <2>3, <2>4, <2>5
<1> HIDE DEF CallInv, StageInv
<1>7. Goal
  BY <1>4, <1>5, <1>6 DEF Begin
<1> QED
  BY <1>2, <1>7

\* A command is served and answered, or it or its answer is lost: r is what
\* its call is told.
Served(t, r) ==
    /\ op[t].stage = "sent" /\ op[t].reply = "none" /\ op[t].verb \in Verbs
    /\ UNCHANGED record
    /\ op' \in [Threads -> Ops] /\ \A u \in Threads \ {t} : op'[u] = op[u]
    /\ op'[t].stage = "answered" /\ op'[t].reply = r
    /\ op'[t].verb = op[t].verb /\ op'[t].ch = op[t].ch /\ op'[t].pin = op[t].pin
    /\ op'[t].volt = op[t].volt /\ op'[t].slot = op[t].slot
    /\ op'[t].id = IF op[t].verb = "atm" /\ r = "aro" THEN cable.nextId ELSE op[t].id
    /\ cable' \in Cables /\ CableInv' /\ CableKept(op[t])
    /\ op[t].verb = "atm" /\ r = "aro" => cable.nextId \in Ids
    /\ op[t].verb = "atn" /\ r \in GoneAnswers => op[t].id \notin cable'.live[op[t].ch]
    /\ Settled(op[t], r, cable')
    /\ unsureChannels' = unsureChannels \cup IF r = "lost" THEN {op[t].ch} \cap Channels ELSE {}
    /\ unsurePins' = unsurePins \cup IF r = "lost" /\ op[t].verb = "atv" THEN {op[t].pin} ELSE {}

LEMMA ServeMoves ==
    ASSUME TypeInv, NEW me \in Threads, Serve(me) \/ LoseReply(me)
    PROVE  \E r \in Replies : Served(me, r)
<1>1. /\ op \in [Threads -> Ops] /\ op[me] \in Ops /\ op[me].stage = "sent"
      /\ op[me].reply = "none" /\ op[me].verb \in Verbs /\ UNCHANGED record
      /\ cable \in Cables
  BY Types DEF TypeInv, StageInv, Ops, Serve, LoseReply
<1>2. PICK r \in Replies :
         /\ Answer(me, r)
         /\ cable' \in Cables /\ CableInv' /\ CableKept(op[me])
         /\ op[me].verb = "atm" /\ r = "aro" => cable.nextId \in Ids
         /\ op[me].verb = "atn" /\ r \in GoneAnswers
                => op[me].id \notin cable'.live[op[me].ch]
         /\ Settled(op[me], r, cable')
         /\ unsureChannels' =
                unsureChannels \cup IF r = "lost" THEN {op[me].ch} \cap Channels ELSE {}
         /\ unsurePins' =
                unsurePins \cup IF r = "lost" /\ op[me].verb = "atv" THEN {op[me].pin} ELSE {}
  <2>1. CASE Serve(me)
    <3>1. PICK x \in Outcomes(op[me]) : cable' = x[1] /\ Answer(me, x[2])
      BY <2>1 DEF Serve
    <3>2. UNCHANGED <<unsureChannels, unsurePins>>
      BY <2>1 DEF Serve, unsure
    <3> QED
      BY <1>1, <3>1, <3>2, CableMoves DEF Replies
  <2>2. CASE LoseReply(me)
    <3>1. cable' \in Cables /\ CableInv' /\ CableKept(op[me])
      <4>1. CASE UNCHANGED cable
        BY <1>1, <4>1 DEF TypeInv, CableInv, CableKept
      <4>2. ASSUME NEW x \in Outcomes(op[me]), cable' = x[1]
            PROVE  cable' \in Cables /\ CableInv' /\ CableKept(op[me])
        BY <1>1, <4>2, CableMoves
      <4> QED
        BY <2>2, <4>1, <4>2 DEF LoseReply
    <3> QED
      BY <2>2, <3>1 DEF LoseReply, Replies, GoneAnswers, Settled
  <2> QED
    BY <2>1, <2>2
<1>3. /\ op' \in [Threads -> Ops]
      /\ \A u \in Threads \ {me} : op'[u] = op[u]
      /\ op'[me] = [op[me] EXCEPT !.stage = "answered", !.reply = r,
                     !.id = IF op[me].verb = "atm" /\ r = "aro" THEN cable.nextId ELSE @]
  BY <1>2, AnswerMoves
<1>4. /\ op'[me].stage = "answered" /\ op'[me].reply = r
      /\ op'[me].verb = op[me].verb /\ op'[me].ch = op[me].ch
      /\ op'[me].pin = op[me].pin /\ op'[me].volt = op[me].volt
      /\ op'[me].slot = op[me].slot
      /\ op'[me].id = IF op[me].verb = "atm" /\ r = "aro" THEN cable.nextId ELSE op[me].id
  BY <1>1, <1>3 DEF Ops
<1> QED
  BY <1>1, <1>2, <1>3, <1>4 DEF Served

\* A call that ends, or goes back to close the channel it opened.
Ending(t) ==
    /\ UNCHANGED <<cable, losses>>
    /\ unsureChannels' \subseteq unsureChannels /\ unsurePins' \subseteq unsurePins
    /\ op[t].stage = "answered" /\ op[t].verb \in Verbs
    /\ op' \in [Threads -> Ops] /\ \A u \in Threads \ {t} : op'[u] = op[u]
    /\ \/ op'[t] = Idle
       \/ /\ op[t].verb = "ato" /\ op'[t].verb = "undo" /\ op'[t].ch = op[t].ch
          /\ op'[t].stage = "sent" /\ op'[t].reply = "none"
    /\ \A c \in Channels : op[t].ch # c => KeepsChannel(c)
    /\ op[t].verb # "atv" => KeepsPins
    /\ ~Opens(op[t]) => open' \subseteq open

\* The record keeps its types, whatever else is under way.
LEMMA FinishMoves ==
    ASSUME TypeInv, NEW me \in Threads, Finish(me)
    PROVE  RecordTypes' /\ Ending(me)
<1>1. /\ RecordTypes /\ op \in [Threads -> Ops] /\ op[me] \in Ops /\ cable \in Cables
      /\ op[me].verb \in ChannelVerbs => op[me].ch \in Channels
      /\ op[me].verb = "atv" => op[me].pin \in Pins
      /\ op[me].verb = "atm" /\ op[me].reply = "aro" => op[me].id \in Ids
  BY Types DEF TypeInv, StageInv
<1>2. /\ UNCHANGED <<cable, losses>>
      /\ op[me].stage = "answered" /\ op[me].verb \in Verbs
      /\ unsureChannels' \subseteq unsureChannels /\ unsurePins' \subseteq unsurePins
      /\ \A c : op[me].ch # c => (c \in unsureChannels' <=> c \in unsureChannels)
      /\ op[me].verb # "atv" => UNCHANGED unsurePins
  BY DEF Finish, Failed, Connected, Undone, Disconnected, Started, Stopped, Cleared, VoltageSet,
         Answered, Verbs, unsure
<1>3. Done(me) => /\ op' \in [Threads -> Ops] /\ op'[me] = Idle
                  /\ \A u \in Threads \ {me} : op'[u] = op[u]
  BY <1>1, IdleType DEF Done
<1>4. 0 \in 0 .. UnsignedMax
  BY LedgerAssumption
<1> DEFINE Kept == /\ RecordTypes'
                   /\ \A c \in Channels : op[me].ch # c => KeepsChannel(c)
                   /\ op[me].verb # "atv" => KeepsPins
                   /\ ~Opens(op[me]) => open' \subseteq open
<1>5. CASE Failed(me) \/ Undone(me)
  <2>1. Done(me) /\ UNCHANGED <<open, periodic, nperiodic, pinsGrounded, pinsPowered>>
    BY <1>5 DEF Failed, Undone, record
  <2>2. Kept
    BY <1>1, <1>2, <2>1 DEF RecordTypes, KeepsChannel, KeepsPins
  <2> QED
    BY <1>2, <1>3, <2>1, <2>2 DEF Ending
<1>6. CASE Connected(me)
  <2>1. op[me].ch \in Channels /\ op[me].verb = "ato" /\ Opens(op[me])
    BY <1>1, <1>6 DEF Connected, Answered, ChannelVerbs, Opens
  <2>2. Kept
    <3>1. /\ open' \in {open, open \cup {op[me].ch}} /\ UNCHANGED <<pinsGrounded, pinsPowered>>
          /\ nperiodic' = [nperiodic EXCEPT ![op[me].ch] = 0]
          /\ periodic' = [periodic EXCEPT ![op[me].ch] = [s \in Slots |-> NoId]]
      BY <1>6 DEF Connected
    <3>2. RecordTypes'
      BY <1>1, <1>4, <2>1, <3>1 DEF RecordTypes
    <3>3. \A c \in Channels : op[me].ch # c => KeepsChannel(c)
      BY <1>1, <1>2, <3>1 DEF RecordTypes, KeepsChannel
    <3> QED
      BY <1>2, <2>1, <3>1, <3>2, <3>3 DEF KeepsPins
  <2>3. CASE Done(me)
    BY <1>2, <1>3, <2>2, <2>3 DEF Ending
  \* op_device_open_channel finds no memory: the channel is closed again.
  <2>4. CASE op' = [op EXCEPT ![me].stage = "sent", ![me].verb = "undo", ![me].reply = "none"]
    <3>1. /\ op'[me] = [op[me] EXCEPT !.stage = "sent", !.verb = "undo", !.reply = "none"]
          /\ \A u \in Threads \ {me} : op'[u] = op[u]
      BY <1>1, <2>4 DEF Ops
    <3>2. op' \in [Threads -> Ops]
      BY <1>1, <2>4, <3>1 DEF Ops, Verbs
    <3>3. /\ op'[me].stage = "sent" /\ op'[me].verb = "undo" /\ op'[me].reply = "none"
          /\ op'[me].ch = op[me].ch
      BY <1>1, <3>1 DEF Ops
    <3> QED
      BY <1>2, <2>1, <2>2, <3>1, <3>2, <3>3 DEF Ending
  <2> QED
    BY <1>6, <2>3, <2>4 DEF Connected
<1>7. CASE Disconnected(me)
  <2>1. /\ op[me].ch \in Channels /\ Done(me) /\ open' = open \ {op[me].ch}
        /\ nperiodic' = [nperiodic EXCEPT ![op[me].ch] = 0]
        /\ UNCHANGED <<periodic, pinsGrounded, pinsPowered>>
    BY <1>1, <1>7 DEF Disconnected, Answered, ChannelVerbs
  <2>2. RecordTypes'
    BY <1>1, <1>4, <2>1 DEF RecordTypes
  <2>3. Kept
    BY <1>1, <1>2, <2>1, <2>2 DEF RecordTypes, KeepsChannel, KeepsPins
  <2> QED
    BY <1>2, <1>3, <2>1, <2>3 DEF Ending
<1>8. CASE Started(me)
  <2>1. /\ op[me].ch \in Channels /\ op[me].id \in Ids /\ Done(me)
        /\ UNCHANGED <<open, pinsGrounded, pinsPowered>>
    BY <1>1, <1>8 DEF Started, Answered, ChannelVerbs
  <2>2. nperiodic' \in [Channels -> 0 .. UnsignedMax]
    <3>1. \A n \in 0 .. UnsignedMax : (n + 1) % (UnsignedMax + 1) \in 0 .. UnsignedMax
      BY LedgerAssumption
    <3>2. (nperiodic[op[me].ch] + 1) % (UnsignedMax + 1) \in 0 .. UnsignedMax
      BY <1>1, <2>1, <3>1 DEF RecordTypes
    <3> QED
      BY <1>1, <1>8, <2>1, <3>2 DEF Started, RecordTypes
  <2>3. /\ periodic' \in [Channels -> [Slots -> Ids \cup {NoId}]]
        /\ \A c \in Channels : op[me].ch # c => periodic'[c] = periodic[c]
    BY <1>1, <1>8, <2>1 DEF Started, RecordTypes
  <2>4. \A c \in Channels : op[me].ch # c => nperiodic'[c] = nperiodic[c]
    BY <1>1, <1>8, <2>1 DEF Started, RecordTypes
  <2>5. Kept
    BY <1>1, <1>2, <2>1, <2>2, <2>3, <2>4 DEF RecordTypes, KeepsChannel, KeepsPins
  <2> QED
    BY <1>2, <1>3, <2>1, <2>5 DEF Ending
<1>9. CASE Stopped(me)
  <2>1. /\ op[me].ch \in Channels /\ op[me].slot \in Slots /\ Done(me)
        /\ UNCHANGED <<open, pinsGrounded, pinsPowered>>
    BY <1>1, <1>9 DEF Stopped, Answered, ChannelVerbs, Ops
  <2>2. PICK n \in 0 .. UnsignedMax : n = Decrement(nperiodic[op[me].ch])
    <3>1. \A k \in 0 .. UnsignedMax : Decrement(k) \in 0 .. UnsignedMax
      BY LedgerAssumption DEF Decrement
    <3> QED
      BY <1>1, <2>1, <3>1 DEF RecordTypes
  <2>3. /\ nperiodic' = [nperiodic EXCEPT ![op[me].ch] = n]
        /\ periodic' = [periodic EXCEPT ![op[me].ch][op[me].slot] =
                            IF n \in Slots THEN periodic[op[me].ch][n] ELSE @]
    BY <1>9, <2>2 DEF Stopped
  <2>4. /\ nperiodic' \in [Channels -> 0 .. UnsignedMax]
        /\ \A c \in Channels : op[me].ch # c => nperiodic'[c] = nperiodic[c]
    BY <1>1, <2>1, <2>2, <2>3 DEF RecordTypes
  <2>5. /\ periodic' \in [Channels -> [Slots -> Ids \cup {NoId}]]
        /\ \A c \in Channels : op[me].ch # c => periodic'[c] = periodic[c]
    BY <1>1, <2>1, <2>3 DEF RecordTypes
  <2>6. Kept
    BY <1>1, <1>2, <2>1, <2>4, <2>5 DEF RecordTypes, KeepsChannel, KeepsPins
  <2> QED
    BY <1>2, <1>3, <2>1, <2>6 DEF Ending
<1>10. CASE Cleared(me)
  <2>1. /\ op[me].ch \in Channels /\ Done(me)
        /\ nperiodic' = [nperiodic EXCEPT ![op[me].ch] = 0]
        /\ UNCHANGED <<open, periodic, pinsGrounded, pinsPowered>>
    BY <1>1, <1>10 DEF Cleared, Answered, ChannelVerbs
  <2>2. RecordTypes'
    BY <1>1, <1>4, <2>1 DEF RecordTypes
  <2>3. Kept
    BY <1>1, <1>2, <2>1, <2>2 DEF RecordTypes, KeepsChannel, KeepsPins
  <2> QED
    BY <1>2, <1>3, <2>1, <2>3 DEF Ending
<1>11. CASE VoltageSet(me)
  <2>1. /\ op[me].pin \in Pins /\ op[me].verb = "atv" /\ Done(me)
        /\ UNCHANGED <<open, periodic, nperiodic>>
    BY <1>1, <1>11 DEF VoltageSet, Answered
  <2>2. pinsGrounded' \subseteq Pins /\ pinsPowered' \subseteq Pins
    BY <1>1, <1>11, <2>1 DEF VoltageSet, RecordTypes
  <2>3. Kept
    BY <1>1, <1>2, <2>1, <2>2 DEF RecordTypes, KeepsChannel
  <2> QED
    BY <1>2, <1>3, <2>1, <2>3 DEF Ending
<1> QED
  BY <1>5, <1>6, <1>7, <1>8, <1>9, <1>10, <1>11 DEF Finish

LEMMA TypeInit == Init => TypeInv
<1> SUFFICES ASSUME Init PROVE TypeInv
  OBVIOUS
<1>1. RecordTypes
  BY LedgerAssumption DEF Init, RecordTypes, NoId
<1>2. op \in [Threads -> Ops] /\ \A t \in Threads : op[t] = Idle
  BY IdleType DEF Init
<1>3. cable \in Cables
  <2>1. 1 \in 1 .. MaxIds + 1
    BY LedgerAssumption
  <2>2. [c \in Channels |-> {}] \in [Channels -> SUBSET Ids]
    OBVIOUS
  <2> QED
    BY <2>1, <2>2 DEF Init, Fresh, Cables
<1>4. losses \in 0 .. MaxLosses /\ UnsureTypes
  BY LedgerAssumption DEF Init, UnsureTypes
<1>5. TypeOK
  BY <1>1, <1>2, <1>3, <1>4, Types
<1>6. \A t \in Threads : StageInv(op[t])
  BY <1>2 DEF Idle, StageInv, ChannelVerbs
<1>7. CableInv
  BY DEF Init, Fresh, CableInv
<1> QED
  BY <1>5, <1>6, <1>7 DEF TypeInv

\* With no call under way every thread's call is none.
LEMMA RestartMoves ==
    ASSUME TypeInv, Restart
    PROVE  /\ RecordTypes' /\ cable' \in Cables /\ CableInv'
           /\ op' = op /\ losses' = losses /\ unsureChannels' = {} /\ unsurePins' = {}
           /\ \A t \in Threads : op[t].verb = "none" /\ op[t].stage = "idle"
                                    /\ op[t].reply = "none" /\ op[t].ch = 0
<1>1. cable \in Cables /\ \A t \in Threads : StageInv(op[t])
  BY Types DEF TypeInv
<1>2. RecordTypes'
  BY LedgerAssumption DEF Restart, RecordTypes, NoId
<1>3. cable' \in Cables /\ CableInv'
  <2>1. [c \in Channels |-> {}] \in [Channels -> SUBSET Ids]
    OBVIOUS
  <2> QED
    BY <1>1, <2>1 DEF Restart, Fresh, Cables, CableInv
<1> QED
  BY <1>1, <1>2, <1>3 DEF Restart, Quiet, Busy, StageInv, ChannelVerbs

LEMMA TypeNext ==
    ASSUME TypeInv, [Next]_vars
    PROVE  TypeInv'
<1>1. /\ RecordTypes /\ op \in [Threads -> Ops] /\ cable \in Cables /\ CableInv
      /\ losses \in 0 .. MaxLosses /\ UnsureTypes
      /\ \A t \in Threads : StageInv(op[t])
  BY Types DEF TypeInv
<1> DEFINE Typed == /\ RecordTypes' /\ op' \in [Threads -> Ops] /\ cable' \in Cables
                    /\ CableInv' /\ losses' \in 0 .. MaxLosses /\ UnsureTypes'
                    /\ \A t \in Threads : StageInv(op'[t])
<1> SUFFICES Typed
  <2> SUFFICES ASSUME Typed PROVE TypeOK'
    BY DEF TypeInv
  <2> QED
    BY Types DEF RecordTypes, UnsureTypes, TypeOK, Ops, Cables, Verbs, Replies
<1>2. CASE UNCHANGED vars
  <2>1. /\ UNCHANGED <<open, periodic, nperiodic, pinsGrounded, pinsPowered>>
        /\ UNCHANGED <<op, cable, losses, unsureChannels, unsurePins>>
    BY <1>2 DEF vars, record, unsure
  <2>2. RecordTypes' /\ CableInv' /\ UnsureTypes'
    BY <1>1, <2>1 DEF RecordTypes, CableInv, UnsureTypes
  <2> QED
    BY <1>1, <2>1, <2>2
<1>3. CASE Restart
  BY <1>1, <1>3, RestartMoves DEF UnsureTypes
<1>4. ASSUME NEW me \in Threads, Begin(me)
      PROVE  Typed
  <2>1. RecordTypes' /\ CableInv' /\ UnsureTypes'
    BY <1>1, <1>4, BeginMoves DEF RecordTypes, CableInv, UnsureTypes
  <2>2. \A t \in Threads : StageInv(op'[t])
    BY <1>1, <1>4, BeginMoves
  <2> QED
    BY <1>1, <1>4, <2>1, <2>2, BeginMoves
<1>5. ASSUME NEW me \in Threads, Serve(me) \/ LoseReply(me)
      PROVE  Typed
  <2>1. PICK r \in Replies : Served(me, r)
    BY <1>5, ServeMoves
  <2>2. RecordTypes' /\ op' \in [Threads -> Ops] /\ cable' \in Cables /\ CableInv'
    BY <1>1, <2>1 DEF Served, record, RecordTypes
  <2>3. \A t \in Threads : StageInv(op'[t])
    <3>1. StageInv(op'[me])
      BY <1>1, <2>1 DEF Served, StageInv, Replies, ChannelVerbs
    <3>2. \A t \in Threads \ {me} : op'[t] = op[t]
      BY <2>1 DEF Served
    <3> QED
      BY <1>1, <3>1, <3>2
  <2>4. losses' \in 0 .. MaxLosses
    BY <1>1, <1>5, LedgerAssumption DEF Serve, LoseReply
  <2>5. UnsureTypes'
    <3>1. op[me].verb = "atv" => op[me].pin \in Pins
      BY <1>1 DEF StageInv
    <3> QED
      BY <1>1, <2>1, <3>1 DEF Served, UnsureTypes
  <2> QED
    BY <2>2, <2>3, <2>4, <2>5
<1>6. ASSUME NEW me \in Threads, Finish(me)
      PROVE  Typed
  <2>1. RecordTypes' /\ Ending(me)
    BY <1>6, FinishMoves
  <2>2. CableInv'
    BY <1>1, <2>1 DEF Ending, CableInv
  <2>3. \A t \in Threads : StageInv(op'[t])
    <3>1. StageInv(op'[me])
      <4>1. op[me].verb = "ato" => op[me].ch \in Channels
        BY <1>1 DEF StageInv, ChannelVerbs
      <4> QED
        BY <2>1, <4>1 DEF Ending, StageInv, ChannelVerbs, Idle
    <3>2. \A t \in Threads \ {me} : op'[t] = op[t]
      BY <2>1 DEF Ending
    <3> QED
      BY <1>1, <3>1, <3>2
  <2> QED
    BY <1>1, <2>1, <2>2, <2>3 DEF Ending, UnsureTypes
<1> QED
  BY <1>2, <1>3, <1>4, <1>5, <1>6 DEF Next

LEMMA LedgerTypeInvariance == Spec => []TypeInv
BY TypeInit, TypeNext, PTL DEF Spec
-----------------------------------------------------------------------------
(***************************************************************************)
(* Calls that are kept apart do not disturb each other.                    *)
(***************************************************************************)
\* What a step of a thread's call leaves alone.
Stable(t) ==
    /\ \A u \in Threads \ {t} : op'[u] = op[u]
    /\ \A c \in Channels : op[t].ch # c => KeepsChannel(c)
    /\ op[t].verb # "atv" => KeepsPins
    /\ ~Opens(op[t]) => open' \subseteq open

LEMMA StepStable ==
    ASSUME TypeInv, NEW me \in Threads,
           Begin(me) \/ Serve(me) \/ LoseReply(me) \/ Finish(me)
    PROVE  Stable(me)
<1>1. CASE Begin(me)
  BY <1>1, BeginMoves DEF Stable, KeepsChannel, KeepsPins
<1>2. CASE Serve(me) \/ LoseReply(me)
  <2>1. PICK r \in Replies : Served(me, r)
    BY <1>2, ServeMoves
  <2> QED
    BY <2>1 DEF Served, CableKept, record, Stable, KeepsChannel, KeepsPins
<1>3. CASE Finish(me)
  BY <1>3, FinishMoves DEF Ending, Stable
<1> QED
  BY <1>1, <1>2, <1>3

\* A call about a channel is the only one about it; a call about the pins is
\* the only one, and nobody connects meanwhile.
LEMMA OnlyCall ==
    ASSUME TypeInv, ApartInv, NEW t \in Threads, NEW u \in Threads, t # u
    PROVE  /\ op[t].ch \in Channels => op[u].ch # op[t].ch
           /\ op[t].verb = "atv" => op[u].verb # "atv" /\ ~Opens(op[u])
           /\ Opens(op[t]) => op[u].verb # "atv"
<1>1. StageInv(op[t]) /\ StageInv(op[u]) /\ 0 \notin Channels
  BY IdleType DEF TypeInv
<1>2. Busy(t) /\ Busy(u) => ~Conflict(op[t], op[u])
  BY DEF ApartInv
<1>3. ASSUME op[t].ch \in Channels
      PROVE  op[u].ch # op[t].ch
  <2>1. Busy(t) /\ (~Busy(u) => op[u].ch = 0)
    BY <1>1, <1>3 DEF StageInv, Busy, ChannelVerbs
  <2> QED
    BY <1>1, <1>2, <1>3, <2>1 DEF Conflict
<1>4. ASSUME op[t].verb = "atv"
      PROVE  op[u].verb # "atv" /\ ~Opens(op[u])
  <2>1. Busy(t) /\ op[t].ch = 0 /\ (op[u].verb = "atv" => Busy(u) /\ op[u].ch = 0)
    BY <1>1, <1>4 DEF StageInv, Busy, ChannelVerbs
  <2>2. Opens(op[u]) => Busy(u)
    BY <1>1 DEF StageInv, Busy, Opens
  <2> QED
    BY <1>2, <1>4, <2>1, <2>2 DEF Conflict
<1>5. ASSUME Opens(op[t])
      PROVE  op[u].verb # "atv"
  <2>1. Busy(t) /\ (op[u].verb = "atv" => Busy(u))
    BY <1>1, <1>5 DEF StageInv, Busy, Opens
  <2> QED
    BY <1>2, <1>5, <2>1 DEF Conflict
<1> QED
  BY <1>3, <1>4, <1>5

\* What another call has checked stays so.
LEMMA OthersHold ==
    ASSUME TypeInv, ApartInv, NEW me \in Threads, Stable(me),
           NEW u \in Threads \ {me}, CallInv(op[u])
    PROVE  CallInv(op[u])'
<1>1. PICK p \in Ops : p = op[u] /\ op'[u] = p /\ StageInv(p) /\ CallInv(p)
  BY Types DEF TypeInv, Stable
<1>2. /\ p.ch \in Channels => KeepsChannel(p.ch)
      /\ Opens(p) => KeepsPins
      /\ p.verb = "atv" => KeepsPins /\ open' \subseteq open
  BY <1>1, OnlyCall DEF Stable
<1>3. p.verb \in ChannelVerbs => p.ch \in Channels
  BY <1>1 DEF StageInv
<1> SUFFICES /\ ChannelCall(p)' /\ StartCall(p)' /\ StopCall(p)' /\ SettledCall(p)'
             /\ PinCall(p)'
  BY <1>1 DEF CallInv, ChannelCall, StartCall, StopCall, SettledCall, PinCall
<1>4. ChannelCall(p)'
  <2>1. Opens(p) \/ p.verb \in {"atc", "atm", "atn", "atl"} => p.verb \in ChannelVerbs
    BY DEF Opens, ChannelVerbs
  <2> QED
    BY <1>1, <1>2, <1>3, <2>1 DEF CallInv, ChannelCall, KeepsChannel, KeepsPins, Opens
<1>5. StartCall(p)' /\ StopCall(p)'
  BY <1>1, <1>2, <1>3 DEF CallInv, StartCall, StopCall, KeepsChannel, ChannelVerbs
<1>6. SettledCall(p)'
  BY <1>1, <1>2, <1>3 DEF CallInv, SettledCall, Settled, KeepsChannel, KeepsPins, ChannelVerbs
<1>7. PinCall(p)'
  BY <1>1, <1>2 DEF CallInv, PinCall, PinAllowed, KeepsPins
<1> QED
  BY <1>4, <1>5, <1>6, <1>7

LEMMA ApartNext ==
    ASSUME KeptApart, TypeInv, ApartInv, NEW me \in Threads,
           Begin(me) \/ Serve(me) \/ LoseReply(me) \/ Finish(me)
    PROVE  ApartInv'
<1>1. \A u \in Threads \ {me} : op'[u] = op[u]
  BY StepStable DEF Stable
<1>2. ASSUME NEW u \in Threads \ {me}, op'[me].stage # "idle", Busy(u)
      PROVE  ~Conflict(op'[me], op[u])
  <2>1. CASE Begin(me)
    BY <1>2, <2>1, BeginMoves
  <2>2. CASE Serve(me) \/ LoseReply(me)
    <3>1. PICK r \in Replies : Served(me, r)
      BY <2>2, ServeMoves
    <3>2. Busy(me) /\ op'[me].verb = op[me].verb /\ op'[me].ch = op[me].ch
      BY <3>1 DEF Served, Busy
    <3> QED
      BY <1>2, <3>2 DEF ApartInv, Conflict, Opens
  <2>3. CASE Finish(me)
    <3>1. Ending(me)
      BY <2>3, FinishMoves
    <3>2. /\ Busy(me) /\ op[me].verb = "ato" /\ op'[me].verb = "undo"
          /\ op'[me].ch = op[me].ch
      BY <1>2, <3>1 DEF Ending, Busy, Idle
    <3> QED
      BY <1>2, <3>2 DEF ApartInv, Conflict, Opens
  <2> QED
    BY <2>1, <2>2, <2>3
<1>3. \A o, p : Conflict(o, p) => Conflict(p, o)
  BY DEF Conflict
<1> SUFFICES ASSUME NEW t \in Threads, NEW u \in Threads, t # u,
                    op'[t].stage # "idle", op'[u].stage # "idle"
             PROVE  ~Conflict(op'[t], op'[u])
  BY DEF ApartInv, Busy, Conflict, Opens
<1>4. CASE t = me
  BY <1>1, <1>2, <1>4 DEF Busy
<1>5. CASE u = me
  BY <1>1, <1>2, <1>3, <1>5 DEF Busy
<1>6. CASE t # me /\ u # me
  BY <1>1, <1>6 DEF ApartInv, Busy
<1> QED
  BY <1>4, <1>5, <1>6
-----------------------------------------------------------------------------
(***************************************************************************)
(* The recorded messages, as the updates of the record change them.        *)
(***************************************************************************)
LEMMA RecordedSame ==
    ASSUME NEW c \in Channels, periodic'[c] = periodic[c], nperiodic'[c] = nperiodic[c]
    PROVE  Recorded(c)' = Recorded(c)
BY DEF Recorded

LEMMA RecordedNone ==
    ASSUME NEW c \in Channels, nperiodic'[c] = 0
    PROVE  Recorded(c)' = {}
<1>1. {r \in Slots : r < nperiodic'[c]} = {}
  BY LedgerAssumption DEF Slots
<1> QED
  BY <1>1 DEF Recorded

\* A message started is recorded in the next slot.
LEMMA StartedRecord ==
    ASSUME TypeInv, HoldInv, NEW me \in Threads, Started(me), NEW c \in Channels
    PROVE  /\ Recorded(c)' = IF c = op[me].ch THEN Recorded(c) \cup {op[me].id} ELSE Recorded(c)
           /\ c = op[me].ch /\ Distinct(c) /\ op[me].id \notin Recorded(c) => Distinct(c)'
<1>1. RecordTypes /\ op[me].ch \in Channels /\ nperiodic[op[me].ch] < Limit
  BY Types DEF TypeInv, StageInv, ChannelVerbs, HoldInv, CallInv, StartCall, Started, Answered
<1>2. PICK ch \in Channels : ch = op[me].ch
  BY <1>1
<1>3. PICK n \in Nat : n = nperiodic[ch] /\ n < Limit
  <2>1. nperiodic[ch] \in 0 .. UnsignedMax
    BY <1>1 DEF RecordTypes
  <2> QED
    BY <1>1, <1>2, <2>1, LedgerAssumption
<1>4. n \in Slots /\ Slots \subseteq Nat
  BY <1>3, LedgerAssumption DEF Slots
<1>m. (n + 1) % (UnsignedMax + 1) = n + 1
  BY <1>3, LedgerAssumption
<1>5. /\ \A d \in Channels \ {ch} : periodic'[d] = periodic[d] /\ nperiodic'[d] = nperiodic[d]
      /\ nperiodic'[ch] = n + 1
      /\ \A s \in Slots : periodic'[ch][s] = IF s = n THEN op[me].id ELSE periodic[ch][s]
  BY <1>1, <1>2, <1>3, <1>m DEF Started, RecordTypes
<1>6. ASSUME c = ch
      PROVE  Recorded(c)' = Recorded(c) \cup {op[me].id}
  <2>1. {r \in Slots : r < nperiodic'[c]} = {r \in Slots : r < n} \cup {n}
    <3>1. \A r \in Slots : r < n + 1 <=> r < n \/ r = n
      BY <1>4
    <3> QED
      BY <1>4, <1>5, <1>6, <3>1
  <2>2. Recorded(c) = {periodic[c][s] : s \in {r \in Slots : r < n}}
    BY <1>3, <1>6 DEF Recorded
  <2>3. Recorded(c)' = {periodic'[c][s] : s \in {r \in Slots : r < n} \cup {n}}
    BY <2>1 DEF Recorded
  <2> QED
    BY <1>4, <1>5, <1>6, <2>2, <2>3
<1>7. ASSUME c # ch
      PROVE  Recorded(c)' = Recorded(c)
  BY <1>5, <1>7, RecordedSame
<1>8. ASSUME c = ch, Distinct(c), op[me].id \notin Recorded(c)
      PROVE  Distinct(c)'
  <2>1. \A s \in Slots : s < n => periodic[ch][s] # op[me].id
    BY <1>3, <1>8 DEF Recorded
  <2> SUFFICES ASSUME NEW r \in Slots, NEW s \in Slots,
                      r < nperiodic'[ch], s < nperiodic'[ch], periodic'[ch][r] = periodic'[ch][s]
               PROVE  r = s
    BY <1>8 DEF Distinct
  <2>2. (r < n \/ r = n) /\ (s < n \/ s = n)
    BY <1>4, <1>5
  <2>3. /\ periodic'[ch][r] = IF r = n THEN op[me].id ELSE periodic[ch][r]
        /\ periodic'[ch][s] = IF s = n THEN op[me].id ELSE periodic[ch][s]
    BY <1>5
  <2> QED
    BY <1>3, <1>4, <1>8, <2>1, <2>2, <2>3 DEF Distinct
<1> QED
  BY <1>2, <1>6, <1>7, <1>8

\* Of the messages recorded, one stopped is the only one to be forgotten, and
\* when none is recorded twice it is.
LEMMA StoppedRecord ==
    ASSUME TypeInv, HoldInv, NEW me \in Threads, Stopped(me), NEW c \in Channels
    PROVE  /\ c # op[me].ch => Recorded(c)' = Recorded(c)
           /\ c = op[me].ch => Recorded(c) \ Recorded(c)' \subseteq {op[me].id}
           /\ c = op[me].ch /\ Distinct(c) =>
                 Distinct(c)' /\ Recorded(c)' = Recorded(c) \ {op[me].id}
<1>1. /\ RecordTypes /\ op[me].ch \in Channels /\ op[me].slot \in Slots
      /\ op[me].slot < nperiodic[op[me].ch] /\ op[me].id = periodic[op[me].ch][op[me].slot]
  BY Types DEF TypeInv, StageInv, ChannelVerbs, HoldInv, CallInv, StopCall, Stopped, Answered,
               Ops
<1>2. PICK ch \in Channels : ch = op[me].ch
  BY <1>1
<1>3. PICK slot \in Slots : slot = op[me].slot
  BY <1>1
<1>4. PICK n \in 0 .. Limit : n = nperiodic[ch]
  <2>1. nperiodic[ch] \in 0 .. UnsignedMax /\ nperiodic[ch] <= Limit
    BY <1>1 DEF RecordTypes, HoldInv, ListInv
  <2>2. nperiodic[ch] \in 0 .. Limit
    BY <2>1, LedgerAssumption
  <2> QED
    BY <2>2
<1>5. PICK last \in Slots : n = last + 1 /\ slot =< last
  <2>1. slot < n /\ slot \in Nat
    BY <1>1, <1>2, <1>3, <1>4, LedgerAssumption DEF Slots
  <2>2. n - 1 \in Slots /\ n = (n - 1) + 1 /\ slot =< n - 1
    BY <1>4, <2>1, LedgerAssumption DEF Slots
  <2> QED
    BY <2>2
<1>6. Slots \subseteq Nat /\ Decrement(n) = last
  BY <1>4, <1>5, LedgerAssumption DEF Slots, Decrement
<1>7. /\ \A d \in Channels \ {ch} : periodic'[d] = periodic[d] /\ nperiodic'[d] = nperiodic[d]
      /\ nperiodic'[ch] = last
      /\ \A s \in Slots : periodic'[ch][s] = periodic[ch][IF s = slot THEN last ELSE s]
  BY <1>1, <1>2, <1>3, <1>4, <1>5, <1>6 DEF Stopped, RecordTypes
<1>8. \A s \in Slots : (s < n <=> s < last \/ s = last) /\ ~(s < s)
  BY <1>4, <1>5, <1>6
<1>9. /\ \A x : x \in Recorded(ch) <=> \E s \in Slots : s < n /\ x = periodic[ch][s]
      /\ \A x : x \in Recorded(ch)' <=> \E s \in Slots : s < last /\ x = periodic'[ch][s]
  BY <1>4, <1>7 DEF Recorded
<1>10. op[me].id = periodic[ch][slot] /\ slot < n
  BY <1>1, <1>2, <1>3, <1>4
<1>11. c # ch => Recorded(c)' = Recorded(c)
  BY <1>7, RecordedSame
\* The last message moves to the slot of the one stopped.
<1>12. Recorded(ch) \ Recorded(ch)' \subseteq {op[me].id}
  <2> SUFFICES ASSUME NEW s \in Slots, s < n, periodic[ch][s] # op[me].id
               PROVE  \E r \in Slots : r < last /\ periodic[ch][s] = periodic'[ch][r]
    BY <1>9
  <2>1. CASE s = last
    <3>1. slot # last
      BY <1>10, <2>1
    <3>2. slot < last /\ periodic'[ch][slot] = periodic[ch][s]
      BY <1>7, <1>8, <1>10, <2>1, <3>1
    <3> QED
      BY <3>2
  <2>2. CASE s # last
    <3>1. s < last /\ s # slot
      BY <1>8, <1>10, <2>2
    <3> QED
      BY <1>7, <3>1
  <2> QED
    BY <2>1, <2>2
<1>13. ASSUME Distinct(ch)
       PROVE  \A r, s \in Slots : r < n /\ s < n /\ periodic[ch][r] = periodic[ch][s] => r = s
  BY <1>4, <1>13 DEF Distinct
<1>14. ASSUME Distinct(ch)
       PROVE  Recorded(ch)' = Recorded(ch) \ {op[me].id}
  <2>1. ASSUME NEW s \in Slots, s < last
        PROVE  periodic'[ch][s] \in Recorded(ch) \ {op[me].id}
    <3>1. PICK r \in Slots : r = IF s = slot THEN last ELSE s
      BY <1>5
    <3>2. r < n /\ r # slot /\ periodic'[ch][s] = periodic[ch][r]
      BY <1>7, <1>8, <2>1, <3>1
    <3>3. periodic[ch][r] # op[me].id
      BY <1>10, <1>13, <1>14, <3>2
    <3> QED
      BY <1>9, <3>2, <3>3
  <2> QED
    BY <1>9, <1>12, <2>1
<1>15. ASSUME Distinct(ch)
       PROVE  Distinct(ch)'
  <2> SUFFICES ASSUME NEW r \in Slots, NEW s \in Slots,
                      r < nperiodic'[ch], s < nperiodic'[ch], periodic'[ch][r] = periodic'[ch][s]
               PROVE  r = s
    BY DEF Distinct
  <2>1. r < last /\ s < last
    BY <1>7
  <2>2. periodic[ch][IF r = slot THEN last ELSE r] = periodic[ch][IF s = slot THEN last ELSE s]
    BY <1>7
  <2>3. (IF r = slot THEN last ELSE r) = (IF s = slot THEN last ELSE s)
    BY <1>8, <1>13, <1>15, <2>1, <2>2
  <2> QED
    BY <1>8, <2>1, <2>3
<1> QED
  BY <1>2, <1>11, <1>12, <1>14, <1>15

\* Of the call itself the record is right too, and the list is long enough.
LEMMA OwnHolds ==
    ASSUME TypeInv, HoldInv, NEW me \in Threads,
           Begin(me) \/ Serve(me) \/ LoseReply(me) \/ Finish(me)
    PROVE  CallInv(op[me])' /\ ListInv'
<1> DEFINE o == op[me]
<1>1. /\ RecordTypes /\ StageInv(o) /\ CallInv(o) /\ ListInv /\ Stable(me)
      /\ o.verb \in ChannelVerbs => o.ch \in Channels
  BY Types, StepStable DEF TypeInv, HoldInv, StageInv
<1> HIDE DEF o
<1>2. \A c \in Channels : o.ch # c =>
          nperiodic'[c] <= Limit /\ (c \notin open' => nperiodic'[c] = 0)
  BY <1>1 DEF o, Stable, KeepsChannel, ListInv
<1>3. CASE Begin(me)
  <2>1. ListInv'
    BY <1>1, <1>3, BeginMoves DEF ListInv
  <2> QED
    BY <1>3, <2>1, BeginMoves
       DEF CallInv, ChannelCall, StartCall, StopCall, SettledCall, Settled, PinCall, PinAllowed
<1>4. CASE Serve(me) \/ LoseReply(me)
  <2>1. PICK r \in Replies : Served(me, r)
    BY <1>4, ServeMoves
  <2>2. UNCHANGED <<open, periodic, nperiodic, pinsGrounded, pinsPowered>>
    BY <2>1 DEF Served, record
  <2>3. ListInv'
    BY <1>1, <2>2 DEF ListInv
  <2>4. ChannelCall(op[me])' /\ StartCall(op[me])' /\ PinCall(op[me])'
    BY <1>1, <2>1, <2>2
       DEF o, Served, CallInv, ChannelCall, StartCall, PinCall, PinAllowed, Opens
  <2>5. StopCall(op[me])' /\ SettledCall(op[me])'
    BY <1>1, <2>1, <2>2 DEF o, Served, CallInv, StopCall, SettledCall, Settled
  <2> QED
    BY <2>3, <2>4, <2>5 DEF CallInv
<1>5. CASE Finish(me)
  <2>1. Ending(me) /\ o.verb \in Verbs
    BY <1>5, FinishMoves DEF o, Ending
  <2>2. op'[me] = Idle => CallInv(op[me])'
    BY DEF Idle, CallInv, ChannelCall, StartCall, StopCall, SettledCall, Settled, PinCall, Opens
  <2>3. CASE Failed(me) \/ Undone(me) \/ VoltageSet(me)
    <3>1. op'[me] = Idle
      BY <2>1, <2>3 DEF Ending, o, Failed, Undone, VoltageSet, Answered, Done
    <3>2. UNCHANGED <<open, nperiodic>>
      BY <2>3 DEF Failed, Undone, VoltageSet, record
    <3> QED
      BY <1>1, <2>2, <3>1, <3>2 DEF ListInv
  <2>4. CASE Connected(me)
    <3>1. /\ o.ch \in Channels /\ o.verb = "ato" /\ nperiodic'[o.ch] = 0
          /\ UNCHANGED pinsGrounded
      BY <1>1, <2>4 DEF o, Connected, Answered, RecordTypes, ChannelVerbs
    <3>2. ListInv'
      BY <1>2, <3>1, LedgerAssumption DEF ListInv
    <3>3. CASE op'[me] = Idle
      BY <2>2, <3>2, <3>3
    <3>4. CASE /\ op'[me].verb = "undo" /\ op'[me].ch = o.ch
      <4>1. open' = open
        <5>1. op'[me] # Idle
          BY <3>4 DEF Idle
        <5>2. ~Done(me)
          BY <5>1, Types, IdleType DEF Done, TypeInv
        <5> QED
          BY <2>4, <5>2 DEF Connected
      <4>2. ChannelCall(op[me])'
        BY <1>1, <3>1, <3>4, <4>1 DEF CallInv, ChannelCall, Opens
      <4> QED
        BY <3>2, <3>4, <4>2 DEF CallInv, StartCall, StopCall, SettledCall, Settled, PinCall
    <3> QED
      BY <2>1, <3>3, <3>4 DEF Ending, o
  <2>5. CASE Disconnected(me) \/ Cleared(me)
    <3>1. op'[me] = Idle
      BY <2>1, <2>5 DEF Ending, o, Disconnected, Cleared, Answered
    <3>2. o.ch \in Channels /\ nperiodic'[o.ch] = 0
      BY <1>1, <2>5 DEF o, Disconnected, Cleared, Answered, RecordTypes, ChannelVerbs
    <3>3. ListInv'
      BY <1>2, <3>2, LedgerAssumption DEF ListInv
    <3> QED
      BY <2>2, <3>1, <3>3
  <2>6. CASE Started(me)
    <3>1. op'[me] = Idle
      BY <2>1, <2>6 DEF Ending, o, Started, Answered
    <3>2. /\ o.ch \in Channels /\ o.ch \in open /\ UNCHANGED open
          /\ nperiodic[o.ch] < Limit
          /\ nperiodic'[o.ch] = (nperiodic[o.ch] + 1) % (UnsignedMax + 1)
      BY <1>1, <2>6 DEF o, Started, Answered, RecordTypes, ChannelVerbs, CallInv, ChannelCall,
                        StartCall
    <3>3. nperiodic'[o.ch] <= Limit
      <4>1. PICK n \in 0 .. UnsignedMax : n = nperiodic[o.ch]
        <5>1. nperiodic \in [Channels -> 0 .. UnsignedMax] /\ o.ch \in Channels
          BY <1>1, <3>2 DEF RecordTypes
        <5>2. nperiodic[o.ch] \in 0 .. UnsignedMax
          BY <5>1
        <5> QED
          BY <5>2
      <4>2. n < Limit
        BY <3>2, <4>1
      <4>3. (n + 1) % (UnsignedMax + 1) = n + 1 /\ n + 1 <= Limit
        BY <4>2, LedgerAssumption
      <4> QED
        BY <3>2, <4>1, <4>3
    <3>4. ListInv'
      BY <1>2, <3>2, <3>3 DEF ListInv
    <3> QED
      BY <2>2, <3>1, <3>4
  <2>7. CASE Stopped(me)
    <3>1. op'[me] = Idle
      BY <2>1, <2>7 DEF Ending, o, Stopped, Answered
    <3>2. /\ o.ch \in Channels /\ o.ch \in open /\ UNCHANGED open
          /\ o.slot < nperiodic[o.ch]
          /\ nperiodic'[o.ch] = Decrement(nperiodic[o.ch])
      BY <1>1, <2>7 DEF o, Stopped, Answered, RecordTypes, ChannelVerbs, CallInv, ChannelCall,
                        StopCall
    <3>3. nperiodic'[o.ch] <= Limit
      <4>1. PICK n \in 0 .. UnsignedMax : n = nperiodic[o.ch]
        <5>1. nperiodic \in [Channels -> 0 .. UnsignedMax] /\ o.ch \in Channels
          BY <1>1, <3>2 DEF RecordTypes
        <5>2. nperiodic[o.ch] \in 0 .. UnsignedMax
          BY <5>1
        <5> QED
          BY <5>2
      <4>2. PICK slot \in Slots : slot = o.slot
        BY Types DEF o, TypeInv, Ops
      <4>3. slot < n /\ n <= Limit
        BY <1>1, <3>2, <4>1, <4>2 DEF ListInv
      <4>4. Decrement(n) <= Limit
        BY <4>3, LedgerAssumption DEF Decrement, Slots
      <4> QED
        BY <3>2, <4>1, <4>4
    <3>4. ListInv'
      BY <1>2, <3>2, <3>3 DEF ListInv
    <3> QED
      BY <2>2, <3>1, <3>4
  <2> QED
    BY <1>5, <2>3, <2>4, <2>5, <2>6, <2>7 DEF Finish
<1> QED
  BY <1>3, <1>4, <1>5

\* Whoever connects has looked at the pins, and whoever sets one at the lines
\* and the other pins, and it is all as it was then.
LEMMA PinsHold ==
    ASSUME TypeInv, HoldInv, NEW me \in Threads,
           Begin(me) \/ Serve(me) \/ LoseReply(me) \/ Finish(me)
    PROVE  PinsInv'
<1>1. PinsInv /\ CallInv(op[me])
  BY DEF HoldInv
<1>2. CASE \/ Begin(me) \/ Serve(me) \/ LoseReply(me) \/ Failed(me) \/ Undone(me)
           \/ Disconnected(me) \/ Started(me) \/ Stopped(me) \/ Cleared(me)
  <2>1. open' \subseteq open /\ UNCHANGED <<pinsGrounded, pinsPowered>>
    BY <1>2, BeginMoves DEF Serve, LoseReply, Failed, Undone, Disconnected, Started, Stopped,
                            Cleared, record
  <2> QED
    BY <1>1, <2>1 DEF PinsInv
<1>3. CASE Connected(me)
  <2>1. \A pin \in pinsGrounded : ~UsesPin(op[me].ch, pin)
    BY <1>1, <1>3 DEF Connected, Answered, CallInv, ChannelCall, Opens
  <2>2. open' \subseteq open \cup {op[me].ch} /\ UNCHANGED <<pinsGrounded, pinsPowered>>
    BY <1>3 DEF Connected
  <2> QED
    BY <1>1, <2>1, <2>2 DEF PinsInv
<1>4. CASE VoltageSet(me)
  <2>1. PinAllowed(op[me].pin, op[me].volt) /\ UNCHANGED open
    BY <1>1, <1>4 DEF VoltageSet, Answered, CallInv, PinCall
  <2>2. \A c \in open', pin \in pinsGrounded' : ~UsesPin(c, pin)
    BY <1>1, <1>4, <2>1 DEF VoltageSet, PinAllowed, PinsInv
  <2>3. \A p, q \in pinsPowered' : p = q
    BY <1>1, <1>4, <2>1 DEF VoltageSet, PinAllowed, PinsInv
  <2> QED
    BY <2>2, <2>3 DEF PinsInv
<1> QED
  BY <1>2, <1>3, <1>4 DEF Finish

LEMMA HoldInit == ASSUME Init PROVE HoldInv
<1>1. \A t \in Threads : op[t] = Idle
  BY DEF Init
<1>2. ApartInv
  BY <1>1 DEF ApartInv, Busy, Idle
<1>3. \A t \in Threads : CallInv(op[t])
  BY <1>1 DEF Idle, CallInv, ChannelCall, StartCall, StopCall, SettledCall, Settled, PinCall,
              Opens
<1>4. ListInv
  BY LedgerAssumption DEF Init, ListInv
<1>5. PinsInv
  BY DEF Init, PinsInv
<1> QED
  BY <1>2, <1>3, <1>4, <1>5 DEF HoldInv

LEMMA HoldNext ==
    ASSUME KeptApart, TypeInv, HoldInv, [Next]_vars
    PROVE  HoldInv'
<1>1. CASE UNCHANGED vars
  <2>1. /\ UNCHANGED <<open, periodic, nperiodic, pinsGrounded, pinsPowered>>
        /\ UNCHANGED <<op, cable>>
    BY <1>1 DEF vars, record
  <2>2. ApartInv'
    BY <2>1 DEF HoldInv, ApartInv, Busy
  <2>3. ASSUME NEW t \in Threads
        PROVE  CallInv(op[t])'
    BY <2>1 DEF HoldInv, CallInv, ChannelCall, StartCall, StopCall, SettledCall, Settled,
                PinCall, PinAllowed
  <2>4. ListInv'
    BY <2>1 DEF HoldInv, ListInv
  <2>5. PinsInv'
    BY <2>1 DEF HoldInv, PinsInv
  <2> QED
    BY <2>2, <2>3, <2>4, <2>5 DEF HoldInv
<1>2. CASE Restart
  <2>1. \A t \in Threads : /\ op'[t].verb = "none" /\ op'[t].stage = "idle"
    BY <1>2, RestartMoves
  <2>2. ApartInv'
    BY <2>1 DEF ApartInv, Busy
  <2>3. \A t \in Threads : CallInv(op[t])'
    BY <2>1 DEF CallInv, ChannelCall, StartCall, StopCall, SettledCall, Settled, PinCall, Opens
  <2>4. ListInv'
    BY <1>2, LedgerAssumption DEF Restart, ListInv
  <2>5. PinsInv'
    BY <1>2 DEF Restart, PinsInv
  <2> QED
    BY <2>2, <2>3, <2>4, <2>5 DEF HoldInv
<1>3. ASSUME NEW me \in Threads, Begin(me) \/ Serve(me) \/ LoseReply(me) \/ Finish(me)
      PROVE  HoldInv'
  <2>1. ApartInv'
    BY <1>3, ApartNext DEF HoldInv
  <2>2. CallInv(op[me])' /\ ListInv'
    BY <1>3, OwnHolds
  <2>3. \A u \in Threads \ {me} : CallInv(op[u])'
    BY <1>3, StepStable, OthersHold DEF HoldInv
  <2>4. \A u \in Threads : CallInv(op[u])'
    BY <2>2, <2>3
  <2> QED
    BY <1>3, <2>1, <2>2, <2>4, PinsHold DEF HoldInv
<1> QED
  BY <1>1, <1>2, <1>3 DEF Next

LEMMA HoldInvariance == KeptApart => (Spec => [](TypeInv /\ HoldInv))
<1> SUFFICES ASSUME KeptApart PROVE Spec => [](TypeInv /\ HoldInv)
  OBVIOUS
<1>1. Init => TypeInv /\ HoldInv
  BY TypeInit, HoldInit
<1>2. TypeInv /\ HoldInv /\ [Next]_vars => (TypeInv /\ HoldInv)'
  BY TypeNext, HoldNext
<1> QED
  BY <1>1, <1>2, PTL DEF Spec

\* A message that still runs on an open channel stays in the record, so that
\* it can be stopped, even when replies are lost: periodic_stop drops it only
\* on the replies that say it is gone.
THEOREM StoppedBeforeForgotten == KeptApart => (Spec => ForgottenOnlyWhenStopped)
<1> SUFFICES ASSUME KeptApart PROVE Spec => ForgottenOnlyWhenStopped
  OBVIOUS
<1> DEFINE Kept == \A c \in open \cap open' :
                      (Recorded(c) \ Recorded(c)') \cap cable'.live[c] = {}
<1>1. TypeInv /\ HoldInv /\ [Next]_vars => [Kept]_vars
  <2> SUFFICES ASSUME TypeInv, HoldInv, Next, NEW c \in open \cap open'
               PROVE  (Recorded(c) \ Recorded(c)') \cap cable'.live[c] = {}
    OBVIOUS
  <2>1. RecordTypes /\ c \in Channels
    BY Types DEF TypeInv, RecordTypes
  <2>2. CASE Restart
    BY <2>2 DEF Restart
  <2>3. ASSUME NEW me \in Threads, Begin(me) \/ Serve(me) \/ LoseReply(me) \/ Finish(me)
        PROVE  (Recorded(c) \ Recorded(c)') \cap cable'.live[c] = {}
    <3>1. CallInv(op[me])
      BY DEF HoldInv
    <3>2. CASE periodic'[c] = periodic[c] /\ nperiodic'[c] = nperiodic[c]
      BY <2>1, <3>2, RecordedSame
    <3>3. CASE op[me].ch # c
      BY <2>1, <2>3, <3>2, <3>3, StepStable DEF Stable, KeepsChannel
    <3>4. CASE Begin(me) \/ Failed(me) \/ Undone(me) \/ VoltageSet(me)
      <4>1. UNCHANGED <<periodic, nperiodic>>
        BY <3>4, BeginMoves DEF Failed, Undone, VoltageSet, record
      <4> QED
        BY <3>2, <4>1
    <3>5. CASE Serve(me) \/ LoseReply(me)
      BY <3>2, <3>5, ServeMoves DEF Served, record
    <3>6. CASE Connected(me)
      <4>1. op[me].ch \notin open
        BY <3>1, <3>6 DEF CallInv, ChannelCall, Opens, Connected, Answered
      <4> QED
        BY <3>3, <4>1
    <3>7. CASE Disconnected(me)
      BY <3>3, <3>7 DEF Disconnected
    <3>8. CASE Started(me)
      BY <2>1, <3>8, StartedRecord
    <3>9. CASE Stopped(me)
      <4>1. op[me].id \notin cable.live[op[me].ch] /\ UNCHANGED cable
        BY <3>1, <3>9 DEF Stopped, Answered, CallInv, StopCall
      <4>2. c = op[me].ch => Recorded(c) \ Recorded(c)' \subseteq {op[me].id}
        BY <2>1, <3>9, StoppedRecord
      <4> QED
        BY <3>3, <4>1, <4>2
    <3>10. CASE Cleared(me)
      <4>1. cable.live[op[me].ch] = {} /\ UNCHANGED cable
        BY <3>1, <3>10 DEF Cleared, Answered, CallInv, SettledCall, Settled
      <4> QED
        BY <3>3, <4>1
    <3> QED
      BY <2>3, <3>4, <3>5, <3>6, <3>7, <3>8, <3>9, <3>10 DEF Finish
  <2> QED
    BY <2>2, <2>3 DEF Next
<1> QED
  BY <1>1, HoldInvariance, PTL DEF Spec, ForgottenOnlyWhenStopped
-----------------------------------------------------------------------------
(***************************************************************************)
(* The truth of the record of all that no lost reply has left in doubt:    *)
(* the cable is ahead of it by the calls under way, each on its own        *)
(* channel or pin.                                                         *)
(***************************************************************************)
LEMMA ChannelFrame ==
    ASSUME NEW c \in Channels, NEW p, KeepsChannel(c), ChannelTrue(c, p)
    PROVE  ChannelTrue(c, p)'
<1>1. Recorded(c)' = Recorded(c)
  BY RecordedSame DEF KeepsChannel
<1> QED
  BY <1>1 DEF KeepsChannel, ChannelTrue, Distinct

\* A step is about the channels of its own call, before and after.
LEMMA ChannelsNext ==
    ASSUME TypeInv, ApartInv, ChannelsTrue, NEW me \in Threads, Stable(me),
           \A u \in Threads \ {me} : op'[me].ch \in Channels => op[u].ch # op'[me].ch,
           \A c \in Channels \ unsureChannels' : op'[me].ch = c => ChannelTrue(c, op[me])',
           \A c \in Channels \ unsureChannels' :
               op[me].ch = c /\ op'[me].ch # c => ChannelTrue(c, Idle)'
    PROVE  ChannelsTrue'
<1> SUFFICES ASSUME NEW c \in Channels \ unsureChannels'
             PROVE  /\ \A t \in Threads : op'[t].ch = c => ChannelTrue(c, op[t])'
                    /\ (\A t \in Threads : op'[t].ch # c) => ChannelTrue(c, Idle)'
  BY DEF ChannelsTrue
<1>1. \A u \in Threads \ {me} : op'[u] = op[u]
  BY DEF Stable
<1>2. CASE op'[me].ch = c
  BY <1>1, <1>2
<1>3. CASE op'[me].ch # c /\ op[me].ch = c
  <2>1. \A u \in Threads \ {me} : op[u].ch # c
    BY <1>3, OnlyCall
  <2> QED
    BY <1>1, <1>3, <2>1
<1>4. CASE op'[me].ch # c /\ op[me].ch # c
  <2>1. KeepsChannel(c) /\ c \notin unsureChannels
    BY <1>4 DEF Stable, KeepsChannel
  <2>2. ASSUME NEW t \in Threads, op'[t].ch = c
        PROVE  ChannelTrue(c, op[t])'
    <3>1. PICK p : p = op[t] /\ op'[t] = p
      BY <1>1, <1>4, <2>2
    <3>2. ChannelTrue(c, p)
      BY <2>1, <2>2, <3>1 DEF ChannelsTrue
    <3>3. ChannelTrue(c, p)'
      BY <2>1, <3>2, ChannelFrame
    <3> QED
      BY <3>1, <3>3 DEF ChannelTrue
  <2>3. ASSUME \A t \in Threads : op'[t].ch # c
        PROVE  ChannelTrue(c, Idle)'
    <3>1. \A t \in Threads : op[t].ch # c
      BY <1>1, <1>4, <2>3
    <3>2. ChannelTrue(c, Idle)
      BY <2>1, <3>1 DEF ChannelsTrue
    <3> QED
      BY <2>1, <3>2, ChannelFrame
  <2> QED
    BY <2>2, <2>3
<1> QED
  BY <1>2, <1>3, <1>4

LEMMA PinFrame ==
    ASSUME NEW p, NEW o, KeepsPins, PinTrue(p, o)
    PROVE  PinTrue(p, o)'
BY DEF KeepsPins, PinTrue, PinHas

\* A step of a call that is not about the pins leaves them as true as before.
LEMMA PinsNext ==
    ASSUME TypeInv, ApartInv, PinsTrue, NEW me \in Threads, Stable(me),
           \A u \in Threads \ {me} : op'[me].verb = "atv" => op[u].verb # "atv",
           \A p \in Pins \ unsurePins' : op'[me].verb = "atv" => PinTrue(p, op[me])',
           \A p \in Pins \ unsurePins' :
               op[me].verb = "atv" /\ op'[me].verb # "atv" => PinTrue(p, Idle)'
    PROVE  PinsTrue'
<1> SUFFICES ASSUME NEW p \in Pins \ unsurePins'
             PROVE  /\ \A t \in Threads : op'[t].verb = "atv" => PinTrue(p, op[t])'
                    /\ (\A t \in Threads : op'[t].verb # "atv") => PinTrue(p, Idle)'
  BY DEF PinsTrue
<1>1. \A u \in Threads \ {me} : op'[u] = op[u]
  BY DEF Stable
<1>2. CASE op'[me].verb = "atv"
  BY <1>1, <1>2
<1>3. CASE op'[me].verb # "atv" /\ op[me].verb = "atv"
  <2>1. \A u \in Threads \ {me} : op[u].verb # "atv"
    BY <1>3, OnlyCall
  <2> QED
    BY <1>1, <1>3, <2>1
<1>4. CASE op'[me].verb # "atv" /\ op[me].verb # "atv"
  <2>1. KeepsPins /\ p \notin unsurePins
    BY <1>4 DEF Stable, KeepsPins
  <2>2. ASSUME NEW t \in Threads, op'[t].verb = "atv"
        PROVE  PinTrue(p, op[t])'
    <3>1. PICK o : o = op[t] /\ op'[t] = o
      BY <1>1, <1>4, <2>2
    <3>2. PinTrue(p, o)
      BY <2>1, <2>2, <3>1 DEF PinsTrue
    <3>3. PinTrue(p, o)'
      BY <2>1, <3>2, PinFrame
    <3> QED
      BY <3>1, <3>3 DEF PinTrue
  <2>3. ASSUME \A t \in Threads : op'[t].verb # "atv"
        PROVE  PinTrue(p, Idle)'
    <3>1. PinTrue(p, Idle)
      BY <1>1, <1>4, <2>1, <2>3 DEF PinsTrue
    <3> QED
      BY <2>1, <3>1, PinFrame
  <2> QED
    BY <2>2, <2>3
<1> QED
  BY <1>2, <1>3, <1>4

\* A call begins with the record true, on a channel or on pins that no other
\* call is about.
LEMMA BeginTruth ==
    ASSUME KeptApart, TypeInv, HoldInv, TruthInv, NEW me \in Threads, Begin(me)
    PROVE  TruthInv'
<1>1. /\ UNCHANGED <<open, periodic, nperiodic, pinsGrounded, pinsPowered, cable>>
      /\ UNCHANGED <<unsureChannels, unsurePins>>
      /\ op[me].stage = "idle" /\ op'[me].stage = "sent" /\ op'[me].reply = "none"
      /\ op'[me].verb # "undo" /\ StageInv(op'[me]) /\ Stable(me) /\ StageInv(op[me])
  BY BeginMoves, StepStable DEF TypeInv
<1>2. op[me].ch = 0 /\ op[me].verb = "none" /\ 0 \notin Channels
  BY <1>1, IdleType DEF StageInv, ChannelVerbs
\* It is the only one.
<1>3. ASSUME NEW u \in Threads \ {me}
      PROVE  /\ op'[me].ch \in Channels => op[u].ch # op'[me].ch
             /\ op'[me].verb = "atv" => op[u].verb # "atv"
  <2>1. Busy(u) => ~Conflict(op'[me], op[u])
    BY BeginMoves
  <2>2. StageInv(op[u])
    BY DEF TypeInv
  <2>3. ASSUME op'[me].ch \in Channels
        PROVE  op[u].ch # op'[me].ch
    BY <1>2, <2>1, <2>2, <2>3 DEF Conflict, StageInv, Busy, ChannelVerbs
  <2>4. ASSUME op'[me].verb = "atv"
        PROVE  op[u].verb # "atv"
    BY <1>1, <2>1, <2>2, <2>4 DEF Conflict, StageInv, Busy, ChannelVerbs
  <2> QED
    BY <2>3, <2>4
<1>4. ChannelsTrue'
  <2>1. ASSUME NEW c \in Channels \ unsureChannels', op'[me].ch = c
        PROVE  ChannelTrue(c, op[me])'
    <3>1. ChannelTrue(c, Idle)
      BY <1>1, <1>2, <1>3, <2>1 DEF TruthInv, ChannelsTrue
    <3>2. (c \in cable.open <=> c \in open) /\ Distinct(c)'
      BY <1>1, <3>1 DEF ChannelTrue, Idle, Opened, Closed, Distinct
    <3>3. cable.live[c] = Recorded(c)
      BY <3>1 DEF ChannelTrue, Idle, LiveAfter
    <3>4. Recorded(c)' = Recorded(c)
      BY <1>1, RecordedSame
    <3>5. LiveAfter(op'[me], Recorded(c)) = Recorded(c)
      BY <1>1 DEF LiveAfter, GoneAnswers
    <3> QED
      BY <1>1, <3>2, <3>3, <3>4, <3>5 DEF ChannelTrue, Opened, Closed
  <2> QED
    BY <1>1, <1>2, <1>3, <2>1, ChannelsNext DEF HoldInv, TruthInv
<1>5. PinsTrue'
  <2>1. ASSUME NEW p \in Pins \ unsurePins', op'[me].verb = "atv"
        PROVE  PinTrue(p, op[me])'
    <3>1. PinTrue(p, Idle)
      BY <1>1, <1>2, <1>3, <2>1 DEF TruthInv, PinsTrue
    <3> QED
      BY <1>1, <3>1 DEF PinTrue, PinHas, Moved, Idle
  <2> QED
    BY <1>1, <1>2, <1>3, <2>1, PinsNext DEF HoldInv, TruthInv
<1> QED
  BY <1>4, <1>5 DEF TruthInv

\* A served command changes its own channel as its call has yet to record.
LEMMA ServeChannel ==
    ASSUME TypeInv, HoldInv, TruthInv, NEW me \in Threads, Serve(me),
           op[me].ch \in Channels \ unsureChannels
    PROVE  ChannelTrue(op[me].ch, op[me])'
<1>1. PICK o \in Ops : o = op[me]
  BY Types DEF TypeInv
<1>2. PICK c \in Channels \ unsureChannels : c = o.ch
  BY <1>1
<1>3. PICK x \in Outcomes(o), r \in {"aro", "are", "are13"} :
         cable' = x[1] /\ x[2] = r /\ Served(me, r)
  <2>1. PICK x \in Outcomes(op[me]) : cable' = x[1] /\ Answer(me, x[2])
    BY DEF Serve
  <2>2. op[me].stage = "sent"
    BY DEF Serve
  <2>3. x[2] \in {"aro", "are", "are13"}
    BY <2>1, <2>2, CableMoves
  <2>4. PICK r \in Replies : Served(me, r)
    BY ServeMoves
  <2>5. r = x[2]
    <3>1. op'[me].reply = x[2]
      <4>1. op \in [Threads -> Ops]
        BY Types DEF TypeInv
      <4> QED
        BY <2>1, <4>1 DEF Answer, Ops
    <3> QED
      BY <2>4, <3>1 DEF Served
  <2> QED
    BY <1>1, <2>1, <2>3, <2>4, <2>5
<1>4. /\ o.stage = "sent" /\ o.reply = "none" /\ o.verb \in ChannelVerbs
      /\ CallInv(o) /\ cable \in Cables /\ CableInv /\ RecordTypes
      /\ UNCHANGED <<open, periodic, nperiodic>>
  BY <1>1, <1>2, <1>3, IdleType, Types DEF Served, TypeInv, HoldInv, StageInv, record
<1>5. /\ op'[me].stage = "answered" /\ op'[me].reply = r /\ op'[me].verb = o.verb
      /\ op'[me].ch = c
      /\ op'[me].id = IF o.verb = "atm" /\ r = "aro" THEN cable.nextId ELSE o.id
  BY <1>1, <1>2, <1>3 DEF Served
\* Before, the cable is as recorded, but for a channel opened in vain.
<1>6. /\ c \in cable.open <=> c \in open \/ o.verb = "undo"
      /\ cable.live[c] = Recorded(c) /\ Recorded(c)' = Recorded(c) /\ Distinct(c)'
  <2>1. ChannelTrue(c, o)
    BY <1>1, <1>2 DEF TruthInv, ChannelsTrue
  <2>2. Opened(o) <=> o.verb = "undo"
    BY <1>4 DEF Opened
  <2>3. ~Closed(o) /\ LiveAfter(o, Recorded(c)) = Recorded(c)
    BY <1>4 DEF Closed, LiveAfter, GoneAnswers
  <2>4. Recorded(c)' = Recorded(c)
    BY <1>4, RecordedSame
  <2>5. Distinct(c)'
    BY <1>4, <2>1 DEF ChannelTrue, Distinct
  <2> QED
    BY <2>1, <2>2, <2>3, <2>4, <2>5 DEF ChannelTrue
<1>7. ASSUME NEW p, p = op'[me],
             c \in cable'.open <=> (c \in open \/ Opened(p)) /\ ~Closed(p),
             cable'.live[c] = LiveAfter(p, Recorded(c)),
             p.verb = "atm" /\ p.reply = "aro" => p.id \notin Recorded(c)
      PROVE  ChannelTrue(op[me].ch, op[me])'
  BY <1>4, <1>5, <1>6, <1>7 DEF ChannelTrue
<1> DEFINE Goal == ChannelTrue(op[me].ch, op[me])'
<1>8. PICK p : p = op'[me]
  OBVIOUS
<1>9. /\ p.stage = "answered" /\ p.reply = r /\ p.verb = o.verb
      /\ p.id = IF o.verb = "atm" /\ r = "aro" THEN cable.nextId ELSE o.id
  BY <1>5, <1>8
<1> HIDE DEF Goal
<1> USE DEF Refused
<1>10. CASE o.verb = "ato"
  <2>1. \/ cable' = cable /\ r = "are"
        \/ r = "aro" /\ cable' = [cable EXCEPT !.open = @ \cup {c}]
    BY <1>2, <1>3, <1>10 DEF Outcomes, ServeOpen
  <2>2. c \in cable'.open <=> c \in open \/ r = "aro"
    BY <1>4, <1>6, <1>10, <2>1 DEF Cables
  <2>3. cable'.live[c] = Recorded(c)
    BY <1>4, <1>6, <2>1 DEF Cables
  <2> QED
    BY <1>7, <1>8, <1>9, <1>10, <2>2, <2>3 DEF Goal, Opened, Closed, LiveAfter
<1>11. CASE o.verb \in {"atc", "undo"}
  <2>1. r = "aro" /\ cable' = [cable EXCEPT !.open = @ \ {c}, !.live[c] = {}]
    BY <1>2, <1>3, <1>11 DEF Outcomes, ServeClose
  <2>2. c \notin cable'.open /\ cable'.live[c] = {}
    BY <1>4, <2>1 DEF Cables
  <2>3. CASE o.verb = "atc"
    BY <1>7, <1>8, <1>9, <2>2, <2>3 DEF Goal, Opened, Closed, LiveAfter
  <2>4. CASE o.verb = "undo"
    <3>1. c \notin open
      BY <1>2, <1>4, <2>4 DEF CallInv, ChannelCall, Opens
    <3>2. Recorded(c) = {}
      <4>1. nperiodic[c] = 0
        BY <3>1 DEF HoldInv, ListInv
      <4> QED
        BY <4>1, LedgerAssumption DEF Recorded, Slots
    <3> QED
      BY <1>7, <1>8, <1>9, <2>2, <2>4, <3>1, <3>2 DEF Goal, Opened, Closed, LiveAfter
  <2> QED
    BY <1>11, <2>3, <2>4 DEF Goal
<1>12. CASE o.verb = "atm"
  <2>1. \/ cable' = cable /\ r = "are"
        \/ /\ r = "aro"
           /\ cable' = [cable EXCEPT !.live[c] = @ \cup {cable.nextId}, !.nextId = @ + 1]
    BY <1>2, <1>3, <1>12 DEF Outcomes, ServeStart
  <2>2. c \in cable'.open <=> c \in open
    BY <1>4, <1>6, <1>12, <2>1 DEF Cables
  <2>3. cable'.live[c] = IF r = "aro" THEN Recorded(c) \cup {cable.nextId} ELSE Recorded(c)
    <3>1. CASE cable' = cable /\ r = "are"
      BY <1>6, <3>1
    <3>2. CASE /\ r = "aro"
               /\ cable' = [cable EXCEPT !.live[c] = @ \cup {cable.nextId}, !.nextId = @ + 1]
      <4>1. cable'.live = [cable.live EXCEPT ![c] = @ \cup {cable.nextId}]
        BY <1>4, <3>2 DEF Cables
      <4>2. cable'.live[c] = cable.live[c] \cup {cable.nextId}
        BY <1>4, <4>1 DEF Cables
      <4> QED
        BY <1>6, <3>2, <4>2
    <3> QED
      BY <2>1, <3>1, <3>2
  <2>4. cable.nextId \notin Recorded(c)
    <3>1. cable.nextId \in Int /\ ~(cable.nextId < cable.nextId)
      BY <1>4, LedgerAssumption DEF Cables
    <3> QED
      BY <1>4, <1>6, <3>1 DEF CableInv
  <2> QED
    BY <1>7, <1>8, <1>9, <1>12, <2>2, <2>3, <2>4
       DEF Goal, Opened, Closed, LiveAfter, GoneAnswers
<1>13. CASE o.verb = "atn"
  <2>1. \/ cable' = cable /\ r = "are13" /\ o.id \notin cable.live[c]
        \/ r = "aro" /\ cable' = [cable EXCEPT !.live[c] = @ \ {o.id}]
    BY <1>2, <1>3, <1>13 DEF Outcomes, ServeStop
  <2>2. c \in cable'.open <=> c \in open
    BY <1>4, <1>6, <1>13, <2>1 DEF Cables
  <2>3. cable'.live[c] = Recorded(c) \ {o.id}
    BY <1>4, <1>6, <2>1 DEF Cables
  <2>4. r \in GoneAnswers
    BY <2>1 DEF GoneAnswers
  <2> QED
    BY <1>7, <1>8, <1>9, <1>13, <2>2, <2>3, <2>4 DEF Goal, Opened, Closed, LiveAfter
<1>14. CASE o.verb = "atl"
  <2>1. c \in cable.open
    BY <1>2, <1>4, <1>6, <1>14 DEF CallInv, ChannelCall
  <2>2. r = "aro" /\ cable' = [cable EXCEPT !.live[c] = {}]
    <3>1. x = ServeClear(c)
      BY <1>2, <1>14 DEF Outcomes
    <3>2. x = <<[cable EXCEPT !.live[c] = {}], "aro">>
      BY <2>1, <3>1 DEF ServeClear
    <3> QED
      BY <1>3, <3>2
  <2>3. (c \in cable'.open <=> c \in open) /\ cable'.live[c] = {}
    BY <1>4, <1>6, <1>14, <2>2 DEF Cables
  <2> QED
    BY <1>7, <1>8, <1>9, <1>14, <2>2, <2>3 DEF Goal, Opened, Closed, LiveAfter
<1> QED
  BY <1>4, <1>10, <1>11, <1>12, <1>13, <1>14 DEF ChannelVerbs, Goal

\* And its own pin.
LEMMA ServePin ==
    ASSUME TypeInv, HoldInv, TruthInv, NEW me \in Threads, Serve(me), op[me].verb = "atv",
           NEW p \in Pins \ unsurePins
    PROVE  PinTrue(p, op[me])'
<1>1. PICK o \in Ops : o = op[me]
  BY Types DEF TypeInv
<1>2. PICK r \in Replies : Served(me, r)
  BY ServeMoves
<1>3. PICK x \in Outcomes(o) : cable' = x[1] /\ Answer(me, x[2])
  BY <1>1 DEF Serve
<1>4. r = x[2]
  <2>1. op \in [Threads -> Ops]
    BY Types DEF TypeInv
  <2>2. op'[me].reply = x[2]
    BY <1>3, <2>1 DEF Answer, Ops
  <2> QED
    BY <1>2, <2>2 DEF Served
<1>5. /\ o.verb = "atv" /\ CableKept(o) /\ Settled(o, r, cable')
      /\ UNCHANGED <<pinsGrounded, pinsPowered>>
      /\ op'[me].reply = r /\ op'[me].verb = o.verb /\ op'[me].pin = o.pin
      /\ op'[me].volt = o.volt
  BY <1>1, <1>2 DEF Served, record
<1>6. /\ p \in cable.ground <=> p \in pinsGrounded
      /\ p \in cable.power <=> p \in pinsPowered
  <2>1. PinTrue(p, o) /\ o.reply = "none"
    BY <1>1, <1>2 DEF TruthInv, PinsTrue, Served
  <2> QED
    BY <2>1 DEF PinTrue, PinHas, Moved
<1>7. r = "aro" \/ (r = "are" /\ cable' = cable)
  BY <1>3, <1>4, <1>5 DEF Outcomes, ServeVoltage, Refused
<1>8. CASE o.pin = p /\ r = "aro"
  BY <1>5, <1>8 DEF Settled, PinTrue, PinHas, Moved
<1>9. CASE ~(o.pin = p /\ r = "aro")
  <2>1. ~Moved(op[me], p)'
    BY <1>5, <1>9 DEF Moved
  <2>2. /\ p \in cable'.ground <=> p \in pinsGrounded
        /\ p \in cable'.power <=> p \in pinsPowered
    BY <1>5, <1>6, <1>7, <1>9 DEF CableKept
  <2> QED
    BY <1>5, <2>1, <2>2 DEF PinTrue, PinHas
<1> QED
  BY <1>8, <1>9

\* The cable does what a call asked for, and the call has it to record; when
\* its reply is lost, what it was about is in doubt.
LEMMA ServeTruth ==
    ASSUME TypeInv, HoldInv, TruthInv, NEW me \in Threads, Serve(me) \/ LoseReply(me)
    PROVE  TruthInv'
<1>1. PICK r \in Replies : Served(me, r)
  BY ServeMoves
<1>2. op'[me].ch = op[me].ch /\ op'[me].verb = op[me].verb
  BY <1>1 DEF Served
<1>3. Stable(me)
  BY StepStable
<1>4. \A u \in Threads \ {me} : /\ op[me].ch \in Channels => op[u].ch # op[me].ch
                                /\ op[me].verb = "atv" => op[u].verb # "atv"
  BY OnlyCall DEF HoldInv
<1>5. CASE Serve(me)
  <2>1. UNCHANGED <<unsureChannels, unsurePins>>
    BY <1>5 DEF Serve, unsure
  <2>2. ASSUME NEW c \in Channels \ unsureChannels', op[me].ch = c
        PROVE  ChannelTrue(c, op[me])'
    <3>1. ChannelTrue(op[me].ch, op[me])'
      BY <1>5, <2>1, <2>2, ServeChannel
    <3> QED
      BY <1>2, <2>2, <3>1 DEF ChannelTrue, Recorded, Distinct
  <2>3. ChannelsTrue'
    BY <1>2, <1>3, <1>4, <2>2, ChannelsNext DEF HoldInv, TruthInv
  <2>4. ASSUME NEW p \in Pins \ unsurePins', op[me].verb = "atv"
        PROVE  PinTrue(p, op[me])'
    BY <1>5, <2>1, <2>4, ServePin
  <2>5. PinsTrue'
    BY <1>2, <1>3, <1>4, <2>4, PinsNext DEF HoldInv, TruthInv
  <2> QED
    BY <2>3, <2>5 DEF TruthInv
<1>6. CASE LoseReply(me)
  <2>1. ChannelsTrue'
    <3>1. op[me].ch \in Channels => op[me].ch \in unsureChannels'
      BY <1>6 DEF LoseReply
    <3> QED
      BY <1>2, <1>3, <1>4, <3>1, ChannelsNext DEF HoldInv, TruthInv
  <2>2. PinsTrue'
    <3>1. ASSUME NEW p \in Pins \ unsurePins', op[me].verb = "atv"
          PROVE  PinTrue(p, op[me])'
      <4>1. op[me].pin # p /\ p \notin unsurePins
        BY <1>6, <3>1 DEF LoseReply
      <4>2. PinTrue(p, op[me]) /\ CableKept(op[me])
        BY <1>1, <3>1, <4>1 DEF TruthInv, PinsTrue, Served
      <4>3. /\ op'[me].pin = op[me].pin /\ UNCHANGED <<pinsGrounded, pinsPowered>>
        BY <1>1 DEF Served, record
      <4> QED
        BY <4>1, <4>2, <4>3 DEF PinTrue, PinHas, Moved, CableKept
    <3> QED
      BY <1>2, <1>3, <1>4, <3>1, PinsNext DEF HoldInv, TruthInv
  <2> QED
    BY <2>1, <2>2 DEF TruthInv
<1> QED
  BY <1>5, <1>6


LEMMA DoneMoves == ASSUME TypeInv, NEW me \in Threads, Done(me) PROVE op'[me] = Idle
BY Types DEF TypeInv, Done

LEMMA FailedMoves ==
    ASSUME TypeInv, NEW me \in Threads, Failed(me) \/ Undone(me)
    PROVE  /\ op'[me] = Idle
           /\ UNCHANGED <<open, periodic, nperiodic, pinsGrounded, pinsPowered>>
           /\ UNCHANGED <<unsureChannels, unsurePins>>
BY DoneMoves DEF Failed, Undone, record, unsure

\* What a call that ends has to have recorded of its channel.
LEMMA EndedChannel ==
    ASSUME NEW c \in Channels, NEW o \in Ops, ChannelTrue(c, o), UNCHANGED cable,
           c \in open' <=> (c \in open \/ Opened(o)) /\ ~Closed(o),
           Recorded(c)' = LiveAfter(o, Recorded(c)), Distinct(c)'
    PROVE  ChannelTrue(c, Idle)'
BY DEF ChannelTrue, Idle, Opened, Closed, LiveAfter

\* A call records what the cable has done, and a channel opened in vain is left
\* to be closed.
LEMMA FinishTruth ==
    ASSUME TypeInv, HoldInv, TruthInv, NEW me \in Threads, Finish(me)
    PROVE  TruthInv'
<1>1. PICK o \in Ops : o = op[me]
  BY Types DEF TypeInv
<1>2. /\ RecordTypes /\ StageInv(o) /\ CallInv(o) /\ Stable(me) /\ Ending(me)
      /\ UNCHANGED cable /\ o.stage = "answered"
      /\ o.verb \in ChannelVerbs => o.ch \in Channels
  BY <1>1, Types, StepStable, FinishMoves DEF TypeInv, HoldInv, Ending, StageInv
<1>3. ASSUME NEW p \in Pins \ unsurePins, o.verb = "atv"
      PROVE  PinTrue(p, o)
  BY <1>1, <1>3 DEF TruthInv, PinsTrue
<1>4. ASSUME NEW c \in Channels \ unsureChannels, c = o.ch
      PROVE  ChannelTrue(c, o)
  BY <1>1, <1>4 DEF TruthInv, ChannelsTrue
<1>5. 0 \notin Channels /\ Idle.ch = 0 /\ Idle.verb = "none"
  BY IdleType DEF Idle
<1>6. \A s \in Slots : ~(s < 0)
  BY LedgerAssumption DEF Slots
\* The step's own channel or pins are enough.
<1>7. ASSUME op'[me] = Idle,
             \A c \in Channels \ unsureChannels' : c = o.ch => ChannelTrue(c, Idle)',
             \A p \in Pins \ unsurePins' : o.verb = "atv" => PinTrue(p, Idle)'
      PROVE  TruthInv'
  <2>1. ChannelsTrue'
    BY <1>1, <1>2, <1>5, <1>7, ChannelsNext DEF HoldInv, TruthInv
  <2>2. PinsTrue'
    BY <1>1, <1>2, <1>5, <1>7, PinsNext DEF HoldInv, TruthInv
  <2> QED
    BY <2>1, <2>2 DEF TruthInv
<1>8. ASSUME NEW c \in Channels \ unsureChannels, c = o.ch,
             c \in open' <=> (c \in open \/ Opened(o)) /\ ~Closed(o),
             Recorded(c)' = LiveAfter(o, Recorded(c)), Distinct(c)'
      PROVE  ChannelTrue(c, Idle)'
  BY <1>2, <1>4, <1>8, EndedChannel
<1>9. o.verb = "undo" => o.ch \notin open
  BY <1>2 DEF CallInv, ChannelCall, Opens
<1>10. CASE Failed(me) \/ Undone(me)
  <2>1. /\ op'[me] = Idle
        /\ UNCHANGED <<open, periodic, nperiodic, pinsGrounded, pinsPowered>>
        /\ UNCHANGED <<unsureChannels, unsurePins>>
    BY <1>10, FailedMoves
  <2>2. ASSUME NEW c \in Channels \ unsureChannels', c = o.ch
        PROVE  ChannelTrue(c, Idle)'
    <3>1. ~Opened(o) /\ ~Closed(o) /\ LiveAfter(o, Recorded(c)) = Recorded(c)
      BY <1>1, <1>2, <1>10 DEF Failed, Undone, Answered, Opened, Closed, LiveAfter, GoneAnswers
    <3>2. c \notin unsureChannels /\ Distinct(c)'
      BY <1>4, <2>1, <2>2 DEF ChannelTrue, Distinct
    <3> QED
      BY <1>8, <2>1, <2>2, <3>1, <3>2, RecordedSame
  <2>3. ASSUME NEW p \in Pins \ unsurePins', o.verb = "atv"
        PROVE  PinTrue(p, Idle)'
    <3>1. PinTrue(p, o) /\ o.reply # "aro"
      BY <1>1, <1>3, <1>10, <2>1, <2>3 DEF Failed, Undone, Answered
    <3> QED
      BY <1>2, <1>5, <2>1, <3>1 DEF PinTrue, PinHas, Moved
  <2> QED
    BY <1>7, <2>1, <2>2, <2>3
<1>11. CASE Connected(me)
  <2>1. PICK c \in Channels : c = o.ch
    BY <1>1, <1>2, <1>11 DEF Connected, Answered, ChannelVerbs
  <2>2. /\ o.verb = "ato" /\ o.reply = "aro" /\ c \notin open
    BY <1>1, <1>2, <1>11, <2>1 DEF Connected, Answered, CallInv, ChannelCall, Opens
  <2>3. nperiodic'[c] = 0
    BY <1>1, <1>2, <1>11, <2>1 DEF Connected, RecordTypes
  <2>4. Recorded(c)' = {}
    BY <2>3, RecordedNone
  <2>5. Distinct(c)'
    BY <1>6, <2>3 DEF Distinct
  \* Whatever was in doubt of the channel: the cable has just opened it.
  <2>6. cable.live[c] = {} /\ c \in cable.open
    BY <1>2, <2>1, <2>2 DEF CallInv, SettledCall, Settled
  <2>7. CASE Done(me) /\ open' = open \cup {o.ch}
    <3>1. op'[me] = Idle
      BY <2>7, DoneMoves
    <3>2. ChannelTrue(c, Idle)'
      BY <1>2, <2>1, <2>4, <2>5, <2>6, <2>7 DEF ChannelTrue, Idle, Opened, Closed, LiveAfter
    <3> QED
      BY <1>7, <2>1, <2>2, <3>1, <3>2
  <2>8. CASE /\ op' = [op EXCEPT ![me].stage = "sent", ![me].verb = "undo",
                                 ![me].reply = "none"]
             /\ UNCHANGED open
    <3>1. /\ op'[me].stage = "sent" /\ op'[me].verb = "undo" /\ op'[me].reply = "none"
          /\ op'[me].ch = c
      <4>1. op'[me] = [o EXCEPT !.stage = "sent", !.verb = "undo", !.reply = "none"]
        BY <1>1, <2>8, Types DEF TypeInv
      <4> QED
        BY <2>1, <4>1 DEF Ops
    <3>2. ChannelTrue(c, op[me])'
      <4>1. Recorded(c)' = {} /\ LiveAfter(op'[me], {}) = {}
        BY <2>4, <3>1 DEF LiveAfter, GoneAnswers
      <4> QED
        BY <1>2, <2>2, <2>5, <2>6, <2>8, <3>1, <4>1 DEF ChannelTrue, Opened, Closed
    <3>3. ChannelsTrue'
      <4>1. \A u \in Threads \ {me} : op[u].ch # c
        BY <1>1, <2>1, OnlyCall DEF HoldInv
      <4> QED
        BY <1>1, <1>2, <2>1, <3>1, <3>2, <4>1, ChannelsNext DEF HoldInv, TruthInv
    <3>4. PinsTrue'
      BY <1>1, <1>2, <2>2, <3>1, PinsNext DEF HoldInv, TruthInv
    <3> QED
      BY <3>3, <3>4 DEF TruthInv
  <2> QED
    BY <1>1, <1>11, <2>7, <2>8 DEF Connected
<1>12. CASE Disconnected(me) \/ Cleared(me)
  <2>1. /\ op'[me] = Idle /\ o.verb \in {"atc", "atl"} /\ (o.verb = "atl" => o.reply = "aro")
        /\ open' = IF o.verb = "atc" THEN open \ {o.ch} ELSE open
    BY <1>1, <1>12, DoneMoves DEF Disconnected, Cleared, Answered
  <2>2. PICK c \in Channels : c = o.ch
    BY <1>2, <2>1 DEF ChannelVerbs
  <2>3. nperiodic'[c] = 0
    BY <1>1, <1>2, <1>12, <2>2 DEF Disconnected, Cleared, RecordTypes
  <2>4. Recorded(c)' = {}
    BY <2>3, RecordedNone
  <2>5. Distinct(c)'
    BY <1>6, <2>3 DEF Distinct
  \* The answer has settled the channel, or it was not in doubt.
  <2>6. ASSUME c \notin unsureChannels'
        PROVE  cable.live[c] = {} /\ (c \in cable.open <=> o.verb = "atl")
    <3>1. CASE o.reply = "aro"
      BY <1>2, <2>1, <2>2, <3>1 DEF CallInv, SettledCall, Settled
    <3>2. CASE o.reply # "aro"
      <4>1. o.verb = "atc" /\ c \notin unsureChannels
        BY <1>1, <1>12, <2>1, <2>6, <3>2 DEF Disconnected, Cleared, Answered
      <4>2. ChannelTrue(c, o)
        BY <1>4, <2>2, <4>1
      <4> QED
        BY <1>2, <4>1, <4>2 DEF ChannelTrue, LiveAfter, Closed
    <3> QED
      BY <3>1, <3>2
  <2>7. o.verb = "atl" => c \in open
    BY <1>2, <2>2 DEF CallInv, ChannelCall
  <2>8. ASSUME c \notin unsureChannels'
        PROVE  ChannelTrue(c, Idle)'
    BY <1>2, <2>1, <2>2, <2>4, <2>5, <2>6, <2>7, <2>8
       DEF ChannelTrue, Idle, Opened, Closed, LiveAfter
  <2> QED
    BY <1>7, <2>1, <2>2, <2>8
<1>13. CASE Started(me) \/ Stopped(me)
  <2>1. /\ op'[me] = Idle /\ UNCHANGED <<open, unsureChannels>> /\ o.verb \in {"atm", "atn"}
        /\ Started(me) => o.verb = "atm" /\ o.reply = "aro"
        /\ Stopped(me) => o.verb = "atn" /\ o.reply \in GoneAnswers
    BY <1>1, <1>13, DoneMoves DEF Started, Stopped, Answered, unsure
  <2>2. ASSUME NEW c \in Channels \ unsureChannels', c = o.ch
        PROVE  ChannelTrue(c, Idle)'
    <3>1. c \notin unsureChannels /\ ChannelTrue(c, o) /\ Distinct(c)
      BY <1>4, <2>1, <2>2 DEF ChannelTrue
    <3>2. Recorded(c)' = LiveAfter(o, Recorded(c)) /\ Distinct(c)'
      <4>1. CASE Started(me)
        <5>1. o.id \notin Recorded(c)
          BY <2>1, <3>1, <4>1 DEF ChannelTrue
        <5>2. Recorded(c)' = Recorded(c) \cup {o.id} /\ Distinct(c)'
          BY <1>1, <2>2, <3>1, <4>1, <5>1, StartedRecord
        <5> QED
          BY <2>1, <4>1, <5>2 DEF LiveAfter
      <4>2. CASE Stopped(me)
        <5>1. Recorded(c)' = Recorded(c) \ {o.id} /\ Distinct(c)'
          BY <1>1, <2>2, <3>1, <4>2, StoppedRecord
        <5> QED
          BY <2>1, <4>2, <5>1 DEF LiveAfter
      <4> QED
        BY <1>13, <4>1, <4>2
    <3>3. ~Opened(o) /\ ~Closed(o)
      BY <2>1 DEF Opened, Closed
    <3> QED
      BY <1>8, <2>1, <2>2, <3>1, <3>2, <3>3
  <2> QED
    BY <1>7, <2>1, <2>2
<1>14. CASE VoltageSet(me)
  <2>1. /\ op'[me] = Idle /\ o.verb = "atv" /\ o.reply = "aro"
        /\ unsurePins' = unsurePins \ {o.pin}
    BY <1>1, <1>14, DoneMoves DEF VoltageSet, Answered
  <2>2. o.ch \notin Channels
    BY <1>2, <1>5, <2>1 DEF StageInv, ChannelVerbs
  <2>3. ASSUME NEW p \in Pins \ unsurePins'
        PROVE  PinTrue(p, Idle)'
    <3>1. /\ p \in pinsGrounded' <=> PinHas(o, p, "ground", pinsGrounded)
          /\ p \in pinsPowered' <=> PinHas(o, p, "volts", pinsPowered)
      BY <1>1, <1>14, <2>1 DEF VoltageSet, PinHas, Moved
    <3>2. PinTrue(p, o)
      <4>1. CASE p = o.pin
        BY <1>2, <2>1, <4>1 DEF CallInv, SettledCall, Settled, PinTrue, PinHas, Moved
      <4>2. CASE p # o.pin
        BY <1>3, <2>1, <4>2
      <4> QED
        BY <4>1, <4>2
    <3>3. ~Moved(Idle, p)
      BY <1>5 DEF Moved
    <3> QED
      BY <1>2, <3>1, <3>2, <3>3 DEF PinTrue, PinHas
  <2> QED
    BY <1>7, <2>1, <2>2, <2>3
<1> QED
  BY <1>10, <1>11, <1>12, <1>13, <1>14 DEF Finish


\* A session starts with nothing to record.
LEMMA FreshTruth ==
    ASSUME open = {}, pinsGrounded = {}, pinsPowered = {},
           \A c \in Channels : nperiodic[c] = 0,
           cable.open = {}, cable.ground = {}, cable.power = {},
           \A c \in Channels : cable.live[c] = {},
           \A t \in Threads : op[t].verb = "none" /\ op[t].stage = "idle" /\ op[t].ch = 0
    PROVE  TruthInv
<1>1. 0 \notin Channels /\ \A s \in Slots : ~(s < 0)
  BY LedgerAssumption DEF Slots
<1>2. \A c \in Channels : Recorded(c) = {} /\ Distinct(c)
  BY <1>1 DEF Recorded, Distinct
<1>3. \A c \in Channels : ChannelTrue(c, Idle)
  BY <1>2 DEF ChannelTrue, Idle, Opened, Closed, LiveAfter
<1>4. ChannelsTrue
  BY <1>1, <1>3 DEF ChannelsTrue
<1>5. PinsTrue
  BY DEF PinsTrue, PinTrue, PinHas, Moved, Idle
<1> QED
  BY <1>4, <1>5 DEF TruthInv

LEMMA InitTruth == ASSUME Init PROVE TruthInv
<1>1. \A t \in Threads : op[t].verb = "none" /\ op[t].stage = "idle" /\ op[t].ch = 0
  BY DEF Init, Idle
<1> QED
  BY <1>1, FreshTruth DEF Init, Fresh

LEMMA RestartTruth ==
    ASSUME TypeInv, Restart
    PROVE  TruthInv'
<1>1. \A t \in Threads : op'[t].verb = "none" /\ op'[t].stage = "idle" /\ op'[t].ch = 0
  BY RestartMoves
<1>2. /\ open' = {} /\ pinsGrounded' = {} /\ pinsPowered' = {}
      /\ \A c \in Channels : nperiodic'[c] = 0
      /\ cable'.open = {} /\ cable'.ground = {} /\ cable'.power = {}
      /\ \A c \in Channels : cable'.live[c] = {}
  BY DEF Restart, Fresh
<1>3. 0 \notin Channels /\ \A s \in Slots : ~(s < 0)
  BY LedgerAssumption DEF Slots
<1>4. \A c \in Channels : Recorded(c)' = {} /\ Distinct(c)'
  BY <1>2, <1>3, RecordedNone DEF Distinct
<1>5. \A c \in Channels : ChannelTrue(c, Idle)'
  BY <1>2, <1>4 DEF ChannelTrue, Idle, Opened, Closed, LiveAfter
<1>6. ChannelsTrue'
  BY <1>1, <1>3, <1>5 DEF ChannelsTrue
<1>7. PinsTrue'
  BY <1>1, <1>2 DEF PinsTrue, PinTrue, PinHas, Moved, Idle
<1> QED
  BY <1>6, <1>7 DEF TruthInv

LEMMA TruthNext ==
    ASSUME KeptApart, IInv, [Next]_vars
    PROVE  TruthInv'
<1>1. TypeInv /\ HoldInv /\ TruthInv
  BY DEF IInv
<1>2. CASE UNCHANGED vars
  <2>1. /\ UNCHANGED <<open, periodic, nperiodic, pinsGrounded, pinsPowered>>
        /\ UNCHANGED <<op, cable, unsureChannels, unsurePins>>
    BY <1>2 DEF vars, record, unsure
  <2>2. KeepsPins /\ \A c \in Channels : KeepsChannel(c)
    BY <2>1 DEF KeepsChannel, KeepsPins
  <2>3. ChannelsTrue'
    <3> SUFFICES ASSUME NEW c \in Channels \ unsureChannels
                 PROVE  /\ \A t \in Threads : op'[t].ch = c => ChannelTrue(c, op[t])'
                        /\ (\A t \in Threads : op'[t].ch # c) => ChannelTrue(c, Idle)'
      BY <2>1 DEF ChannelsTrue
    <3>1. ASSUME NEW t \in Threads, op'[t].ch = c
          PROVE  ChannelTrue(c, op[t])'
      <4>1. ChannelTrue(c, op[t])
        BY <1>1, <2>1, <3>1 DEF TruthInv, ChannelsTrue
      <4>2. PICK p : p = op[t] /\ op'[t] = p
        BY <2>1
      <4>3. ChannelTrue(c, p)'
        BY <2>2, <4>1, <4>2, ChannelFrame
      <4> QED
        BY <4>2, <4>3 DEF ChannelTrue
    <3>2. ASSUME \A t \in Threads : op'[t].ch # c
          PROVE  ChannelTrue(c, Idle)'
      <4>1. ChannelTrue(c, Idle)
        BY <1>1, <2>1, <3>2 DEF TruthInv, ChannelsTrue
      <4> QED
        BY <2>2, <4>1, ChannelFrame
    <3> QED
      BY <3>1, <3>2
  <2>4. PinsTrue'
    BY <1>1, <2>1 DEF TruthInv, PinsTrue, PinTrue, PinHas
  <2> QED
    BY <2>3, <2>4 DEF TruthInv
<1>3. CASE Restart
  BY <1>1, <1>3, RestartTruth
<1>4. ASSUME NEW me \in Threads, Begin(me) \/ Serve(me) \/ LoseReply(me) \/ Finish(me)
      PROVE  TruthInv'
  BY <1>1, <1>4, BeginTruth, ServeTruth, FinishTruth
<1> QED
  BY <1>2, <1>3, <1>4 DEF Next

LEMMA LedgerInvariance == KeptApart => (Spec => []IInv)
<1> SUFFICES ASSUME KeptApart PROVE Spec => []IInv
  OBVIOUS
<1>1. Init => IInv
  BY TypeInit, HoldInit, InitTruth DEF IInv
<1>2. IInv /\ [Next]_vars => IInv'
  BY TypeNext, HoldNext, TruthNext DEF IInv
<1> QED
  BY <1>1, <1>2, PTL DEF Spec

\* While no call is under way about a channel, the driver's record of it is the
\* truth about the cable: whatever any number of threads do with other channels
\* meanwhile, for any sequence of calls that are kept apart and whatever the
\* cable refuses.  So with each pin.  A lost command or reply puts in doubt the
\* channel or the pin of its call and no other, and no longer than until the
\* cable has answered a connect, a disconnect, a clear or a voltage for it.
THEOREM RecordIsTheTruth == KeptApart => (Spec => []RecordIsTrue)
<1> SUFFICES ASSUME KeptApart PROVE Spec => []RecordIsTrue
  OBVIOUS
<1>1. IInv => RecordIsTrue
  <2> SUFFICES ASSUME IInv PROVE RecordIsTrue
    OBVIOUS
  <2>1. TypeOK /\ \A c \in Channels : nperiodic[c] <= Limit
    BY DEF IInv, TypeInv, HoldInv, ListInv
  <2>2. ASSUME NEW c \in Channels \ unsureChannels, \A t \in Threads : op[t].ch # c
        PROVE  (c \in open <=> c \in cable.open) /\ Recorded(c) = cable.live[c]
    <3>1. ChannelTrue(c, Idle)
      BY <2>2 DEF IInv, TruthInv, ChannelsTrue
    <3> QED
      BY <3>1 DEF ChannelTrue, Idle, Opened, Closed, LiveAfter
  \* A call about another pin tells as much of this one as no call at all.
  <2>3. ASSUME NEW pin \in Pins \ unsurePins,
               \A t \in Threads : ~(op[t].verb = "atv" /\ op[t].pin = pin)
        PROVE  /\ pin \in pinsGrounded <=> pin \in cable.ground
               /\ pin \in pinsPowered <=> pin \in cable.power
    <3>1. CASE \E t \in Threads : op[t].verb = "atv"
      <4>1. PICK t \in Threads : op[t].verb = "atv"
        BY <3>1
      <4>2. PinTrue(pin, op[t]) /\ ~Moved(op[t], pin)
        BY <2>3, <4>1 DEF IInv, TruthInv, PinsTrue, Moved
      <4> QED
        BY <4>2 DEF PinTrue, PinHas
    <3>2. CASE \A t \in Threads : op[t].verb # "atv"
      BY <3>2 DEF IInv, TruthInv, PinsTrue, PinTrue, PinHas, Moved, Idle
    <3> QED
      BY <3>1, <3>2
  <2> QED
    BY <2>1, <2>2, <2>3 DEF RecordIsTrue
<1> QED
  BY <1>1, LedgerInvariance, PTL

\* At the cable a line is open that is recorded or that a call has connected,
\* and a pin has a voltage that is recorded or that a call has set: every pair
\* of these was checked, by the record's rules or by the later of the calls.
LEMMA OpenedLines ==
    ASSUME IInv, NEW c \in cable.open \ unsureChannels
    PROVE  c \in open \/ \E t \in Threads : op[t].ch = c /\ Opens(op[t])
<1>1. c \in Channels
  BY Types DEF IInv, TypeInv, Cables
<1>2. CASE \E t \in Threads : op[t].ch = c
  BY <1>1, <1>2 DEF IInv, TruthInv, ChannelsTrue, ChannelTrue, Opened, Opens
<1>3. CASE \A t \in Threads : op[t].ch # c
  BY <1>1, <1>3 DEF IInv, TruthInv, ChannelsTrue, ChannelTrue, Opened, Idle
<1> QED
  BY <1>2, <1>3

LEMMA SetPins ==
    ASSUME IInv, NEW p \in Pins \ unsurePins
    PROVE  /\ p \in cable.ground => \/ p \in pinsGrounded
                                    \/ \E t \in Threads : Moved(op[t], p) /\ op[t].volt = "ground"
           /\ p \in cable.power => \/ p \in pinsPowered
                                   \/ \E t \in Threads : Moved(op[t], p) /\ op[t].volt = "volts"
<1>1. CASE \E t \in Threads : op[t].verb = "atv"
  BY <1>1 DEF IInv, TruthInv, PinsTrue, PinTrue, PinHas
<1>2. CASE \A t \in Threads : op[t].verb # "atv"
  BY <1>2 DEF IInv, TruthInv, PinsTrue, PinTrue, PinHas, Moved, Idle
<1> QED
  BY <1>1, <1>2

\* No line in use is grounded and one pin at most is powered, at the cable
\* itself and at every moment, commands under way included, of the channels and
\* the pins that no lost reply has left in doubt: a call about the pins and one
\* that connects a line are kept apart, and each checked the other.
THEOREM PinsAreRespected == KeptApart => (Spec => []PinsRespected)
<1> SUFFICES ASSUME KeptApart PROVE Spec => []PinsRespected
  OBVIOUS
<1>1. IInv => PinsRespected
  <2> SUFFICES ASSUME IInv PROVE PinsRespected
    OBVIOUS
  <2>1. /\ TypeInv /\ ApartInv /\ PinsInv /\ \A t \in Threads : CallInv(op[t])
        /\ cable.ground \subseteq Pins /\ cable.power \subseteq Pins
    BY Types DEF IInv, HoldInv, TypeInv, Cables
  <2>2. ASSUME NEW c \in cable.open \ unsureChannels, NEW pin \in cable.ground \ unsurePins
        PROVE  ~UsesPin(c, pin)
    <3>1. c \in open \/ \E t \in Threads : op[t].ch = c /\ Opens(op[t])
      BY <2>2, OpenedLines
    <3>2. \/ pin \in pinsGrounded
          \/ \E u \in Threads : Moved(op[u], pin) /\ op[u].volt = "ground"
      BY <2>1, <2>2, SetPins
    <3>3. CASE c \in open /\ pin \in pinsGrounded
      BY <2>1, <3>3 DEF PinsInv
    <3>4. ASSUME c \in open, NEW u \in Threads, Moved(op[u], pin), op[u].volt = "ground"
          PROVE  ~UsesPin(c, pin)
      BY <2>1, <3>4 DEF CallInv, PinCall, PinAllowed, Moved
    <3>5. ASSUME NEW t \in Threads, op[t].ch = c, Opens(op[t]), pin \in pinsGrounded
          PROVE  ~UsesPin(c, pin)
      BY <2>1, <3>5 DEF CallInv, ChannelCall
    <3>6. ASSUME NEW t \in Threads, Opens(op[t]), NEW u \in Threads, Moved(op[u], pin)
          PROVE  FALSE
      BY <2>1, <3>6, OnlyCall DEF Moved, Opens
    <3> QED
      BY <3>1, <3>2, <3>3, <3>4, <3>5, <3>6
  <2>3. ASSUME NEW p \in cable.power \ unsurePins, NEW q \in cable.power \ unsurePins
        PROVE  p = q
    <3>1. /\ \/ p \in pinsPowered
             \/ \E t \in Threads : Moved(op[t], p) /\ op[t].volt = "volts"
          /\ \/ q \in pinsPowered
             \/ \E u \in Threads : Moved(op[u], q) /\ op[u].volt = "volts"
      BY <2>1, <2>3, SetPins
    <3>2. ASSUME NEW t \in Threads, NEW r, Moved(op[t], r), op[t].volt = "volts"
          PROVE  pinsPowered \subseteq {r}
      BY <2>1, <3>2 DEF CallInv, PinCall, PinAllowed, Moved
    <3>3. ASSUME NEW t \in Threads, NEW u \in Threads, Moved(op[t], p), Moved(op[u], q)
          PROVE  p = q
      BY <2>1, <3>3, OnlyCall DEF Moved
    <3> QED
      BY <2>1, <3>1, <3>2, <3>3 DEF PinsInv
  <2> QED
    BY <2>2, <2>3 DEF PinsRespected, LineNotGrounded
<1> QED
  BY <1>1, LedgerInvariance, PTL
=============================================================================
