----------------------------- MODULE Reassembly -----------------------------
(***************************************************************************)
(* absorb_frame (op_device.c): folding the cable's frames into the         *)
(* messages an application reads, on a K-line channel (3), raw CAN (5) and *)
(* ISO 15765 (6), with channels opened, closed and flushed meanwhile and   *)
(* frames lost on the way (a resynchronised stream, a full ring).          *)
(*                                                                         *)
(* A byte is known by the transfer it belongs to and its place: 0 for the  *)
(* CAN id that each ISO 15765 and CAN frame repeats, 4 bytes, 5 with an    *)
(* extended address.  What the cable sends is external and follows         *)
(* docs/PROTOCOL.md section 7; a data byte stands for the data of a frame. *)
(***************************************************************************)
EXTENDS Integers, Sequences, FiniteSets

CONSTANTS
    Channels,      \* firmware channels, of 3, 5 and 6
    PartialMax,    \* sizeof partial.Data
    MaxData,       \* bound: data frames of one transfer
    MaxTransfers,  \* bound: transfers
    MaxLosses,     \* bound: frames lost
    MaxResets      \* bound: channels flushed, opened and closed

ASSUME ReassemblyAssumption ==
    /\ Channels \subseteq {3, 5, 6}
    /\ MaxData \in Nat \ {0} /\ PartialMax \in Nat /\ 5 + MaxData <= PartialMax
    /\ MaxTransfers \in Nat /\ MaxLosses \in Nat /\ MaxResets \in Nat

CAN == 5
ISO15765 == 6
Transfers == 1 .. MaxTransfers
Bytes == Transfers \X (0 .. MaxData)

VARIABLES
    chOpen,     \* the open channels
    partial,    \* each channel's message in progress: its data and flags
    active,     \* partial_active
    announced,  \* ext_announced
    queued,     \* everything queue_push was given, per channel
    sending,    \* what the cable is sending on each channel
    transfers,  \* transfers begun
    losses, resets,
    whole,      \* history: per channel, the transfers sent to their end, in order
    cut,        \* history: transfers a frame of which was lost or fell into a reset
    started     \* history: transfers whose START was absorbed

host == <<chOpen, partial, active, announced, queued>>
wire == <<sending, transfers, whole>>
vars == <<host, wire, losses, resets, cut, started>>

NoTransfer == [id |-> 0, next |-> 0, last |-> 0, ext |-> FALSE, loop |-> FALSE]
Empty == [data |-> <<>>, flags |-> {}]

\* A queued message: "indication" or "message", with its data and flags.
Message(kind, data, flags) == [kind |-> kind, data |-> data, flags |-> flags]

TypeOK ==
    /\ chOpen \subseteq Channels
    /\ \A c \in Channels :
          /\ partial[c].data \in Seq(Bytes) /\ Len(partial[c].data) <= PartialMax
          /\ partial[c].flags \subseteq {"TX_MSG_TYPE", "ADDR_TYPE"}
    /\ active \in [Channels -> BOOLEAN] /\ announced \in [Channels -> BOOLEAN]
    /\ \A c \in Channels : \A n \in DOMAIN queued[c] :
          /\ queued[c][n].kind \in {"indication", "message"}
          /\ queued[c][n].data \in Seq(Bytes)
    /\ cut \subseteq Transfers /\ started \subseteq Transfers

Init ==
    /\ chOpen = {}
    /\ partial = [c \in Channels |-> Empty]
    /\ active = [c \in Channels |-> FALSE]
    /\ announced = [c \in Channels |-> FALSE]
    /\ queued = [c \in Channels |-> <<>>]
    /\ sending = [c \in Channels |-> NoTransfer]
    /\ transfers = 0 /\ losses = 0 /\ resets = 0
    /\ whole = [c \in Channels |-> <<>>]
    /\ cut = {} /\ started = {}

(***************************************************************************)
(* absorb_frame.                                                           *)
(***************************************************************************)
Queue(c, m) == queued' = [queued EXCEPT ![c] = Append(@, m)]

Flags(f) == (IF f.loop THEN {"TX_MSG_TYPE"} ELSE {})
              \cup (IF f.ch = ISO15765 /\ f.ext THEN {"ADDR_TYPE"} ELSE {})

\* The echoes of an ISO 15765 channel arrive on raw CAN.
Closed(f) ==
    /\ f.ch \notin chOpen
    /\ IF f.ch = CAN /\ f.loop /\ ISO15765 \in chOpen
         THEN Queue(ISO15765, Message("message", f.data, {"TX_MSG_TYPE", "CAN"}))
         ELSE UNCHANGED queued
    /\ UNCHANGED <<partial, active, announced>>

TransmitDone(f) ==
    /\ f.ch \in chOpen /\ f.ind /\ f.ch \in {CAN, ISO15765}
    /\ Queue(f.ch, Message("indication", f.data, {"TX_MSG_TYPE", "TX_DONE"} \cup Flags(f)))
    /\ UNCHANGED <<partial, active, announced>>

RawFrame(f) ==
    /\ f.ch \in chOpen /\ f.ch = CAN /\ ~f.ind
    /\ Queue(CAN, Message("message", f.data, Flags(f)))
    /\ UNCHANGED <<partial, active, announced>>

IsData(f) == f.ch \in chOpen /\ f.ch # CAN /\ ~(f.ind /\ f.ch = ISO15765)

IsAnnouncement(f) == f.start /\ ~f.end

Indication(f) ==
    Message("indication", IF f.loop THEN <<>> ELSE f.data,
            IF f.loop /\ f.ch = ISO15765 THEN Flags(f) \cup {"TX_DONE"}
            ELSE IF f.loop THEN {"FIRST_FRAME"} ELSE Flags(f) \cup {"FIRST_FRAME"})

\* Mutant: an unterminated message is kept.
AnnounceKeepsPartial(f) ==
    /\ IsData(f) /\ IsAnnouncement(f)
    /\ announced' = [announced EXCEPT ![f.ch] = f.ch = ISO15765 /\ f.ext]
    /\ Queue(f.ch, Indication(f))
    /\ UNCHANGED <<partial, active>>

\* A message still open lost its END: it is discarded.
Announce(f) ==
    /\ IsData(f) /\ IsAnnouncement(f)
    /\ active' = [active EXCEPT ![f.ch] = FALSE]
    /\ announced' = [announced EXCEPT ![f.ch] = f.ch = ISO15765 /\ f.ext]
    /\ Queue(f.ch, Indication(f))
    /\ UNCHANGED partial

\* Mutant: what the START announced is not carried over.
BaseUnannounced(f) == IF active[f.ch] THEN partial[f.ch] ELSE Empty

\* The message a data frame is added to: the one in progress, or a new one.
Base(f) ==
    IF active[f.ch] THEN partial[f.ch]
    ELSE [Empty EXCEPT !.flags = IF announced[f.ch] THEN {"ADDR_TYPE"} ELSE {}]

\* Mutant: the address is looked for in the frame's own status only.
SkipOwnStatus(f) ==
    IF ~active[f.ch] \/ f.ch # ISO15765 THEN 0
    ELSE LET id == IF f.ext THEN 5 ELSE 4 IN
         IF Len(f.data) < id THEN 0 ELSE id

\* The bytes of the CAN id that a chunk after the first repeats.
Skip(f) ==
    IF ~active[f.ch] \/ f.ch # ISO15765 THEN 0
    ELSE LET id == IF "ADDR_TYPE" \in Base(f).flags \cup Flags(f) THEN 5 ELSE 4 IN
         IF Len(f.data) < id THEN 0 ELSE id

Truncate(s) == SubSeq(s, 1, IF Len(s) <= PartialMax THEN Len(s) ELSE PartialMax)

Accumulated(f) ==
    [data |-> Truncate(Base(f).data \o SubSeq(f.data, Skip(f) + 1, Len(f.data))),
     flags |-> Base(f).flags \cup Flags(f)]

\* Mutant: the message that ended stays in progress.
AccumulateOn(f) ==
    /\ IsData(f) /\ ~IsAnnouncement(f)
    /\ LET m == Accumulated(f) IN
       /\ partial' = [partial EXCEPT ![f.ch] = m]
       /\ IF f.end THEN Queue(f.ch, Message("message", m.data, m.flags)) ELSE UNCHANGED queued
    /\ active' = [active EXCEPT ![f.ch] = TRUE]
    /\ announced' = [announced EXCEPT ![f.ch] = active[f.ch] /\ announced[f.ch]]

Accumulate(f) ==
    /\ IsData(f) /\ ~IsAnnouncement(f)
    /\ LET m == Accumulated(f) IN
       /\ partial' = [partial EXCEPT ![f.ch] = m]
       /\ IF f.end THEN Queue(f.ch, Message("message", m.data, m.flags)) ELSE UNCHANGED queued
    /\ active' = [active EXCEPT ![f.ch] = ~f.end]
    /\ announced' = [announced EXCEPT ![f.ch] = active[f.ch] /\ announced[f.ch]]

AbsorbFrame(f) ==
    \/ Closed(f) \/ TransmitDone(f) \/ RawFrame(f) \/ Announce(f) \/ Accumulate(f)

(***************************************************************************)
(* The cable.  A frame that leaves it is absorbed or lost.                 *)
(***************************************************************************)
Frame(c, t) == [ch |-> c, id |-> t.id, start |-> FALSE, end |-> FALSE, loop |-> t.loop,
                ind |-> FALSE, ext |-> t.ext, data |-> <<>>]

\* The id in front of each frame of CAN and ISO 15765.
CanId(t) == [n \in 1 .. (IF t.ext THEN 5 ELSE 4) |-> <<t.id, 0>>]

Deliver(f) ==
    \/ /\ AbsorbFrame(f)
       /\ cut' = IF f.ch \in chOpen \/ f.ch = CAN THEN cut ELSE cut \cup {f.id}
       /\ started' = IF f.start /\ f.ch \in chOpen THEN started \cup {f.id} ELSE started
       /\ UNCHANGED losses
    \/ /\ losses < MaxLosses /\ losses' = losses + 1
       /\ cut' = cut \cup {f.id}
       /\ UNCHANGED <<partial, active, announced, queued, started>>

\* The transfers that may begin on a channel.  Extended addresses are for
\* ISO 15765; its echoes arrive on raw CAN.
Begun(c) ==
    [id : {transfers + 1}, next : {1}, last : 1 .. MaxData,
     ext : IF c = ISO15765 THEN BOOLEAN ELSE {FALSE},
     loop : IF c = ISO15765 THEN {FALSE} ELSE BOOLEAN]

\* The cable sends on the channels it has open; raw CAN also carries the
\* echoes of ISO 15765.
NewTransfer(c) ==
    /\ c \in chOpen \cup {CAN} /\ sending[c] = NoTransfer
    /\ transfers < MaxTransfers /\ transfers' = transfers + 1
    /\ UNCHANGED <<chOpen, resets>>

\* Transfer t has been sent to its end.
Ended(c, t) ==
    [whole EXCEPT ![c] = Append(@, [id |-> t.id, last |-> t.last, ext |-> t.ext])]

\* A segmented ISO 15765 message or a K-line message is announced.
SendStart(c) ==
    /\ c # CAN /\ NewTransfer(c)
    /\ \E t \in Begun(c) :
          /\ sending' = [sending EXCEPT ![c] = t]
          /\ Deliver([Frame(c, t) EXCEPT !.start = TRUE,
                        !.data = IF c = ISO15765 THEN CanId(t) ELSE <<>>])
    /\ UNCHANGED whole

\* A message of one CAN frame comes without a START.
SendSingle(c) ==
    /\ c \in {CAN, ISO15765} /\ NewTransfer(c)
    /\ \E t \in Begun(c) :
          /\ t.last = 1
          /\ Deliver([Frame(c, t) EXCEPT !.end = c = ISO15765,
                        !.data = CanId(t) \o <<<<t.id, 1>>>>])
          /\ whole' = IF c \in chOpen THEN Ended(c, t) ELSE whole
    /\ UNCHANGED sending

\* A data frame of the transfer; on ISO 15765 the last one ends it.  Whether
\* a chunk repeats the address flag of its START is not documented.
SendData(c) ==
    LET t == sending[c] last == c = ISO15765 /\ t.next = t.last IN
    /\ t # NoTransfer /\ t.next <= t.last
    /\ \E flag \in {t.ext, FALSE} :
          Deliver([Frame(c, t) EXCEPT !.end = last, !.ext = flag,
             !.data = (IF c = ISO15765 THEN CanId(t) ELSE <<>>) \o <<<<t.id, t.next>>>>])
    /\ sending' = [sending EXCEPT ![c] = IF last THEN NoTransfer ELSE [t EXCEPT !.next = @ + 1]]
    /\ whole' = IF last THEN Ended(c, t) ELSE whole
    /\ UNCHANGED <<chOpen, transfers, resets>>

\* A K-line message ends with a frame of its own, without data.
SendEnd(c) ==
    LET t == sending[c] IN
    /\ c # ISO15765 /\ t # NoTransfer /\ t.next > t.last
    /\ Deliver([Frame(c, t) EXCEPT !.end = TRUE])
    /\ sending' = [sending EXCEPT ![c] = NoTransfer]
    /\ whole' = Ended(c, t)
    /\ UNCHANGED <<chOpen, transfers, resets>>

\* The indication that a transmit was sent, at any time.
SendTransmitDone ==
    /\ ISO15765 \in chOpen /\ transfers < MaxTransfers /\ transfers' = transfers + 1
    /\ LET t == [NoTransfer EXCEPT !.id = transfers'] IN
       Deliver([Frame(ISO15765, t) EXCEPT !.ind = TRUE, !.data = CanId(t)])
    /\ UNCHANGED <<chOpen, sending, whole, resets>>

(***************************************************************************)
(* The application opens, closes and flushes channels.                     *)
(***************************************************************************)
\* flush_locked, as far as reassembly goes, and what open_channel clears.
Forget(c) ==
    /\ resets < MaxResets /\ resets' = resets + 1
    /\ active' = [active EXCEPT ![c] = FALSE]
    /\ announced' = [announced EXCEPT ![c] = FALSE]
    /\ cut' = cut \cup ({sending[c].id} \cap Transfers)
    /\ UNCHANGED <<partial, queued, wire, losses, started>>

Open(c) == c \notin chOpen /\ chOpen' = chOpen \cup {c} /\ Forget(c)

Close(c) == c \in chOpen /\ chOpen' = chOpen \ {c} /\ Forget(c)

Flush(c) == c \in chOpen /\ Forget(c) /\ UNCHANGED chOpen

Next ==
    \/ SendTransmitDone
    \/ \E c \in Channels :
          \/ SendStart(c) \/ SendSingle(c) \/ SendData(c) \/ SendEnd(c)
          \/ Open(c) \/ Close(c) \/ Flush(c)

Spec == Init /\ [][Next]_vars

(***************************************************************************)
(* Properties.                                                             *)
(***************************************************************************)
\* Where the messages of the channel's own transfers are queued, echoes from
\* raw CAN aside.
Delivered(c) ==
    {n \in DOMAIN queued[c] : queued[c][n].kind = "message" /\ "CAN" \notin queued[c][n].flags}

\* The transfers of some data, and its CAN ids' bytes.
Parts(data) == {data[n][1] : n \in DOMAIN data}
IdBytes(data) == {n \in DOMAIN data : data[n][2] = 0}

\* The first k frames of transfer t, with the id in front once; all of them.
IdLength(c, t) == IF c \notin {CAN, ISO15765} THEN 0 ELSE IF t.ext THEN 5 ELSE 4
First(c, t, k) ==
    [n \in 1 .. IdLength(c, t) + k |->
        <<t.id, IF n <= IdLength(c, t) THEN 0 ELSE n - IdLength(c, t)>>]
Whole(c, t) == First(c, t, t.last)

\* A message is one whole transfer that was sent to its end - each byte once,
\* in order, the id in front once - unless a frame of what it holds was lost
\* or fell into a flush or a reconnection: chunks are joined without the ids
\* they repeat, whatever is interleaved with them.  (A K-line message that
\* lost all its data is delivered empty.)
WholeOrCut ==
    /\ TypeOK
    /\ \A c \in Channels : \A n \in Delivered(c) :
          LET data == queued[c][n].data IN
          \/ \E k \in DOMAIN whole[c] : data = Whole(c, whole[c][k])
          \/ Parts(data) \cap cut # {}
          \/ data = <<>>

\* With nothing lost every transfer is delivered, in the order sent.
NothingSkipped ==
    cut = {} => \A c \in Channels :
       \E place \in [DOMAIN whole[c] -> Delivered(c)] :
          /\ Delivered(c) = {place[k] : k \in DOMAIN whole[c]}
          /\ \A k, l \in DOMAIN whole[c] : k < l => place[k] < place[l]
          /\ \A k \in DOMAIN whole[c] : queued[c][place[k]].data = Whole(c, whole[c][k])

\* A START that arrives is a clean slate: a message whose START was absorbed
\* holds nothing of a transfer before it, whatever was lost.
AnnouncedIsPure ==
    \A c \in Channels : \A n \in Delivered(c) :
       LET ids == Parts(queued[c][n].data)
       IN  \A t \in ids \cap started : \A u \in ids : u >= t

\* An extended address is marked on every whole message that carries one, and
\* on no other, wherever in the transfer the cable flagged it.
AddressMarked ==
    cut = {} => \A c \in Channels \cap {ISO15765} : \A n \in Delivered(c) :
       LET m == queued[c][n]
       IN  "ADDR_TYPE" \in m.flags <=> Cardinality(IdBytes(m.data)) = 5
=============================================================================
