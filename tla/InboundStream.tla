--------------------------- MODULE InboundStream ---------------------------
(***************************************************************************)
(* From the bytes a transport reads to the replies and frames the session  *)
(* is handed: ser_read (op_serial.c), reader_main and consume_accum        *)
(* (op_device.c), op_parse and op_resync_offset (op_proto.c).              *)
(*                                                                         *)
(* The cable's records follow each other on one byte stream with nothing   *)
(* between them.  A read ends anywhere in a record; a read may be dropped  *)
(* whole (the host ring of op_usb.c); and what the pipe still holds of an  *)
(* earlier session begins in the middle of a record.  The accumulator      *)
(* keeps what has been read and does not make a whole record yet.          *)
(*                                                                         *)
(* The reader holds `lock` from copying a read into the accumulator until  *)
(* consume_accum returns; an iteration of its loop is a step.              *)
(***************************************************************************)
EXTENDS Integers, Sequences, SequencesExt, FiniteSetsExt

CONSTANTS
    Code,           \* the ASCII code of each character the parser knows
    ByteMax,        \* 255
    U32Max,         \* 2^32 - 1
    StatusStart, StatusEnd,   \* OP_STS_START and OP_STS_END, each one bit
    LineMax,        \* OP_CMD_MAX * 4
    InitMax,        \* 255: the most raw bytes of an ary reply
    TailMax,        \* 8: the numbers kept behind a reply's fixed fields
    ReadMax,        \* 1024: the most bytes of one read
    AccumCap,       \* OP_ACCUM_CAP
    FailuresMax,    \* 50 failed reads in a row are a lost cable
    Scripts,        \* what the cable may send: sequences of its records
    LossesMax       \* bound: reads dropped on the way

Verbs == {"o", "e", "i", "r", "m", "f", "g", "y", "w"}
Characters == Verbs \cup {"a", "0", " ", "CR", "LF"}
Byte == 0 .. ByteMax

\* Code is one-to-one and the ten digits follow "0", as in ASCII.
ASSUME CodeAssumption ==
    /\ ByteMax \in Nat /\ U32Max \in Nat
    /\ Code \in [Characters -> Byte]
    /\ \A c, d \in Characters : Code[c] = Code[d] => c = d
    /\ \A c \in Characters \ {"0"} : Code[c] \notin Code["0"] .. Code["0"] + 9

\* The accumulator takes one more read on top of the longest unfinished
\* record: a line that was still short when the last read began, with the
\* raw bytes it announces, or a frame.  A line is let grow longer than the raw
\* bytes behind one can be many: 256 and 255.
ASSUME SizesAssumption ==
    /\ {LineMax, InitMax, TailMax, AccumCap, LossesMax} \subseteq Nat
    /\ {ReadMax, FailuresMax, StatusStart, StatusEnd} \subseteq Nat \ {0}
    /\ LineMax + InitMax + 2 * ReadMax <= AccumCap
    /\ InitMax <= LineMax /\ LineMax >= 3 /\ ByteMax + 4 + ReadMax <= AccumCap

VARIABLES
    wire,       \* the bytes of the cable and where each of its records ends
    at,         \* how many of them have been read, or dropped
    accum, off, \* the accumulator, as positions in the stream; the loop's place
    mode,       \* "reading", "consuming", or "ended" when the loop was left
    failures, hungUp, lost,
    taken,      \* what absorb_frame and stash_reply were handed
    losses,     \* history: reads dropped
    since       \* history: the stream was in step with its records from here

vars == <<wire, at, accum, off, mode, failures, hungUp, lost, taken, losses, since>>
-----------------------------------------------------------------------------
(* op_parse, on a sequence of bytes.                                       *)

Digit == Code["0"] .. Code["0"] + 9

\* The first place from i on whose byte is not in S.
RunEnd(s, i, S) ==
    CHOOSE j \in i .. Len(s) + 1 : /\ \A k \in i .. j - 1 : s[k] \in S
                                   /\ j = Len(s) + 1 \/ s[j] \notin S

\* parse_u32: saturating, so that a huge number does not alias a small one.
Decimal(digits) ==
    FoldLeft(LAMBDA v, d : IF v * 10 + d - Code["0"] > U32Max THEN U32Max
                           ELSE v * 10 + d - Code["0"], 0, digits)

\* The numbers from place i on, with any spaces before each.
NumbersFrom(s, i) ==
    LET numbers[j \in 1 .. Len(s) + 1] ==
            LET d == RunEnd(s, j, {Code[" "]})
                e == RunEnd(s, d, Digit)
            IN  IF e = d THEN <<>>
                ELSE <<Decimal(SubSeq(s, d, e - 1))>> \o numbers[e]
    IN  numbers[i]

\* The fixed numeric fields of each reply, its kind, and the verbs whose
\* first number, a channel, follows them without a space.
FixedFields == [o |-> 0, e |-> 1, i |-> 0, r |-> 2, m |-> 2, f |-> 2, g |-> 3,
                y |-> 2, w |-> 1]
KindOf == [o |-> "ok", e |-> "error", i |-> "info", r |-> "pin",
           m |-> "periodic", f |-> "filter", g |-> "config",
           y |-> "init", w |-> "init"]
Suffixed == {"m", "f", "g", "y", "w"}

Junk == [kind |-> "junk", fields |-> <<>>, tail |-> <<>>, data |-> <<>>]

\* parse_ascii: body is the line after "ar".  The text of an ari is its data.
Recognised(v, body) ==
    LET numbers == NumbersFrom(body, 2)
        fixed == FixedFields[v]
    IN  IF \/ Len(numbers) < fixed
           \/ v \in Suffixed /\ body[2] \notin Digit
           \/ v = "y" /\ numbers[2] \notin 0 .. InitMax
        THEN Junk
        ELSE [kind |-> KindOf[v],
              fields |-> [k \in 1 .. fixed |-> numbers[k]],
              tail |-> SubSeq(numbers, fixed + 1,
                              Min({Len(numbers), fixed + TailMax})),
              data |-> <<>>]

ParseAscii(body) ==
    IF body = <<>> \/ \A v \in Verbs : Code[v] # body[1] THEN Junk
    ELSE LET v == CHOOSE v \in Verbs : Code[v] = body[1]
         IN  IF v = "i"
             THEN [kind |-> "info", fields |-> <<>>, tail |-> <<>>,
                   data |-> SubSeq(body, RunEnd(body, 2, {Code[" "]}), Len(body))]
             ELSE Recognised(v, body)

HasBit(status, bit) == (status \div bit) % 2 = 1

\* op_frame_has_timestamp: CAN and ISO 15765 frames begin with one; a K-line
\* frame has one when it is a START or END with just that as its body.
HasTimestamp(channel, status, length) ==
    IF channel \in {5, 6} THEN length >= 4
    ELSE (HasBit(status, StatusStart) \/ HasBit(status, StatusEnd)) /\ length = 4

FrameReply(f) ==
    LET channel == f[3] - Code["0"]
        skip == IF HasTimestamp(channel, f[5], Len(f) - 5) THEN 9 ELSE 5
    IN  [kind |-> "frame", fields |-> <<channel, f[5]>>, tail |-> <<>>,
         data |-> SubSeq(f, skip + 1, Len(f))]

\* What op_parse returns: the bytes consumed, 0 for an unfinished record.
Incomplete == [used |-> 0, reply |-> Junk]
JunkOf(n) == [used |-> n, reply |-> Junk]

ParseFrame(s) ==
    IF Len(s) < 4 \/ Len(s) < 4 + s[4] THEN Incomplete
    ELSE IF s[4] = 0 THEN JunkOf(4)
    ELSE [used |-> 4 + s[4], reply |-> FrameReply(SubSeq(s, 1, 4 + s[4]))]

LineEnds(s) == {i \in 3 .. Len(s) - 1 : s[i] = Code["CR"] /\ s[i + 1] = Code["LF"]}

\* An ary announces the raw bytes behind its line.
Raw(r, verb) == IF r.kind = "init" /\ verb = Code["y"] THEN r.fields[2] ELSE 0

\* The line whose last byte is at `end`.
LineUpTo(s, end) ==
    LET r == ParseAscii(SubSeq(s, 3, end - 2))
        raw == Raw(r, s[3])
    IN  IF Len(s) < end + raw THEN Incomplete
        ELSE [used |-> end + raw,
              reply |-> IF raw = 0 THEN r
                        ELSE [r EXCEPT !.data = SubSeq(s, end + 1, end + raw)]]

ParseLine(s) ==
    IF LineEnds(s) # {} THEN LineUpTo(s, Min(LineEnds(s)) + 1)
    ELSE IF Len(s) > LineMax THEN JunkOf(1) ELSE Incomplete

\* As far as they go, the first two bytes are "ar".
BeginsAr(s) == /\ s[1] = Code["a"]
               /\ Len(s) >= 2 => s[2] = Code["r"]

Parse(s) ==
    IF ~BeginsAr(s) THEN JunkOf(1)
    ELSE IF Len(s) < 3 THEN Incomplete
    ELSE IF s[3] \in Digit THEN ParseFrame(s) ELSE ParseLine(s)

\* op_resync_offset: bytes before the next "ar" that a reply or a frame could
\* begin with, not at the first byte; all of them when there is none.
Plausible(s, i) ==
    /\ s[i] = Code["a"] /\ s[i + 1] = Code["r"]
    /\ s[i + 2] \in Digit \cup {Code[v] : v \in Verbs}

Resync(s) ==
    LET places == {i \in 2 .. Len(s) - 2 : Plausible(s, i)}
    IN  IF places = {} THEN Len(s) ELSE Min(places) - 1
-----------------------------------------------------------------------------
TypeOK ==
    /\ at \in 0 .. Len(wire.bytes)
    /\ accum \in Seq(1 .. Len(wire.bytes))
    /\ Len(accum) <= AccumCap
    /\ off \in 0 .. Len(accum)
    /\ mode \in {"reading", "consuming", "ended"}
    /\ mode # "consuming" => off = 0
    /\ failures \in 0 .. FailuresMax
    /\ hungUp \in BOOLEAN /\ lost \in BOOLEAN
    /\ losses \in 0 .. LossesMax

\* The records of a script as one stream of bytes, with the last place of each.
Layout(script) ==
    [bytes |-> FlattenSeq([i \in DOMAIN script |-> script[i].bytes]),
     means |-> [i \in DOMAIN script |-> script[i].means],
     ends |-> [i \in DOMAIN script |->
                  Len(FlattenSeq([j \in 1 .. i |-> script[j].bytes]))]]

\* A record is bytes, at least one, and the records are all there is.
WellLaid(w) ==
    /\ w.bytes \in Seq(Byte) /\ w.bytes # <<>>
    /\ w.ends \in Seq(1 .. Len(w.bytes)) /\ w.ends # <<>>
    /\ w.ends[Len(w.ends)] = Len(w.bytes)
    /\ \A i, j \in 1 .. Len(w.ends) : i < j => w.ends[i] < w.ends[j]

ASSUME ScriptsAssumption == \A s \in Scripts : WellLaid(Layout(s))

First(w, i) == IF i = 1 THEN 1 ELSE w.ends[i - 1] + 1

\* The session may begin in the middle of the first record.
Init ==
    /\ wire \in {Layout(s) : s \in Scripts}
    /\ at \in 0 .. wire.ends[1] - 1
    /\ accum = <<>> /\ off = 0 /\ mode = "reading"
    /\ failures = 0 /\ hungUp = FALSE /\ lost = FALSE
    /\ taken = <<>> /\ losses = 0 /\ since = 0

Left == Len(wire.bytes) - at

\* Mutant: the last byte of a longest read is left out.
TakeShort(n) == Min({n, ReadMax - 1})
\* What the accumulator has room for of a read.
Take(n) == Min({n, AccumCap - Len(accum)})

\* wait_ready: a hang-up ends the session once nothing is left to read.
Readable == Left > 0

\* Where the stream is in step with its records again if this read begins
\* with nothing held back: at once at a record, else at the next one when no
\* byte before it could begin a record and its first three come with them.
InStepFrom(n) ==
    LET e == Min({x \in {0} \cup ToSet(wire.ends) : x >= at})
    IN  IF /\ accum = <<>>
           /\ \A k \in at + 1 .. e : wire.bytes[k] # Code["a"]
           /\ e = at \/ at + n >= e + 3
        THEN e + 1 ELSE 0

\* ser_read hands out up to ReadMax bytes, reader_main appends them.
Read(n) ==
    /\ mode = "reading" /\ Readable
    /\ n <= Left
    /\ at' = at + n
    /\ accum' = accum \o [k \in 1 .. Take(n) |-> at + k]
    /\ failures' = 0
    /\ mode' = "consuming"
    /\ since' = IF since = 0 THEN InStepFrom(n) ELSE since
    /\ UNCHANGED <<wire, off, hungUp, lost, taken, losses>>

\* A read that does not fit in the host ring is dropped whole (external).
DropRead(n) ==
    /\ mode = "reading" /\ n <= Left /\ losses < LossesMax
    /\ at' = at + n
    /\ losses' = losses + 1
    /\ since' = 0
    /\ UNCHANGED <<wire, accum, off, mode, failures, hungUp, lost, taken>>

Rest == SubSeq(accum, off + 1, Len(accum))
Parsed == Parse([k \in 1 .. Len(Rest) |-> wire.bytes[Rest[k]]])

\* Mutant: behind junk nothing is looked for.
SkipAll(s, used) == Len(s)
Skip(s, used) == Max({Resync(s), used})

\* One iteration of consume_accum that finds a record, or junk.
Consume ==
    /\ mode = "consuming" /\ off < Len(accum)
    /\ Parsed.used > 0
    /\ IF Parsed.reply.kind = "junk"
       THEN /\ off' = off + Skip([k \in 1 .. Len(Rest) |-> wire.bytes[Rest[k]]],
                                 Parsed.used)
            /\ taken' = taken
       ELSE /\ off' = off + Parsed.used
            /\ taken' = Append(taken, [reply |-> Parsed.reply,
                                       from |-> Rest[1], to |-> Rest[Parsed.used]])
    /\ UNCHANGED <<wire, at, accum, mode, failures, hungUp, lost, losses, since>>

\* Mutant: it stays when an unfinished record is behind it.
AllWhileUnfinished == IF off = Len(accum) THEN <<>> ELSE accum
\* memmove: what has been consumed leaves the accumulator.
Unconsumed == SubSeq(accum, off + 1, Len(accum))

\* A full accumulator that makes no record is thrown away.
Compact(a) == IF Len(a) = AccumCap THEN <<>> ELSE a

ConsumeEnd ==
    /\ mode = "consuming"
    /\ off < Len(accum) => Parsed.used = 0
    /\ accum' = Compact(Unconsumed)
    /\ off' = 0
    /\ mode' = "reading"
    /\ UNCHANGED <<wire, at, failures, hungUp, lost, taken, losses, since>>

\* The loop is left: every call that waits is told.
LeaveLoop == mode' = "ended" /\ lost' = TRUE

\* POLLHUP with nothing to read, or a read of no bytes: the peer is gone.
ReadGone ==
    /\ mode = "reading" /\ hungUp /\ ~Readable
    /\ LeaveLoop
    /\ UNCHANGED <<wire, at, accum, off, failures, hungUp, taken, losses, since>>

\* POLLERR, POLLNVAL or an errno of read() can come at any time.
Failing == mode = "reading"

\* It is tried again, not for ever.
ReadFails ==
    /\ Failing
    /\ failures' = failures + 1
    /\ IF failures' = FailuresMax THEN LeaveLoop ELSE UNCHANGED <<mode, lost>>
    /\ UNCHANGED <<wire, at, accum, off, hungUp, taken, losses, since>>

\* Nothing within 10 ms.
ReadTimesOut ==
    /\ mode = "reading" /\ Left = 0 /\ ~hungUp
    /\ failures' = 0
    /\ UNCHANGED <<wire, at, accum, off, mode, hungUp, lost, taken, losses, since>>

\* The cable, or the simulator behind the pty, goes away; what it has sent
\* can still be read (external).
HangUp ==
    /\ ~hungUp /\ mode # "ended"
    /\ hungUp' = TRUE
    /\ UNCHANGED <<wire, at, accum, off, mode, failures, lost, taken, losses, since>>

Next ==
    \/ \E n \in 1 .. ReadMax : Read(n) \/ DropRead(n)
    \/ Consume \/ ConsumeEnd
    \/ ReadGone \/ ReadFails \/ ReadTimesOut \/ HangUp

Spec == Init /\ [][Next]_vars
-----------------------------------------------------------------------------
(* What is asked of a script: its records are the protocol's.              *)

Piece(w, from, to) == [k \in 1 .. to - from + 1 |-> w.bytes[from + k - 1]]

\* Each record, taken alone, means what the cable meant; its line, if it has
\* one, is no longer than the parser waits for.
RecordsAreUnderstood(w) ==
    \A i \in DOMAIN w.ends :
        LET record == Piece(w, First(w, i), w.ends[i])
        IN  /\ w.means[i].kind # "junk"
            /\ Parse(record) = [used |-> Len(record), reply |-> w.means[i]]
            /\ record[3] \in Digit \/ \E e \in LineEnds(record) : e <= LineMax

\* No record holds what could be taken for one.
RecordsStandAlone(w) ==
    \A p \in 1 .. Len(w.bytes) : \A e \in p .. Len(w.bytes) :
        LET parsed == Parse(Piece(w, p, e))
        IN  parsed.used > 0 /\ parsed.reply.kind # "junk" =>
                \E i \in DOMAIN w.ends : First(w, i) = p

\* The record i as consume_accum hands it on.
Sent(i) == [reply |-> wire.means[i], from |-> First(wire, i), to |-> wire.ends[i]]

\* Once the stream is in step - a read began where a record begins, or its
\* garbage held nothing that could begin one - every record that has been
\* read in full since is handed on as the cable meant it, once and in order,
\* however the reads cut the stream, and nothing else is; the accumulator holds
\* what has been read of the next one (op_device.c:395-428).  A cable that hangs
\* up is reported lost only when all it had sent has been read
\* (op_serial.c:78-80).
RepliesInStep ==
    /\ lost /\ failures < FailuresMax => at = Len(wire.bytes) /\ mode = "ended"
    /\ mode = "reading" /\ since # 0 =>
        LET due == {i \in DOMAIN wire.ends :
                       First(wire, i) >= since /\ wire.ends[i] <= at}
            got == {k \in DOMAIN taken : taken[k].from >= since}
        IN  /\ {taken[k] : k \in got} = {Sent(i) : i \in due}
            /\ \A j, k \in got : j < k => taken[j].to < taken[k].from
            /\ \E done \in {since - 1} \cup {wire.ends[i] : i \in due} :
                  /\ \A i \in due : wire.ends[i] <= done
                  /\ accum = [k \in 1 .. at - done |-> done + k]

\* Nothing is made up: while no read is dropped, what the parser hands on was
\* sent as one record by the cable, even when the session began in the middle
\* of a record and had to find its way (op_proto.c:305-318).
NothingInvented ==
    losses = 0 => \A k \in DOMAIN taken : \E i \in DOMAIN wire.ends : taken[k] = Sent(i)

\* A whole read always fits: no byte is ever discarded because the
\* accumulator is full (op_device.c:424-427 and 465-470).
NoReadIsCut == TypeOK /\ (mode = "reading" => Len(accum) + ReadMax <= AccumCap)
=============================================================================
