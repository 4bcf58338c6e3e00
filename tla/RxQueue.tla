------------------------------ MODULE RxQueue -------------------------------
(***************************************************************************)
(* The receive queue of one channel (op_device.c: queue_push, ring_put,    *)
(* ring_get, op_device_pop, op_device_take_dropped, flush and open/close   *)
(* of the channel) and PassThruReadMsgs (op_j2534.c), which any number of  *)
(* threads may run on the channel at once.                                 *)
(*                                                                         *)
(* The ring is modelled byte by byte, with a buffer of RxqBytes bytes and  *)
(* a header of HeaderBytes bytes: a byte is known by the message it was    *)
(* written for and its place in it, and the size read from the header      *)
(* decides how much ring_get takes.  Every step that holds `lock` is one   *)
(* action; what ReadMsgs does between two of them interleaves.             *)
(***************************************************************************)
EXTENDS Integers, FiniteSets, Sequences

CONSTANTS
    Threads,      \* the application's threads that read the channel
    RxqBytes,     \* OP_RXQ_BYTES
    HeaderBytes,  \* sizeof(op_qhdr)
    Sizes,        \* the data sizes that arrive
    Wants,        \* the values of *pNumMsgs callers ask for
    MaxArrivals,  \* bound: messages that arrive
    MaxCalls,     \* bound: calls of PassThruReadMsgs
    MaxResets,    \* bound: flushes, connects and disconnects
    MaxCloses     \* bound: PassThruClose calls

ASSUME QueueAssumption ==
    /\ IsFiniteSet(Threads)
    /\ RxqBytes \in Nat /\ HeaderBytes \in Nat \ {0} /\ Sizes \subseteq Nat
    /\ HeaderBytes <= RxqBytes
    /\ Wants \subseteq Nat \ {0}
    /\ MaxArrivals \in Nat /\ MaxCalls \in Nat /\ MaxResets \in Nat /\ MaxCloses \in Nat

Arrivals == 1 .. MaxArrivals
Messages == [id : Arrivals, size : Sizes]
Blank == [id |-> 0, size |-> 0]        \* the buffer before anything is written
Garbled == [id |-> -1, size |-> 0]     \* bytes that are not one whole message

Positions == 0 .. RxqBytes - 1

Wrap(i) == IF i < RxqBytes THEN i ELSE i - RxqBytes

Encoded(m) == [k \in 1 .. HeaderBytes + m.size |-> [of |-> m, at |-> k]]

VARIABLES
    session,     \* "open", "closing" (open = 0, the reader still runs) or "closed"
    lost,
    chOpen, rq,  \* the channel's open flag; whether its buffer is allocated
    mem, head, tail, used, qcount, dropped,
    call,        \* each thread's PassThruReadMsgs
    taken,       \* the message op_device_pop handed out last
    starts,      \* history: where each message waiting was put, oldest first
    unreported,  \* history: the refused arrivals `dropped` stands for
    arrivals, calls, resets, closes   \* counts, against the bounds

sessionVars == <<session, lost, closes>>
ring == <<mem, head, tail, used, qcount, starts>>
channel == <<chOpen, rq, resets>>
vars == <<sessionVars, ring, channel, dropped, call, taken, unreported, arrivals, calls>>

isOpen == session = "open"

Idle == [at |-> "idle", want |-> 0, timed |-> FALSE, late |-> FALSE,
         got |-> 0, result |-> "none"]

TypeOK ==
    /\ session \in {"open", "closing", "closed"}
    /\ lost \in BOOLEAN /\ chOpen \in BOOLEAN /\ rq \in BOOLEAN
    /\ mem \in [Positions -> [of : Messages \cup {Blank}, at : Nat]]
    /\ head \in Positions /\ tail \in Positions /\ used \in 0 .. RxqBytes
    /\ qcount \in Nat /\ dropped \in 0 .. MaxArrivals
    /\ starts \in Seq(Positions)
    /\ call \in [Threads ->
          [at : {"idle", "popping", "asleep", "counting"},
           want : Nat, timed : BOOLEAN, late : BOOLEAN,
           got : Nat,
           result : {"none", "ok", "closed", "overflow", "empty", "timeout"}]]
    /\ taken \in Messages \cup {Blank, Garbled}
    /\ unreported \subseteq Arrivals
    /\ arrivals \in 0 .. MaxArrivals

Init ==
    /\ session = "open" /\ lost = FALSE
    /\ chOpen = FALSE /\ rq = FALSE
    /\ mem = [i \in Positions |-> [of |-> Blank, at |-> 0]]
    /\ head = 0 /\ tail = 0 /\ used = 0 /\ qcount = 0 /\ dropped = 0
    /\ starts = <<>>
    /\ call = [t \in Threads |-> Idle]
    /\ taken = Blank
    /\ unreported = {}
    /\ arrivals = 0 /\ calls = 0 /\ resets = 0 /\ closes = 0

(***************************************************************************)
(* The reader thread.                                                      *)
(***************************************************************************)
\* Mutant: nobody is woken.
WakesNobody(c) == c

\* pthread_cond_broadcast(&rx_cv)
Broadcast(c) ==
    [t \in Threads |-> IF c[t].at = "asleep" THEN [c[t] EXCEPT !.at = "popping"] ELSE c[t]]

Broadcasts == call' = Broadcast(call)

\* Mutant: the header is not counted.
FitsWithoutHeader(m) == rq /\ used + m.size <= RxqBytes

Fits(m) == rq /\ used + HeaderBytes + m.size <= RxqBytes

\* ring_put of the header, then of the data.
RingPut(m) ==
    LET bytes == Encoded(m) IN
    /\ mem' = [i \in Positions |->
                 LET k == Wrap(i + RxqBytes - tail) IN
                 IF k < Len(bytes) THEN bytes[k + 1] ELSE mem[i]]
    /\ tail' = Wrap(tail + Len(bytes))
    /\ used' = used + Len(bytes)
    /\ qcount' = qcount + 1
    /\ starts' = Append(starts, tail)
    /\ UNCHANGED head

\* absorb_frame reaches queue_push only while the channel is open.
QueuePush ==
    /\ session # "closed" /\ ~lost /\ chOpen
    /\ arrivals < MaxArrivals /\ arrivals' = arrivals + 1
    /\ \E s \in Sizes : LET m == [id |-> arrivals', size |-> s] IN
          \/ /\ Fits(m)
             /\ RingPut(m)
             /\ UNCHANGED <<dropped, unreported>>
          \/ /\ ~Fits(m)
             /\ dropped' = dropped + 1
             /\ unreported' = unreported \cup {m.id}
             /\ UNCHANGED ring
    /\ Broadcasts
    /\ UNCHANGED <<sessionVars, channel, taken, calls>>

Lose ==
    /\ session # "closed" /\ ~lost
    /\ lost' = TRUE
    /\ Broadcasts
    /\ UNCHANGED <<session, closes, ring, channel, dropped, taken, unreported, arrivals, calls>>

(***************************************************************************)
(* PassThruReadMsgs.                                                       *)
(***************************************************************************)
Bytes(from, n) == [k \in 1 .. n |-> mem[Wrap(from + k - 1)]]

\* What ring_get returns for the header at `from` and the size it holds.
MessageAt(from) ==
    LET m == mem[from].of IN
    IF Bytes(from, HeaderBytes + m.size) = Encoded(m) THEN m ELSE Garbled

\* Mutant: the data bytes are not taken off.
LengthWithoutData(from) == HeaderBytes

LengthAt(from) == HeaderBytes + mem[from].of.size

ReadMsgs(t) ==
    /\ calls < MaxCalls /\ calls' = calls + 1
    /\ call[t].at = "idle" /\ isOpen /\ chOpen
    /\ \E n \in Wants, b \in BOOLEAN :
          call' = [call EXCEPT ![t] = [Idle EXCEPT !.at = "popping", !.want = n,
                                                   !.timed = b, !.late = ~b]]
    /\ UNCHANGED <<sessionVars, ring, channel, dropped, taken, unreported, arrivals>>

\* The caller's Timeout has run out: `remaining` is zero from here on, and a
\* wait in op_device_pop returns ETIMEDOUT.
TimesUp(t) ==
    /\ call[t].at \in {"popping", "asleep"} /\ ~call[t].late
    /\ call' = [call EXCEPT ![t].late = TRUE, ![t].at = "popping"]
    /\ UNCHANGED <<sessionVars, ring, channel, dropped, taken, unreported, arrivals, calls>>

MustWait == qcount = 0 /\ isOpen /\ ~lost

Sleep(t) ==
    /\ call[t].at = "popping" /\ MustWait /\ ~call[t].late
    /\ call' = [call EXCEPT ![t].at = "asleep"]
    /\ UNCHANGED <<sessionVars, ring, channel, dropped, taken, unreported, arrivals, calls>>

Return(t, code) ==
    /\ call' = [call EXCEPT ![t] = [Idle EXCEPT !.result = code]]

PopMessage(t) ==
    /\ call[t].at = "popping" /\ isOpen /\ ~lost /\ qcount > 0
    /\ LET m == MessageAt(head)
           n == call[t].got + 1 IN
       /\ taken' = m
       /\ call' = [call EXCEPT ![t].got = n,
                     ![t].at = IF n >= call[t].want THEN "counting" ELSE "popping"]
    /\ head' = Wrap(head + LengthAt(head))
    /\ used' = used - LengthAt(head)
    /\ qcount' = qcount - 1
    /\ starts' = Tail(starts)
    /\ UNCHANGED <<sessionVars, channel, mem, tail, dropped, unreported, arrivals, calls>>

PopNothing(t) ==
    /\ call[t].at = "popping" /\ MustWait /\ call[t].late
    /\ call' = [call EXCEPT ![t].at = "counting"]
    /\ UNCHANGED <<sessionVars, ring, channel, dropped, taken, unreported, arrivals, calls>>

PopClosed(t) ==
    /\ call[t].at = "popping" /\ (~isOpen \/ lost)
    /\ Return(t, "closed")
    /\ UNCHANGED <<sessionVars, ring, channel, dropped, taken, unreported, arrivals, calls>>

\* Mutant: a call that got messages reports success first.
CodeIgnoresLoss(c, n) ==
    IF c.got >= c.want THEN "ok" ELSE IF n > 0 THEN "overflow"
    ELSE IF c.got = 0 THEN "empty" ELSE IF c.timed THEN "timeout" ELSE "ok"

Code(c, n) ==
    IF n > 0 THEN "overflow" ELSE IF c.got = 0 THEN "empty"
    ELSE IF c.timed /\ c.got < c.want THEN "timeout" ELSE "ok"

\* op_device_take_dropped, then the return code.
TakeDropped(t) ==
    /\ call[t].at = "counting"
    /\ IF isOpen
         THEN /\ Return(t, Code(call[t], dropped))
              /\ dropped' = 0 /\ unreported' = {}
         ELSE /\ Return(t, Code(call[t], 0))
              /\ UNCHANGED <<dropped, unreported>>
    /\ UNCHANGED <<sessionVars, ring, channel, taken, arrivals, calls>>

(***************************************************************************)
(* Emptying the queue.                                                     *)
(***************************************************************************)
\* Mutant: the count of refused messages survives.
FlushKeepsDropped ==
    /\ head' = 0 /\ tail' = 0 /\ used' = 0 /\ qcount' = 0
    /\ starts' = <<>> /\ unreported' = {}
    /\ UNCHANGED <<mem, dropped>>

FlushLocked ==
    /\ head' = 0 /\ tail' = 0 /\ used' = 0 /\ qcount' = 0 /\ dropped' = 0
    /\ starts' = <<>> /\ unreported' = {}
    /\ UNCHANGED mem

Reset ==
    /\ resets < MaxResets /\ resets' = resets + 1
    /\ FlushLocked
    /\ UNCHANGED <<sessionVars, call, taken, arrivals, calls>>

ClearRxBuffer ==
    /\ isOpen /\ chOpen
    /\ Reset
    /\ UNCHANGED <<chOpen, rq>>

\* Its malloc may fail: the channel then stays closed, without a buffer.
OpenChannel ==
    /\ isOpen /\ ~chOpen
    /\ Reset
    /\ rq' \in {rq, TRUE} /\ chOpen' = rq'

\* Wakes nobody: a caller asleep on the channel stays until its deadline.
CloseChannel ==
    /\ chOpen
    /\ Reset
    /\ chOpen' = FALSE /\ UNCHANGED rq

(***************************************************************************)
(* PassThruClose leaves the channel open and its queue as it is; the next  *)
(* op_device_open resets it.  One thread opens and closes.                 *)
(***************************************************************************)
CloseDevice ==
    /\ isOpen /\ closes < MaxCloses /\ closes' = closes + 1
    /\ session' = "closing"
    /\ Broadcasts
    /\ UNCHANGED <<lost, ring, channel, dropped, taken, unreported, arrivals, calls>>

JoinReader ==
    /\ session = "closing"
    /\ session' = "closed"
    /\ UNCHANGED <<lost, closes, ring, channel, dropped, call, taken, unreported, arrivals, calls>>

OpenDevice ==
    /\ session = "closed"
    /\ session' = "open" /\ lost' = FALSE /\ chOpen' = FALSE
    /\ FlushLocked
    /\ UNCHANGED <<closes, rq, resets, call, taken, arrivals, calls>>

Read(t) ==
    \/ Sleep(t) \/ PopMessage(t) \/ PopNothing(t) \/ PopClosed(t) \/ TakeDropped(t)

Next ==
    \/ QueuePush \/ Lose
    \/ ClearRxBuffer \/ OpenChannel \/ CloseChannel
    \/ CloseDevice \/ JoinReader \/ OpenDevice
    \/ \E t \in Threads : ReadMsgs(t) \/ TimesUp(t) \/ Read(t)

\* A thread that is awake goes on.  Nothing is assumed of deadlines: they may
\* be 49 days away.
Spec ==
    /\ Init /\ [][Next]_vars
    /\ \A t \in Threads : WF_vars(Read(t))

(***************************************************************************)
(* Properties.                                                             *)
(***************************************************************************)
\* What is read at each place a message was put.
Contents == [n \in 1 .. qcount |-> MessageAt(starts[n])]

\* Where ring_get has come to when it has taken the message at p.
Beyond(p) == Wrap(p + LengthAt(p))

\* The ring always holds exactly qcount whole messages, laid end to end from
\* head to tail, in the order they arrived: neither wrapping, refusing an
\* arrival nor flushing ever splits one or leaves `used` off.  So the headers
\* read one after the other from head lead to each message put.
RingSpellsMessages ==
    /\ TypeOK /\ Len(starts) = qcount
    /\ \A n \in 1 .. qcount : Contents[n] \in Messages
    /\ \A n \in 1 .. qcount : \A m \in 1 .. n - 1 : Contents[m].id < Contents[n].id
    /\ \A n \in 1 .. qcount : starts[n] = IF n = 1 THEN head ELSE Beyond(starts[n - 1])
    /\ tail = IF qcount = 0 THEN head ELSE Beyond(starts[qcount])
    /\ tail = Wrap(head + used)

\* `dropped` counts exactly the refused messages nobody was told of.
DroppedCounted == dropped = Cardinality(unreported)

\* A wait that could end has been woken: nobody sleeps in op_device_pop on a
\* queue with a message in it, a lost cable or a closed device.
NobodySleepsOnWork ==
    \A t \in Threads : call[t].at = "asleep" => MustWait

ReturnsWithout(t, codes) ==
    call[t].at # "idle" /\ call'[t].at = "idle" /\ call'[t].result \notin codes

\* A hole in what PassThruReadMsgs hands out is marked: while the device is
\* open no call returns anything but ERR_BUFFER_OVERFLOW or an error while a
\* refused arrival is unreported.
HoleIsMarked ==
    [][\A t \in Threads :
          isOpen /\ ReturnsWithout(t, {"overflow", "closed"}) => unreported = {}]_vars

\* The end of the session ends the calls (op_device.c:584-586): one that is
\* under way when the cable is lost or the device closes returns without
\* waiting for its deadline, unless a new session begins first.
EndedMeansReturned ==
    \A t \in Threads :
       call[t].at # "idle" /\ (~isOpen \/ lost)
          ~> call[t].at = "idle" \/ (isOpen /\ ~lost)

\* The ring is the abstract queue.
Fifo == INSTANCE RxFifo WITH
    Messages <- Messages,
    Nothing <- Blank,
    queue <- Contents,
    refused <- dropped,
    taken <- taken

ImplementsFifo == Fifo!Spec
=============================================================================
