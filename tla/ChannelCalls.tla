---------------------------- MODULE ChannelCalls ----------------------------
(***************************************************************************)
(* The calls that keep no state in the driver: PassThruWriteMsgs, the      *)
(* message filters, GET_CONFIG and SET_CONFIG, the voltages read and the   *)
(* K-line inits (op_j2534.c).  Each is a list of commands, one at a time   *)
(* over the exchange of CommandExchange, whose service - an answered       *)
(* command got its own answer - is taken for granted here.  Added to it    *)
(* are what a command costs: the transfers of its bytes (usb_write,        *)
(* ser_write), each with the whole time limit, then the wait for its       *)
(* answer; and what it does at the cable.                                  *)
(*                                                                         *)
(* One thread makes the calls.  Others are met as the time they hold       *)
(* cmd_lock.  Time counts from the start of a call, in milliseconds, and   *)
(* only PassThruWriteMsgs looks at it.                                     *)
(***************************************************************************)
EXTENDS Integers, Sequences, SequencesExt, FiniteSetsExt

CONSTANTS
    Requests,       \* the calls an application may make
    Parameters,     \* the configuration parameters the cable supports
    Values,
    Width,          \* 2^32: values of an unsigned int
    LongMax,        \* 2^63 - 1
    MicroPerMs,     \* 1000
    ZeroBudget,     \* budget_us for a Timeout of 0, by the channel
    CommandMs,      \* OP_DEFAULT_CMD_MS, and 5000 for a K-line init
    NowaitMs,       \* the write limit of op_device_send_nowait, 1000
    MaxCalls,       \* bound: calls made
    LockMax,        \* bound: how long others hold cmd_lock
    Leaps,          \* bound: how far the wall clock is stepped
    LossesMax       \* bound: replies lost

Kinds == {"write", "set", "get", "read", "init", "filter", "stop", "clear"}

\* An unsigned int holds the write limits; a long holds any Timeout.
ASSUME ChannelAssumption ==
    /\ {Width, MicroPerMs, CommandMs, NowaitMs} \subseteq Nat \ {0}
    /\ {MaxCalls, LockMax, LossesMax, ZeroBudget, LongMax} \subseteq Nat
    /\ MicroPerMs < Width /\ Width <= LongMax /\ Leaps \subseteq Int
    /\ \A r \in Requests :
          /\ r.kind \in Kinds /\ r.timeout \in 0 .. 2 * LongMax + 1
          /\ Len(r.items) \in Nat /\ DOMAIN r.items = 1 .. Len(r.items)
          /\ \A i \in 1 .. Len(r.items) : r.items[i].size \in Nat
          /\ r.kind = "set" => \A i \in 1 .. Len(r.items) : r.items[i].value \in Values
          /\ r.kind = "clear" => r.items # <<>>

VARIABLES
    pc,         \* "idle", "next", "queued" for cmd_lock, "writing", "waiting"
    call,       \* the call: its request, the items done, the status so far
    ask,        \* the command under way
    elapsed,    \* time since the call began, by a clock that is never stepped
    stepped,    \* what the wall clock was stepped by since
    lost,       \* d->lost
    inbox, torn,    \* the cable: whole commands it has yet to run; the start of one
    answer,     \* its answer to the command under way
    config, filters, nextFilter,
    bus,        \* history: the messages put on the bus
    handed,     \* history: the commands the cable was given whole
    results,    \* history: the calls that have returned
    whole,      \* history: every command of this call was given to the cable
    losses      \* history: replies lost

callVars == <<call, ask, elapsed, stepped>>
cableVars == <<config, filters, nextFilter, bus, losses>>
pipeVars == <<inbox, torn, handed>>
vars == <<pc, callVars, lost, pipeVars, answer, cableVars, results, whole>>
-----------------------------------------------------------------------------
NoCall == [kind |-> "none", items |-> <<>>, timeout |-> 0, done |-> 0,
           status |-> "ok", handedOut |-> <<>>]
NoAsk == [wait |-> FALSE, given |-> 0, budget |-> 0, left |-> 0, transfers |-> 0,
          waited |-> 0, until |-> 0]
NoAnswer == [status |-> "none", value |-> 0]

Init ==
    /\ pc = "idle" /\ call = NoCall /\ ask = NoAsk
    /\ elapsed = 0 /\ stepped = 0 /\ lost = FALSE
    /\ inbox = <<>> /\ torn = FALSE /\ answer = NoAnswer
    /\ config \in [Parameters -> Values]
    /\ filters = {} /\ nextFilter = 1
    /\ bus = <<>> /\ handed = <<>> /\ results = <<>> /\ losses = 0 /\ whole = TRUE

CallNumber == Len(results) + 1
Item == call.items[call.done + 1]
Id == <<CallNumber, call.done + 1>>
Wall == elapsed + stepped

\* The checks of a call's items that read no state.
ValidFilter(f) ==
    /\ f.need \in {2, 3}
    /\ f.sizes[1] \in 1 .. 255
    /\ f.need = 3 => f.ok
    /\ \A i \in 2 .. f.need : f.sizes[i] = f.sizes[1]

Valid(kind, item) ==
    /\ kind = "write" => item.ok
    /\ kind = "filter" => ValidFilter(item)

\* The device is open, the channel too, and the pointers are there.
MakeCall(r) ==
    /\ pc = "idle" /\ Len(results) < MaxCalls
    /\ call' = [NoCall EXCEPT !.kind = r.kind, !.items = r.items, !.timeout = r.timeout]
    /\ pc' = "next"
    /\ elapsed' = 0 /\ stepped' = 0 /\ ask' = NoAsk /\ answer' = NoAnswer
    /\ whole' = TRUE
    /\ UNCHANGED <<lost, pipeVars, cableVars, results>>

\* The call returns with c as its outcome.
Return(c) ==
    /\ call' = c /\ pc' = "idle"
    /\ results' = Append(results, c)

\* The loop goes round: the next message or parameter.
Continue(c) == call' = c /\ pc' = "next" /\ UNCHANGED results

\* Mutant: every message gets the whole Timeout.
WholeTimeout == call.timeout
\* (long)Timeout less the time that has passed by the wall clock.
Remaining ==
    (IF call.timeout > LongMax THEN call.timeout - 2 * (LongMax + 1) ELSE call.timeout)
        - Max({0, Wall})

\* Only a write with a Timeout ever looks at the time.
Timed == call.kind = "write" /\ call.timeout # 0
More == pc = "next" /\ call.done < Len(call.items)
OutOfTime == Timed /\ Remaining <= 0

Finish ==
    /\ pc = "next" /\ ~More
    /\ Return(call)
    /\ UNCHANGED <<ask, elapsed, stepped, lost, pipeVars, answer, cableVars, whole>>

GiveUp ==
    /\ More /\ OutOfTime
    /\ Return([call EXCEPT !.status = "timeout"])
    /\ UNCHANGED <<ask, elapsed, stepped, lost, pipeVars, answer, cableVars, whole>>

Reject ==
    /\ More /\ ~OutOfTime /\ ~Valid(call.kind, Item)
    /\ Return([call EXCEPT !.status = "invalid"])
    /\ UNCHANGED <<ask, elapsed, stepped, lost, pipeVars, answer, cableVars, whole>>

\* timeout_ms of the command: an unsigned int.
Given == IF call.kind = "write"
         THEN IF call.timeout = 0 THEN 0 ELSE Remaining % Width
         ELSE CommandMs

\* write_one: the cable's time for the bus, in microseconds.
Budget(ms) == IF ms = 0 THEN ZeroBudget
              ELSE IF ms > (Width - 1) \div MicroPerMs THEN Width - 1
              ELSE ms * MicroPerMs

\* The command is made up and goes to cmd_exchange.
AskNext ==
    /\ More /\ ~OutOfTime /\ Valid(call.kind, Item)
    /\ ask' = [NoAsk EXCEPT !.wait = (call.kind = "write" => Given # 0),
                            !.given = Given, !.budget = Budget(Given),
                            !.left = Item.size]
    /\ pc' = "queued"
    /\ UNCHANGED <<call, elapsed, stepped, lost, pipeVars, answer, cableVars, results,
                   whole>>
-----------------------------------------------------------------------------
(* cmd_exchange, op_write and what the call makes of their result.         *)

WriteMs == IF ask.given = 0 THEN NowaitMs ELSE ask.given

\* A transfer ends at once, just before its limit or at it.
Durations == IF Timed THEN {0, WriteMs - 1, WriteMs} ELSE {0}

\* Mutant: a message counts as sent before its result is known.
AfterAnyWrite(s, v) ==
    IF s = "ok" THEN Continue([call EXCEPT !.done = @ + 1])
    ELSE Return([call EXCEPT !.status = s, !.done = @ + 1])
\* PassThruWriteMsgs stops at the first failure.
AfterWrite(s, v) ==
    IF s = "ok" THEN Continue([call EXCEPT !.done = @ + 1])
    ELSE Return([call EXCEPT !.status = s])

\* The other calls: the value of an answered command is handed out, and the
\* last command's status is the call's.
Recorded(s, v) ==
    [call EXCEPT !.done = @ + 1, !.status = s,
                 !.handedOut = IF s = "ok" /\ call.kind \in {"get", "read", "init", "filter"}
                               THEN Append(@, [item |-> call.done + 1, value |-> v]) ELSE @]
\* Mutant: a list stops at its first failure.
AfterFailure(s, v) == IF s = "ok" THEN Continue(Recorded(s, v)) ELSE Return(Recorded(s, v))
AfterOther(s, v) == Continue(Recorded(s, v))

After(s, v) == IF call.kind = "write" THEN AfterWrite(s, v) ELSE AfterOther(s, v)

\* cmd_lock is taken, after others have had it for w.
Enter(w) ==
    /\ pc = "queued"
    /\ elapsed' = elapsed + w
    /\ ask' = [ask EXCEPT !.waited = w]
    /\ IF lost THEN After("no_device", 0) /\ whole' = FALSE
       ELSE pc' = "writing" /\ UNCHANGED <<call, results, whole>>
    /\ UNCHANGED <<stepped, lost, pipeVars, answer, cableVars>>

\* The last byte of a command is at the cable, which may take it for the rest
\* of one that was cut off before (external).
Reaches ==
    /\ handed' = Append(handed, Id)
    /\ torn' = FALSE
    /\ \/ /\ inbox' = Append(inbox, [id |-> Id, kind |-> call.kind, item |-> Item])
          /\ UNCHANGED whole
       \/ torn /\ inbox' = inbox /\ whole' = FALSE

\* A transfer moves m packets, in time or - usb_write - as it times out.
Transfer(m, d) ==
    /\ pc = "writing" /\ m <= ask.left
    /\ elapsed' = elapsed + d
    /\ ask' = [ask EXCEPT !.left = @ - m, !.transfers = @ + 1,
                          !.until = Wall + d + ask.given]
    /\ IF m < ask.left THEN UNCHANGED <<pc, call, results, pipeVars, whole>>
       ELSE /\ Reaches
            /\ IF ask.wait THEN pc' = "waiting" /\ UNCHANGED <<call, results>>
               ELSE After("ok", 0)
    /\ UNCHANGED <<stepped, lost, answer, cableVars>>

\* It times out with nothing moved, or fails with m packets moved all the same.
TransferFails(m, d, s) ==
    /\ pc = "writing" /\ m <= ask.left
    /\ s = "stalled" => m = 0 /\ d = Max(Durations)
    /\ elapsed' = elapsed + d
    /\ ask' = [ask EXCEPT !.transfers = @ + 1]
    /\ IF m = ask.left THEN Reaches
       ELSE /\ torn' = (torn \/ ask.left - m < Item.size)
            /\ whole' = FALSE
            /\ UNCHANGED <<inbox, handed>>
    /\ After(s, 0)
    /\ UNCHANGED <<stepped, lost, answer, cableVars>>

\* The deadline of the wait is on the wall clock.
UntilEnd == Max({elapsed, ask.until - stepped})

\* An `are` is the call's status; a reply of another kind than the call needs
\* is a failure, and so is an init the ECU did not answer.
StatusOf(a) == IF a.status = "bare" THEN "failed" ELSE a.status

TakeAnswer(e) ==
    /\ pc = "waiting" /\ answer # NoAnswer
    /\ e \in elapsed .. UntilEnd
    /\ elapsed' = IF Timed THEN e ELSE elapsed
    /\ answer' = NoAnswer
    /\ After(StatusOf(answer), answer.value)
    /\ UNCHANGED <<ask, stepped, lost, pipeVars, cableVars, whole>>

TimeOut ==
    /\ pc = "waiting" /\ answer = NoAnswer /\ ~lost
    /\ elapsed' = IF Timed THEN UntilEnd ELSE elapsed
    /\ After("timeout", 0)
    /\ UNCHANGED <<ask, stepped, lost, pipeVars, answer, cableVars, whole>>

WakeGone(e) ==
    /\ pc = "waiting" /\ answer = NoAnswer /\ lost
    /\ e \in elapsed .. UntilEnd
    /\ elapsed' = IF Timed THEN e ELSE elapsed
    /\ After("no_device", 0)
    /\ UNCHANGED <<ask, stepped, lost, pipeVars, answer, cableVars, whole>>
-----------------------------------------------------------------------------
(* The cable, the clock and the plug.                                      *)

\* What a command does, and its answer.
Ran(c, s, v, f) ==
    /\ config' = IF c.kind = "set" /\ s = "ok"
                 THEN [config EXCEPT ![c.item.parameter] = c.item.value] ELSE config
    /\ filters' = f
    /\ nextFilter' = nextFilter + Cardinality(f \ filters)
    /\ bus' = IF c.kind = "write" /\ s = "ok" THEN Append(bus, c.id) ELSE bus
    /\ \/ /\ answer' = IF pc = "waiting" /\ c.id = Id
                       THEN [status |-> s, value |-> v] ELSE answer
          /\ UNCHANGED losses
       \/ /\ losses < LossesMax /\ losses' = losses + 1
          /\ UNCHANGED answer

CableRuns ==
    /\ inbox # <<>> /\ ~lost
    /\ inbox' = Tail(inbox)
    /\ LET c == Head(inbox) IN
       \/ c.kind = "write" /\ \E s \in {"ok", "refused"} : Ran(c, s, 0, filters)
       \/ c.kind = "set" /\ Ran(c, IF c.item.parameter \in Parameters THEN "ok"
                                   ELSE "refused", 0, filters)
       \/ /\ c.kind = "get"
          /\ IF c.item.parameter \in Parameters
             THEN Ran(c, "ok", config[c.item.parameter], filters)
             ELSE Ran(c, "refused", 0, filters)
       \/ /\ c.kind \in {"read", "init"}
          /\ \E s \in {"ok", "bare", "refused"} : Ran(c, s, 0, filters)
       \/ c.kind = "filter" /\ \/ Ran(c, "ok", nextFilter, filters \cup {nextFilter})
                               \/ Ran(c, "refused", 0, filters)
       \/ c.kind = "stop" /\ Ran(c, IF c.item.filter \in filters THEN "ok" ELSE "refused",
                                 0, filters \ {c.item.filter})
       \/ c.kind = "clear" /\ Ran(c, "ok", 0, {})
    /\ UNCHANGED <<pc, callVars, lost, torn, handed, results, whole>>

\* Elsewhere a step shows no sooner than at the next of these.
ClockStepped(k) ==
    /\ Timed /\ pc \in {"next", "waiting"} /\ stepped = 0
    /\ stepped' = k
    /\ UNCHANGED <<pc, call, ask, elapsed, lost, pipeVars, answer, cableVars, results, whole>>

Unplugged ==
    /\ ~lost /\ pc # "idle"
    /\ lost' = TRUE
    /\ UNCHANGED <<pc, callVars, pipeVars, answer, cableVars, results, whole>>

Done == pc = "idle" /\ Len(results) = MaxCalls /\ UNCHANGED vars

Next ==
    \/ \E r \in Requests : MakeCall(r)
    \/ Finish \/ GiveUp \/ Reject \/ AskNext
    \/ \E w \in IF Timed THEN 0 .. LockMax ELSE {0} : Enter(w)
    \/ \E d \in Durations, m \in 0 .. ask.left :
          \/ m > 0 /\ Transfer(m, d)
          \/ \E s \in {"stalled", "failed"} : TransferFails(m, d, s)
    \/ \E e \in {elapsed, UntilEnd} : TakeAnswer(e) \/ WakeGone(e)
    \/ TimeOut
    \/ CableRuns \/ Unplugged
    \/ \E k \in Leaps : ClockStepped(k)
    \/ Done

Spec == Init /\ [][Next]_vars
-----------------------------------------------------------------------------
\* The commands of call c among ids are its first n, each once and in order.
FirstOf(c, n, ids) ==
    LET own == {i \in DOMAIN ids : ids[i][1] = c}
    IN  /\ {ids[i][2] : i \in own} = 1 .. n
        /\ \A i, j \in own : i < j => ids[i][2] < ids[j][2]

\* A call that waits for answers; a Timeout a multiple of 2^32 is one of 0.
Waits(c) == c.timeout \in 1 .. Width - 1

\* The count a write hands back is of messages the cable has: the first so
\* many, each once and in order, and no other but perhaps the one that failed,
\* even when that one is answered or sent after the call (docs/API.md:32).
\* With a Timeout they are on the bus; without one they are in the cable.
CountIsHonest ==
    \A c \in DOMAIN results : results[c].kind = "write" =>
        LET sent == results[c].done
        IN  /\ \E n \in {sent, sent + 1} : FirstOf(c, n, handed)
            /\ Waits(results[c]) => \E n \in {sent, sent + 1} : FirstOf(c, n, bus)
            /\ results[c].status = "ok" => sent = Len(results[c].items)

\* Timeout bounds the whole call (op_j2534.c:606-612): all that comes on top
\* of it is the last command begun - the others' hold of cmd_lock before it,
\* and its transfers, each of which may take what was left.  Even while the
\* clock is stepped no message is given more than the call was, nor the cable a
\* budget that is more, or has wrapped to less than a millisecond.
TimeoutKept ==
    call.kind = "write" /\ Waits(call) /\ ask # NoAsk =>
        /\ ask.given <= call.timeout
        /\ ask.budget \in MicroPerMs .. call.timeout * MicroPerMs
        /\ stepped = 0 =>
              elapsed <= call.timeout + ask.waited + ask.transfers * ask.given

\* A SET_CONFIG whose commands all came through has set every parameter the
\* cable supports to the last value listed, whatever was refused or timed out
\* before it and whatever the call returned (op_j2534.c:957-964).
SetAppliesAll ==
    call.kind = "set" /\ whole /\ inbox = <<>> =>
        \A p \in Parameters :
            LET listed == {i \in DOMAIN call.items : call.items[i].parameter = p}
            IN  listed # {} => config[p] = call.items[Max(listed)].value

\* What GET_CONFIG hands out is what the cable has set, and a filter id is a
\* filter of the cable's; after CLEAR_MSG_FILTERS it has none, those of
\* starts that timed out included.
AnswersAreTrue ==
    /\ call.kind = "get" =>
          \A h \in ToSet(call.handedOut) : h.value = config[call.items[h.item].parameter]
    /\ call.kind = "filter" => \A h \in ToSet(call.handedOut) : h.value \in filters
    /\ call.kind = "clear" /\ call.status = "ok" => filters = {}

\* The cable is as the call that has just returned says.
CableAsTold == pc = "idle" => SetAppliesAll /\ AnswersAreTrue
=============================================================================
