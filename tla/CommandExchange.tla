-------------------------- MODULE CommandExchange --------------------------
(***************************************************************************)
(* One session's command transactions: cmd_exchange, stash_reply, the      *)
(* reader thread's loss detection and op_device_close (op_device.c).       *)
(*                                                                         *)
(* Application threads share one cable.  A thread takes cmd_lock, claims   *)
(* the reply slot, writes its command line and waits for the reply; the    *)
(* reader thread puts the replies it parses into the slot under `lock`.    *)
(* Every critical section of `lock` is one action here, because nothing    *)
(* else touches the slot while it runs; cmd_lock is held over several      *)
(* actions and is a variable.                                              *)
(*                                                                         *)
(* The cable answers in order, late, or not at all, so a command may time  *)
(* out and be answered afterwards.  The wire carries each message once,    *)
(* in order: it is a USB bulk pipe.  The state is that of a session whose  *)
(* op_device_open has set open = 1; replies of an earlier session may      *)
(* still be in the pipe.                                                   *)
(***************************************************************************)
EXTENDS Integers, Sequences, FiniteSets

CONSTANTS
    Threads,          \* the application's threads
    NoThread,         \* cmd_lock's holder when it is free
    FirstNumber,      \* 256: sequence numbers lie above every key byte
    NumberLimit,      \* 2^32: seq_next wraps here
    MaxCalls,         \* bound: calls the application makes
    UnnumberedInits,  \* verbs whose init reply carries no number
    StaleReplies      \* bound: replies an earlier session left in the pipe

Verbs == {"plain", "fastInit", "fiveBaud", "version"}
InitVerbs == {"fastInit", "fiveBaud"}

ASSUME ThreadsAssumption == IsFiniteSet(Threads) /\ NoThread \notin Threads

\* The numbers last for one session: 2^32 - 256 commands, at a millisecond
\* each, are seven weeks.
ASSUME NumbersAssumption ==
    /\ FirstNumber \in Nat /\ FirstNumber > 0
    /\ NumberLimit \in Nat
    /\ MaxCalls \in Nat
    /\ FirstNumber + MaxCalls < NumberLimit

ASSUME WireAssumption ==
    /\ UnnumberedInits \subseteq InitVerbs
    /\ StaleReplies \in Nat

Numbers == FirstNumber .. NumberLimit - 1

\* A command on its way to the cable and a reply on its way back.  `cmd` is a
\* history field: the ordinal of the command, 0 for an earlier session's.
\* seq = 0 is the absence of a number.
Commands == [cmd : 0 .. MaxCalls, verb : Verbs, seq : {0} \cup Numbers]
Replies == [cmd : 0 .. MaxCalls, kind : {"answer", "info", "ary", "arw"},
            seq : {0} \cup Numbers]

InitKinds == {"ary", "arw"}

VARIABLES
    open, lost,       \* the session flags
    transportUp,      \* the transport has not been closed
    reader,           \* the reader thread
    cmdLock,          \* who holds cmd_lock
    pc,               \* where each thread is
    verb,             \* the verb of each thread's command
    wait,             \* whether it waits for a reply
    seqNext,
    cmdWaiting, replyValid, seqPending, cmdVerb, reply,   \* the reply slot
    toDev, fromDev,   \* the wire
    calls,            \* calls made
    issued,           \* history: commands that were given the slot
    command,          \* history: each thread's command
    numberOf,         \* history: the number each command carries
    start,            \* history: the session's first number
    outcome           \* history: what each thread's last call returned

sessionVars == <<open, lost, transportUp, reader>>
slotVars == <<cmdWaiting, replyValid, seqPending, cmdVerb, reply>>
wireVars == <<toDev, fromDev>>
callVars == <<verb, wait, calls>>
numberVars == <<seqNext, issued, command, numberOf, start>>
vars == <<sessionVars, cmdLock, pc, callVars, numberVars, slotVars, wireVars,
          outcome>>

NoReply == [cmd |-> 0, kind |-> "answer", seq |-> 0]

PCs == {"idle", "called", "begun", "claimed", "written", "closing"}
Statuses == {"none", "ok", "timeout", "no_device", "write_error", "sent"}

TypeOK ==
    /\ open \in BOOLEAN /\ lost \in BOOLEAN /\ transportUp \in BOOLEAN
    /\ reader \in {"running", "exited", "joined"}
    /\ cmdLock \in Threads \cup {NoThread}
    /\ pc \in [Threads -> PCs]
    /\ verb \in [Threads -> Verbs]
    /\ wait \in [Threads -> BOOLEAN]
    /\ seqNext \in Numbers
    /\ cmdWaiting \in BOOLEAN /\ replyValid \in BOOLEAN
    /\ seqPending \in {0} \cup Numbers
    /\ cmdVerb \in Verbs
    /\ reply \in Replies
    /\ toDev \in Seq(Commands)
    /\ fromDev \in Seq(Replies)
    /\ calls \in 0 .. MaxCalls
    /\ issued \in 0 .. MaxCalls
    /\ command \in [Threads -> 0 .. MaxCalls]
    /\ numberOf \in [0 .. MaxCalls -> {0} \cup Numbers]
    /\ start \in Numbers
    /\ outcome \in [Threads -> [status : Statuses, cmd : 0 .. MaxCalls,
                                verb : Verbs, reply : Replies]]
-----------------------------------------------------------------------------
\* The numbers this session can give out, from `s` on, with the wrap.
Reachable(s) ==
    {n \in Numbers : \/ n \in s .. s + MaxCalls - 1
                     \/ n + (NumberLimit - FirstNumber) \in s .. s + MaxCalls - 1}

\* What an earlier session may have left: replies without a number, and
\* replies with one this session will not give out.  seq_next starts from the
\* clock for that purpose.
Stale(s) ==
    {r \in Replies : /\ r.cmd = 0
                     /\ r.seq \notin Reachable(s)
                     /\ r.kind = "info" => r.seq = 0
                     /\ r.kind \in InitKinds /\ r.seq = 0 => UnnumberedInits # {}}

Init ==
    /\ open = TRUE /\ lost = FALSE /\ transportUp = TRUE /\ reader = "running"
    /\ cmdLock = NoThread
    /\ pc = [t \in Threads |-> "idle"]
    /\ verb = [t \in Threads |-> "plain"]
    /\ wait = [t \in Threads |-> TRUE]
    /\ seqNext \in Numbers /\ start = seqNext
    /\ cmdWaiting = FALSE /\ replyValid = FALSE
    /\ seqPending = 0 /\ cmdVerb = "plain" /\ reply = NoReply
    /\ toDev = <<>>
    /\ \E n \in 0 .. StaleReplies : fromDev \in [1 .. n -> Stale(seqNext)]
    /\ calls = 0 /\ issued = 0
    /\ command = [t \in Threads |-> 0]
    /\ numberOf = [c \in 0 .. MaxCalls |-> 0]
    /\ outcome = [t \in Threads |-> [status |-> "none", cmd |-> 0,
                                     verb |-> "plain", reply |-> NoReply]]
-----------------------------------------------------------------------------
Goto(t, from, to) == pc[t] = from /\ pc' = [pc EXCEPT ![t] = to]

Acquire(t) == cmdLock = NoThread /\ cmdLock' = t
Release(t) == cmdLock = t /\ cmdLock' = NoThread

\* Returns `status` to the caller, with the reply when there is one.
Return(t, status, r) ==
    outcome' = [outcome EXCEPT ![t] = [status |-> status, cmd |-> command[t],
                                       verb |-> verb[t], reply |-> r]]

\* A session a command may use.
Usable == open /\ ~lost

\* The reply slot is given up.  Mutant: it stays claimed.
KeepSlot == UNCHANGED cmdWaiting
GiveUpSlot == cmdWaiting' = FALSE

\* A thread calls op_device_cmd (w) or op_device_send_nowait (~w); only a
\* transmit is sent without waiting.
Call(t, v, w) ==
    /\ calls < MaxCalls
    /\ w \/ v = "plain"
    /\ Goto(t, "idle", "called")
    /\ calls' = calls + 1
    /\ verb' = [verb EXCEPT ![t] = v]
    /\ wait' = [wait EXCEPT ![t] = w]
    /\ UNCHANGED <<sessionVars, cmdLock, numberVars, slotVars, wireVars, outcome>>

\* cmd_lock is taken and the session is still open.
Begin(t) ==
    /\ Usable
    /\ Goto(t, "called", "begun")
    /\ Acquire(t)
    /\ UNCHANGED <<sessionVars, callVars, numberVars, slotVars, wireVars, outcome>>

\* cmd_lock is taken, the session is gone: nothing is sent.
Refuse(t) ==
    /\ ~Usable
    /\ Goto(t, "called", "idle")
    /\ cmdLock = NoThread
    /\ command' = [command EXCEPT ![t] = 0]
    /\ outcome' = [outcome EXCEPT ![t] = [status |-> "no_device", cmd |-> 0,
                                          verb |-> verb[t], reply |-> NoReply]]
    /\ UNCHANGED <<sessionVars, cmdLock, callVars, seqNext, issued, numberOf,
                   start, slotVars, wireVars>>

\* Mutant: the number wraps to 0, among the key bytes.
SuccessorUnwrapped(n) == IF n + 1 = NumberLimit THEN 0 ELSE n + 1
Successor(n) == IF n + 1 = NumberLimit THEN FirstNumber ELSE n + 1

\* The number is taken and the reply slot claimed, before anything is sent.
Claim(t) ==
    /\ Goto(t, "begun", "claimed")
    /\ issued' = issued + 1
    /\ command' = [command EXCEPT ![t] = issued']
    /\ seqPending' = IF verb[t] = "version" THEN 0 ELSE seqNext
    /\ seqNext' = IF verb[t] = "version" THEN seqNext ELSE Successor(seqNext)
    /\ numberOf' = [numberOf EXCEPT ![issued'] = seqPending']
    /\ replyValid' = FALSE
    /\ cmdWaiting' = wait[t]
    /\ cmdVerb' = verb[t]
    /\ UNCHANGED <<sessionVars, cmdLock, callVars, start, reply, wireVars, outcome>>

Line(t) == [cmd |-> command[t], verb |-> verb[t], seq |-> numberOf[command[t]]]

\* op_write succeeds and the caller wants the reply.
Write(t) ==
    /\ wait[t]
    /\ Goto(t, "claimed", "written")
    /\ toDev' = Append(toDev, Line(t))
    /\ UNCHANGED <<sessionVars, cmdLock, callVars, numberVars, slotVars, fromDev,
                   outcome>>

\* op_write succeeds and nobody waits: the slot is given up at once.
WriteNowait(t) ==
    /\ ~wait[t]
    /\ Goto(t, "claimed", "idle")
    /\ Release(t)
    /\ toDev' = Append(toDev, Line(t))
    /\ GiveUpSlot
    /\ Return(t, "sent", NoReply)
    /\ UNCHANGED <<sessionVars, callVars, numberVars, replyValid, seqPending,
                   cmdVerb, reply, fromDev>>

\* op_write fails; the cable may have received the line all the same.  Mutant:
\* the error path returns with cmd_lock taken.
WriteFailsLocked(t) ==
    /\ Goto(t, "claimed", "idle")
    /\ toDev' \in {toDev, Append(toDev, Line(t))}
    /\ GiveUpSlot
    /\ Return(t, "write_error", NoReply)
    /\ UNCHANGED <<sessionVars, cmdLock, callVars, numberVars, replyValid,
                   seqPending, cmdVerb, reply, fromDev>>

WriteFails(t) ==
    /\ Goto(t, "claimed", "idle")
    /\ Release(t)
    /\ toDev' \in {toDev, Append(toDev, Line(t))}
    /\ GiveUpSlot
    /\ Return(t, "write_error", NoReply)
    /\ UNCHANGED <<sessionVars, callVars, numberVars, replyValid, seqPending,
                   cmdVerb, reply, fromDev>>

\* The wait ends and the transaction with it.
Finish(t) ==
    /\ Goto(t, "written", "idle")
    /\ Release(t)
    /\ GiveUpSlot
    /\ UNCHANGED <<sessionVars, callVars, numberVars, seqPending, cmdVerb, reply,
                   wireVars>>

TakeReply(t) ==
    /\ replyValid
    /\ Finish(t)
    /\ replyValid' = FALSE
    /\ Return(t, "ok", reply)

\* The session was closed or lost.  Mutant: the reply is not looked at first.
WakeGoneFirst(t) ==
    /\ ~Usable
    /\ Finish(t)
    /\ Return(t, "no_device", NoReply)
    /\ UNCHANGED replyValid

WakeGone(t) ==
    /\ ~replyValid /\ ~Usable
    /\ Finish(t)
    /\ Return(t, "no_device", NoReply)
    /\ UNCHANGED replyValid

\* The deadline passes: the timed wait may end at any moment.
TimeOut(t) ==
    /\ ~replyValid /\ Usable
    /\ Finish(t)
    /\ Return(t, "timeout", NoReply)
    /\ UNCHANGED replyValid
-----------------------------------------------------------------------------
\* The cable.  It answers the commands in order and echoes the number, except
\* in a version reply and in the init replies it does not number; a line it
\* cannot parse is refused without a number.
AnswersTo(m) ==
    LET r(kind, seq) == [cmd |-> m.cmd, kind |-> kind, seq |-> seq]
        initKind == IF m.verb = "fastInit" THEN "ary" ELSE "arw"
        initSeq == IF m.verb \in UnnumberedInits THEN 0 ELSE m.seq
    IN  CASE m.verb = "version" -> {r("info", 0), r("answer", 0)}
          [] m.verb = "plain" -> {r("answer", m.seq), r("answer", 0)}
          [] OTHER -> {r("answer", m.seq), r(initKind, initSeq)}

DeviceAnswer ==
    /\ toDev # <<>>
    /\ toDev' = Tail(toDev)
    /\ \E r \in AnswersTo(Head(toDev)) : fromDev' = Append(fromDev, r)
    /\ UNCHANGED <<sessionVars, cmdLock, pc, callVars, numberVars, slotVars, outcome>>

\* The command is swallowed as another one's payload, or its reply is lost.
DeviceSwallow ==
    /\ toDev # <<>>
    /\ toDev' = Tail(toDev)
    /\ UNCHANGED <<sessionVars, cmdLock, pc, callVars, numberVars, slotVars,
                   fromDev, outcome>>
-----------------------------------------------------------------------------
\* stash_reply's early returns, in the code's order.
NobodyWaits == ~cmdWaiting
InitForAnother(r) == r.kind \in InitKinds /\ cmdVerb \notin InitVerbs

\* Mutants: the number is not compared; a reply without one passes.
AnyNumber(r) == FALSE
NoNumberPasses(r) ==
    /\ seqPending # 0 /\ r.kind \notin InitKinds
    /\ r.kind = "info" \/ r.seq \notin {0, seqPending}
NumberMismatch(r) ==
    /\ seqPending # 0 /\ r.kind \notin InitKinds
    /\ r.kind = "info" \/ r.seq # seqPending

Discarded(r) == NobodyWaits \/ InitForAnother(r) \/ NumberMismatch(r)

\* An init reply with another command's number: its data are dropped after
\* d->reply has been overwritten, and reply_valid keeps its value.
StaleInitKept(r) == FALSE     \* mutant: the number is not compared
StaleInit(r) ==
    /\ r.kind \in InitKinds
    /\ seqPending # 0 /\ r.seq # 0 /\ r.seq # seqPending

\* The reader thread parses the next reply and offers it to the slot.
StashReply ==
    /\ reader = "running" /\ fromDev # <<>>
    /\ fromDev' = Tail(fromDev)
    /\ LET r == Head(fromDev)
       IN  /\ reply' = IF Discarded(r) THEN reply ELSE r
           /\ replyValid' = (replyValid \/ ~(Discarded(r) \/ StaleInit(r)))
    /\ UNCHANGED <<sessionVars, cmdLock, pc, callVars, numberVars, cmdWaiting,
                   seqPending, cmdVerb, toDev, outcome>>

\* The transport reports the cable gone, or fails fifty reads in a row.
ReaderLost ==
    /\ reader = "running"
    /\ reader' = "exited"
    /\ lost' = TRUE
    /\ UNCHANGED <<open, transportUp, cmdLock, pc, callVars, numberVars, slotVars,
                   wireVars, outcome>>
-----------------------------------------------------------------------------
\* op_device_close, up to the wake-up of the waiting threads.
CloseBegin(t) ==
    /\ open
    /\ Goto(t, "idle", "closing")
    /\ open' = FALSE
    /\ UNCHANGED <<lost, transportUp, reader, cmdLock, callVars, numberVars,
                   slotVars, wireVars, outcome>>

\* Mutant: the teardown does not wait for the command under way.
TearDownAtOnce == TRUE
MayTearDown == cmdLock = NoThread

\* The rest of it, under cmd_lock: the reader is stopped and joined and the
\* transport closed.
CloseEnd(t) ==
    /\ MayTearDown
    /\ Goto(t, "closing", "idle")
    /\ reader' = "joined"
    /\ transportUp' = FALSE
    /\ UNCHANGED <<open, lost, cmdLock, callVars, numberVars, slotVars, wireVars,
                   outcome>>

\* Every call has been made and has returned.
Done ==
    /\ calls = MaxCalls /\ \A t \in Threads : pc[t] = "idle"
    /\ UNCHANGED vars
-----------------------------------------------------------------------------
\* What a thread does once it has made a call, and the calls themselves.
Step(t) ==
    \/ Begin(t) \/ Refuse(t) \/ Claim(t)
    \/ Write(t) \/ WriteNowait(t) \/ WriteFails(t)
    \/ TakeReply(t) \/ WakeGone(t) \/ TimeOut(t)
    \/ CloseEnd(t)

Next ==
    \/ \E t \in Threads : \/ \E v \in Verbs, w \in BOOLEAN : Call(t, v, w)
                          \/ CloseBegin(t)
                          \/ Step(t)
    \/ DeviceAnswer \/ DeviceSwallow
    \/ StashReply \/ ReaderLost
    \/ Done

\* Scheduling: a thread inside the library keeps running.  Its waits are
\* timed and op_write has a time limit, so a step is always taken in the end.
\* Nothing is assumed of the cable or of the reader thread.
Fairness == \A t \in Threads : WF_vars(Step(t))

Spec == Init /\ [][Next]_vars /\ Fairness
-----------------------------------------------------------------------------
\* A result is the caller's own: the reply that op_device_cmd hands out was
\* given to that very command, whatever timed out before it and whatever an
\* earlier session left in the pipe (op_device.c:288-297).
OwnReply ==
    \A t \in Threads :
        (outcome[t].status = "ok" /\ outcome[t].verb = "plain")
            => outcome[t].reply.cmd = outcome[t].cmd

\* The same for a K-line init, when the cable numbers its init replies: a
\* five-baud or fast init reports this ECU's answer, not an earlier one.
OwnInitReply ==
    \A t \in Threads :
        (outcome[t].status = "ok" /\ outcome[t].verb \in InitVerbs)
            => outcome[t].reply.cmd = outcome[t].cmd

\* A late ary or arw never answers a command that came later, not even
\* another init (NEWS.md:27).
NoLateInit ==
    \A t \in Threads :
        (outcome[t].status = "ok" /\ outcome[t].reply.kind \in InitKinds)
            => outcome[t].reply.cmd = outcome[t].cmd

\* The slot is claimed only while its owner is inside a transaction: no reply
\* is kept for a command that has already returned (op_device.c:298).
SlotOwned ==
    cmdWaiting => /\ cmdLock # NoThread
                  /\ pc[cmdLock] \in {"claimed", "written"}
                  /\ seqPending = numberOf[command[cmdLock]]

\* The transport is never closed under a command that is writing to it or
\* waiting, nor the reader joined; and a command that takes cmd_lock after the
\* teardown never comes to writing (op_device.c:594-596, NEWS.md:25).
TransportOutlivesCommands ==
    \A t \in Threads : pc[t] \in {"begun", "claimed", "written"} =>
                          transportUp /\ reader # "joined"

\* A reply that was accepted before the session went away is still handed
\* out: closing or losing the cable does not turn a success into a failure.
AcceptedReplyIsReturned ==
    [][\A t \in Threads : (pc[t] = "written" /\ replyValid /\ pc'[t] = "idle")
                            => outcome'[t].status = "ok"]_vars

\* Nothing blocks forever: every call returns, whatever the cable does, the
\* reader's death included (API.md:19).
CallsReturn ==
    \A t \in Threads : pc[t] \in {"called", "closing"} ~> pc[t] = "idle"

\* What the callers see of a thread and of its last result.  A plain command's
\* result counts as its own when its reply is; the service says nothing of the
\* replies of the other verbs.
Phase == [t \in Threads |->
            CASE pc[t] \in {"idle", "closing"} -> "idle"
              [] pc[t] = "called" -> "waiting"
              [] OTHER -> "serving"]

Visible == [t \in Threads |->
              [status |-> outcome[t].status,
               own |-> (outcome[t].status = "ok" /\ outcome[t].verb = "plain")
                          => outcome[t].reply.cmd = outcome[t].cmd]]

\* The transactions implement the service of CommandService: one command at a
\* time, each result its own, no teardown under a command, and every command
\* returns.
Service == INSTANCE CommandService WITH
    phase <- Phase, server <- cmdLock, usable <- open /\ ~lost,
    retired <- ~transportUp, outcome <- Visible

ImplementsService == Service!Spec
=============================================================================
