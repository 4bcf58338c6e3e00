-------------------------- MODULE SessionLifecycle --------------------------
(***************************************************************************)
(* Opening, losing, closing and reopening the device: op_device_open,      *)
(* op_device_close, the life of the reader thread and the transport        *)
(* (op_device.c), under PassThruOpen and PassThruClose (op_j2534.c).       *)
(*                                                                         *)
(* op_device_open takes no lock until it publishes the session with        *)
(* open = 1; op_device_close clears `open` under `lock` and tears down     *)
(* under cmd_lock.  d->t, d->reader and reader_stop are shared by all of   *)
(* them.  A command is reduced here to what it needs of the session: the   *)
(* check under cmd_lock and the use of the transport while it is held.     *)
(*                                                                         *)
(* A handle is one successful opening of the cable.  The cable is          *)
(* exclusive (libusb_claim_interface, TIOCEXCL): while one handle holds    *)
(* it, opening another fails.  A cable that is unplugged leaves its handle *)
(* dead, and the same cable plugged in again can be opened anew.           *)
(***************************************************************************)
EXTENDS Integers, FiniteSets

CONSTANTS
    Threads,     \* the application's threads
    Owners,      \* those that open and close the device
    NoThread,    \* cmd_lock's holder when it is free
    MaxHandles,  \* bound: successful openings
    MaxCalls,    \* bound: commands
    MaxUnplugs   \* bound: times the cable is unplugged

ASSUME SessionAssumption ==
    /\ Owners \subseteq Threads /\ IsFiniteSet(Threads)
    /\ NoThread \notin Threads
    /\ MaxHandles \in Nat /\ MaxCalls \in Nat /\ MaxUnplugs \in Nat

Handles == 1 .. MaxHandles
None == 0      \* d->t with no operations, d->reader before the first session

VARIABLES
    open, lost, readerStop, readerStarted,
    transport,   \* the handle in d->t
    joined,      \* the reader in d->reader; readers are numbered as created
    held,        \* the handles that hold the cable
    dead,        \* the handles whose cable was unplugged, not yet closed
    readers,     \* the reader threads that run
    cmdLock, pc,
    goal,        \* what each thread's transaction is for
    after,       \* where op_device_close returns to
    spawned,     \* reader threads created
    raced,       \* history: an open overlapped another open or a close
    handles, calls, unplugs   \* counts, against the bounds

flags == <<open, lost, readerStop, readerStarted>>
cable == <<transport, held, dead>>
counts == <<spawned, handles, calls, unplugs, raced>>
vars == <<flags, joined, cable, readers, cmdLock, pc, goal, after, counts>>

PCs == {"idle", "opening", "clearing", "claiming", "spawning", "publishing",
        "greeting", "waiting", "inside", "shutting", "draining", "joining",
        "closing"}

TypeOK ==
    /\ open \in BOOLEAN /\ lost \in BOOLEAN
    /\ readerStop \in BOOLEAN /\ readerStarted \in BOOLEAN
    /\ transport \in {None} \cup Handles /\ joined \in {None} \cup Handles
    /\ held \subseteq Handles /\ dead \subseteq Handles /\ readers \subseteq Handles
    /\ cmdLock \in Threads \cup {NoThread}
    /\ pc \in [Threads -> PCs]
    /\ goal \in [Threads -> {"command", "atz", "ata", "ati", "reset"}]
    /\ after \in [Threads -> {"idle", "opening"}]
    /\ spawned \in 0 .. handles
    /\ handles \in 0 .. MaxHandles /\ calls \in 0 .. MaxCalls
    /\ unplugs \in 0 .. MaxUnplugs /\ raced \in BOOLEAN

Init ==
    /\ open = FALSE /\ lost = FALSE /\ readerStop = FALSE /\ readerStarted = FALSE
    /\ transport = None /\ joined = None
    /\ held = {} /\ dead = {} /\ readers = {}
    /\ cmdLock = NoThread
    /\ pc = [t \in Threads |-> "idle"]
    /\ goal = [t \in Threads |-> "command"]
    /\ after = [t \in Threads |-> "idle"]
    /\ spawned = 0 /\ handles = 0 /\ calls = 0 /\ unplugs = 0 /\ raced = FALSE

Goto(t, from, to) == pc[t] = from /\ pc' = [pc EXCEPT ![t] = to]
-----------------------------------------------------------------------------
\* A thread is inside PassThruOpen or PassThruClose; inside the latter.
Busy(t) ==
    /\ pc[t] # "idle"
    /\ pc[t] \in {"waiting", "inside"} => goal[t] # "command"

Closing(t) ==
    /\ goal[t] = "reset"
    /\ \/ pc[t] \in {"waiting", "inside"}
       \/ pc[t] \in {"shutting", "draining", "joining", "closing"} /\ after[t] = "idle"

\* PassThruOpen, up to op_device_open: a live session is left alone, a lost
\* one is closed first.
PassThruOpen(t) ==
    /\ handles < MaxHandles
    /\ \/ ~open /\ Goto(t, "idle", "opening") /\ UNCHANGED after
       \/ /\ open /\ lost
          /\ Goto(t, "idle", "shutting")
          /\ after' = [after EXCEPT ![t] = "opening"]
    /\ raced' = (raced \/ \E u \in Threads \ {t} : Busy(u))
    /\ UNCHANGED <<flags, joined, cable, readers, cmdLock, goal, spawned, handles,
                   calls, unplugs>>

\* op_device_open finds a session already there: it returns success and
\* PassThruOpen goes on with its version command.
OpenFound(t) ==
    /\ open
    /\ Goto(t, "opening", "waiting")
    /\ goal' = [goal EXCEPT ![t] = "ati"]
    /\ UNCHANGED <<flags, joined, cable, readers, cmdLock, after, counts>>

\* Mutant: the stop flag of the last session stays up.
ClearLostOnly == lost' = FALSE /\ UNCHANGED readerStop
ClearFlags == lost' = FALSE /\ readerStop' = FALSE

\* The session's fields start over, without a lock.
OpenReset(t) ==
    /\ ~open
    /\ Goto(t, "opening", "clearing")
    /\ ClearFlags
    /\ UNCHANGED <<open, readerStarted, joined, cable, readers, cmdLock, goal,
                   after, counts>>

\* The transport's opening begins by emptying d->t.
FactoryClear(t) ==
    /\ Goto(t, "clearing", "claiming")
    /\ transport' = None
    /\ UNCHANGED <<flags, joined, held, dead, readers, cmdLock, goal, after, counts>>

FactoryClaims(t) ==
    /\ held = {} /\ handles < MaxHandles
    /\ Goto(t, "claiming", "spawning")
    /\ handles' = handles + 1
    /\ transport' = handles'
    /\ held' = {handles'}
    /\ UNCHANGED <<flags, joined, dead, readers, cmdLock, goal, after, spawned, calls,
                   unplugs, raced>>

\* The cable is absent, in use or refuses.
FactoryFails(t) ==
    /\ Goto(t, "claiming", "idle")
    /\ UNCHANGED <<flags, joined, cable, readers, cmdLock, goal, after, counts>>

\* pthread_create.  The thread reads from d->t.
SpawnReader(t) ==
    /\ Goto(t, "spawning", "publishing")
    /\ spawned' = spawned + 1
    /\ readers' = readers \cup {spawned'}
    /\ joined' = spawned'
    /\ readerStarted' = TRUE
    /\ UNCHANGED <<open, lost, readerStop, cable, cmdLock, goal, after, handles, calls,
                   unplugs, raced>>

\* pthread_create fails: the transport is closed again.  Mutant: it is not.
SpawnFailsOpen(t) ==
    /\ Goto(t, "spawning", "idle")
    /\ UNCHANGED <<flags, joined, cable, readers, cmdLock, goal, after, counts>>

SpawnFails(t) ==
    /\ Goto(t, "spawning", "idle")
    /\ held' = held \ {transport} /\ dead' = dead \ {transport}
    /\ transport' = None
    /\ UNCHANGED <<flags, joined, readers, cmdLock, goal, after, counts>>

\* open = 1, and sync_device starts with a write that takes no lock.
Publish(t) ==
    /\ Goto(t, "publishing", "greeting")
    /\ open' = TRUE
    /\ UNCHANGED <<lost, readerStop, readerStarted, joined, cable, readers, cmdLock,
                   goal, after, counts>>

\* The write returns; sync_device sends its first command or, when the cable
\* takes no bytes, gives up.
Greet(t) ==
    /\ \/ /\ Goto(t, "greeting", "waiting")
          /\ goal' = [goal EXCEPT ![t] = "atz"]
          /\ UNCHANGED after
       \/ /\ Goto(t, "greeting", "shutting")
          /\ after' = [after EXCEPT ![t] = "idle"]
          /\ UNCHANGED goal
    /\ UNCHANGED <<flags, joined, cable, readers, cmdLock, counts>>
-----------------------------------------------------------------------------
\* A command, on any thread.
Command(t) ==
    /\ open /\ calls < MaxCalls
    /\ Goto(t, "idle", "waiting")
    /\ goal' = [goal EXCEPT ![t] = "command"]
    /\ calls' = calls + 1
    /\ UNCHANGED <<flags, joined, cable, readers, cmdLock, after, spawned, handles,
                   unplugs, raced>>

\* PassThruClose starts with the reset command.
PassThruClose(t) ==
    /\ open
    /\ Goto(t, "idle", "waiting")
    /\ goal' = [goal EXCEPT ![t] = "reset"]
    /\ raced' = (raced \/ \E u \in Threads \ {t} : Busy(u) /\ ~Closing(u))
    /\ UNCHANGED <<flags, joined, cable, readers, cmdLock, after, spawned, handles,
                   calls, unplugs>>

\* cmd_lock is taken and the session checked.
Usable == open /\ ~lost

Enter(t) ==
    /\ cmdLock = NoThread /\ Usable
    /\ Goto(t, "waiting", "inside")
    /\ cmdLock' = t
    /\ UNCHANGED <<flags, joined, cable, readers, goal, after, counts>>

\* What follows a command.  An opening sends atz, ata and ati and closes the
\* session when one fails (sync_device's repeated atz is one command here);
\* PassThruClose closes it either way.
After(g, ok) ==
    CASE g = "command" -> "idle"
      [] g = "atz" /\ ok -> "ata"
      [] g = "ata" /\ ok -> "ati"
      [] g = "ati" /\ ok -> "idle"
      [] OTHER -> "shutting"

Resume(t, from, ok) ==
    /\ LET next == After(goal[t], ok)
       IN  IF next \in {"ata", "ati"}
           THEN Goto(t, from, "waiting") /\ goal' = [goal EXCEPT ![t] = next]
           ELSE Goto(t, from, next) /\ UNCHANGED goal
    /\ after' = [after EXCEPT ![t] = "idle"]

\* The command returns, with or without a reply.
Leave(t) ==
    /\ cmdLock = t
    /\ \E ok \in BOOLEAN : Resume(t, "inside", ok)
    /\ cmdLock' = NoThread
    /\ UNCHANGED <<flags, joined, cable, readers, counts>>

Refuse(t) ==
    /\ cmdLock = NoThread /\ ~Usable
    /\ Resume(t, "waiting", FALSE)
    /\ UNCHANGED <<flags, joined, cable, readers, cmdLock, counts>>
-----------------------------------------------------------------------------
\* op_device_close: `open` is cleared and the waiting threads are woken ...
CloseBegin(t) ==
    /\ open
    /\ Goto(t, "shutting", "draining")
    /\ open' = FALSE
    /\ UNCHANGED <<lost, readerStop, readerStarted, joined, cable, readers, cmdLock,
                   goal, after, counts>>

\* ... unless another close did that already.
CloseSecond(t) ==
    /\ ~open
    /\ Goto(t, "shutting", after[t])
    /\ UNCHANGED <<flags, joined, cable, readers, cmdLock, goal, after, counts>>

\* The command under way has returned; the reader is told to stop.
\* Mutants: the close does not wait; the reader is not told.
DrainAtOnce == TRUE
Drained == cmdLock = NoThread

TellNobody == UNCHANGED readerStop
TellReader == readerStop' = TRUE

StopReader(t) ==
    /\ Drained
    /\ Goto(t, "draining", "joining")
    /\ cmdLock' = t
    /\ TellReader
    /\ UNCHANGED <<open, lost, readerStarted, joined, cable, readers, goal, after,
                   counts>>

\* Mutant: the reader is not waited for.
ReaderIgnored == TRUE
ReaderJoined == ~readerStarted \/ joined \notin readers

JoinReader(t) ==
    /\ ReaderJoined
    /\ Goto(t, "joining", "closing")
    /\ readerStarted' = FALSE
    /\ UNCHANGED <<open, lost, readerStop, joined, cable, readers, cmdLock, goal,
                   after, counts>>

\* op_close: the handle in d->t releases the cable.
ReleaseCable == held' = held \ {transport} /\ dead' = dead \ {transport}

CloseTransport(t) ==
    /\ Goto(t, "closing", after[t])
    /\ ReleaseCable
    /\ transport' = None
    /\ cmdLock' = NoThread
    /\ UNCHANGED <<flags, joined, readers, goal, after, counts>>
-----------------------------------------------------------------------------
\* reader_main notices the stop flag: it looks every 10 ms.
ReaderStops(h) ==
    /\ h \in readers /\ readerStop
    /\ readers' = readers \ {h}
    /\ UNCHANGED <<flags, joined, cable, cmdLock, pc, goal, after, counts>>

\* What it does when it gives the cable up.
LoseSession(h) ==
    /\ h \in readers
    /\ readers' = readers \ {h}
    /\ lost' = TRUE
    /\ UNCHANGED <<open, readerStop, readerStarted, joined, cable, cmdLock, pc, goal,
                   after, counts>>

\* Its reads say that the cable is gone, or fail for want of a transport; it
\* reads from whatever d->t holds.  Mutant: failed reads are tried for ever.
ReadsNeverFail == FALSE
ReadsFail == transport \notin held

ReaderLoses(h) == ReadsFail /\ LoseSession(h)

\* Fifty reads in a row fail although the handle still holds the cable: a dead
\* pty or a stalled pipe.
ReaderGivesUp(h) == transport \in held /\ LoseSession(h)

\* The cable is unplugged, and plugged in again for the next opening.
Unplug ==
    /\ held # {} /\ unplugs < MaxUnplugs
    /\ dead' = dead \cup held
    /\ held' = {}
    /\ unplugs' = unplugs + 1
    /\ UNCHANGED <<flags, joined, transport, readers, cmdLock, pc, goal, after,
                   spawned, handles, calls, raced>>

\* The application is between calls for good.
Done ==
    /\ handles = MaxHandles /\ ~open
    /\ \A t \in Threads : pc[t] = "idle"
    /\ UNCHANGED vars
-----------------------------------------------------------------------------
Step(t) ==
    \/ OpenFound(t) \/ OpenReset(t) \/ FactoryClear(t) \/ FactoryClaims(t)
    \/ FactoryFails(t) \/ SpawnReader(t) \/ SpawnFails(t) \/ Publish(t) \/ Greet(t)
    \/ Enter(t) \/ Leave(t) \/ Refuse(t)
    \/ CloseBegin(t) \/ CloseSecond(t) \/ StopReader(t) \/ JoinReader(t)
    \/ CloseTransport(t)

Next ==
    \/ \E t \in Owners : PassThruOpen(t) \/ PassThruClose(t)
    \/ \E t \in Threads : Command(t) \/ Step(t)
    \/ \E h \in Handles : ReaderStops(h) \/ ReaderLoses(h) \/ ReaderGivesUp(h)
    \/ Unplug
    \/ Done

\* A thread inside the library keeps running: its waits and writes have time
\* limits, and cmd_lock is free for good between the finitely many commands.
\* The reader's loop turns every 10 ms.  Nothing is owed by a pipe that stalls.
Fairness ==
    /\ \A t \in Threads : WF_vars(Step(t))
    /\ \A h \in Handles : WF_vars(ReaderStops(h) \/ ReaderLoses(h))

Spec == Init /\ [][Next]_vars /\ Fairness
-----------------------------------------------------------------------------
\* A command that holds cmd_lock finishes before the transport goes away; one
\* that takes it afterwards sends nothing (op_device.c:594-596).
CommandKeepsTransport ==
    \A t \in Threads : pc[t] = "inside" => transport # None

\* What follows holds as long as no open overlaps another open or a close: the
\* lifecycle takes no lock against that.  Two closes may overlap, and commands
\* may overlap all of it.
Orderly == ~raced

\* The same of such an application.
OrderlyCommandKeepsTransport == Orderly => CommandKeepsTransport

\* Neither does the first write of sync_device, which takes no lock, meet a
\* transport closed under it, and a reader thread runs, alone, only while its
\* session's transport is there: it is joined before op_close frees what it
\* reads from.
ReaderHasTransport ==
    Orderly =>
        /\ readers # {} => transport # None /\ readers = {spawned}
        /\ (\E t \in Threads : pc[t] = "greeting") => transport # None

\* Every handle that still holds the cable, or a dead one's resources, is the
\* one in d->t, and none outlives its session: a handle that is lost keeps the
\* cable in use until the process ends.
NoHandleLeaks ==
    /\ TypeOK
    /\ Orderly =>
        /\ held \cup dead \subseteq {transport}
        /\ (~open /\ \A t \in Threads : pc[t] = "idle") => held \cup dead = {}

\* A session that is open between calls has a transport, and a reader unless
\* the cable was lost: the next command can be answered.
OpenIsServed ==
    (Orderly /\ open /\ ~lost /\ \A t \in Threads : pc[t] = "idle")
        => transport # None /\ readers # {}

\* A loss is seen: once the cable of an open session is unplugged, the session
\* is marked lost or closed, so that no later call waits for it
\* (op_device.h:58-61).
LossIsNoticed == (open /\ transport \in dead) ~> (lost \/ ~open \/ raced)

\* Nothing blocks forever: every open, close and command returns.
CallsReturn == \A t \in Threads : pc[t] # "idle" ~> (pc[t] = "idle" \/ raced)
=============================================================================
