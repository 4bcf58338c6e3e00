---------------------------- MODULE RxQueueProofs ----------------------------
(***************************************************************************)
(* Proofs about RxQueue, for any number of threads, any buffer, any sizes  *)
(* of messages and any number of arrivals and calls: what a call reports   *)
(* of refused messages, that no reader sleeps on a queue with work, that   *)
(* the ring holds whole messages, and that it is the queue RxFifo states.  *)
(***************************************************************************)
EXTENDS RxQueue, FiniteSetTheorems, SequenceTheorems, TLAPS

Calls == [at : {"idle", "popping", "asleep", "counting"},
          want : Nat, timed : BOOLEAN, late : BOOLEAN, got : Nat,
          result : {"none", "ok", "closed", "overflow", "empty", "timeout"}]

(***************************************************************************)
(* Every refused arrival has a number of its own, so adding one to the set *)
(* adds one to its cardinality: that is what DroppedCounted needs to be    *)
(* inductive.                                                              *)
(***************************************************************************)
CountInv ==
    /\ arrivals \in Nat
    /\ unreported \subseteq 1 .. arrivals
    /\ DroppedCounted

\* A sleeper can be told from a reader that is awake only if each thread has
\* a call.
SleepInv ==
    /\ call \in [Threads -> Calls]
    /\ NobodySleepsOnWork

Inv == CountInv /\ SleepInv

(***************************************************************************)
(* Lemmas.                                                                 *)
(***************************************************************************)
\* The refused messages nobody was told of are a finite set; it is empty when
\* `dropped` is 0.
LEMMA UnreportedFinite ==
    ASSUME CountInv
    PROVE  /\ IsFiniteSet(unreported)
           /\ dropped \in Nat
           /\ dropped = 0 <=> unreported = {}
<1>1. unreported \in SUBSET (1 .. arrivals) /\ arrivals \in Int
  BY DEF CountInv
<1>2. IsFiniteSet(unreported)
  <2>1. IsFiniteSet(1 .. arrivals)
    BY <1>1, FS_Interval
  <2> QED
    BY <1>1, <2>1, FS_Subset
<1>3. dropped = Cardinality(unreported) /\ Cardinality(unreported) \in Nat
  BY <1>2, FS_CardinalityType DEF CountInv, DroppedCounted
<1>4. Cardinality(unreported) = 0 <=> unreported = {}
  BY <1>2, FS_EmptySet
<1> QED
  BY <1>2, <1>3, <1>4

\* A broadcast leaves nobody asleep and ends no call.
LEMMA BroadcastWakes ==
    ASSUME call \in [Threads -> Calls], Broadcasts
    PROVE  /\ call' \in [Threads -> Calls]
           /\ \A t \in Threads : call'[t].at # "asleep"
           /\ \A t \in Threads : call'[t].at = "idle" => call[t].at = "idle"
BY DEF Broadcasts, Broadcast, Calls

\* The code of a call is never "closed", and it is "overflow" as soon as a
\* message was refused.
LEMMA CodeType ==
    ASSUME NEW c, NEW n \in Nat
    PROVE  /\ Code(c, n) \in {"ok", "overflow", "empty", "timeout"}
           /\ n # 0 => Code(c, n) = "overflow"
BY DEF Code

\* A call that took one more message.
LEMMA CountedType ==
    ASSUME NEW c \in Calls, NEW s \in {"counting", "popping"}
    PROVE  /\ [c EXCEPT !.got = c.got + 1, !.at = s] \in Calls
           /\ [c EXCEPT !.got = c.got + 1, !.at = s].at = s
<1>1. c.got + 1 \in Nat
  BY DEF Calls
<1>2. PICK n \in Nat : n = c.got + 1
  BY <1>1
<1>3. [c EXCEPT !.got = n, !.at = s] \in Calls
  BY DEF Calls
<1>4. [c EXCEPT !.got = n, !.at = s].at = s
  BY DEF Calls
<1> QED
  BY <1>2, <1>3, <1>4

\* A call that ends leaves its thread idle and disturbs no other.
LEMMA ReturnType ==
    ASSUME NEW t \in Threads, call \in [Threads -> Calls],
           NEW code \in {"none", "ok", "closed", "overflow", "empty", "timeout"},
           Return(t, code)
    PROVE  /\ call' \in [Threads -> Calls]
           /\ call'[t].at = "idle" /\ call'[t].result = code
           /\ \A u \in Threads \ {t} : call'[u] = call[u]
BY DEF Return, Calls, Idle

\* Emptying the queue forgets the refused messages and their count together.
LEMMA FlushCounts ==
    ASSUME CountInv, FlushLocked, UNCHANGED arrivals
    PROVE  CountInv' /\ qcount' = 0
BY FS_EmptySet DEF CountInv, DroppedCounted, FlushLocked

(***************************************************************************)
(* The count of refused messages.                                          *)
(***************************************************************************)
LEMMA InitCount == Init => CountInv
BY FS_EmptySet DEF Init, CountInv, DroppedCounted

\* A step that touches neither the count nor the set it stands for.
LEMMA CountUnchanged ==
    ASSUME CountInv, UNCHANGED <<dropped, unreported, arrivals>>
    PROVE  CountInv'
BY DEF CountInv, DroppedCounted

LEMMA QueuePushCounts ==
    ASSUME CountInv, QueuePush
    PROVE  CountInv'
<1>1. arrivals' = arrivals + 1 /\ arrivals \in Nat /\ unreported \subseteq 1 .. arrivals
  BY DEF QueuePush, CountInv
<1>2. CASE UNCHANGED <<dropped, unreported>>
  BY <1>1, <1>2 DEF CountInv, DroppedCounted
<1>3. CASE /\ dropped' = dropped + 1
           /\ unreported' = unreported \cup {arrivals'}
  <2>1. arrivals' \notin unreported
    BY <1>1
  <2>2. Cardinality(unreported') = Cardinality(unreported) + 1
    BY <1>3, <2>1, UnreportedFinite, FS_AddElement
  <2> QED
    BY <1>1, <1>3, <2>2 DEF CountInv, DroppedCounted
<1> QED
  BY <1>2, <1>3 DEF QueuePush

LEMMA TakeDroppedCounts ==
    ASSUME CountInv, NEW t \in Threads, TakeDropped(t)
    PROVE  CountInv'
<1>1. CASE isOpen
  BY <1>1, FS_EmptySet DEF TakeDropped, CountInv, DroppedCounted
<1>2. CASE ~isOpen
  BY <1>2 DEF TakeDropped, CountInv, DroppedCounted
<1> QED
  BY <1>1, <1>2

LEMMA NextCounts ==
    ASSUME CountInv, [Next]_vars
    PROVE  CountInv'
<1>1. CASE QueuePush
  BY <1>1, QueuePushCounts
<1>2. CASE ClearRxBuffer \/ OpenChannel \/ CloseChannel
  BY <1>2, FlushCounts DEF ClearRxBuffer, OpenChannel, CloseChannel, Reset
<1>3. CASE OpenDevice
  BY <1>3, FlushCounts DEF OpenDevice
<1>4. CASE Lose \/ CloseDevice \/ JoinReader
  BY <1>4, CountUnchanged DEF Lose, CloseDevice, JoinReader
<1>5. CASE \E t \in Threads : ReadMsgs(t) \/ TimesUp(t) \/ Read(t)
  <2>1. PICK t \in Threads : ReadMsgs(t) \/ TimesUp(t) \/ Read(t)
    BY <1>5
  <2>2. CASE TakeDropped(t)
    BY <2>2, TakeDroppedCounts
  <2>3. CASE ReadMsgs(t) \/ TimesUp(t) \/ Sleep(t) \/ PopMessage(t)
             \/ PopNothing(t) \/ PopClosed(t)
    BY <2>3, CountUnchanged
    DEF ReadMsgs, TimesUp, Sleep, PopMessage, PopNothing, PopClosed
  <2> QED
    BY <2>1, <2>2, <2>3 DEF Read
<1>6. CASE UNCHANGED vars
  BY <1>6, CountUnchanged DEF vars
<1> QED
  BY <1>1, <1>2, <1>3, <1>4, <1>5, <1>6 DEF Next

(***************************************************************************)
(* The sleepers.                                                           *)
(***************************************************************************)
LEMMA InitSleeps == Init => SleepInv
BY DEF Init, SleepInv, NobodySleepsOnWork, Calls, Idle

\* A step that wakes everybody.
LEMMA WakingSleeps ==
    ASSUME SleepInv, Broadcasts
    PROVE  SleepInv'
BY BroadcastWakes DEF SleepInv, NobodySleepsOnWork

\* A step after which the device is open and the queue empty, and which
\* leaves the calls alone.
LEMMA EmptySleeps ==
    ASSUME SleepInv, UNCHANGED call, (qcount = 0 /\ isOpen /\ ~lost)'
    PROVE  SleepInv'
BY DEF SleepInv, NobodySleepsOnWork, MustWait

\* A step that empties the queue of a channel.
LEMMA ResetSleeps ==
    ASSUME SleepInv, Reset
    PROVE  SleepInv'
<1>1. UNCHANGED <<call, session, lost>> /\ qcount' = 0
  BY DEF Reset, FlushLocked, sessionVars
<1>2. MustWait => MustWait'
  BY <1>1 DEF MustWait, isOpen
<1> QED
  BY <1>1, <1>2 DEF SleepInv, NobodySleepsOnWork

\* A step of one thread that does not fall asleep, while nothing a sleeper
\* waits for changes.
LEMMA AwakeSleeps ==
    ASSUME SleepInv, NEW t \in Threads, call' \in [Threads -> Calls],
           call'[t].at # "asleep",
           \A u \in Threads \ {t} : call'[u] = call[u],
           UNCHANGED <<qcount, session, lost>>
    PROVE  SleepInv'
BY DEF SleepInv, NobodySleepsOnWork, MustWait, isOpen

LEMMA ReadSleeps ==
    ASSUME SleepInv, NEW t \in Threads, ReadMsgs(t) \/ TimesUp(t) \/ Read(t),
           CountInv, QueueAssumption
    PROVE  SleepInv'
<1>0. call \in [Threads -> Calls]
  BY DEF SleepInv
<1>1. CASE ReadMsgs(t)
  <2>1. PICK n \in Wants, b \in BOOLEAN :
           call' = [call EXCEPT ![t] = [Idle EXCEPT !.at = "popping", !.want = n,
                                                    !.timed = b, !.late = ~b]]
    BY <1>1 DEF ReadMsgs
  <2>2. n \in Nat
    BY QueueAssumption DEF QueueAssumption
  <2>3. /\ call' \in [Threads -> Calls]
        /\ call'[t].at = "popping"
        /\ \A u \in Threads \ {t} : call'[u] = call[u]
    BY <1>0, <2>1, <2>2 DEF Calls, Idle
  <2> QED
    BY <1>1, <2>3, AwakeSleeps DEF ReadMsgs, ring, sessionVars
<1>2. CASE TimesUp(t)
  <2>1. PICK c \in Calls : c = call[t]
    BY <1>0
  <2>2. call' = [call EXCEPT ![t] = [c EXCEPT !.at = "popping", !.late = TRUE]]
    BY <1>0, <1>2, <2>1 DEF TimesUp
  <2>3. /\ call' \in [Threads -> Calls]
        /\ call'[t].at = "popping"
        /\ \A u \in Threads \ {t} : call'[u] = call[u]
    BY <1>0, <2>2 DEF Calls
  <2> QED
    BY <1>2, <2>3, AwakeSleeps DEF TimesUp, ring, sessionVars
<1>3. CASE Sleep(t)
  BY <1>0, <1>3
  DEF Sleep, SleepInv, NobodySleepsOnWork, Calls, MustWait, isOpen, ring, sessionVars
<1>4. CASE PopMessage(t)
  \* Nobody slept: the queue held a message.
  <2>1. \A u \in Threads : call[u].at # "asleep"
    BY <1>4 DEF PopMessage, SleepInv, NobodySleepsOnWork, MustWait
  <2>2. PICK s \in {"counting", "popping"} :
           call' = [call EXCEPT ![t].got = call[t].got + 1, ![t].at = s]
    <3> DEFINE s == IF call[t].got + 1 >= call[t].want THEN "counting" ELSE "popping"
    <3>1. call' = [call EXCEPT ![t].got = call[t].got + 1, ![t].at = s]
      BY <1>4 DEF PopMessage
    <3>2. s \in {"counting", "popping"}
      OBVIOUS
    <3> HIDE DEF s
    <3> QED
      BY <3>1, <3>2
  <2>3. /\ call' \in [Threads -> Calls]
        /\ \A u \in Threads : call'[u].at # "asleep"
    <3> DEFINE c == [call[t] EXCEPT !.got = call[t].got + 1, !.at = s]
    <3>1. call' = [call EXCEPT ![t] = c]
      BY <1>0, <2>2
    <3>2. c \in Calls /\ c.at = s
      BY <1>0, CountedType
    <3> HIDE DEF c
    <3> QED
      BY <1>0, <2>1, <3>1, <3>2
  <2> QED
    BY <2>3 DEF SleepInv, NobodySleepsOnWork
<1>5. CASE PopNothing(t)
  <2>1. /\ call' \in [Threads -> Calls]
        /\ call'[t].at = "counting"
        /\ \A u \in Threads \ {t} : call'[u] = call[u]
    BY <1>0, <1>5 DEF PopNothing, Calls
  <2> QED
    BY <1>5, <2>1, AwakeSleeps DEF PopNothing, ring, sessionVars
<1>6. CASE PopClosed(t)
  BY <1>0, <1>6, ReturnType, AwakeSleeps DEF PopClosed, ring, sessionVars
<1>7. CASE TakeDropped(t)
  <2>1. PICK n \in Nat : Return(t, Code(call[t], n))
    BY <1>7, UnreportedFinite DEF TakeDropped
  <2>2. Code(call[t], n) \in {"ok", "overflow", "empty", "timeout"}
    BY CodeType
  <2> QED
    BY <1>0, <1>7, <2>1, <2>2, ReturnType, AwakeSleeps DEF TakeDropped, ring, sessionVars
<1> QED
  BY <1>1, <1>2, <1>3, <1>4, <1>5, <1>6, <1>7 DEF Read

LEMMA NextSleeps ==
    ASSUME Inv, [Next]_vars
    PROVE  SleepInv'
<1> USE DEF Inv
<1>1. CASE QueuePush \/ Lose \/ CloseDevice
  BY <1>1, WakingSleeps DEF QueuePush, Lose, CloseDevice
<1>2. CASE ClearRxBuffer \/ OpenChannel \/ CloseChannel
  BY <1>2, ResetSleeps DEF ClearRxBuffer, OpenChannel, CloseChannel
<1>3. CASE OpenDevice
  BY <1>3, EmptySleeps DEF OpenDevice, FlushLocked, isOpen
<1>4. CASE JoinReader
  BY <1>4 DEF JoinReader, SleepInv, NobodySleepsOnWork, MustWait, isOpen
<1>5. CASE \E t \in Threads : ReadMsgs(t) \/ TimesUp(t) \/ Read(t)
  BY <1>5, ReadSleeps, QueueAssumption
<1>6. CASE UNCHANGED vars
  BY <1>6 DEF vars, ring, sessionVars, SleepInv, NobodySleepsOnWork, MustWait, isOpen
<1> QED
  BY <1>1, <1>2, <1>3, <1>4, <1>5, <1>6 DEF Next

(***************************************************************************)
(* Theorems.                                                               *)
(***************************************************************************)
\* The invariant that carries the three theorems below.
THEOREM Invariance == Spec => []Inv
<1>1. Init => Inv
  BY InitCount, InitSleeps DEF Inv
<1>2. Inv /\ [Next]_vars => Inv'
  BY NextCounts, NextSleeps DEF Inv
<1> QED
  BY <1>1, <1>2, PTL DEF Spec

\* op_device_take_dropped: the count a reader is told is the number of
\* messages queue_push refused since the last report or flush.
THEOREM CountIsExact == Spec => []DroppedCounted
<1>1. Inv => DroppedCounted
  BY DEF Inv, CountInv
<1> QED
  BY <1>1, Invariance, PTL

\* op_device_pop: a thread in pthread_cond_timedwait is on an empty queue of
\* an open device, so no wakeup was lost.
THEOREM NoWakeupLost == Spec => []NobodySleepsOnWork
<1>1. Inv => NobodySleepsOnWork
  BY DEF Inv, SleepInv
<1> QED
  BY <1>1, Invariance, PTL

\* PassThruReadMsgs: a call that returns from an open device while messages
\* were refused says ERR_BUFFER_OVERFLOW or fails.
THEOREM HolesAreMarked == Spec => HoleIsMarked
<1> DEFINE Marked ==
      \A t \in Threads :
         isOpen /\ ReturnsWithout(t, {"overflow", "closed"}) => unreported = {}
<1>1. Inv /\ [Next]_vars => [Marked]_vars
  <2> SUFFICES ASSUME Inv, Next, NEW t \in Threads, isOpen,
                      ReturnsWithout(t, {"overflow", "closed"})
               PROVE  unreported = {}
    OBVIOUS
  <2>1. call \in [Threads -> Calls] /\ dropped \in Nat
    BY UnreportedFinite DEF Inv, SleepInv
  <2>2. ~Broadcasts /\ call' # call
    BY <2>1, BroadcastWakes DEF ReturnsWithout
  <2>3. PICK u \in Threads : ReadMsgs(u) \/ TimesUp(u) \/ Read(u)
    BY <2>2 DEF Next, QueuePush, Lose, ClearRxBuffer, OpenChannel, CloseChannel,
                Reset, CloseDevice, JoinReader, OpenDevice
  <2>4. ~(ReadMsgs(u) \/ TimesUp(u) \/ Sleep(u) \/ PopMessage(u) \/ PopNothing(u))
    <3> SUFFICES ASSUME ReadMsgs(u) \/ TimesUp(u) \/ Sleep(u) \/ PopMessage(u) \/ PopNothing(u)
                 PROVE  FALSE
      OBVIOUS
    <3>1. call'[u].at # "idle" /\ \A v \in Threads \ {u} : call'[v] = call[v]
      <4>1. CASE ReadMsgs(u)
        <5>1. PICK n \in Wants, b \in BOOLEAN :
                 call' = [call EXCEPT ![u] = [Idle EXCEPT !.at = "popping", !.want = n,
                                                          !.timed = b, !.late = ~b]]
          BY <4>1 DEF ReadMsgs
        <5>2. PICK c : c = [Idle EXCEPT !.at = "popping", !.want = n, !.timed = b, !.late = ~b]
          OBVIOUS
        <5>3. c.at = "popping" BY <5>2 DEF Idle
        <5>4. call' = [call EXCEPT ![u] = c] BY <5>1, <5>2
        <5> QED BY <2>1, <5>3, <5>4
      <4>2. CASE TimesUp(u) BY <2>1, <4>2 DEF TimesUp, Calls
      <4>3. CASE Sleep(u) BY <2>1, <4>3 DEF Sleep, Calls
      <4>4. CASE PopMessage(u) BY <2>1, <4>4 DEF PopMessage, Calls
      <4>5. CASE PopNothing(u) BY <2>1, <4>5 DEF PopNothing, Calls
      <4> QED BY <4>1, <4>2, <4>3, <4>4, <4>5
    <3> QED BY <3>1 DEF ReturnsWithout
  <2>5. ~PopClosed(u)
    BY <2>1, ReturnType DEF PopClosed, ReturnsWithout
  <2>6. CASE TakeDropped(u)
    <3>1. Return(u, Code(call[u], dropped))
      BY <2>6 DEF TakeDropped
    <3>2. u = t /\ Code(call[u], dropped) # "overflow"
      BY <2>1, <3>1, ReturnType, CodeType DEF ReturnsWithout
    <3> QED
      BY <2>1, <3>2, CodeType, UnreportedFinite DEF Inv
  <2> QED
    BY <2>3, <2>4, <2>5, <2>6 DEF Read
<1> QED
  BY <1>1, Invariance, PTL DEF Spec, HoleIsMarked

(***************************************************************************)
(* The ring.  Its bytes are told by their distance from head: a message    *)
(* lies at distances that do not wrap, whatever positions they are at.     *)
(***************************************************************************)
Distance(h, p) == Wrap(p + RxqBytes - h)

\* The length of the message whose header is at p.
Length(b, p) == HeaderBytes + b[p].of.size

\* The message m lies at p.
Lies(b, p, m) ==
    /\ HeaderBytes + m.size <= RxqBytes
    /\ \A k \in 1 .. HeaderBytes + m.size : b[Wrap(p + k - 1)] = [of |-> m, at |-> k]

\* The messages put at `starts` lie one behind the other from head to tail,
\* none over another, in the order they arrived.
PlacesInv ==
    /\ head \in Positions /\ used \in 0 .. RxqBytes /\ tail = Wrap(head + used)
    /\ starts \in Seq(Positions) /\ qcount = Len(starts)
    /\ qcount = 0 => used = 0
    /\ qcount # 0 => starts[1] = head

OrderInv ==
    \A n \in 1 .. qcount :
       /\ Distance(head, starts[n]) + Length(mem, starts[n]) <= used
       /\ n = qcount => Distance(head, starts[n]) + Length(mem, starts[n]) = used
       /\ n # qcount => Distance(head, starts[n]) + Length(mem, starts[n]) = Distance(head, starts[n + 1])
       /\ \A m \in 1 .. n - 1 :
             /\ Distance(head, starts[m]) + Length(mem, starts[m]) <= Distance(head, starts[n])
             /\ mem[starts[m]].of.id < mem[starts[n]].of.id

LiesInv ==
    \A n \in 1 .. qcount :
       /\ mem[starts[n]].of \in Messages /\ mem[starts[n]].of.id <= arrivals
       /\ Lies(mem, starts[n], mem[starts[n]].of)

MemInv ==
    /\ mem \in [Positions -> [of : Messages \cup {Blank}, at : Nat]]
    /\ taken \in Messages \cup {Blank, Garbled}
    /\ arrivals \in 0 .. MaxArrivals
    /\ session \in {"open", "closing", "closed"}
    /\ lost \in BOOLEAN /\ chOpen \in BOOLEAN /\ rq \in BOOLEAN

RingInv == MemInv /\ PlacesInv /\ OrderInv /\ LiesInv

\* A sequence is the function of its elements.
LEMMA Elements ==
    ASSUME NEW S, NEW s \in Seq(S)
    PROVE  s = [n \in 1 .. Len(s) |-> s[n]]
<1>1. s \in [1 .. Len(s) -> S] BY LenProperties
<1> QED BY <1>1

\* The messages waiting, as their headers say.
Lying == [n \in 1 .. qcount |-> mem[starts[n]].of]

\* Positions, wrapped, and how far they are apart.
LEMMA Wrapping ==
    ASSUME NEW h \in Positions, NEW d \in 0 .. RxqBytes
    PROVE  /\ Wrap(h + d) \in Positions
           /\ \A p \in Positions : /\ Wrap(p + RxqBytes - h) \in Positions
                                   /\ Wrap(h + Wrap(p + RxqBytes - h)) = p
           /\ d # RxqBytes => Wrap(Wrap(h + d) + RxqBytes - h) = d
           /\ \A e \in 0 .. RxqBytes - d : Wrap(Wrap(h + d) + e) = Wrap(h + d + e)
BY QueueAssumption DEF Wrap, Positions

\* From a later head the distances that are not passed are that much shorter.
LEMMA Shorter ==
    ASSUME NEW h \in Positions, NEW p \in Positions, NEW d \in 0 .. RxqBytes,
           d <= Wrap(p + RxqBytes - h)
    PROVE  Wrap(p + RxqBytes - Wrap(h + d)) = Wrap(p + RxqBytes - h) - d
BY QueueAssumption DEF Wrap, Positions

\* What is nearer to the head than the tail is not among the next bytes put.
LEMMA Apart ==
    ASSUME NEW h \in Positions, NEW u \in 0 .. RxqBytes, NEW n \in 0 .. RxqBytes - u,
           NEW i \in Positions, Wrap(i + RxqBytes - h) < u
    PROVE  Wrap(i + RxqBytes - Wrap(h + u)) >= n /\ Wrap(i + RxqBytes - Wrap(h + u)) \in Nat
BY QueueAssumption DEF Wrap, Positions

\* The k-th byte of a message that lies at p.
LEMMA ByteAt ==
    ASSUME NEW h \in Positions, NEW p \in Positions, NEW k \in Nat,
           Wrap(p + RxqBytes - h) + k < RxqBytes
    PROVE  /\ Wrap(p + k) \in Positions
           /\ Wrap(Wrap(p + k) + RxqBytes - h) = Wrap(p + RxqBytes - h) + k
BY QueueAssumption DEF Wrap, Positions

LEMMA Sizes0 ==
    /\ RxqBytes \in Nat /\ HeaderBytes \in Nat \ {0} /\ HeaderBytes <= RxqBytes
    /\ 0 \in Positions /\ Positions \subseteq Nat
    /\ \A m \in Messages : m.size \in Nat /\ m.id \in Nat \ {0}
<1>1. /\ RxqBytes \in Nat /\ HeaderBytes \in Nat \ {0} /\ HeaderBytes <= RxqBytes
      /\ Sizes \subseteq Nat /\ MaxArrivals \in Nat
  BY QueueAssumption
<1>2. 0 \in Positions /\ Positions \subseteq Nat BY <1>1 DEF Positions
<1>3. \A m \in Messages : m.size \in Nat /\ m.id \in Nat \ {0}
  <2>1. \A m \in Messages : m.size \in Sizes /\ m.id \in 1 .. MaxArrivals
    BY DEF Messages, Arrivals
  <2> TAKE m \in Messages
  <2>2. m.size \in Nat BY <1>1, <2>1
  <2>3. m.id \in Nat \ {0} BY <1>1, <2>1
  <2> QED BY <2>2, <2>3
<1> QED BY <1>1, <1>2, <1>3

\* A message that lies at p is what ring_get takes from there.
LEMMA ReadsWhatLies ==
    ASSUME NEW p \in Positions, MemInv, mem[p].of \in Messages, Lies(mem, p, mem[p].of)
    PROVE  /\ MessageAt(p) = mem[p].of
           /\ LengthAt(p) = Length(mem, p)
           /\ Length(mem, p) = HeaderBytes + mem[p].of.size
           /\ Length(mem, p) \in 1 .. RxqBytes
<1> DEFINE m == mem[p].of
<1>1. m.size \in Nat /\ HeaderBytes + m.size \in Nat /\ HeaderBytes \in Nat \ {0} /\ RxqBytes \in Nat
  BY Sizes0
<1>2. Bytes(p, HeaderBytes + m.size) = Encoded(m)
  BY <1>1 DEF Bytes, Encoded, Lies
<1>3. MessageAt(p) = m BY <1>2 DEF MessageAt
<1>4. Length(mem, p) = HeaderBytes + m.size /\ LengthAt(p) = Length(mem, p) BY DEF Length, LengthAt
<1>5. HeaderBytes + m.size <= RxqBytes BY DEF Lies
<1>6. Length(mem, p) \in 1 .. RxqBytes BY <1>1, <1>4, <1>5
<1> QED BY <1>3, <1>4, <1>6

\* Of each message waiting: where it lies and how long it is.
LEMMA Waiting ==
    ASSUME RingInv, NEW n \in 1 .. qcount
    PROVE  /\ starts[n] \in Positions /\ mem[starts[n]].of \in Messages
           /\ Lies(mem, starts[n], mem[starts[n]].of)
           /\ MessageAt(starts[n]) = mem[starts[n]].of
           /\ LengthAt(starts[n]) = Length(mem, starts[n])
           /\ Length(mem, starts[n]) = HeaderBytes + mem[starts[n]].of.size
           /\ Length(mem, starts[n]) \in 1 .. RxqBytes
           /\ Distance(head, starts[n]) \in Positions
           /\ starts[n] \in Nat /\ Distance(head, starts[n]) \in Nat /\ Length(mem, starts[n]) \in Nat \ {0}
<1>1. starts[n] \in Positions BY ElementOfSeq DEF RingInv, PlacesInv
<1>2. mem[starts[n]].of \in Messages /\ Lies(mem, starts[n], mem[starts[n]].of)
  BY DEF RingInv, LiesInv
<1>3. Distance(head, starts[n]) \in Positions
  BY <1>1, Wrapping, Sizes0 DEF RingInv, PlacesInv, Distance
<1>4. starts[n] \in Nat /\ Distance(head, starts[n]) \in Nat BY <1>1, <1>3, Sizes0
<1>5. Length(mem, starts[n]) \in 1 .. RxqBytes BY <1>1, <1>2, ReadsWhatLies DEF RingInv
<1>6. Length(mem, starts[n]) \in Nat \ {0} BY <1>5, Sizes0
<1> QED BY <1>1, <1>2, <1>3, <1>4, <1>6, ReadsWhatLies DEF RingInv

(***************************************************************************)
(* A message put behind the last one.                                      *)
(***************************************************************************)
LEMMA PutKeepsRing ==
    ASSUME RingInv, NEW m \in Messages, Fits(m), RingPut(m), arrivals' = m.id, arrivals < m.id,
           MemInv'
    PROVE  RingInv' /\ Lying' = Append(Lying, m)
<1> DEFINE len == HeaderBytes + m.size
           last == qcount + 1
<1>1. /\ head \in Positions /\ used \in 0 .. RxqBytes /\ tail = Wrap(head + used)
      /\ starts \in Seq(Positions) /\ qcount = Len(starts) /\ qcount \in Nat
  BY LenProperties DEF RingInv, PlacesInv
<1>2. /\ len \in 1 .. RxqBytes /\ used + len <= RxqBytes /\ len \in 0 .. RxqBytes - used
      /\ used + len \in 0 .. RxqBytes /\ RxqBytes \in Nat /\ used \in Nat
  <2>1. /\ m.size \in Nat /\ HeaderBytes \in Nat \ {0} /\ RxqBytes \in Nat
        /\ used \in Nat /\ used <= RxqBytes
    BY <1>1, Sizes0
  <2>2. len \in Nat /\ 1 <= len BY <2>1
  <2>3. used + len <= RxqBytes BY <2>1 DEF Fits
  <2> HIDE DEF len
  <2> QED BY <2>1, <2>2, <2>3
<1>3. Len(Encoded(m)) = len /\ \A k \in 1 .. len : Encoded(m)[k] = [of |-> m, at |-> k]
  <2>1. len \in Nat BY <1>2
  <2>2. Encoded(m) = [k \in 1 .. len |-> [of |-> m, at |-> k]] BY DEF Encoded
  <2> HIDE DEF len
  <2> QED BY <2>1, <2>2
<1>4. /\ head' = head /\ used' = used + len /\ tail' = Wrap(tail + len)
      /\ qcount' = qcount + 1 /\ starts' = Append(starts, tail)
      /\ mem' = [i \in Positions |-> LET k == Wrap(i + RxqBytes - tail) IN
                                    IF k < len THEN Encoded(m)[k + 1] ELSE mem[i]]
  BY <1>3 DEF RingPut
<1> HIDE DEF len
<1>5. tail \in Positions BY <1>1, Wrapping
<1>6. /\ starts' \in Seq(Positions) /\ Len(starts') = last /\ starts'[last] = tail
      /\ \A n \in 1 .. qcount : starts'[n] = starts[n]
  BY <1>1, <1>4, <1>5, AppendProperties
\* The bytes of the new message are its own, the others' are not touched.
<1>7. \A i \in Positions : Distance(head, i) < used => mem'[i] = mem[i]
  <2> SUFFICES ASSUME NEW i \in Positions, Distance(head, i) < used PROVE mem'[i] = mem[i]
    OBVIOUS
  <2>1. Wrap(i + RxqBytes - tail) >= len /\ Wrap(i + RxqBytes - tail) \in Nat
    BY <1>1, <1>2, Apart DEF Distance
  <2> QED BY <1>2, <1>4, <2>1
<1>8. \A k \in 1 .. len : mem'[Wrap(tail + k - 1)] = [of |-> m, at |-> k]
  <2> SUFFICES ASSUME NEW k \in 1 .. len
               PROVE  mem'[Wrap(tail + k - 1)] = [of |-> m, at |-> k]
    OBVIOUS
  <2>1. k - 1 \in 0 .. RxqBytes /\ k - 1 # RxqBytes /\ tail + (k - 1) = tail + k - 1
        /\ (k - 1) + 1 = k /\ k - 1 < len
    BY <1>2, <1>5, Sizes0
  <2>2. /\ Wrap(tail + (k - 1)) \in Positions
        /\ Wrap(Wrap(tail + (k - 1)) + RxqBytes - tail) = k - 1
    BY <1>5, <2>1, Wrapping
  <2> QED BY <1>3, <1>4, <2>1, <2>2
<1>9. ASSUME NEW n \in 1 .. qcount
      PROVE  /\ starts'[n] = starts[n] /\ mem'[starts[n]] = mem[starts[n]]
             /\ Length(mem', starts[n]) = Length(mem, starts[n])
             /\ Distance(head', starts[n]) = Distance(head, starts[n])
             /\ Lies(mem', starts[n], mem[starts[n]].of)
  <2> DEFINE p == starts[n]
             r == mem[p].of
  <2>1. /\ p \in Positions /\ r \in Messages /\ Lies(mem, p, r) /\ Length(mem, p) = HeaderBytes + r.size
        /\ p \in Nat /\ Length(mem, p) \in Nat \ {0} /\ Distance(head, p) \in Nat
    BY Waiting
  <2>2. Distance(head, p) + Length(mem, p) <= used BY DEF RingInv, OrderInv
  <2>3. starts'[n] = p BY <1>6
  <2> HIDE DEF p, r
  <2>4. ASSUME NEW k \in 1 .. Length(mem, p)
        PROVE  mem'[Wrap(p + k - 1)] = mem[Wrap(p + k - 1)]
    <3>1. k - 1 \in Nat /\ Distance(head, p) + (k - 1) < used /\ Distance(head, p) + (k - 1) < RxqBytes
          /\ p + (k - 1) = p + k - 1
      BY <1>2, <2>1, <2>2
    <3>2. /\ Wrap(p + (k - 1)) \in Positions
          /\ Distance(head, Wrap(p + (k - 1))) = Distance(head, p) + (k - 1)
      BY <1>1, <2>1, <3>1, ByteAt DEF Distance
    <3> QED BY <1>7, <3>1, <3>2
  <2>5. mem'[p] = mem[p]
    <3>1. Distance(head, p) < used BY <1>2, <2>1, <2>2
    <3> QED BY <1>7, <2>1, <3>1
  <2>6. Lies(mem', p, r)
    <3>2. \A k \in 1 .. HeaderBytes + r.size : mem'[Wrap(p + k - 1)] = [of |-> r, at |-> k]
      BY <2>1, <2>4 DEF Lies
    <3> QED BY <2>1, <3>2 DEF Lies
  <2>7. Length(mem', p) = Length(mem, p) /\ Distance(head', p) = Distance(head, p)
    BY <1>4, <2>5 DEF Length, Distance
  <2> QED BY <2>3, <2>5, <2>6, <2>7 DEF p, r
<1>10. /\ mem'[tail].of = m /\ Length(mem', tail) = len /\ Lies(mem', tail, m)
  <2>1. 1 \in 1 .. len /\ Wrap(tail + 1 - 1) = tail BY <1>2, <1>5, Sizes0 DEF Wrap, Positions
  <2>2. mem'[tail] = [of |-> m, at |-> 1] BY <1>8, <2>1
  <2>3. mem'[tail].of = m BY <2>2
  <2>4. Length(mem', tail) = len BY <2>3 DEF Length, len
  <2>5. Lies(mem', tail, m) BY <1>2, <1>8 DEF Lies, len
  <2> QED BY <2>3, <2>4, <2>5
<1>11. used < RxqBytes /\ Distance(head', tail) = used
  <2>1. used < RxqBytes BY <1>2
  <2> QED BY <1>1, <1>4, <2>1, Wrapping DEF Distance
<1>12. PlacesInv'
  <2>1. Wrap(tail + len) = Wrap(head + (used + len))
    <3>1. head + used + len = head + (used + len) BY <1>1, <1>2, Sizes0
    <3> QED BY <1>1, <1>2, <3>1, Wrapping
  <2>2. starts'[1] = head
    <3>1. CASE qcount = 0
      <4>1. used = 0 BY <3>1 DEF RingInv, PlacesInv
      <4>2. tail = head BY <1>1, <4>1, Sizes0 DEF Wrap, Positions
      <4> QED BY <1>6, <3>1, <4>2
    <3>2. CASE qcount # 0
      <4>1. 1 \in 1 .. qcount /\ starts[1] = head BY <1>1, <3>2 DEF RingInv, PlacesInv
      <4> QED BY <1>6, <4>1
    <3> QED BY <3>1, <3>2
  <2>3. qcount' # 0 /\ qcount' = Len(starts') BY <1>1, <1>4, <1>6
  <2> QED BY <1>1, <1>2, <1>4, <1>6, <2>1, <2>2, <2>3 DEF PlacesInv
<1>13. LiesInv'
  <2> SUFFICES ASSUME NEW n \in 1 .. last
               PROVE  /\ mem'[starts'[n]].of \in Messages /\ mem'[starts'[n]].of.id <= arrivals'
                      /\ Lies(mem', starts'[n], mem'[starts'[n]].of)
    BY <1>4 DEF LiesInv
  <2>1. CASE n = last
    <3>1. m.id \in Nat BY Sizes0
    <3> QED BY <1>6, <1>10, <2>1, <3>1
  <2>2. CASE n # last
    <3>1. n \in 1 .. qcount BY <1>1, <2>2
    <3>2. mem[starts[n]].of \in Messages /\ mem[starts[n]].of.id <= arrivals
      BY <3>1 DEF RingInv, LiesInv
    <3>3. mem[starts[n]].of.id \in Nat /\ m.id \in Nat /\ arrivals \in Nat
      BY <3>2, Sizes0, QueueAssumption DEF RingInv, MemInv
    <3>4. mem[starts[n]].of.id <= arrivals' BY <3>2, <3>3
    <3> QED BY <1>9, <3>1, <3>2, <3>4
  <2> QED BY <2>1, <2>2
<1>14. OrderInv'
  <2> SUFFICES ASSUME NEW n \in 1 .. last
               PROVE  /\ Distance(head', starts'[n]) + Length(mem', starts'[n]) <= used'
                      /\ n = last => Distance(head', starts'[n]) + Length(mem', starts'[n]) = used'
                      /\ n # last => Distance(head', starts'[n]) + Length(mem', starts'[n])
                                      = Distance(head', starts'[n + 1])
                      /\ \A i \in 1 .. n - 1 :
                            /\ Distance(head', starts'[i]) + Length(mem', starts'[i]) <= Distance(head', starts'[n])
                            /\ mem'[starts'[i]].of.id < mem'[starts'[n]].of.id
    BY <1>4 DEF OrderInv
  <2>1. \A i \in 1 .. qcount :
           /\ Distance(head', starts'[i]) = Distance(head, starts[i]) /\ Length(mem', starts'[i]) = Length(mem, starts[i])
           /\ mem'[starts'[i]].of = mem[starts[i]].of
           /\ Distance(head, starts[i]) + Length(mem, starts[i]) <= used
           /\ Distance(head, starts[i]) \in Nat /\ Length(mem, starts[i]) \in Nat
    <3> TAKE i \in 1 .. qcount
    <3>1. Distance(head, starts[i]) \in Nat /\ Length(mem, starts[i]) \in Nat BY Waiting
    <3>2. Distance(head, starts[i]) + Length(mem, starts[i]) <= used BY DEF RingInv, OrderInv
    <3>3. starts'[i] = starts[i] /\ mem'[starts[i]] = mem[starts[i]] BY <1>9
    <3>4. /\ Length(mem', starts[i]) = Length(mem, starts[i])
          /\ Distance(head', starts[i]) = Distance(head, starts[i])
      BY <1>9
    <3> QED BY <3>1, <3>2, <3>3, <3>4
  <2>2. /\ Distance(head', starts'[last]) = used /\ Length(mem', starts'[last]) = len
        /\ mem'[starts'[last]].of = m
    BY <1>6, <1>10, <1>11 DEF Distance, Length
  <2>3. CASE n = last
    <3>1. \A i \in 1 .. n - 1 : i \in 1 .. qcount BY <1>1, <2>3
    <3>2. \A i \in 1 .. n - 1 : mem[starts[i]].of.id < m.id
      <4> TAKE i \in 1 .. n - 1
      <4>1. i \in 1 .. qcount BY <3>1
      <4>2. mem[starts[i]].of \in Messages /\ mem[starts[i]].of.id <= arrivals
        BY <4>1 DEF RingInv, LiesInv
      <4>3. mem[starts[i]].of.id \in Nat /\ m.id \in Nat /\ arrivals \in Nat
        BY <4>2, Sizes0, QueueAssumption DEF RingInv, MemInv
      <4> QED BY <4>2, <4>3
    <3>3. \A i \in 1 .. n - 1 :
            /\ Distance(head', starts'[i]) + Length(mem', starts'[i]) <= Distance(head', starts'[n])
            /\ mem'[starts'[i]].of.id < mem'[starts'[n]].of.id
      BY <2>1, <2>2, <2>3, <3>1, <3>2
    <3>4. Distance(head', starts'[n]) + Length(mem', starts'[n]) = used' BY <1>4, <2>2, <2>3
    <3>5. used' <= used' BY <1>2, <1>4
    <3> QED BY <2>3, <3>3, <3>4, <3>5
  <2>4. CASE n # last
    <3>1. n \in 1 .. qcount /\ \A i \in 1 .. n - 1 : i \in 1 .. qcount BY <1>1, <2>4
    <3>2. Distance(head', starts'[n]) + Length(mem', starts'[n]) <= used'
      <4>1. used \in Nat /\ len \in Nat /\ used' = used + len BY <1>2, <1>4
      <4> QED BY <2>1, <3>1, <4>1
    <3>3. Distance(head', starts'[n]) + Length(mem', starts'[n]) = Distance(head', starts'[n + 1])
      <4>1. CASE n = qcount
        <5>1. Distance(head, starts[n]) + Length(mem, starts[n]) = used
          BY <3>1, <4>1 DEF RingInv, OrderInv
        <5> QED BY <2>1, <2>2, <3>1, <4>1, <5>1
      <4>2. CASE n # qcount
        <5>1. n + 1 \in 1 .. qcount BY <1>1, <3>1, <4>2
        <5>2. Distance(head, starts[n]) + Length(mem, starts[n]) = Distance(head, starts[n + 1])
          BY <3>1, <4>2 DEF RingInv, OrderInv
        <5> QED BY <2>1, <3>1, <5>1, <5>2
      <4> QED BY <4>1, <4>2
    <3>4. ASSUME NEW i \in 1 .. n - 1
          PROVE  /\ Distance(head', starts'[i]) + Length(mem', starts'[i]) <= Distance(head', starts'[n])
                 /\ mem'[starts'[i]].of.id < mem'[starts'[n]].of.id
      <4>1. /\ Distance(head, starts[i]) + Length(mem, starts[i]) <= Distance(head, starts[n])
            /\ mem[starts[i]].of.id < mem[starts[n]].of.id
        BY <3>1 DEF RingInv, OrderInv
      <4> QED BY <2>1, <3>1, <4>1
    <3> QED BY <2>4, <3>2, <3>3, <3>4
  <2> QED BY <2>3, <2>4
<1>15. Lying' = Append(Lying, m)
  <2>1. Lying' = [n \in 1 .. last |-> mem'[starts'[n]].of] BY <1>4 DEF Lying
  <2>2. \A n \in 1 .. qcount : mem'[starts'[n]].of = mem[starts[n]].of BY <1>9
  <2>3. mem'[starts'[last]].of = m BY <1>6, <1>10
  <2>4. Lying \in Seq(Messages) /\ Len(Lying) = qcount
    BY <1>1 DEF Lying, RingInv, LiesInv
  <2>5. /\ Append(Lying, m) \in Seq(Messages) /\ Len(Append(Lying, m)) = last
        /\ Append(Lying, m)[last] = m /\ \A n \in 1 .. qcount : Append(Lying, m)[n] = Lying[n]
    BY <2>4, AppendProperties
  <2>6. \A n \in 1 .. last : n = last \/ n \in 1 .. qcount BY <1>1
  <2>7. \A n \in 1 .. qcount : Lying[n] = mem[starts[n]].of BY DEF Lying
  <2>8. Append(Lying, m) = [n \in 1 .. last |-> Append(Lying, m)[n]] BY <2>5, Elements
  <2>9. \A n \in 1 .. last : mem'[starts'[n]].of = Append(Lying, m)[n]
    BY <2>2, <2>3, <2>5, <2>6, <2>7
  <2> QED BY <2>1, <2>8, <2>9
<1> QED BY <1>12, <1>13, <1>14, <1>15 DEF RingInv

(***************************************************************************)
(* The first message taken out, and the ring emptied.                      *)
(***************************************************************************)
TakesFirst ==
    /\ qcount > 0
    /\ head' = Wrap(head + LengthAt(head)) /\ used' = used - LengthAt(head)
    /\ qcount' = qcount - 1 /\ starts' = Tail(starts)
    /\ UNCHANGED <<mem, tail, arrivals>>

LEMMA TakeKeepsRing ==
    ASSUME RingInv, TakesFirst, MemInv'
    PROVE  /\ RingInv' /\ Lying' = Tail(Lying)
           /\ Lying # <<>> /\ MessageAt(head) = Head(Lying) /\ MessageAt(head) \in Messages
<1> DEFINE l == Length(mem, head)
<1>1. /\ head \in Positions /\ used \in 0 .. RxqBytes /\ tail = Wrap(head + used)
      /\ starts \in Seq(Positions) /\ qcount = Len(starts) /\ qcount \in Nat \ {0}
      /\ starts[1] = head /\ 1 \in 1 .. qcount
  BY LenProperties DEF RingInv, PlacesInv, TakesFirst
<1>2. l \in 1 .. RxqBytes /\ l \in Nat \ {0} /\ l \in 0 .. RxqBytes /\ LengthAt(head) = l
  <2>1. l \in 1 .. RxqBytes /\ LengthAt(head) = l /\ l \in Nat \ {0} BY <1>1, Waiting
  <2> QED BY <2>1, Sizes0
<1> HIDE DEF l
<1>3. head \in Nat /\ used \in Nat /\ RxqBytes \in Nat BY <1>1, Sizes0
<1>4. Distance(head, head) = 0 BY <1>1, Sizes0 DEF Distance, Wrap, Positions
<1>5. l <= used /\ (qcount = 1 => l = used)
  <2>1. Distance(head, head) + l <= used /\ (qcount = 1 => Distance(head, head) + l = used)
    BY <1>1 DEF RingInv, OrderInv, l
  <2> QED BY <1>2, <1>4, <2>1
<1>6. head' = Wrap(head + l) /\ head' \in Positions /\ used' = used - l /\ used' \in 0 .. RxqBytes
  BY <1>1, <1>2, <1>3, <1>5, Wrapping DEF TakesFirst
<1>7. /\ starts' \in Seq(Positions) /\ Len(starts') = qcount' /\ qcount' \in Nat
      /\ \A n \in 1 .. qcount' : n + 1 \in 1 .. qcount /\ n + 1 # 1 /\ starts'[n] = starts[n + 1]
  <2>1. starts # <<>> BY <1>1
  <2>2. /\ starts' \in Seq(Positions) /\ Len(starts') = Len(starts) - 1
        /\ \A n \in 1 .. Len(starts') : starts'[n] = starts[n + 1]
    BY <1>1, <2>1, HeadTailProperties DEF TakesFirst
  <2> QED BY <1>1, <2>2 DEF TakesFirst
<1>t. tail' = tail /\ mem' = mem /\ arrivals' = arrivals /\ qcount' = qcount - 1 BY DEF TakesFirst
<1>8. ASSUME NEW n \in 1 .. qcount'
      PROVE  /\ Distance(head, starts'[n]) \in Nat /\ Length(mem, starts'[n]) \in Nat
             /\ Distance(head', starts'[n]) = Distance(head, starts'[n]) - l
  <2>1. n + 1 \in 1 .. qcount /\ starts'[n] = starts[n + 1] /\ 1 \in 1 .. (n + 1) - 1
    BY <1>7
  <2>2. /\ starts[n + 1] \in Positions /\ Distance(head, starts[n + 1]) \in Nat
        /\ Length(mem, starts[n + 1]) \in Nat
    BY <2>1, Waiting
  <2>3. Distance(head, head) + l <= Distance(head, starts[n + 1])
    BY <1>1, <2>1 DEF RingInv, OrderInv, l
  <2>4. l <= Distance(head, starts[n + 1]) BY <1>2, <1>4, <2>3
  <2>5. Distance(head', starts[n + 1]) = Distance(head, starts[n + 1]) - l
    BY <1>1, <1>2, <1>6, <2>2, <2>4, Shorter DEF Distance
  <2> QED BY <2>1, <2>2, <2>5
<1>9. PlacesInv'
  <2>1. tail' = Wrap(head' + used')
    <3>1. used - l \in 0 .. RxqBytes - l /\ head + l + (used - l) = head + used
      BY <1>1, <1>2, <1>3, <1>5
    <3> QED BY <1>1, <1>2, <1>6, <1>t, <3>1, Wrapping
  <2>2. qcount' = 0 => used' = 0 BY <1>1, <1>2, <1>3, <1>5, <1>6, <1>t
  <2>3. qcount' # 0 => starts'[1] = head'
    <3> SUFFICES ASSUME qcount' # 0 PROVE starts'[1] = head'
      OBVIOUS
    <3>1. 2 \in 1 .. qcount /\ starts'[1] = starts[2] /\ 1 # qcount BY <1>1, <1>7, <1>t
    <3>2. Distance(head, head) + l = Distance(head, starts[1 + 1])
      BY <1>1, <3>1 DEF RingInv, OrderInv, l
    <3>3. starts[2] \in Positions BY <3>1, Waiting
    <3>4. Wrap(head + Distance(head, starts[2])) = starts[2]
      BY <1>1, <3>3, Wrapping DEF Distance
    <3>5. Distance(head, starts[2]) = l BY <1>2, <1>4, <3>2
    <3> QED BY <1>6, <3>1, <3>4, <3>5
  <2> QED BY <1>6, <1>7, <2>1, <2>2, <2>3 DEF PlacesInv
<1>10. LiesInv'
  <2> SUFFICES ASSUME NEW n \in 1 .. qcount'
               PROVE  /\ mem[starts'[n]].of \in Messages /\ mem[starts'[n]].of.id <= arrivals
                      /\ Lies(mem, starts'[n], mem[starts'[n]].of)
    BY <1>t DEF LiesInv
  <2>1. n + 1 \in 1 .. qcount /\ starts'[n] = starts[n + 1] BY <1>7
  <2> QED BY <2>1 DEF RingInv, LiesInv
<1>11. OrderInv'
  <2> SUFFICES ASSUME NEW n \in 1 .. qcount'
               PROVE  /\ Distance(head', starts'[n]) + Length(mem, starts'[n]) <= used'
                      /\ n = qcount' => Distance(head', starts'[n]) + Length(mem, starts'[n]) = used'
                      /\ n # qcount' => Distance(head', starts'[n]) + Length(mem, starts'[n])
                                        = Distance(head', starts'[n + 1])
                      /\ \A i \in 1 .. n - 1 :
                            /\ Distance(head', starts'[i]) + Length(mem, starts'[i])
                                  <= Distance(head', starts'[n])
                            /\ mem[starts'[i]].of.id < mem[starts'[n]].of.id
    BY <1>t DEF OrderInv
  <2>1. n + 1 \in 1 .. qcount /\ starts'[n] = starts[n + 1] BY <1>7
  <2>2. /\ Distance(head, starts'[n]) \in Nat /\ Length(mem, starts'[n]) \in Nat
        /\ Distance(head', starts'[n]) = Distance(head, starts'[n]) - l
    BY <1>8
  <2>3. Distance(head', starts'[n]) + Length(mem, starts'[n]) <= used'
    <3>1. Distance(head, starts'[n]) + Length(mem, starts'[n]) <= used
      BY <2>1 DEF RingInv, OrderInv
    <3> QED BY <1>2, <1>3, <1>6, <2>2, <3>1
  <2>4. n = qcount' => Distance(head', starts'[n]) + Length(mem, starts'[n]) = used'
    <3>1. n = qcount' => n + 1 = qcount BY <1>1, <1>t
    <3>2. n = qcount' => Distance(head, starts'[n]) + Length(mem, starts'[n]) = used
      BY <2>1, <3>1 DEF RingInv, OrderInv
    <3> QED BY <1>2, <1>3, <1>6, <2>2, <3>2
  <2>5. ASSUME n # qcount'
        PROVE  Distance(head', starts'[n]) + Length(mem, starts'[n]) = Distance(head', starts'[n + 1])
    <3>1. n + 1 \in 1 .. qcount' /\ n + 1 # qcount BY <1>1, <1>7, <1>t, <2>5
    <3>2. starts'[n + 1] = starts[(n + 1) + 1] BY <1>7, <3>1
    <3>3. Distance(head, starts'[n]) + Length(mem, starts'[n]) = Distance(head, starts'[n + 1])
      BY <2>1, <3>1, <3>2 DEF RingInv, OrderInv
    <3>4. /\ Distance(head, starts'[n + 1]) \in Nat
          /\ Distance(head', starts'[n + 1]) = Distance(head, starts'[n + 1]) - l
      BY <1>8, <3>1
    <3> QED BY <1>2, <2>2, <3>3, <3>4
  <2>6. ASSUME NEW i \in 1 .. n - 1
        PROVE  /\ Distance(head', starts'[i]) + Length(mem, starts'[i]) <= Distance(head', starts'[n])
               /\ mem[starts'[i]].of.id < mem[starts'[n]].of.id
    <3>1. i \in 1 .. qcount' /\ i + 1 \in 1 .. (n + 1) - 1 BY <1>7
    <3>2. starts'[i] = starts[i + 1] BY <1>7, <3>1
    <3>3. /\ Distance(head, starts'[i]) + Length(mem, starts'[i]) <= Distance(head, starts'[n])
          /\ mem[starts'[i]].of.id < mem[starts'[n]].of.id
      BY <2>1, <3>1, <3>2 DEF RingInv, OrderInv
    <3>4. /\ Distance(head, starts'[i]) \in Nat /\ Length(mem, starts'[i]) \in Nat
          /\ Distance(head', starts'[i]) = Distance(head, starts'[i]) - l
      BY <1>8, <3>1
    <3>5. Distance(head', starts'[i]) + Length(mem, starts'[i]) <= Distance(head', starts'[n])
      BY <1>2, <2>2, <3>3, <3>4
    <3> QED BY <3>3, <3>5
  <2> QED BY <2>3, <2>4, <2>5, <2>6
<1>12. Lying \in Seq(Messages) /\ Len(Lying) = qcount /\ Lying # <<>>
  BY <1>1 DEF Lying, RingInv, LiesInv
<1>13. Lying' = Tail(Lying)
  <2>1. Lying' = [n \in 1 .. qcount' |-> mem[starts'[n]].of] BY <1>t DEF Lying
  <2>2. /\ Tail(Lying) \in Seq(Messages) /\ Len(Tail(Lying)) = qcount'
        /\ \A n \in 1 .. qcount' : Tail(Lying)[n] = Lying[n + 1]
    BY <1>t, <1>12, HeadTailProperties
  <2>3. \A n \in 1 .. qcount' : Tail(Lying)[n] = mem[starts'[n]].of BY <1>7, <2>2 DEF Lying
  <2>4. Tail(Lying) = [n \in 1 .. qcount' |-> Tail(Lying)[n]] BY <2>2, Elements
  <2> QED BY <2>1, <2>3, <2>4
<1>14. MessageAt(head) = Head(Lying) /\ MessageAt(head) \in Messages
  <2>1. MessageAt(head) = mem[head].of /\ mem[head].of \in Messages BY <1>1, Waiting
  <2>2. Head(Lying) = Lying[1] /\ Lying[1] = mem[head].of BY <1>1, <1>12 DEF Lying
  <2> QED BY <2>1, <2>2
<1> QED BY <1>9, <1>10, <1>11, <1>12, <1>13, <1>14 DEF RingInv

LEMMA FlushKeepsRing ==
    ASSUME FlushLocked, MemInv'
    PROVE  RingInv' /\ Lying' = <<>>
<1>1. head' = 0 /\ tail' = 0 /\ used' = 0 /\ qcount' = 0 /\ starts' = <<>> BY DEF FlushLocked
<1>2. starts' \in Seq(Positions) /\ Len(starts') = 0 BY <1>1, EmptySeq
<1>3. Wrap(0 + 0) = 0 /\ 0 \in Positions /\ 0 \in 0 .. RxqBytes BY Sizes0 DEF Wrap, Positions
<1>4. PlacesInv' BY <1>1, <1>2, <1>3 DEF PlacesInv
<1>5. OrderInv' /\ LiesInv' BY <1>1 DEF OrderInv, LiesInv
<1>6. Lying' = <<>> BY <1>1 DEF Lying
<1> QED BY <1>4, <1>5, <1>6 DEF RingInv

\* A step that leaves the ring alone.
LEMMA SameRing ==
    ASSUME RingInv, UNCHANGED ring, arrivals <= arrivals', MemInv'
    PROVE  RingInv' /\ Lying' = Lying
<1>1. /\ UNCHANGED <<mem, head, tail, used, qcount, starts>>
  BY DEF ring
<1>2. arrivals \in Nat /\ arrivals' \in Nat BY QueueAssumption DEF RingInv, MemInv
<1>3. PlacesInv' BY <1>1 DEF RingInv, PlacesInv
<1>4. OrderInv' BY <1>1 DEF RingInv, OrderInv
<1>5. LiesInv'
  <2> SUFFICES ASSUME NEW n \in 1 .. qcount
               PROVE  /\ mem[starts[n]].of \in Messages /\ mem[starts[n]].of.id <= arrivals'
                      /\ Lies(mem, starts[n], mem[starts[n]].of)
    BY <1>1 DEF LiesInv
  <2>1. /\ mem[starts[n]].of \in Messages /\ mem[starts[n]].of.id <= arrivals
        /\ Lies(mem, starts[n], mem[starts[n]].of)
    BY DEF RingInv, LiesInv
  <2>2. mem[starts[n]].of.id \in Nat BY <2>1, Sizes0
  <2>3. arrivals <= arrivals' OBVIOUS
  <2>4. mem[starts[n]].of.id <= arrivals' BY <1>2, <2>1, <2>2, <2>3
  <2> QED BY <2>1, <2>4
<1>6. Lying' = Lying BY <1>1 DEF Lying
<1> QED BY <1>3, <1>4, <1>5, <1>6 DEF RingInv

(***************************************************************************)
(* The steps.                                                              *)
(***************************************************************************)
\* What queue_push does to the ring.
LEMMA PushRing ==
    ASSUME RingInv, QueuePush
    PROVE  /\ RingInv'
           /\ \/ UNCHANGED dropped /\ \E m \in Messages : Lying' = Append(Lying, m)
              \/ dropped' = dropped + 1 /\ Lying' = Lying
<1>1. arrivals \in Nat /\ arrivals' = arrivals + 1 /\ arrivals' \in Arrivals /\ arrivals' \in 0 .. MaxArrivals
  BY QueueAssumption DEF RingInv, MemInv, QueuePush, Arrivals
<1>2. PICK m \in Messages :
         /\ m.id = arrivals'
         /\ \/ Fits(m) /\ RingPut(m) /\ UNCHANGED dropped
            \/ dropped' = dropped + 1 /\ UNCHANGED ring
  <2>1. PICK s \in Sizes :
           \/ Fits([id |-> arrivals', size |-> s]) /\ RingPut([id |-> arrivals', size |-> s])
              /\ UNCHANGED dropped
           \/ dropped' = dropped + 1 /\ UNCHANGED ring
    BY DEF QueuePush
  <2>2. [id |-> arrivals', size |-> s] \in Messages BY <1>1 DEF Messages
  <2> QED BY <2>1, <2>2
<1>3. UNCHANGED <<session, lost, chOpen, rq, taken>> BY DEF QueuePush, sessionVars, channel
<1>4. CASE Fits(m) /\ RingPut(m) /\ UNCHANGED dropped
  <2>1. mem' \in [Positions -> [of : Messages \cup {Blank}, at : Nat]]
    <3> DEFINE len == HeaderBytes + m.size
    <3>1. len \in Nat BY Sizes0
    <3>2. Encoded(m) = [k \in 1 .. len |-> [of |-> m, at |-> k]] /\ Len(Encoded(m)) = len
      <4>1. Encoded(m) = [k \in 1 .. len |-> [of |-> m, at |-> k]] BY DEF Encoded
      <4> HIDE DEF len
      <4> QED BY <3>1, <4>1
    <3>3. mem' = [i \in Positions |-> LET k == Wrap(i + RxqBytes - tail) IN
                                     IF k < len THEN Encoded(m)[k + 1] ELSE mem[i]]
      BY <1>4, <3>2 DEF RingPut
    <3> HIDE DEF len
    <3>4. tail \in Positions
      BY Wrapping DEF RingInv, PlacesInv
    <3> SUFFICES ASSUME NEW i \in Positions
                 PROVE  mem'[i] \in [of : Messages \cup {Blank}, at : Nat]
      BY <3>3
    <3>5. Wrap(i + RxqBytes - tail) \in Positions /\ Wrap(i + RxqBytes - tail) \in Nat
      <4>1. 0 \in 0 .. RxqBytes BY Sizes0
      <4> QED BY <3>4, <4>1, Wrapping, Sizes0
    <3>6. PICK k \in Nat : k = Wrap(i + RxqBytes - tail) BY <3>5
    <3>7. mem'[i] = IF k < len THEN Encoded(m)[k + 1] ELSE mem[i] BY <3>3, <3>6
    <3>8. CASE k < len
      <4>1. k + 1 \in 1 .. len /\ k + 1 \in Nat BY <3>1, <3>8
      <4>2. mem'[i] = [of |-> m, at |-> k + 1] BY <3>2, <3>7, <3>8, <4>1
      <4> QED BY <4>1, <4>2
    <3>9. CASE ~(k < len) BY <3>7, <3>9 DEF RingInv, MemInv
    <3> QED BY <3>8, <3>9
  <2>2. MemInv' BY <1>1, <1>3, <2>1 DEF RingInv, MemInv
  <2>3. arrivals < m.id BY <1>1, <1>2
  <2> QED BY <1>2, <1>4, <2>2, <2>3, PutKeepsRing
<1>5. CASE dropped' = dropped + 1 /\ UNCHANGED ring
  <2>1. arrivals <= arrivals' BY <1>1
  <2>2. MemInv' BY <1>1, <1>3, <1>5 DEF RingInv, MemInv, ring
  <2> QED BY <1>5, <2>1, <2>2, SameRing
<1> QED BY <1>2, <1>4, <1>5

\* What op_device_pop does when there is a message.
LEMMA PopRing ==
    ASSUME RingInv, NEW t \in Threads, PopMessage(t)
    PROVE  RingInv' /\ Lying # <<>> /\ taken' = Head(Lying) /\ Lying' = Tail(Lying)
<1>1. TakesFirst BY DEF PopMessage, TakesFirst
<1>2. taken' = MessageAt(head) /\ UNCHANGED <<mem, arrivals, session, lost, chOpen, rq>>
  BY DEF PopMessage, sessionVars, channel
<1>3. MessageAt(head) \in Messages
  <2>1. 1 \in 1 .. qcount /\ starts[1] = head
    BY LenProperties DEF RingInv, PlacesInv, PopMessage
  <2> QED BY <2>1, Waiting
<1>4. MemInv' BY <1>2, <1>3 DEF RingInv, MemInv
<1> QED BY <1>1, <1>2, <1>4, TakeKeepsRing

\* Every other step empties the ring or leaves it alone.
LEMMA OtherRing ==
    ASSUME RingInv, [Next]_vars, ~QueuePush, \A t \in Threads : ~PopMessage(t)
    PROVE  /\ RingInv' /\ taken' = taken
           /\ \/ Lying' = <<>> /\ dropped' = 0
              \/ Lying' = Lying /\ dropped' \in {0, dropped}
<1>1. CASE ClearRxBuffer \/ OpenChannel \/ CloseChannel \/ OpenDevice
  <2>1. FlushLocked /\ UNCHANGED <<taken, arrivals>> /\ dropped' = 0
    BY <1>1 DEF ClearRxBuffer, OpenChannel, CloseChannel, Reset, OpenDevice, FlushLocked
  <2>2. MemInv'
    BY <1>1, <2>1 DEF RingInv, MemInv, ClearRxBuffer, OpenChannel, CloseChannel, Reset,
                      OpenDevice, FlushLocked, sessionVars
  <2> QED BY <2>1, <2>2, FlushKeepsRing
<1>2. CASE \/ Lose \/ CloseDevice \/ JoinReader \/ UNCHANGED vars
           \/ \E t \in Threads : ReadMsgs(t) \/ TimesUp(t) \/ Sleep(t) \/ PopNothing(t)
                                 \/ PopClosed(t) \/ TakeDropped(t)
  <2>1. UNCHANGED <<ring, taken, arrivals>> /\ dropped' \in {0, dropped}
    BY <1>2 DEF Lose, CloseDevice, JoinReader, vars, ReadMsgs, TimesUp, Sleep, PopNothing,
                PopClosed, TakeDropped
  <2>2. /\ session' \in {"open", "closing", "closed"}
        /\ lost' \in BOOLEAN /\ UNCHANGED <<chOpen, rq>>
    BY <1>2 DEF RingInv, MemInv, Lose, CloseDevice, JoinReader, vars, ReadMsgs, TimesUp, Sleep,
                PopNothing, PopClosed, TakeDropped, sessionVars, channel
  <2>3. MemInv' BY <2>1, <2>2 DEF RingInv, MemInv, ring
  <2>4. arrivals <= arrivals' BY <2>1, QueueAssumption DEF RingInv, MemInv
  <2> QED BY <2>1, <2>3, <2>4, SameRing
<1> QED BY <1>1, <1>2 DEF Next, Read

LEMMA NextRing ==
    ASSUME RingInv, [Next]_vars
    PROVE  RingInv'
BY PushRing, PopRing, OtherRing

LEMMA InitRing == Init => RingInv
<1> SUFFICES ASSUME Init PROVE RingInv
  OBVIOUS
<1>1. MemInv
  <2>1. mem \in [Positions -> [of : Messages \cup {Blank}, at : Nat]] BY DEF Init
  <2>2. arrivals \in 0 .. MaxArrivals BY QueueAssumption DEF Init
  <2> QED BY <2>1, <2>2 DEF Init, MemInv
<1>2. starts \in Seq(Positions) /\ Len(starts) = 0 BY EmptySeq DEF Init
<1>3. Wrap(0 + 0) = 0 /\ 0 \in Positions /\ 0 \in 0 .. RxqBytes BY Sizes0 DEF Wrap, Positions
<1>4. PlacesInv BY <1>2, <1>3 DEF Init, PlacesInv
<1>5. OrderInv /\ LiesInv BY DEF Init, OrderInv, LiesInv
<1> QED BY <1>1, <1>4, <1>5 DEF RingInv

\* The messages the queue holds are those that lie in it.
LEMMA ContentsLie == RingInv => Contents = Lying
<1> SUFFICES ASSUME RingInv PROVE Contents = Lying
  OBVIOUS
<1>1. \A n \in 1 .. qcount : MessageAt(starts[n]) = mem[starts[n]].of BY Waiting
<1> QED BY <1>1 DEF Contents, Lying

\* The invariant of the ring: ring_put and ring_get leave whole messages, end
\* to end, between head and tail.
THEOREM RingInvariance == Spec => []RingInv
<1>1. RingInv /\ [Next]_vars => RingInv' BY NextRing
<1> QED BY <1>1, InitRing, PTL DEF Spec

\* Where a message ends: the next one begins there, or the ring ends there.
LEMMA Ends ==
    ASSUME RingInv, NEW n \in 1 .. qcount
    PROVE  Beyond(starts[n]) = IF n = qcount THEN tail ELSE starts[n + 1]
<1>1. head \in Positions /\ used \in 0 .. RxqBytes /\ tail = Wrap(head + used)
  BY DEF RingInv, PlacesInv
<1>2. PICK p \in Positions, d \in Nat, l \in Nat :
         p = starts[n] /\ d = Distance(head, p) /\ l = Length(mem, p) /\ Beyond(p) = Wrap(p + l)
  BY Waiting DEF Beyond
<1>3. d + l <= used /\ d \in 0 .. RxqBytes /\ l \in 0 .. RxqBytes - d
  <2>1. d + l <= used BY <1>2 DEF RingInv, OrderInv
  <2> QED BY <1>1, <1>2, <2>1, Sizes0
<1>4. Beyond(p) = Wrap(head + (d + l))
  <2>1. p = Wrap(head + d) BY <1>1, <1>2, Wrapping DEF Distance
  <2>2. Wrap(Wrap(head + d) + l) = Wrap(head + d + l) BY <1>1, <1>3, Wrapping
  <2>3. head + d + l = head + (d + l) BY <1>1, <1>2, Sizes0
  <2> QED BY <1>2, <2>1, <2>2, <2>3
<1>5. CASE n = qcount
  <2>1. d + l = used BY <1>2, <1>5 DEF RingInv, OrderInv
  <2> QED BY <1>1, <1>2, <1>4, <1>5, <2>1
<1>6. CASE n # qcount
  <2>1. n + 1 \in 1 .. qcount BY <1>6, LenProperties DEF RingInv, PlacesInv
  <2>2. d + l = Distance(head, starts[n + 1]) BY <1>2, <1>6 DEF RingInv, OrderInv
  <2>3. starts[n + 1] \in Positions BY <2>1, Waiting
  <2>4. Wrap(head + Distance(head, starts[n + 1])) = starts[n + 1]
    BY <1>1, <1>3, <2>3, Wrapping DEF Distance
  <2> QED BY <1>2, <1>4, <1>6, <2>2, <2>4
<1> QED BY <1>5, <1>6

LEMMA TypesHold ==
    ASSUME RingInv, Inv
    PROVE  TypeOK
<1>1. dropped \in 0 .. MaxArrivals /\ unreported \subseteq Arrivals
  <2>1. arrivals \in Nat /\ arrivals <= MaxArrivals /\ unreported \subseteq 1 .. arrivals
    BY QueueAssumption DEF RingInv, MemInv, Inv, CountInv
  <2>2. IsFiniteSet(1 .. arrivals) /\ Cardinality(1 .. arrivals) = arrivals
    BY <2>1, FS_Interval
  <2>3. Cardinality(unreported) <= Cardinality(1 .. arrivals) BY <2>1, <2>2, FS_Subset
  <2>4. dropped \in Nat /\ dropped = Cardinality(unreported)
    BY UnreportedFinite DEF Inv, CountInv, DroppedCounted
  <2>5. dropped <= MaxArrivals BY <2>1, <2>2, <2>3, <2>4, QueueAssumption
  <2> QED BY <2>1, <2>4, <2>5, QueueAssumption DEF Arrivals
<1>2. /\ head \in Positions /\ used \in 0 .. RxqBytes /\ starts \in Seq(Positions)
      /\ qcount \in Nat /\ tail \in Positions
  <2>1. head \in Positions /\ used \in 0 .. RxqBytes /\ starts \in Seq(Positions)
        /\ tail = Wrap(head + used) /\ qcount = Len(starts)
    BY DEF RingInv, PlacesInv
  <2> QED BY <2>1, LenProperties, Wrapping
<1> QED BY <1>1, <1>2 DEF TypeOK, RingInv, MemInv, Inv, SleepInv, Calls

\* ring_put and ring_get agree at all times: what lies in the byte ring is the
\* accepted messages, whole and end to end, oldest first.
THEOREM RingIsWhole == Spec => []RingSpellsMessages
<1>1. RingInv /\ Inv => RingSpellsMessages
  <2> SUFFICES ASSUME RingInv, Inv PROVE RingSpellsMessages
    OBVIOUS
  <2>1. TypeOK BY TypesHold
  <2>2. Len(starts) = qcount /\ qcount \in Nat /\ tail = Wrap(head + used)
    BY LenProperties DEF RingInv, PlacesInv
  <2>3. \A n \in 1 .. qcount : Contents[n] = mem[starts[n]].of /\ Contents[n] \in Messages
    BY Waiting DEF Contents
  <2>4. ASSUME NEW n \in 1 .. qcount, NEW m \in 1 .. n - 1
        PROVE  Contents[m].id < Contents[n].id
    <3>1. m \in 1 .. qcount BY <2>2
    <3>2. mem[starts[m]].of.id < mem[starts[n]].of.id BY DEF RingInv, OrderInv
    <3> QED BY <2>3, <3>1, <3>2
  <2>5. ASSUME NEW n \in 1 .. qcount
        PROVE  starts[n] = IF n = 1 THEN head ELSE Beyond(starts[n - 1])
    <3>1. CASE n = 1 BY <2>2, <3>1 DEF RingInv, PlacesInv
    <3>2. CASE n # 1
      <4>1. n - 1 \in 1 .. qcount /\ n - 1 # qcount /\ (n - 1) + 1 = n BY <2>2, <3>2
      <4>2. Beyond(starts[n - 1]) = starts[(n - 1) + 1] BY <4>1, Ends
      <4> QED BY <3>2, <4>1, <4>2
    <3> QED BY <3>1, <3>2
  <2>6. tail = IF qcount = 0 THEN head ELSE Beyond(starts[qcount])
    <3>1. CASE qcount = 0
      <4>1. used = 0 /\ head \in Positions BY <3>1 DEF RingInv, PlacesInv
      <4> QED BY <2>2, <3>1, <4>1, Sizes0 DEF Wrap, Positions
    <3>2. CASE qcount # 0
      <4>1. qcount \in 1 .. qcount BY <2>2, <3>2
      <4> QED BY <3>2, <4>1, Ends
    <3> QED BY <3>1, <3>2
  <2> QED BY <2>1, <2>2, <2>3, <2>4, <2>5, <2>6 DEF RingSpellsMessages
<1> QED BY <1>1, Invariance, RingInvariance, PTL

\* queue_push and op_device_pop: the byte ring is the queue of whole
\* messages that RxFifo promises, whatever wraps, is refused or is flushed.
THEOREM RingIsFifo == Spec => ImplementsFifo
<1>1. Init => Fifo!Init
  BY DEF Init, Fifo!Init, Contents
<1>2. (RingInv => Contents = Lying)'
  BY ContentsLie, PTL
<1>3. RingInv /\ [Next]_vars => [Fifo!Next]_(Fifo!vars)
  <2> SUFFICES ASSUME RingInv, [Next]_vars PROVE [Fifo!Next]_(Fifo!vars)
    OBVIOUS
  <2>0. Contents = Lying /\ Contents' = Lying' BY <1>2, ContentsLie, NextRing
  <2>1. CASE QueuePush
    <3>1. taken' = taken BY <2>1 DEF QueuePush
    <3> QED BY <2>0, <2>1, <3>1, PushRing DEF Fifo!Next, Fifo!Accept, Fifo!Refuse
  <2>2. CASE \E t \in Threads : PopMessage(t)
    <3>1. PICK t \in Threads : PopMessage(t) BY <2>2
    <3>2. dropped' = dropped BY <3>1 DEF PopMessage
    <3> QED BY <2>0, <3>1, <3>2, PopRing DEF Fifo!Next, Fifo!Take
  <2>3. CASE ~QueuePush /\ \A t \in Threads : ~PopMessage(t)
    BY <2>0, <2>3, OtherRing DEF Fifo!Next, Fifo!Wipe, Fifo!Report, Fifo!vars
  <2> QED BY <2>1, <2>2, <2>3
<1> QED BY <1>1, <1>3, RingInvariance, PTL DEF Spec, ImplementsFifo, Fifo!Spec
=============================================================================
