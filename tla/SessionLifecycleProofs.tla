----------------------- MODULE SessionLifecycleProofs -----------------------
(***************************************************************************)
(* Proofs about SessionLifecycle: what holds for any number of threads,    *)
(* owners, handles, commands and unplugged cables while no open overlaps   *)
(* another open or a close.                                                *)
(***************************************************************************)
EXTENDS SessionLifecycle, FiniteSetTheorems, TLAPS

Some(ps) == \E t \in Threads : pc[t] \in ps

Raising == {"clearing", "claiming", "spawning", "publishing"}
Teardown == {"draining", "joining", "closing"}

\* Every reader thread is created for a handle of its own.
Spawning == {t \in Threads : pc[t] = "spawning"}
SpawnInv == spawned + Cardinality(Spawning) =< handles
TypeInv == TypeOK /\ SpawnInv

LockInv == \A t \in Threads : pc[t] \in {"inside", "joining", "closing"} <=> cmdLock = t

\* Of several threads inside PassThruOpen or PassThruClose, all are closing.
SoloInv ==
    \A t, u \in Threads : t # u /\ Busy(t) /\ Busy(u) => Closing(t) /\ Closing(u)

\* The session is closed while one thread raises it or tears it down; a command
\* outlasts it only until the close takes cmd_lock.
OpenInv ==
    \A t \in Threads :
        /\ pc[t] \in Raising \cup Teardown => ~open
        /\ pc[t] = "greeting" => open
        /\ \A u \in Threads : pc[t] \in Teardown /\ pc[u] \in Teardown => t = u
        /\ pc[t] = "inside" => open \/ Some({"draining"})

\* The transport is there from the opening's claim to the close, and it alone
\* has the cable.
TransportInv ==
    /\ transport # None <=> open \/ Some({"spawning", "publishing"} \cup Teardown)
    /\ held \cup dead \subseteq {transport}

\* So is the newest reader thread; it ends when told to, or with the session
\* marked lost.
ReaderInv ==
    /\ joined = spawned /\ readers \subseteq {spawned}
    /\ readerStarted <=> open \/ Some({"publishing", "draining", "joining"})
    /\ readers # {} => readerStarted
    /\ readerStop => ~open /\ ~Some(Raising)
    /\ (open \/ Some({"publishing"})) /\ ~lost => readers # {}

OrderlyInv == SoloInv /\ OpenInv /\ TransportInv /\ ReaderInv

IInv == TypeInv /\ LockInv /\ (Orderly => OrderlyInv)
-----------------------------------------------------------------------------
\* How many threads are about to create a reader is a number.
LEMMA SpawningFinite == IsFiniteSet(Spawning) /\ Cardinality(Spawning) \in Nat
<1>1. Spawning \in SUBSET Threads
  BY DEF Spawning
<1>2. IsFiniteSet(Spawning)
  BY <1>1, SessionAssumption, FS_Subset
<1> QED
  BY <1>2, FS_CardinalityType

LEMMA TypeInit == Init => TypeInv
<1> SUFFICES ASSUME Init PROVE TypeInv
  OBVIOUS
<1>1. Spawning = {}
  BY DEF Init, Spawning
<1>2. Cardinality(Spawning) = 0
  BY <1>1, FS_EmptySet
<1>3. SpawnInv
  BY <1>2 DEF Init, SpawnInv
<1>4. TypeOK
  <2>1. /\ pc \in [Threads -> PCs]
        /\ goal \in [Threads -> {"command", "atz", "ata", "ati", "reset"}]
        /\ after \in [Threads -> {"idle", "opening"}]
    BY DEF Init, PCs
  <2>2. /\ spawned \in 0 .. handles /\ handles \in 0 .. MaxHandles
        /\ calls \in 0 .. MaxCalls /\ unplugs \in 0 .. MaxUnplugs
    BY SessionAssumption DEF Init
  <2> QED
    BY <2>1, <2>2 DEF Init, TypeOK
<1> QED
  BY <1>3, <1>4 DEF TypeInv

\* A step that creates neither a handle nor a reader, and brings no thread to
\* where it creates one, keeps the count.
LEMMA SpawnKept ==
    ASSUME TypeInv, TypeOK', UNCHANGED <<spawned, handles>>,
           \A t \in Threads : pc'[t] = "spawning" => pc[t] = "spawning"
    PROVE  SpawnInv'
<1>1. Spawning' \in SUBSET Spawning
  BY DEF Spawning
<1>2. Cardinality(Spawning') =< Cardinality(Spawning)
  BY <1>1, SpawningFinite, FS_Subset
<1>3. Cardinality(Spawning') \in Nat /\ Cardinality(Spawning) \in Nat
  BY SpawningFinite, FS_Subset, FS_CardinalityType, <1>1
<1> QED
  BY <1>2, <1>3 DEF TypeInv, SpawnInv, TypeOK

\* A claim makes room for one reader ...
LEMMA ClaimSpawns ==
    ASSUME TypeInv, NEW t \in Threads, FactoryClaims(t)
    PROVE  SpawnInv'
<1>1. Spawning' = Spawning \cup {t} /\ t \notin Spawning
  BY DEF FactoryClaims, Goto, Spawning, TypeInv, TypeOK
<1>2. Cardinality(Spawning') = Cardinality(Spawning) + 1
  BY <1>1, SpawningFinite, FS_AddElement
<1> QED
  BY <1>2, SpawningFinite DEF FactoryClaims, TypeInv, TypeOK, SpawnInv

\* ... and the reader takes it.
LEMMA SpawnSpawns ==
    ASSUME TypeInv, NEW t \in Threads, SpawnReader(t)
    PROVE  SpawnInv' /\ spawned' \in 0 .. handles
<1>1. Spawning' = Spawning \ {t} /\ t \in Spawning
  BY DEF SpawnReader, Goto, Spawning, TypeInv, TypeOK
<1>2. Cardinality(Spawning') = Cardinality(Spawning) - 1
  BY <1>1, SpawningFinite, FS_RemoveElement
<1>3. Cardinality(Spawning') \in Nat
  BY <1>1, SpawningFinite, FS_RemoveElement, FS_CardinalityType
<1> QED
  BY <1>2, <1>3, SpawningFinite DEF SpawnReader, TypeInv, TypeOK, SpawnInv

\* What follows a command is a state a thread can be in.
LEMMA ResumeTypes ==
    ASSUME TypeOK, NEW t \in Threads, NEW from, NEW ok, Resume(t, from, ok)
    PROVE  /\ pc' \in [Threads -> PCs]
           /\ goal' \in [Threads -> {"command", "atz", "ata", "ati", "reset"}]
           /\ after' \in [Threads -> {"idle", "opening"}]
<1>1. PICK next \in {"idle", "ata", "ati", "shutting"} : next = After(goal[t], ok)
  BY DEF After
<1>2. IF next \in {"ata", "ati"}
      THEN Goto(t, from, "waiting") /\ goal' = [goal EXCEPT ![t] = next]
      ELSE Goto(t, from, next) /\ UNCHANGED goal
  BY <1>1 DEF Resume
<1>3. after' = [after EXCEPT ![t] = "idle"]
  BY DEF Resume
<1>4. pc' \in [Threads -> PCs]
  BY <1>2 DEF Goto, TypeOK, PCs
<1>5. goal' \in [Threads -> {"command", "atz", "ata", "ati", "reset"}]
  BY <1>2 DEF TypeOK
<1> QED
  BY <1>3, <1>4, <1>5 DEF TypeOK

LEMMA TypeNext ==
    ASSUME TypeInv, [Next]_vars
    PROVE  TypeInv'
<1>a. TypeOK
  BY DEF TypeInv
<1> USE DEF Goto, PCs, flags, cable, counts
<1>1. ASSUME NEW t \in Threads, SpawnReader(t)
      PROVE  TypeInv'
  <2>s. SpawnInv' /\ spawned' \in 0 .. handles
    BY <1>1, SpawnSpawns
  <2>1. spawned' \in Handles /\ spawned' \in 0 .. handles
    BY <1>a, <1>1, <2>s, SessionAssumption DEF SpawnReader, Handles, TypeOK
  <2>2. TypeOK'
    BY <1>a, <1>1, <2>1 DEF SpawnReader, TypeOK, None
  <2> QED
    BY <2>s, <2>2 DEF TypeInv
<1>2. ASSUME NEW t \in Threads, FactoryClaims(t)
      PROVE  TypeInv'
  <2>1. handles' \in Handles /\ handles' \in 0 .. MaxHandles /\ spawned' \in 0 .. handles'
    BY <1>a, <1>2, SessionAssumption DEF FactoryClaims, Handles, TypeOK
  <2>2. TypeOK'
    BY <1>a, <1>2, <2>1 DEF FactoryClaims, TypeOK, None
  <2> QED
    BY <1>2, <2>2, ClaimSpawns DEF TypeInv
\* The other steps do not touch what the count is made of.
<1>3. ASSUME NEW t \in Threads,
             \/ PassThruOpen(t) \/ PassThruClose(t) \/ Command(t) \/ OpenFound(t)
             \/ OpenReset(t) \/ FactoryClear(t) \/ FactoryFails(t) \/ SpawnFails(t)
             \/ Publish(t) \/ Greet(t)
      PROVE  TypeInv'
  <2>1. TypeOK'
    <3>1. CASE PassThruOpen(t)
      BY <1>a, <3>1 DEF PassThruOpen, TypeOK
    <3>2. CASE PassThruClose(t)
      BY <1>a, <3>2 DEF PassThruClose, TypeOK
    <3>3. CASE Command(t)
      <4>1. calls' \in 0 .. MaxCalls
        BY <1>a, <3>3, SessionAssumption DEF Command, TypeOK
      <4> QED
        BY <1>a, <3>3, <4>1 DEF Command, TypeOK
    <3>4. CASE \/ OpenFound(t) \/ OpenReset(t) \/ FactoryClear(t) \/ FactoryFails(t)
               \/ SpawnFails(t)
      BY <1>a, <3>4 DEF OpenFound, OpenReset, ClearFlags,  FactoryClear, FactoryFails, SpawnFails, TypeOK
    <3>5. CASE Publish(t) \/ Greet(t)
      BY <1>a, <3>5 DEF Publish, Greet, TypeOK
    <3> QED
      BY <1>3, <3>1, <3>2, <3>3, <3>4, <3>5
  <2>2. /\ UNCHANGED <<spawned, handles>>
        /\ \A u \in Threads : pc'[u] = "spawning" => pc[u] = "spawning"
    BY <1>a, <1>3 DEF PassThruOpen, PassThruClose, Command, OpenFound, OpenReset,
                      FactoryClear, FactoryFails, SpawnFails, Publish, Greet, TypeOK
  <2> QED
    BY <2>1, <2>2, SpawnKept DEF TypeInv
<1>4. ASSUME NEW t \in Threads,
             \/ Enter(t) \/ Leave(t) \/ Refuse(t) \/ CloseBegin(t) \/ CloseSecond(t)
             \/ StopReader(t) \/ JoinReader(t) \/ CloseTransport(t)
      PROVE  TypeInv'
  <2>1. TypeOK'
    <3>1. CASE Enter(t) \/ CloseBegin(t)
      BY <1>a, <3>1 DEF Enter, CloseBegin, TypeOK, None
    <3>7. CASE Refuse(t)
      BY <1>a, <3>7, ResumeTypes DEF Refuse, TypeOK, None
    <3>2. CASE CloseSecond(t)
      BY <1>a, <3>2 DEF CloseSecond, TypeOK, None
    <3>6. CASE Leave(t)
      BY <1>a, <3>6, ResumeTypes DEF Leave, TypeOK, None
    <3>3. CASE StopReader(t)
      BY <1>a, <3>3 DEF StopReader, TellReader, TypeOK, None
    <3>4. CASE JoinReader(t)
      BY <1>a, <3>4 DEF JoinReader, TypeOK, None
    <3>5. CASE CloseTransport(t)
      BY <1>a, <3>5 DEF CloseTransport, ReleaseCable, TypeOK, None
    <3> QED
      BY <1>4, <3>1, <3>2, <3>3, <3>4, <3>5, <3>6, <3>7
  <2>2. /\ UNCHANGED <<spawned, handles>>
        /\ \A u \in Threads : pc'[u] = "spawning" => pc[u] = "spawning"
    BY <1>a, <1>4 DEF Enter, Leave, Refuse, Resume, After, CloseBegin, CloseSecond,
                      StopReader, JoinReader, CloseTransport, TypeOK
  <2> QED
    BY <2>1, <2>2, SpawnKept DEF TypeInv
<1>5. ASSUME \/ \E h \in Handles : ReaderStops(h) \/ ReaderLoses(h) \/ ReaderGivesUp(h)
             \/ Unplug \/ Done \/ UNCHANGED vars
      PROVE  TypeInv'
  <2>1. TypeOK'
    <3>1. ASSUME NEW h \in Handles, ReaderStops(h) \/ ReaderLoses(h) \/ ReaderGivesUp(h)
          PROVE  TypeOK'
      BY <1>a, <3>1 DEF ReaderStops, ReaderLoses, ReaderGivesUp, LoseSession, TypeOK
    <3>2. CASE Unplug
      BY <1>a, <3>2, SessionAssumption DEF Unplug, TypeOK
    <3>3. CASE Done \/ UNCHANGED vars
      BY <1>a, <3>3 DEF Done, vars, TypeOK
    <3> QED
      BY <1>5, <3>1, <3>2, <3>3
  <2>2. UNCHANGED <<spawned, handles, pc>>
    BY <1>5 DEF ReaderStops, ReaderLoses, ReaderGivesUp, LoseSession, Unplug, Done, vars
  <2> QED
    BY <2>1, <2>2, SpawnKept DEF TypeInv
<1> QED
  BY <1>1, <1>2, <1>3, <1>4, <1>5, SessionAssumption DEF Next, Step
-----------------------------------------------------------------------------
\* cmd_lock is held by whoever is inside a command or tears the session down.
LEMMA LockNext ==
    ASSUME TypeOK, LockInv, [Next]_vars
    PROVE  LockInv'
<1> USE DEF Goto
<1>1. ASSUME NEW t \in Threads,
             \/ PassThruOpen(t) \/ PassThruClose(t) \/ Command(t) \/ OpenFound(t)
             \/ OpenReset(t) \/ FactoryClear(t) \/ FactoryClaims(t) \/ FactoryFails(t)
             \/ SpawnReader(t) \/ SpawnFails(t) \/ Publish(t) \/ Greet(t) \/ Refuse(t)
             \/ CloseBegin(t) \/ CloseSecond(t)
      PROVE  LockInv'
  BY <1>1 DEF PassThruOpen, PassThruClose, Command, OpenFound, OpenReset, FactoryClear,
              FactoryClaims, FactoryFails, SpawnReader, SpawnFails, Publish, Greet, Refuse,
              Resume, After, CloseBegin, CloseSecond, TypeOK, LockInv
\* The lock was free when it is taken, and is given back on the way out.
<1>2. ASSUME NEW t \in Threads, Enter(t) \/ StopReader(t) \/ JoinReader(t)
      PROVE  LockInv'
  BY <1>2, SessionAssumption DEF Enter, StopReader, Drained, JoinReader, TypeOK, LockInv
<1>3. ASSUME NEW t \in Threads, Leave(t) \/ CloseTransport(t)
      PROVE  LockInv'
  BY <1>3, SessionAssumption DEF Leave, Resume, After, CloseTransport, TypeOK, LockInv
<1>4. CASE UNCHANGED <<pc, cmdLock>>
  BY <1>4 DEF LockInv
<1>5. ASSUME \/ \E h \in Handles : ReaderStops(h) \/ ReaderLoses(h) \/ ReaderGivesUp(h)
             \/ Unplug \/ Done \/ UNCHANGED vars
      PROVE  UNCHANGED <<pc, cmdLock>>
  BY <1>5 DEF ReaderStops, ReaderLoses, ReaderGivesUp, LoseSession, Unplug, Done, vars
<1> QED
  BY <1>1, <1>2, <1>3, <1>4, <1>5, SessionAssumption DEF Next, Step

\* Threads inside an open or a close: PassThruOpen finds none, PassThruClose
\* only closing ones, and a thread that is closing goes on closing.
LEMMA SoloNext ==
    ASSUME TypeOK, Orderly', SoloInv, [Next]_vars
    PROVE  SoloInv'
<1> USE DEF Goto, Busy, Closing
<1>1. ASSUME NEW t \in Threads, PassThruOpen(t) \/ PassThruClose(t)
      PROVE  SoloInv'
  <2>1. CASE PassThruOpen(t)
    <3>1. \A u \in Threads \ {t} : ~Busy(u)'
      BY <2>1 DEF PassThruOpen, Orderly, TypeOK
    <3> QED
      BY <3>1 DEF SoloInv
  <2>2. CASE PassThruClose(t)
    <3>1. \A u \in Threads \ {t} : pc'[u] = pc[u] /\ goal'[u] = goal[u] /\ after'[u] = after[u]
      BY <2>2 DEF PassThruClose, TypeOK
    <3>2. pc'[t] = "waiting" /\ goal'[t] = "reset"
      BY <2>2 DEF PassThruClose, TypeOK
    <3>3. \A u \in Threads \ {t} : Busy(u) => Closing(u)
      BY <2>2 DEF PassThruClose, Orderly
    <3>4. \A u \in Threads \ {t} : Busy(u)' => Closing(u)'
      BY <3>1, <3>3
    <3>5. Closing(t)'
      BY <3>2
    <3> HIDE DEF Busy, Closing
    <3> QED
      BY <3>4, <3>5 DEF SoloInv
  <2> QED
    BY <1>1, <2>1, <2>2
<1>2. ASSUME NEW t \in Threads,
             \/ OpenFound(t) \/ OpenReset(t) \/ FactoryClear(t) \/ FactoryClaims(t)
             \/ FactoryFails(t) \/ SpawnReader(t) \/ SpawnFails(t) \/ Publish(t)
             \/ Greet(t)
      PROVE  SoloInv'
  BY <1>2 DEF OpenFound, OpenReset, FactoryClear, FactoryClaims, FactoryFails, SpawnReader,
              SpawnFails, Publish, Greet, TypeOK, SoloInv
<1>3. ASSUME NEW t \in Threads, Command(t) \/ Enter(t) \/ Leave(t) \/ Refuse(t)
      PROVE  SoloInv'
  BY <1>3 DEF Command, Enter, Leave, Refuse, Resume, After, TypeOK, SoloInv
<1>4. ASSUME NEW t \in Threads,
             \/ CloseBegin(t) \/ CloseSecond(t) \/ StopReader(t) \/ JoinReader(t)
             \/ CloseTransport(t)
      PROVE  SoloInv'
  BY <1>4 DEF CloseBegin, CloseSecond, StopReader, JoinReader, CloseTransport, TypeOK,
              SoloInv
<1>5. CASE UNCHANGED <<pc, goal, after>>
  BY <1>5 DEF SoloInv
<1>6. ASSUME \/ \E h \in Handles : ReaderStops(h) \/ ReaderLoses(h) \/ ReaderGivesUp(h)
             \/ Unplug \/ Done \/ UNCHANGED vars
      PROVE  UNCHANGED <<pc, goal, after>>
  BY <1>6 DEF ReaderStops, ReaderLoses, ReaderGivesUp, LoseSession, Unplug, Done, vars
<1> QED
  BY <1>1, <1>2, <1>3, <1>4, <1>5, <1>6, SessionAssumption DEF Next, Step

\* The session stays closed under the thread that raises it or tears it down.
LEMMA OpenNext ==
    ASSUME TypeOK, LockInv, Orderly', SoloInv, OpenInv, [Next]_vars
    PROVE  OpenInv'
<1> USE DEF Goto, Raising, Teardown, Some, flags
<1>1. ASSUME NEW t \in Threads,
             \/ PassThruOpen(t) \/ PassThruClose(t) \/ Command(t) \/ Enter(t) \/ Leave(t)
             \/ Refuse(t)
      PROVE  OpenInv'
  BY <1>1 DEF PassThruOpen, PassThruClose, Command, Enter, Usable, Leave, Refuse, Resume,
              After, TypeOK, OpenInv
<1>2. ASSUME NEW t \in Threads,
             \/ OpenFound(t) \/ OpenReset(t) \/ FactoryClear(t) \/ FactoryClaims(t)
             \/ FactoryFails(t) \/ SpawnReader(t) \/ SpawnFails(t) \/ Greet(t)
      PROVE  OpenInv'
  BY <1>2 DEF OpenFound, OpenReset, FactoryClear, FactoryClaims, FactoryFails, SpawnReader,
              SpawnFails, Greet, TypeOK, OpenInv
\* Nobody else is inside an open or a close when the session is published ...
<1>3. ASSUME NEW t \in Threads, Publish(t)
      PROVE  OpenInv'
  <2>1. \A u \in Threads \ {t} : ~Busy(u)
    BY <1>3 DEF Publish, SoloInv, Busy, Closing
  <2> QED
    BY <1>3, <2>1 DEF Publish, Busy, TypeOK, OpenInv
\* ... and the first close finds nobody raising it or tearing it down.
<1>4. ASSUME NEW t \in Threads, CloseBegin(t)
      PROVE  OpenInv'
  <2>1. \A u \in Threads \ {t} : pc[u] # "greeting" /\ pc[u] \notin Teardown
    BY <1>4 DEF CloseBegin, SoloInv, Busy, Closing, OpenInv
  <2> QED
    BY <1>4, <2>1 DEF CloseBegin, TypeOK, OpenInv
\* The close takes cmd_lock when no command holds it.
<1>5. ASSUME NEW t \in Threads, StopReader(t)
      PROVE  OpenInv'
  <2>1. \A u \in Threads : pc[u] # "inside"
    BY <1>5, SessionAssumption DEF StopReader, Drained, LockInv
  <2> QED
    BY <1>5, <2>1 DEF StopReader, TypeOK, OpenInv
<1>6. ASSUME NEW t \in Threads, CloseSecond(t) \/ JoinReader(t) \/ CloseTransport(t)
      PROVE  OpenInv'
  BY <1>6 DEF CloseSecond, JoinReader, CloseTransport, TypeOK, OpenInv
<1>7. CASE UNCHANGED <<pc, open>>
  BY <1>7 DEF OpenInv
<1>8. ASSUME \/ \E h \in Handles : ReaderStops(h) \/ ReaderLoses(h) \/ ReaderGivesUp(h)
             \/ Unplug \/ Done \/ UNCHANGED vars
      PROVE  UNCHANGED <<pc, open>>
  BY <1>8 DEF ReaderStops, ReaderLoses, ReaderGivesUp, LoseSession, Unplug, Done, vars
<1> QED
  BY <1>1, <1>2, <1>3, <1>4, <1>5, <1>6, <1>7, <1>8, SessionAssumption DEF Next, Step

\* The transport comes with the claim, for a cable that no other handle has,
\* and goes with the close or the failed opening.
LEMMA TransportNext ==
    ASSUME TypeOK, LockInv, Orderly', SoloInv, OpenInv, TransportInv, [Next]_vars
    PROVE  TransportInv'
<1> USE DEF Goto, Raising, Teardown, Some, flags, cable
<1>1. ASSUME NEW t \in Threads, FactoryClear(t)
      PROVE  TransportInv'
  <2>1. \A u \in Threads \ {t} : ~Busy(u)
    BY <1>1 DEF FactoryClear, SoloInv, Busy, Closing
  <2> QED
    BY <1>1, <2>1 DEF FactoryClear, Busy, TypeOK, OpenInv, TransportInv
<1>2. ASSUME NEW t \in Threads, FactoryClaims(t)
      PROVE  TransportInv'
  <2>1. handles' # None
    BY <1>2 DEF FactoryClaims, TypeOK, None
  <2>2. transport = None
    <3>1. \A u \in Threads \ {t} : ~Busy(u)
      BY <1>2 DEF FactoryClaims, SoloInv, Busy, Closing
    <3> QED
      BY <1>2, <3>1 DEF FactoryClaims, Busy, OpenInv, TransportInv
  <2>3. dead = {}
    BY <2>2 DEF TransportInv, TypeOK, None, Handles
  <2> QED
    BY <1>2, <2>1, <2>3 DEF FactoryClaims, TypeOK, TransportInv
<1>3. ASSUME NEW t \in Threads, SpawnFails(t)
      PROVE  TransportInv'
  <2>1. \A u \in Threads \ {t} : ~Busy(u)
    BY <1>3 DEF SpawnFails, SoloInv, Busy, Closing
  <2> QED
    BY <1>3, <2>1 DEF SpawnFails, Busy, TypeOK, OpenInv, TransportInv
<1>4. ASSUME NEW t \in Threads, CloseTransport(t)
      PROVE  TransportInv'
  <2>1. ~open /\ \A u \in Threads \ {t} : pc[u] \notin Teardown
    BY <1>4 DEF CloseTransport, OpenInv
  <2>2. \A u \in Threads \ {t} : pc[u] \notin Raising
    BY <1>4 DEF CloseTransport, SoloInv, Busy, Closing
  <2> QED
    BY <1>4, <2>1, <2>2 DEF CloseTransport, ReleaseCable, TypeOK, TransportInv
\* The other steps leave the cable with the handle that has it.
<1>5. ASSUME NEW t \in Threads,
             \/ PassThruOpen(t) \/ PassThruClose(t) \/ Command(t) \/ Enter(t) \/ Leave(t)
             \/ Refuse(t) \/ OpenFound(t) \/ OpenReset(t) \/ FactoryFails(t)
             \/ SpawnReader(t) \/ Publish(t) \/ Greet(t)
      PROVE  TransportInv'
  BY <1>5 DEF PassThruOpen, PassThruClose, Command, Enter, Leave, Refuse, Resume, After,
              OpenFound, OpenReset, FactoryFails, SpawnReader, Publish, Greet, TypeOK,
              TransportInv
<1>6. ASSUME NEW t \in Threads,
             CloseBegin(t) \/ CloseSecond(t) \/ StopReader(t) \/ JoinReader(t)
      PROVE  TransportInv'
  BY <1>6 DEF CloseBegin, CloseSecond, StopReader, JoinReader, TypeOK, TransportInv
<1>7. CASE \E h \in Handles : ReaderStops(h) \/ ReaderLoses(h) \/ ReaderGivesUp(h)
  BY <1>7 DEF ReaderStops, ReaderLoses, ReaderGivesUp, LoseSession, TransportInv
<1>8. CASE Unplug \/ Done \/ UNCHANGED vars
  BY <1>8 DEF Unplug, Done, vars, TransportInv
<1> QED
  BY <1>1, <1>2, <1>3, <1>4, <1>5, <1>6, <1>7, <1>8, SessionAssumption DEF Next, Step

\* The reader is the opening's; it is joined before the transport goes.
LEMMA ReaderNext ==
    ASSUME TypeOK, LockInv, Orderly', SoloInv, OpenInv, TransportInv, ReaderInv,
           [Next]_vars
    PROVE  ReaderInv'
<1> USE DEF Goto, Raising, Teardown, Some, flags, cable, counts
<1>1. ASSUME NEW t \in Threads, OpenReset(t)
      PROVE  ReaderInv'
  <2>1. \A u \in Threads \ {t} : ~Busy(u)
    BY <1>1 DEF OpenReset, SoloInv, Busy, Closing
  <2> QED
    BY <1>1, <2>1 DEF OpenReset, ClearFlags, Busy, TypeOK, ReaderInv
<1>2. ASSUME NEW t \in Threads, SpawnReader(t)
      PROVE  ReaderInv'
  <2>1. ~open /\ \A u \in Threads \ {t} : ~Busy(u)
    BY <1>2 DEF SpawnReader, SoloInv, OpenInv, Busy, Closing
  <2>2. readers = {}
    BY <1>2, <2>1 DEF SpawnReader, Busy, ReaderInv
  <2> QED
    BY <1>2, <2>1, <2>2 DEF SpawnReader, TypeOK, ReaderInv
<1>3. ASSUME NEW t \in Threads,
             FactoryClear(t) \/ FactoryClaims(t) \/ FactoryFails(t) \/ SpawnFails(t)
      PROVE  ReaderInv'
  <2>1. /\ UNCHANGED <<open, lost, readerStop, readerStarted, joined, readers, spawned>>
        /\ pc[t] \in {"clearing", "claiming", "spawning"}
        /\ pc'[t] \in {"claiming", "spawning", "idle"}
        /\ \A u \in Threads \ {t} : pc'[u] = pc[u]
    BY <1>3 DEF FactoryClear, FactoryClaims, FactoryFails, SpawnFails, TypeOK
  <2> QED
    BY <2>1 DEF ReaderInv
<1>4. ASSUME NEW t \in Threads, Publish(t)
      PROVE  ReaderInv'
  BY <1>4 DEF Publish, TypeOK, ReaderInv
<1>5. ASSUME NEW t \in Threads, CloseBegin(t)
      PROVE  ReaderInv'
  <2>1. ~Some({"publishing"})
    BY <1>5 DEF CloseBegin, OpenInv
  <2> QED
    BY <1>5, <2>1 DEF CloseBegin, TypeOK, ReaderInv
\* Told to stop, the reader is that of a session nobody can use any more.
<1>6. ASSUME NEW t \in Threads, StopReader(t)
      PROVE  ReaderInv'
  <2>1. ~open /\ ~Some(Raising)
    BY <1>6 DEF StopReader, OpenInv, SoloInv, Busy, Closing
  <2> QED
    BY <1>6, <2>1 DEF StopReader, TellReader, TypeOK, ReaderInv
<1>7. ASSUME NEW t \in Threads, JoinReader(t)
      PROVE  ReaderInv'
  <2>1. ~open /\ ~Some(Raising) /\ \A u \in Threads \ {t} : pc[u] \notin Teardown
    BY <1>7 DEF JoinReader, OpenInv, SoloInv, Busy, Closing
  <2>2. readers = {}
    BY <1>7 DEF JoinReader, ReaderJoined, ReaderInv
  <2> QED
    BY <1>7, <2>1, <2>2 DEF JoinReader, TypeOK, ReaderInv
<1>8. ASSUME NEW t \in Threads,
             \/ PassThruOpen(t) \/ PassThruClose(t) \/ Command(t) \/ Enter(t) \/ Leave(t)
             \/ Refuse(t) \/ OpenFound(t) \/ Greet(t) \/ CloseSecond(t)
             \/ CloseTransport(t)
      PROVE  ReaderInv'
  BY <1>8 DEF PassThruOpen, PassThruClose, Command, Enter, Leave, Refuse, Resume, After,
              OpenFound, Greet, CloseSecond, CloseTransport, TypeOK, ReaderInv
<1>9. CASE \E h \in Handles : ReaderStops(h) \/ ReaderLoses(h) \/ ReaderGivesUp(h)
  BY <1>9 DEF ReaderStops, ReaderLoses, ReaderGivesUp, LoseSession, ReaderInv
<1>10. CASE Unplug \/ Done \/ UNCHANGED vars
  BY <1>10 DEF Unplug, Done, vars, ReaderInv
<1> QED
  BY <1>1, <1>2, <1>3, <1>4, <1>5, <1>6, <1>7, <1>8, <1>9, <1>10,
     SessionAssumption DEF Next, Step
-----------------------------------------------------------------------------
LEMMA SessionInvInit == Init => IInv
<1> SUFFICES ASSUME Init PROVE IInv
  OBVIOUS
<1>1. TypeInv
  BY TypeInit
<1>2. LockInv
  BY SessionAssumption DEF Init, LockInv
<1>3. SoloInv /\ OpenInv
  BY DEF Init, SoloInv, Busy, OpenInv, Raising, Teardown
<1>4. TransportInv /\ ReaderInv
  BY DEF Init, TransportInv, ReaderInv, Some, Raising, Teardown, None
<1> QED
  BY <1>1, <1>2, <1>3, <1>4 DEF IInv, OrderlyInv

\* What has raced stays raced.
LEMMA OrderlyBefore ==
    ASSUME [Next]_vars, Orderly'
    PROVE  Orderly
BY DEF Orderly, counts, vars, Next, Step, PassThruOpen, PassThruClose, Command, OpenFound,
       OpenReset, FactoryClear, FactoryClaims, FactoryFails, SpawnReader, SpawnFails,
       Publish, Greet, Enter, Leave, Refuse, CloseBegin, CloseSecond, StopReader,
       JoinReader, CloseTransport, ReaderStops, ReaderLoses, ReaderGivesUp, LoseSession,
       Unplug, Done

LEMMA SessionInvNext == IInv /\ [Next]_vars => IInv'
<1> SUFFICES ASSUME IInv, [Next]_vars PROVE IInv'
  OBVIOUS
<1>1. TypeInv' /\ LockInv'
  BY TypeNext, LockNext DEF IInv, TypeInv
<1>2. ASSUME Orderly'
      PROVE  OrderlyInv'
  <2>1. OrderlyInv
    BY <1>2, OrderlyBefore DEF IInv
  <2> QED
    BY <1>2, <2>1, SoloNext, OpenNext, TransportNext, ReaderNext
       DEF IInv, TypeInv, OrderlyInv
<1> QED
  BY <1>1, <1>2 DEF IInv

LEMMA SessionInvariance == Spec => []IInv
BY SessionInvInit, SessionInvNext, PTL DEF Spec

\* op_device_close waits for the command under way before it closes the
\* transport, and a command that takes cmd_lock after it sends nothing
\* (op_device.c:594-596).
THEOREM TransportOutlivesEveryCommand == Spec => []OrderlyCommandKeepsTransport
<1>1. IInv => OrderlyCommandKeepsTransport
  <2> SUFFICES ASSUME OrderlyInv, NEW t \in Threads, pc[t] = "inside"
               PROVE  transport # None
    BY DEF IInv, OrderlyCommandKeepsTransport, CommandKeepsTransport
  <2> QED
    BY DEF OrderlyInv, OpenInv, TransportInv, Some, Teardown
<1> QED
  BY <1>1, SessionInvariance, PTL

\* op_device_close joins the reader thread before op_close frees what it reads
\* from, and no thread of an earlier session outlives it.
THEOREM ReaderIsJoinedFirst == Spec => []ReaderHasTransport
<1>1. IInv => ReaderHasTransport
  <2> SUFFICES ASSUME OrderlyInv
               PROVE  /\ readers # {} => transport # None /\ readers = {spawned}
                      /\ (\E t \in Threads : pc[t] = "greeting") => transport # None
    BY DEF IInv, ReaderHasTransport
  <2> QED
    BY DEF OrderlyInv, OpenInv, TransportInv, ReaderInv, Some, Teardown
<1> QED
  BY <1>1, SessionInvariance, PTL

\* Whatever fails on the way up and whoever closes, a handle that is no longer
\* in d->t has released the cable.
THEOREM HandlesAreReleased == Spec => []NoHandleLeaks
<1>1. IInv => NoHandleLeaks
  <2>1. ASSUME OrderlyInv, TypeOK, ~open, \A t \in Threads : pc[t] = "idle"
        PROVE  held \cup dead = {}
    <3>1. transport = None
      BY <2>1 DEF OrderlyInv, TransportInv, Some, Teardown
    <3> QED
      BY <2>1, <3>1 DEF OrderlyInv, TransportInv, TypeOK, None, Handles
  <2> QED
    BY <2>1 DEF IInv, TypeInv, NoHandleLeaks, OrderlyInv, TransportInv
<1> QED
  BY <1>1, SessionInvariance, PTL

\* A session left open can serve the next command, however it was opened and
\* whatever was closed before.
THEOREM OpenSessionIsServed == Spec => []OpenIsServed
<1>1. IInv => OpenIsServed
  BY DEF IInv, OrderlyInv, OpenIsServed, TransportInv, ReaderInv
<1> QED
  BY <1>1, SessionInvariance, PTL
=============================================================================
