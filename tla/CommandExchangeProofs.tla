----------------------- MODULE CommandExchangeProofs -----------------------
(***************************************************************************)
(* Proofs about CommandExchange and about ReplyStorage, which adds the     *)
(* buffers behind a reply to it, for any number of threads, calls and      *)
(* stale replies and for any width of the sequence numbers.                *)
(***************************************************************************)
EXTENDS ReplyStorage, FiniteSetTheorems, SequenceTheorems, TLAPS

(***************************************************************************)
(* A command takes its number after its call was counted, so the commands  *)
(* issued and those still on their way to the slot fit in the calls made.  *)
(***************************************************************************)
Unissued == {t \in Threads : pc[t] \in {"called", "begun"}}
CountInv == issued + Cardinality(Unissued) <= calls
TypeInv == TypeOK /\ CountInv

\* Which threads are on their way to the slot is a finite set, and its size a
\* number.
LEMMA UnissuedFinite ==
    /\ IsFiniteSet(Unissued)
    /\ Cardinality(Unissued) \in Nat
<1>1. Unissued \in SUBSET Threads
  BY DEF Unissued
<1>2. IsFiniteSet(Unissued)
  BY <1>1, ThreadsAssumption, FS_Subset
<1> QED
  BY <1>2, FS_CardinalityType

\* A thread that leaves the way to the slot makes room for one command.
LEMMA UnissuedShrinks ==
    ASSUME NEW t \in Threads, TypeInv, t \in Unissued
    PROVE  /\ Cardinality(Unissued \ {t}) = Cardinality(Unissued) - 1
           /\ issued + 1 <= calls
           /\ issued + 1 \in 0 .. MaxCalls
<1>1. /\ Cardinality(Unissued \ {t}) = Cardinality(Unissued) - 1
      /\ Cardinality(Unissued \ {t}) \in Nat
  BY UnissuedFinite, FS_RemoveElement, FS_CardinalityType
<1> QED
  BY <1>1, UnissuedFinite, NumbersAssumption DEF TypeInv, CountInv, TypeOK

\* The wrap of seq_next stays above the key bytes.
LEMMA SuccessorType ==
    ASSUME NEW n \in Numbers
    PROVE  Successor(n) \in Numbers
BY NumbersAssumption DEF Successor, Numbers

\* What a call returns has the type of a result.
LEMMA ReturnType ==
    ASSUME NEW t \in Threads, TypeOK, NEW s \in Statuses, NEW r \in Replies,
           Return(t, s, r)
    PROVE  outcome' \in [Threads -> [status : Statuses, cmd : 0 .. MaxCalls,
                                    verb : Verbs, reply : Replies]]
BY DEF Return, TypeOK

\* The cable's answers are replies, and carry the command's number or none.
LEMMA AnswerType ==
    ASSUME NEW m \in Commands, NEW r \in AnswersTo(m)
    PROVE  r \in Replies /\ r.cmd = m.cmd /\ r.seq \in {0, m.seq}
<1>1. m.verb \in {"plain", "fastInit", "fiveBaud", "version"} /\ m.cmd \in 0 .. MaxCalls
      /\ m.seq \in {0} \cup Numbers
  BY DEF Commands, Verbs
<1>2. CASE m.verb = "version"
  BY <1>1, <1>2 DEF AnswersTo, Replies
<1>3. CASE m.verb = "plain"
  BY <1>1, <1>3 DEF AnswersTo, Replies
<1>4. CASE m.verb \in {"fastInit", "fiveBaud"}
  BY <1>1, <1>4 DEF AnswersTo, Replies
<1> QED
  BY <1>1, <1>2, <1>3, <1>4

\* The initial states satisfy the type invariant.
LEMMA TypeInit == Init => TypeInv
<1> SUFFICES ASSUME Init PROVE TypeInv
  OBVIOUS
<1>1. NoReply \in Replies
  BY NumbersAssumption DEF NoReply, Replies
<1>2. fromDev \in Seq(Replies)
  <2>1. PICK n \in 0 .. StaleReplies : fromDev \in [1 .. n -> Stale(seqNext)]
    BY DEF Init
  <2>2. n \in Nat
    BY <2>1, WireAssumption
  <2>3. fromDev \in [1 .. n -> Replies]
    BY <2>1 DEF Stale
  <2> QED
    BY <2>2, <2>3, SeqDef
<1>3. toDev \in Seq(Commands)
  BY EmptySeq DEF Init
<1>4. Unissued = {}
  BY DEF Init, Unissued
<1>5. CountInv
  BY <1>4, FS_EmptySet DEF Init, CountInv
<1>6. /\ numberOf \in [0 .. MaxCalls -> {0} \cup Numbers]
      /\ issued \in 0 .. MaxCalls /\ calls \in 0 .. MaxCalls
      /\ command \in [Threads -> 0 .. MaxCalls]
      /\ seqNext \in Numbers /\ start \in Numbers /\ seqPending \in {0} \cup Numbers
  BY NumbersAssumption DEF Init
<1>7. outcome \in [Threads -> [status : Statuses, cmd : 0 .. MaxCalls,
                             verb : Verbs, reply : Replies]]
  BY <1>1, NumbersAssumption DEF Init, Verbs, Statuses
<1>8. TypeOK
  BY <1>1, <1>2, <1>3, <1>6, <1>7 DEF Init, TypeOK, PCs, Verbs
<1> QED
  BY <1>5, <1>8 DEF TypeInv

\* No step leaves the types or the count.
LEMMA TypeNext == TypeInv /\ [Next]_vars => TypeInv'
<1> SUFFICES ASSUME TypeInv, [Next]_vars PROVE TypeInv'
  OBVIOUS
<1> USE NumbersAssumption
<1>a. TypeOK /\ CountInv
  BY DEF TypeInv
<1>b. NoReply \in Replies
  BY DEF NoReply, Replies
<1>1. ASSUME NEW t \in Threads, NEW v \in Verbs, NEW w \in BOOLEAN, Call(t, v, w)
      PROVE  TypeInv'
  <2>1. Unissued' = Unissued \cup {t} /\ t \notin Unissued
    BY <1>a, <1>1 DEF Call, Goto, Unissued, TypeOK
  <2>2. Cardinality(Unissued') = Cardinality(Unissued) + 1
    BY <2>1, UnissuedFinite, FS_AddElement
  <2>3. TypeOK'
    BY <1>a, <1>1 DEF Call, Goto, TypeOK, PCs, sessionVars, slotVars, wireVars,
                      numberVars
  <2>4. CountInv'
    BY <1>a, <1>1, <2>2, UnissuedFinite DEF Call, CountInv, TypeOK, numberVars
  <2> QED
    BY <2>3, <2>4 DEF TypeInv
<1>2. ASSUME NEW t \in Threads, Begin(t)
      PROVE  TypeInv'
  <2>1. Unissued' = Unissued
    BY <1>a, <1>2 DEF Begin, Goto, Unissued, TypeOK
  <2>2. TypeOK'
    BY <1>a, <1>2 DEF Begin, Acquire, Goto, TypeOK, PCs, sessionVars, slotVars,
                      wireVars, numberVars, callVars
  <2>3. CountInv'
    BY <1>a, <1>2, <2>1 DEF Begin, CountInv, callVars, numberVars
  <2> QED
    BY <2>2, <2>3 DEF TypeInv
<1>3. ASSUME NEW t \in Threads, Refuse(t)
      PROVE  TypeInv'
  <2>1. Unissued' = Unissued \ {t} /\ t \in Unissued
    BY <1>a, <1>3 DEF Refuse, Goto, Unissued, TypeOK
  <2>2. TypeOK'
    BY <1>a, <1>b, <1>3 DEF Refuse, Goto, TypeOK, PCs, Statuses, sessionVars,
                            slotVars, wireVars, callVars
  <2>3. Cardinality(Unissued') = Cardinality(Unissued) - 1
    BY <2>1, UnissuedShrinks
  <2>4. CountInv'
    BY <1>a, <1>3, <2>3, UnissuedFinite DEF Refuse, CountInv, TypeOK, callVars
  <2> QED
    BY <2>2, <2>4 DEF TypeInv
<1>4. ASSUME NEW t \in Threads, Claim(t)
      PROVE  TypeInv'
  <2>1. Unissued' = Unissued \ {t} /\ t \in Unissued
    BY <1>a, <1>4 DEF Claim, Goto, Unissued, TypeOK
  <2>2. /\ Cardinality(Unissued') = Cardinality(Unissued) - 1
        /\ issued' = issued + 1 /\ issued' \in 0 .. MaxCalls
    BY <1>4, <2>1, UnissuedShrinks DEF Claim
  <2>3. Successor(seqNext) \in Numbers
    BY <1>a, SuccessorType DEF TypeOK
  <2>4. seqNext' \in Numbers /\ seqPending' \in {0} \cup Numbers
    BY <1>a, <1>4, <2>3 DEF Claim, TypeOK
  <2>5. TypeOK'
    BY <1>a, <1>4, <2>2, <2>4 DEF Claim, Goto, TypeOK, PCs, sessionVars, wireVars,
                                  callVars
  <2>6. CountInv'
    BY <1>a, <1>4, <2>2, UnissuedFinite DEF Claim, CountInv, TypeOK, callVars
  <2> QED
    BY <2>5, <2>6 DEF TypeInv
<1>4b. ASSUME NEW t \in Threads, pc[t] \notin {"called", "begun"},
              pc' = [pc EXCEPT ![t] = "idle"] \/ pc' = [pc EXCEPT ![t] = "written"]
                \/ pc' = [pc EXCEPT ![t] = "closing"],
              UNCHANGED <<issued, calls>>
       PROVE  CountInv'
  <2>1. Unissued' = Unissued
    BY <1>a, <1>4b DEF Unissued, TypeOK
  <2> QED
    BY <1>a, <1>4b, <2>1 DEF CountInv
<1>4c. ASSUME UNCHANGED <<pc, issued, calls>>
       PROVE  CountInv'
  BY <1>a, <1>4c DEF CountInv, Unissued
<1>4d. ASSUME NEW t \in Threads, pc[t] = "claimed"
       PROVE  Line(t) \in Commands
  BY <1>a DEF Line, Commands, TypeOK
<1>5. ASSUME NEW t \in Threads, Write(t)
      PROVE  TypeInv'
  <2>1. toDev' \in Seq(Commands)
    BY <1>a, <1>4d, <1>5, AppendProperties DEF Write, Goto, TypeOK
  <2>2. TypeOK'
    BY <1>a, <1>5, <2>1 DEF Write, Goto, TypeOK, PCs, sessionVars, slotVars,
                            numberVars, callVars
  <2>3. CountInv'
    BY <1>4b, <1>5 DEF Write, Goto, callVars, numberVars
  <2> QED
    BY <2>2, <2>3 DEF TypeInv
<1>6. ASSUME NEW t \in Threads, WriteNowait(t) \/ WriteFails(t)
      PROVE  TypeInv'
  <2>1. toDev' \in Seq(Commands)
    <3>1. pc[t] = "claimed" /\ toDev' \in {toDev, Append(toDev, Line(t))}
      BY <1>6 DEF WriteNowait, WriteFails, Goto
    <3> QED
      <4>1. Line(t) \in Commands
        BY <1>4d, <3>1
      <4>2. toDev \in Seq(Commands)
        BY <1>a DEF TypeOK
      <4> QED
        BY <3>1, <4>1, <4>2, AppendProperties
  <2>2. outcome' \in [Threads -> [status : Statuses, cmd : 0 .. MaxCalls,
                                 verb : Verbs, reply : Replies]]
    BY <1>a, <1>b, <1>6, ReturnType DEF WriteNowait, WriteFails, Statuses
  <2>3. TypeOK'
    BY <1>a, <1>6, <2>1, <2>2
       DEF WriteNowait, WriteFails, GiveUpSlot, Release, Goto, TypeOK, PCs,
           sessionVars, numberVars, callVars
  <2>4. CountInv'
    BY <1>4b, <1>6 DEF WriteNowait, WriteFails, Goto, callVars, numberVars
  <2> QED
    BY <2>3, <2>4 DEF TypeInv
<1>7. ASSUME NEW t \in Threads, TakeReply(t) \/ WakeGone(t) \/ TimeOut(t)
      PROVE  TypeInv'
  <2>1. outcome' \in [Threads -> [status : Statuses, cmd : 0 .. MaxCalls,
                                 verb : Verbs, reply : Replies]]
    <3>1. reply \in Replies
      BY <1>a DEF TypeOK
    <3> QED
      BY <1>a, <1>b, <1>7, <3>1, ReturnType DEF TakeReply, WakeGone, TimeOut, Statuses
  <2>2. TypeOK'
    BY <1>a, <1>7, <2>1
       DEF TakeReply, WakeGone, TimeOut, Finish, GiveUpSlot, Release, Goto, TypeOK,
           PCs, sessionVars, numberVars, callVars, wireVars
  <2>3. CountInv'
    BY <1>4b, <1>7
       DEF TakeReply, WakeGone, TimeOut, Finish, Goto, callVars, numberVars
  <2> QED
    BY <2>2, <2>3 DEF TypeInv
<1>8. ASSUME NEW t \in Threads, CloseBegin(t) \/ CloseEnd(t)
      PROVE  TypeInv'
  <2>1. TypeOK'
    BY <1>a, <1>8 DEF CloseBegin, CloseEnd, Goto, TypeOK, PCs, slotVars, numberVars,
                      callVars, wireVars
  <2>2. CountInv'
    BY <1>4b, <1>8 DEF CloseBegin, CloseEnd, Goto, callVars, numberVars
  <2> QED
    BY <2>1, <2>2 DEF TypeInv
<1>9. ASSUME DeviceAnswer \/ DeviceSwallow
      PROVE  TypeInv'
  <2>1. /\ toDev # <<>> /\ toDev' = Tail(toDev)
        /\ fromDev' = fromDev
              \/ \E r \in AnswersTo(Head(toDev)) : fromDev' = Append(fromDev, r)
    BY <1>9 DEF DeviceAnswer, DeviceSwallow
  <2>2. Head(toDev) \in Commands /\ toDev' \in Seq(Commands)
    BY <1>a, <2>1, HeadTailProperties DEF TypeOK
  <2>3. fromDev' \in Seq(Replies)
    <3>1. fromDev \in Seq(Replies)
      BY <1>a DEF TypeOK
    <3>2. \A r \in AnswersTo(Head(toDev)) : r \in Replies
      BY <2>2, AnswerType
    <3> QED
      BY <2>1, <3>1, <3>2, AppendProperties
  <2>4. TypeOK'
    BY <1>a, <1>9, <2>2, <2>3
       DEF DeviceAnswer, DeviceSwallow, TypeOK, sessionVars, slotVars, numberVars,
           callVars
  <2>5. CountInv'
    BY <1>4c, <1>9 DEF DeviceAnswer, DeviceSwallow, callVars, numberVars
  <2> QED
    BY <2>4, <2>5 DEF TypeInv
<1>10. ASSUME StashReply
       PROVE  TypeInv'
  <2>1. Head(fromDev) \in Replies /\ fromDev' \in Seq(Replies)
    BY <1>a, <1>10, HeadTailProperties DEF StashReply, TypeOK
  <2>2. reply' \in Replies /\ replyValid' \in BOOLEAN
    BY <1>a, <1>10, <2>1 DEF StashReply, TypeOK
  <2>3. TypeOK'
    BY <1>a, <1>10, <2>1, <2>2
       DEF StashReply, TypeOK, sessionVars, numberVars, callVars
  <2>4. CountInv'
    BY <1>4c, <1>10 DEF StashReply, callVars, numberVars
  <2> QED
    BY <2>3, <2>4 DEF TypeInv
<1>11. ASSUME ReaderLost
       PROVE  TypeInv'
  <2>1. TypeOK'
    BY <1>a, <1>11 DEF ReaderLost, TypeOK, slotVars, numberVars, callVars, wireVars
  <2>2. CountInv'
    BY <1>4c, <1>11 DEF ReaderLost, callVars, numberVars
  <2> QED
    BY <2>1, <2>2 DEF TypeInv
<1>12. CASE UNCHANGED vars
  <2>1. TypeOK'
    BY <1>a, <1>12 DEF TypeOK, vars, sessionVars, slotVars, numberVars, callVars,
                       wireVars
  <2>2. CountInv'
    BY <1>4c, <1>12 DEF vars, callVars, numberVars
  <2> QED
    BY <2>1, <2>2 DEF TypeInv
<1> QED
  BY <1>1, <1>2, <1>3, <1>4, <1>5, <1>6, <1>7, <1>8, <1>9, <1>10, <1>11, <1>12
     DEF Next, Step, Done

\* Every state has the types of op_device.h's fields, for every number of
\* threads, calls and stale replies: the sequence number never leaves
\* 256 .. 2^32 - 1.
THEOREM TypeCorrect == Spec => []TypeOK
<1>1. TypeInv => TypeOK
  BY DEF TypeInv
<1> QED
  BY <1>1, TypeInit, TypeNext, PTL DEF Spec
-----------------------------------------------------------------------------
(***************************************************************************)
(* The strengthening.  cmd_lock is held by the thread that is inside a     *)
(* transaction, and that thread runs the latest command issued.  Numbers   *)
(* are given out in a circle from `start`; fewer than a whole turn are     *)
(* given out, so no two commands share one.  A message on the wire carries *)
(* its own command's number, or none, or a number of an earlier session    *)
(* that this one never reaches.                                            *)
(***************************************************************************)
Inside == {"begun", "claimed", "written"}
Claimed == {"claimed", "written"}

LockInv ==
    /\ \A t \in Threads : pc[t] \in Inside <=> cmdLock = t
    /\ \A t \in Threads : pc[t] \in Claimed => command[t] = issued /\ issued # 0

Span == NumberLimit - FirstNumber

\* How far round the circle a number is.
Distance(n) == IF n >= start THEN n - start ELSE n + Span - start

NumberInv ==
    /\ Distance(seqNext) <= issued
    /\ numberOf[0] = 0
    /\ \A c \in 0 .. issued :
          numberOf[c] # 0 => Distance(numberOf[c]) < Distance(seqNext)
    /\ \A c, d \in 0 .. issued :
          numberOf[c] # 0 /\ numberOf[c] = numberOf[d] => c = d

CommandInv ==
    \A i \in 1 .. Len(toDev) :
        toDev[i].cmd \in 1 .. issued /\ toDev[i].seq = numberOf[toDev[i].cmd]

Genuine(r) ==
    \/ r.seq = 0
    \/ r.cmd \in 1 .. issued /\ r.seq = numberOf[r.cmd]
    \/ r.cmd = 0 /\ Distance(r.seq) >= MaxCalls
ReplyInv == \A i \in 1 .. Len(fromDev) : Genuine(fromDev[i])

SlotInv ==
    /\ cmdWaiting => cmdLock # NoThread
    /\ \A t \in Threads :
          /\ cmdWaiting /\ cmdLock = t => pc[t] \in Claimed
          /\ pc[t] \in Claimed =>
               /\ seqPending = numberOf[issued] /\ cmdVerb = verb[t]
               /\ verb[t] # "version" => seqPending # 0
               /\ replyValid /\ verb[t] = "plain" => reply.cmd = issued

IInv == /\ TypeInv /\ LockInv /\ NumberInv /\ CommandInv /\ ReplyInv
        /\ SlotInv /\ OwnReply

\* Going on by one number is one step on the circle.
LEMMA DistanceStep ==
    ASSUME NEW n \in Numbers, start \in Numbers, Distance(n) < MaxCalls
    PROVE  Distance(Successor(n)) = Distance(n) + 1
BY NumbersAssumption DEF Distance, Successor, Span, Numbers

\* Two numbers at one place of the circle are one.
LEMMA DistanceType ==
    ASSUME NEW n \in Numbers, start \in Numbers
    PROVE  Distance(n) \in 0 .. Span - 1
BY NumbersAssumption DEF Distance, Span, Numbers

\* A number this session does not give out lies beyond its last one.
LEMMA StaleDistance ==
    ASSUME NEW n \in Numbers, start \in Numbers, n \notin Reachable(start)
    PROVE  Distance(n) >= MaxCalls
BY NumbersAssumption DEF Distance, Reachable, Span, Numbers

\* The initial states satisfy the invariant.
LEMMA IInit == Init => IInv
<1> SUFFICES ASSUME Init PROVE IInv
  OBVIOUS
<1>1. TypeInv /\ TypeOK
  BY TypeInit DEF TypeInv
<1>2. LockInv
  BY ThreadsAssumption DEF Init, LockInv, Inside, Claimed
<1>3. NumberInv
  BY NumbersAssumption DEF Init, NumberInv, Distance, Numbers
<1>4. CommandInv
  BY EmptySeq DEF Init, CommandInv
<1>5. ReplyInv
  <2>1. PICK n \in 0 .. StaleReplies : fromDev \in [1 .. n -> Stale(seqNext)]
    BY DEF Init
  <2>2. Len(fromDev) = n /\ n \in Nat
    BY <1>1, <2>1, WireAssumption, LenProperties DEF TypeOK
  <2> SUFFICES ASSUME NEW i \in 1 .. Len(fromDev) PROVE Genuine(fromDev[i])
    BY DEF ReplyInv
  <2>3. fromDev[i] \in Stale(start)
    BY <2>1, <2>2 DEF Init
  <2> QED
    BY <1>1, <2>3, StaleDistance DEF Genuine, Stale, Replies, TypeOK
<1>6. SlotInv
  BY DEF Init, SlotInv, Claimed
<1>7. OwnReply
  BY DEF Init, OwnReply
<1> QED
  BY <1>1, <1>2, <1>3, <1>4, <1>5, <1>6, <1>7 DEF IInv

\* cmd_lock follows the transactions, step by step.
LEMMA LockNext == TypeOK /\ LockInv /\ [Next]_vars => LockInv'
<1> SUFFICES ASSUME TypeOK, LockInv, [Next]_vars PROVE LockInv'
  OBVIOUS
<1> USE DEF LockInv, Inside, Claimed, TypeOK, Goto
<1>1. ASSUME NEW t \in Threads, NEW v \in Verbs, NEW w \in BOOLEAN, Call(t, v, w)
      PROVE  LockInv'
  BY <1>1 DEF Call, numberVars
<1>2. ASSUME NEW t \in Threads, Begin(t)
      PROVE  LockInv'
  BY <1>2, ThreadsAssumption DEF Begin, Acquire, numberVars
<1>3. ASSUME NEW t \in Threads, Refuse(t)
      PROVE  LockInv'
  BY <1>3 DEF Refuse
<1>4. ASSUME NEW t \in Threads, Claim(t)
      PROVE  LockInv'
  BY <1>4, NumbersAssumption DEF Claim
<1>5. ASSUME NEW t \in Threads, Write(t)
      PROVE  LockInv'
  BY <1>5 DEF Write, numberVars
<1>6. ASSUME NEW t \in Threads, WriteNowait(t) \/ WriteFails(t)
      PROVE  LockInv'
  BY <1>6, ThreadsAssumption DEF WriteNowait, WriteFails, Release, numberVars
<1>7. ASSUME NEW t \in Threads, TakeReply(t) \/ WakeGone(t) \/ TimeOut(t)
      PROVE  LockInv'
  BY <1>7, ThreadsAssumption
     DEF TakeReply, WakeGone, TimeOut, Finish, Release, numberVars
<1>8. ASSUME NEW t \in Threads, CloseBegin(t) \/ CloseEnd(t)
      PROVE  LockInv'
  BY <1>8, ThreadsAssumption DEF CloseBegin, CloseEnd, numberVars
<1>9. CASE DeviceAnswer \/ DeviceSwallow
  BY <1>9 DEF DeviceAnswer, DeviceSwallow, numberVars
<1>10. CASE StashReply \/ ReaderLost
  BY <1>10 DEF StashReply, ReaderLost, numberVars
<1>11. CASE UNCHANGED vars
  BY <1>11 DEF vars, numberVars
<1> QED
  BY <1>1, <1>2, <1>3, <1>4, <1>5, <1>6, <1>7, <1>8, <1>9, <1>10, <1>11
     DEF Next, Step, Done

\* Only Claim gives out a number, and it gives out a new one.
LEMMA ClaimNumbers ==
    ASSUME IInv, TypeInv', NEW t \in Threads, Claim(t)
    PROVE  /\ NumberInv'
           /\ \A c \in 0 .. issued : numberOf'[c] = numberOf[c]
           /\ verb[t] # "version" => numberOf'[issued'] # 0
           /\ \A n \in Numbers : Distance(n)' = Distance(n)
<1>1. TypeOK /\ TypeOK' /\ NumberInv
  BY DEF IInv, TypeInv
<1>2. /\ issued' = issued + 1 /\ issued \in 0 .. MaxCalls /\ issued' \in 0 .. MaxCalls
      /\ start' = start /\ start \in Numbers
      /\ seqPending' = IF verb[t] = "version" THEN 0 ELSE seqNext
      /\ seqNext' = IF verb[t] = "version" THEN seqNext ELSE Successor(seqNext)
      /\ seqNext \in Numbers
      /\ numberOf' = [numberOf EXCEPT ![issued'] = seqPending']
      /\ numberOf \in [0 .. MaxCalls -> {0} \cup Numbers]
  BY <1>1 DEF Claim, TypeOK
<1>3. /\ numberOf'[issued'] = seqPending'
      /\ \A c \in 0 .. issued : c # issued' /\ numberOf'[c] = numberOf[c]
  BY <1>2, NumbersAssumption
<1>4. \A n \in Numbers : Distance(n)' = Distance(n)
  BY <1>2 DEF Distance
<1>5. seqNext # 0
  BY <1>2, NumbersAssumption DEF Numbers
<1>6. \A c \in 0 .. issued' : c \in 0 .. issued \/ c = issued'
  BY <1>2, NumbersAssumption
<1>7. \A c \in 0 .. issued : numberOf[c] # 0 =>
          numberOf[c] \in Numbers /\ Distance(numberOf[c]) < Distance(seqNext)
  BY <1>1, <1>2, NumbersAssumption DEF NumberInv
<1>8. numberOf'[0] = 0
  BY <1>1, <1>2, <1>3, NumbersAssumption DEF NumberInv
<1>9. CASE verb[t] = "version"
  <2>1. seqNext' = seqNext /\ numberOf'[issued'] = 0
    BY <1>2, <1>3, <1>9
  <2>2. Distance(seqNext)' = Distance(seqNext) /\ Distance(seqNext) \in Int
    BY <1>2, <1>4, <2>1, NumbersAssumption DEF Distance, Span, Numbers
  <2>3. Distance(seqNext)' <= issued'
    BY <1>1, <1>2, <2>2, NumbersAssumption DEF NumberInv
  <2>4. \A c \in 0 .. issued' :
           (numberOf[c] # 0)' => (Distance(numberOf[c]) < Distance(seqNext))'
    BY <1>3, <1>4, <1>6, <1>7, <2>1, <2>2 DEF Distance
  <2>5. \A c, d \in 0 .. issued' :
           numberOf'[c] # 0 /\ numberOf'[c] = numberOf'[d] => c = d
    BY <1>1, <1>3, <1>6, <2>1 DEF NumberInv
  <2> QED
    BY <1>3, <1>4, <1>8, <1>9, <2>3, <2>4, <2>5 DEF NumberInv
<1>10. CASE verb[t] # "version"
  <2>1. seqNext' = Successor(seqNext) /\ numberOf'[issued'] = seqNext
    BY <1>2, <1>3, <1>10
  <2>2. Distance(seqNext) \in Int /\ Distance(seqNext) < MaxCalls
    BY <1>1, <1>2, DistanceType, NumbersAssumption DEF NumberInv
  <2>3. Distance(seqNext)' = Distance(seqNext) + 1
    BY <1>1, <1>2, <1>4, <2>1, <2>2, DistanceStep DEF TypeOK
  <2>4. Distance(seqNext)' <= issued'
    BY <1>1, <1>2, <2>2, <2>3, NumbersAssumption DEF NumberInv
  <2>5. \A c \in 0 .. issued' :
           (numberOf[c] # 0)' => (Distance(numberOf[c]) < Distance(seqNext))'
    <3> SUFFICES ASSUME NEW c \in 0 .. issued', numberOf'[c] # 0
                 PROVE  Distance(numberOf[c])' < Distance(seqNext)'
      OBVIOUS
    <3>1. CASE c \in 0 .. issued
      BY <1>2, <1>3, <1>4, <1>7, <2>2, <2>3, <3>1, DistanceType DEF Distance
    <3>2. CASE c = issued'
      BY <1>2, <1>4, <2>1, <2>2, <2>3, <3>2 DEF Distance
    <3> QED
      BY <1>6, <3>1, <3>2
  <2>6. \A c \in 0 .. issued : numberOf'[c] # seqNext
    BY <1>3, <1>5, <1>7, <2>2
  <2>7. \A c, d \in 0 .. issued' :
           numberOf'[c] # 0 /\ numberOf'[c] = numberOf'[d] => c = d
    BY <1>1, <1>3, <1>6, <2>1, <2>6 DEF NumberInv
  <2> QED
    BY <1>3, <1>4, <1>5, <1>8, <1>10, <2>1, <2>4, <2>5, <2>7 DEF NumberInv
<1> QED
  BY <1>9, <1>10

\* The numbers stay apart.
LEMMA NumberNext == IInv /\ TypeInv' /\ [Next]_vars => NumberInv'
<1> SUFFICES ASSUME IInv, TypeInv', [Next]_vars PROVE NumberInv'
  OBVIOUS
<1>1. ASSUME NEW t \in Threads, Claim(t)
      PROVE  NumberInv'
  BY <1>1, ClaimNumbers
<1>2. ASSUME UNCHANGED <<seqNext, issued, numberOf, start>>
      PROVE  NumberInv'
  BY <1>2 DEF IInv, NumberInv, Distance
<1>3. (\E t \in Threads : Claim(t)) \/ UNCHANGED <<seqNext, issued, numberOf, start>>
  BY DEF Next, Step, Call, Begin, Refuse, Write, WriteNowait, WriteFails, TakeReply,
         WakeGone, TimeOut, Finish, CloseBegin, CloseEnd, DeviceAnswer,
         DeviceSwallow, StashReply, ReaderLost, Done, vars, numberVars
<1> QED
  BY <1>1, <1>2, <1>3

\* The line a claimed command writes carries its own number.
LEMMA LineOwn ==
    ASSUME IInv, NEW t \in Threads, pc[t] = "claimed"
    PROVE  /\ Line(t) \in Commands
           /\ Line(t).cmd \in 1 .. issued
           /\ Line(t).seq = numberOf[Line(t).cmd]
<1>1. /\ command[t] = issued /\ issued # 0 /\ issued \in 0 .. MaxCalls
      /\ verb[t] \in Verbs /\ numberOf[issued] \in {0} \cup Numbers
  BY DEF IInv, TypeInv, TypeOK, LockInv, Claimed
<1> QED
  BY <1>1, NumbersAssumption DEF Line, Commands

\* Every command on the wire carries its own number.
LEMMA CommandNext == IInv /\ [Next]_vars => CommandInv'
<1> SUFFICES ASSUME IInv, [Next]_vars PROVE CommandInv'
  OBVIOUS
<1>a. /\ TypeOK /\ CommandInv /\ toDev \in Seq(Commands) /\ issued \in 0 .. MaxCalls
  BY DEF IInv, TypeInv, TypeOK
<1>1. ASSUME NEW t \in Threads, Claim(t)
      PROVE  CommandInv'
  <2>1. /\ issued' = issued + 1 /\ toDev' = toDev
        /\ \A c \in 0 .. issued : numberOf'[c] = numberOf[c]
    BY <1>a, <1>1, NumbersAssumption DEF Claim, wireVars, TypeOK
  <2> QED
    BY <1>a, <2>1, NumbersAssumption DEF CommandInv
<1>2. ASSUME NEW t \in Threads, pc[t] = "claimed", toDev' = Append(toDev, Line(t)),
             UNCHANGED <<issued, numberOf>>
      PROVE  CommandInv'
  <2>1. /\ Line(t) \in Commands
        /\ Line(t).cmd \in 1 .. issued
        /\ Line(t).seq = numberOf[Line(t).cmd]
    BY <1>2, LineOwn
  <2>2. /\ Len(toDev') = Len(toDev) + 1
        /\ toDev'[Len(toDev) + 1] = Line(t)
        /\ \A i \in 1 .. Len(toDev) : toDev'[i] = toDev[i]
        /\ Len(toDev) \in Nat
    BY <1>a, <1>2, <2>1, AppendProperties, LenProperties
  <2>3. \A i \in 1 .. Len(toDev') : i \in 1 .. Len(toDev) \/ i = Len(toDev) + 1
    BY <2>2
  <2> QED
    BY <1>a, <1>2, <2>1, <2>2, <2>3 DEF CommandInv
<1>3. ASSUME toDev # <<>>, toDev' = Tail(toDev), UNCHANGED <<issued, numberOf>>
      PROVE  CommandInv'
  <2>1. /\ Len(toDev') = Len(toDev) - 1
        /\ \A i \in 1 .. Len(toDev') : toDev'[i] = toDev[i + 1]
        /\ Len(toDev) \in Nat
    BY <1>a, <1>3, HeadTailProperties, LenProperties
  <2>2. \A i \in 1 .. Len(toDev') : i + 1 \in 1 .. Len(toDev)
    BY <2>1
  <2> QED
    BY <1>a, <1>3, <2>1, <2>2 DEF CommandInv
<1>4. ASSUME UNCHANGED <<toDev, issued, numberOf>>
      PROVE  CommandInv'
  BY <1>a, <1>4 DEF CommandInv
<1>5. ASSUME NEW t \in Threads, Write(t) \/ WriteNowait(t) \/ WriteFails(t)
      PROVE  CommandInv'
  BY <1>2, <1>4, <1>5 DEF Write, WriteNowait, WriteFails, Goto, numberVars
<1>6. CASE DeviceAnswer \/ DeviceSwallow
  BY <1>3, <1>6 DEF DeviceAnswer, DeviceSwallow, numberVars
<1>7. \/ \E t \in Threads : Claim(t) \/ Write(t) \/ WriteNowait(t) \/ WriteFails(t)
      \/ DeviceAnswer \/ DeviceSwallow
      \/ UNCHANGED <<toDev, issued, numberOf>>
  BY DEF Next, Step, Call, Begin, Refuse, TakeReply, WakeGone, TimeOut, Finish,
         CloseBegin, CloseEnd, StashReply, ReaderLost, Done, vars, numberVars, wireVars
<1> QED
  BY <1>1, <1>4, <1>5, <1>6, <1>7

\* Every reply on the wire carries its own command's number, none, or one this
\* session does not give out.
LEMMA ReplyNext == IInv /\ TypeInv' /\ [Next]_vars => ReplyInv'
<1> SUFFICES ASSUME IInv, TypeInv', [Next]_vars PROVE ReplyInv'
  OBVIOUS
<1>a. /\ TypeOK /\ ReplyInv /\ fromDev \in Seq(Replies) /\ issued \in 0 .. MaxCalls
      /\ CommandInv /\ toDev \in Seq(Commands)
  BY DEF IInv, TypeInv, TypeOK
<1>1. ASSUME NEW t \in Threads, Claim(t)
      PROVE  ReplyInv'
  <2>1. /\ issued' = issued + 1 /\ fromDev' = fromDev
        /\ \A c \in 0 .. issued : numberOf'[c] = numberOf[c]
        /\ \A n \in Numbers : Distance(n)' = Distance(n)
    BY <1>a, <1>1, ClaimNumbers DEF Claim, wireVars
  <2> SUFFICES ASSUME NEW i \in 1 .. Len(fromDev) PROVE Genuine(fromDev[i])'
    BY <2>1 DEF ReplyInv
  <2>2. fromDev[i] \in Replies /\ Genuine(fromDev[i])
    BY <1>a, ElementOfSeq DEF ReplyInv
  <2>3. CASE fromDev[i].seq = 0
    BY <2>1, <2>3 DEF Genuine
  <2>4. CASE fromDev[i].cmd \in 1 .. issued /\ fromDev[i].seq = numberOf[fromDev[i].cmd]
    BY <1>a, <2>1, <2>4, NumbersAssumption DEF Genuine
  <2>5. CASE /\ fromDev[i].cmd = 0 /\ fromDev[i].seq \in Numbers
             /\ Distance(fromDev[i].seq) >= MaxCalls
    BY <1>1, <2>1, <2>5 DEF Genuine, Distance, Claim
  <2> QED
    BY <2>2, <2>3, <2>4, <2>5 DEF Genuine, Replies
<1>2. ASSUME DeviceAnswer
      PROVE  ReplyInv'
  <2>1. PICK r \in AnswersTo(Head(toDev)) : fromDev' = Append(fromDev, r)
    BY <1>2 DEF DeviceAnswer
  <2>2. /\ Head(toDev) \in Commands /\ Head(toDev) = toDev[1] /\ 1 \in 1 .. Len(toDev)
    BY <1>a, <1>2, HeadTailProperties, EmptySeq DEF DeviceAnswer
  <2>3. r \in Replies /\ r.cmd = Head(toDev).cmd /\ r.seq \in {0, Head(toDev).seq}
    BY <2>1, <2>2, AnswerType
  <2>4. Genuine(r)
    BY <1>a, <2>2, <2>3 DEF Genuine, CommandInv
  <2>5. /\ Len(fromDev') = Len(fromDev) + 1
        /\ fromDev'[Len(fromDev) + 1] = r
        /\ \A i \in 1 .. Len(fromDev) : fromDev'[i] = fromDev[i]
        /\ Len(fromDev) \in Nat
    BY <1>a, <2>1, <2>3, AppendProperties, LenProperties
  <2>6. \A i \in 1 .. Len(fromDev') : i \in 1 .. Len(fromDev) \/ i = Len(fromDev) + 1
    BY <2>5
  <2>7. UNCHANGED <<issued, numberOf, start>>
    BY <1>2 DEF DeviceAnswer, numberVars
  <2> QED
    BY <1>a, <2>4, <2>5, <2>6, <2>7 DEF ReplyInv, Genuine, Distance
<1>3. ASSUME StashReply
      PROVE  ReplyInv'
  <2>1. /\ fromDev # <<>> /\ fromDev' = Tail(fromDev)
        /\ UNCHANGED <<issued, numberOf, start>>
    BY <1>3 DEF StashReply, numberVars
  <2>2. /\ Len(fromDev') = Len(fromDev) - 1
        /\ \A i \in 1 .. Len(fromDev') : fromDev'[i] = fromDev[i + 1]
        /\ Len(fromDev) \in Nat
    BY <1>a, <2>1, HeadTailProperties, LenProperties
  <2>3. \A i \in 1 .. Len(fromDev') : i + 1 \in 1 .. Len(fromDev)
    BY <2>2
  <2> QED
    BY <1>a, <2>1, <2>2, <2>3 DEF ReplyInv, Genuine, Distance
<1>4. ASSUME UNCHANGED <<fromDev, issued, numberOf, start>>
      PROVE  ReplyInv'
  BY <1>a, <1>4 DEF ReplyInv, Genuine, Distance
<1>5. \/ \E t \in Threads : Claim(t)
      \/ DeviceAnswer \/ StashReply
      \/ UNCHANGED <<fromDev, issued, numberOf, start>>
  BY DEF Next, Step, Call, Begin, Refuse, Write, WriteNowait, WriteFails, TakeReply,
         WakeGone, TimeOut, Finish, CloseBegin, CloseEnd, DeviceSwallow, ReaderLost,
         Done, vars, numberVars, wireVars
<1> QED
  BY <1>1, <1>2, <1>3, <1>4, <1>5

\* A reply with the number that the slot waits for is the reply to the command
\* that has the slot.
LEMMA PendingIsOwn ==
    ASSUME IInv, NEW t \in Threads, pc[t] \in Claimed, verb[t] # "version",
           NEW i \in 1 .. Len(fromDev), fromDev[i].seq = seqPending
    PROVE  fromDev[i].cmd = issued
<1>1. /\ seqPending = numberOf[issued] /\ seqPending # 0
      /\ issued \in 0 .. MaxCalls
  BY DEF IInv, TypeInv, TypeOK, SlotInv
<1>2. Genuine(fromDev[i])
  BY DEF IInv, ReplyInv
<1>3. Distance(seqPending) < MaxCalls
  <2>1. Distance(seqPending) < Distance(seqNext) /\ Distance(seqNext) <= issued
    BY <1>1, NumbersAssumption DEF IInv, NumberInv
  <2>2. /\ seqPending \in Numbers /\ seqNext \in Numbers /\ start \in Numbers
    BY <1>1 DEF IInv, TypeInv, TypeOK
  <2>3. Distance(seqPending) \in Int /\ Distance(seqNext) \in Int
    <3>1. /\ seqPending \in Int /\ seqNext \in Int /\ start \in Int
      BY <2>2, NumbersAssumption DEF Numbers
    <3>2. Span \in Int
      BY NumbersAssumption DEF Span
    <3> QED
      BY <3>1, <3>2 DEF Distance
  <2>4. issued \in Int /\ issued <= MaxCalls /\ MaxCalls \in Int
    BY <1>1, NumbersAssumption
  <2> QED
    BY <2>1, <2>3, <2>4
<1>4. ~(Distance(seqPending) >= MaxCalls)
  <2>1. seqPending \in Numbers /\ start \in Numbers
    BY <1>1 DEF IInv, TypeInv, TypeOK
  <2> QED
    BY <1>3, <2>1, NumbersAssumption DEF Distance, Span, Numbers
<1>5. fromDev[i].cmd \in 1 .. issued /\ numberOf[fromDev[i].cmd] = numberOf[issued]
  BY <1>1, <1>2, <1>4 DEF Genuine
<1> QED
  BY <1>1, <1>5, NumbersAssumption DEF IInv, NumberInv

\* A reply that stash_reply accepts for a plain command is that command's.
LEMMA AcceptedIsOwn ==
    ASSUME IInv, NEW t \in Threads, pc[t] \in Claimed, verb[t] = "plain",
           NEW i \in 1 .. Len(fromDev), ~Discarded(fromDev[i])
    PROVE  fromDev[i].cmd = issued
<1>1. seqPending # 0 /\ cmdVerb = "plain"
  BY DEF IInv, SlotInv
<1>2. fromDev[i].seq = seqPending
  BY <1>1 DEF Discarded, NobodyWaits, InitForAnother, NumberMismatch, InitVerbs
<1> QED
  BY <1>2, PendingIsOwn

\* The slot belongs to the thread inside a transaction and holds nothing of
\* another command's.
LEMMA SlotNext == IInv /\ LockInv' /\ TypeInv' /\ [Next]_vars => SlotInv'
<1> SUFFICES ASSUME IInv, LockInv', TypeInv', [Next]_vars PROVE SlotInv'
  OBVIOUS
<1>a. TypeOK /\ LockInv /\ SlotInv
  BY DEF IInv, TypeInv
<1> USE DEF Claimed
<1>1. ASSUME NEW t \in Threads, NEW v \in Verbs, NEW w \in BOOLEAN, Call(t, v, w)
      PROVE  SlotInv'
  BY <1>a, <1>1 DEF Call, Goto, SlotInv, TypeOK, slotVars, numberVars
<1>2. ASSUME NEW t \in Threads, Begin(t)
      PROVE  SlotInv'
  BY <1>a, <1>2 DEF Begin, Acquire, Goto, SlotInv, TypeOK, slotVars, numberVars, callVars
<1>3. ASSUME NEW t \in Threads, Refuse(t)
      PROVE  SlotInv'
  BY <1>a, <1>3 DEF Refuse, Goto, SlotInv, TypeOK, slotVars, callVars
<1>4. ASSUME NEW t \in Threads, Claim(t)
      PROVE  SlotInv'
  <2>1. /\ pc[t] = "begun" /\ pc' = [pc EXCEPT ![t] = "claimed"] /\ cmdLock' = cmdLock
        /\ cmdLock = t
    BY <1>a, <1>4 DEF Claim, Goto, LockInv, Inside
  <2>2. \A u \in Threads : pc'[u] \in Claimed => u = t
    BY <1>a, <2>1 DEF LockInv, Inside, TypeOK
  <2>3. /\ seqPending' = numberOf'[issued'] /\ cmdVerb' = verb'[t]
        /\ verb'[t] # "version" => seqPending' # 0
        /\ replyValid' = FALSE
    <3>1. issued' \in 0 .. MaxCalls /\ numberOf \in [0 .. MaxCalls -> {0} \cup Numbers]
      BY <1>a DEF TypeInv, TypeOK
    <3>2. numberOf' = [numberOf EXCEPT ![issued'] = seqPending']
      BY <1>4 DEF Claim
    <3> QED
      BY <1>4, <3>1, <3>2, ClaimNumbers DEF Claim, callVars
  <2>4. pc'[t] \in Claimed /\ cmdLock' # NoThread
    BY <1>a, <2>1, ThreadsAssumption DEF TypeOK
  <2> QED
    BY <2>1, <2>2, <2>3, <2>4 DEF SlotInv
<1>5. ASSUME NEW t \in Threads, Write(t)
      PROVE  SlotInv'
  BY <1>a, <1>5 DEF Write, Goto, SlotInv, TypeOK, slotVars, numberVars, callVars
<1>6. ASSUME NEW t \in Threads,
             \/ WriteNowait(t) \/ WriteFails(t)
             \/ TakeReply(t) \/ WakeGone(t) \/ TimeOut(t)
      PROVE  SlotInv'
  <2>1. /\ pc[t] \in Claimed /\ pc' = [pc EXCEPT ![t] = "idle"]
        /\ cmdWaiting' = FALSE /\ cmdLock = t
    BY <1>6 DEF WriteNowait, WriteFails, TakeReply, WakeGone, TimeOut, Finish,
                GiveUpSlot, Release, Goto
  <2>2. \A u \in Threads : pc'[u] \notin Claimed
    BY <1>a, <2>1 DEF LockInv, Inside, TypeOK
  <2> QED
    BY <2>1, <2>2 DEF SlotInv
<1>7. ASSUME NEW t \in Threads, CloseBegin(t) \/ CloseEnd(t)
      PROVE  SlotInv'
  <2>1. /\ pc[t] \notin Claimed /\ \E p \in {"closing", "idle"} : pc' = [pc EXCEPT ![t] = p]
        /\ UNCHANGED <<cmdLock, slotVars, verb, issued, numberOf>>
    BY <1>7 DEF CloseBegin, CloseEnd, Goto, numberVars, callVars
  <2>2. \A u \in Threads : pc'[u] \in Claimed <=> pc[u] \in Claimed
    BY <1>a, <2>1 DEF TypeOK
  <2> QED
    BY <1>a, <2>1, <2>2 DEF SlotInv, slotVars
<1>8. CASE DeviceAnswer \/ DeviceSwallow \/ ReaderLost \/ UNCHANGED vars
  BY <1>a, <1>8 DEF DeviceAnswer, DeviceSwallow, ReaderLost, vars, SlotInv, slotVars,
                    numberVars, callVars
<1>9. CASE StashReply
  <2>1. /\ fromDev # <<>>
        /\ replyValid' = (replyValid
               \/ ~(Discarded(Head(fromDev)) \/ StaleInit(Head(fromDev))))
        /\ reply' = IF Discarded(Head(fromDev)) THEN reply ELSE Head(fromDev)
        /\ UNCHANGED <<pc, cmdLock, verb, cmdWaiting, seqPending, cmdVerb, issued,
                       numberOf>>
    BY <1>9 DEF StashReply, callVars, numberVars
  <2>2. Head(fromDev) = fromDev[1] /\ 1 \in 1 .. Len(fromDev)
    BY <1>a, <2>1, EmptySeq DEF TypeOK
  <2>3. ASSUME NEW t \in Threads, pc[t] \in Claimed, verb[t] = "plain", replyValid'
        PROVE  reply'.cmd = issued
    BY <1>a, <2>1, <2>2, <2>3, AcceptedIsOwn DEF SlotInv
  <2> QED
    BY <1>a, <2>1, <2>3 DEF SlotInv
<1> QED
  BY <1>1, <1>2, <1>3, <1>4, <1>5, <1>6, <1>7, <1>8, <1>9 DEF Next, Step, Done

\* A result is recorded by the step that returns it.
LEMMA OwnNext == IInv /\ [Next]_vars => OwnReply'
<1> SUFFICES ASSUME IInv, [Next]_vars PROVE OwnReply'
  OBVIOUS
<1>a. TypeOK /\ LockInv /\ SlotInv /\ OwnReply
  BY DEF IInv, TypeInv
<1>1. ASSUME NEW t \in Threads, TakeReply(t)
      PROVE  OwnReply'
  <2>1. /\ pc[t] \in Claimed /\ replyValid
        /\ outcome' = [outcome EXCEPT ![t] = [status |-> "ok", cmd |-> command[t],
                                              verb |-> verb[t], reply |-> reply]]
    BY <1>1 DEF TakeReply, Finish, Goto, Return, Claimed
  <2>2. verb[t] = "plain" => reply.cmd = command[t]
    BY <1>a, <2>1 DEF SlotInv, LockInv
  <2> QED
    BY <1>a, <2>1, <2>2 DEF OwnReply, TypeOK
<1>2. ASSUME NEW t \in Threads, NEW s \in {"no_device", "timeout", "write_error", "sent"},
             Return(t, s, NoReply)
      PROVE  OwnReply'
  BY <1>a, <1>2 DEF OwnReply, Return, TypeOK
<1>3. ASSUME NEW t \in Threads, Refuse(t)
      PROVE  OwnReply'
  BY <1>a, <1>3 DEF OwnReply, Refuse, TypeOK
<1>4. ASSUME UNCHANGED outcome
      PROVE  OwnReply'
  BY <1>a, <1>4 DEF OwnReply
<1>5. ASSUME NEW t \in Threads,
             WriteNowait(t) \/ WriteFails(t) \/ WakeGone(t) \/ TimeOut(t)
      PROVE  OwnReply'
  <2>1. \E s \in {"no_device", "timeout", "write_error", "sent"} : Return(t, s, NoReply)
    BY <1>5 DEF WriteNowait, WriteFails, WakeGone, TimeOut
  <2> QED
    BY <1>2, <2>1
<1>6. \/ \E t \in Threads : \/ TakeReply(t) \/ Refuse(t) \/ WriteNowait(t)
                            \/ WriteFails(t) \/ WakeGone(t) \/ TimeOut(t)
      \/ UNCHANGED outcome
  BY DEF Next, Step, Call, Begin, Claim, Write, CloseBegin, CloseEnd, DeviceAnswer,
         DeviceSwallow, StashReply, ReaderLost, Done, vars
<1> QED
  BY <1>1, <1>3, <1>4, <1>5, <1>6

\* The invariant holds in every state.
LEMMA Invariance == Spec => []IInv
<1>1. IInv /\ [Next]_vars => IInv'
  BY TypeNext, LockNext, NumberNext, CommandNext, ReplyNext, SlotNext, OwnNext
     DEF IInv, TypeInv
<1> QED
  BY <1>1, IInit, PTL DEF Spec

\* The reply op_device_cmd hands out is its own command's, for any number of
\* threads and calls, any wrap of the numbers and anything an earlier session
\* left in the pipe.
THEOREM RepliesAreOwn == Spec => []OwnReply
<1>1. IInv => OwnReply
  BY DEF IInv
<1> QED
  BY <1>1, Invariance, PTL

\* The reply slot is claimed only by the holder of cmd_lock, inside its
\* transaction.
THEOREM SlotIsOwned == Spec => []SlotOwned
<1>1. IInv => SlotOwned
  <2> SUFFICES ASSUME IInv, cmdWaiting
               PROVE  /\ cmdLock # NoThread /\ pc[cmdLock] \in Claimed
                      /\ seqPending = numberOf[command[cmdLock]]
    BY DEF SlotOwned, Claimed
  <2>1. cmdLock \in Threads
    BY DEF IInv, TypeInv, TypeOK, SlotInv
  <2>2. pc[cmdLock] \in Claimed
    BY <2>1 DEF IInv, SlotInv
  <2> QED
    BY <2>1, <2>2, ThreadsAssumption DEF IInv, SlotInv, LockInv
<1> QED
  BY <1>1, Invariance, PTL
-----------------------------------------------------------------------------
(***************************************************************************)
(* The teardown.  The transport is closed together with the join of the    *)
(* reader, after `open` was cleared and while nobody holds cmd_lock; who   *)
(* takes cmd_lock later sees the session closed.                           *)
(***************************************************************************)
SessionInv ==
    /\ reader = "joined" <=> ~transportUp
    /\ ~transportUp => ~open
    /\ \A t \in Threads : /\ pc[t] = "closing" => ~open
                          /\ pc[t] \in Inside => transportUp

LEMMA SessionNext == TypeOK /\ LockInv /\ SessionInv /\ [Next]_vars => SessionInv'
<1> SUFFICES ASSUME TypeOK, LockInv, SessionInv, [Next]_vars PROVE SessionInv'
  OBVIOUS
<1> USE DEF SessionInv, Inside, TypeOK, Goto, sessionVars
<1>1. ASSUME NEW t \in Threads, NEW v \in Verbs, NEW w \in BOOLEAN,
             Call(t, v, w) \/ Refuse(t) \/ Claim(t) \/ Write(t)
      PROVE  SessionInv'
  BY <1>1 DEF Call, Refuse, Claim, Write
<1>2. ASSUME NEW t \in Threads, Begin(t)
      PROVE  SessionInv'
  BY <1>2 DEF Begin, Usable
<1>3. ASSUME NEW t \in Threads,
             \/ WriteNowait(t) \/ WriteFails(t)
             \/ TakeReply(t) \/ WakeGone(t) \/ TimeOut(t)
      PROVE  SessionInv'
  BY <1>3 DEF WriteNowait, WriteFails, TakeReply, WakeGone, TimeOut, Finish
<1>4. ASSUME NEW t \in Threads, CloseBegin(t)
      PROVE  SessionInv'
  BY <1>4 DEF CloseBegin
<1>5. ASSUME NEW t \in Threads, CloseEnd(t)
      PROVE  SessionInv'
  <2>1. \A u \in Threads : pc[u] \notin Inside
    BY <1>5, ThreadsAssumption DEF CloseEnd, MayTearDown, LockInv
  <2> QED
    BY <1>5, <2>1 DEF CloseEnd
<1>6. CASE DeviceAnswer \/ DeviceSwallow \/ StashReply \/ ReaderLost \/ UNCHANGED vars
  BY <1>6 DEF DeviceAnswer, DeviceSwallow, StashReply, ReaderLost, vars
<1> QED
  BY <1>1, <1>2, <1>3, <1>4, <1>5, <1>6 DEF Next, Step, Done

LEMMA SessionInvariance == Spec => []SessionInv
<1>1. Init => SessionInv
  BY DEF Init, SessionInv, Inside
<1>2. IInv => TypeOK /\ LockInv
  BY DEF IInv, TypeInv
<1> QED
  BY <1>1, <1>2, SessionNext, Invariance, PTL DEF Spec

\* Closing waits for the command under way: no command is inside its
\* transaction when the transport goes away, and none enters one afterwards.
THEOREM TransportIsSafe == Spec => []TransportOutlivesCommands
<1>1. SessionInv => TransportOutlivesCommands
  BY DEF SessionInv, TransportOutlivesCommands, Inside
<1> QED
  BY <1>1, SessionInvariance, PTL

\* Only the thread itself leaves its wait, and while a reply is there it
\* leaves with it: neither a deadline nor a loss nor a close comes first.
THEOREM AcceptedIsReturned == Spec => AcceptedReplyIsReturned
<1> DEFINE Returned ==
      \A t \in Threads : (pc[t] = "written" /\ replyValid /\ pc'[t] = "idle")
                            => outcome'[t].status = "ok"
<1>1. TypeOK /\ [Next]_vars => [Returned]_vars
  <2> SUFFICES ASSUME TypeOK, Next, NEW t \in Threads,
                      pc[t] = "written", replyValid, pc'[t] = "idle"
               PROVE  outcome'[t].status = "ok"
    OBVIOUS
  <2> USE DEF Goto, TypeOK
  <2>1. ASSUME NEW u \in Threads, TakeReply(u)
        PROVE  outcome'[t].status = "ok"
    BY <2>1 DEF TakeReply, Finish, Return
  <2>2. ASSUME NEW u \in Threads, WakeGone(u) \/ TimeOut(u)
        PROVE  FALSE
    BY <2>2 DEF WakeGone, TimeOut
  <2>3. ASSUME NEW u \in Threads, NEW v \in Verbs, NEW w \in BOOLEAN,
               \/ Call(u, v, w) \/ Begin(u) \/ Refuse(u) \/ Claim(u) \/ Write(u)
               \/ WriteNowait(u) \/ WriteFails(u) \/ CloseBegin(u) \/ CloseEnd(u)
        PROVE  FALSE
    BY <2>3 DEF Call, Begin, Refuse, Claim, Write, WriteNowait, WriteFails,
                CloseBegin, CloseEnd
  <2>4. CASE DeviceAnswer \/ DeviceSwallow \/ StashReply \/ ReaderLost \/ Done
    BY <2>4 DEF DeviceAnswer, DeviceSwallow, StashReply, ReaderLost, Done, vars
  <2> QED
    BY <2>1, <2>2, <2>3, <2>4 DEF Next, Step
<1> QED
  BY <1>1, TypeCorrect, PTL DEF Spec, AcceptedReplyIsReturned
-----------------------------------------------------------------------------
(***************************************************************************)
(* K-line inits.  stash_reply overwrites the slot before it compares the   *)
(* number of an init reply, so a reply that was accepted but not yet taken *)
(* could still be replaced by a late one.  It is not when the cable        *)
(* numbers its init replies, because the pipe keeps the order: behind the  *)
(* accepted reply there is nothing until the next command is written.      *)
(***************************************************************************)
OrderInv ==
    /\ \A i \in 1 .. Len(toDev) : toDev[i].verb # "version" => toDev[i].seq # 0
    /\ \A i \in 1 .. Len(fromDev) : fromDev[i].cmd <= issued
    /\ \A i, j \in 1 .. Len(toDev) : i < j => toDev[i].cmd < toDev[j].cmd
    /\ \A i, j \in 1 .. Len(fromDev) :
          i < j => fromDev[i].cmd < fromDev[j].cmd \/ fromDev[i].cmd = 0
    /\ \A i \in 1 .. Len(fromDev), j \in 1 .. Len(toDev) : fromDev[i].cmd < toDev[j].cmd

\* Until its line is written, a command is nowhere on the wire.
UnwrittenInv ==
    \A t \in Threads : pc[t] = "claimed" =>
        /\ \A i \in 1 .. Len(toDev) : toDev[i].cmd < issued
        /\ \A i \in 1 .. Len(fromDev) : fromDev[i].cmd < issued

\* What the theorem below assumes of the cable, as it shows on the wire.
Numbered == \A i \in 1 .. Len(fromDev) :
                fromDev[i].kind \in InitKinds => fromDev[i].seq # 0

WireEmpty == toDev = <<>> /\ fromDev = <<>>

AnsweredInv ==
    \A t \in Threads : verb[t] \in InitVerbs =>
        /\ pc[t] = "claimed" => ~replyValid
        /\ pc[t] = "written" /\ replyValid => reply.cmd = issued /\ WireEmpty

WireInv == OrderInv /\ UnwrittenInv /\ Numbered /\ AnsweredInv

\* The wires are sequences of commands and replies.
LEMMA WireTypes ==
    ASSUME TypeOK
    PROVE  /\ toDev \in Seq(Commands) /\ fromDev \in Seq(Replies)
           /\ Len(toDev) \in Nat /\ Len(fromDev) \in Nat
           /\ \A i \in 1 .. Len(toDev) : toDev[i] \in Commands /\ toDev[i].cmd \in Int
           /\ \A i \in 1 .. Len(fromDev) : fromDev[i] \in Replies /\ fromDev[i].cmd \in Int
           /\ issued \in Nat
<1>1. toDev \in Seq(Commands) /\ fromDev \in Seq(Replies) /\ issued \in 0 .. MaxCalls
  BY DEF TypeOK
<1>2. /\ Len(toDev) \in Nat /\ Len(fromDev) \in Nat
      /\ \A i \in 1 .. Len(toDev) : toDev[i] \in Commands
      /\ \A i \in 1 .. Len(fromDev) : fromDev[i] \in Replies
  BY <1>1, LenProperties, ElementOfSeq
<1> QED
  BY <1>1, <1>2, NumbersAssumption DEF Commands, Replies

LEMMA WireInit ==
    ASSUME UnnumberedInits = {}, Init
    PROVE  WireInv
<1>1. TypeOK
  BY TypeInit DEF TypeInv
<1>2. PICK n \in 0 .. StaleReplies : fromDev \in [1 .. n -> Stale(seqNext)]
  BY DEF Init
<1>3. Len(fromDev) = n /\ n \in Nat
  BY <1>1, <1>2, WireAssumption, LenProperties DEF TypeOK
<1>4. \A i \in 1 .. Len(fromDev) : fromDev[i] \in Stale(seqNext)
  BY <1>2, <1>3
<1>5. Len(toDev) = 0
  BY EmptySeq DEF Init
<1>6. issued = 0
  BY DEF Init
<1>7. OrderInv
  BY <1>4, <1>5, <1>6 DEF OrderInv, Stale
<1>8. Numbered
  BY <1>4 DEF Numbered, Stale
<1> QED
  BY <1>7, <1>8 DEF Init, WireInv, UnwrittenInv, AnsweredInv

\* A line is appended by the thread that claimed the slot, and is the last.
LEMMA WriteOrder ==
    ASSUME IInv, OrderInv, UnwrittenInv, NEW t \in Threads, pc[t] = "claimed",
           toDev' = Append(toDev, Line(t)), UNCHANGED <<fromDev, issued>>
    PROVE  OrderInv'
<1>a. TypeOK /\ LockInv /\ SlotInv /\ NumberInv
  BY DEF IInv, TypeInv
<1>1. /\ Line(t).cmd = issued /\ Line(t).verb = verb[t]
      /\ verb[t] # "version" => Line(t).seq # 0
  BY <1>a DEF Line, LockInv, SlotInv, Claimed
<1>2. Line(t) \in Commands
  BY <1>a DEF Line, Commands, TypeOK
<1>3. /\ Len(toDev') = Len(toDev) + 1
      /\ toDev'[Len(toDev) + 1] = Line(t)
      /\ \A i \in 1 .. Len(toDev) : toDev'[i] = toDev[i]
      /\ Len(toDev) \in Nat
  BY <1>a, <1>2, AppendProperties, WireTypes
<1>4. \A i \in 1 .. Len(toDev') : i \in 1 .. Len(toDev) \/ i = Len(toDev) + 1
  BY <1>3
<1>5. /\ \A i \in 1 .. Len(toDev) : toDev[i].cmd < issued
      /\ \A i \in 1 .. Len(fromDev) : fromDev[i].cmd < issued
  BY DEF UnwrittenInv
<1>6. \A i, j \in 1 .. Len(toDev') : i < j => i \in 1 .. Len(toDev)
  BY <1>3
<1> QED
  BY <1>1, <1>3, <1>4, <1>5, <1>6 DEF OrderInv

\* The cable answers the oldest command: its reply comes after all others and
\* before those of the commands that are left.
LEMMA AnswerOrder ==
    ASSUME TypeOK, CommandInv, OrderInv, UnwrittenInv, DeviceAnswer
    PROVE  OrderInv' /\ UnwrittenInv'
<1>1. PICK r \in AnswersTo(Head(toDev)) : fromDev' = Append(fromDev, r)
  BY DEF DeviceAnswer
<1>2. /\ toDev # <<>> /\ toDev' = Tail(toDev)
      /\ UNCHANGED <<pc, issued>>
  BY DEF DeviceAnswer, numberVars
<1>3. /\ Head(toDev) = toDev[1] /\ 1 \in 1 .. Len(toDev) /\ toDev[1] \in Commands
      /\ Len(toDev') = Len(toDev) - 1
      /\ \A i \in 1 .. Len(toDev') : toDev'[i] = toDev[i + 1]
      /\ \A i \in 1 .. Len(toDev') : i + 1 \in 1 .. Len(toDev)
  BY <1>2, HeadTailProperties, WireTypes, EmptySeq
<1>4. r \in Replies /\ r.cmd = toDev[1].cmd
  BY <1>1, <1>3, AnswerType
<1>5. /\ Len(fromDev') = Len(fromDev) + 1
      /\ fromDev'[Len(fromDev) + 1] = r
      /\ \A i \in 1 .. Len(fromDev) : fromDev'[i] = fromDev[i]
      /\ Len(fromDev) \in Nat /\ Len(toDev) \in Nat
  BY <1>1, <1>4, AppendProperties, WireTypes
<1>6. \A i \in 1 .. Len(fromDev') : i \in 1 .. Len(fromDev) \/ i = Len(fromDev) + 1
  BY <1>5
<1>7. \A i, j \in 1 .. Len(fromDev') : i < j => i \in 1 .. Len(fromDev)
  BY <1>5
<1>8. r.cmd <= issued
  BY <1>3, <1>4 DEF CommandInv
<1>9. OrderInv'
  <2>1. \A i, j \in 1 .. Len(toDev') : i < j => toDev'[i].cmd < toDev'[j].cmd
    BY <1>3, <1>5 DEF OrderInv
  <2>2. \A i, j \in 1 .. Len(fromDev') :
            i < j => fromDev'[i].cmd < fromDev'[j].cmd \/ fromDev'[i].cmd = 0
    BY <1>3, <1>4, <1>5, <1>6, <1>7 DEF OrderInv
  <2>3. \A j \in 1 .. Len(toDev') : r.cmd < toDev'[j].cmd
    BY <1>3, <1>4, <1>5 DEF OrderInv
  <2>4. \A i \in 1 .. Len(fromDev'), j \in 1 .. Len(toDev') :
            fromDev'[i].cmd < toDev'[j].cmd
    BY <1>3, <1>5, <1>6, <2>3 DEF OrderInv
  <2> QED
    BY <1>2, <1>3, <1>5, <1>6, <1>8, <2>1, <2>2, <2>4 DEF OrderInv
<1> QED
  BY <1>2, <1>3, <1>4, <1>5, <1>6, <1>9 DEF UnwrittenInv
\* The reader takes the oldest reply; the rest keeps its order.
LEMMA StashOrder ==
    ASSUME TypeOK, OrderInv, UnwrittenInv, Numbered, StashReply
    PROVE  OrderInv' /\ UnwrittenInv' /\ Numbered'
<1>1. /\ fromDev # <<>> /\ fromDev' = Tail(fromDev)
      /\ UNCHANGED <<toDev, pc, issued>>
  BY DEF StashReply, numberVars
<1>2. /\ Len(fromDev') = Len(fromDev) - 1 /\ Len(fromDev) \in Nat
      /\ \A i \in 1 .. Len(fromDev') : fromDev'[i] = fromDev[i + 1]
      /\ \A i \in 1 .. Len(fromDev') : i + 1 \in 1 .. Len(fromDev)
  BY <1>1, HeadTailProperties, WireTypes, EmptySeq
<1>3. \A i, j \in 1 .. Len(fromDev') :
          i < j => fromDev'[i].cmd < fromDev'[j].cmd \/ fromDev'[i].cmd = 0
  <2> SUFFICES ASSUME NEW i \in 1 .. Len(fromDev'), NEW j \in 1 .. Len(fromDev'), i < j
               PROVE  fromDev'[i].cmd < fromDev'[j].cmd \/ fromDev'[i].cmd = 0
    OBVIOUS
  <2>1. /\ i + 1 \in 1 .. Len(fromDev) /\ j + 1 \in 1 .. Len(fromDev) /\ i + 1 < j + 1
        /\ fromDev'[i] = fromDev[i + 1] /\ fromDev'[j] = fromDev[j + 1]
    BY <1>2
  <2> QED
    BY <2>1 DEF OrderInv
<1> QED
  BY <1>1, <1>2, <1>3 DEF OrderInv, UnwrittenInv, Numbered

\* The steps that put nothing on the wire and take nothing off it.
LEMMA WireUnchanged ==
    ASSUME OrderInv, Numbered, UNCHANGED <<toDev, fromDev, issued>>
    PROVE  OrderInv' /\ Numbered'
BY DEF OrderInv, Numbered

LEMMA OrderNext ==
    ASSUME UnnumberedInits = {}, IInv, WireInv, TypeInv', [Next]_vars
    PROVE  OrderInv' /\ UnwrittenInv' /\ Numbered'
<1>a. TypeOK /\ LockInv /\ CommandInv /\ OrderInv /\ UnwrittenInv /\ Numbered
  BY DEF IInv, TypeInv, WireInv
<1> USE DEF Goto
<1>1. ASSUME NEW t \in Threads, Claim(t)
      PROVE  OrderInv' /\ UnwrittenInv' /\ Numbered'
  <2>1. issued' = issued + 1 /\ UNCHANGED <<toDev, fromDev>>
    BY <1>1 DEF Claim, wireVars
  <2>2. /\ \A i \in 1 .. Len(toDev) : toDev[i].cmd <= issued /\ toDev[i].cmd \in Int
        /\ \A i \in 1 .. Len(fromDev) : fromDev[i].cmd <= issued /\ fromDev[i].cmd \in Int
        /\ issued \in Int
    BY <1>a, WireTypes DEF OrderInv, CommandInv
  <2>3. OrderInv' /\ Numbered'
    <3>1. \A i \in 1 .. Len(fromDev') : fromDev'[i].cmd <= issued'
      BY <2>1, <2>2
    <3>2. OrderInv'
      BY <1>a, <2>1, <3>1 DEF OrderInv
    <3> QED
      BY <1>a, <2>1, <3>2 DEF Numbered
  <2>4. UnwrittenInv'
    BY <2>1, <2>2 DEF UnwrittenInv
  <2> QED
    BY <2>3, <2>4
<1>2. ASSUME NEW t \in Threads, Write(t) \/ WriteNowait(t) \/ WriteFails(t)
      PROVE  OrderInv' /\ UnwrittenInv' /\ Numbered'
  <2>1. /\ pc[t] = "claimed" /\ pc'[t] # "claimed"
        /\ toDev' = toDev \/ toDev' = Append(toDev, Line(t))
        /\ UNCHANGED <<fromDev, issued>>
    BY <1>a, <1>2 DEF Write, WriteNowait, WriteFails, numberVars, TypeOK
  \* Nobody else has claimed the slot.
  <2>2. \A u \in Threads : pc'[u] # "claimed"
    BY <1>a, <1>2, <2>1 DEF Write, WriteNowait, WriteFails, LockInv, Inside, TypeOK
  <2>3. OrderInv'
    BY <1>a, <2>1, WriteOrder, WireUnchanged
  <2> QED
    BY <1>a, <2>1, <2>2, <2>3 DEF UnwrittenInv, Numbered
<1>3. ASSUME DeviceAnswer
      PROVE  OrderInv' /\ UnwrittenInv' /\ Numbered'
  <2>1. PICK r \in AnswersTo(Head(toDev)) : fromDev' = Append(fromDev, r)
    BY <1>3 DEF DeviceAnswer
  <2>2. /\ Head(toDev) = toDev[1] /\ 1 \in 1 .. Len(toDev) /\ toDev[1] \in Commands
    BY <1>a, <1>3, HeadTailProperties, WireTypes, EmptySeq DEF DeviceAnswer
  <2>3. r \in Replies
    BY <2>1, <2>2, AnswerType
  \* An init reply carries the number of its command, which has one.
  <2>4. r.kind \in InitKinds => r.seq # 0
    <3>1. toDev[1].verb # "version" => toDev[1].seq # 0
      BY <1>a, <2>2 DEF OrderInv
    <3>2. CASE toDev[1].verb \in {"plain", "version"}
      BY <2>1, <2>2, <3>2 DEF AnswersTo, InitKinds
    <3>3. CASE toDev[1].verb \in {"fastInit", "fiveBaud"}
      BY <2>1, <2>2, <3>1, <3>3 DEF AnswersTo
    <3> QED
      BY <2>2, <3>2, <3>3 DEF Commands, Verbs
  <2>5. /\ Len(fromDev') = Len(fromDev) + 1 /\ Len(fromDev) \in Nat
        /\ fromDev'[Len(fromDev) + 1] = r
        /\ \A i \in 1 .. Len(fromDev) : fromDev'[i] = fromDev[i]
    BY <1>a, <2>1, <2>3, AppendProperties, WireTypes
  <2>6. \A i \in 1 .. Len(fromDev') : i \in 1 .. Len(fromDev) \/ i = Len(fromDev) + 1
    BY <2>5
  <2>7. Numbered'
    BY <1>a, <2>4, <2>5, <2>6 DEF Numbered
  <2> QED
    BY <1>a, <1>3, <2>7, AnswerOrder
<1>4. ASSUME DeviceSwallow
      PROVE  OrderInv' /\ UnwrittenInv' /\ Numbered'
  <2>1. /\ toDev # <<>> /\ toDev' = Tail(toDev)
        /\ UNCHANGED <<fromDev, pc, issued>>
    BY <1>4 DEF DeviceSwallow, numberVars
  <2>2. /\ Len(toDev') = Len(toDev) - 1 /\ Len(toDev) \in Nat
        /\ \A i \in 1 .. Len(toDev') : toDev'[i] = toDev[i + 1]
        /\ \A i \in 1 .. Len(toDev') : i + 1 \in 1 .. Len(toDev)
    BY <1>a, <2>1, HeadTailProperties, WireTypes, EmptySeq
  <2>3. \A i, j \in 1 .. Len(toDev') : i < j => toDev'[i].cmd < toDev'[j].cmd
    BY <1>a, <2>2 DEF OrderInv
  <2> QED
    BY <1>a, <2>1, <2>2, <2>3 DEF OrderInv, UnwrittenInv, Numbered
<1>5. CASE StashReply
  BY <1>a, <1>5, StashOrder
<1>6. ASSUME UNCHANGED <<toDev, fromDev, issued>>,
             \A t \in Threads : pc'[t] = "claimed" => pc[t] = "claimed"
      PROVE  OrderInv' /\ UnwrittenInv' /\ Numbered'
  BY <1>a, <1>6, WireUnchanged DEF UnwrittenInv
<1>7. ASSUME NEW t \in Threads,
             \/ \E v \in Verbs, w \in BOOLEAN : Call(t, v, w)
             \/ Begin(t) \/ Refuse(t)
             \/ TakeReply(t) \/ WakeGone(t) \/ TimeOut(t)
             \/ CloseBegin(t) \/ CloseEnd(t)
      PROVE  OrderInv' /\ UnwrittenInv' /\ Numbered'
  <2>1. /\ \E p \in PCs \ {"claimed"} : pc' = [pc EXCEPT ![t] = p]
        /\ UNCHANGED <<toDev, fromDev, issued>>
    BY <1>7 DEF Call, Begin, Refuse, TakeReply, WakeGone, TimeOut, Finish, CloseBegin,
                CloseEnd, wireVars, numberVars, PCs
  <2> QED
    BY <1>a, <1>6, <2>1 DEF TypeOK
<1>8. CASE ReaderLost \/ UNCHANGED vars
  BY <1>6, <1>8 DEF ReaderLost, vars, wireVars, numberVars
<1> QED
  BY <1>1, <1>2, <1>3, <1>4, <1>5, <1>7, <1>8 DEF Next, Step, Done

\* A reply accepted for an init is its own, and the last on the wire.
LEMMA StashAnswers ==
    ASSUME IInv, WireInv, StashReply
    PROVE  AnsweredInv'
<1>a. /\ TypeOK /\ LockInv /\ SlotInv /\ OrderInv /\ UnwrittenInv /\ Numbered
      /\ AnsweredInv
  BY DEF IInv, TypeInv, WireInv
<1>1. /\ fromDev # <<>> /\ fromDev' = Tail(fromDev)
      /\ reply' = IF Discarded(Head(fromDev)) THEN reply ELSE Head(fromDev)
      /\ replyValid' = (replyValid \/ ~(Discarded(Head(fromDev)) \/ StaleInit(Head(fromDev))))
      /\ UNCHANGED <<toDev, pc, verb, issued>>
  BY DEF StashReply, numberVars, callVars
<1>2. /\ Head(fromDev) = fromDev[1] /\ 1 \in 1 .. Len(fromDev)
      /\ Len(fromDev') = Len(fromDev) - 1
  BY <1>a, <1>1, HeadTailProperties, WireTypes, EmptySeq
<1> SUFFICES ASSUME NEW t \in Threads, verb[t] \in InitVerbs, pc[t] \in Claimed,
                    replyValid'
             PROVE  /\ pc[t] = "written"
                    /\ reply'.cmd = issued /\ toDev = <<>> /\ fromDev' = <<>>
  BY <1>1 DEF AnsweredInv, WireEmpty, Claimed
\* Nothing had been accepted yet: the wire would be empty.
<1>3. ~replyValid
  BY <1>a, <1>1 DEF AnsweredInv, WireEmpty, Claimed
<1>4. ~Discarded(fromDev[1]) /\ ~StaleInit(fromDev[1])
  BY <1>1, <1>2, <1>3
<1>5. fromDev[1].seq = seqPending
  <2>1. seqPending # 0
    BY <1>a DEF SlotInv, InitVerbs
  <2> QED
    BY <1>a, <1>2, <1>4, <2>1
       DEF Discarded, NumberMismatch, StaleInit, Numbered
<1>6. fromDev[1].cmd = issued /\ issued # 0
  BY <1>a, <1>2, <1>5, PendingIsOwn DEF InitVerbs, LockInv
<1>7. pc[t] = "written"
  BY <1>a, <1>2, <1>6, WireTypes DEF UnwrittenInv, Claimed
<1>8. ~(2 \in 1 .. Len(fromDev))
  BY <1>a, <1>2, <1>6, WireTypes DEF OrderInv
<1>9. fromDev' = <<>>
  BY <1>a, <1>1, <1>2, <1>8, WireTypes, HeadTailProperties, EmptySeq
<1>10. toDev = <<>>
  <2>1. ~(1 \in 1 .. Len(toDev))
    BY <1>a, <1>2, <1>6, WireTypes DEF OrderInv, IInv, CommandInv
  <2> QED
    BY <1>a, <2>1, WireTypes, EmptySeq
<1> QED
  BY <1>1, <1>2, <1>4, <1>6, <1>7, <1>9, <1>10

LEMMA AnsweredNext ==
    ASSUME IInv, WireInv, [Next]_vars
    PROVE  AnsweredInv'
<1>a. TypeOK /\ LockInv /\ AnsweredInv
  BY DEF IInv, TypeInv, WireInv
<1> USE DEF Goto
<1>1. ASSUME NEW t \in Threads,
             \/ \E v \in Verbs, w \in BOOLEAN : Call(t, v, w)
             \/ Begin(t) \/ Refuse(t) \/ CloseBegin(t) \/ CloseEnd(t)
      PROVE  AnsweredInv'
  <2>1. /\ pc'[t] \notin Claimed
        /\ \A u \in Threads \ {t} : pc'[u] = pc[u] /\ verb'[u] = verb[u]
        /\ UNCHANGED <<replyValid, reply, toDev, fromDev, issued>>
    BY <1>a, <1>1 DEF Call, Begin, Refuse, CloseBegin, CloseEnd, Claimed, TypeOK, slotVars,
                      wireVars, numberVars, callVars
  <2> QED
    BY <1>a, <2>1 DEF AnsweredInv, WireEmpty, Claimed
<1>2. ASSUME NEW t \in Threads, Claim(t)
      PROVE  AnsweredInv'
  BY <1>2 DEF Claim, AnsweredInv
<1>3. ASSUME NEW t \in Threads, Write(t)
      PROVE  AnsweredInv'
  <2>1. /\ pc[t] = "claimed" /\ cmdLock = t
        /\ \A u \in Threads \ {t} : pc'[u] = pc[u]
        /\ UNCHANGED <<replyValid, verb>>
    BY <1>a, <1>3 DEF Write, TypeOK, LockInv, Inside, slotVars, callVars
  <2>2. \A u \in Threads \ {t} : pc[u] \notin Claimed
    BY <1>a, <2>1 DEF LockInv, Inside, Claimed
  <2> QED
    BY <1>a, <1>3, <2>1, <2>2 DEF AnsweredInv, Claimed, Write, TypeOK
<1>4. ASSUME NEW t \in Threads,
             \/ WriteNowait(t) \/ WriteFails(t)
             \/ TakeReply(t) \/ WakeGone(t) \/ TimeOut(t)
      PROVE  AnsweredInv'
  <2>1. pc[t] \in Claimed /\ pc' = [pc EXCEPT ![t] = "idle"]
    BY <1>4 DEF WriteNowait, WriteFails, TakeReply, WakeGone, TimeOut, Finish, Claimed
  <2>2. \A u \in Threads : pc'[u] \notin Claimed
    BY <1>a, <2>1 DEF LockInv, Inside, Claimed, TypeOK
  <2> QED
    BY <2>2 DEF AnsweredInv, Claimed
<1>5. CASE DeviceAnswer \/ DeviceSwallow
  BY <1>a, <1>5 DEF DeviceAnswer, DeviceSwallow, AnsweredInv, WireEmpty, slotVars,
                    numberVars, callVars
<1>6. CASE StashReply
  BY <1>6, StashAnswers
<1>7. CASE ReaderLost \/ UNCHANGED vars
  BY <1>a, <1>7 DEF ReaderLost, vars, AnsweredInv, WireEmpty, slotVars, numberVars,
                    callVars, wireVars
<1> QED
  BY <1>1, <1>2, <1>3, <1>4, <1>5, <1>6, <1>7 DEF Next, Step, Done

LEMMA OwnInitNext ==
    ASSUME IInv, WireInv, OwnInitReply, [Next]_vars
    PROVE  OwnInitReply'
<1>a. TypeOK /\ LockInv /\ AnsweredInv
  BY DEF IInv, TypeInv, WireInv
<1>1. ASSUME NEW t \in Threads, TakeReply(t)
      PROVE  OwnInitReply'
  <2>1. /\ pc[t] = "written" /\ replyValid
        /\ outcome' = [outcome EXCEPT ![t] = [status |-> "ok", cmd |-> command[t],
                                              verb |-> verb[t], reply |-> reply]]
    BY <1>1 DEF TakeReply, Finish, Goto, Return
  <2>2. verb[t] \in InitVerbs => reply.cmd = command[t]
    BY <1>a, <2>1 DEF AnsweredInv, LockInv, Claimed
  <2> QED
    BY <1>a, <2>1, <2>2 DEF OwnInitReply, TypeOK
<1>2. ASSUME NEW t \in Threads, NEW s \in {"no_device", "timeout", "write_error", "sent"},
             Return(t, s, NoReply)
      PROVE  OwnInitReply'
  BY <1>a, <1>2 DEF OwnInitReply, Return, TypeOK
<1>3. ASSUME NEW t \in Threads, Refuse(t)
      PROVE  OwnInitReply'
  BY <1>a, <1>3 DEF OwnInitReply, Refuse, TypeOK
<1>4. ASSUME UNCHANGED outcome
      PROVE  OwnInitReply'
  BY <1>4 DEF OwnInitReply
<1>5. ASSUME NEW t \in Threads,
             WriteNowait(t) \/ WriteFails(t) \/ WakeGone(t) \/ TimeOut(t)
      PROVE  OwnInitReply'
  <2>1. \E s \in {"no_device", "timeout", "write_error", "sent"} : Return(t, s, NoReply)
    BY <1>5 DEF WriteNowait, WriteFails, WakeGone, TimeOut
  <2> QED
    BY <1>2, <2>1
<1>6. \/ \E t \in Threads : \/ TakeReply(t) \/ Refuse(t) \/ WriteNowait(t)
                            \/ WriteFails(t) \/ WakeGone(t) \/ TimeOut(t)
      \/ UNCHANGED outcome
  BY DEF Next, Step, Call, Begin, Claim, Write, CloseBegin, CloseEnd, DeviceAnswer,
         DeviceSwallow, StashReply, ReaderLost, Done, vars
<1> QED
  BY <1>1, <1>3, <1>4, <1>5, <1>6

\* A five-baud or fast init reports this ECU's answer, for any number of
\* threads, calls and stale replies, when the cable numbers its init replies:
\* stash_reply cannot replace a reply that it accepted.
THEOREM InitRepliesAreOwn == UnnumberedInits = {} => (Spec => []OwnInitReply)
<1> SUFFICES ASSUME UnnumberedInits = {} PROVE Spec => []OwnInitReply
  OBVIOUS
<1>1. Init => WireInv /\ OwnInitReply
  <2>1. Init => WireInv
    BY WireInit
  <2>2. Init => OwnInitReply
    BY DEF Init, OwnInitReply
  <2> QED
    BY <2>1, <2>2
<1>2. IInv /\ WireInv /\ OwnInitReply /\ TypeInv' /\ [Next]_vars
          => (WireInv /\ OwnInitReply)'
  BY OrderNext, AnsweredNext, OwnInitNext DEF WireInv
<1>3. IInv => TypeInv
  BY DEF IInv
<1> QED
  BY <1>1, <1>2, <1>3, Invariance, PTL DEF Spec
-----------------------------------------------------------------------------
(***************************************************************************)
(* The service.  Every step of the exchange is a step of CommandService or *)
(* leaves what its callers see unchanged.  Claiming the slot, writing and  *)
(* the replies on their way are invisible; a call asks, Begin has it       *)
(* served, and every way out of the transaction is a response.             *)
(***************************************************************************)
\* A thread that moves changes its own phase only.
LEMMA PhaseMoves ==
    ASSUME TypeOK, NEW t \in Threads, NEW p \in PCs, pc' = [pc EXCEPT ![t] = p]
    PROVE  Phase' = [Phase EXCEPT ![t] = CASE p \in {"idle", "closing"} -> "idle"
                                           [] p = "called" -> "waiting"
                                           [] OTHER -> "serving"]
BY DEF Phase, TypeOK

\* A result that carries no reply of a plain command counts as the caller's.
LEMMA VisibleReturn ==
    ASSUME TypeOK, NEW t \in Threads, NEW s \in Statuses, NEW c, NEW v, NEW r,
           outcome' = [outcome EXCEPT ![t] = [status |-> s, cmd |-> c, verb |-> v,
                                              reply |-> r]],
           s = "ok" /\ v = "plain" => r.cmd = c
    PROVE  Visible' = [Visible EXCEPT ![t] = [status |-> s, own |-> TRUE]]
BY DEF Visible, TypeOK

\* A step no caller sees.
LEMMA Stutters ==
    ASSUME Phase' = Phase, Visible' = Visible,
           UNCHANGED <<cmdLock, open, lost, transportUp>>
    PROVE  UNCHANGED Service!vars
BY DEF Service!vars

\* The first state of a session is one in which nothing is asked.
LEMMA ServiceInit == Init => Service!Init
<1> SUFFICES ASSUME Init PROVE Service!Init
  OBVIOUS
<1>1. Phase = [t \in Threads |-> "idle"]
  BY DEF Init, Phase
<1>2. Visible = [t \in Threads |-> [status |-> "none", own |-> TRUE]]
  BY DEF Init, Visible
<1> QED
  BY <1>1, <1>2 DEF Init, Service!Init

LEMMA ServiceNext ==
    ASSUME IInv, SessionInv, TypeInv', [Next]_vars
    PROVE  [Service!Next]_Service!vars
<1>a. TypeOK /\ LockInv /\ SlotInv /\ SessionInv
  BY DEF IInv, TypeInv
<1> USE DEF Goto, sessionVars
<1>1. ASSUME NEW t \in Threads, NEW v \in Verbs, NEW w \in BOOLEAN, Call(t, v, w)
      PROVE  Service!Request(t)
  <2>1. Phase' = [Phase EXCEPT ![t] = "waiting"] /\ Phase[t] = "idle"
    BY <1>a, <1>1, PhaseMoves DEF Call, PCs, Phase
  <2> QED
    BY <1>1, <2>1 DEF Call, Service!Request, Visible
<1>2. ASSUME NEW t \in Threads, Begin(t)
      PROVE  Service!Serve(t)
  <2>1. Phase' = [Phase EXCEPT ![t] = "serving"] /\ Phase[t] = "waiting"
    BY <1>a, <1>2, PhaseMoves DEF Begin, PCs, Phase
  <2> QED
    BY <1>2, <2>1 DEF Begin, Acquire, Usable, Service!Serve, Visible
<1>3. ASSUME NEW t \in Threads, Refuse(t)
      PROVE  Service!Reject(t)
  <2>1. Phase' = [Phase EXCEPT ![t] = "idle"] /\ Phase[t] = "waiting"
    BY <1>a, <1>3, PhaseMoves DEF Refuse, PCs, Phase
  <2>2. Visible' = [Visible EXCEPT ![t] = [status |-> "no_device", own |-> TRUE]]
    BY <1>a, <1>3, VisibleReturn DEF Refuse, Statuses
  <2> QED
    BY <1>3, <2>1, <2>2 DEF Refuse, Usable, Service!Reject
<1>4. ASSUME NEW t \in Threads, Claim(t) \/ Write(t)
      PROVE  UNCHANGED Service!vars
  <2>1. Phase' = Phase
    BY <1>a, <1>4 DEF Claim, Write, Phase, TypeOK
  <2> QED
    BY <1>4, <2>1, Stutters DEF Claim, Write, Visible
<1>5. ASSUME NEW t \in Threads, NEW s \in {"ok", "timeout", "write_error", "sent"},
             NEW r \in Replies, pc[t] \in Claimed, pc' = [pc EXCEPT ![t] = "idle"],
             Release(t),
             Return(t, s, r), s = "ok" /\ verb[t] = "plain" => r.cmd = command[t],
             UNCHANGED sessionVars
      PROVE  Service!Respond(t)
  <2>1. Phase' = [Phase EXCEPT ![t] = "idle"]
    BY <1>a, <1>5, PhaseMoves DEF PCs
  <2>2. Visible' = [Visible EXCEPT ![t] = [status |-> s, own |-> TRUE]]
    BY <1>a, <1>5, VisibleReturn DEF Return, Statuses
  <2> QED
    BY <1>5, <2>1, <2>2 DEF Release, Service!Respond
<1>6. ASSUME NEW t \in Threads, WriteNowait(t) \/ WriteFails(t) \/ TimeOut(t)
      PROVE  Service!Respond(t)
  <2>1. PICK s \in {"timeout", "write_error", "sent"} : Return(t, s, NoReply)
    BY <1>6 DEF WriteNowait, WriteFails, TimeOut
  <2>2. NoReply \in Replies
    BY NumbersAssumption DEF NoReply, Replies
  <2> QED
    BY <1>5, <1>6, <2>1, <2>2 DEF WriteNowait, WriteFails, TimeOut, Finish, Claimed
<1>7. ASSUME NEW t \in Threads, TakeReply(t)
      PROVE  Service!Respond(t)
  \* The reply in the slot is the caller's own: SlotInv.
  <2>1. verb[t] = "plain" => reply.cmd = command[t]
    BY <1>a, <1>7 DEF TakeReply, Finish, SlotInv, LockInv, Claimed
  <2>2. PICK r \in Replies : r = reply
    BY <1>a DEF TypeOK
  <2> QED
    BY <1>5, <1>7, <2>1, <2>2 DEF TakeReply, Finish, Claimed
<1>8. ASSUME NEW t \in Threads, WakeGone(t)
      PROVE  Service!Reject(t)
  <2>1. Phase' = [Phase EXCEPT ![t] = "idle"]
    BY <1>a, <1>8, PhaseMoves DEF WakeGone, Finish, PCs
  <2>2. Visible' = [Visible EXCEPT ![t] = [status |-> "no_device", own |-> TRUE]]
    BY <1>a, <1>8, VisibleReturn DEF WakeGone, Return, Statuses
  <2> QED
    BY <1>8, <2>1, <2>2 DEF WakeGone, Finish, Release, Usable, Service!Reject
<1>9. ASSUME NEW t \in Threads, CloseBegin(t)
      PROVE  Service!End
  <2>1. Phase' = Phase
    BY <1>a, <1>9 DEF CloseBegin, Phase, TypeOK
  <2> QED
    BY <1>9, <2>1 DEF CloseBegin, Service!End, Visible
<1>10. ASSUME NEW t \in Threads, CloseEnd(t)
       PROVE  Service!Retire
  <2>1. Phase' = Phase
    BY <1>a, <1>10 DEF CloseEnd, Phase, TypeOK
  <2> QED
    BY <1>a, <1>10, <2>1 DEF CloseEnd, MayTearDown, Service!Retire, Visible, SessionInv
<1>11. CASE ReaderLost
  <2>1. Phase' = Phase /\ Visible' = Visible
    BY <1>11 DEF ReaderLost, Phase, Visible
  <2> QED
    BY <1>11, <2>1 DEF ReaderLost, Service!Next, Service!End
<1>12. CASE DeviceAnswer \/ DeviceSwallow \/ StashReply \/ UNCHANGED vars
  BY <1>12, Stutters DEF DeviceAnswer, DeviceSwallow, StashReply, vars, Phase, Visible
<1> QED
  BY <1>1, <1>2, <1>3, <1>4, <1>6, <1>7, <1>8, <1>9, <1>10, <1>11, <1>12
     DEF Next, Step, Done, Service!Next

\* op_device_cmd keeps what its header promises (op_device.h:126-138): the
\* transactions implement the safety part of ImplementsService for any number
\* of threads, calls and stale replies.
THEOREM ServiceIsKept == Spec => Service!SafeSpec
<1>1. IInv => TypeInv
  BY DEF IInv
<1>2. IInv /\ SessionInv /\ TypeInv' /\ [Next]_vars => [Service!Next]_Service!vars
  BY ServiceNext
<1> QED
  BY <1>1, <1>2, ServiceInit, Invariance, SessionInvariance, PTL DEF Spec, Service!SafeSpec
-----------------------------------------------------------------------------
(***************************************************************************)
(* ReplyStorage: the exchange under it is the one above, and the data of a *)
(* K-line init are still those of the reply it was handed when the caller  *)
(* copies them, if one thread makes the inits.                             *)
(***************************************************************************)
\* Reading is over before a thread does anything else, the data are those of
\* its init, and an init is made by an initiator.
ReadingInv ==
    \A t \in Threads : /\ reading[t] # "nothing" => pc[t] = "idle"
                       /\ reading[t] = "data" => verb[t] \in InitVerbs
                       /\ verb[t] \in InitVerbs => t \in Initiators

\* The data in the buffer are those of the init reply in the slot.
DataInv ==
    \A t \in Threads :
        (/\ pc[t] = "written" /\ verb[t] \in InitVerbs
         /\ replyValid /\ reply.kind \in InitKinds) => replyData = reply.cmd

StorageInv == StorageTypeOK /\ ReadingInv
-----------------------------------------------------------------------------
\* The buffers add nothing to what the exchange does.
LEMMA StorageStep ==
    ASSUME [StorageNext]_<<vars, storageVars>>
    PROVE  [Next]_vars
<1>1. CASE StashInto
  BY <1>1 DEF StashInto, Next
<1>2. ASSUME NEW t \in Threads, TakeInto(t) \/ ReadText(t) \/ ReadData(t)
      PROVE  [Next]_vars
  BY <1>2 DEF TakeInto, ReadText, ReadData, Reads, Next, Step
<1>3. ASSUME NEW t \in Threads,
             \/ \E v \in Verbs, w \in BOOLEAN : CallAgain(t, v, w)
             \/ CloseAgain(t) \/ StepWithin(t)
      PROVE  [Next]_vars
  BY <1>3 DEF CallAgain, CloseAgain, StepWithin, Next, Step
<1>4. CASE DeviceAnswer \/ DeviceSwallow \/ ReaderLost \/ Done
  BY <1>4 DEF Next
<1>5. CASE UNCHANGED <<vars, storageVars>>
  BY <1>5
<1> QED
  BY <1>1, <1>2, <1>3, <1>4, <1>5 DEF StorageNext

\* So the exchange's invariants hold under the buffers too.
LEMMA ExchangeInvariance == StorageSpec => [](IInv /\ SessionInv)
<1>1. StorageInit => IInv /\ SessionInv
  <2>1. Init => SessionInv
    BY DEF Init, SessionInv, Inside
  <2> QED
    BY <2>1, IInit DEF StorageInit
<1>2. IInv /\ SessionInv /\ [StorageNext]_<<vars, storageVars>> => (IInv /\ SessionInv)'
  <2>1. IInv /\ [Next]_vars => IInv'
    BY TypeNext, LockNext, NumberNext, CommandNext, ReplyNext, SlotNext, OwnNext
       DEF IInv, TypeInv
  <2>2. IInv => TypeOK /\ LockInv
    BY DEF IInv, TypeInv
  <2> QED
    BY <2>1, <2>2, SessionNext, StorageStep
<1> QED
  BY <1>1, <1>2, PTL DEF StorageSpec

\* The text and the data are those of a command, or nobody's.
LEMMA BufferTypes ==
    ASSUME StorageTypeOK, StashInto
    PROVE  replyText' \in 0 .. MaxCalls /\ replyData' \in 0 .. MaxCalls
<1>1. Head(fromDev) \in Replies
  BY HeadTailProperties DEF StashInto, StashReply, StorageTypeOK, TypeOK
<1>2. Head(fromDev).cmd \in 0 .. MaxCalls /\ 0 \in 0 .. MaxCalls
  BY <1>1, NumbersAssumption DEF Replies
<1> QED
  BY <1>2 DEF StashInto, TextAfter, DataAfter, StorageTypeOK

LEMMA StorageInvInit == StorageInit => StorageInv
<1> SUFFICES ASSUME StorageInit PROVE StorageInv
  OBVIOUS
<1>1. TypeOK
  BY TypeInit DEF StorageInit, TypeInv
<1>2. 0 \in 0 .. MaxCalls
  BY NumbersAssumption
<1>3. StorageTypeOK
  BY <1>1, <1>2 DEF StorageInit, StorageTypeOK
<1> QED
  BY <1>3 DEF StorageInit, Init, StorageInv, ReadingInv, InitVerbs

LEMMA StorageInvNext ==
    ASSUME StorageInv, TypeOK', [StorageNext]_<<vars, storageVars>>
    PROVE  StorageInv'
<1>a. StorageTypeOK /\ ReadingInv /\ TypeOK
  BY DEF StorageInv, StorageTypeOK
<1> USE DEF Goto
<1>1. CASE StashInto
  <2>1. UNCHANGED <<reading, outcome, pc, verb>>
    BY <1>1 DEF StashInto, StashReply, callVars
  <2> QED
    BY <1>a, <1>1, <2>1, BufferTypes DEF StorageInv, StorageTypeOK, ReadingInv
<1>2. ASSUME NEW t \in Threads, TakeInto(t)
      PROVE  StorageInv'
  <2>1. /\ reading' = [reading EXCEPT ![t] = ToRead(t)]
        /\ outcome' = [outcome EXCEPT ![t] = [status |-> "ok", cmd |-> command[t],
                                              verb |-> verb[t], reply |-> reply]]
        /\ pc' = [pc EXCEPT ![t] = "idle"]
        /\ UNCHANGED <<verb, replyText, replyData>>
    BY <1>2 DEF TakeInto, TakeReply, Finish, Return, callVars
  <2>2. /\ ToRead(t) \in {"nothing", "text", "data"}
        /\ ToRead(t) = "text" => reply.kind = "info"
        /\ ToRead(t) = "data" => reply.kind \in InitKinds /\ verb[t] \in InitVerbs
    BY DEF ToRead
  <2> QED
    BY <1>a, <2>1, <2>2 DEF StorageInv, StorageTypeOK, ReadingInv, TypeOK
<1>3. ASSUME NEW t \in Threads, NEW what \in {"text", "data"}, Reads(t, what)
      PROVE  StorageInv'
  BY <1>a, <1>3 DEF Reads, vars, callVars, StorageInv, StorageTypeOK, ReadingInv
<1>4. ASSUME NEW t \in Threads, NEW v \in Verbs, NEW w \in BOOLEAN, CallAgain(t, v, w),
             UNCHANGED storageVars
      PROVE  StorageInv'
  BY <1>a, <1>4 DEF CallAgain, Call, storageVars, StorageInv, StorageTypeOK, ReadingInv,
                    TypeOK
<1>5. ASSUME NEW t \in Threads, CloseAgain(t), UNCHANGED storageVars
      PROVE  StorageInv'
  BY <1>a, <1>5 DEF CloseAgain, CloseBegin, storageVars, callVars, StorageInv,
                    StorageTypeOK, ReadingInv, TypeOK
<1>6. ASSUME NEW t \in Threads, StepWithin(t), UNCHANGED storageVars
      PROVE  StorageInv'
  <2>1. /\ pc[t] # "idle" /\ UNCHANGED verb
        /\ \A u \in Threads \ {t} : pc'[u] = pc[u] /\ outcome'[u] = outcome[u]
    BY <1>a, <1>6 DEF StepWithin, Begin, Refuse, Claim, Write, WriteNowait, WriteFails,
                      WakeGone, TimeOut, Finish, CloseEnd, Return, callVars, TypeOK
  <2>2. reading[t] = "nothing"
    BY <1>a, <2>1 DEF ReadingInv
  <2> QED
    BY <1>a, <1>6, <2>1, <2>2 DEF storageVars, StorageInv, StorageTypeOK, ReadingInv
<1>7. ASSUME DeviceAnswer \/ DeviceSwallow \/ ReaderLost \/ Done \/ UNCHANGED vars,
             UNCHANGED storageVars
      PROVE  StorageInv'
  BY <1>a, <1>7 DEF DeviceAnswer, DeviceSwallow, ReaderLost, Done, vars, storageVars,
                    callVars, StorageInv, StorageTypeOK, ReadingInv
<1> QED
  BY <1>1, <1>2, <1>3, <1>4, <1>5, <1>6, <1>7 DEF StorageNext, ReadText, ReadData

LEMMA StorageInvariance == StorageSpec => []StorageInv
<1>1. StorageInv /\ IInv' /\ [StorageNext]_<<vars, storageVars>> => StorageInv'
  BY StorageInvNext DEF IInv, TypeInv
<1>2. (IInv /\ SessionInv) => IInv
  OBVIOUS
<1> QED
  BY <1>1, <1>2, StorageInvInit, ExchangeInvariance, PTL DEF StorageSpec

\* A caller reads a text or data only of a reply that has them, whichever
\* thread's command was served since.
THEOREM StorageTypes == StorageSpec => []StorageTypeOK
<1>1. StorageInv => StorageTypeOK
  BY DEF StorageInv
<1> QED
  BY <1>1, StorageInvariance, PTL

\* A reply is the caller's own with the buffers behind it as without.
THEOREM StoredRepliesAreOwn == StorageSpec => []OwnReply
<1>1. (IInv /\ SessionInv) => OwnReply
  BY DEF IInv
<1> QED
  BY <1>1, ExchangeInvariance, PTL
-----------------------------------------------------------------------------
(***************************************************************************)
(* The data.  They change only with an init reply that the slot accepts,   *)
(* that is while an init holds the slot; its thread is the one initiator,  *)
(* which is then not reading what an earlier init gave it.                 *)
(***************************************************************************)
\* An init reply is kept only while an initiator has the slot.
LEMMA DataOfInitiator ==
    ASSUME IInv, StorageInv, StashInto, replyData' # replyData
    PROVE  \E t \in Initiators : pc[t] \in Claimed
<1>1. /\ Head(fromDev).kind \in InitKinds
      /\ ~Discarded(Head(fromDev))
  BY DEF StashInto, DataAfter
<1>2. cmdWaiting /\ cmdVerb \in InitVerbs
  BY <1>1 DEF Discarded, NobodyWaits, InitForAnother
<1>3. cmdLock \in Threads /\ pc[cmdLock] \in Claimed
  BY <1>2 DEF IInv, TypeInv, TypeOK, SlotInv
<1>4. verb[cmdLock] \in InitVerbs
  BY <1>2, <1>3 DEF IInv, SlotInv
<1> QED
  BY <1>3, <1>4 DEF StorageInv, ReadingInv

\* A reply that is accepted brings its data along.
LEMMA StashData ==
    ASSUME IInv, WireInv, DataInv, StashInto
    PROVE  DataInv'
<1>1. /\ fromDev # <<>>
      /\ reply' = IF Discarded(Head(fromDev)) THEN reply ELSE Head(fromDev)
      /\ replyValid' = (replyValid \/ ~(Discarded(Head(fromDev)) \/ StaleInit(Head(fromDev))))
      /\ replyData' = DataAfter(Head(fromDev))
      /\ UNCHANGED <<pc, verb>>
  BY DEF StashInto, StashReply, callVars
<1> SUFFICES ASSUME NEW t \in Threads, pc[t] = "written", verb[t] \in InitVerbs,
                    replyValid', reply'.kind \in InitKinds
             PROVE  replyData' = reply'.cmd
  BY <1>1 DEF DataInv
<1>2. ~replyValid
  BY <1>1 DEF WireInv, AnsweredInv, WireEmpty
<1>3. ~Discarded(Head(fromDev)) /\ ~StaleInit(Head(fromDev))
  BY <1>1, <1>2
<1> QED
  BY <1>1, <1>3 DEF DataAfter

LEMMA DataNext ==
    ASSUME IInv, WireInv, DataInv, [StorageNext]_<<vars, storageVars>>
    PROVE  DataInv'
<1>a. TypeOK /\ LockInv /\ WireInv /\ AnsweredInv
  BY DEF IInv, TypeInv, WireInv
<1> USE DEF Goto
<1>1. CASE StashInto
  BY <1>1, StashData
<1>2. ASSUME NEW t \in Threads, Write(t), UNCHANGED storageVars
      PROVE  DataInv'
  <2>1. /\ pc[t] = "claimed" /\ cmdLock = t
        /\ \A u \in Threads \ {t} : pc'[u] = pc[u]
        /\ UNCHANGED <<replyValid, verb>>
    BY <1>a, <1>2 DEF Write, TypeOK, LockInv, Inside, slotVars, callVars
  <2>2. \A u \in Threads \ {t} : pc[u] # "written"
    BY <1>a, <2>1 DEF LockInv, Inside
  <2>3. verb[t] \in InitVerbs => ~replyValid
    BY <1>a, <2>1 DEF AnsweredInv
  <2> QED
    BY <2>1, <2>2, <2>3 DEF DataInv
<1>3. ASSUME NEW t \in Threads, Claim(t)
      PROVE  DataInv'
  BY <1>3 DEF Claim, DataInv
<1>4. ASSUME NEW t \in Threads,
             \/ Begin(t) \/ Refuse(t) \/ WriteNowait(t) \/ WriteFails(t)
             \/ WakeGone(t) \/ TimeOut(t) \/ CloseEnd(t) \/ CloseAgain(t)
             \/ \E v \in Verbs, w \in BOOLEAN : CallAgain(t, v, w),
             UNCHANGED storageVars
      PROVE  DataInv'
  <2>1. /\ pc'[t] # "written"
        /\ \A u \in Threads \ {t} : pc'[u] = pc[u] /\ verb'[u] = verb[u]
        /\ replyValid' => replyValid
        /\ UNCHANGED <<reply, replyData>>
    BY <1>a, <1>4 DEF CallAgain, Call, CloseAgain, CloseBegin, CloseEnd, Begin, Refuse,
                      WriteNowait, WriteFails, WakeGone, TimeOut, Finish, TypeOK, slotVars,
                      callVars, storageVars
  <2> QED
    BY <2>1 DEF DataInv
<1>5. ASSUME NEW t \in Threads, TakeInto(t)
      PROVE  DataInv'
  BY <1>5 DEF TakeInto, TakeReply, DataInv
<1>6. ASSUME UNCHANGED <<pc, verb, slotVars, replyData>>
      PROVE  DataInv'
  BY <1>6 DEF DataInv, slotVars
<1>7. CASE \E t \in Threads : ReadText(t) \/ ReadData(t)
  BY <1>6, <1>7 DEF ReadText, ReadData, Reads, vars, callVars
<1>8. ASSUME DeviceAnswer \/ DeviceSwallow \/ ReaderLost \/ Done \/ UNCHANGED vars,
             UNCHANGED storageVars
      PROVE  DataInv'
  BY <1>6, <1>8 DEF DeviceAnswer, DeviceSwallow, ReaderLost, Done, vars, callVars,
                    storageVars
<1> QED
  BY <1>1, <1>2, <1>3, <1>4, <1>5, <1>7, <1>8 DEF StorageNext, StepWithin

LEMMA StaysNext ==
    ASSUME \A t, u \in Initiators : t = u,
           IInv, StorageInv, DataInv, InitDataStays, [StorageNext]_<<vars, storageVars>>
    PROVE  InitDataStays'
<1>a. TypeOK /\ StorageTypeOK /\ ReadingInv
  BY DEF IInv, TypeInv, StorageInv
<1> USE DEF Goto
<1>1. CASE StashInto
  <2>1. UNCHANGED <<reading, outcome>>
    BY <1>1 DEF StashInto, StashReply
  <2>2. CASE UNCHANGED replyData
    BY <2>1, <2>2 DEF InitDataStays
  <2>3. CASE replyData' # replyData
    <3>1. PICK t \in Initiators : pc[t] \in Claimed
      BY <1>1, <2>3, DataOfInitiator
    <3>2. t \in Threads /\ reading[t] = "nothing"
      BY <1>a, <3>1, InitiatorsAssumption DEF ReadingInv, Claimed, StorageTypeOK
    \* Only an initiator has data to read.
    <3>3. \A u \in Threads : reading[u] # "data"
      <4> SUFFICES ASSUME NEW u \in Threads, reading[u] = "data" PROVE FALSE
        OBVIOUS
      <4>1. verb[u] \in InitVerbs
        BY <1>a DEF ReadingInv
      <4>2. u \in Initiators
        BY <1>a, <4>1 DEF ReadingInv
      <4> QED
        BY <3>1, <3>2, <4>2
    <3> QED
      BY <2>1, <3>3 DEF InitDataStays
  <2> QED
    BY <2>2, <2>3
<1>2. ASSUME NEW t \in Threads, TakeInto(t)
      PROVE  InitDataStays'
  <2>1. /\ reading' = [reading EXCEPT ![t] = ToRead(t)]
        /\ outcome' = [outcome EXCEPT ![t] = [status |-> "ok", cmd |-> command[t],
                                              verb |-> verb[t], reply |-> reply]]
        /\ pc[t] = "written" /\ replyValid
        /\ UNCHANGED replyData
    BY <1>2 DEF TakeInto, TakeReply, Finish, Return
  <2>2. ToRead(t) = "data" => replyData = reply.cmd
    BY <2>1 DEF ToRead, DataInv
  <2> QED
    BY <1>a, <2>1, <2>2 DEF InitDataStays, TypeOK, StorageTypeOK
<1>3. ASSUME NEW t \in Threads, NEW what \in {"text", "data"}, Reads(t, what)
      PROVE  InitDataStays'
  BY <1>a, <1>3 DEF Reads, vars, callVars, InitDataStays, StorageTypeOK
\* A thread that is reading is idle, and what it was handed is not touched.
<1>4. ASSUME NEW t \in Threads,
             \/ \E v \in Verbs, w \in BOOLEAN : CallAgain(t, v, w)
             \/ CloseAgain(t) \/ StepWithin(t),
             UNCHANGED storageVars
      PROVE  InitDataStays'
  <2>1. \A u \in Threads \ {t} : outcome'[u] = outcome[u]
    BY <1>a, <1>4 DEF CallAgain, Call, CloseAgain, CloseBegin, StepWithin, Begin, Refuse,
                      Claim, Write, WriteNowait, WriteFails, WakeGone, TimeOut, Finish,
                      CloseEnd, Return, callVars, TypeOK
  <2>2. reading[t] = "nothing"
    <3>1. CASE StepWithin(t)
      <4>1. pc[t] # "idle"
        BY <3>1 DEF StepWithin, Begin, Refuse, Claim, Write, WriteNowait, WriteFails,
                    WakeGone, TimeOut, Finish, CloseEnd
      <4> QED
        BY <1>a, <4>1 DEF ReadingInv
    <3> QED
      BY <1>4, <3>1 DEF CallAgain, CloseAgain
  <2> QED
    BY <1>4, <2>1, <2>2 DEF InitDataStays, storageVars
<1>5. ASSUME DeviceAnswer \/ DeviceSwallow \/ ReaderLost \/ Done \/ UNCHANGED vars,
             UNCHANGED storageVars
      PROVE  InitDataStays'
  BY <1>5 DEF DeviceAnswer, DeviceSwallow, ReaderLost, Done, vars, storageVars, callVars,
              InitDataStays
<1> QED
  BY <1>1, <1>2, <1>3, <1>4, <1>5 DEF StorageNext, ReadText, ReadData

\* What K-line inits rest on holds under the buffers as without them.
LEMMA StorageWire ==
    ASSUME UnnumberedInits = {}
    PROVE  StorageSpec => [](WireInv /\ OwnInitReply)
<1>1. StorageInit => WireInv /\ OwnInitReply
  <2>1. Init => WireInv
    BY WireInit
  <2>2. Init => OwnInitReply
    BY DEF Init, OwnInitReply
  <2> QED
    BY <2>1, <2>2 DEF StorageInit
<1>2. IInv /\ IInv' /\ WireInv /\ OwnInitReply /\ [StorageNext]_<<vars, storageVars>>
          => (WireInv /\ OwnInitReply)'
  <2>1. IInv /\ IInv' /\ WireInv /\ OwnInitReply /\ [Next]_vars
            => (WireInv /\ OwnInitReply)'
    BY OrderNext, AnsweredNext, OwnInitNext DEF WireInv, IInv
  <2> QED
    BY <2>1, StorageStep
<1>3. (IInv /\ SessionInv) => IInv
  OBVIOUS
<1> QED
  BY <1>1, <1>2, <1>3, ExchangeInvariance, PTL DEF StorageSpec

\* The answer a K-line init copies out is still that of its reply, though both
\* locks are free and other threads' commands are served meanwhile
\* (op_j2534.c:1026-1031): for any number of threads and calls, when the cable
\* numbers its init replies and one thread makes the inits.
THEOREM InitDataAreStable ==
    UnnumberedInits = {} /\ (\A t, u \in Initiators : t = u)
        => (StorageSpec => []InitDataStays)
<1> SUFFICES ASSUME UnnumberedInits = {}, \A t, u \in Initiators : t = u
             PROVE  StorageSpec => []InitDataStays
  OBVIOUS
<1>1. StorageInit => DataInv /\ InitDataStays
  BY DEF StorageInit, Init, DataInv, InitDataStays
<1>2. IInv /\ SessionInv /\ StorageInv /\ WireInv /\ OwnInitReply /\ DataInv /\ InitDataStays
          /\ [StorageNext]_<<vars, storageVars>>
          => (DataInv /\ InitDataStays)'
  BY DataNext, StaysNext
<1>3. StorageSpec => [](WireInv /\ OwnInitReply)
  BY StorageWire
<1> QED
  BY <1>1, <1>2, <1>3, ExchangeInvariance, StorageInvariance, PTL DEF StorageSpec
=============================================================================
