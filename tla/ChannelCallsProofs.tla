------------------------- MODULE ChannelCallsProofs -------------------------
(***************************************************************************)
(* Proofs about ChannelCalls, for any requests, widths, budgets, transfers *)
(* and any number of calls, losses and answers that come late: the count a *)
(* write hands back, its Timeout, and what a call that has returned says   *)
(* of the cable.                                                           *)
(***************************************************************************)
EXTENDS ChannelCalls, FiniteSetTheorems, SequenceTheorems, WellFoundedInduction,
        TLAPS

Lists == {r.items : r \in Requests} \cup {<<>>}
Items == UNION {{l[i] : i \in 1 .. Len(l)} : l \in Lists}
Data == Values \cup Nat
Ids == Nat \X Nat

Outcomes == [kind : Kinds \cup {"none"}, items : Lists, timeout : 0 .. 2 * LongMax + 1, done : Nat,
             status : {"ok", "timeout", "invalid", "no_device", "stalled", "failed", "refused"},
             handedOut : Seq([item : Nat, value : Data])]
Asks == [wait : BOOLEAN, given : Nat, budget : Nat, left : Nat, transfers : Nat, waited : Nat,
         until : Int]
Answers == [status : {"none", "ok", "bare", "refused"}, value : Data]
Entries == [id : Ids, kind : Kinds, item : Items]

(***************************************************************************)
(* The invariant.                                                          *)
(***************************************************************************)
TypeInv ==
    /\ pc \in {"idle", "next", "queued", "writing", "waiting"}
    /\ call \in Outcomes /\ ask \in Asks /\ answer \in Answers
    /\ elapsed \in Nat /\ stepped \in Int /\ lost \in BOOLEAN
    /\ inbox \in Seq(Entries) /\ torn \in BOOLEAN /\ whole \in BOOLEAN
    /\ handed \in Seq(Ids) /\ bus \in Seq(Ids) /\ results \in Seq(Outcomes)
    /\ config \in [Parameters -> Values] /\ filters \subseteq Nat /\ nextFilter \in Nat

UnderWay == pc \in {"queued", "writing", "waiting"}

\* A call is one that was asked for; only a command that waits is answered.
CallInv ==
    /\ \A i \in 1 .. Len(call.items) :
          call.items[i].size \in Nat /\ (call.kind = "set" => call.items[i].value \in Values)
    /\ call.done \in 0 .. Len(call.items)
    /\ call.kind = "clear" => call.items # <<>>
    /\ pc # "idle" => call.kind # "none"
    /\ UnderWay => call.done < Len(call.items)
    /\ answer # NoAnswer => pc = "waiting"
    /\ answer = NoAnswer \/ answer.status # "none"
    /\ pc # "idle" /\ call.kind = "write" => call.status = "ok"
    /\ pc = "idle" /\ call.kind \notin {"none", "write", "filter"} => call.done = Len(call.items)

\* All but a write without a Timeout wait for their answers.
WaitInv == UnderWay /\ (call.kind # "write" \/ Waits(call)) => ask.wait

PhaseInv == CallInv /\ WaitInv

\* The number of the call made last; how many of its commands the cable has
\* been given.
Latest == IF pc = "idle" THEN Len(results) ELSE Len(results) + 1
Reached == IF pc = "waiting" THEN call.done + 1 ELSE call.done

\* The commands of a write reach the cable in order, one after the other.
HandedInv ==
    /\ \A i \in DOMAIN handed : handed[i][1] \in 1 .. Latest
    /\ \A c \in DOMAIN results : results[c].kind = "write" =>
          /\ \E n \in {results[c].done, results[c].done + 1} : FirstOf(c, n, handed)
          /\ results[c].status = "ok" => results[c].done = Len(results[c].items)
    /\ pc # "idle" /\ call.kind = "write" => FirstOf(Latest, Reached, handed)

\* What the cable has yet to run.
QueueInv ==
    \A j \in DOMAIN inbox :
       /\ inbox[j].id[1] \in 1 .. Latest
       /\ inbox[j].kind = "set" => inbox[j].item.value \in Values
       /\ inbox[j].id[1] = Latest =>
             /\ inbox[j].kind = call.kind /\ inbox[j].item = call.items[inbox[j].id[2]]
             /\ inbox[j].id[2] \in 1 .. (IF pc = "idle" THEN call.done + 1 ELSE Reached)
             /\ pc = "waiting" /\ inbox[j].id[2] = call.done + 1 => j = Len(inbox)

\* The places in the queue q of the commands of call c.
QueuedOf(c, q) == {j \in DOMAIN q : q[j].id[1] = c}

\* The first n of call c are on the bus b; the one after them may be still to
\* be run, or was run too.
Settled(c, n, q, b) ==
    /\ \A j \in QueuedOf(c, q) : q[j].id[2] = n + 1
    /\ \A j, k \in QueuedOf(c, q) : j = k
    /\ IF QueuedOf(c, q) # {} THEN FirstOf(c, n, b) ELSE \E k \in {n, n + 1} : FirstOf(c, k, b)

BusInv ==
    /\ \A i \in DOMAIN bus : bus[i][1] \in 1 .. Latest
    /\ \A c \in DOMAIN results :
          results[c].kind = "write" /\ Waits(results[c]) => Settled(c, results[c].done, inbox, bus)
    /\ pc # "idle" /\ call.kind = "write" /\ Waits(call) =>
          /\ IF pc = "waiting" THEN Settled(Latest, call.done, inbox, bus)
             ELSE QueuedOf(Latest, inbox) = {} /\ FirstOf(Latest, call.done, bus)
          /\ answer # NoAnswer => QueuedOf(Latest, inbox) = {}
          /\ answer.status = "ok" => FirstOf(Latest, call.done + 1, bus)

\* What a write has cost so far.
Spent == call.timeout + ask.waited + ask.transfers * ask.given

TimeInv ==
    call.kind = "write" /\ Waits(call) =>
        /\ UnderWay \/ ask # NoAsk =>
              /\ ask.given \in 1 .. call.timeout
              /\ ask.budget \in MicroPerMs .. call.timeout * MicroPerMs
              /\ stepped = 0 => elapsed <= Spent
        /\ pc = "queued" => ask.waited = 0 /\ ask.transfers = 0
        /\ stepped = 0 /\ pc \in {"queued", "writing"} => elapsed + ask.given <= Spent
        /\ stepped = 0 /\ pc = "waiting" => ask.until <= Spent

\* Once the queue q has been run a cable set to m has v for p.
Sets(e, p) == e.kind = "set" /\ e.item.parameter = p
WillBe(p, v, q, m) ==
    \/ /\ \A j \in DOMAIN q : ~Sets(q[j], p)
       /\ m[p] = v
    \/ \E j \in DOMAIN q :
          /\ Sets(q[j], p) /\ q[j].item.value = v
          /\ \A k \in j + 1 .. Len(q) : ~Sets(q[k], p)

\* Item i is the last of the first n that sets p.
LastSet(i, p, items, n) ==
    /\ i \in 1 .. n /\ items[i].parameter = p
    /\ \A k \in i + 1 .. n : items[k].parameter # p

SetInv ==
    call.kind = "set" /\ whole =>
        (\A p \in Parameters, i \in Nat :
            LastSet(i, p, call.items, Reached) => WillBe(p, call.items[i].value, inbox, config))

\* The call has been told something of the cable, which only its own commands
\* are still to come to.
Told == call.handedOut # <<>> \/ answer # NoAnswer
        \/ (call.kind = "clear" /\ call.done > 0 /\ call.status = "ok")

ToldInv ==
    /\ Told => (\A j \in DOMAIN inbox : inbox[j].id[1] = Latest)
    /\ call.kind = "get" =>
          /\ \A i \in DOMAIN call.handedOut :
                LET h == call.handedOut[i] IN
                /\ h.item \in 1 .. call.done /\ call.items[h.item].parameter \in Parameters
                /\ h.value = config[call.items[h.item].parameter]
          /\ answer.status = "ok" =>
                Item.parameter \in Parameters /\ answer.value = config[Item.parameter]
    /\ call.kind = "filter" =>
          /\ \A i \in DOMAIN call.handedOut : call.handedOut[i].value \in filters
          /\ answer.status = "ok" => answer.value \in filters
    /\ call.kind = "clear"
          /\ ((call.done > 0 /\ call.status = "ok") \/ answer.status = "ok") => filters = {}

IInv == TypeInv /\ PhaseInv /\ HandedInv /\ QueueInv /\ BusInv /\ TimeInv /\ SetInv /\ ToldInv

(***************************************************************************)
(* Lemmas: sequences, the fields of a call, the item under way.            *)
(***************************************************************************)
LEMMA AppendAt ==
    ASSUME NEW S, NEW s \in Seq(S), NEW e \in S
    PROVE  /\ Append(s, e) \in Seq(S) /\ Len(s) \in Nat /\ Len(Append(s, e)) = Len(s) + 1
           /\ DOMAIN s = 1 .. Len(s) /\ DOMAIN Append(s, e) = 1 .. Len(s) + 1
           /\ \A i \in 1 .. Len(s) : Append(s, e)[i] = s[i] /\ s[i] \in S
           /\ Append(s, e)[Len(s) + 1] = e
BY AppendProperties, LenProperties, ElementOfSeq

LEMMA TailAt ==
    ASSUME NEW S, NEW s \in Seq(S), s # <<>>
    PROVE  /\ Tail(s) \in Seq(S) /\ Len(s) \in Nat \ {0} /\ Len(Tail(s)) = Len(s) - 1
           /\ DOMAIN s = 1 .. Len(s) /\ DOMAIN Tail(s) = 1 .. Len(s) - 1
           /\ \A i \in 1 .. Len(s) - 1 : i + 1 \in 1 .. Len(s) /\ Tail(s)[i] = s[i + 1]
           /\ Head(s) = s[1] /\ s[1] \in S /\ 1 \in 1 .. Len(s)
<1>1. /\ Tail(s) \in Seq(S) /\ Len(Tail(s)) = Len(s) - 1 /\ Head(s) \in S
      /\ \A i \in 1 .. Len(Tail(s)) : Tail(s)[i] = s[i + 1]
  BY HeadTailProperties
<1>2. Len(s) \in Nat /\ DOMAIN s = 1 .. Len(s) /\ DOMAIN Tail(s) = 1 .. Len(Tail(s))
  BY <1>1, LenProperties
<1>3. Len(s) # 0 BY <1>2, EmptySeq
<1>4. Head(s) = s[1] OBVIOUS
<1> QED BY <1>1, <1>2, <1>3, <1>4

\* The next command of a call goes behind its first n.
LEMMA FirstMore ==
    ASSUME NEW ids \in Seq(Ids), NEW c \in Nat, NEW n \in Nat, FirstOf(c, n, ids)
    PROVE  FirstOf(c, n + 1, Append(ids, <<c, n + 1>>))
<1> DEFINE new == Append(ids, <<c, n + 1>>)
           own == {i \in DOMAIN ids : ids[i][1] = c}
           mine == {i \in DOMAIN new : new[i][1] = c}
<1>1. <<c, n + 1>> \in Ids BY DEF Ids
<1>2. /\ Len(ids) \in Nat /\ DOMAIN ids = 1 .. Len(ids) /\ DOMAIN new = 1 .. Len(ids) + 1
      /\ \A i \in 1 .. Len(ids) : new[i] = ids[i]
      /\ new[Len(ids) + 1] = <<c, n + 1>>
  BY <1>1, AppendAt
<1>3. /\ {ids[i][2] : i \in own} = 1 .. n
      /\ \A i, j \in own : i < j => ids[i][2] < ids[j][2]
  BY DEF FirstOf
<1> HIDE DEF new
<1>4. mine = own \cup {Len(ids) + 1} BY <1>2
<1>5. \A i \in own : i \in 1 .. Len(ids) /\ new[i][2] = ids[i][2] /\ ids[i][2] \in 1 .. n
  BY <1>2, <1>3
<1>6. new[Len(ids) + 1][2] = n + 1 BY <1>2
<1> HIDE DEF own, mine
<1>7. {new[i][2] : i \in mine} = 1 .. n + 1
  <2>1. {new[i][2] : i \in mine} = {ids[i][2] : i \in own} \cup {n + 1}
    BY <1>4, <1>5, <1>6
  <2>2. (1 .. n) \cup {n + 1} = 1 .. n + 1 OBVIOUS
  <2> QED BY <1>3, <2>1, <2>2
<1>8. ASSUME NEW i \in mine, NEW j \in mine, i < j PROVE new[i][2] < new[j][2]
  <2>1. CASE j \in own
    <3>1. i \in own BY <1>2, <1>4, <1>5, <1>8, <2>1
    <3> QED BY <1>3, <1>5, <1>8, <2>1, <3>1
  <2>2. CASE j = Len(ids) + 1
    <3>1. i \in own BY <1>2, <1>4, <1>8, <2>2
    <3> QED BY <1>5, <1>6, <2>2, <3>1
  <2> QED BY <1>4, <2>1, <2>2
<1> QED BY <1>7, <1>8 DEF FirstOf, new, mine

\* A command of another call is none of its.
LEMMA FirstOther ==
    ASSUME NEW ids \in Seq(Ids), NEW id \in Ids, NEW c, id[1] # c, NEW n
    PROVE  FirstOf(c, n, Append(ids, id)) <=> FirstOf(c, n, ids)
<1> DEFINE new == Append(ids, id)
<1>1. /\ Len(ids) \in Nat /\ DOMAIN ids = 1 .. Len(ids) /\ DOMAIN new = 1 .. Len(ids) + 1
      /\ \A i \in 1 .. Len(ids) : new[i] = ids[i]
      /\ new[Len(ids) + 1] = id
  BY AppendAt
<1> HIDE DEF new
<1>2. {i \in DOMAIN new : new[i][1] = c} = {i \in DOMAIN ids : ids[i][1] = c} BY <1>1
<1>3. \A i \in {i \in DOMAIN ids : ids[i][1] = c} : new[i] = ids[i] BY <1>1
<1>4. {new[i][2] : i \in {i \in DOMAIN new : new[i][1] = c}}
      = {ids[i][2] : i \in {i \in DOMAIN ids : ids[i][1] = c}}
  BY <1>2, <1>3
<1> QED BY <1>2, <1>3, <1>4 DEF FirstOf, new

LEMMA FirstNone ==
    ASSUME NEW ids, NEW c, \A i \in DOMAIN ids : ids[i][1] # c
    PROVE  FirstOf(c, 0, ids)
<1>1. {i \in DOMAIN ids : ids[i][1] = c} = {} OBVIOUS
<1> QED BY <1>1 DEF FirstOf

LEMMA Constants ==
    /\ Width \in Nat \ {0} /\ MicroPerMs \in Nat \ {0} /\ CommandMs \in Nat \ {0}
    /\ NowaitMs \in Nat \ {0} /\ MaxCalls \in Nat /\ LockMax \in Nat /\ ZeroBudget \in Nat
    /\ LongMax \in Nat
    /\ MicroPerMs < Width /\ Width <= LongMax /\ Leaps \subseteq Int
BY ChannelAssumption

LEMMA ListLength == \A l \in Lists : Len(l) \in Nat /\ DOMAIN l = 1 .. Len(l)
BY ChannelAssumption DEF Lists

\* The item the command under way is of.
LEMMA ItemUnderWay ==
    ASSUME TypeInv, PhaseInv, call.done < Len(call.items)
    PROVE  /\ call.done \in Nat /\ Len(call.items) \in Nat /\ call.done + 1 \in 1 .. Len(call.items)
           /\ Item \in Items /\ Item.size \in Nat /\ (call.kind = "set" => Item.value \in Values)
           /\ Id \in Ids /\ Id[1] = Len(results) + 1 /\ Id[2] = call.done + 1 /\ Len(results) \in Nat
<1>1. call.done \in Nat /\ call.items \in Lists BY DEF TypeInv, Outcomes
<1>2. Len(call.items) \in Nat BY <1>1, ListLength
<1>3. call.done + 1 \in 1 .. Len(call.items) BY <1>1, <1>2
<1>4. Item \in Items BY <1>1, <1>3 DEF Items, Item
<1>5. Item.size \in Nat /\ (call.kind = "set" => Item.value \in Values)
  BY <1>3 DEF PhaseInv, CallInv, WaitInv, Item
<1>6. Len(results) \in Nat BY LenProperties DEF TypeInv
<1>7. Id \in Ids /\ Id[1] = Len(results) + 1 /\ Id[2] = call.done + 1
  BY <1>1, <1>6 DEF Ids, Id, CallNumber
<1> QED BY <1>1, <1>2, <1>3, <1>4, <1>5, <1>6, <1>7

Statuses == {"ok", "timeout", "invalid", "no_device", "stalled", "failed", "refused"}

\* A call that has done one item more, that has failed, and one that has
\* recorded an answer.
LEMMA Fields ==
    ASSUME NEW c \in Outcomes, NEW s \in Statuses
    PROVE  /\ LET d == [c EXCEPT !.done = @ + 1] IN
              /\ d \in Outcomes /\ d.kind = c.kind /\ d.items = c.items /\ d.timeout = c.timeout
              /\ d.done = c.done + 1 /\ d.status = c.status /\ d.handedOut = c.handedOut
           /\ LET d == [c EXCEPT !.status = s] IN
              /\ d \in Outcomes /\ d.kind = c.kind /\ d.items = c.items /\ d.timeout = c.timeout
              /\ d.done = c.done /\ d.status = s /\ d.handedOut = c.handedOut
<1>1. c.done + 1 \in Nat BY DEF Outcomes
<1>2. PICK n \in Nat : n = c.done + 1 BY <1>1
<1>3. LET d == [c EXCEPT !.done = n] IN
         /\ d \in Outcomes /\ d.kind = c.kind /\ d.items = c.items /\ d.timeout = c.timeout
         /\ d.done = n /\ d.status = c.status /\ d.handedOut = c.handedOut
  BY DEF Outcomes
<1>4. LET d == [c EXCEPT !.status = s] IN
         /\ d \in Outcomes /\ d.kind = c.kind /\ d.items = c.items /\ d.timeout = c.timeout
         /\ d.done = c.done /\ d.status = s /\ d.handedOut = c.handedOut
  BY DEF Outcomes, Statuses
<1> QED BY <1>2, <1>3, <1>4

LEMMA RecordedFields ==
    ASSUME call \in Outcomes, NEW s \in Statuses, NEW v \in Data
    PROVE  LET d == Recorded(s, v) IN
           /\ d \in Outcomes /\ d.kind = call.kind /\ d.items = call.items
           /\ d.timeout = call.timeout /\ d.done = call.done + 1 /\ d.status = s
           /\ d.handedOut = IF s = "ok" /\ call.kind \in {"get", "read", "init", "filter"}
                            THEN Append(call.handedOut, [item |-> call.done + 1, value |-> v])
                            ELSE call.handedOut
<1>1. call.done + 1 \in Nat BY DEF Outcomes
<1>2. PICK n \in Nat : n = call.done + 1 BY <1>1
<1>3. call.handedOut \in Seq([item : Nat, value : Data]) /\ [item |-> n, value |-> v] \in [item : Nat, value : Data]
  BY DEF Outcomes
<1>4. Append(call.handedOut, [item |-> n, value |-> v]) \in Seq([item : Nat, value : Data])
  BY <1>3, AppendProperties
<1>5. PICK h \in Seq([item : Nat, value : Data]) :
         h = IF s = "ok" /\ call.kind \in {"get", "read", "init", "filter"}
             THEN Append(call.handedOut, [item |-> n, value |-> v]) ELSE call.handedOut
  BY <1>3, <1>4
<1>6. Recorded(s, v) = [call EXCEPT !.done = n, !.status = s, !.handedOut = h]
  BY <1>2, <1>5 DEF Recorded
<1>7. LET d == [call EXCEPT !.done = n, !.status = s, !.handedOut = h] IN
         /\ d \in Outcomes /\ d.kind = call.kind /\ d.items = call.items
         /\ d.timeout = call.timeout /\ d.done = n /\ d.status = s /\ d.handedOut = h
  BY DEF Outcomes, Statuses
<1> QED BY <1>2, <1>5, <1>6, <1>7

(***************************************************************************)
(* What a step can be, as far as the counts, the queue of the cable and    *)
(* the answers go.                                                         *)
(***************************************************************************)
Cable == <<config, filters, bus>>

Begins(r) ==
    /\ pc = "idle" /\ pc' = "next"
    /\ call' = [NoCall EXCEPT !.kind = r.kind, !.items = r.items, !.timeout = r.timeout]
    /\ answer' = NoAnswer /\ whole' = TRUE
    /\ UNCHANGED <<inbox, handed, results, Cable>>

Ends(s) ==
    /\ pc = "next" /\ pc' = "idle"
    /\ call' = [call EXCEPT !.status = s] /\ results' = Append(results, call')
    /\ \/ s = call.status /\ ~(call.done < Len(call.items))
       \/ s \in {"timeout", "invalid"} /\ call.kind \in {"write", "filter"}
    /\ UNCHANGED <<inbox, handed, whole, answer, Cable>>

Moves ==
    /\ \/ pc' = pc
       \/ pc = "next" /\ pc' = "queued" /\ call.done < Len(call.items)
       \/ pc = "queued" /\ pc' = "writing"
    /\ UNCHANGED <<call, inbox, handed, results, whole, answer, Cable>>

Entry == [id |-> Id, kind |-> call.kind, item |-> Item]
Delivered ==
    /\ handed' = Append(handed, Id)
    /\ \/ inbox' = Append(inbox, Entry) /\ whole' = whole
       \/ inbox' = inbox /\ whole' = FALSE

Sends ==
    /\ pc = "writing" /\ pc' = "waiting" /\ Delivered
    /\ UNCHANGED <<call, results, answer, Cable>>

Settles(s, v) ==
    /\ UnderWay /\ After(s, v) /\ answer' = NoAnswer
    /\ \/ pc = "writing" /\ Delivered /\ (s = "ok" => ~ask.wait)
       \/ /\ pc # "waiting" /\ s # "ok"
          /\ whole' = FALSE /\ UNCHANGED <<inbox, handed>>
       \/ /\ pc = "waiting" /\ UNCHANGED <<inbox, handed, whole>>
          /\ \/ answer # NoAnswer /\ s = StatusOf(answer) /\ v = answer.value
             \/ s # "ok"
    /\ UNCHANGED Cable

LEMMA ReachesDelivers == ASSUME Reaches PROVE Delivered
BY DEF Reaches, Delivered, Entry

LEMMA StatusOfAnswer ==
    ASSUME TypeInv, PhaseInv, answer # NoAnswer
    PROVE  /\ StatusOf(answer) \in Statuses /\ answer.value \in Data
           /\ StatusOf(answer) = "ok" <=> answer.status = "ok"
BY DEF TypeInv, PhaseInv, CallInv, WaitInv, Answers, StatusOf, Statuses

LEMMA ZeroData == 0 \in Data
BY DEF Data

LEMMA StepKinds ==
    ASSUME TypeInv, PhaseInv, [Next]_vars
    PROVE  \/ \E r \in Requests : Begins(r)
           \/ \E s \in Statuses : Ends(s)
           \/ Moves \/ Sends
           \/ \E s \in Statuses, v \in Data : Settles(s, v)
           \/ CableRuns
<1> USE DEF Cable, cableVars, pipeVars, callVars
<1>0. call \in Outcomes /\ call.status \in Statuses /\ pc \in {"idle", "next", "queued", "writing", "waiting"}
  BY DEF TypeInv, Outcomes, Statuses
<1>a. pc # "waiting" => answer = NoAnswer BY DEF PhaseInv, CallInv, WaitInv
<1>b. \A s \in Statuses, v \in Data : Settles(s, v) => \E t \in Statuses, w \in Data : Settles(t, w)
  OBVIOUS
<1>c. {"ok", "timeout", "no_device", "stalled", "failed"} \subseteq Statuses /\ 0 \in Data
  BY ZeroData DEF Statuses
<1>1. CASE \E r \in Requests : MakeCall(r)
  <2>1. PICK r \in Requests : MakeCall(r) BY <1>1
  <2>2. Begins(r) BY <2>1 DEF MakeCall, Begins
  <2> QED BY <2>2
<1>2. CASE Finish
  <2>1. call = [call EXCEPT !.status = call.status] BY <1>0 DEF Outcomes
  <2>2. Ends(call.status) BY <1>2, <2>1 DEF Finish, Return, More, Ends
  <2> QED BY <1>0, <2>2
<1>3. CASE GiveUp
  <2>1. Ends("timeout") BY <1>3 DEF GiveUp, OutOfTime, Timed, Return, More, Ends
  <2> QED BY <1>c, <2>1
<1>4. CASE Reject
  <2>1. "invalid" \in Statuses BY DEF Statuses
  <2>2. Ends("invalid") BY <1>4 DEF Reject, Valid, Return, More, Ends
  <2> QED BY <2>1, <2>2
<1>5. CASE AskNext
  BY <1>5 DEF AskNext, More, Moves
<1>6. CASE \E w \in IF Timed THEN 0 .. LockMax ELSE {0} : Enter(w)
  <2>1. PICK w : Enter(w) BY <1>6
  <2>2. CASE lost
    <3>1. After("no_device", 0) /\ whole' = FALSE /\ pc = "queued"
          /\ UNCHANGED <<inbox, handed, answer, config, filters, bus>>
      BY <2>1, <2>2 DEF Enter
    <3>2. Settles("no_device", 0) BY <1>a, <3>1 DEF Settles, UnderWay
    <3> QED BY <1>c, <3>2
  <2>3. CASE ~lost
    BY <2>1, <2>3 DEF Enter, Moves
  <2> QED BY <2>2, <2>3
<1>7. CASE \E d \in Durations, m \in 0 .. ask.left : m > 0 /\ Transfer(m, d)
  <2>1. PICK m, d : Transfer(m, d) BY <1>7
  <2>2. CASE m < ask.left
    BY <2>1, <2>2 DEF Transfer, Moves
  <2>3. CASE ~(m < ask.left)
    <3>1. /\ Reaches /\ pc = "writing" /\ UNCHANGED <<answer, config, filters, bus>>
          /\ IF ask.wait THEN pc' = "waiting" /\ UNCHANGED <<call, results>> ELSE After("ok", 0)
      BY <2>1, <2>3 DEF Transfer
    <3>2. Delivered BY <3>1, ReachesDelivers
    <3>3. CASE ask.wait
      BY <3>1, <3>2, <3>3 DEF Sends
    <3>4. CASE ~ask.wait
      <4>1. Settles("ok", 0) BY <1>a, <3>1, <3>2, <3>4 DEF Settles, UnderWay
      <4> QED BY <1>c, <4>1
    <3> QED BY <3>3, <3>4
  <2> QED BY <2>2, <2>3
<1>8. CASE \E d \in Durations, m \in 0 .. ask.left :
              \E s \in {"stalled", "failed"} : TransferFails(m, d, s)
  <2>0. PICK d \in Durations, m \in 0 .. ask.left :
           \E s \in {"stalled", "failed"} : TransferFails(m, d, s)
    BY <1>8
  <2>1. PICK s \in {"stalled", "failed"} : TransferFails(m, d, s) BY <2>0
  <2>2. /\ pc = "writing" /\ After(s, 0) /\ UNCHANGED <<answer, config, filters, bus>>
        /\ IF m = ask.left THEN Reaches ELSE whole' = FALSE /\ UNCHANGED <<inbox, handed>>
    BY <2>1 DEF TransferFails
  <2>3. Settles(s, 0) BY <1>a, <2>2, ReachesDelivers DEF Settles, UnderWay
  <2> QED BY <1>c, <2>3
<1>9. CASE \E e \in {elapsed, UntilEnd} : TakeAnswer(e) \/ WakeGone(e)
  <2>1. PICK e : TakeAnswer(e) \/ WakeGone(e) BY <1>9
  <2>2. CASE TakeAnswer(e)
    <3>1. Settles(StatusOf(answer), answer.value)
      BY <2>2 DEF TakeAnswer, Settles, UnderWay
    <3>2. StatusOf(answer) \in Statuses /\ answer.value \in Data
      BY <2>2, StatusOfAnswer DEF TakeAnswer
    <3> QED BY <3>1, <3>2
  <2>3. CASE WakeGone(e)
    <3>1. Settles("no_device", 0) BY <2>3 DEF WakeGone, Settles, UnderWay
    <3> QED BY <1>c, <3>1
  <2> QED BY <2>1, <2>2, <2>3
<1>10. CASE TimeOut
  <2>1. Settles("timeout", 0) BY <1>10 DEF TimeOut, Settles, UnderWay
  <2> QED BY <1>c, <2>1
<1>11. CASE Unplugged \/ (\E k \in Leaps : ClockStepped(k)) \/ Done \/ UNCHANGED vars
  BY <1>11 DEF Unplugged, ClockStepped, Done, vars, Moves
<1> QED BY <1>1, <1>2, <1>3, <1>4, <1>5, <1>6, <1>7, <1>8, <1>9, <1>10, <1>11 DEF Next

\* The call goes on with the next item, or a write that failed returns.
Advances(s, v) ==
    /\ pc' = "next" /\ results' = results /\ call'.done = call.done + 1
    /\ \/ call.kind = "write" /\ s = "ok" /\ call'.status = call.status
          /\ call'.handedOut = call.handedOut
       \/ /\ call.kind # "write" /\ call'.status = s
          /\ call'.handedOut = IF s = "ok" /\ call.kind \in {"get", "read", "init", "filter"}
                               THEN Append(call.handedOut, [item |-> call.done + 1, value |-> v])
                               ELSE call.handedOut

Fails(s) ==
    /\ pc' = "idle" /\ results' = Append(results, call') /\ call'.done = call.done
    /\ call.kind = "write" /\ s # "ok" /\ call'.status = s
    /\ call'.handedOut = call.handedOut

SameCall == call'.kind = call.kind /\ call'.items = call.items /\ call'.timeout = call.timeout

LEMMA AfterIs ==
    ASSUME TypeInv, NEW s \in Statuses, NEW v \in Data, After(s, v)
    PROVE  /\ call' \in Outcomes /\ SameCall
           /\ Advances(s, v) \/ Fails(s)
<1>1. call \in Outcomes BY DEF TypeInv
<1>2. CASE call.kind = "write"
  <2>1. AfterWrite(s, v) BY <1>2 DEF After
  <2>2. CASE s = "ok"
    <3>1. call' = [call EXCEPT !.done = @ + 1] /\ pc' = "next" /\ results' = results
      BY <2>1, <2>2 DEF AfterWrite, Continue
    <3> QED BY <1>1, <1>2, <2>2, <3>1, Fields DEF SameCall, Advances
  <2>3. CASE s # "ok"
    <3>1. call' = [call EXCEPT !.status = s] /\ pc' = "idle" /\ results' = Append(results, call')
      BY <2>1, <2>3 DEF AfterWrite, Return
    <3> QED BY <1>1, <1>2, <2>3, <3>1, Fields DEF SameCall, Fails
  <2> QED BY <2>2, <2>3
<1>3. CASE call.kind # "write"
  <2>1. call' = Recorded(s, v) /\ pc' = "next" /\ results' = results
    BY <1>3 DEF After, AfterOther, Continue
  <2> QED BY <1>1, <1>3, <2>1, RecordedFields DEF SameCall, Advances
<1> QED BY <1>2, <1>3

\* The number of the call stays until the next one begins.
LEMMA LatestIs ==
    ASSUME TypeInv
    PROVE  /\ Len(results) \in Nat /\ Latest \in Nat /\ DOMAIN results = 1 .. Len(results)
           /\ pc # "idle" => Latest = Len(results) + 1 /\ Latest \notin DOMAIN results
           /\ pc = "idle" => Latest = Len(results)
BY LenProperties DEF TypeInv, Latest

LEMMA LatestStays ==
    ASSUME TypeInv, pc # "idle",
           \/ results' = results /\ pc' # "idle"
           \/ results' = Append(results, call') /\ pc' = "idle" /\ call' \in Outcomes
    PROVE  /\ Latest' = Latest
           /\ DOMAIN results' = DOMAIN results \/ DOMAIN results' = DOMAIN results \cup {Latest}
           /\ pc' # "idle" => DOMAIN results' = DOMAIN results
           /\ pc' = "idle" => Latest \in DOMAIN results' /\ results'[Latest] = call'
           /\ \A c \in DOMAIN results : c \in DOMAIN results' /\ results'[c] = results[c]
<1>1. Len(results) \in Nat /\ DOMAIN results = 1 .. Len(results) /\ Latest = Len(results) + 1
  BY LatestIs
<1>2. CASE results' = results /\ pc' # "idle"
  BY <1>1, <1>2 DEF Latest
<1>3. CASE results' = Append(results, call') /\ pc' = "idle" /\ call' \in Outcomes
  <2>1. results \in Seq(Outcomes) BY DEF TypeInv
  <2>2. /\ Len(results') = Len(results) + 1 /\ DOMAIN results' = 1 .. Len(results) + 1
        /\ \A i \in 1 .. Len(results) : results'[i] = results[i]
        /\ results'[Len(results) + 1] = call'
    BY <1>3, <2>1, AppendAt
  <2>3. Latest' = Latest BY <1>1, <1>3, <2>2 DEF Latest
  <2>4. DOMAIN results' = DOMAIN results \cup {Latest} BY <1>1, <2>2
  <2> QED BY <1>1, <1>3, <2>2, <2>3, <2>4
<1> QED BY <1>2, <1>3

\* A step of a call under way that does not begin one.
LEMMA GoesOn ==
    ASSUME TypeInv, PhaseInv,
           \/ \E s \in Statuses : Ends(s)
           \/ Sends
           \/ \E s \in Statuses, v \in Data : Settles(s, v)
    PROVE  /\ pc # "idle" /\ call' \in Outcomes /\ SameCall
           /\ Latest' = Latest /\ Latest \in Nat
           /\ pc' # "idle" => DOMAIN results' = DOMAIN results
           /\ pc' = "idle" => Latest \in DOMAIN results' /\ results'[Latest] = call'
           /\ \A c \in DOMAIN results' : c \in DOMAIN results \/ (c = Latest /\ pc' = "idle")
           /\ \A c \in DOMAIN results : c \in DOMAIN results' /\ results'[c] = results[c] /\ c # Latest
<1>0. call \in Outcomes BY DEF TypeInv
<1>1. CASE \E s \in Statuses : Ends(s)
  <2>1. PICK s \in Statuses : Ends(s) BY <1>1
  <2>2. pc = "next" /\ pc' = "idle" /\ results' = Append(results, call')
        /\ call' = [call EXCEPT !.status = s]
    BY <2>1 DEF Ends
  <2>3. call' \in Outcomes /\ SameCall BY <1>0, <2>2, Fields DEF SameCall
  <2> QED BY <2>2, <2>3, LatestStays, LatestIs
<1>2. CASE Sends
  <2>1. pc = "writing" /\ pc' = "waiting" /\ call' = call /\ results' = results BY <1>2 DEF Sends
  <2> QED BY <1>0, <2>1, LatestStays, LatestIs DEF SameCall
<1>3. CASE \E s \in Statuses, v \in Data : Settles(s, v)
  <2>1. PICK s \in Statuses, v \in Data : Settles(s, v) BY <1>3
  <2>2. After(s, v) /\ pc # "idle" BY <2>1 DEF Settles, UnderWay
  <2>3. call' \in Outcomes /\ SameCall /\ (Advances(s, v) \/ Fails(s)) BY <2>2, AfterIs
  <2>4. \/ results' = results /\ pc' # "idle"
        \/ results' = Append(results, call') /\ pc' = "idle"
    BY <2>3 DEF Advances, Fails
  <2> QED BY <2>2, <2>3, <2>4, LatestStays, LatestIs
<1> QED BY <1>1, <1>2, <1>3

(***************************************************************************)
(* The commands handed to the cable.                                       *)
(***************************************************************************)
LEMMA DeliveredHands ==
    ASSUME TypeInv, PhaseInv, HandedInv, UnderWay, Delivered
    PROVE  /\ \A i \in DOMAIN handed' : handed'[i][1] \in 1 .. Latest
           /\ \A c \in DOMAIN results, n \in Nat : FirstOf(c, n, handed') <=> FirstOf(c, n, handed)
           /\ pc # "waiting" /\ call.kind = "write" => FirstOf(Latest, call.done + 1, handed')
<1>1. /\ Id \in Ids /\ Id[1] = Latest /\ Id[2] = call.done + 1 /\ Latest \in Nat
      /\ Latest \in 1 .. Latest
      /\ Latest \notin DOMAIN results /\ call.done \in Nat
  BY ItemUnderWay, LatestIs DEF PhaseInv, CallInv, WaitInv, UnderWay
<1>2. handed \in Seq(Ids) /\ handed' = Append(handed, Id) BY DEF TypeInv, Delivered
<1>3. \A i \in DOMAIN handed' : handed'[i][1] \in 1 .. Latest
  BY <1>1, <1>2, AppendAt DEF HandedInv
<1>4. \A c \in DOMAIN results, n \in Nat : FirstOf(c, n, handed') <=> FirstOf(c, n, handed)
  <2> TAKE c \in DOMAIN results, n \in Nat
  <2>1. Id[1] # c BY <1>1
  <2> QED BY <1>1, <1>2, <2>1, FirstOther
<1>5. ASSUME pc # "waiting", call.kind = "write" PROVE FirstOf(Latest, call.done + 1, handed')
  <2>1. FirstOf(Latest, call.done, handed) BY <1>5 DEF HandedInv, Reached, UnderWay
  <2>2. Id = <<Latest, call.done + 1>> BY <1>1 DEF Id, Ids
  <2> QED BY <1>1, <1>2, <2>1, <2>2, FirstMore
<1> QED BY <1>3, <1>4, <1>5

\* How results are judged by what was handed over.
Judged(r, c, ids) ==
    r.kind = "write" =>
       /\ \E n \in {r.done, r.done + 1} : FirstOf(c, n, ids)
       /\ r.status = "ok" => r.done = Len(r.items)

LEMMA HandedNext ==
    ASSUME TypeInv, PhaseInv, HandedInv, [Next]_vars
    PROVE  HandedInv'
<1>0. /\ \A i \in DOMAIN handed : handed[i][1] \in 1 .. Latest
      /\ \A c \in DOMAIN results : Judged(results[c], c, handed)
      /\ \A c \in DOMAIN results : results[c].done \in Nat
      /\ call.done \in Nat
  <2>1. \A c \in DOMAIN results : results[c].done \in Nat
    <3>1. results \in Seq(Outcomes) BY DEF TypeInv
    <3>2. \A c \in DOMAIN results : results[c] \in Outcomes BY <3>1, ElementOfSeq, LatestIs
    <3> QED BY <3>2 DEF Outcomes
  <2> QED BY <2>1 DEF HandedInv, Judged, TypeInv, Outcomes
<1>1. CASE \E r \in Requests : Begins(r)
  <2>1. PICK r \in Requests : Begins(r) BY <1>1
  <2>2. pc = "idle" /\ pc' = "next" /\ UNCHANGED <<handed, results>> /\ call'.done = 0
    BY <2>1 DEF Begins, NoCall
  <2>3. Latest' = Latest + 1 /\ Latest \in Nat BY <2>2, LatestIs DEF Latest
  <2>4. \A i \in DOMAIN handed : handed[i][1] \in 1 .. Latest + 1 /\ handed[i][1] # Latest + 1
    BY <1>0, <2>3
  <2>5. FirstOf(Latest + 1, 0, handed) BY <2>4, FirstNone
  <2>6. Reached' = 0 BY <2>2 DEF Reached
  <2> QED BY <1>0, <2>2, <2>3, <2>4, <2>5, <2>6 DEF HandedInv, Judged
<1>2. CASE \E s \in Statuses : Ends(s)
  <2>1. PICK s \in Statuses : Ends(s) BY <1>2
  <2>2. /\ pc = "next" /\ pc' = "idle" /\ handed' = handed /\ call' = [call EXCEPT !.status = s]
        /\ \/ s = call.status /\ ~(call.done < Len(call.items))
           \/ s \in {"timeout", "invalid"}
    BY <2>1 DEF Ends
  <2>3. call'.done = call.done /\ call'.status = s /\ call'.kind = call.kind /\ call'.items = call.items
    BY <2>2, Fields DEF TypeInv
  <2>4. call.kind = "write" => FirstOf(Latest, call.done, handed)
    BY <2>2 DEF HandedInv, Reached
  <2>5. s = "ok" => call.done = Len(call.items)
    <3>1. call.items \in Lists BY DEF TypeInv, Outcomes
    <3> QED BY <1>0, <2>2, <3>1, ListLength DEF PhaseInv, CallInv, WaitInv
  <2>6. Judged(call', Latest, handed') BY <2>2, <2>3, <2>4, <2>5 DEF Judged
  <2>7. /\ Latest' = Latest /\ results'[Latest] = call'
        /\ \A c \in DOMAIN results' : c \in DOMAIN results \/ c = Latest
        /\ \A c \in DOMAIN results : results'[c] = results[c]
    BY <1>2, <2>2, GoesOn
  <2>8. \A c \in DOMAIN results' : Judged(results'[c], c, handed')
    BY <1>0, <2>2, <2>6, <2>7
  <2> QED BY <1>0, <2>2, <2>7, <2>8 DEF HandedInv, Judged
<1>3. CASE Moves
  <2>1. UNCHANGED <<handed, results, call>> /\ (pc' = pc \/ (pc' \notin {"idle", "waiting"} /\ pc \notin {"idle", "waiting"}))
    BY <1>3 DEF Moves
  <2>2. Latest' = Latest /\ Reached' = Reached BY <2>1 DEF Latest, Reached
  <2> QED BY <1>0, <2>1, <2>2 DEF HandedInv, Judged
<1>4. CASE Sends
  <2>1. pc = "writing" /\ pc' = "waiting" /\ UNCHANGED <<call, results>> /\ Delivered /\ UnderWay
    BY <1>4 DEF Sends, UnderWay
  <2>2. Latest' = Latest /\ Reached' = call.done + 1
    BY <1>4, <2>1, GoesOn DEF Reached
  <2>3. \A c \in DOMAIN results : Judged(results[c], c, handed')
    BY <1>0, <2>1, DeliveredHands DEF Judged
  <2> QED BY <2>1, <2>2, <2>3, DeliveredHands DEF HandedInv, Judged
<1>5. CASE \E s \in Statuses, v \in Data : Settles(s, v)
  <2>1. PICK s \in Statuses, v \in Data : Settles(s, v) BY <1>5
  <2>2. SameCall /\ (Advances(s, v) \/ Fails(s)) /\ UnderWay
    BY <2>1, AfterIs DEF Settles
  \* After the step the first done, or all but the last, have been handed.
  <2>3. /\ \A i \in DOMAIN handed' : handed'[i][1] \in 1 .. Latest
        /\ \A c \in DOMAIN results : Judged(results[c], c, handed')
        /\ call.kind = "write" =>
              /\ s = "ok" => FirstOf(Latest, call.done + 1, handed')
              /\ \E n \in {call.done, call.done + 1} : FirstOf(Latest, n, handed')
    <3>1. CASE pc = "writing" /\ Delivered
      BY <1>0, <2>2, <3>1, DeliveredHands DEF Judged
    <3>2. CASE handed' = handed /\ pc # "waiting" /\ s # "ok"
      BY <1>0, <2>2, <3>2 DEF HandedInv, Judged, Reached, UnderWay
    <3>3. CASE handed' = handed /\ pc = "waiting"
      BY <1>0, <2>2, <3>3 DEF HandedInv, Judged, Reached, UnderWay
    <3> QED BY <2>1, <3>1, <3>2, <3>3 DEF Settles
  <2>4. CASE Advances(s, v)
    <3>1. pc' = "next" /\ call'.done = call.done + 1 /\ results' = results /\ (call.kind = "write" => s = "ok")
      BY <2>4 DEF Advances
    <3>2. Latest' = Latest /\ Reached' = call.done + 1 BY <1>5, <3>1, GoesOn DEF Reached
    <3> QED BY <2>2, <2>3, <3>1, <3>2 DEF HandedInv, Judged, SameCall
  <2>5. CASE Fails(s)
    <3>1. pc' = "idle" /\ call'.done = call.done /\ call'.status # "ok" BY <2>5 DEF Fails
    <3>2. Judged(call', Latest, handed') BY <2>2, <2>3, <3>1 DEF Judged, SameCall
    <3> QED BY <1>5, <2>3, <3>1, <3>2, GoesOn DEF HandedInv, Judged
  <2> QED BY <2>2, <2>4, <2>5
<1>6. CASE CableRuns
  <2>1. UNCHANGED <<pc, call, handed, results>> BY <1>6 DEF CableRuns, callVars
  <2>2. Latest' = Latest /\ Reached' = Reached BY <2>1 DEF Latest, Reached
  <2> QED BY <1>0, <2>1, <2>2 DEF HandedInv, Judged
<1> QED BY <1>1, <1>2, <1>3, <1>4, <1>5, <1>6, StepKinds

(***************************************************************************)
(* The queue of the cable.                                                 *)
(***************************************************************************)
\* What is new in the queue is the command under way, behind all others.
LEMMA QueueGrows ==
    ASSUME TypeInv, PhaseInv,
           \/ inbox' = inbox
           \/ UnderWay /\ Delivered
    PROVE  /\ inbox' \in Seq(Entries) /\ DOMAIN inbox' = 1 .. Len(inbox') /\ Len(inbox') \in Nat
           /\ DOMAIN inbox = 1 .. Len(inbox) /\ Len(inbox) \in Nat
           /\ \A j \in DOMAIN inbox : j \in DOMAIN inbox' /\ inbox'[j] = inbox[j]
           /\ \A j \in DOMAIN inbox' :
                 \/ j \in DOMAIN inbox /\ inbox'[j] = inbox[j]
                 \/ j = Len(inbox') /\ j \notin DOMAIN inbox /\ inbox'[j] = Entry /\ UnderWay
           /\ UnderWay /\ inbox' = Append(inbox, Entry) => inbox'[Len(inbox')] = Entry
                  /\ Len(inbox') = Len(inbox) + 1
<1>1. inbox \in Seq(Entries) BY DEF TypeInv
<1>2. Len(inbox) \in Nat /\ DOMAIN inbox = 1 .. Len(inbox) BY <1>1, LenProperties
<1>3. UnderWay => Entry \in Entries
  <2> SUFFICES ASSUME UnderWay PROVE Entry \in Entries
    OBVIOUS
  <2>1. Id \in Ids /\ Item \in Items BY ItemUnderWay DEF PhaseInv, CallInv, WaitInv
  <2>2. call.kind \in Kinds BY DEF UnderWay, TypeInv, Outcomes, PhaseInv, CallInv, WaitInv
  <2> QED BY <2>1, <2>2 DEF Entry, Entries
<1>4. CASE UnderWay /\ inbox' = Append(inbox, Entry)
  <2>1. /\ inbox' \in Seq(Entries) /\ Len(inbox') = Len(inbox) + 1
        /\ DOMAIN inbox' = 1 .. Len(inbox) + 1
        /\ \A i \in 1 .. Len(inbox) : inbox'[i] = inbox[i]
        /\ inbox'[Len(inbox) + 1] = Entry
    BY <1>1, <1>3, <1>4, AppendAt
  <2>2. UnderWay /\ Len(inbox) + 1 \notin 1 .. Len(inbox) /\ Len(inbox') \in Nat
    <3>1. \A n \in Nat : n + 1 \notin 1 .. n /\ n + 1 \in Nat OBVIOUS
    <3>2. Len(inbox) + 1 \notin 1 .. Len(inbox) /\ Len(inbox) + 1 \in Nat BY <1>2, <3>1
    <3>3. UnderWay BY <1>4
    <3> QED BY <2>1, <3>2, <3>3
  <2>3. \A j \in DOMAIN inbox' : j \in 1 .. Len(inbox) \/ j = Len(inbox') BY <1>2, <2>1
  <2> QED BY <1>2, <2>1, <2>2, <2>3
<1>5. CASE inbox' = inbox /\ ~(UnderWay /\ inbox' = Append(inbox, Entry))
  BY <1>1, <1>2, <1>5
<1> QED BY <1>4, <1>5 DEF Delivered

\* What the cable makes of the first command in its queue.
RunOf(c, s, v, f) ==
    /\ Ran(c, s, v, f)
    /\ s \in {"ok", "bare", "refused"} /\ v \in Data /\ f \subseteq Nat
    /\ Cardinality(f \ filters) \in Nat
    /\ c.kind = "set" => (s = "ok" <=> c.item.parameter \in Parameters)
    /\ c.kind = "get" =>
          /\ s = "ok" => c.item.parameter \in Parameters /\ v = config[c.item.parameter]
    /\ c.kind = "filter" => filters \subseteq f /\ (s = "ok" => v \in f)
    /\ c.kind = "clear" => f = {}

LEMMA Runs ==
    ASSUME TypeInv, CableRuns
    PROVE  /\ inbox # <<>> /\ inbox' = Tail(inbox) /\ UNCHANGED <<pc, call, handed, results, whole>>
           /\ inbox[1] \in Entries
           /\ \E s, v, f : RunOf(inbox[1], s, v, f)
<1> DEFINE c == inbox[1]
<1>1. inbox # <<>> /\ inbox' = Tail(inbox) /\ UNCHANGED <<pc, call, handed, results, whole>>
  BY DEF CableRuns, callVars
<1>2. Head(inbox) = c /\ c \in Entries BY <1>1, TailAt DEF TypeInv
<1>3. /\ filters \subseteq Nat /\ nextFilter \in Nat /\ config \in [Parameters -> Values]
      /\ \A p \in Parameters : config[p] \in Data
  BY DEF TypeInv, Data
<1>4. /\ \A f : f \subseteq filters => Cardinality(f \ filters) \in Nat
      /\ Cardinality((filters \cup {nextFilter}) \ filters) \in Nat
  <2>1. \A f : f \subseteq filters => f \ filters = {} OBVIOUS
  <2>2. Cardinality({}) = 0 BY FS_EmptySet
  <2>3. IsFiniteSet({nextFilter}) BY FS_Singleton
  <2>4. IsFiniteSet((filters \cup {nextFilter}) \ filters)
    <3>1. (filters \cup {nextFilter}) \ filters \subseteq {nextFilter} OBVIOUS
    <3> QED BY <2>3, <3>1, FS_Subset
  <2>5. Cardinality((filters \cup {nextFilter}) \ filters) \in Nat BY <2>4, FS_CardinalityType
  <2> QED BY <2>1, <2>2, <2>5
<1>5. 0 \in Data /\ nextFilter \in Data BY <1>3 DEF Data
<1> HIDE DEF c
<1>6. \E s, v, f : RunOf(c, s, v, f)
  <2>1. \/ c.kind = "write" /\ \E s \in {"ok", "refused"} : Ran(c, s, 0, filters)
        \/ c.kind = "set" /\ Ran(c, IF c.item.parameter \in Parameters THEN "ok" ELSE "refused", 0, filters)
        \/ /\ c.kind = "get"
           /\ IF c.item.parameter \in Parameters
              THEN Ran(c, "ok", config[c.item.parameter], filters) ELSE Ran(c, "refused", 0, filters)
        \/ c.kind \in {"read", "init"} /\ \E s \in {"ok", "bare", "refused"} : Ran(c, s, 0, filters)
        \/ c.kind = "filter" /\ \/ Ran(c, "ok", nextFilter, filters \cup {nextFilter})
                                \/ Ran(c, "refused", 0, filters)
        \/ c.kind = "stop" /\ Ran(c, IF c.item.filter \in filters THEN "ok" ELSE "refused",
                                  0, filters \ {c.item.filter})
        \/ c.kind = "clear" /\ Ran(c, "ok", 0, {})
    BY <1>2 DEF CableRuns
  <2>2. CASE c.kind = "write" /\ \E s \in {"ok", "refused"} : Ran(c, s, 0, filters)
    BY <1>3, <1>4, <1>5, <2>2 DEF RunOf
  <2>3. CASE c.kind = "set" /\ Ran(c, IF c.item.parameter \in Parameters THEN "ok" ELSE "refused", 0, filters)
    <3>1. CASE c.item.parameter \in Parameters
      <4>1. RunOf(c, "ok", 0, filters) BY <1>3, <1>4, <1>5, <2>3, <3>1 DEF RunOf
      <4> QED BY <4>1
    <3>2. CASE c.item.parameter \notin Parameters
      <4>1. RunOf(c, "refused", 0, filters) BY <1>3, <1>4, <1>5, <2>3, <3>2 DEF RunOf
      <4> QED BY <4>1
    <3> QED BY <3>1, <3>2
  <2>4. CASE /\ c.kind = "get"
             /\ IF c.item.parameter \in Parameters
                THEN Ran(c, "ok", config[c.item.parameter], filters) ELSE Ran(c, "refused", 0, filters)
    <3>1. CASE c.item.parameter \in Parameters
      <4>1. RunOf(c, "ok", config[c.item.parameter], filters)
        BY <1>3, <1>4, <1>5, <2>4, <3>1 DEF RunOf
      <4> QED BY <4>1
    <3>2. CASE c.item.parameter \notin Parameters
      <4>1. RunOf(c, "refused", 0, filters) BY <1>3, <1>4, <1>5, <2>4, <3>2 DEF RunOf
      <4> QED BY <4>1
    <3> QED BY <3>1, <3>2
  <2>5. CASE c.kind \in {"read", "init"} /\ \E s \in {"ok", "bare", "refused"} : Ran(c, s, 0, filters)
    BY <1>3, <1>4, <1>5, <2>5 DEF RunOf
  <2>6. CASE c.kind = "filter" /\ Ran(c, "ok", nextFilter, filters \cup {nextFilter})
    <3>1. RunOf(c, "ok", nextFilter, filters \cup {nextFilter}) BY <1>3, <1>4, <1>5, <2>6 DEF RunOf
    <3> QED BY <3>1
  <2>7. CASE c.kind = "filter" /\ Ran(c, "refused", 0, filters)
    <3>1. RunOf(c, "refused", 0, filters) BY <1>3, <1>4, <1>5, <2>7 DEF RunOf
    <3> QED BY <3>1
  <2>8. CASE c.kind = "stop" /\ Ran(c, IF c.item.filter \in filters THEN "ok" ELSE "refused",
                                    0, filters \ {c.item.filter})
    <3>0. filters \ {c.item.filter} \subseteq filters OBVIOUS
    <3>1. CASE c.item.filter \in filters
      <4>1. RunOf(c, "ok", 0, filters \ {c.item.filter})
        BY <1>3, <1>4, <1>5, <2>8, <3>0, <3>1 DEF RunOf
      <4> QED BY <4>1
    <3>2. CASE c.item.filter \notin filters
      <4>1. RunOf(c, "refused", 0, filters \ {c.item.filter})
        BY <1>3, <1>4, <1>5, <2>8, <3>0, <3>2 DEF RunOf
      <4> QED BY <4>1
    <3> QED BY <3>1, <3>2
  <2>9. CASE c.kind = "clear" /\ Ran(c, "ok", 0, {})
    <3>1. RunOf(c, "ok", 0, {}) BY <1>3, <1>4, <1>5, <2>9 DEF RunOf
    <3> QED BY <3>1
  <2> QED BY <2>1, <2>2, <2>3, <2>4, <2>5, <2>6, <2>7, <2>8, <2>9
<1> QED BY <1>1, <1>2, <1>6 DEF c

\* The commands behind it move up by one place.
LEMMA QueueMoves ==
    ASSUME TypeInv, CableRuns
    PROVE  /\ inbox' \in Seq(Entries) /\ Len(inbox) \in Nat \ {0} /\ Len(inbox') = Len(inbox) - 1
           /\ DOMAIN inbox = 1 .. Len(inbox) /\ DOMAIN inbox' = 1 .. Len(inbox) - 1
           /\ \A j \in DOMAIN inbox' : j + 1 \in DOMAIN inbox /\ inbox'[j] = inbox[j + 1]
           /\ \A j \in DOMAIN inbox : j # 1 => j - 1 \in DOMAIN inbox' /\ inbox'[j - 1] = inbox[j]
           /\ 1 \in DOMAIN inbox /\ Latest' = Latest /\ Reached' = Reached
<1>1. inbox # <<>> /\ inbox' = Tail(inbox) /\ UNCHANGED <<pc, call, results>> BY Runs
<1>2. inbox \in Seq(Entries) BY DEF TypeInv
<1>3. /\ inbox' \in Seq(Entries) /\ Len(inbox) \in Nat \ {0} /\ Len(inbox') = Len(inbox) - 1
      /\ DOMAIN inbox = 1 .. Len(inbox) /\ DOMAIN inbox' = 1 .. Len(inbox) - 1
      /\ \A i \in 1 .. Len(inbox) - 1 : i + 1 \in 1 .. Len(inbox) /\ inbox'[i] = inbox[i + 1]
  BY <1>1, <1>2, TailAt
<1>4. \A j \in 1 .. Len(inbox) : j # 1 => j - 1 \in 1 .. Len(inbox) - 1 /\ (j - 1) + 1 = j
  BY <1>3
<1>5. Latest' = Latest /\ Reached' = Reached BY <1>1 DEF Latest, Reached
<1> QED BY <1>3, <1>4, <1>5

\* How far the commands of the call in the queue may have come.
Top == IF pc = "idle" THEN call.done + 1 ELSE Reached

LEMMA TopGrows ==
    ASSUME TypeInv, PhaseInv,
           \/ \E s \in Statuses : Ends(s)
           \/ Sends
           \/ \E s \in Statuses, v \in Data : Settles(s, v)
    PROVE  /\ Top \in Nat /\ Top' \in Nat /\ Top <= Top' /\ call.done \in Nat
           /\ UnderWay => call.done + 1 <= Top'
           /\ pc' = "waiting" => Top = call.done /\ call'.done = call.done
           /\ inbox' = inbox \/ (UnderWay /\ Delivered)
<1>0. call \in Outcomes /\ call.done \in Nat /\ pc # "idle" BY GoesOn DEF TypeInv, Outcomes
<1>1. CASE \E s \in Statuses : Ends(s)
  <2>1. PICK s \in Statuses : Ends(s) BY <1>1
  <2>2. pc = "next" /\ pc' = "idle" /\ inbox' = inbox /\ call' = [call EXCEPT !.status = s]
    BY <2>1 DEF Ends
  <2>3. call'.done = call.done BY <1>0, <2>2, Fields
  <2> QED BY <1>0, <2>2, <2>3 DEF Top, Reached, UnderWay
<1>2. CASE Sends
  BY <1>0, <1>2 DEF Sends, Top, Reached, UnderWay
<1>3. CASE \E s \in Statuses, v \in Data : Settles(s, v)
  <2>1. PICK s \in Statuses, v \in Data : Settles(s, v) BY <1>3
  <2>2. (Advances(s, v) \/ Fails(s)) /\ UnderWay /\ (inbox' = inbox \/ Delivered)
    BY <2>1, AfterIs DEF Settles
  <2>3. \/ pc' = "next" /\ call'.done = call.done + 1
        \/ pc' = "idle" /\ call'.done = call.done
    BY <2>2 DEF Advances, Fails
  <2> QED BY <1>0, <2>2, <2>3 DEF Top, Reached, UnderWay
<1> QED BY <1>1, <1>2, <1>3

LEMMA QueueNext ==
    ASSUME TypeInv, PhaseInv, QueueInv, [Next]_vars
    PROVE  QueueInv'
<1>0. /\ inbox \in Seq(Entries) /\ Len(inbox) \in Nat /\ DOMAIN inbox = 1 .. Len(inbox)
      /\ \A j \in DOMAIN inbox : inbox[j].id[2] \in Nat /\ inbox[j].id[1] \in Nat
  <2>1. inbox \in Seq(Entries) BY DEF TypeInv
  <2>2. Len(inbox) \in Nat /\ DOMAIN inbox = 1 .. Len(inbox) /\ \A j \in DOMAIN inbox : inbox[j] \in Entries
    BY <2>1, LenProperties, ElementOfSeq
  <2>3. \A j \in DOMAIN inbox : inbox[j].id \in Nat \X Nat BY <2>2 DEF Entries, Ids
  <2> QED BY <2>1, <2>2, <2>3
<1>1. CASE \E r \in Requests : Begins(r)
  <2>1. PICK r \in Requests : Begins(r) BY <1>1
  <2>2. pc = "idle" /\ pc' = "next" /\ UNCHANGED <<inbox, results>> BY <2>1 DEF Begins
  <2>3. Latest' = Latest + 1 /\ Latest \in Nat BY <2>2, LatestIs DEF Latest
  <2>4. \A j \in DOMAIN inbox : inbox[j].id[1] \in 1 .. Latest + 1 /\ inbox[j].id[1] # Latest + 1
    BY <2>3 DEF QueueInv
  <2> QED BY <2>2, <2>3, <2>4 DEF QueueInv
<1>2. CASE Moves
  <2>1. UNCHANGED <<inbox, results, call>> /\ (pc' = pc \/ (pc' \notin {"idle", "waiting"} /\ pc \notin {"idle", "waiting"}))
    BY <1>2 DEF Moves
  <2>2. Latest' = Latest /\ Reached' = Reached BY <2>1 DEF Latest, Reached
  <2> QED BY <2>1, <2>2 DEF QueueInv
<1>3. CASE \/ \E s \in Statuses : Ends(s)
           \/ Sends
           \/ \E s \in Statuses, v \in Data : Settles(s, v)
  <2>1. /\ Latest' = Latest /\ SameCall /\ pc # "idle" /\ Latest \in Nat
        /\ Top \in Nat /\ Top' \in Nat /\ Top <= Top' /\ call.done \in Nat
        /\ UnderWay => call.done + 1 <= Top'
        /\ pc' = "waiting" => Top = call.done /\ call'.done = call.done
        /\ inbox' = inbox \/ (UnderWay /\ Delivered)
    BY <1>3, GoesOn, TopGrows
  <2> SUFFICES ASSUME NEW j \in DOMAIN inbox'
               PROVE  /\ inbox'[j].id[1] \in 1 .. Latest
                      /\ inbox'[j].kind = "set" => inbox'[j].item.value \in Values
                      /\ inbox'[j].id[1] = Latest =>
                            /\ inbox'[j].kind = call.kind
                            /\ inbox'[j].item = call.items[inbox'[j].id[2]]
                            /\ inbox'[j].id[2] \in 1 .. Top'
                            /\ pc' = "waiting" /\ inbox'[j].id[2] = call'.done + 1 => j = Len(inbox')
    BY <2>1 DEF QueueInv, Top, SameCall
  <2>2. CASE j \in DOMAIN inbox /\ inbox'[j] = inbox[j]
    <3>1. inbox[j].id[1] = Latest => inbox[j].id[2] \in 1 .. Top
      BY <2>1, <2>2 DEF QueueInv, Top
    <3>2. inbox[j].id[1] = Latest => inbox[j].id[2] \in 1 .. Top' BY <2>1, <3>1
    <3>3. inbox[j].id[1] = Latest /\ pc' = "waiting" => inbox[j].id[2] # call'.done + 1
      BY <2>1, <3>1
    <3> QED BY <2>2, <3>2, <3>3 DEF QueueInv
  <2>3. CASE j = Len(inbox') /\ inbox'[j] = Entry /\ UnderWay
    <3>1. /\ Id[1] = Latest /\ Id[2] = call.done + 1
          /\ call.kind = "set" => Item.value \in Values
      BY <2>3, ItemUnderWay, LatestIs DEF PhaseInv, CallInv, WaitInv, UnderWay
    <3>2. Latest \in 1 .. Latest
      <4>1. Latest = Len(results) + 1 /\ Len(results) \in Nat BY <2>1, LatestIs
      <4> QED BY <4>1
    <3>3. Entry.id = Id /\ Entry.kind = call.kind /\ Entry.item = call.items[call.done + 1]
      BY DEF Entry, Item
    <3> QED BY <2>1, <2>3, <3>1, <3>2, <3>3 DEF Item
  <2> QED BY <2>1, <2>2, <2>3, QueueGrows
<1>4. CASE CableRuns
  <2>1. UNCHANGED <<pc, call>> BY <1>4, Runs
  <2> SUFFICES ASSUME NEW j \in DOMAIN inbox'
               PROVE  /\ inbox[j + 1].id[1] \in 1 .. Latest
                      /\ inbox[j + 1].kind = "set" => inbox[j + 1].item.value \in Values
                      /\ inbox[j + 1].id[1] = Latest =>
                            /\ inbox[j + 1].kind = call.kind
                            /\ inbox[j + 1].item = call.items[inbox[j + 1].id[2]]
                            /\ inbox[j + 1].id[2] \in 1 .. (IF pc = "idle" THEN call.done + 1 ELSE Reached)
                            /\ pc = "waiting" /\ inbox[j + 1].id[2] = call.done + 1 => j = Len(inbox')
    BY <1>4, <2>1, QueueMoves DEF QueueInv
  <2>2. j + 1 \in DOMAIN inbox /\ j \in Nat /\ Len(inbox') = Len(inbox) - 1
    BY <1>4, QueueMoves
  <2>3. j + 1 = Len(inbox) => j = Len(inbox') BY <1>0, <2>2
  <2> QED BY <2>2, <2>3 DEF QueueInv
<1> QED BY <1>1, <1>2, <1>3, <1>4, StepKinds

(***************************************************************************)
(* What is on the bus.                                                     *)
(***************************************************************************)
\* The command under way joins the queue; only its own call has one more.
LEMMA QueuedGrows ==
    ASSUME TypeInv, PhaseInv, QueueInv,
           \/ inbox' = inbox
           \/ UnderWay /\ Delivered
    PROVE  /\ \A c \in DOMAIN results : \A n :
                 Settled(c, n, inbox, bus) => Settled(c, n, inbox', bus)
           /\ QueuedOf(Latest, inbox) = {} /\ FirstOf(Latest, call.done, bus)
                 => Settled(Latest, call.done, inbox', bus)
<1>0. /\ \A j \in DOMAIN inbox : j \in DOMAIN inbox' /\ inbox'[j] = inbox[j]
      /\ \A j \in DOMAIN inbox' :
            \/ j \in DOMAIN inbox /\ inbox'[j] = inbox[j]
            \/ j = Len(inbox') /\ j \notin DOMAIN inbox /\ inbox'[j] = Entry /\ UnderWay
  BY QueueGrows
<1>1. UnderWay => Entry.id[1] = Latest /\ Entry.id[2] = call.done + 1 /\ Latest \notin DOMAIN results
  BY ItemUnderWay, LatestIs DEF PhaseInv, CallInv, WaitInv, UnderWay, Entry
<1>2. ASSUME NEW c \in DOMAIN results, NEW n, Settled(c, n, inbox, bus)
      PROVE  Settled(c, n, inbox', bus)
  <2>1. QueuedOf(c, inbox') = QueuedOf(c, inbox) BY <1>0, <1>1 DEF QueuedOf
  <2>2. \A j \in QueuedOf(c, inbox) : inbox'[j] = inbox[j] BY <1>0 DEF QueuedOf
  <2> QED BY <1>2, <2>1, <2>2 DEF Settled
<1>3. ASSUME QueuedOf(Latest, inbox) = {}, FirstOf(Latest, call.done, bus)
      PROVE  Settled(Latest, call.done, inbox', bus)
  <2>1. \A j \in QueuedOf(Latest, inbox') : j = Len(inbox') /\ inbox'[j] = Entry /\ UnderWay
    BY <1>0, <1>3 DEF QueuedOf
  <2>2. \A j \in QueuedOf(Latest, inbox') : inbox'[j].id[2] = call.done + 1 BY <1>1, <2>1
  <2> QED BY <1>3, <2>1, <2>2 DEF Settled
<1> QED BY <1>2, <1>3

\* The cable runs the first command: what was settled stays so.
LEMMA SettledRuns ==
    ASSUME TypeInv, CableRuns, NEW c \in Nat, NEW n \in Nat, Settled(c, n, inbox, bus)
    PROVE  /\ Settled(c, n, inbox', bus')
           /\ inbox[1].id[1] = c => QueuedOf(c, inbox') = {}
           /\ QueuedOf(c, inbox) = {} =>
                 /\ QueuedOf(c, inbox') = {} /\ inbox[1].id[1] # c
                 /\ \A k : FirstOf(c, k, bus) => FirstOf(c, k, bus')
           /\ inbox[1].id[1] = c /\ bus' = Append(bus, inbox[1].id) => FirstOf(c, n + 1, bus')
<1> DEFINE e == inbox[1]
<1>1. e \in Entries /\ bus' \in {bus, Append(bus, e.id)} /\ bus \in Seq(Ids) /\ e.id \in Ids
  BY Runs DEF RunOf, Ran, TypeInv, Entries
<1>2. /\ DOMAIN inbox = 1 .. Len(inbox) /\ DOMAIN inbox' = 1 .. Len(inbox) - 1
      /\ Len(inbox) \in Nat \ {0}
      /\ \A j \in DOMAIN inbox' : j + 1 \in DOMAIN inbox /\ inbox'[j] = inbox[j + 1]
      /\ \A j \in DOMAIN inbox : j # 1 => j - 1 \in DOMAIN inbox' /\ inbox'[j - 1] = inbox[j]
      /\ 1 \in DOMAIN inbox
  BY QueueMoves
<1>3. /\ \A j \in QueuedOf(c, inbox) : inbox[j].id[2] = n + 1
      /\ \A j, k \in QueuedOf(c, inbox) : j = k
      /\ IF QueuedOf(c, inbox) # {} THEN FirstOf(c, n, bus) ELSE \E k \in {n, n + 1} : FirstOf(c, k, bus)
  BY DEF Settled
<1>4. \A j \in QueuedOf(c, inbox') : j \in Nat \ {0} /\ j + 1 \in QueuedOf(c, inbox) /\ inbox'[j] = inbox[j + 1]
  BY <1>2 DEF QueuedOf
<1>5. CASE e.id[1] = c
  <2>1. 1 \in QueuedOf(c, inbox) BY <1>2, <1>5 DEF QueuedOf
  <2>2. QueuedOf(c, inbox') = {}
    <3> SUFFICES ASSUME NEW j \in QueuedOf(c, inbox') PROVE FALSE
      OBVIOUS
    <3>1. j \in Nat \ {0} /\ j + 1 = 1 BY <1>3, <1>4, <2>1
    <3> QED BY <3>1
  <2>3. e.id[2] = n + 1 /\ FirstOf(c, n, bus) BY <1>3, <2>1
  <2>4. e.id = <<c, n + 1>> BY <1>1, <1>5, <2>3 DEF Ids
  <2>5. bus' = Append(bus, e.id) => FirstOf(c, n + 1, bus') BY <1>1, <2>3, <2>4, FirstMore
  <2>6. \E k \in {n, n + 1} : FirstOf(c, k, bus') BY <1>1, <2>3, <2>5
  <2> QED BY <1>5, <2>1, <2>2, <2>5, <2>6 DEF Settled
<1>6. CASE e.id[1] # c
  <2>1. \A k : FirstOf(c, k, bus') <=> FirstOf(c, k, bus)
    <3>1. CASE bus' = bus BY <3>1
    <3>2. CASE bus' = Append(bus, e.id)
      <4> HIDE DEF e
      <4> QED BY <1>1, <1>6, <3>2, FirstOther
    <3> QED BY <1>1, <3>1, <3>2
  <2>2. \A j \in QueuedOf(c, inbox) : j # 1 /\ j \in Nat /\ j - 1 \in QueuedOf(c, inbox')
    BY <1>2, <1>6 DEF QueuedOf
  <2>3. QueuedOf(c, inbox') # {} <=> QueuedOf(c, inbox) # {} BY <1>4, <2>2
  <2>4. \A j \in QueuedOf(c, inbox') : inbox'[j].id[2] = n + 1 BY <1>3, <1>4
  <2>5. \A j, k \in QueuedOf(c, inbox') : j = k
    <3> TAKE j, k \in QueuedOf(c, inbox')
    <3>1. j + 1 = k + 1 /\ j \in Nat /\ k \in Nat BY <1>3, <1>4
    <3> QED BY <3>1
  <2>6. Settled(c, n, inbox', bus') BY <1>3, <2>1, <2>3, <2>4, <2>5 DEF Settled
  <2> QED BY <1>6, <2>1, <2>3, <2>6
<1> QED BY <1>5, <1>6

LEMMA BusNext ==
    ASSUME TypeInv, PhaseInv, QueueInv, BusInv, [Next]_vars
    PROVE  BusInv'
<1>0. /\ \A i \in DOMAIN bus : bus[i][1] \in 1 .. Latest
      /\ \A c \in DOMAIN results :
            results[c].kind = "write" /\ Waits(results[c]) => Settled(c, results[c].done, inbox, bus)
      /\ \A c \in DOMAIN results : results[c].done \in Nat /\ c \in Nat
      /\ call.done \in Nat /\ call \in Outcomes
  <2>1. \A c \in DOMAIN results : results[c].done \in Nat /\ c \in Nat
    <3>1. results \in Seq(Outcomes) BY DEF TypeInv
    <3>2. \A c \in DOMAIN results : results[c] \in Outcomes /\ c \in Nat
      BY <3>1, ElementOfSeq, LatestIs
    <3> QED BY <3>2 DEF Outcomes
  <2> QED BY <2>1 DEF BusInv, TypeInv, Outcomes
<1>1. CASE \E r \in Requests : Begins(r)
  <2>1. PICK r \in Requests : Begins(r) BY <1>1
  <2>2. /\ pc = "idle" /\ pc' = "next" /\ UNCHANGED <<inbox, results, bus>> /\ call'.done = 0
        /\ answer' = NoAnswer
    BY <2>1 DEF Begins, NoCall, Cable
  <2>3. Latest' = Latest + 1 /\ Latest \in Nat BY <2>2, LatestIs DEF Latest
  <2>4. \A i \in DOMAIN bus : bus[i][1] \in 1 .. Latest + 1 /\ bus[i][1] # Latest + 1
    BY <1>0, <2>3
  <2>5. FirstOf(Latest + 1, 0, bus) BY <2>4, FirstNone
  <2>6. \A j \in DOMAIN inbox : inbox[j].id[1] # Latest + 1 BY <2>3 DEF QueueInv
  <2>7. QueuedOf(Latest + 1, inbox) = {} BY <2>6 DEF QueuedOf
  <2>8. answer'.status = "none" BY <2>2 DEF NoAnswer
  <2> QED BY <1>0, <2>2, <2>3, <2>4, <2>5, <2>7, <2>8 DEF BusInv
<1>2. CASE \E s \in Statuses : Ends(s)
  <2>1. PICK s \in Statuses : Ends(s) BY <1>2
  <2>2. /\ pc = "next" /\ pc' = "idle" /\ UNCHANGED <<inbox, bus>> /\ call' = [call EXCEPT !.status = s]
    BY <2>1 DEF Ends, Cable
  <2>3. call'.done = call.done /\ call'.kind = call.kind /\ call'.timeout = call.timeout
    BY <1>0, <2>2, Fields
  <2>4. call.kind = "write" /\ Waits(call) => Settled(Latest, call.done, inbox, bus)
    BY <2>2 DEF BusInv, Settled
  <2>5. /\ Latest' = Latest /\ results'[Latest] = call'
        /\ \A c \in DOMAIN results' : c \in DOMAIN results \/ c = Latest
        /\ \A c \in DOMAIN results : results'[c] = results[c]
    BY <1>2, <2>2, GoesOn
  <2>6. \A c \in DOMAIN results' :
           results'[c].kind = "write" /\ Waits(results'[c]) => Settled(c, results'[c].done, inbox, bus)
    BY <1>0, <2>3, <2>4, <2>5 DEF Waits
  <2> QED BY <1>0, <2>2, <2>5, <2>6 DEF BusInv
<1>3. CASE Moves
  <2>1. /\ UNCHANGED <<inbox, results, call, bus, answer>>
        /\ pc' = pc \/ (pc' \notin {"idle", "waiting"} /\ pc \notin {"idle", "waiting"})
    BY <1>3 DEF Moves, Cable
  <2>2. Latest' = Latest BY <2>1 DEF Latest
  <2> QED BY <1>0, <2>1, <2>2 DEF BusInv
<1>4. CASE Sends
  <2>1. /\ pc = "writing" /\ pc' = "waiting" /\ UNCHANGED <<call, results, answer, bus>> /\ Delivered
        /\ UnderWay /\ answer = NoAnswer
    BY <1>4 DEF Sends, UnderWay, Cable, PhaseInv, CallInv, WaitInv
  <2>2. Latest' = Latest BY <1>4, GoesOn
  <2>3. call.kind = "write" /\ Waits(call) => Settled(Latest, call.done, inbox', bus)
    BY <2>1, QueuedGrows DEF BusInv
  <2>4. answer.status # "ok" BY <2>1 DEF NoAnswer
  <2>5. \A c \in DOMAIN results :
            results[c].kind = "write" /\ Waits(results[c]) => Settled(c, results[c].done, inbox', bus)
    BY <1>0, <2>1, QueuedGrows
  <2> QED BY <1>0, <2>1, <2>2, <2>3, <2>4, <2>5 DEF BusInv
<1>5. CASE \E s \in Statuses, v \in Data : Settles(s, v)
  <2>1. PICK s \in Statuses, v \in Data : Settles(s, v) BY <1>5
  <2>2. /\ SameCall /\ (Advances(s, v) \/ Fails(s)) /\ UnderWay /\ bus' = bus /\ answer' = NoAnswer
        /\ answer'.status # "ok"
    BY <2>1, AfterIs DEF Settles, Cable, NoAnswer
  <2>3. inbox' = inbox \/ (UnderWay /\ Delivered) BY <2>1 DEF Settles
  <2>4. \A c \in DOMAIN results :
            results[c].kind = "write" /\ Waits(results[c]) => Settled(c, results[c].done, inbox', bus)
    BY <1>0, <2>3, QueuedGrows
  <2>5. CASE Advances(s, v)
    <3>1. pc' = "next" /\ call'.done = call.done + 1 /\ results' = results /\ (call.kind = "write" => s = "ok")
      BY <2>5 DEF Advances
    <3>2. Latest' = Latest BY <1>5, GoesOn
    <3>3. ASSUME call.kind = "write", Waits(call)
          PROVE  QueuedOf(Latest, inbox') = {} /\ FirstOf(Latest, call.done + 1, bus)
      <4>1. ask.wait BY <2>2, <3>3 DEF PhaseInv, CallInv, WaitInv
      <4>2. pc = "waiting" /\ inbox' = inbox /\ answer # NoAnswer /\ s = StatusOf(answer)
        BY <2>1, <3>1, <3>3, <4>1 DEF Settles
      <4>3. answer.status = "ok" BY <3>1, <3>3, <4>2, StatusOfAnswer
      <4> QED BY <3>3, <4>2, <4>3 DEF BusInv
    <3> QED BY <1>0, <2>2, <2>4, <3>1, <3>2, <3>3 DEF BusInv, SameCall, Waits
  <2>6. CASE Fails(s)
    <3>1. pc' = "idle" /\ call'.done = call.done BY <2>6 DEF Fails
    <3>2. /\ Latest' = Latest /\ results'[Latest] = call'
          /\ \A c \in DOMAIN results' : c \in DOMAIN results \/ c = Latest
          /\ \A c \in DOMAIN results : results'[c] = results[c]
      BY <1>5, <3>1, GoesOn
    <3>3. call.kind = "write" /\ Waits(call) => Settled(Latest, call.done, inbox', bus)
      <4>1. CASE pc = "waiting"
        <5>1. inbox' = inbox BY <2>1, <4>1 DEF Settles
        <5> QED BY <4>1, <5>1 DEF BusInv
      <4>2. CASE pc # "waiting"
        BY <2>2, <2>3, <4>2, QueuedGrows DEF BusInv, UnderWay
      <4> QED BY <4>1, <4>2
    <3>4. \A c \in DOMAIN results' :
             results'[c].kind = "write" /\ Waits(results'[c]) => Settled(c, results'[c].done, inbox', bus)
      BY <1>0, <2>2, <2>4, <3>1, <3>2, <3>3 DEF Waits, SameCall
    <3> QED BY <1>0, <2>2, <3>1, <3>2, <3>4 DEF BusInv
  <2> QED BY <2>2, <2>5, <2>6
<1>6. CASE CableRuns
  <2>1. UNCHANGED <<pc, call, results>> /\ Latest' = Latest /\ Latest \in Nat
    BY <1>6, Runs, QueueMoves, LatestIs
  <2>2. PICK s, v, f : RunOf(inbox[1], s, v, f) BY <1>6, Runs
  <2>3. /\ inbox[1] \in Entries /\ inbox[1].id \in Ids /\ 1 \in DOMAIN inbox
        /\ inbox[1].id[1] \in 1 .. Latest
        /\ inbox[1].id[1] = Latest => inbox[1].kind = call.kind
    BY <1>6, Runs, QueueMoves DEF QueueInv, Entries
  <2>4. /\ bus' = IF inbox[1].kind = "write" /\ s = "ok" THEN Append(bus, inbox[1].id) ELSE bus
        /\ \/ answer' = IF pc = "waiting" /\ inbox[1].id = Id
                        THEN [status |-> s, value |-> v] ELSE answer
           \/ answer' = answer
    BY <2>2 DEF RunOf, Ran
  <2>5. \A i \in DOMAIN bus' : bus'[i][1] \in 1 .. Latest
    <3>1. bus \in Seq(Ids) BY DEF TypeInv
    <3>2. CASE bus' = Append(bus, inbox[1].id) BY <1>0, <2>3, <3>1, <3>2, AppendAt
    <3> QED BY <1>0, <2>4, <3>2
  <2>6. \A c \in DOMAIN results :
           results[c].kind = "write" /\ Waits(results[c]) => Settled(c, results[c].done, inbox', bus')
    BY <1>0, <1>6, SettledRuns
  <2>7. ASSUME pc # "idle", call.kind = "write", Waits(call)
        PROVE  /\ IF pc = "waiting" THEN Settled(Latest, call.done, inbox', bus')
                  ELSE QueuedOf(Latest, inbox') = {} /\ FirstOf(Latest, call.done, bus')
               /\ answer' # NoAnswer => QueuedOf(Latest, inbox') = {}
               /\ answer'.status = "ok" => FirstOf(Latest, call.done + 1, bus')
    <3>1. Settled(Latest, call.done, inbox, bus) BY <2>7 DEF BusInv, Settled
    <3>2. CASE pc # "waiting"
      <4>1. QueuedOf(Latest, inbox) = {} /\ FirstOf(Latest, call.done, bus) /\ answer = NoAnswer
        BY <2>7, <3>2 DEF BusInv, PhaseInv, CallInv, WaitInv
      <4>2. answer' = answer /\ answer.status # "ok" BY <2>4, <3>2, <4>1 DEF NoAnswer
      <4> QED BY <1>0, <1>6, <2>1, <3>1, <3>2, <4>1, <4>2, SettledRuns
    <3>3. CASE pc = "waiting" /\ answer # NoAnswer
      <4>1. QueuedOf(Latest, inbox) = {} /\ (answer.status = "ok" => FirstOf(Latest, call.done + 1, bus))
        BY <2>7, <3>3 DEF BusInv
      <4>2. inbox[1].id[1] # Latest /\ Id[1] = Latest
        BY <1>0, <1>6, <2>1, <2>7, <3>1, <3>3, <4>1, SettledRuns, LatestIs, ItemUnderWay
          DEF PhaseInv, CallInv, WaitInv, UnderWay
      <4>3. answer' = answer BY <2>4, <4>2
      <4> QED BY <1>0, <1>6, <2>1, <3>1, <3>3, <4>1, <4>3, SettledRuns
    <3>4. CASE pc = "waiting" /\ answer = NoAnswer /\ answer' = NoAnswer
      <4>1. answer'.status # "ok" BY <3>4 DEF NoAnswer
      <4> QED BY <1>0, <1>6, <2>1, <3>1, <3>4, <4>1, SettledRuns
    <3>5. CASE pc = "waiting" /\ answer = NoAnswer /\ answer' # NoAnswer
      <4>1. inbox[1].id = Id /\ answer' = [status |-> s, value |-> v] BY <2>4, <3>5
      <4>2. inbox[1].id[1] = Latest
        BY <2>7, <3>5, <4>1, LatestIs, ItemUnderWay DEF PhaseInv, CallInv, WaitInv, UnderWay
      <4>3. answer'.status = "ok" => bus' = Append(bus, inbox[1].id)
        BY <2>3, <2>4, <2>7, <4>1, <4>2
      <4> QED BY <1>0, <1>6, <2>1, <3>1, <3>5, <4>2, <4>3, SettledRuns
    <3> QED BY <3>2, <3>3, <3>4, <3>5
  <2> QED BY <2>1, <2>5, <2>6, <2>7 DEF BusInv
<1> QED BY <1>1, <1>2, <1>3, <1>4, <1>5, <1>6, StepKinds

(***************************************************************************)
(* What SET_CONFIG has set.                                                *)
(***************************************************************************)
LEMMA WillBeMore ==
    ASSUME NEW q \in Seq(Entries), NEW e \in Entries, NEW p, NEW v, NEW m,
           \/ Sets(e, p) /\ e.item.value = v
           \/ ~Sets(e, p) /\ WillBe(p, v, q, m)
    PROVE  WillBe(p, v, Append(q, e), m)
<1> DEFINE new == Append(q, e)
<1>1. /\ Len(q) \in Nat /\ DOMAIN q = 1 .. Len(q) /\ DOMAIN new = 1 .. Len(q) + 1
      /\ Len(new) = Len(q) + 1
      /\ \A i \in 1 .. Len(q) : new[i] = q[i]
      /\ new[Len(q) + 1] = e
  BY AppendAt
<1> HIDE DEF new
<1>2. CASE Sets(e, p) /\ e.item.value = v
  <2>1. Len(q) + 1 \in DOMAIN new /\ (Len(q) + 1) + 1 .. Len(new) = {} BY <1>1
  <2> QED BY <1>1, <1>2, <2>1 DEF WillBe, new
<1>3. CASE ~Sets(e, p) /\ WillBe(p, v, q, m)
  <2>1. CASE (\A j \in DOMAIN q : ~Sets(q[j], p)) /\ m[p] = v
    <3>1. \A j \in DOMAIN new : ~Sets(new[j], p) BY <1>1, <1>3, <2>1
    <3> QED BY <2>1, <3>1 DEF WillBe, new
  <2>2. CASE \E j \in DOMAIN q : Sets(q[j], p) /\ q[j].item.value = v
                                 /\ \A k \in j + 1 .. Len(q) : ~Sets(q[k], p)
    <3>1. PICK j \in DOMAIN q : Sets(q[j], p) /\ q[j].item.value = v
                                /\ \A k \in j + 1 .. Len(q) : ~Sets(q[k], p)
      BY <2>2
    <3>2. \A k \in j + 1 .. Len(new) : ~Sets(new[k], p)
      <4> TAKE k \in j + 1 .. Len(new)
      <4>1. (k \in j + 1 .. Len(q) /\ k \in 1 .. Len(q)) \/ k = Len(q) + 1 BY <1>1
      <4> QED BY <1>1, <1>3, <3>1, <4>1
    <3>3. j \in DOMAIN new /\ new[j] = q[j] BY <1>1
    <3> QED BY <3>1, <3>2, <3>3 DEF WillBe, new
  <2> QED BY <1>3, <2>1, <2>2 DEF WillBe
<1> QED BY <1>2, <1>3

LEMMA WillBeRun ==
    ASSUME NEW q \in Seq(Entries), q # <<>>, NEW p, NEW v, NEW m, NEW n, WillBe(p, v, q, m),
           n[p] = IF Sets(q[1], p) THEN q[1].item.value ELSE m[p]
    PROVE  WillBe(p, v, Tail(q), n)
<1> DEFINE t == Tail(q)
<1>1. /\ Len(q) \in Nat \ {0} /\ DOMAIN q = 1 .. Len(q) /\ DOMAIN t = 1 .. Len(q) - 1
      /\ Len(t) = Len(q) - 1
      /\ \A i \in 1 .. Len(q) - 1 : i + 1 \in 1 .. Len(q) /\ t[i] = q[i + 1]
  BY TailAt
<1> HIDE DEF t
<1>2. CASE (\A j \in DOMAIN q : ~Sets(q[j], p)) /\ m[p] = v
  <2>1. (\A j \in DOMAIN t : ~Sets(t[j], p)) /\ ~Sets(q[1], p) BY <1>1, <1>2
  <2>2. n[p] = v BY <1>2, <2>1
  <2> QED BY <2>1, <2>2 DEF WillBe, t
<1>3. CASE \E j \in DOMAIN q : Sets(q[j], p) /\ q[j].item.value = v
                               /\ \A k \in j + 1 .. Len(q) : ~Sets(q[k], p)
  <2>1. PICK j \in DOMAIN q : Sets(q[j], p) /\ q[j].item.value = v
                              /\ \A k \in j + 1 .. Len(q) : ~Sets(q[k], p)
    BY <1>3
  <2>2. CASE j = 1
    <3>1. \A k \in DOMAIN t : ~Sets(t[k], p)
      <4> TAKE k \in DOMAIN t
      <4>1. k + 1 \in j + 1 .. Len(q) /\ t[k] = q[k + 1] BY <1>1, <2>2
      <4> QED BY <2>1, <4>1
    <3>2. n[p] = v BY <2>1, <2>2
    <3> QED BY <3>1, <3>2 DEF WillBe, t
  <2>3. CASE j # 1
    <3>1. j - 1 \in DOMAIN t /\ t[j - 1] = q[j]
      <4>1. j - 1 \in 1 .. Len(q) - 1 /\ (j - 1) + 1 = j BY <1>1, <2>3
      <4> QED BY <1>1, <4>1
    <3>2. \A k \in (j - 1) + 1 .. Len(t) : ~Sets(t[k], p)
      <4> TAKE k \in (j - 1) + 1 .. Len(t)
      <4>1. k + 1 \in j + 1 .. Len(q) /\ t[k] = q[k + 1] BY <1>1
      <4> QED BY <2>1, <4>1
    <3> QED BY <2>1, <3>1, <3>2 DEF WillBe, t
  <2> QED BY <2>2, <2>3
<1> QED BY <1>2, <1>3 DEF WillBe

\* The command under way has joined the queue: its item is the last.
LEMMA SetReached ==
    ASSUME TypeInv, PhaseInv, SetInv, UnderWay, pc # "waiting", Delivered,
           call.kind = "set", whole'
    PROVE  \A p \in Parameters, i \in Nat :
              LastSet(i, p, call.items, call.done + 1) =>
                 WillBe(p, call.items[i].value, inbox', config)
<1> SUFFICES ASSUME NEW p \in Parameters, NEW i \in Nat, LastSet(i, p, call.items, call.done + 1)
             PROVE  WillBe(p, call.items[i].value, inbox', config)
  OBVIOUS
<1>1. whole /\ inbox' = Append(inbox, Entry) /\ Reached = call.done /\ call.done \in Nat
  BY DEF Delivered, Reached, TypeInv, Outcomes
<1>2. Entry \in Entries /\ inbox \in Seq(Entries)
  <2>1. Id \in Ids /\ Item \in Items BY ItemUnderWay DEF PhaseInv, CallInv, WaitInv
  <2>2. call.kind \in Kinds BY DEF Kinds
  <2> QED BY <2>1, <2>2 DEF Entry, Entries, TypeInv
<1>3. Entry.kind = "set" /\ Entry.item = call.items[call.done + 1] BY DEF Entry, Item
<1>4. CASE i = call.done + 1
  <2>1. Sets(Entry, p) /\ Entry.item.value = call.items[i].value
    BY <1>3, <1>4 DEF LastSet, Sets
  <2> QED BY <1>1, <1>2, <2>1, WillBeMore
<1>5. CASE i # call.done + 1
  <2>1. i \in 1 .. call.done /\ call.done + 1 \in i + 1 .. call.done + 1
        /\ \A k \in i + 1 .. call.done : k \in i + 1 .. call.done + 1
    BY <1>1, <1>5 DEF LastSet
  <2>2. LastSet(i, p, call.items, call.done) /\ call.items[call.done + 1].parameter # p
    BY <2>1 DEF LastSet
  <2>3. WillBe(p, call.items[i].value, inbox, config) BY <1>1, <2>2 DEF SetInv
  <2>4. ~Sets(Entry, p) BY <1>3, <2>2 DEF Sets
  <2> QED BY <1>1, <1>2, <2>3, <2>4, WillBeMore
<1> QED BY <1>4, <1>5

LEMMA SetNext ==
    ASSUME TypeInv, PhaseInv, SetInv, [Next]_vars
    PROVE  SetInv'
<1>1. CASE \E r \in Requests : Begins(r)
  <2>1. pc' = "next" /\ call'.done = 0 BY <1>1 DEF Begins, NoCall
  <2>2. Reached' = 0 BY <2>1 DEF Reached
  <2> QED BY <2>2 DEF SetInv, LastSet
<1>2. CASE \E s \in Statuses : Ends(s)
  <2>1. PICK s \in Statuses : Ends(s) BY <1>2
  <2>2. /\ pc = "next" /\ pc' = "idle" /\ UNCHANGED <<inbox, whole, config>>
        /\ call' = [call EXCEPT !.status = s]
    BY <2>1 DEF Ends, Cable
  <2>3. call'.done = call.done /\ SameCall BY <2>2, Fields DEF TypeInv, SameCall
  <2>4. Reached' = Reached BY <2>2, <2>3 DEF Reached
  <2> QED BY <2>2, <2>3, <2>4 DEF SetInv, SameCall
<1>3. CASE Moves
  <2>1. /\ UNCHANGED <<inbox, call, whole, config>>
        /\ pc' = pc \/ (pc' # "waiting" /\ pc # "waiting")
    BY <1>3 DEF Moves, Cable
  <2>2. Reached' = Reached BY <2>1 DEF Reached
  <2> QED BY <2>1, <2>2 DEF SetInv
<1>4. CASE Sends
  <2>1. /\ pc = "writing" /\ pc' = "waiting" /\ UNCHANGED <<call, config>> /\ Delivered /\ UnderWay
    BY <1>4 DEF Sends, UnderWay, Cable
  <2>2. Reached' = call.done + 1 BY <2>1 DEF Reached
  <2> QED BY <2>1, <2>2, SetReached DEF SetInv
<1>5. CASE \E s \in Statuses, v \in Data : Settles(s, v)
  <2>1. PICK s \in Statuses, v \in Data : Settles(s, v) BY <1>5
  <2>2. SameCall /\ (Advances(s, v) \/ Fails(s)) /\ UnderWay /\ config' = config
    BY <2>1, AfterIs DEF Settles, Cable
  <2> SUFFICES ASSUME call.kind = "set", whole'
               PROVE  \A p \in Parameters, i \in Nat : LastSet(i, p, call.items, Reached') =>
                         WillBe(p, call.items[i].value, inbox', config')
    BY <2>2 DEF SetInv, SameCall
  <2>3. pc' = "next" /\ call'.done = call.done + 1 BY <2>2 DEF Advances, Fails
  <2>4. Reached' = call.done + 1 BY <2>3 DEF Reached
  <2>5. CASE pc = "writing" /\ Delivered
    BY <2>2, <2>4, <2>5, SetReached
  <2>6. CASE pc = "waiting" /\ UNCHANGED <<inbox, whole>>
    <3>1. Reached = call.done + 1 BY <2>6 DEF Reached
    <3> QED BY <2>2, <2>4, <2>6, <3>1 DEF SetInv
  <2> QED BY <2>1, <2>5, <2>6 DEF Settles
<1>6. CASE CableRuns
  <2>1. UNCHANGED <<pc, call, whole>> /\ Reached' = Reached /\ inbox' = Tail(inbox)
        /\ inbox # <<>> /\ inbox[1] \in Entries
    BY <1>6, Runs, QueueMoves
  <2>2. PICK s, v, f : RunOf(inbox[1], s, v, f) BY <1>6, Runs
  <2>3. ASSUME NEW p \in Parameters
        PROVE  config'[p] = IF Sets(inbox[1], p) THEN inbox[1].item.value ELSE config[p]
    <3>1. /\ config' = IF inbox[1].kind = "set" /\ s = "ok"
                       THEN [config EXCEPT ![inbox[1].item.parameter] = inbox[1].item.value] ELSE config
          /\ inbox[1].kind = "set" => (s = "ok" <=> inbox[1].item.parameter \in Parameters)
      BY <2>2 DEF RunOf, Ran
    <3>2. config \in [Parameters -> Values] BY DEF TypeInv
    <3> QED BY <3>1, <3>2 DEF Sets
  <2>4. inbox \in Seq(Entries) BY DEF TypeInv
  <2> SUFFICES ASSUME call.kind = "set", whole, NEW p \in Parameters, NEW i \in Nat,
                      LastSet(i, p, call.items, Reached)
               PROVE  WillBe(p, call.items[i].value, inbox', config')
    BY <2>1 DEF SetInv
  <2>5. WillBe(p, call.items[i].value, inbox, config) BY DEF SetInv
  <2>6. config'[p] = IF Sets(inbox[1], p) THEN inbox[1].item.value ELSE config[p] BY <2>3
  <2> QED BY <2>1, <2>4, <2>5, <2>6, WillBeRun
<1> QED BY <1>1, <1>2, <1>3, <1>4, <1>5, <1>6, StepKinds

(***************************************************************************)
(* What the call has been told.                                            *)
(***************************************************************************)
\* The parts of ToldInv, for the three calls that are told something.
GetTold(c, a, m) ==
    c.kind = "get" =>
       /\ \A i \in DOMAIN c.handedOut :
             LET h == c.handedOut[i] IN
             /\ h.item \in 1 .. c.done /\ c.items[h.item].parameter \in Parameters
             /\ h.value = m[c.items[h.item].parameter]
       /\ a.status = "ok" => /\ c.items[c.done + 1].parameter \in Parameters
                             /\ a.value = m[c.items[c.done + 1].parameter]
FilterTold(c, a, f) ==
    c.kind = "filter" =>
       /\ \A i \in DOMAIN c.handedOut : c.handedOut[i].value \in f
       /\ a.status = "ok" => a.value \in f
ClearTold(c, a, f) ==
    c.kind = "clear" /\ ((c.done > 0 /\ c.status = "ok") \/ a.status = "ok") => f = {}

LEMMA ToldParts ==
    /\ ToldInv <=> /\ Told => (\A j \in DOMAIN inbox : inbox[j].id[1] = Latest)
                   /\ GetTold(call, answer, config)
                   /\ FilterTold(call, answer, filters) /\ ClearTold(call, answer, filters)
    /\ ToldInv' <=> /\ Told' => (\A j \in DOMAIN inbox' : inbox'[j].id[1] = Latest')
                    /\ GetTold(call', answer', config')
                    /\ FilterTold(call', answer', filters') /\ ClearTold(call', answer', filters')
BY DEF ToldInv, GetTold, FilterTold, ClearTold, Item

\* What joins the queue is the call's own.
LEMMA QueueOwn ==
    ASSUME TypeInv, PhaseInv, UnderWay, inbox' = inbox \/ Delivered,
           \A j \in DOMAIN inbox : inbox[j].id[1] = Latest
    PROVE  \A j \in DOMAIN inbox' : inbox'[j].id[1] = Latest
<1>1. Entry.id[1] = Latest BY ItemUnderWay, LatestIs DEF PhaseInv, CallInv, WaitInv, UnderWay, Entry
<1> QED BY <1>1, QueueGrows

\* The call has the answer and goes on with the next item.
LEMMA ToldMore ==
    ASSUME TypeInv, PhaseInv, ToldInv, UnderWay, call' \in Outcomes, SameCall,
           NEW s, NEW v, Advances(s, v), answer' = NoAnswer, config' = config, filters' = filters,
           s = "ok" => call.kind = "write" \/ (answer # NoAnswer /\ answer.status = "ok" /\ v = answer.value)
    PROVE  /\ Told' => Told
           /\ GetTold(call', answer', config')
           /\ FilterTold(call', answer', filters') /\ ClearTold(call', answer', filters')
<1>0. /\ call.done \in Nat /\ answer'.status # "ok" /\ call \in Outcomes
      /\ GetTold(call, answer, config) /\ FilterTold(call, answer, filters)
      /\ ClearTold(call, answer, filters)
  BY ToldParts DEF TypeInv, Outcomes, NoAnswer
<1>1. /\ call'.done = call.done + 1 /\ call'.done > 0
      /\ call.kind # "write" => call'.status = s
      /\ \/ call'.handedOut = call.handedOut
         \/ /\ s = "ok" /\ call.kind # "write" /\ call.kind # "clear"
            /\ call'.handedOut = Append(call.handedOut, [item |-> call.done + 1, value |-> v])
  <2>1. call'.done = call.done + 1 /\ call'.done > 0 BY <1>0 DEF Advances
  <2>2. CASE call.kind = "write" BY <2>1, <2>2 DEF Advances
  <2>3. CASE call.kind # "write"
    <3>1. /\ call'.status = s
          /\ call'.handedOut = IF s = "ok" /\ call.kind \in {"get", "read", "init", "filter"}
                               THEN Append(call.handedOut, [item |-> call.done + 1, value |-> v])
                               ELSE call.handedOut
      BY <2>3 DEF Advances
    <3>2. CASE s = "ok" /\ call.kind \in {"get", "read", "init", "filter"}
      BY <2>1, <2>3, <3>1, <3>2
    <3>3. CASE ~(s = "ok" /\ call.kind \in {"get", "read", "init", "filter"})
      BY <2>1, <2>3, <3>1, <3>3
    <3> QED BY <3>2, <3>3
  <2> QED BY <2>2, <2>3
<1>2. /\ call.kind = "clear" => call'.handedOut = call.handedOut
      /\ answer # NoAnswer => Told
  BY <1>1 DEF Told
<1>3. CASE call'.handedOut = call.handedOut
  <2>1. Told' => Told BY <1>0, <1>1, <1>2, <1>3 DEF Told, SameCall
  <2>2. GetTold(call', answer', config')
    <3> SUFFICES ASSUME call.kind = "get" , NEW i \in DOMAIN call.handedOut
                 PROVE  /\ call.handedOut[i].item \in 1 .. call.done + 1
                        /\ call.items[call.handedOut[i].item].parameter \in Parameters
                        /\ call.handedOut[i].value = config[call.items[call.handedOut[i].item].parameter]
      BY <1>0, <1>1, <1>3 DEF GetTold, SameCall
    <3>1. /\ call.handedOut[i].item \in 1 .. call.done
          /\ call.items[call.handedOut[i].item].parameter \in Parameters
          /\ call.handedOut[i].value = config[call.items[call.handedOut[i].item].parameter]
      BY <1>0 DEF GetTold
    <3> QED BY <1>0, <3>1
  <2>3. FilterTold(call', answer', filters') BY <1>0, <1>3 DEF FilterTold, SameCall
  <2>4. ClearTold(call', answer', filters')
    BY <1>0, <1>1 DEF ClearTold, SameCall
  <2> QED BY <2>1, <2>2, <2>3, <2>4
<1>4. CASE /\ s = "ok" /\ call.kind # "write" /\ call.kind # "clear"
           /\ call'.handedOut = Append(call.handedOut, [item |-> call.done + 1, value |-> v])
  <2>1. answer # NoAnswer /\ answer.status = "ok" /\ v = answer.value /\ Told BY <1>2, <1>4
  <2>2. PICK h : h = [item |-> call.done + 1, value |-> v] OBVIOUS
  <2>3. h \in [item : Nat, value : Data] /\ h.item = call.done + 1 /\ h.value = v
    BY <1>0, <2>1, <2>2 DEF TypeInv, Answers
  <2>4. call.handedOut \in Seq([item : Nat, value : Data]) /\ call'.handedOut = Append(call.handedOut, h)
    BY <1>0, <1>4, <2>2 DEF Outcomes
  <2>5. \A i \in DOMAIN call'.handedOut :
           \/ i \in DOMAIN call.handedOut /\ call'.handedOut[i] = call.handedOut[i]
           \/ call'.handedOut[i] = h
    BY <2>3, <2>4, AppendAt
  <2>6. GetTold(call', answer', config')
    <3> SUFFICES ASSUME call.kind = "get" , NEW i \in DOMAIN call'.handedOut
                 PROVE  /\ call'.handedOut[i].item \in 1 .. call.done + 1
                        /\ call.items[call'.handedOut[i].item].parameter \in Parameters
                        /\ call'.handedOut[i].value = config[call.items[call'.handedOut[i].item].parameter]
      BY <1>0, <1>1 DEF GetTold, SameCall
    <3>1. CASE i \in DOMAIN call.handedOut /\ call'.handedOut[i] = call.handedOut[i]
      <4>1. /\ call.handedOut[i].item \in 1 .. call.done
            /\ call.items[call.handedOut[i].item].parameter \in Parameters
            /\ call.handedOut[i].value = config[call.items[call.handedOut[i].item].parameter]
        BY <1>0, <3>1 DEF GetTold
      <4> QED BY <1>0, <3>1, <4>1
    <3>2. CASE call'.handedOut[i] = h
      <4>1. call.done + 1 \in 1 .. call.done + 1 BY <1>0
      <4> QED BY <1>0, <2>1, <2>3, <3>2, <4>1 DEF GetTold
    <3> QED BY <2>5, <3>1, <3>2
  <2>7. FilterTold(call', answer', filters')
    BY <1>0, <2>1, <2>3, <2>5 DEF FilterTold, SameCall
  <2>8. ClearTold(call', answer', filters') BY <1>4 DEF ClearTold, SameCall
  <2> QED BY <2>1, <2>6, <2>7, <2>8
<1> QED BY <1>1, <1>3, <1>4

LEMMA ToldNext ==
    ASSUME TypeInv, PhaseInv, QueueInv, ToldInv, [Next]_vars
    PROVE  ToldInv'
<1>0. /\ Told => (\A j \in DOMAIN inbox : inbox[j].id[1] = Latest)
      /\ GetTold(call, answer, config) /\ FilterTold(call, answer, filters)
      /\ ClearTold(call, answer, filters) /\ call \in Outcomes
  BY ToldParts DEF TypeInv
<1>1. CASE \E r \in Requests : Begins(r)
  <2>1. PICK r \in Requests : Begins(r) BY <1>1
  <2>2. call'.handedOut = <<>> /\ call'.done = 0 /\ answer' = NoAnswer BY <2>1 DEF Begins, NoCall
  <2>3. answer'.status # "ok" /\ DOMAIN call'.handedOut = {} /\ ~(call'.done > 0)
    BY <2>2 DEF NoAnswer
  <2>4. ~Told' BY <2>2, <2>3 DEF Told
  <2> QED BY <2>3, <2>4, ToldParts DEF GetTold, FilterTold, ClearTold
<1>2. CASE \E s \in Statuses : Ends(s)
  <2>1. PICK s \in Statuses : Ends(s) BY <1>2
  <2>2. /\ UNCHANGED <<inbox, answer, config, filters>>
        /\ call' = [call EXCEPT !.status = s]
        /\ s = call.status \/ call.kind \in {"write", "filter"}
    BY <2>1 DEF Ends, Cable
  <2>3. call'.done = call.done /\ SameCall /\ call'.handedOut = call.handedOut /\ call'.status = s
    BY <1>0, <2>2, Fields DEF SameCall
  <2>4. Latest' = Latest BY <1>2, GoesOn
  <2>5. Told' <=> Told BY <2>2, <2>3 DEF Told, SameCall
  <2>6. GetTold(call', answer', config') BY <1>0, <2>2, <2>3 DEF GetTold, SameCall
  <2>7. FilterTold(call', answer', filters') BY <1>0, <2>2, <2>3 DEF FilterTold, SameCall
  <2>8. ClearTold(call', answer', filters') BY <1>0, <2>2, <2>3 DEF ClearTold, SameCall
  <2> QED BY <1>0, <2>2, <2>4, <2>5, <2>6, <2>7, <2>8, ToldParts
<1>3. CASE Moves
  <2>1. /\ UNCHANGED <<inbox, results, call, answer, config, filters>>
        /\ pc' = pc \/ (pc' \notin {"idle", "waiting"} /\ pc \notin {"idle", "waiting"})
    BY <1>3 DEF Moves, Cable
  <2>2. Latest' = Latest /\ (Told' <=> Told) BY <2>1 DEF Latest, Told
  <2> QED BY <1>0, <2>1, <2>2, ToldParts
<1>4. CASE Sends
  <2>1. /\ pc = "writing" /\ pc' = "waiting" /\ UNCHANGED <<call, answer, config, filters>> /\ Delivered
        /\ UnderWay
    BY <1>4 DEF Sends, UnderWay, Cable
  <2>2. Latest' = Latest /\ (Told' <=> Told) BY <1>4, <2>1, GoesOn DEF Told
  <2>3. Told => (\A j \in DOMAIN inbox' : inbox'[j].id[1] = Latest)
    BY <1>0, <2>1, QueueOwn
  <2> QED BY <1>0, <2>1, <2>2, <2>3, ToldParts
<1>5. CASE \E s \in Statuses, v \in Data : Settles(s, v)
  <2>1. PICK s \in Statuses, v \in Data : Settles(s, v) BY <1>5
  <2>2. /\ SameCall /\ (Advances(s, v) \/ Fails(s)) /\ UnderWay /\ answer' = NoAnswer
        /\ config' = config /\ filters' = filters /\ call' \in Outcomes
        /\ inbox' = inbox \/ Delivered
    BY <2>1, AfterIs DEF Settles, Cable
  <2>3. Latest' = Latest BY <1>5, GoesOn
  <2>4. Told => (\A j \in DOMAIN inbox' : inbox'[j].id[1] = Latest)
    BY <1>0, <2>2, QueueOwn
  <2>5. s = "ok" => call.kind = "write" \/ (answer # NoAnswer /\ answer.status = "ok" /\ v = answer.value)
    BY <2>1, <2>2, StatusOfAnswer DEF Settles, PhaseInv, CallInv, WaitInv
  <2>6. CASE Advances(s, v)
    BY <2>2, <2>3, <2>4, <2>5, <2>6, ToldMore, ToldParts
  <2>7. CASE Fails(s)
    <3>1. call.kind = "write" /\ call'.handedOut = call.handedOut /\ call'.kind = "write"
      BY <2>2, <2>7 DEF Fails, SameCall
    <3>2. Told' => Told BY <2>2, <3>1 DEF Told
    <3> QED BY <2>3, <2>4, <3>1, <3>2, ToldParts DEF GetTold, FilterTold, ClearTold
  <2> QED BY <2>2, <2>6, <2>7
<1>6. CASE CableRuns
  <2>1. UNCHANGED <<pc, call, results>> /\ Latest' = Latest BY <1>6, Runs, QueueMoves
  <2>2. PICK s, v, f : RunOf(inbox[1], s, v, f) BY <1>6, Runs
  <2>3. /\ 1 \in DOMAIN inbox /\ Len(inbox) \in Nat \ {0} /\ DOMAIN inbox' = 1 .. Len(inbox) - 1
        /\ \A j \in DOMAIN inbox' : j + 1 \in DOMAIN inbox /\ inbox'[j] = inbox[j + 1]
    BY <1>6, QueueMoves
  <2>4. /\ filters' = f
        /\ inbox[1].kind # "set" => config' = config
        /\ \/ answer' = IF pc = "waiting" /\ inbox[1].id = Id
                        THEN [status |-> s, value |-> v] ELSE answer
           \/ answer' = answer
        /\ inbox[1].kind = "get" /\ s = "ok" =>
              inbox[1].item.parameter \in Parameters /\ v = config[inbox[1].item.parameter]
        /\ inbox[1].kind = "filter" => filters \subseteq f /\ (s = "ok" => v \in f)
        /\ inbox[1].kind = "clear" => f = {}
    BY <2>2 DEF RunOf, Ran
  <2>5. inbox[1].id[1] = Latest => inbox[1].kind = call.kind /\ inbox[1].item = call.items[inbox[1].id[2]]
    BY <2>3 DEF QueueInv
  \* An answer is to the last command of all.
  <2>6. answer' = answer
        \/ (/\ inbox[1].id[1] = Latest /\ inbox[1].id[2] = call.done + 1
            /\ DOMAIN inbox' = {} /\ answer' = [status |-> s, value |-> v])
    <3> SUFFICES ASSUME pc = "waiting", inbox[1].id = Id
                 PROVE  /\ inbox[1].id[1] = Latest /\ inbox[1].id[2] = call.done + 1
                        /\ DOMAIN inbox' = {}
      BY <2>4
    <3>1. Id[1] = Latest /\ Id[2] = call.done + 1
      BY LatestIs, ItemUnderWay DEF PhaseInv, CallInv, WaitInv, UnderWay
    <3>2. 1 = Len(inbox) BY <2>3, <3>1 DEF QueueInv
    <3> QED BY <2>3, <3>1, <3>2
  <2>7. Told' => (\A j \in DOMAIN inbox' : inbox'[j].id[1] = Latest)
    BY <1>0, <2>1, <2>3, <2>6 DEF Told
  <2>8. CASE inbox[1].id[1] = Latest
    <3>1. GetTold(call', answer', config')
      <4> SUFFICES ASSUME call.kind = "get" PROVE GetTold(call, answer', config)
        BY <2>1, <2>4, <2>5, <2>8 DEF GetTold
      <4>1. answer'.status = "ok" => /\ call.items[call.done + 1].parameter \in Parameters
                                     /\ answer'.value = config[call.items[call.done + 1].parameter]
        <5>1. CASE answer' = answer BY <1>0, <2>4, <2>5, <2>8, <5>1 DEF GetTold
        <5>2. CASE /\ inbox[1].id[2] = call.done + 1
                   /\ answer' = [status |-> s, value |-> v]
          <6>1. inbox[1].kind = "get" /\ inbox[1].item = call.items[call.done + 1]
            BY <2>5, <2>8, <5>2
          <6>2. s = "ok" => /\ call.items[call.done + 1].parameter \in Parameters
                            /\ v = config[call.items[call.done + 1].parameter]
            BY <2>4, <6>1
          <6> QED BY <5>2, <6>2
        <5> QED BY <2>6, <5>1, <5>2
      <4> QED BY <1>0, <4>1 DEF GetTold
    <3>2. FilterTold(call', answer', filters')
      BY <1>0, <2>1, <2>4, <2>5, <2>6, <2>8 DEF FilterTold
    <3>3. ClearTold(call', answer', filters')
      BY <1>0, <2>1, <2>4, <2>5, <2>8 DEF ClearTold
    <3> QED BY <2>1, <2>7, <3>1, <3>2, <3>3, ToldParts
  <2>9. CASE inbox[1].id[1] # Latest
    <3>1. ~Told /\ answer' = answer BY <1>0, <2>3, <2>6, <2>9
    <3>2. answer'.status # "ok" /\ DOMAIN call.handedOut = {}
          /\ ~(call.kind = "clear" /\ call.done > 0 /\ call.status = "ok")
      BY <3>1 DEF Told, NoAnswer
    <3> QED BY <2>1, <2>7, <3>2, ToldParts DEF GetTold, FilterTold, ClearTold
  <2> QED BY <2>8, <2>9
<1> QED BY <1>1, <1>2, <1>3, <1>4, <1>5, <1>6, StepKinds

(***************************************************************************)
(* The call and its command.                                               *)
(***************************************************************************)
LEMMA Maximum ==
    ASSUME NEW a \in Int, NEW b \in Int
    PROVE  Max({a, b}) \in {a, b} /\ Max({a, b}) >= a /\ Max({a, b}) >= b
<1>1. \E x \in {a, b} : \A y \in {a, b} : x >= y OBVIOUS
<1>2. Max({a, b}) = CHOOSE x \in {a, b} : \A y \in {a, b} : x >= y BY DEF Max
<1> QED BY <1>1, <1>2

LEMMA Remainder ==
    /\ \A a \in Int, w \in Nat \ {0} : a % w \in Nat
    /\ \A a \in Nat, w \in Nat : a < w => a % w = a
OBVIOUS

\* A budget is of no less than a millisecond and no more than was asked for.
LEMMA BudgetIs ==
    /\ \A ms \in Nat : Budget(ms) \in Nat
    /\ \A t \in Nat, ms \in Nat : ms \in 1 .. t => Budget(ms) \in MicroPerMs .. t * MicroPerMs
<1>0. Width \in Nat /\ MicroPerMs \in Nat \ {0} /\ MicroPerMs < Width /\ ZeroBudget \in Nat
  BY Constants
<1>1. PICK q \in Nat : q = (Width - 1) \div MicroPerMs /\ Width - 1 < (q + 1) * MicroPerMs
  <2>1. \A n \in Nat, m \in Nat \ {0} : n \div m \in Nat /\ n < (n \div m + 1) * m OBVIOUS
  <2>2. Width - 1 \in Nat BY <1>0
  <2> QED BY <1>0, <2>1, <2>2
<1>2. \A a, b, m \in Nat : a <= b => a * m <= b * m OBVIOUS
<1>3. \A ms \in Nat : Budget(ms) \in Nat BY <1>0 DEF Budget
<1>4. ASSUME NEW t \in Nat, NEW ms \in Nat, ms \in 1 .. t
      PROVE  Budget(ms) \in MicroPerMs .. t * MicroPerMs
  <2>1. CASE ms > q
    <3>1. Budget(ms) = Width - 1 BY <1>1, <1>4, <2>1 DEF Budget
    <3>2. (q + 1) * MicroPerMs <= t * MicroPerMs BY <1>0, <1>2, <1>4, <2>1
    <3>3. /\ (q + 1) * MicroPerMs \in Nat /\ t * MicroPerMs \in Nat BY <1>0
    <3> QED BY <1>0, <1>1, <3>1, <3>2, <3>3
  <2>2. CASE ~(ms > q)
    <3>1. Budget(ms) = ms * MicroPerMs BY <1>1, <1>4, <2>2 DEF Budget
    <3>2. ms * MicroPerMs <= t * MicroPerMs /\ 1 * MicroPerMs <= ms * MicroPerMs
      BY <1>0, <1>2, <1>4
    <3>3. ms * MicroPerMs \in Nat /\ t * MicroPerMs \in Nat BY <1>0
    <3> QED BY <1>0, <3>1, <3>2, <3>3
  <2> QED BY <2>1, <2>2
<1> QED BY <1>3, <1>4

\* What a write with a Timeout is given: what is left of it.
LEMMA GivenIs ==
    ASSUME TypeInv, AskNext
    PROVE  /\ Given \in Nat /\ Budget(Given) \in Nat
           /\ call.kind # "write" => Given # 0
           /\ call.kind = "write" /\ Waits(call) =>
                 /\ Given \in 1 .. call.timeout
                 /\ Budget(Given) \in MicroPerMs .. call.timeout * MicroPerMs
                 /\ stepped = 0 => elapsed + Given = call.timeout
<1>0. call.timeout \in Nat /\ elapsed \in Nat /\ stepped \in Int
      /\ Width \in Nat \ {0} /\ LongMax \in Nat /\ Width <= LongMax /\ CommandMs \in Nat \ {0}
  BY Constants DEF TypeInv, Outcomes
<1>1. Wall \in Int BY <1>0 DEF Wall
<1>2. PICK m \in Nat : m = Max({0, Wall}) /\ (stepped = 0 => m = elapsed)
  <2>1. Max({0, Wall}) \in {0, Wall} /\ Max({0, Wall}) >= 0 /\ Max({0, Wall}) >= Wall
    BY <1>1, Maximum
  <2>2. stepped = 0 => Wall = elapsed BY <1>0 DEF Wall
  <2> QED BY <1>0, <1>1, <2>1, <2>2
<1>3. Remaining \in Int /\ (call.timeout <= LongMax => Remaining = call.timeout - m)
  BY <1>0, <1>2 DEF Remaining
<1>4. Given \in Nat BY <1>0, <1>3, Remainder DEF Given
<1>5. call.kind # "write" => Given # 0 BY <1>0 DEF Given
<1>6. ASSUME call.kind = "write", Waits(call)
      PROVE  /\ Given \in 1 .. call.timeout
             /\ stepped = 0 => elapsed + Given = call.timeout
  <2>1. call.timeout \in 1 .. Width - 1 /\ call.timeout # 0 /\ call.timeout <= LongMax
    BY <1>0, <1>6 DEF Waits
  <2>2. Remaining > 0 BY <1>3, <1>6, <2>1 DEF AskNext, OutOfTime, Timed
  <2>3. Remaining \in Nat /\ Remaining = call.timeout - m /\ Remaining < Width
    BY <1>0, <1>3, <2>1, <2>2
  <2>4. Remaining % Width = Remaining BY <1>0, <2>3, Remainder
  <2>5. Given = Remaining BY <1>6, <2>1, <2>4 DEF Given
  <2> QED BY <1>0, <1>2, <2>2, <2>3, <2>5
<1> QED BY <1>0, <1>4, <1>5, <1>6, BudgetIs

\* The command that is made up.
LEMMA AskIs ==
    ASSUME TypeInv, PhaseInv, AskNext
    PROVE  /\ ask' \in Asks /\ ask'.given = Given /\ ask'.budget = Budget(Given)
           /\ (call.kind = "write" => Given # 0) => ask'.wait
           /\ ask'.waited = 0 /\ ask'.transfers = 0
<1>1. Given \in Nat /\ Budget(Given) \in Nat BY GivenIs
<1>2. Item.size \in Nat BY ItemUnderWay DEF AskNext, More
<1>3. PICK g \in Nat, b \in Nat, z \in Nat, w \in BOOLEAN :
         g = Given /\ b = Budget(Given) /\ z = Item.size /\ w = (call.kind = "write" => Given # 0)
  BY <1>1, <1>2
<1>4. ask' = [NoAsk EXCEPT !.wait = w, !.given = g, !.budget = b, !.left = z]
  BY <1>3 DEF AskNext
<1>5. ask' = [wait |-> w, given |-> g, budget |-> b, left |-> z, transfers |-> 0, waited |-> 0,
              until |-> 0]
  BY <1>4 DEF NoAsk
<1>6. /\ ask' \in Asks /\ ask'.given = g /\ ask'.budget = b /\ ask'.wait = w
      /\ ask'.waited = 0 /\ ask'.transfers = 0
  BY <1>5 DEF Asks
<1>7. (call.kind = "write" => Given # 0) => w BY <1>3, Zenon
<1> QED BY <1>3, <1>6, <1>7

LEMMA AfterReturns ==
    ASSUME TypeInv, NEW s \in Statuses, NEW v \in Data, After(s, v)
    PROVE  ~UnderWay' /\ SameCall
BY AfterIs DEF Advances, Fails, UnderWay

LEMMA DurationsAre ==
    ASSUME TypeInv
    PROVE  /\ \A d \in Durations : d \in Nat
           /\ call.kind = "write" /\ Waits(call) /\ ask.given # 0 =>
                 \A d \in Durations : d <= ask.given
<1>1. ask.given \in Nat /\ NowaitMs \in Nat \ {0} BY Constants DEF TypeInv, Asks
<1>2. WriteMs \in Nat \ {0} /\ (ask.given # 0 => WriteMs = ask.given) BY <1>1 DEF WriteMs
<1> QED BY <1>1, <1>2 DEF Durations

LEMMA CallNext ==
    ASSUME TypeInv, PhaseInv, [Next]_vars
    PROVE  /\ call' \in Outcomes /\ answer' \in Answers /\ results' \in Seq(Outcomes)
           /\ pc' \in {"idle", "next", "queued", "writing", "waiting"}
           /\ CallInv'
<1>0. /\ call \in Outcomes /\ answer \in Answers /\ results \in Seq(Outcomes) /\ CallInv
      /\ pc \in {"idle", "next", "queued", "writing", "waiting"}
      /\ call.done \in Nat /\ call.items \in Lists /\ Len(call.items) \in Nat
      /\ NoAnswer \in Answers
  BY ListLength DEF TypeInv, PhaseInv, Outcomes, NoAnswer, Answers, Data
<1>1. CASE \E r \in Requests : Begins(r)
  <2>1. PICK r \in Requests : Begins(r) BY <1>1
  <2>2. /\ r.kind \in Kinds /\ r.timeout \in 0 .. 2 * LongMax + 1 /\ Len(r.items) \in Nat
        /\ \A i \in 1 .. Len(r.items) :
              r.items[i].size \in Nat /\ (r.kind = "set" => r.items[i].value \in Values)
        /\ r.kind = "clear" => r.items # <<>>
        /\ r.items \in Lists
    BY ChannelAssumption DEF Lists
  <2>3. /\ pc' = "next" /\ answer' = NoAnswer /\ results' = results
        /\ call' = [NoCall EXCEPT !.kind = r.kind, !.items = r.items, !.timeout = r.timeout]
    BY <2>1 DEF Begins
  <2>4. PICK k \in Kinds, l \in Lists, t \in 0 .. 2 * LongMax + 1 :
           k = r.kind /\ l = r.items /\ t = r.timeout
    BY <2>2
  <2>5. call' = [kind |-> k, items |-> l, timeout |-> t, done |-> 0, status |-> "ok", handedOut |-> <<>>]
    BY <2>3, <2>4 DEF NoCall
  <2>6. <<>> \in Seq([item : Nat, value : Data]) BY EmptySeq
  <2>7. call' \in Outcomes BY <2>5, <2>6 DEF Outcomes
  <2>8. /\ call'.kind = r.kind /\ call'.items = r.items /\ call'.done = 0 /\ call'.status = "ok"
        /\ call'.kind # "none"
    BY <2>4, <2>5 DEF Kinds
  <2> QED BY <1>0, <2>2, <2>3, <2>7, <2>8 DEF CallInv, UnderWay
<1>2. CASE \E s \in Statuses : Ends(s)
  <2>1. PICK s \in Statuses : Ends(s) BY <1>2
  <2>2. /\ pc = "next" /\ pc' = "idle" /\ answer' = answer /\ results' = Append(results, call')
        /\ call' = [call EXCEPT !.status = s]
        /\ \/ s = call.status /\ ~(call.done < Len(call.items))
           \/ call.kind \in {"write", "filter"}
    BY <2>1 DEF Ends
  <2>3. call' \in Outcomes /\ call'.done = call.done /\ SameCall
    BY <1>0, <2>2, Fields DEF SameCall
  <2>4. results' \in Seq(Outcomes) BY <1>0, <2>2, <2>3, AppendAt
  <2>5. call.kind \notin {"write", "filter"} => call.done = Len(call.items)
    BY <1>0, <2>2 DEF CallInv
  <2> QED BY <1>0, <2>2, <2>3, <2>4, <2>5 DEF CallInv, UnderWay, SameCall
<1>3. CASE Moves
  <2>1. /\ UNCHANGED <<call, results, answer>>
        /\ \/ pc' = pc
           \/ pc = "next" /\ pc' = "queued" /\ call.done < Len(call.items)
           \/ pc = "queued" /\ pc' = "writing"
    BY <1>3 DEF Moves
  <2> QED BY <1>0, <2>1 DEF CallInv, UnderWay
<1>4. CASE Sends
  <2>1. pc = "writing" /\ pc' = "waiting" /\ UNCHANGED <<call, results, answer>>
    BY <1>4 DEF Sends
  <2> QED BY <1>0, <2>1 DEF CallInv, UnderWay
<1>5. CASE \E s \in Statuses, v \in Data : Settles(s, v)
  <2>1. PICK s \in Statuses, v \in Data : Settles(s, v) BY <1>5
  <2>2. /\ call' \in Outcomes /\ SameCall /\ (Advances(s, v) \/ Fails(s)) /\ UnderWay
        /\ answer' = NoAnswer
    BY <2>1, AfterIs DEF Settles
  <2>3. call.done < Len(call.items) /\ call.done + 1 \in 0 .. Len(call.items)
    BY <1>0, <2>2 DEF CallInv
  <2>4. CASE Advances(s, v)
    <3>1. /\ pc' = "next" /\ results' = results /\ call'.done = call.done + 1
          /\ call.kind = "write" => call'.status = call.status
      BY <2>4 DEF Advances
    <3>2. call.kind = "write" => call'.status = "ok" BY <1>0, <2>2, <3>1 DEF CallInv, UnderWay
    <3> QED BY <1>0, <2>2, <2>3, <3>1, <3>2 DEF CallInv, UnderWay, SameCall
  <2>5. CASE Fails(s)
    <3>1. /\ pc' = "idle" /\ results' = Append(results, call') /\ call'.done = call.done
          /\ call.kind = "write"
      BY <2>5 DEF Fails
    <3>2. results' \in Seq(Outcomes) BY <1>0, <2>2, <3>1, AppendAt
    <3> QED BY <1>0, <2>2, <3>1, <3>2 DEF CallInv, UnderWay, SameCall
  <2> QED BY <2>2, <2>4, <2>5
<1>6. CASE CableRuns
  <2>1. UNCHANGED <<pc, call, results>> BY <1>6, Runs
  <2>2. PICK s, v, f : RunOf(inbox[1], s, v, f) BY <1>6, Runs
  <2>3. answer' = answer \/ (/\ pc = "waiting" /\ answer' = [status |-> s, value |-> v]
                             /\ s \in {"ok", "bare", "refused"} /\ v \in Data)
    BY <2>2 DEF RunOf, Ran
  <2>4. answer' \in Answers /\ (answer' = answer \/ (pc = "waiting" /\ answer'.status # "none"))
    BY <1>0, <2>3 DEF Answers
  <2> QED BY <1>0, <2>1, <2>4 DEF CallInv, UnderWay
<1> QED BY <1>1, <1>2, <1>3, <1>4, <1>5, <1>6, StepKinds

(***************************************************************************)
(* The time a call takes.                                                  *)
(***************************************************************************)
\* The command and the clock of a call that goes on or returns.
LEMMA TimeStays ==
    ASSUME TypeInv, TimeInv, UnderWay, SameCall, ~UnderWay', stepped' = stepped,
           ask'.given = ask.given, ask'.budget = ask.budget,
           stepped = 0 /\ call.kind = "write" /\ Waits(call) => elapsed' <= Spent'
    PROVE  WaitInv' /\ TimeInv'
<1>1. ~(pc' \in {"queued", "writing", "waiting"}) BY DEF UnderWay
<1> QED BY <1>1 DEF WaitInv, TimeInv, Waits, SameCall, UnderWay

LEMMA EnterTime ==
    ASSUME TypeInv, PhaseInv, TimeInv, NEW w \in Nat, Enter(w)
    PROVE  ask' \in Asks /\ elapsed' \in Nat /\ WaitInv' /\ TimeInv'
<1>0. ask \in Asks /\ elapsed \in Nat /\ stepped' = stepped /\ pc = "queued" /\ UnderWay
      /\ call.timeout \in Nat
  BY DEF TypeInv, Enter, UnderWay, Outcomes
<1>1. elapsed' = elapsed + w /\ ask' = [ask EXCEPT !.waited = w] BY DEF Enter
<1>2. /\ ask' \in Asks /\ ask'.waited = w /\ ask'.given = ask.given /\ ask'.budget = ask.budget
      /\ ask'.transfers = ask.transfers /\ ask'.wait = ask.wait
  BY <1>0, <1>1 DEF Asks
<1>3. PICK n \in Nat : n = ask.transfers * ask.given BY <1>0 DEF Asks
<1>4. ASSUME call.kind = "write", Waits(call), SameCall
      PROVE  /\ Spent' = Spent + w
             /\ stepped = 0 => elapsed' + ask.given <= Spent' /\ elapsed' <= Spent'
  <2>1. ask.waited = 0 /\ (stepped = 0 => elapsed + ask.given <= Spent)
    BY <1>0, <1>4 DEF TimeInv
  <2>2. Spent = call.timeout + n /\ Spent' = call.timeout + w + n
    BY <1>0, <1>2, <1>3, <1>4, <2>1 DEF Spent, SameCall
  <2> QED BY <1>0, <1>1, <2>1, <2>2 DEF Asks
<1>5. CASE lost
  <2>1. After("no_device", 0) BY <1>5 DEF Enter
  <2>2. ~UnderWay' /\ SameCall BY <2>1, AfterReturns, ZeroData DEF Statuses
  <2> QED BY <1>0, <1>1, <1>2, <1>4, <2>2, TimeStays
<1>6. CASE ~lost
  <2>1. pc' = "writing" /\ call' = call /\ SameCall BY <1>6 DEF Enter, SameCall
  <2>2. WaitInv' BY <1>0, <1>2, <2>1 DEF PhaseInv, WaitInv, UnderWay
  <2>3. TimeInv' BY <1>0, <1>2, <1>4, <2>1 DEF TimeInv, UnderWay
  <2> QED BY <1>0, <1>1, <1>2, <2>2, <2>3
<1> QED BY <1>5, <1>6

LEMMA TransferTime ==
    ASSUME TypeInv, PhaseInv, TimeInv, NEW d \in Durations, NEW m \in 0 .. ask.left, Transfer(m, d)
    PROVE  ask' \in Asks /\ elapsed' \in Nat /\ WaitInv' /\ TimeInv'
<1>0. ask \in Asks /\ elapsed \in Nat /\ stepped' = stepped /\ pc = "writing" /\ UnderWay
      /\ call.timeout \in Nat /\ stepped \in Int /\ d \in Nat
  BY DurationsAre DEF TypeInv, Transfer, UnderWay, Outcomes
<1>1. PICK l \in Nat, t \in Nat, u \in Int :
         /\ l = ask.left - m /\ t = ask.transfers + 1 /\ u = Wall + d + ask.given
         /\ stepped = 0 => u = elapsed + d + ask.given
  BY <1>0 DEF Asks, Wall
<1>2. elapsed' = elapsed + d /\ ask' = [ask EXCEPT !.left = l, !.transfers = t, !.until = u]
  BY <1>0, <1>1 DEF Transfer, Asks
<1>3. /\ ask' \in Asks /\ ask'.waited = ask.waited /\ ask'.given = ask.given /\ ask'.budget = ask.budget
      /\ ask'.transfers = t /\ ask'.wait = ask.wait /\ ask'.until = u
  BY <1>0, <1>2 DEF Asks
<1>4. t * ask.given = ask.transfers * ask.given + ask.given
  <2>1. \A a, b \in Nat : (a + 1) * b = a * b + b OBVIOUS
  <2> QED BY <1>0, <1>1, <2>1 DEF Asks
<1>5. PICK n \in Nat : n = ask.transfers * ask.given BY <1>0 DEF Asks
<1>6. ASSUME call.kind = "write", Waits(call), SameCall, stepped = 0
      PROVE  elapsed' + ask.given <= Spent' /\ elapsed' <= Spent' /\ u <= Spent'
  <2>1. elapsed + ask.given <= Spent /\ ask.given # 0
    BY <1>0, <1>6 DEF TimeInv
  <2>2. d <= ask.given BY <1>6, <2>1, DurationsAre
  <2>3. Spent = call.timeout + ask.waited + n /\ Spent' = call.timeout + ask.waited + (n + ask.given)
    BY <1>0, <1>3, <1>4, <1>5, <1>6 DEF Spent, SameCall
  <2> QED BY <1>0, <1>1, <1>2, <1>6, <2>1, <2>2, <2>3 DEF Asks
<1>7. CASE m < ask.left \/ ask.wait
  <2>1. call' = call /\ SameCall /\ pc' \in {"writing", "waiting"}
    BY <1>0, <1>7 DEF Transfer, SameCall
  <2>2. WaitInv' BY <1>0, <1>3, <2>1 DEF PhaseInv, WaitInv, UnderWay
  <2>3. TimeInv' BY <1>0, <1>3, <1>6, <2>1 DEF TimeInv, UnderWay
  <2> QED BY <1>0, <1>2, <1>3, <2>2, <2>3
<1>8. CASE ~(m < ask.left \/ ask.wait)
  <2>1. After("ok", 0) BY <1>8 DEF Transfer
  <2>2. ~UnderWay' /\ SameCall BY <2>1, AfterReturns, ZeroData DEF Statuses
  <2> QED BY <1>0, <1>2, <1>3, <1>6, <2>2, TimeStays
<1> QED BY <1>7, <1>8

LEMMA FailTime ==
    ASSUME TypeInv, PhaseInv, TimeInv, NEW d \in Durations, NEW m, NEW s \in {"stalled", "failed"},
           TransferFails(m, d, s)
    PROVE  ask' \in Asks /\ elapsed' \in Nat /\ WaitInv' /\ TimeInv'
<1>0. ask \in Asks /\ elapsed \in Nat /\ stepped' = stepped /\ pc = "writing" /\ UnderWay
      /\ call.timeout \in Nat /\ stepped \in Int /\ d \in Nat
  BY DurationsAre DEF TypeInv, TransferFails, UnderWay, Outcomes
<1>1. PICK t \in Nat : t = ask.transfers + 1 BY <1>0 DEF Asks
<1>2. elapsed' = elapsed + d /\ ask' = [ask EXCEPT !.transfers = t]
  BY <1>0, <1>1 DEF TransferFails, Asks
<1>3. /\ ask' \in Asks /\ ask'.waited = ask.waited /\ ask'.given = ask.given /\ ask'.budget = ask.budget
      /\ ask'.transfers = t
  BY <1>0, <1>2 DEF Asks
<1>4. t * ask.given = ask.transfers * ask.given + ask.given
  <2>1. \A a, b \in Nat : (a + 1) * b = a * b + b OBVIOUS
  <2> QED BY <1>0, <1>1, <2>1 DEF Asks
<1>5. PICK n \in Nat : n = ask.transfers * ask.given BY <1>0 DEF Asks
<1>6. After(s, 0) /\ s \in Statuses BY DEF TransferFails, Statuses
<1>7. ~UnderWay' /\ SameCall BY <1>6, AfterReturns, ZeroData
<1>8. ASSUME call.kind = "write", Waits(call), stepped = 0 PROVE elapsed' <= Spent'
  <2>1. elapsed + ask.given <= Spent /\ ask.given # 0
    BY <1>0, <1>8 DEF TimeInv
  <2>2. d <= ask.given BY <1>8, <2>1, DurationsAre
  <2>3. Spent = call.timeout + ask.waited + n /\ Spent' = call.timeout + ask.waited + (n + ask.given)
    BY <1>0, <1>3, <1>4, <1>5, <1>7 DEF Spent, SameCall
  <2> QED BY <1>0, <1>2, <2>1, <2>2, <2>3 DEF Asks
<1> QED BY <1>0, <1>2, <1>3, <1>7, <1>8, TimeStays

LEMMA UntilEndIs ==
    ASSUME TypeInv
    PROVE  UntilEnd \in {elapsed, ask.until - stepped} /\ UntilEnd \in Int /\ elapsed <= UntilEnd
<1>1. elapsed \in Nat /\ ask.until - stepped \in Int BY DEF TypeInv, Asks
<1>2. PICK u \in Int : u = ask.until - stepped BY <1>1
<1>a. PICK e \in Int : e = elapsed BY <1>1
<1>b. Max({e, u}) \in {e, u} /\ Max({e, u}) >= e BY Maximum
<1>3. Max({elapsed, u}) \in {elapsed, u} /\ Max({elapsed, u}) >= elapsed BY <1>a, <1>b
<1>4. UntilEnd = Max({elapsed, u}) BY <1>2 DEF UntilEnd
<1> QED BY <1>1, <1>2, <1>3, <1>4

\* The wait ends, no later than at its deadline.
WaitEnds(s, v) ==
    /\ pc = "waiting" /\ After(s, v) /\ UNCHANGED <<ask, stepped>>
    /\ elapsed' \in elapsed .. UntilEnd

LEMMA WaitTime ==
    ASSUME TypeInv, PhaseInv, TimeInv, NEW s \in Statuses, NEW v \in Data, WaitEnds(s, v)
    PROVE  ask' \in Asks /\ elapsed' \in Nat /\ WaitInv' /\ TimeInv'
<1>0. ask \in Asks /\ elapsed \in Nat /\ ask' = ask /\ stepped' = stepped /\ stepped \in Int
      /\ pc = "waiting" /\ UnderWay /\ call.timeout \in Nat
  BY DEF TypeInv, WaitEnds, UnderWay, Outcomes
<1>1. ~UnderWay' /\ SameCall BY AfterReturns DEF WaitEnds
<1>2. /\ UntilEnd \in {elapsed, ask.until - stepped} /\ elapsed' \in elapsed .. UntilEnd
  BY UntilEndIs DEF WaitEnds
<1>3. elapsed' \in Nat BY <1>0, <1>2
<1>4. Spent' = Spent BY <1>0, <1>1 DEF Spent, SameCall
<1>5. PICK n \in Nat : n = Spent BY <1>0 DEF Spent, Asks
<1>6. ASSUME call.kind = "write", Waits(call), stepped = 0 PROVE elapsed' <= Spent'
  <2>1. elapsed <= n /\ ask.until <= n BY <1>0, <1>5, <1>6 DEF TimeInv
  <2>2. ask.until - stepped = ask.until BY <1>0, <1>6 DEF Asks
  <2> QED BY <1>0, <1>2, <1>3, <1>4, <1>5, <2>1, <2>2 DEF Asks
<1> QED BY <1>0, <1>1, <1>3, <1>6, TimeStays

LEMMA AskTime ==
    ASSUME TypeInv, PhaseInv, TimeInv, AskNext
    PROVE  ask' \in Asks /\ WaitInv' /\ TimeInv'
<1>1. UNCHANGED <<call, elapsed, stepped>> /\ pc' = "queued" BY DEF AskNext
<1>2. call.timeout \in Nat /\ elapsed \in Nat BY DEF TypeInv, Outcomes
<1>3. WaitInv'
  <2>1. call.kind = "write" /\ Waits(call) => Given # 0 BY GivenIs
  <2> QED BY <1>1, <2>1, AskIs DEF WaitInv
<1>4. TimeInv'
  <2> SUFFICES ASSUME call.kind = "write", Waits(call)
               PROVE  /\ Given \in 1 .. call.timeout
                      /\ Budget(Given) \in MicroPerMs .. call.timeout * MicroPerMs
                      /\ stepped = 0 => elapsed + Given <= Spent' /\ elapsed <= Spent'
    BY <1>1, AskIs DEF TimeInv, UnderWay
  <2>1. Spent' = call.timeout
    <3>1. 0 * Given = 0 /\ Given \in Nat BY GivenIs
    <3> QED BY <1>1, <1>2, <3>1, AskIs DEF Spent
  <2> QED BY <1>1, <1>2, <2>1, GivenIs
<1> QED BY <1>3, <1>4, AskIs

LEMMA TimeNext ==
    ASSUME TypeInv, PhaseInv, TimeInv, [Next]_vars
    PROVE  /\ ask' \in Asks /\ elapsed' \in Nat /\ stepped' \in Int
           /\ WaitInv' /\ TimeInv'
<1>0. ask \in Asks /\ elapsed \in Nat /\ stepped \in Int /\ call \in Outcomes /\ WaitInv
      /\ NoAsk \in Asks
  BY DEF TypeInv, PhaseInv, NoAsk, Asks
<1> USE DEF callVars
<1>1. CASE \E r \in Requests : MakeCall(r)
  <2>1. PICK r \in Requests : MakeCall(r) BY <1>1
  <2>2. ask' = NoAsk /\ elapsed' = 0 /\ stepped' = 0 /\ pc' = "next" BY <2>1 DEF MakeCall
  <2> QED BY <1>0, <2>2 DEF WaitInv, TimeInv, UnderWay
<1>2. CASE Finish \/ GiveUp \/ Reject
  <2>1. UNCHANGED <<ask, elapsed, stepped>> /\ pc' = "idle"
    BY <1>2 DEF Finish, GiveUp, Reject, Return
  <2>2. \E s \in Statuses : call' = [call EXCEPT !.status = s]
    <3>1. CASE Finish
      <4>1. call' = [call EXCEPT !.status = call.status] BY <1>0, <3>1 DEF Finish, Return, Outcomes
      <4>2. call.status \in Statuses BY <1>0 DEF Outcomes, Statuses
      <4> QED BY <4>1, <4>2
    <3>2. CASE GiveUp
      BY <3>2 DEF GiveUp, Return, Statuses
    <3>3. CASE Reject
      BY <3>3 DEF Reject, Return, Statuses
    <3> QED BY <1>2, <3>1, <3>2, <3>3
  <2>3. SameCall BY <1>0, <2>2, Fields DEF SameCall
  <2>4. Spent' = Spent BY <2>1, <2>3 DEF Spent, SameCall
  <2> QED BY <1>0, <2>1, <2>3, <2>4 DEF WaitInv, TimeInv, UnderWay, Waits, SameCall
<1>3. CASE AskNext
  BY <1>0, <1>3, AskTime DEF AskNext
<1>4. CASE \E w \in IF Timed THEN 0 .. LockMax ELSE {0} : Enter(w)
  <2>1. PICK w \in IF Timed THEN 0 .. LockMax ELSE {0} : Enter(w) BY <1>4
  <2>2. w \in Nat BY Constants
  <2>3. stepped' = stepped BY <2>1 DEF Enter
  <2> QED BY <1>0, <2>1, <2>2, <2>3, EnterTime
<1>5. CASE \E d \in Durations, m \in 0 .. ask.left : m > 0 /\ Transfer(m, d)
  <2>1. PICK d \in Durations, m \in 0 .. ask.left : Transfer(m, d) BY <1>5
  <2>2. stepped' = stepped BY <2>1 DEF Transfer
  <2> QED BY <1>0, <2>1, <2>2, TransferTime
<1>6. CASE \E d \in Durations, m \in 0 .. ask.left :
              \E s \in {"stalled", "failed"} : TransferFails(m, d, s)
  <2>1. PICK d \in Durations, m \in 0 .. ask.left :
           \E s \in {"stalled", "failed"} : TransferFails(m, d, s)
    BY <1>6
  <2>2. PICK s \in {"stalled", "failed"} : TransferFails(m, d, s) BY <2>1
  <2>3. stepped' = stepped BY <2>2 DEF TransferFails
  <2> QED BY <1>0, <2>1, <2>2, <2>3, FailTime
<1>7. CASE (\E e \in {elapsed, UntilEnd} : TakeAnswer(e) \/ WakeGone(e)) \/ TimeOut
  <2>0. UntilEnd \in Int /\ elapsed <= UntilEnd
    BY UntilEndIs
  <2>1. {"no_device", "timeout"} \subseteq Statuses BY DEF Statuses
  <2>2. \E s \in Statuses, v \in Data : WaitEnds(s, v)
    <3>1. CASE \E e \in {elapsed, UntilEnd} : TakeAnswer(e)
      <4>1. PICK e \in {elapsed, UntilEnd} : TakeAnswer(e) BY <3>1
      <4>2. WaitEnds(StatusOf(answer), answer.value)
        BY <1>0, <2>0, <4>1 DEF TakeAnswer, WaitEnds
      <4>3. answer # NoAnswer BY <4>1 DEF TakeAnswer
      <4> QED BY <4>2, <4>3, StatusOfAnswer
    <3>2. CASE \E e \in {elapsed, UntilEnd} : WakeGone(e)
      <4>1. WaitEnds("no_device", 0) BY <1>0, <2>0, <3>2 DEF WakeGone, WaitEnds
      <4> QED BY <2>1, <4>1, ZeroData
    <3>3. CASE TimeOut
      <4>1. WaitEnds("timeout", 0) BY <1>0, <2>0, <3>3 DEF TimeOut, WaitEnds
      <4> QED BY <2>1, <4>1, ZeroData
    <3> QED BY <1>7, <3>1, <3>2, <3>3
  <2>3. stepped' = stepped BY <2>2 DEF WaitEnds
  <2> QED BY <1>0, <2>2, <2>3, WaitTime
<1>8. CASE CableRuns \/ Unplugged \/ Done \/ UNCHANGED vars
  <2>1. UNCHANGED <<pc, call, ask, elapsed, stepped>>
    BY <1>8 DEF CableRuns, Unplugged, Done, vars
  <2>2. Spent' = Spent BY <2>1 DEF Spent
  <2> QED BY <1>0, <2>1, <2>2 DEF WaitInv, TimeInv, UnderWay, Waits
<1>9. CASE \E k \in Leaps : ClockStepped(k)
  <2>1. PICK k \in Leaps : ClockStepped(k) BY <1>9
  <2>2. /\ UNCHANGED <<pc, call, ask, elapsed>> /\ stepped = 0 /\ stepped' \in Int
    BY <2>1, Constants DEF ClockStepped
  <2>3. Spent' = Spent BY <2>2 DEF Spent
  <2> QED BY <1>0, <2>2, <2>3 DEF WaitInv, TimeInv, UnderWay, Waits
<1> QED BY <1>1, <1>2, <1>3, <1>4, <1>5, <1>6, <1>7, <1>8, <1>9 DEF Next

(***************************************************************************)
(* Type correctness, and the invariant.                                    *)
(***************************************************************************)
LEMMA CableTypes ==
    ASSUME TypeInv, PhaseInv, QueueInv, [Next]_vars
    PROVE  /\ config' \in [Parameters -> Values] /\ filters' \subseteq Nat
           /\ bus' \in Seq(Ids) /\ handed' \in Seq(Ids)
           /\ inbox' \in Seq(Entries) /\ whole' \in BOOLEAN
<1>0. /\ config \in [Parameters -> Values] /\ filters \subseteq Nat
      /\ bus \in Seq(Ids) /\ handed \in Seq(Ids) /\ inbox \in Seq(Entries) /\ whole \in BOOLEAN
  BY DEF TypeInv
<1>1. UnderWay /\ Delivered => /\ handed' \in Seq(Ids) /\ inbox' \in Seq(Entries)
                               /\ whole' \in BOOLEAN
  <2> SUFFICES ASSUME UnderWay, Delivered
               PROVE  handed' \in Seq(Ids) /\ inbox' \in Seq(Entries) /\ whole' \in BOOLEAN
    OBVIOUS
  <2>1. Id \in Ids BY ItemUnderWay DEF PhaseInv, CallInv
  <2>2. handed' \in Seq(Ids) BY <1>0, <2>1, AppendAt DEF Delivered
  <2> QED BY <1>0, <2>2, QueueGrows DEF Delivered
<1>2. CASE (\E r \in Requests : Begins(r)) \/ (\E s \in Statuses : Ends(s)) \/ Moves
  <2>1. UNCHANGED <<config, filters, bus, handed, inbox>> /\ whole' \in {whole, TRUE}
    BY <1>2 DEF Begins, Ends, Moves, Cable
  <2> QED BY <1>0, <2>1
<1>3. CASE Sends
  BY <1>0, <1>1, <1>3 DEF Sends, UnderWay, Cable
<1>4. CASE \E s \in Statuses, v \in Data : Settles(s, v)
  BY <1>0, <1>1, <1>4 DEF Settles, Cable
<1>5. CASE CableRuns
  <2>1. inbox' \in Seq(Entries) /\ UNCHANGED <<handed, whole>> /\ inbox[1] \in Entries
    BY <1>5, Runs, QueueMoves
  <2>2. PICK s, v, f : RunOf(inbox[1], s, v, f) BY <1>5, Runs
  <2>3. /\ config' = IF inbox[1].kind = "set" /\ s = "ok"
                     THEN [config EXCEPT ![inbox[1].item.parameter] = inbox[1].item.value] ELSE config
        /\ filters' = f /\ f \subseteq Nat
        /\ bus' \in {bus, Append(bus, inbox[1].id)}
    BY <2>2 DEF RunOf, Ran
  <2>4. inbox[1].kind = "set" => inbox[1].item.value \in Values
    BY <1>5, QueueMoves DEF QueueInv
  <2>5. config' \in [Parameters -> Values] BY <1>0, <2>3, <2>4
  <2>6. bus' \in Seq(Ids)
    <3>1. inbox[1].id \in Ids BY <2>1 DEF Entries
    <3>2. Append(bus, inbox[1].id) \in Seq(Ids) BY <1>0, <3>1, AppendAt
    <3> QED BY <1>0, <2>3, <3>2
  <2> QED BY <1>0, <2>1, <2>3, <2>5, <2>6
<1> QED BY <1>2, <1>3, <1>4, <1>5, StepKinds

LEMMA RestTypes ==
    ASSUME TypeInv, [Next]_vars
    PROVE  lost' \in BOOLEAN /\ torn' \in BOOLEAN /\ nextFilter' \in Nat
<1>0. lost \in BOOLEAN /\ torn \in BOOLEAN /\ nextFilter \in Nat BY DEF TypeInv
<1> USE DEF cableVars, pipeVars, callVars
<1>1. CASE CableRuns
  <2>1. UNCHANGED <<lost, torn>> BY <1>1 DEF CableRuns
  <2>2. PICK s, v, f : RunOf(inbox[1], s, v, f) BY <1>1, Runs
  <2>3. nextFilter' = nextFilter + Cardinality(f \ filters) /\ Cardinality(f \ filters) \in Nat
    BY <2>2 DEF RunOf, Ran
  <2> QED BY <1>0, <2>1, <2>3
<1>2. CASE ~CableRuns
  <2>1. nextFilter' = nextFilter /\ lost' \in {lost, TRUE}
    BY <1>2 DEF Next, MakeCall, Finish, GiveUp, Reject, AskNext, Enter, Transfer, TransferFails,
                TakeAnswer, WakeGone, TimeOut, Unplugged, ClockStepped, Done, vars
  <2>2. torn' \in BOOLEAN
    BY <1>0, <1>2
      DEF Next, MakeCall, Finish, GiveUp, Reject, AskNext, Enter, Transfer, TransferFails,
                TakeAnswer, WakeGone, TimeOut, Unplugged, ClockStepped, Done, vars, Reaches
  <2> QED BY <1>0, <2>1, <2>2
<1> QED BY <1>1, <1>2

LEMMA InitInv ==
    ASSUME Init
    PROVE  IInv
<1>0. <<>> \in Seq([item : Nat, value : Data]) /\ <<>> \in Lists /\ LongMax \in Nat
  BY EmptySeq, Constants DEF Lists
<1>1. /\ NoCall \in Outcomes /\ NoCall.items = <<>> /\ NoCall.done = 0 /\ NoCall.kind = "none"
      /\ NoCall.handedOut = <<>> /\ Len(NoCall.items) = 0
  BY <1>0, EmptySeq DEF NoCall, Outcomes
<1>2. NoAsk \in Asks /\ NoAnswer \in Answers /\ NoAnswer.status = "none"
  BY DEF NoAsk, Asks, NoAnswer, Answers, Data
<1>3. TypeInv
  <2>1. <<>> \in Seq(Entries) /\ <<>> \in Seq(Ids) /\ <<>> \in Seq(Outcomes) BY EmptySeq
  <2>2. /\ pc \in {"idle", "next", "queued", "writing", "waiting"}
        /\ call \in Outcomes /\ ask \in Asks /\ answer \in Answers
    BY <1>1, <1>2 DEF Init
  <2>a. lost \in BOOLEAN /\ torn \in BOOLEAN /\ whole \in BOOLEAN BY DEF Init
  <2>b. elapsed \in Nat /\ stepped \in Int BY DEF Init
  <2>3. elapsed \in Nat /\ stepped \in Int /\ lost \in BOOLEAN /\ torn \in BOOLEAN /\ whole \in BOOLEAN
    BY <2>a, <2>b
  <2>4. inbox \in Seq(Entries) /\ handed \in Seq(Ids) /\ bus \in Seq(Ids) /\ results \in Seq(Outcomes)
    BY <2>1 DEF Init
  <2>5. config \in [Parameters -> Values] /\ filters \subseteq Nat /\ nextFilter \in Nat
    BY DEF Init
  <2> QED BY <2>2, <2>3, <2>4, <2>5 DEF TypeInv
<1>4. PhaseInv BY <1>1, <1>2 DEF Init, PhaseInv, CallInv, WaitInv, UnderWay
<1>5. HandedInv /\ QueueInv /\ BusInv BY DEF Init, HandedInv, QueueInv, BusInv
<1>6. TimeInv /\ SetInv BY <1>1 DEF Init, TimeInv, SetInv
<1>7. ToldInv
  <2>1. ~Told BY <1>1 DEF Init, Told
  <2> QED BY <1>1, <2>1 DEF Init, ToldInv
<1> QED BY <1>3, <1>4, <1>5, <1>6, <1>7 DEF IInv

LEMMA NextInv ==
    ASSUME IInv, [Next]_vars
    PROVE  IInv'
<1>1. TypeInv /\ PhaseInv /\ HandedInv /\ QueueInv /\ BusInv /\ TimeInv /\ SetInv /\ ToldInv
  BY DEF IInv
<1>2. TypeInv' BY <1>1, CallNext, TimeNext, CableTypes, RestTypes DEF TypeInv
<1>3. PhaseInv' BY <1>1, CallNext, TimeNext DEF PhaseInv
<1>4. HandedInv' /\ QueueInv' BY <1>1, HandedNext, QueueNext
<1>5. BusInv' /\ TimeInv' BY <1>1, BusNext, TimeNext
<1>6. SetInv' /\ ToldInv' BY <1>1, SetNext, ToldNext
<1> QED BY <1>2, <1>3, <1>4, <1>5, <1>6 DEF IInv

LEMMA Invariance == Spec => []IInv
BY InitInv, NextInv, PTL DEF Spec

LEMMA Smallest ==
    ASSUME NEW T \in SUBSET Nat, T # {}
    PROVE  \E x \in T : \A y \in T : x <= y
<1>1. PICK R : R = {ss \in Nat \X Nat : ss[1] < ss[2]} OBVIOUS
<1>2. IsWellFoundedOn(R, Nat) BY <1>1, NatLessThanWellFounded DEF OpToRel
<1>3. \A S, U : IsWellFoundedOn(R, S) /\ U \subseteq S /\ U # {} =>
                \E x \in U : \A y \in U : ~ (<<y, x>> \in R)
  BY WFMin
<1>4. PICK N : N = Nat OBVIOUS
<1>5. IsWellFoundedOn(R, N) /\ T \subseteq N /\ T # {} BY <1>2, <1>4
<1>6. \E x \in T : \A y \in T : ~ (<<y, x>> \in R) BY <1>3, <1>5
<1>7. PICK x \in T : \A y \in T : ~ (<<y, x>> \in R) BY <1>6
<1>8. \A a, b \in Nat : <<a, b>> \in R <=> a < b BY <1>1
<1>9. \A y \in T : y \in Nat /\ x \in Nat /\ ~(y < x) BY <1>7, <1>8
<1>10. \A y \in T : x <= y BY <1>9
<1> QED BY <1>10

LEMMA MaximumOf ==
    ASSUME NEW S \in SUBSET Nat, S # {}, NEW n \in Nat, \A x \in S : x <= n
    PROVE  Max(S) \in S /\ \A x \in S : Max(S) >= x
<1>1. PICK T : T = {n - x : x \in S} OBVIOUS
<1>2. \A x \in S : n - x \in Nat OBVIOUS
<1>3. T \in SUBSET Nat /\ T # {} BY <1>1, <1>2
<1>4. PICK m \in T : \A y \in T : m <= y BY <1>3, Smallest
<1>5. PICK x \in S : m = n - x BY <1>1, <1>4
<1>6. \A y \in S : x >= y
  <2> TAKE y \in S
  <2>1. n - y \in T BY <1>1
  <2>2. n - x <= n - y BY <1>4, <1>5, <2>1
  <2> QED BY <2>2
<1>7. Max(S) = CHOOSE z \in S : \A y \in S : z >= y BY DEF Max
<1> QED BY <1>6, <1>7

(***************************************************************************)
(* The theorems.                                                           *)
(***************************************************************************)
\* PassThruWriteMsgs (op_j2534.c): *pNumMsgs after a write is the number of
\* messages the cable was given - and, where the write waits for the bus, of
\* messages on the bus - from the first on, each once and in order, with at
\* most the one that failed beside them, whatever the cable does later.
THEOREM WritesAreCounted == Spec => []CountIsHonest
<1>1. ASSUME IInv PROVE CountIsHonest
  <2>1. TypeInv /\ HandedInv /\ BusInv BY <1>1 DEF IInv
  <2> SUFFICES ASSUME NEW c \in DOMAIN results, results[c].kind = "write"
               PROVE  /\ \E n \in {results[c].done, results[c].done + 1} : FirstOf(c, n, handed)
                      /\ Waits(results[c]) =>
                            \E n \in {results[c].done, results[c].done + 1} : FirstOf(c, n, bus)
                      /\ results[c].status = "ok" => results[c].done = Len(results[c].items)
    BY DEF CountIsHonest
  <2>2. Waits(results[c]) => Settled(c, results[c].done, inbox, bus) BY <2>1 DEF BusInv
  <2>3. Settled(c, results[c].done, inbox, bus) =>
           \E n \in {results[c].done, results[c].done + 1} : FirstOf(c, n, bus)
    BY DEF Settled
  <2> QED BY <2>1, <2>2, <2>3 DEF HandedInv
<1> QED BY <1>1, Invariance, PTL

\* The Timeout of PassThruWriteMsgs: it is exceeded by no more than what the
\* last command begun may take on top, and no command is given more than it.
THEOREM TimeoutIsKept == Spec => []TimeoutKept
<1>1. ASSUME IInv PROVE TimeoutKept
  <2>1. TimeInv BY <1>1 DEF IInv
  <2>2. TypeInv BY <1>1 DEF IInv
  <2>3. ASSUME call.kind = "write", Waits(call), ask # NoAsk PROVE ask.given <= call.timeout
    <3>1. ask.given \in 1 .. call.timeout BY <2>1, <2>3 DEF TimeInv
    <3> QED BY <2>2, <3>1 DEF TypeInv, Outcomes
  <2> QED BY <2>1, <2>3 DEF TimeoutKept, TimeInv, Spent
<1> QED BY <1>1, Invariance, PTL

\* SET_CONFIG, GET_CONFIG and the message filters: once the call has returned
\* the cable is set to what was listed last, what it handed out is what the
\* cable has, and a cleared filter list is empty.
THEOREM CableIsAsTold == Spec => []CableAsTold
<1>1. ASSUME IInv, pc = "idle" PROVE SetAppliesAll
  <2>1. TypeInv /\ SetInv /\ PhaseInv BY <1>1 DEF IInv
  <2> SUFFICES ASSUME call.kind = "set", whole, inbox = <<>>, NEW p \in Parameters,
                      {j \in DOMAIN call.items : call.items[j].parameter = p} # {}
               PROVE  config[p] = call.items[Max({j \in DOMAIN call.items :
                                                    call.items[j].parameter = p})].value
    BY DEF SetAppliesAll
  <2>2. PICK listed : listed = {j \in DOMAIN call.items : call.items[j].parameter = p} OBVIOUS
  <2>3. /\ DOMAIN call.items = 1 .. Len(call.items) /\ Len(call.items) \in Nat
        /\ call.done = Len(call.items)
    BY <1>1, <2>1, ListLength DEF TypeInv, Outcomes, PhaseInv, CallInv
  <2>4. listed \in SUBSET Nat /\ listed # {} /\ \A j \in listed : j <= Len(call.items)
    BY <2>2, <2>3
  <2>5. Max(listed) \in listed /\ \A j \in listed : Max(listed) >= j BY <2>3, <2>4, MaximumOf
  <2>6. Reached = Len(call.items) BY <1>1, <2>3 DEF Reached
  <2>7. LastSet(Max(listed), p, call.items, Reached) /\ Max(listed) \in Nat
    <3>1. Max(listed) \in 1 .. Len(call.items) /\ call.items[Max(listed)].parameter = p
      BY <2>2, <2>3, <2>5
    <3>2. ASSUME NEW k \in Max(listed) + 1 .. Len(call.items) PROVE call.items[k].parameter # p
      <4>1. k \in DOMAIN call.items /\ ~(Max(listed) >= k) BY <2>3, <3>1
      <4> QED BY <2>2, <2>5, <4>1
    <3> QED BY <2>6, <3>1, <3>2 DEF LastSet
  <2>8. WillBe(p, call.items[Max(listed)].value, inbox, config) BY <2>1, <2>7 DEF SetInv
  <2> QED BY <2>2, <2>8 DEF WillBe
<1>2. ASSUME IInv, pc = "idle" PROVE AnswersAreTrue
  <2>1. ToldInv /\ CallInv BY <1>2 DEF IInv, PhaseInv
  <2>2. \A h \in ToSet(call.handedOut) : \E i \in DOMAIN call.handedOut : h = call.handedOut[i]
    BY DEF ToSet
  <2>3. ASSUME call.kind = "get", NEW h \in ToSet(call.handedOut)
        PROVE  h.value = config[call.items[h.item].parameter]
    BY <2>1, <2>2, <2>3 DEF ToldInv
  <2>4. ASSUME call.kind = "filter", NEW h \in ToSet(call.handedOut) PROVE h.value \in filters
    BY <2>1, <2>2, <2>4 DEF ToldInv
  <2>5. ASSUME call.kind = "clear", call.status = "ok" PROVE filters = {}
    <3>1. call.done > 0
      <4>1. call.items # <<>> /\ call.done = Len(call.items) /\ call.items \in Lists
            /\ Len(call.items) \in Nat
        BY <1>2, <2>1, <2>5, ListLength DEF CallInv, IInv, TypeInv, Outcomes
      <4>2. call.items = <<>> \/ \E r \in Requests : call.items = r.items BY <4>1 DEF Lists
      <4> QED BY <4>1, <4>2
    <3> QED BY <2>1, <2>5, <3>1 DEF ToldInv
  <2> QED BY <2>3, <2>4, <2>5 DEF AnswersAreTrue
<1> QED BY <1>1, <1>2, Invariance, PTL DEF CableAsTold
=============================================================================
