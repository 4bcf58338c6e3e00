-------------------------- MODULE UsbReceiveProofs --------------------------
(***************************************************************************)
(* Proofs about UsbReceive: for any number of posted reads, any sizes and  *)
(* any failures, the bytes stay in order and complete but for what was     *)
(* dropped, no read is lost to the driver, and none is freed under libusb. *)
(***************************************************************************)
EXTENDS UsbReceive, SequenceTheorems, FiniteSetTheorems, TLAPS

Completion == [slot : Slots, status : Statuses, data : Seq(Stream)]

DataOf(d) == UNION {ToSet(d[n].data) : n \in DOMAIN d}
SlotsOf(d) == {d[n].slot : n \in DOMAIN d}

OneToOne(s) == \A i, j \in DOMAIN s : s[i] = s[j] => i = j

(***************************************************************************)
(* The inductive invariant.                                                *)
(***************************************************************************)
\* A read is in one place at libusb, and flying says which are there.
SlotInv ==
    /\ OneToOne(pipe)
    /\ \A i, j \in DOMAIN done : done[i].slot = done[j].slot => i = j
    /\ ToSet(pipe) \cap SlotsOf(done) = {}
    /\ Held = flying

\* Nothing is posted before the start, cancelled before the stop, freed before
\* the end; what was freed had landed.
PhaseInv ==
    /\ phase = "opening" => pipe = <<>> /\ done = <<>>
    /\ phase \in {"opening", "running", "failed"} =>
          /\ cancelled = {}
          /\ \A n \in DOMAIN done : done[n].status # "cancelled"
    /\ phase # "closed" => freed = {}
    /\ freed \cap flying = {}

RunInv == phase = "running" /\ rxError = "ok" => flying = Slots

\* The bytes on their way are in order.
OrderInv ==
    /\ Ascending(delivered) /\ Ascending(ring) /\ Precedes(delivered, ring)
    /\ \A n \in DOMAIN done :
          /\ Ascending(done[n].data)
          /\ Precedes(delivered, done[n].data) /\ Precedes(ring, done[n].data)
          /\ \A m \in 1 .. n - 1 : Precedes(done[m].data, done[n].data)

\* None is missing, and only a completed read carries any.
WholeInv ==
    /\ Kept \cap dropped = {} /\ Kept \cup dropped = 1 .. sent
    /\ \A n \in DOMAIN done : done[n].status # "completed" => done[n].data = <<>>

IInv == TypeOK /\ SlotInv /\ PhaseInv /\ RunInv /\ OrderInv /\ WholeInv

(***************************************************************************)
(* Lemmas: what the sequences of bytes, of slots and of completions become.*)
(***************************************************************************)
LEMMA AppendSet ==
    ASSUME NEW S, NEW s \in Seq(S), NEW e \in S
    PROVE  ToSet(Append(s, e)) = ToSet(s) \cup {e}
<1>1. PICK t \in Seq(S) : t = Append(s, e) BY AppendProperties
<1>2. /\ Len(t) = Len(s) + 1 /\ t[Len(s) + 1] = e
      /\ \A i \in 1 .. Len(s) : t[i] = s[i]
  BY <1>1, AppendProperties
<1>3. DOMAIN t = 1 .. Len(s) + 1 /\ DOMAIN s = 1 .. Len(s) /\ Len(s) \in Nat
  BY <1>2, LenProperties
<1>4. ToSet(t) \subseteq ToSet(s) \cup {e}
  <2>1. \A i \in 1 .. Len(s) + 1 : i \in 1 .. Len(s) \/ i = Len(s) + 1 BY <1>3
  <2> QED BY <1>2, <1>3, <2>1 DEF ToSet
<1>5. ToSet(s) \cup {e} \subseteq ToSet(t)
  <2>1. Len(s) + 1 \in DOMAIN t /\ \A i \in DOMAIN s : i \in DOMAIN t BY <1>3
  <2> QED BY <1>2, <1>3, <2>1 DEF ToSet
<1> QED BY <1>1, <1>4, <1>5

LEMMA ConcatSet ==
    ASSUME NEW S, NEW s \in Seq(S), NEW t \in Seq(S)
    PROVE  ToSet(s \o t) = ToSet(s) \cup ToSet(t)
<1>1. /\ s \o t \in Seq(S) /\ Len(s \o t) = Len(s) + Len(t)
      /\ \A i \in 1 .. Len(s) + Len(t) :
            (s \o t)[i] = IF i <= Len(s) THEN s[i] ELSE t[i - Len(s)]
  BY ConcatProperties
<1>2. DOMAIN (s \o t) = 1 .. Len(s) + Len(t) /\ DOMAIN s = 1 .. Len(s) /\ DOMAIN t = 1 .. Len(t)
      /\ Len(s) \in Nat /\ Len(t) \in Nat
  BY <1>1, LenProperties
<1>3. \A i \in 1 .. Len(t) : Len(s) + i \in 1 .. Len(s) + Len(t) /\ (s \o t)[Len(s) + i] = t[i]
  BY <1>1, <1>2
<1>4. ToSet(s) \cup ToSet(t) \subseteq ToSet(s \o t)
  <2>1. \A i \in 1 .. Len(s) : i \in 1 .. Len(s) + Len(t) /\ (s \o t)[i] = s[i]
    BY <1>1, <1>2
  <2> QED BY <2>1, <1>2, <1>3 DEF ToSet
<1>5. ToSet(s \o t) \subseteq ToSet(s) \cup ToSet(t)
  <2> SUFFICES ASSUME NEW i \in 1 .. Len(s) + Len(t)
               PROVE  (s \o t)[i] \in ToSet(s) \cup ToSet(t)
    BY <1>2 DEF ToSet
  <2>1. CASE i <= Len(s)
    <3>1. i \in 1 .. Len(s) /\ (s \o t)[i] = s[i] BY <2>1, <1>1, <1>2
    <3> QED BY <3>1, <1>2 DEF ToSet
  <2>2. CASE i > Len(s)
    <3>1. i - Len(s) \in 1 .. Len(t) /\ (s \o t)[i] = t[i - Len(s)] BY <2>2, <1>1, <1>2
    <3> QED BY <3>1, <1>2 DEF ToSet
  <2> QED BY <2>1, <2>2, <1>2
<1> QED BY <1>4, <1>5

\* Later bytes put behind earlier ones leave the sequence in order.
LEMMA AscendingConcat ==
    ASSUME NEW s \in Seq(Stream), NEW t \in Seq(Stream), Ascending(s), Ascending(t), Precedes(s, t)
    PROVE  Ascending(s \o t)
<1>1. /\ s \o t \in Seq(Stream) /\ Len(s \o t) = Len(s) + Len(t)
      /\ \A i \in 1 .. Len(s) + Len(t) :
            (s \o t)[i] = IF i <= Len(s) THEN s[i] ELSE t[i - Len(s)]
  BY ConcatProperties
<1>2. DOMAIN (s \o t) = 1 .. Len(s) + Len(t) /\ DOMAIN s = 1 .. Len(s) /\ DOMAIN t = 1 .. Len(t)
      /\ Len(s) \in Nat /\ Len(t) \in Nat
  BY <1>1, LenProperties
<1> SUFFICES ASSUME NEW m \in 1 .. Len(s) + Len(t), NEW n \in 1 .. Len(s) + Len(t), m < n
             PROVE  (s \o t)[m] < (s \o t)[n]
  BY <1>2 DEF Ascending
<1>3. CASE n <= Len(s)
  <2>1. m \in 1 .. Len(s) /\ n \in 1 .. Len(s) BY <1>3, <1>2
  <2> QED BY <2>1, <1>1, <1>2, <1>3 DEF Ascending
<1>4. CASE m <= Len(s) /\ n > Len(s)
  <2>1. m \in 1 .. Len(s) /\ n - Len(s) \in 1 .. Len(t) BY <1>4, <1>2
  <2>2. (s \o t)[m] = s[m] /\ (s \o t)[n] = t[n - Len(s)] BY <1>1, <1>2, <1>4
  <2> QED BY <2>1, <2>2, <1>2 DEF Precedes
<1>5. CASE m > Len(s)
  <2>1. m - Len(s) \in 1 .. Len(t) /\ n - Len(s) \in 1 .. Len(t) /\ m - Len(s) < n - Len(s)
    BY <1>5, <1>2
  <2>2. (s \o t)[m] = t[m - Len(s)] /\ (s \o t)[n] = t[n - Len(s)] BY <1>1, <1>2, <1>5
  <2> QED BY <2>1, <2>2, <1>2 DEF Ascending
<1> QED BY <1>2, <1>3, <1>4, <1>5

\* Order between sequences is order between their sets of bytes.
LEMMA PrecedesSet ==
    ASSUME NEW s, NEW t
    PROVE  Precedes(s, t) <=> \A a \in ToSet(s), b \in ToSet(t) : a < b
BY DEF Precedes, ToSet

LEMMA TailDone ==
    ASSUME NEW d \in Seq(Completion), d # <<>>
    PROVE  /\ Head(d) \in Completion /\ Tail(d) \in Seq(Completion)
           /\ DOMAIN d = 1 .. Len(d) /\ Len(d) \in Nat \ {0} /\ Head(d) = d[1]
           /\ DOMAIN Tail(d) = 1 .. Len(d) - 1
           /\ \A i \in DOMAIN Tail(d) : i + 1 \in DOMAIN d /\ Tail(d)[i] = d[i + 1]
           /\ DataOf(d) = ToSet(Head(d).data) \cup DataOf(Tail(d))
           /\ SlotsOf(d) = {Head(d).slot} \cup SlotsOf(Tail(d))
<1>1. /\ Head(d) \in Completion /\ Tail(d) \in Seq(Completion)
      /\ Len(Tail(d)) = Len(d) - 1 /\ \A i \in 1 .. Len(Tail(d)) : Tail(d)[i] = d[i + 1]
  BY HeadTailProperties
<1>2. DOMAIN d = 1 .. Len(d) /\ Len(d) \in Nat \ {0} BY LenProperties, EmptySeq
<1>3. Head(d) = d[1] BY DEF Head
<1>4. DOMAIN Tail(d) = 1 .. Len(d) - 1 BY <1>1, LenProperties
<1>5. \A i \in DOMAIN Tail(d) : i + 1 \in DOMAIN d /\ Tail(d)[i] = d[i + 1]
  BY <1>1, <1>2, <1>4
<1>6. \A i \in DOMAIN d : i = 1 \/ (i - 1 \in DOMAIN Tail(d) /\ d[i] = Tail(d)[i - 1])
  <2> TAKE i \in DOMAIN d
  <2>1. i = 1 \/ i - 1 \in 1 .. Len(d) - 1 BY <1>2
  <2>2. i \in Int /\ (i - 1) + 1 = i BY <1>2
  <2> QED BY <2>1, <2>2, <1>4, <1>5
<1>7. 1 \in DOMAIN d BY <1>2
<1>8. DataOf(d) = ToSet(Head(d).data) \cup DataOf(Tail(d))
  <2>1. DataOf(d) \subseteq ToSet(Head(d).data) \cup DataOf(Tail(d))
    BY <1>3, <1>6 DEF DataOf
  <2>2. ToSet(Head(d).data) \cup DataOf(Tail(d)) \subseteq DataOf(d)
    BY <1>3, <1>5, <1>7 DEF DataOf
  <2> QED BY <2>1, <2>2
<1>9. SlotsOf(d) = {Head(d).slot} \cup SlotsOf(Tail(d))
  <2>1. SlotsOf(d) \subseteq {Head(d).slot} \cup SlotsOf(Tail(d))
    BY <1>3, <1>6 DEF SlotsOf
  <2>2. {Head(d).slot} \cup SlotsOf(Tail(d)) \subseteq SlotsOf(d)
    BY <1>3, <1>5, <1>7 DEF SlotsOf
  <2> QED BY <2>1, <2>2
<1> QED BY <1>1, <1>2, <1>3, <1>4, <1>5, <1>8, <1>9

LEMMA AppendDone ==
    ASSUME NEW d \in Seq(Completion), NEW r \in Completion
    PROVE  /\ Append(d, r) \in Seq(Completion)
           /\ Len(d) \in Nat /\ DOMAIN d = 1 .. Len(d)
           /\ DOMAIN Append(d, r) = 1 .. Len(d) + 1
           /\ \A i \in DOMAIN d : Append(d, r)[i] = d[i]
           /\ Append(d, r)[Len(d) + 1] = r
           /\ DataOf(Append(d, r)) = DataOf(d) \cup ToSet(r.data)
           /\ SlotsOf(Append(d, r)) = SlotsOf(d) \cup {r.slot}
<1>1. /\ Append(d, r) \in Seq(Completion) /\ Len(Append(d, r)) = Len(d) + 1
      /\ \A i \in 1 .. Len(d) : Append(d, r)[i] = d[i]
      /\ Append(d, r)[Len(d) + 1] = r
  BY AppendProperties
<1>2. Len(d) \in Nat /\ DOMAIN d = 1 .. Len(d) /\ DOMAIN Append(d, r) = 1 .. Len(d) + 1
  BY <1>1, LenProperties
<1>3. DOMAIN Append(d, r) = DOMAIN d \cup {Len(d) + 1} BY <1>2
<1>4. DataOf(Append(d, r)) = DataOf(d) \cup ToSet(r.data)
  <2>1. DataOf(Append(d, r)) \subseteq DataOf(d) \cup ToSet(r.data)
    BY <1>1, <1>2, <1>3 DEF DataOf
  <2>2. DataOf(d) \cup ToSet(r.data) \subseteq DataOf(Append(d, r))
    BY <1>1, <1>2, <1>3 DEF DataOf
  <2> QED BY <2>1, <2>2
<1>5. SlotsOf(Append(d, r)) = SlotsOf(d) \cup {r.slot}
  BY <1>1, <1>2, <1>3 DEF SlotsOf
<1> QED BY <1>1, <1>2, <1>4, <1>5

\* The oldest read of the pipe leaves it.
LEMMA TailPipe ==
    ASSUME NEW S, NEW s \in Seq(S), s # <<>>, OneToOne(s)
    PROVE  /\ Head(s) \in S /\ Tail(s) \in Seq(S) /\ OneToOne(Tail(s))
           /\ Head(s) \in ToSet(s) /\ ToSet(Tail(s)) = ToSet(s) \ {Head(s)}
<1>1. /\ Head(s) \in S /\ Tail(s) \in Seq(S) /\ Len(Tail(s)) = Len(s) - 1
      /\ \A i \in 1 .. Len(Tail(s)) : Tail(s)[i] = s[i + 1]
  BY HeadTailProperties
<1>2. /\ DOMAIN s = 1 .. Len(s) /\ Len(s) \in Nat \ {0}
      /\ DOMAIN Tail(s) = 1 .. Len(s) - 1 /\ 1 \in DOMAIN s /\ Head(s) = s[1]
  BY <1>1, LenProperties, EmptySeq
<1>3. \A i \in DOMAIN Tail(s) : i + 1 \in DOMAIN s /\ i + 1 # 1 /\ Tail(s)[i] = s[i + 1]
  BY <1>1, <1>2
<1>4. OneToOne(Tail(s))
  <2> SUFFICES ASSUME NEW i \in DOMAIN Tail(s), NEW j \in DOMAIN Tail(s), Tail(s)[i] = Tail(s)[j]
               PROVE  i = j
    BY DEF OneToOne
  <2>1. i + 1 = j + 1 BY <1>3 DEF OneToOne
  <2> QED BY <2>1, <1>2
<1>5. \A i \in DOMAIN s : i # 1 => i - 1 \in DOMAIN Tail(s) /\ s[i] = Tail(s)[i - 1]
  <2> SUFFICES ASSUME NEW i \in 1 .. Len(s), i # 1
               PROVE  i - 1 \in DOMAIN Tail(s) /\ s[i] = Tail(s)[i - 1]
    BY <1>2
  <2>1. i - 1 \in 1 .. Len(s) - 1 /\ (i - 1) + 1 = i BY <1>2
  <2> QED BY <2>1, <1>2, <1>3
<1>6. ToSet(Tail(s)) \subseteq ToSet(s) \ {Head(s)} BY <1>2, <1>3 DEF ToSet, OneToOne
<1>7. ToSet(s) \ {Head(s)} \subseteq ToSet(Tail(s)) BY <1>2, <1>5 DEF ToSet
<1> QED BY <1>1, <1>2, <1>4, <1>6, <1>7 DEF ToSet

\* A cancelled read leaves it from anywhere.
LEMMA CutPipe ==
    ASSUME NEW S, NEW s \in Seq(S), NEW i \in DOMAIN s, OneToOne(s)
    PROVE  /\ RemoveAt(s, i) \in Seq(S) /\ OneToOne(RemoveAt(s, i))
           /\ ToSet(RemoveAt(s, i)) = ToSet(s) \ {s[i]}
<1> DEFINE a == SubSeq(s, 1, i - 1)
           b == SubSeq(s, i + 1, Len(s))
           r == RemoveAt(s, i)
           place(k) == IF k < i THEN k ELSE k + 1
<1>1. DOMAIN s = 1 .. Len(s) /\ Len(s) \in Nat /\ i \in 1 .. Len(s)
      /\ \A k \in 1 .. Len(s) : s[k] \in S
  BY LenProperties, ElementOfSeq
<1>2. /\ a \in Seq(S) /\ Len(a) = i - 1
      /\ \A k \in 1 .. i - 1 : a[k] = s[k]
  <2>1. /\ a \in Seq(S) /\ Len(a) = IF 1 <= i - 1 THEN i - 1 - 1 + 1 ELSE 0
        /\ \A k \in 1 .. i - 1 - 1 + 1 : a[k] = s[1 + k - 1]
    BY SubSeqProperties, <1>1
  <2> HIDE DEF a
  <2>2. \A k \in 1 .. i - 1 : k \in 1 .. i - 1 - 1 + 1 /\ 1 + k - 1 = k BY <1>1
  <2> QED BY <1>1, <2>1, <2>2
<1>3. /\ b \in Seq(S) /\ Len(b) = Len(s) - i
      /\ \A k \in 1 .. Len(s) - i : b[k] = s[i + k]
  <2>1. /\ b \in Seq(S) /\ Len(b) = IF i + 1 <= Len(s) THEN Len(s) - (i + 1) + 1 ELSE 0
        /\ \A k \in 1 .. Len(s) - (i + 1) + 1 : b[k] = s[(i + 1) + k - 1]
    BY SubSeqProperties, <1>1
  <2> HIDE DEF b
  <2>2. \A k \in 1 .. Len(s) - i : k \in 1 .. Len(s) - (i + 1) + 1 /\ (i + 1) + k - 1 = i + k
    BY <1>1
  <2> QED BY <1>1, <2>1, <2>2
<1>4. r = a \o b BY DEF RemoveAt
<1> HIDE DEF a, b, r
<1>5. /\ r \in Seq(S) /\ Len(r) = Len(s) - 1
      /\ \A k \in 1 .. Len(s) - 1 : r[k] = IF k <= i - 1 THEN a[k] ELSE b[k - (i - 1)]
  <2>1. /\ r \in Seq(S) /\ Len(r) = Len(a) + Len(b)
        /\ \A k \in 1 .. Len(a) + Len(b) : r[k] = IF k <= Len(a) THEN a[k] ELSE b[k - Len(a)]
    BY <1>2, <1>3, <1>4, ConcatProperties
  <2>2. Len(a) + Len(b) = Len(s) - 1 BY <1>1, <1>2, <1>3
  <2> QED BY <1>2, <2>1, <2>2
<1>6. DOMAIN r = 1 .. Len(s) - 1 BY <1>5, LenProperties
<1>7. \A k \in 1 .. Len(s) - 1 : place(k) \in 1 .. Len(s) /\ place(k) # i /\ r[k] = s[place(k)]
  <2> TAKE k \in 1 .. Len(s) - 1
  <2>1. CASE k < i
    <3>1. k \in 1 .. i - 1 /\ k <= i - 1 /\ k \in 1 .. Len(s) /\ k # i BY <2>1, <1>1
    <3>2. place(k) = k BY <2>1
    <3>3. r[k] = a[k] BY <3>1, <1>5
    <3>4. a[k] = s[k] BY <3>1, <1>2
    <3> QED BY <3>1, <3>2, <3>3, <3>4
  <2>2. CASE k >= i
    <3>1. k - (i - 1) \in 1 .. Len(s) - i /\ i + (k - (i - 1)) = k + 1 /\ ~(k <= i - 1)
          /\ k + 1 \in 1 .. Len(s) /\ k + 1 # i
      BY <2>2, <1>1
    <3>2. r[k] = b[k - (i - 1)] BY <3>1, <1>5
    <3>3. b[k - (i - 1)] = s[k + 1] BY <3>1, <1>3
    <3>4. place(k) = k + 1 BY <2>2, <1>1
    <3> QED BY <3>1, <3>2, <3>3, <3>4
  <2> QED BY <2>1, <2>2, <1>1
<1>8. OneToOne(r)
  <2> SUFFICES ASSUME NEW j \in 1 .. Len(s) - 1, NEW k \in 1 .. Len(s) - 1, r[j] = r[k]
               PROVE  j = k
    BY <1>6 DEF OneToOne
  <2>1. place(j) = place(k) BY <1>1, <1>7 DEF OneToOne
  <2> QED BY <2>1, <1>1
<1>9. ToSet(r) \subseteq ToSet(s) \ {s[i]} BY <1>1, <1>6, <1>7 DEF ToSet, OneToOne
<1>10. ToSet(s) \ {s[i]} \subseteq ToSet(r)
  <2> SUFFICES ASSUME NEW k \in 1 .. Len(s), k # i
               PROVE  s[k] \in ToSet(r)
    BY <1>1 DEF ToSet
  <2>1. CASE k < i
    <3>1. k \in 1 .. Len(s) - 1 /\ place(k) = k BY <2>1, <1>1
    <3> QED BY <3>1, <1>6, <1>7 DEF ToSet
  <2>2. CASE k > i
    <3>1. k - 1 \in 1 .. Len(s) - 1 /\ place(k - 1) = k BY <2>2, <1>1
    <3> QED BY <3>1, <1>6, <1>7 DEF ToSet
  <2> QED BY <2>1, <2>2, <1>1
<1> QED BY <1>5, <1>8, <1>9, <1>10 DEF r

LEMMA AscendingIsOneToOne ==
    ASSUME NEW s, Ascending(s), DOMAIN s \subseteq Int, \A i \in DOMAIN s : s[i] \in Int
    PROVE  OneToOne(s)
BY DEF Ascending, OneToOne

Posted(slots, n) == SubSeq(slots, 1, n)

\* Posting slots that were free keeps every read in one place.
LEMMA PostSlots ==
    ASSUME TypeOK, SlotInv,
           NEW slots \in Seq(Slots), Ascending(slots), ToSet(slots) \cap flying = {},
           NEW n \in 0 .. Len(slots), PostAll(slots, n)
    PROVE  /\ pipe' \in Seq(Slots) /\ ToSet(pipe') = ToSet(pipe) \cup ToSet(Posted(slots, n))
           /\ OneToOne(pipe')
           /\ ToSet(Posted(slots, n)) \subseteq ToSet(slots)
           /\ rxError' \in {"ok", "io", "no_device"} /\ errors' \in 0 .. MaxErrors
           /\ rxError' = "ok" => Posted(slots, n) = slots
<1> DEFINE p == Posted(slots, n)
<1>1. /\ Len(slots) \in Nat /\ DOMAIN slots = 1 .. Len(slots) /\ Len(pipe) \in Nat
      /\ DOMAIN pipe = 1 .. Len(pipe) /\ pipe \in Seq(Slots)
      /\ \A i \in 1 .. Len(slots) : slots[i] \in Slots
  BY LenProperties, ElementOfSeq DEF TypeOK
<1>2. /\ p \in Seq(Slots) /\ Len(p) = n /\ DOMAIN p = 1 .. n
      /\ \A i \in 1 .. n : p[i] = slots[i] /\ i \in 1 .. Len(slots)
  <2>1. /\ p \in Seq(Slots) /\ Len(p) = IF 1 <= n THEN n - 1 + 1 ELSE 0
        /\ \A i \in 1 .. n - 1 + 1 : p[i] = slots[1 + i - 1]
    BY SubSeqProperties, <1>1 DEF Posted
  <2>2. Len(p) = n BY <2>1
  <2>3. DOMAIN p = 1 .. n BY <2>1, <2>2, LenProperties
  <2>4. \A i \in 1 .. n : i \in 1 .. n - 1 + 1 /\ 1 + i - 1 = i /\ i \in 1 .. Len(slots)
    BY <1>1
  <2> QED BY <2>1, <2>2, <2>3, <2>4
<1>3. pipe' = pipe \o p BY DEF PostAll, Posted
<1> HIDE DEF p
<1>4. /\ pipe' \in Seq(Slots) /\ Len(pipe') = Len(pipe) + n
      /\ \A i \in 1 .. Len(pipe) + n : pipe'[i] = IF i <= Len(pipe) THEN pipe[i] ELSE p[i - Len(pipe)]
  <2>1. /\ pipe \o p \in Seq(Slots) /\ Len(pipe \o p) = Len(pipe) + Len(p)
        /\ \A i \in 1 .. Len(pipe) + Len(p) :
              (pipe \o p)[i] = IF i <= Len(pipe) THEN pipe[i] ELSE p[i - Len(pipe)]
    BY <1>1, <1>2, ConcatProperties
  <2> QED BY <1>2, <1>3, <2>1
<1>5. DOMAIN pipe' = 1 .. Len(pipe) + n BY <1>4, LenProperties
<1>6. ToSet(pipe') = ToSet(pipe) \cup ToSet(p) BY <1>1, <1>2, <1>3, ConcatSet
<1>7. ToSet(p) \subseteq ToSet(slots) BY <1>1, <1>2 DEF ToSet
<1>8. ToSet(pipe) \cap ToSet(p) = {} BY <1>7 DEF SlotInv, Held
<1>9. OneToOne(p)
  <2>1. Slots \subseteq Int BY UsbAssumption DEF Slots
  <2>2. DOMAIN slots \subseteq Int BY <1>1
  <2>3. \A i \in DOMAIN slots : slots[i] \in Int BY <1>1, <2>1
  <2>4. OneToOne(slots) BY <2>2, <2>3, AscendingIsOneToOne
  <2> QED BY <1>1, <1>2, <2>4 DEF OneToOne
<1>10. OneToOne(pipe')
  <2> SUFFICES ASSUME NEW i \in 1 .. Len(pipe) + n, NEW j \in 1 .. Len(pipe) + n,
                      pipe'[i] = pipe'[j]
               PROVE  i = j
    BY <1>5 DEF OneToOne
  <2>1. \A k \in 1 .. Len(pipe) + n :
           \/ k <= Len(pipe) /\ k \in DOMAIN pipe /\ pipe'[k] = pipe[k]
           \/ k > Len(pipe) /\ k - Len(pipe) \in DOMAIN p /\ pipe'[k] = p[k - Len(pipe)]
    BY <1>1, <1>2, <1>4
  <2>2. \A k \in DOMAIN pipe, l \in DOMAIN p : pipe[k] # p[l] BY <1>8 DEF ToSet
  <2>3. CASE i <= Len(pipe) /\ j <= Len(pipe) BY <2>1, <2>3, <1>1 DEF SlotInv, OneToOne
  <2>4. CASE i > Len(pipe) /\ j > Len(pipe)
    <3>1. i - Len(pipe) = j - Len(pipe) BY <2>1, <2>4, <1>9, <1>1 DEF OneToOne
    <3> QED BY <3>1, <1>1
  <2>5. CASE i <= Len(pipe) /\ j > Len(pipe) BY <2>1, <2>2, <2>5, <1>1
  <2>6. CASE i > Len(pipe) /\ j <= Len(pipe) BY <2>1, <2>2, <2>6, <1>1
  <2> QED BY <2>3, <2>4, <2>5, <2>6, <1>1
<1>11. rxError' \in {"ok", "io", "no_device"} /\ errors' \in 0 .. MaxErrors
  BY UsbAssumption DEF PostAll, TypeOK
<1>12. rxError' = "ok" => p = slots
  <2>1. rxError' = "ok" => n = Len(slots) BY DEF PostAll
  <2> QED BY <2>1, SubSeqFull DEF p, Posted
<1> QED BY <1>4, <1>6, <1>7, <1>10, <1>11, <1>12 DEF p

(***************************************************************************)
(* What each kind of step does to the bytes.                               *)
(***************************************************************************)
Bytes == <<delivered, ring, dropped, done, sent>>

LEMMA BytesSame ==
    ASSUME OrderInv, WholeInv, UNCHANGED Bytes
    PROVE  OrderInv' /\ WholeInv'
BY DEF OrderInv, WholeInv, Bytes, Kept, Ascending, Precedes, ToSet

LEMMA KeptIs ==
    /\ Kept = ToSet(delivered) \cup ToSet(ring) \cup DataOf(done)
    /\ Held = ToSet(pipe) \cup SlotsOf(done)
BY DEF Kept, DataOf, Held, SlotsOf

LEMMA TypedBytes ==
    ASSUME TypeOK
    PROVE  /\ Stream \subseteq Int /\ done \in Seq(Completion)
           /\ DOMAIN done = 1 .. Len(done) /\ Len(done) \in Nat
           /\ \A n \in DOMAIN done : done[n] \in Completion
           /\ ToSet(delivered) \subseteq Stream /\ ToSet(ring) \subseteq Stream
           /\ DataOf(done) \subseteq Stream
<1>1. Stream \subseteq Int BY UsbAssumption DEF Stream
<1>2. done \in Seq(Completion) BY DEF TypeOK, Completion
<1>3. DOMAIN done = 1 .. Len(done) /\ Len(done) \in Nat BY <1>2, LenProperties
<1>4. \A n \in DOMAIN done : done[n] \in Completion BY <1>2, <1>3, ElementOfSeq
<1>5. \A s \in Seq(Stream) : ToSet(s) \subseteq Stream
  <2> TAKE s \in Seq(Stream)
  <2>1. DOMAIN s = 1 .. Len(s) BY LenProperties
  <2> QED BY <2>1, ElementOfSeq DEF ToSet
<1>6. ToSet(delivered) \subseteq Stream /\ ToSet(ring) \subseteq Stream BY <1>5 DEF TypeOK
<1>7. \A n \in DOMAIN done : done[n].data \in Seq(Stream) BY <1>4 DEF Completion
<1>8. DataOf(done) \subseteq Stream BY <1>5, <1>7 DEF DataOf
<1> QED BY <1>1, <1>2, <1>3, <1>4, <1>6, <1>8

\* A callback puts the read's bytes behind the ring, or drops them.
LEMMA PopBytes ==
    ASSUME TypeOK, OrderInv, WholeInv, done # <<>>,
           done' = Tail(done), sent' = sent, delivered' = delivered,
           \/ ring' = ring \o Head(done).data /\ dropped' = dropped
           \/ ring' = ring /\ dropped' = dropped \cup ToSet(Head(done).data)
    PROVE  OrderInv' /\ WholeInv'
<1> DEFINE h == Head(done).data
           d == Tail(done)
<1>1. /\ Head(done) \in Completion /\ 1 \in DOMAIN done /\ Head(done) = done[1]
      /\ DOMAIN d = 1 .. Len(done) - 1 /\ Len(done) \in Nat \ {0}
      /\ \A i \in DOMAIN d : i + 1 \in DOMAIN done /\ i + 1 # 1 /\ d[i] = done[i + 1]
      /\ DataOf(done) = ToSet(h) \cup DataOf(d)
  BY TailDone, TypedBytes
<1>2. /\ h \in Seq(Stream) /\ Ascending(h) /\ Precedes(delivered, h) /\ Precedes(ring, h)
  BY <1>1 DEF Completion, OrderInv
<1>3. \A i \in DOMAIN d : 1 \in 1 .. (i + 1) - 1 /\ Precedes(h, d[i].data)
  <2> TAKE i \in DOMAIN d
  <2>1. i + 1 \in DOMAIN done /\ 1 \in 1 .. (i + 1) - 1 BY <1>1
  <2>2. Precedes(done[1].data, done[i + 1].data) BY <2>1 DEF OrderInv
  <2> QED BY <1>1, <2>1, <2>2
<1>4. \A i \in DOMAIN d :
         /\ Ascending(d[i].data) /\ Precedes(delivered, d[i].data) /\ Precedes(ring, d[i].data)
         /\ \A j \in 1 .. i - 1 : Precedes(d[j].data, d[i].data)
         /\ d[i].status # "completed" => d[i].data = <<>>
  <2> TAKE i \in DOMAIN d
  <2>1. i + 1 \in DOMAIN done /\ d[i] = done[i + 1] BY <1>1
  <2>2. \A j \in 1 .. i - 1 : j \in DOMAIN d /\ j + 1 \in 1 .. (i + 1) - 1 BY <1>1
  <2>3. \A j \in 1 .. i - 1 : Precedes(done[j + 1].data, done[i + 1].data) BY <2>1, <2>2 DEF OrderInv
  <2>4. \A j \in 1 .. i - 1 : d[j] = done[j + 1] BY <1>1, <2>2
  <2> QED BY <2>1, <2>3, <2>4 DEF OrderInv, WholeInv
<1>5. ring \in Seq(Stream) /\ delivered \in Seq(Stream) BY DEF TypeOK
<1>6. /\ Kept = ToSet(delivered) \cup ToSet(ring) \cup (ToSet(h) \cup DataOf(d))
      /\ Kept' = ToSet(delivered) \cup ToSet(ring') \cup DataOf(d)
  <2>1. Kept' = ToSet(delivered)' \cup ToSet(ring)' \cup DataOf(done)' BY DEF Kept, DataOf
  <2>2. Kept' = ToSet(delivered) \cup ToSet(ring') \cup DataOf(d) BY <2>1 DEF ToSet, DataOf
  <2> QED BY <1>1, <2>2, KeptIs
<1>9. done' = d OBVIOUS
<1> HIDE DEF d
<1>7. ASSUME ring' = ring \o h, dropped' = dropped
      PROVE  OrderInv' /\ WholeInv'
  <2>1. ToSet(ring') = ToSet(ring) \cup ToSet(h) BY <1>2, <1>5, <1>7, ConcatSet
  <2>2. Ascending(ring') BY <1>2, <1>5, <1>7, AscendingConcat DEF OrderInv
  <2>3. Precedes(delivered, ring') BY <1>2, <2>1, PrecedesSet DEF OrderInv
  <2>4. \A i \in DOMAIN d : Precedes(ring', d[i].data)
    BY <1>3, <1>4, <2>1, PrecedesSet
  <2>5. OrderInv' BY <1>4, <2>2, <2>3, <2>4, <1>9 DEF OrderInv
  <2>6. WholeInv' BY <1>4, <1>6, <1>7, <2>1, <1>9 DEF WholeInv
  <2> QED BY <2>5, <2>6
<1>8. ASSUME ring' = ring, dropped' = dropped \cup ToSet(h)
      PROVE  OrderInv' /\ WholeInv'
  <2>1. OrderInv' BY <1>4, <1>8, <1>9 DEF OrderInv
  <2>2. ToSet(h) \cap (ToSet(delivered) \cup ToSet(ring) \cup DataOf(d)) = {}
    <3>1. ToSet(h) \subseteq Int BY <1>1, TypedBytes
    <3>2. ToSet(h) \cap ToSet(delivered) = {} BY <1>2, <3>1, PrecedesSet
    <3>3. ToSet(h) \cap ToSet(ring) = {} BY <1>2, <3>1, PrecedesSet
    <3>4. \A i \in DOMAIN d : ToSet(h) \cap ToSet(d[i].data) = {} BY <1>3, <3>1, PrecedesSet
    <3> QED BY <3>2, <3>3, <3>4 DEF DataOf
  <2>3. WholeInv' BY <1>4, <1>6, <1>8, <2>2, <1>9 DEF WholeInv
  <2> QED BY <2>1, <2>3
<1> QED BY <1>7, <1>8

\* A read completes with the cable's next bytes, or with none.
LEMMA AddBytes ==
    ASSUME TypeOK, OrderInv, WholeInv,
           NEW r \in Completion, done' = Append(done, r), sent' \in sent .. MaxBytes,
           Ascending(r.data), ToSet(r.data) = sent + 1 .. sent',
           r.status # "completed" => r.data = <<>>,
           UNCHANGED <<delivered, ring, dropped>>
    PROVE  OrderInv' /\ WholeInv'
<1> DEFINE d == Append(done, r)
           k == Len(done) + 1
<1>1. /\ Len(done) \in Nat /\ DOMAIN done = 1 .. Len(done) /\ DOMAIN d = 1 .. k
      /\ \A i \in DOMAIN done : d[i] = done[i]
      /\ d[k] = r /\ DataOf(d) = DataOf(done) \cup ToSet(r.data)
  BY AppendDone, TypedBytes
<1>2. Kept' = Kept \cup ToSet(r.data)
  <2>1. Kept' = ToSet(delivered)' \cup ToSet(ring)' \cup DataOf(done)' BY DEF Kept, DataOf
  <2>2. Kept' = ToSet(delivered) \cup ToSet(ring) \cup DataOf(d) BY <2>1 DEF ToSet, DataOf
  <2> QED BY <1>1, <2>2, KeptIs
<1>9. done' = d OBVIOUS
<1> HIDE DEF d
<1>3. sent \in Nat /\ sent' \in Nat /\ sent <= sent' BY DEF TypeOK
<1>4. \A a \in Kept, b \in ToSet(r.data) : a < b
  BY <1>3 DEF WholeInv
<1>5. /\ Precedes(delivered, r.data) /\ Precedes(ring, r.data)
      /\ \A m \in DOMAIN done : Precedes(done[m].data, r.data)
  <2>1. ToSet(delivered) \subseteq Kept /\ ToSet(ring) \subseteq Kept
    BY DEF Kept
  <2>2. \A m \in DOMAIN done : ToSet(done[m].data) \subseteq Kept BY DEF Kept
  <2>3. Precedes(delivered, r.data) /\ Precedes(ring, r.data) BY <1>4, <2>1, PrecedesSet
  <2> QED BY <1>4, <2>2, <2>3, PrecedesSet
<1>6. \A n \in DOMAIN d :
         /\ Ascending(d[n].data)
         /\ Precedes(delivered, d[n].data) /\ Precedes(ring, d[n].data)
         /\ \A m \in 1 .. n - 1 : Precedes(d[m].data, d[n].data)
         /\ d[n].status # "completed" => d[n].data = <<>>
  <2> TAKE n \in DOMAIN d
  <2>1. \A m \in 1 .. n - 1 : m \in DOMAIN done /\ d[m] = done[m] BY <1>1
  <2>2. CASE n = k BY <1>1, <1>5, <2>1, <2>2
  <2>3. CASE n # k
    <3>1. n \in DOMAIN done /\ d[n] = done[n] BY <1>1, <2>3
    <3> QED BY <2>1, <3>1 DEF OrderInv, WholeInv
  <2> QED BY <2>2, <2>3
<1>7. OrderInv' BY <1>6, <1>9 DEF OrderInv
<1>8. WholeInv'
  <2>1. Kept' \cap dropped = {}
    <3>1. \A b \in ToSet(r.data) : b \notin 1 .. sent BY <1>3
    <3> QED BY <1>2, <3>1 DEF WholeInv
  <2>2. Kept' \cup dropped = 1 .. sent'
    <3>1. (1 .. sent) \cup (sent + 1 .. sent') = 1 .. sent' BY <1>3
    <3> QED BY <1>2, <3>1 DEF WholeInv
  <2> QED BY <1>6, <2>1, <2>2, <1>9 DEF WholeInv
<1> QED BY <1>7, <1>8

(***************************************************************************)
(* Every action keeps the invariant.                                       *)
(***************************************************************************)
LEMMA SlotsSame ==
    ASSUME SlotInv, PhaseInv, RunInv,
           UNCHANGED <<phase, flying, rxError, pipe, done, cancelled, freed>>
    PROVE  SlotInv' /\ PhaseInv' /\ RunInv'
<1>1. SlotInv' BY DEF SlotInv, Held, SlotsOf, ToSet, OneToOne
<1>2. PhaseInv' /\ RunInv' BY DEF PhaseInv, RunInv
<1> QED BY <1>1, <1>2

LEMMA InitIInv == Init => IInv
<1> SUFFICES ASSUME Init PROVE IInv OBVIOUS
<1>1. TypeOK BY UsbAssumption, EmptySeq DEF Init, TypeOK
<1>2. \A n \in DOMAIN <<>> : FALSE OBVIOUS
<1>3. SlotInv /\ PhaseInv /\ RunInv
  BY <1>2 DEF Init, SlotInv, PhaseInv, RunInv, OneToOne, Held, SlotsOf, ToSet
<1>4. OrderInv BY <1>2 DEF Init, OrderInv, Ascending, Precedes
<1>5. WholeInv BY <1>2 DEF Init, WholeInv, Kept, ToSet
<1> QED BY <1>1, <1>3, <1>4, <1>5 DEF IInv

LEMMA RxStartKeeps == IInv /\ RxStart => IInv'
<1> SUFFICES ASSUME IInv, RxStart PROVE IInv' OBVIOUS
<1> USE DEF IInv
<1> DEFINE slots == [k \in Slots |-> k]
<1>1. PICK n \in 0 .. Transfers : PostAll(slots, n) /\ flying' = 1 .. n BY DEF RxStart
<1>2. Slots = 1 .. Transfers /\ Transfers \in Nat /\ Slots \subseteq Int BY UsbAssumption DEF Slots
<1>3. slots \in Seq(Slots) /\ Len(slots) = Transfers
  <2>1. slots \in [1 .. Transfers -> Slots] BY <1>2
  <2> QED BY <1>2, <2>1
<1>4. Ascending(slots) /\ ToSet(slots) = Slots BY <1>2 DEF Ascending, ToSet
<1>5. pipe = <<>> /\ done = <<>> /\ flying = {} /\ cancelled = {} /\ freed = {}
  <2>1. pipe = <<>> /\ done = <<>> /\ cancelled = {} /\ freed = {} BY DEF RxStart, PhaseInv
  <2> QED BY <2>1 DEF SlotInv, Held, ToSet
<1>6. ToSet(Posted(slots, n)) = 1 .. n
  <2>1. \A i \in 1 .. n : slots[i] = i /\ i \in Slots BY <1>2
  <2>2. /\ Posted(slots, n) \in Seq(Slots)
        /\ Len(Posted(slots, n)) = IF 1 <= n THEN n - 1 + 1 ELSE 0
        /\ \A i \in 1 .. n - 1 + 1 : Posted(slots, n)[i] = slots[1 + i - 1]
    BY SubSeqProperties, <2>1 DEF Posted
  <2> HIDE DEF slots
  <2>3. \A i \in 1 .. n : Posted(slots, n)[i] = i
    <3> TAKE i \in 1 .. n
    <3>1. i \in 1 .. n - 1 + 1 /\ 1 + i - 1 = i OBVIOUS
    <3> QED BY <2>1, <2>2, <3>1
  <2>4. Len(Posted(slots, n)) = n BY <2>2
  <2>5. DOMAIN Posted(slots, n) = 1 .. n BY <2>2, <2>4, LenProperties
  <2> QED BY <2>3, <2>5 DEF ToSet
<1> HIDE DEF slots
<1>7. /\ pipe' \in Seq(Slots) /\ ToSet(pipe') = ToSet(pipe) \cup ToSet(Posted(slots, n))
      /\ OneToOne(pipe')
      /\ rxError' \in {"ok", "io", "no_device"} /\ errors' \in 0 .. MaxErrors
      /\ rxError' = "ok" => Posted(slots, n) = slots
  BY <1>1, <1>3, <1>4, <1>5, PostSlots
<1>8. TypeOK' BY <1>1, <1>2, <1>5, <1>7 DEF RxStart, TypeOK
<1>9. SlotInv'
  <2>1. ToSet(pipe') = 1 .. n
    <3>1. ToSet(pipe) = {} BY <1>5 DEF ToSet
    <3> QED BY <1>6, <1>7, <3>1
  <2>2. done' = <<>> BY <1>5 DEF RxStart
  <2>3. SlotsOf(done') = {} BY <2>2 DEF SlotsOf
  <2> QED BY <1>1, <1>7, <2>1, <2>2, <2>3 DEF SlotInv, Held
<1>10. PhaseInv' BY <1>5 DEF RxStart, PhaseInv
<1>11. RunInv' BY <1>1, <1>4, <1>6, <1>7 DEF RunInv
<1>12. OrderInv' /\ WholeInv' BY BytesSame DEF RxStart, Bytes
<1> QED BY <1>8, <1>9, <1>10, <1>11, <1>12

LEMMA ReadErrorKeeps == IInv /\ ReadError => IInv'
<1> SUFFICES ASSUME IInv, ReadError PROVE IInv' OBVIOUS
<1> USE DEF IInv
<1>0. PICK slots \in InOrder(Slots \ flying) : \E n \in 0 .. Len(slots) :
         /\ PostAll(slots, n)
         /\ flying' = flying \cup ToSet(Posted(slots, n))
  BY DEF ReadError, Repost, Posted
<1>1. PICK n \in 0 .. Len(slots) :
         /\ PostAll(slots, n)
         /\ flying' = flying \cup ToSet(Posted(slots, n))
  BY <1>0
<1>2. Slots \subseteq Int /\ IsFiniteSet(Slots \ flying)
  <2>1. IsFiniteSet(Slots) BY FS_Interval, UsbAssumption DEF Slots
  <2> QED BY <2>1, FS_Subset, UsbAssumption DEF Slots
<1>3. slots \in Seq(Slots) /\ Ascending(slots) /\ ToSet(slots) = Slots \ flying
  <2>1. Cardinality(Slots \ flying) \in Nat BY <1>2, FS_CardinalityType
  <2>2. slots \in [1 .. Cardinality(Slots \ flying) -> Slots \ flying] BY DEF InOrder
  <2> DEFINE c == Cardinality(Slots \ flying)
  <2> HIDE DEF c
  <2>3. c \in Nat /\ slots \in [1 .. c -> Slots] BY <2>1, <2>2 DEF c
  <2>4. slots \in Seq(Slots) BY <2>3
  <2> QED BY <2>4 DEF InOrder
<1>4. /\ pipe' \in Seq(Slots) /\ ToSet(pipe') = ToSet(pipe) \cup ToSet(Posted(slots, n))
      /\ OneToOne(pipe') /\ ToSet(Posted(slots, n)) \subseteq ToSet(slots)
      /\ rxError' \in {"ok", "io", "no_device"} /\ errors' \in 0 .. MaxErrors
      /\ rxError' = "ok" => Posted(slots, n) = slots
  BY <1>1, <1>3, PostSlots
<1>5. TypeOK' BY <1>1, <1>3, <1>4 DEF ReadError, TypeOK
<1>6. SlotInv'
  <2>1. ToSet(pipe') \cap SlotsOf(done) = {} BY <1>3, <1>4, KeptIs DEF SlotInv
  <2>2. ToSet(pipe') \cup SlotsOf(done) = flying' BY <1>1, <1>4, KeptIs DEF SlotInv
  <2>3. done' = done BY DEF ReadError
  <2> QED BY <1>4, <2>1, <2>2, <2>3 DEF SlotInv, Held, SlotsOf
<1>7. PhaseInv' BY <1>1 DEF ReadError, PhaseInv
<1>8. RunInv' BY <1>1, <1>3, <1>4 DEF RunInv, TypeOK
<1>9. OrderInv' /\ WholeInv' BY BytesSame DEF ReadError, Bytes
<1> QED BY <1>5, <1>6, <1>7, <1>8, <1>9

LEMMA ReadBytesKeeps == IInv /\ ReadBytes => IInv'
<1> SUFFICES ASSUME IInv, ReadBytes PROVE IInv' OBVIOUS
<1> USE DEF IInv
<1> DEFINE n == IF Len(ring) < ReadCap THEN Len(ring) ELSE ReadCap
           front == SubSeq(ring, 1, n)
           back == SubSeq(ring, n + 1, Len(ring))
<1>1. /\ ring \in Seq(Stream) /\ delivered \in Seq(Stream)
      /\ Len(ring) \in Nat /\ DOMAIN ring = 1 .. Len(ring)
      /\ \A i \in 1 .. Len(ring) : ring[i] \in Stream
      /\ n \in Nat /\ n <= Len(ring)
  BY UsbAssumption, LenProperties, ElementOfSeq DEF TypeOK
<1>2. delivered' = delivered \o front /\ ring' = back BY DEF ReadBytes, RingGet
<1> HIDE DEF n
<1>3. /\ front \in Seq(Stream) /\ DOMAIN front = 1 .. n
      /\ \A i \in 1 .. n : front[i] = ring[i] /\ i \in DOMAIN ring
  <2>1. /\ front \in Seq(Stream) /\ Len(front) = IF 1 <= n THEN n - 1 + 1 ELSE 0
        /\ \A i \in 1 .. n - 1 + 1 : front[i] = ring[1 + i - 1]
    BY SubSeqProperties, <1>1
  <2> HIDE DEF front
  <2>2. \A i \in 1 .. n : i \in 1 .. n - 1 + 1 /\ 1 + i - 1 = i /\ i \in DOMAIN ring BY <1>1
  <2>3. Len(front) = n BY <1>1, <2>1
  <2> QED BY <2>1, <2>2, <2>3, LenProperties
<1>4. /\ back \in Seq(Stream) /\ Len(back) = Len(ring) - n /\ DOMAIN back = 1 .. Len(ring) - n
      /\ \A i \in 1 .. Len(ring) - n : back[i] = ring[n + i] /\ n + i \in DOMAIN ring
  <2>1. /\ back \in Seq(Stream) /\ Len(back) = IF n + 1 <= Len(ring) THEN Len(ring) - (n + 1) + 1 ELSE 0
        /\ \A i \in 1 .. Len(ring) - (n + 1) + 1 : back[i] = ring[(n + 1) + i - 1]
    BY SubSeqProperties, <1>1
  <2> HIDE DEF back
  <2>2. \A i \in 1 .. Len(ring) - n : /\ i \in 1 .. Len(ring) - (n + 1) + 1
                                      /\ (n + 1) + i - 1 = n + i /\ n + i \in 1 .. Len(ring)
    BY <1>1
  <2>3. Len(back) = Len(ring) - n
    <3>1. n \in Nat /\ Len(ring) \in Nat /\ n <= Len(ring) BY <1>1
    <3>2. CASE n = Len(ring) BY <2>1, <3>1, <3>2
    <3>3. CASE n + 1 <= Len(ring) BY <2>1, <3>1, <3>3
    <3> QED BY <3>1, <3>2, <3>3
  <2> QED BY <1>1, <2>1, <2>2, <2>3, LenProperties
<1> HIDE DEF front, back
<1>5. ToSet(ring) = ToSet(front) \cup ToSet(back)
  <2>1. ToSet(front) \subseteq ToSet(ring) /\ ToSet(back) \subseteq ToSet(ring)
    <3>1. ToSet(front) \subseteq ToSet(ring) BY <1>3 DEF ToSet
    <3>2. ToSet(back) \subseteq ToSet(ring) BY <1>4 DEF ToSet
    <3> QED BY <3>1, <3>2
  <2>2. ASSUME NEW i \in 1 .. Len(ring) PROVE ring[i] \in ToSet(front) \cup ToSet(back)
    <3>1. CASE i <= n
      <4>1. i \in 1 .. n BY <1>1, <3>1
      <4> QED BY <4>1, <1>3 DEF ToSet
    <3>2. CASE i > n
      <4>1. i - n \in 1 .. Len(ring) - n /\ n + (i - n) = i BY <1>1, <3>2
      <4>2. back[i - n] = ring[i] BY <4>1, <1>4
      <4> QED BY <4>1, <4>2, <1>4 DEF ToSet
    <3> QED BY <1>1, <3>1, <3>2
  <2> QED BY <1>1, <2>1, <2>2 DEF ToSet
<1>6. ToSet(delivered') = ToSet(delivered) \cup ToSet(front) BY <1>1, <1>2, <1>3, ConcatSet
<1>7. Ascending(front) /\ Ascending(back) /\ Precedes(front, back)
  <2>1. Ascending(ring) BY DEF OrderInv
  <2>2. Ascending(front) BY <1>3, <2>1 DEF Ascending
  <2>3. Ascending(back)
    <3> SUFFICES ASSUME NEW i \in 1 .. Len(ring) - n, NEW j \in 1 .. Len(ring) - n, i < j
                 PROVE  back[i] < back[j]
      BY <1>4 DEF Ascending
    <3>1. n + i < n + j BY <1>1
    <3> QED BY <1>4, <2>1, <3>1 DEF Ascending
  <2>4. Precedes(front, back)
    <3> SUFFICES ASSUME NEW i \in 1 .. n, NEW j \in 1 .. Len(ring) - n
                 PROVE  front[i] < back[j]
      BY <1>3, <1>4 DEF Precedes
    <3>1. i < n + j BY <1>1
    <3> QED BY <1>3, <1>4, <2>1, <3>1 DEF Ascending
  <2> QED BY <2>2, <2>3, <2>4
<1>8. Precedes(delivered, front) /\ Precedes(delivered, back)
  BY <1>5, PrecedesSet DEF OrderInv
<1>9. Ascending(delivered') BY <1>1, <1>2, <1>3, <1>7, <1>8, AscendingConcat DEF OrderInv
<1>10. Precedes(delivered', ring')
  BY <1>2, <1>6, <1>7, <1>8, PrecedesSet
<1>11. \A k \in DOMAIN done : Precedes(delivered', done[k].data) /\ Precedes(ring', done[k].data)
  BY <1>2, <1>5, <1>6, PrecedesSet DEF OrderInv
<1>12. done' = done BY DEF ReadBytes, libusb
<1>13. OrderInv' BY <1>2, <1>7, <1>9, <1>10, <1>11, <1>12 DEF OrderInv
<1>14. WholeInv'
  <2>1. Kept' = ToSet(delivered') \cup ToSet(ring') \cup DataOf(done)
    BY <1>12 DEF Kept, DataOf
  <2>2. Kept' = Kept BY <1>2, <1>5, <1>6, <2>1, KeptIs
  <2> QED BY <1>12, <2>2 DEF WholeInv, ReadBytes, libusb
<1>15. TypeOK'
  <2>1. delivered' \in Seq(Stream) BY <1>1, <1>2, <1>3, ConcatProperties
  <2>2. ring' \in Seq(Stream) /\ Len(ring') <= RingBytes
    BY <1>1, <1>2, <1>4, UsbAssumption DEF TypeOK
  <2> QED BY <2>1, <2>2 DEF TypeOK, ReadBytes, libusb
<1>16. SlotInv' /\ PhaseInv' /\ RunInv'
  <2>1. UNCHANGED <<phase, flying, rxError, pipe, done, cancelled, freed>>
    BY DEF ReadBytes, libusb
  <2> QED BY <2>1, SlotsSame
<1> QED BY <1>13, <1>14, <1>15, <1>16

\* The callback of the oldest completed read leaves its slot posted again or
\* landed.
LEMMA PopSlots ==
    ASSUME TypeOK, SlotInv, done # <<>>, done' = Tail(done),
           \/ pipe' = Append(pipe, Head(done).slot) /\ flying' = flying
           \/ pipe' = pipe /\ flying' = flying \ {Head(done).slot}
    PROVE  SlotInv' /\ pipe' \in Seq(Slots) /\ flying' \subseteq Slots /\ flying' \subseteq flying
<1> DEFINE d == Tail(done)
           h == Head(done).slot
<1>1. /\ Head(done) \in Completion /\ 1 \in DOMAIN done /\ Head(done) = done[1]
      /\ DOMAIN d = 1 .. Len(done) - 1 /\ Len(done) \in Nat \ {0}
      /\ \A i \in DOMAIN d : i + 1 \in DOMAIN done /\ i + 1 # 1 /\ d[i] = done[i + 1]
      /\ SlotsOf(done) = {h} \cup SlotsOf(d)
  BY TailDone, TypedBytes
<1>2. h \in Slots /\ pipe \in Seq(Slots) /\ flying \subseteq Slots
  BY <1>1 DEF Completion, TypeOK
<1>3. \A i, j \in DOMAIN d : d[i].slot = d[j].slot => i = j
  <2> SUFFICES ASSUME NEW i \in DOMAIN d, NEW j \in DOMAIN d, d[i].slot = d[j].slot
               PROVE  i = j
    OBVIOUS
  <2>1. i + 1 = j + 1 BY <1>1 DEF SlotInv
  <2> QED BY <1>1, <2>1
<1>4. h \notin SlotsOf(d) BY <1>1 DEF SlotInv, SlotsOf
<1>5. h \notin ToSet(pipe) /\ ToSet(pipe) \cap SlotsOf(d) = {} /\ h \in flying
      /\ flying = ToSet(pipe) \cup {h} \cup SlotsOf(d)
  BY <1>1, KeptIs DEF SlotInv
<1>6. done' = d OBVIOUS
<1> HIDE DEF d, h
<1>7. CASE pipe' = Append(pipe, h) /\ flying' = flying
  <2>1. /\ pipe' \in Seq(Slots) /\ Len(pipe') = Len(pipe) + 1
        /\ \A i \in 1 .. Len(pipe) : pipe'[i] = pipe[i]
        /\ pipe'[Len(pipe) + 1] = h
    BY <1>2, <1>7, AppendProperties
  <2>2. DOMAIN pipe = 1 .. Len(pipe) /\ Len(pipe) \in Nat /\ DOMAIN pipe' = 1 .. Len(pipe) + 1
    BY <1>2, <2>1, LenProperties
  <2>3. OneToOne(pipe')
    <3>1. \A i \in DOMAIN pipe' : i \in DOMAIN pipe \/ i = Len(pipe) + 1 BY <2>2
    <3>2. \A i \in DOMAIN pipe : pipe[i] # h BY <1>5 DEF ToSet
    <3> QED BY <2>1, <2>2, <3>1, <3>2 DEF SlotInv, OneToOne
  <2>4. ToSet(pipe') = ToSet(pipe) \cup {h} BY <1>2, <1>7, AppendSet
  <2>5. ToSet(pipe') \cap SlotsOf(d) = {} /\ ToSet(pipe') \cup SlotsOf(d) = flying'
    BY <1>4, <1>5, <1>7, <2>4
  <2>6. SlotInv' BY <1>3, <1>6, <2>3, <2>5 DEF SlotInv, Held, SlotsOf
  <2> QED BY <1>2, <1>7, <2>1, <2>6
<1>8. CASE pipe' = pipe /\ flying' = flying \ {h}
  <2>1. ToSet(pipe') \cap SlotsOf(d) = {} /\ ToSet(pipe') \cup SlotsOf(d) = flying'
    BY <1>4, <1>5, <1>8
  <2>2. OneToOne(pipe') BY <1>8 DEF SlotInv
  <2>3. SlotInv' BY <1>3, <1>6, <2>1, <2>2 DEF SlotInv, Held, SlotsOf
  <2> QED BY <1>2, <1>8, <2>3
<1> QED BY <1>7, <1>8 DEF h

LEMMA Fields ==
    \A r \in Completion : r.slot \in Slots /\ r.status \in Statuses /\ r.data \in Seq(Stream)
BY DEF Completion

LEMMA PopStatus ==
    ASSUME TypeOK, PhaseInv, EventsRun, done' = Tail(done), UNCHANGED <<phase, cancelled, freed>>,
           flying' \subseteq flying
    PROVE  /\ PhaseInv' /\ done' \in Seq(Completion) /\ Head(done) \in Completion
           /\ phase = "running" => Head(done).status # "cancelled"
<1>1. /\ Head(done) = done[1] /\ 1 \in DOMAIN done /\ Head(done) \in Completion
      /\ Tail(done) \in Seq(Completion)
      /\ \A i \in DOMAIN Tail(done) : i + 1 \in DOMAIN done /\ Tail(done)[i] = done[i + 1]
  BY TailDone, TypedBytes DEF EventsRun
<1>2. PhaseInv' BY <1>1 DEF PhaseInv, EventsRun
<1> QED BY <1>1, <1>2 DEF PhaseInv

LEMMA RxDoneKeeps == IInv /\ RxDone => IInv'
<1> SUFFICES ASSUME IInv, RxDone PROVE IInv' OBVIOUS
<1>1. TypeOK /\ SlotInv /\ PhaseInv /\ RunInv /\ OrderInv /\ WholeInv BY DEF IInv
<1>2. /\ EventsRun /\ done # <<>> /\ done' = Tail(done)
      /\ UNCHANGED <<phase, cancelled, sent, present, delivered, freed>>
  BY DEF RxDone, DoneCompleted, DoneOther, Popped, EventsRun
<1>3. \/ pipe' = Append(pipe, Head(done).slot) /\ flying' = flying
      \/ pipe' = pipe /\ flying' = flying \ {Head(done).slot}
  BY DEF RxDone, DoneCompleted, DoneOther, Next1
<1>4. SlotInv' /\ pipe' \in Seq(Slots) /\ flying' \subseteq Slots /\ flying' \subseteq flying
  BY <1>1, <1>2, <1>3, PopSlots
<1>5. /\ PhaseInv' /\ done' \in Seq(Completion) /\ Head(done) \in Completion
      /\ phase = "running" => Head(done).status # "cancelled"
  BY <1>1, <1>2, <1>4, PopStatus
<1>6. \/ Fits(Head(done).data) /\ ring' = ring \o Head(done).data /\ dropped' = dropped
      \/ ring' = ring /\ dropped' = dropped \cup ToSet(Head(done).data)
  <2>1. CASE DoneCompleted BY <2>1 DEF DoneCompleted, RingPut, Next1
  <2>2. CASE DoneOther
    <3>1. Head(done) = done[1] /\ 1 \in DOMAIN done BY <1>1, <1>2, TailDone, TypedBytes
    <3>2. Head(done).data = <<>> BY <1>1, <2>2, <3>1 DEF DoneOther, Next1, WholeInv
    <3>3. ToSet(<<>>) = {} BY DEF ToSet
    <3> QED BY <2>2, <3>2, <3>3 DEF DoneOther
  <2> QED BY <2>1, <2>2 DEF RxDone
<1>7. OrderInv' /\ WholeInv' BY <1>1, <1>2, <1>6, PopBytes
<1>11. DoneOther => \/ Head(done).status = "cancelled" /\ rxError' = rxError
                    \/ rxError' \in {"io", "no_device"}
  <2> SUFFICES ASSUME DoneOther
               PROVE  \/ Head(done).status = "cancelled" /\ rxError' = rxError
                      \/ rxError' \in {"io", "no_device"}
    OBVIOUS
  <2> DEFINE status == Head(done).status
  <2>1. status \in Statuses BY <1>5, Fields
  <2>2. status \in {"cancelled", "error", "no_device"} BY <2>1 DEF DoneOther, Next1, Statuses
  <2>3. rxError' = Reported(status) BY DEF DoneOther, Next1
  <2> HIDE DEF status
  <2>4. CASE status = "cancelled"
    <3>1. rxError' = rxError BY <2>3, <2>4 DEF Reported
    <3> QED BY <2>4, <3>1 DEF status
  <2>5. CASE status = "no_device" BY <2>3, <2>5 DEF Reported
  <2>6. CASE status = "error" BY <2>3, <2>6 DEF Reported, Failed
  <2> QED BY <2>2, <2>4, <2>5, <2>6
<1>8. rxError' \in {"ok", "io", "no_device"} /\ errors' \in 0 .. MaxErrors
  <2>1. CASE DoneCompleted BY <1>1, <2>1, UsbAssumption DEF DoneCompleted, Failed, TypeOK
  <2>2. CASE DoneOther
    <3>1. errors' = errors BY <2>2 DEF DoneOther
    <3> QED BY <1>1, <1>11, <2>2, <3>1 DEF TypeOK
  <2> QED BY <2>1, <2>2 DEF RxDone
<1>9. RunInv'
  <2> SUFFICES ASSUME phase = "running", rxError' = "ok" PROVE flying' = Slots BY <1>2 DEF RunInv
  <2>1. CASE DoneCompleted BY <1>1, <2>1 DEF DoneCompleted, Failed, TypeOK, RunInv
  <2>2. CASE DoneOther
    BY <1>5, <1>11, <2>2
  <2> QED BY <2>1, <2>2 DEF RxDone
<1>10. TypeOK'
  <2>1. Head(done).data \in Seq(Stream) BY <1>5, Fields
  <2>2. ring' \in Seq(Stream) /\ Len(ring') <= RingBytes
    <3>1. CASE ring' = ring BY <1>1, <3>1 DEF TypeOK
    <3>2. CASE Fits(Head(done).data) /\ ring' = ring \o Head(done).data
      <4>1. ring \in Seq(Stream) BY <1>1 DEF TypeOK
      <4>2. ring' \in Seq(Stream) /\ Len(ring') = Len(ring) + Len(Head(done).data)
        BY <2>1, <3>2, <4>1, ConcatProperties
      <4>3. Len(ring) \in Nat /\ Len(Head(done).data) \in Nat BY <2>1, <4>1, LenProperties
      <4> QED BY <3>2, <4>2, <4>3, UsbAssumption DEF Fits
    <3> QED BY <1>6, <3>1, <3>2
  <2>3. dropped' \subseteq Stream
    <3>1. ToSet(Head(done).data) \subseteq Stream
      BY <1>1, <1>2, TailDone, TypedBytes
    <3> QED BY <1>1, <1>6, <3>1 DEF TypeOK
  <2> QED BY <1>1, <1>2, <1>4, <1>5, <1>8, <2>2, <2>3 DEF TypeOK, Completion
<1> QED BY <1>4, <1>5, <1>7, <1>9, <1>10 DEF IInv

\* A read that completes moves from the pipe to the callbacks that are due.
LEMMA MoveSlots ==
    ASSUME TypeOK, SlotInv, NEW r \in Completion, done' = Append(done, r), r.slot \in ToSet(pipe),
           pipe' \in Seq(Slots), OneToOne(pipe'), ToSet(pipe') = ToSet(pipe) \ {r.slot}, flying' = flying
    PROVE  SlotInv' /\ done' \in Seq(Completion)
<1> DEFINE d == Append(done, r)
<1>1. /\ d \in Seq(Completion) /\ Len(done) \in Nat /\ DOMAIN done = 1 .. Len(done)
      /\ DOMAIN d = 1 .. Len(done) + 1 /\ \A i \in DOMAIN done : d[i] = done[i]
      /\ d[Len(done) + 1] = r /\ SlotsOf(d) = SlotsOf(done) \cup {r.slot}
  BY AppendDone, TypedBytes
<1>2. done' = d OBVIOUS
<1> HIDE DEF d
<1>3. r.slot \notin SlotsOf(done) BY KeptIs DEF SlotInv
<1>4. \A i, j \in DOMAIN d : d[i].slot = d[j].slot => i = j
  <2>1. \A i \in DOMAIN d : i \in DOMAIN done \/ i = Len(done) + 1 BY <1>1
  <2>2. \A i \in DOMAIN done : done[i].slot # r.slot BY <1>3 DEF SlotsOf
  <2> QED BY <1>1, <2>1, <2>2 DEF SlotInv
<1>5. ToSet(pipe') \cap SlotsOf(d) = {} /\ ToSet(pipe') \cup SlotsOf(d) = flying
  BY <1>1, KeptIs DEF SlotInv
<1>6. SlotInv' BY <1>2, <1>4, <1>5 DEF SlotInv, Held, SlotsOf
<1> QED BY <1>1, <1>2, <1>6

LEMMA MoveStatus ==
    ASSUME TypeOK, PhaseInv, NEW r \in Completion, done' = Append(done, r), pipe # <<>>,
           phase \in {"opening", "running", "failed"} => r.status # "cancelled",
           UNCHANGED <<phase, cancelled, freed, flying>>
    PROVE  PhaseInv'
<1>1. /\ DOMAIN done = 1 .. Len(done) /\ DOMAIN Append(done, r) = 1 .. Len(done) + 1
      /\ Len(done) \in Nat
      /\ \A i \in DOMAIN done : Append(done, r)[i] = done[i]
      /\ Append(done, r)[Len(done) + 1] = r
  BY AppendDone, TypedBytes
<1>2. \A i \in DOMAIN Append(done, r) : i \in DOMAIN done \/ i = Len(done) + 1 BY <1>1
<1>3. phase # "opening" BY DEF PhaseInv
<1> QED BY <1>1, <1>2, <1>3 DEF PhaseInv

LEMMA CompleteKeeps ==
    ASSUME IInv, NEW status \in {"completed", "error", "no_device"}, NEW bytes \in Seq(Stream),
           Complete(status, bytes), sent' \in sent .. MaxBytes, Ascending(bytes),
           ToSet(bytes) = sent + 1 .. sent', status # "completed" => bytes = <<>>,
           present' \in BOOLEAN, errors' \in 0 .. MaxErrors
    PROVE  IInv'
<1>1. TypeOK /\ SlotInv /\ PhaseInv /\ RunInv /\ OrderInv /\ WholeInv BY DEF IInv
<1> DEFINE r == [slot |-> Head(pipe), status |-> status, data |-> bytes]
<1>2. /\ pipe # <<>> /\ pipe' = Tail(pipe) /\ done' = Append(done, r)
      /\ UNCHANGED <<phase, flying, rxError, ring, dropped, cancelled, delivered, freed>>
  BY DEF Complete
<1>3. /\ Head(pipe) \in Slots /\ pipe' \in Seq(Slots) /\ OneToOne(pipe')
      /\ Head(pipe) \in ToSet(pipe) /\ ToSet(pipe') = ToSet(pipe) \ {Head(pipe)}
  BY <1>1, <1>2, TailPipe DEF TypeOK, SlotInv
<1>4. r \in Completion BY <1>3 DEF Completion, Statuses
<1>5. r.slot = Head(pipe) /\ r.status = status /\ r.data = bytes OBVIOUS
<1> HIDE DEF r
<1>6. SlotInv' /\ done' \in Seq(Completion) BY <1>1, <1>2, <1>3, <1>4, <1>5, MoveSlots
<1>7. PhaseInv' BY <1>1, <1>2, <1>4, <1>5, MoveStatus
<1>8. OrderInv' /\ WholeInv' BY <1>1, <1>2, <1>4, <1>5, AddBytes
<1>9. RunInv' BY <1>1, <1>2 DEF RunInv
<1>10. TypeOK'
  <2>1. sent' \in 0 .. MaxBytes BY <1>1, UsbAssumption DEF TypeOK
  <2> QED BY <1>1, <1>2, <1>3, <1>6, <2>1 DEF TypeOK, Completion
<1> QED BY <1>6, <1>7, <1>8, <1>9, <1>10 DEF IInv

LEMMA NoBytes ==
    /\ <<>> \in Seq(Stream) /\ Ascending(<<>>)
    /\ TypeOK => /\ sent \in sent .. MaxBytes /\ ToSet(<<>>) = sent + 1 .. sent
                 /\ present \in BOOLEAN /\ errors \in 0 .. MaxErrors
<1>1. <<>> \in Seq(Stream) /\ Ascending(<<>>) BY EmptySeq DEF Ascending
<1>2. ToSet(<<>>) = {} BY DEF ToSet
<1>3. TypeOK => sent \in sent .. MaxBytes /\ sent + 1 .. sent = {} BY UsbAssumption DEF TypeOK
<1>4. TypeOK => present \in BOOLEAN /\ errors \in 0 .. MaxErrors BY DEF TypeOK
<1> QED BY <1>1, <1>2, <1>3, <1>4

LEMMA ReceiveKeeps == IInv /\ Receive => IInv'
<1> SUFFICES ASSUME IInv, Receive PROVE IInv' OBVIOUS
<1>1. PICK n \in 0 .. RxLen : /\ sent + n <= MaxBytes /\ sent' = sent + n
                              /\ Complete("completed", [k \in 1 .. n |-> sent + k])
  BY DEF Receive
<1> DEFINE bytes == [k \in 1 .. n |-> sent + k]
<1>2. sent \in Nat /\ n \in Nat /\ MaxBytes \in Nat /\ sent' \in sent .. MaxBytes
  BY <1>1, UsbAssumption DEF IInv, TypeOK
<1>3. bytes \in Seq(Stream)
  <2>1. \A k \in 1 .. n : sent + k \in Stream BY <1>1, <1>2 DEF Stream
  <2>2. bytes \in [1 .. n -> Stream] BY <2>1
  <2> HIDE DEF bytes
  <2> QED BY <1>2, <2>2
<1>4. Ascending(bytes) BY <1>2 DEF Ascending
<1>5. ToSet(bytes) = sent + 1 .. sent'
  <2>1. \A b \in sent + 1 .. sent + n : b - sent \in 1 .. n /\ sent + (b - sent) = b BY <1>2
  <2>2. \A k \in 1 .. n : sent + k \in sent + 1 .. sent + n BY <1>2
  <2> QED BY <1>1, <2>1, <2>2 DEF ToSet
<1>6. present' \in BOOLEAN /\ errors' \in 0 .. MaxErrors BY DEF Receive, IInv, TypeOK
<1> HIDE DEF bytes
<1>7. Complete("completed", bytes) BY <1>1 DEF bytes
<1> QED BY <1>2, <1>3, <1>4, <1>5, <1>6, <1>7, CompleteKeeps

LEMMA BreakKeeps == IInv /\ Break => IInv'
<1> SUFFICES ASSUME IInv, Break PROVE IInv' OBVIOUS
<1>1. Complete("error", <<>>) /\ sent' = sent /\ present' = present BY DEF Break
<1>2. errors' \in 0 .. MaxErrors BY UsbAssumption DEF Break, IInv, TypeOK
<1>3. sent' \in sent .. MaxBytes /\ ToSet(<<>>) = sent + 1 .. sent' /\ present' \in BOOLEAN
  BY <1>1, NoBytes DEF IInv
<1> QED BY <1>1, <1>2, <1>3, NoBytes, CompleteKeeps

LEMMA GoneKeeps == IInv /\ Gone => IInv'
<1> SUFFICES ASSUME IInv, Gone PROVE IInv' OBVIOUS
<1>1. Complete("no_device", <<>>) /\ sent' = sent /\ present' = present /\ errors' = errors
  BY DEF Gone
<1>2. sent' \in sent .. MaxBytes /\ ToSet(<<>>) = sent + 1 .. sent' /\ present' \in BOOLEAN
      /\ errors' \in 0 .. MaxErrors
  BY <1>1, NoBytes DEF IInv
<1> QED BY <1>1, <1>2, NoBytes, CompleteKeeps

LEMMA CancelEndsKeeps == IInv /\ CancelEnds => IInv'
<1> SUFFICES ASSUME IInv, CancelEnds PROVE IInv' OBVIOUS
<1>1. TypeOK /\ SlotInv /\ PhaseInv /\ RunInv /\ OrderInv /\ WholeInv BY DEF IInv
<1>2. PICK i \in DOMAIN pipe :
         /\ pipe[i] \in cancelled /\ pipe' = RemoveAt(pipe, i)
         /\ done' = Append(done, [slot |-> pipe[i], status |-> "cancelled", data |-> <<>>])
  BY DEF CancelEnds
<1> DEFINE r == [slot |-> pipe[i], status |-> "cancelled", data |-> <<>>]
<1>3. UNCHANGED <<phase, flying, rxError, ring, dropped, cancelled, sent, present, delivered, freed, errors>>
  BY DEF CancelEnds
<1>4. /\ pipe' \in Seq(Slots) /\ OneToOne(pipe') /\ ToSet(pipe') = ToSet(pipe) \ {pipe[i]}
      /\ pipe[i] \in ToSet(pipe)
  <2>1. pipe \in Seq(Slots) /\ OneToOne(pipe) BY <1>1 DEF TypeOK, SlotInv
  <2>2. pipe[i] \in ToSet(pipe) BY DEF ToSet
  <2> QED BY <1>2, <2>1, <2>2, CutPipe
<1>5. pipe[i] \in Slots /\ pipe # <<>>
  <2>1. DOMAIN pipe = 1 .. Len(pipe) BY <1>1, LenProperties DEF TypeOK
  <2> QED BY <1>1, <2>1, ElementOfSeq, EmptySeq DEF TypeOK
<1>6. r \in Completion BY <1>5, NoBytes DEF Completion, Statuses
<1>7. r.slot = pipe[i] /\ r.status = "cancelled" /\ r.data = <<>> /\ done' = Append(done, r)
  BY <1>2
<1> HIDE DEF r
<1>8. phase \notin {"opening", "running", "failed"} BY <1>1, <1>2 DEF PhaseInv
<1>9. SlotInv' /\ done' \in Seq(Completion) BY <1>1, <1>3, <1>4, <1>6, <1>7, MoveSlots
<1>10. PhaseInv' BY <1>1, <1>3, <1>5, <1>6, <1>7, <1>8, MoveStatus
<1>11. sent' \in sent .. MaxBytes /\ ToSet(r.data) = sent + 1 .. sent' /\ Ascending(r.data)
  BY <1>1, <1>3, <1>7, NoBytes
<1>12. OrderInv' /\ WholeInv' BY <1>1, <1>3, <1>6, <1>7, <1>11, AddBytes
<1>13. RunInv' BY <1>1, <1>3 DEF RunInv
<1>14. TypeOK' BY <1>1, <1>3, <1>4, <1>9 DEF TypeOK, Completion
<1> QED BY <1>9, <1>10, <1>12, <1>13, <1>14 DEF IInv

LEMMA RxStopKeeps == IInv /\ RxStop => IInv'
<1> SUFFICES ASSUME IInv, RxStop PROVE IInv' OBVIOUS
<1>1. TypeOK' BY DEF IInv, RxStop, TypeOK
<1>2. SlotInv' BY DEF IInv, RxStop, SlotInv, Held, ToSet, SlotsOf, OneToOne
<1>3. PhaseInv' /\ RunInv' BY DEF IInv, RxStop, PhaseInv, RunInv
<1>4. OrderInv' /\ WholeInv' BY BytesSame DEF IInv, RxStop, Bytes
<1> QED BY <1>1, <1>2, <1>3, <1>4 DEF IInv

LEMMA CloseKeeps == IInv /\ Close => IInv'
<1> SUFFICES ASSUME IInv, Close PROVE IInv' OBVIOUS
<1>1. TypeOK' BY DEF IInv, Close, JoinEvents, FreeTransfers, Landed, TypeOK, libusb
<1>2. UNCHANGED <<pipe, done, flying>> BY DEF Close, JoinEvents, FreeTransfers, libusb
<1>3. SlotInv' BY <1>2 DEF IInv, SlotInv, Held, ToSet, SlotsOf, OneToOne
<1>4. PhaseInv' /\ RunInv'
  BY DEF IInv, Close, JoinEvents, FreeTransfers, Landed, PhaseInv, RunInv, libusb
<1>5. OrderInv' /\ WholeInv' BY BytesSame DEF IInv, Close, JoinEvents, FreeTransfers, Bytes, libusb
<1> QED BY <1>1, <1>3, <1>4, <1>5 DEF IInv

LEMMA QuietKeeps == IInv /\ (Unplug \/ UNCHANGED vars) => IInv'
<1> SUFFICES ASSUME IInv, Unplug \/ UNCHANGED vars PROVE IInv' OBVIOUS
<1>1. UNCHANGED <<phase, flying, rxError, pipe, done, cancelled, freed>>
  BY DEF Unplug, vars, libusb
<1>2. TypeOK' BY DEF IInv, Unplug, vars, libusb, TypeOK
<1>3. SlotInv' /\ PhaseInv' /\ RunInv' BY <1>1, SlotsSame DEF IInv
<1>4. OrderInv' /\ WholeInv' BY BytesSame DEF IInv, Unplug, vars, libusb, Bytes
<1> QED BY <1>2, <1>3, <1>4 DEF IInv

LEMMA Inductive == Spec => []IInv
<1>1. IInv /\ [Next]_vars => IInv'
  BY RxStartKeeps, RxDoneKeeps, ReadErrorKeeps, ReadBytesKeeps, RxStopKeeps, CloseKeeps, ReceiveKeeps,
     BreakKeeps, GoneKeeps, CancelEndsKeeps, QuietKeeps DEF Next, Read
<1> QED BY InitIInv, <1>1, PTL DEF Spec

(***************************************************************************)
(* The theorems.                                                           *)
(***************************************************************************)
\* What usb_read hands out, the ring and the reads due are the cable's stream
\* in order, complete but for the reads dropped because the ring was full.
THEOREM StreamIsKept == Spec => []StreamKept
<1>1. IInv => StreamKept BY DEF IInv, OrderInv, WholeInv, StreamKept
<1> QED BY Inductive, <1>1, PTL

\* While no error waits for usb_read to report it, libusb has every read.
THEOREM PipeIsNeverDeaf == Spec => []EveryReadPosted
<1>1. IInv => EveryReadPosted BY DEF IInv, RunInv, SlotInv, EveryReadPosted
<1> QED BY Inductive, <1>1, PTL

\* rx_stop frees no transfer that libusb still has, however the wait ended.
THEOREM NothingFreedUnderLibusb == Spec => []FreedAreLanded
<1>1. IInv => FreedAreLanded BY DEF IInv, PhaseInv, SlotInv, FreedAreLanded
<1> QED BY Inductive, <1>1, PTL
=============================================================================
