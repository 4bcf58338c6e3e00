--------------------------- MODULE ReassemblyProofs ---------------------------
(***************************************************************************)
(* Proofs about Reassembly, for any channels, transfers, lengths, losses   *)
(* and resets: what is delivered is what was sent, whole, in order, with   *)
(* its address marked, and what lost a frame is never taken for another.   *)
(***************************************************************************)
EXTENDS Reassembly, FiniteSetTheorems, SequenceTheorems, TLAPS

Kinds == {"indication", "message"}
AllFlags == {"TX_MSG_TYPE", "TX_DONE", "ADDR_TYPE", "FIRST_FRAME", "CAN"}
Messages == [kind : Kinds, data : Seq(Bytes), flags : SUBSET AllFlags]
Partials == [data : {s \in Seq(Bytes) : Len(s) <= PartialMax},
             flags : SUBSET {"TX_MSG_TYPE", "ADDR_TYPE"}]
Underway == [id : Nat, next : Nat, last : Nat, ext : BOOLEAN, loop : BOOLEAN]
Sent == [id : Nat, last : Nat, ext : BOOLEAN]

(***************************************************************************)
(* The invariant: types, then what holds of each channel.                  *)
(***************************************************************************)
TypeInv ==
    /\ chOpen \subseteq Channels
    /\ partial \in [Channels -> Partials]
    /\ active \in [Channels -> BOOLEAN] /\ announced \in [Channels -> BOOLEAN]
    /\ queued \in [Channels -> Seq(Messages)]
    /\ sending \in [Channels -> Underway] /\ whole \in [Channels -> Seq(Sent)]
    /\ transfers \in 0 .. MaxTransfers /\ losses \in Nat /\ resets \in Nat
    /\ cut \subseteq Transfers /\ started \subseteq 1 .. transfers

\* A transfer under way, and what has been put together of it if none of its
\* frames was lost.
Sendable(c, t, n) ==
    /\ c # CAN /\ t.id \in 1 .. n /\ t.last \in 1 .. MaxData /\ t.next \in 1 .. t.last + 1
    /\ c = ISO15765 => t.next <= t.last
    /\ c # ISO15765 => ~t.ext

Joined(c, t, p, a, n) ==
    /\ t.next = 1 => ~a /\ (n <=> t.ext)
    /\ t.next > 1 => /\ a /\ ~n /\ p.data = First(c, t, t.next - 1)
                     /\ "ADDR_TYPE" \in p.flags <=> t.ext

SendInv(c) ==
    /\ sending[c] # NoTransfer => Sendable(c, sending[c], transfers)
    /\ sending[c] # NoTransfer /\ sending[c].id \notin cut =>
          c \in chOpen /\ Joined(c, sending[c], partial[c], active[c], announced[c])
    /\ sending[c] = NoTransfer /\ cut = {} => ~announced[c]

\* What is in progress is of the transfer under way, or has lost a frame.
PartInv(c) ==
    active[c] =>
       \/ Parts(partial[c].data) \cap cut # {}
       \/ sending[c] # NoTransfer /\ sending[c].id \notin cut /\ sending[c].next > 1

\* Nothing before a transfer whose START was absorbed.
Pure(ids, st) == \A t \in ids \cap st : \A u \in ids : u >= t

PureInv(c) ==
    LET ids == Parts(partial[c].data) IN
    /\ ids \subseteq 1 .. transfers
    /\ sending[c] # NoTransfer => \A u \in ids : u <= sending[c].id
    /\ active[c] => Pure(ids, started)
    /\ active[c] /\ sending[c] # NoTransfer /\ sending[c].id \in started =>
          \A u \in ids : u >= sending[c].id

IsOwn(m) == m.kind = "message" /\ "CAN" \notin m.flags

\* What a message of the channel's own may hold.
Fair(data, c, w, lost) ==
    \/ \E k \in DOMAIN w : data = Whole(c, w[k])
    \/ Parts(data) \cap lost # {}
    \/ data = <<>>

\* What queue q of channel c may hold when the transfers w have been sent, n have
\* begun, those of lost have lost a frame and those of st have started.
Good(q, c, w, lost, n, st) ==
    \A i \in DOMAIN q : IsOwn(q[i]) =>
       /\ Fair(q[i].data, c, w, lost)
       /\ Parts(q[i].data) \subseteq 1 .. n
       /\ Pure(Parts(q[i].data), st)

QueueInv(c) == Good(queued[c], c, whole[c], cut, transfers, started)

\* The messages of queue q are the transfers w, one by one.
Is(m, c, t) == m.data = Whole(c, t) /\ ("ADDR_TYPE" \in m.flags <=> t.ext)

Own(q) == {n \in DOMAIN q : IsOwn(q[n])}

Faithful(c, q, w) ==
    \E place \in [DOMAIN w -> Own(q)] :
       /\ Own(q) = {place[k] : k \in DOMAIN w}
       /\ \A k, l \in DOMAIN w : k < l => place[k] < place[l]
       /\ \A k \in DOMAIN w : Is(q[place[k]], c, w[k])

FaithInv(c) == cut = {} => Faithful(c, queued[c], whole[c])

ChannelInv(c) == SendInv(c) /\ PartInv(c) /\ PureInv(c) /\ QueueInv(c) /\ FaithInv(c)

IInv == TypeInv /\ \A c \in Channels : ChannelInv(c)
-----------------------------------------------------------------------------
(***************************************************************************)
(* Lemmas: the bytes of a frame, and what they are joined to.              *)
(***************************************************************************)
LEMMA Sizes ==
    /\ MaxData \in Nat /\ MaxData >= 1 /\ PartialMax \in Nat /\ 5 + MaxData <= PartialMax
    /\ MaxTransfers \in Nat
BY ReassemblyAssumption

\* What follows is true of a transfer's id, whether its address is extended.
IsTransfer(c, t) ==
    /\ t.id \in Transfers /\ t.ext \in BOOLEAN
    /\ c # ISO15765 => ~t.ext

\* The data of the k-th data frame.
Chunk(c, t, k) == (IF c \in {CAN, ISO15765} THEN CanId(t) ELSE <<>>) \o <<<<t.id, k>>>>

LEMMA IdIsBytes ==
    ASSUME NEW c, NEW t, IsTransfer(c, t)
    PROVE  /\ CanId(t) \in Seq(Bytes) /\ Len(CanId(t)) = IF t.ext THEN 5 ELSE 4
           /\ \A n \in 1 .. Len(CanId(t)) : CanId(t)[n] = <<t.id, 0>>
           /\ Parts(CanId(t)) = {t.id}
<1>1. <<t.id, 0>> \in Bytes BY Sizes DEF IsTransfer, Bytes
<1>2. PICK l \in {4, 5} : l = IF t.ext THEN 5 ELSE 4 OBVIOUS
<1>3. CanId(t) = [n \in 1 .. l |-> <<t.id, 0>>] BY <1>2 DEF CanId
<1>4. CanId(t) \in Seq(Bytes) /\ Len(CanId(t)) = l
  <2> DEFINE s == [n \in 1 .. l |-> <<t.id, 0>>]
  <2>1. l \in Nat /\ \A n \in 1 .. l : <<t.id, 0>> \in Bytes BY <1>1
  <2>2. s \in Seq(Bytes) BY <2>1, IsASeq
  <2>3. Len(s) = l BY <2>1, <2>2
  <2> QED BY <1>3, <2>2, <2>3
<1>5. DOMAIN CanId(t) = 1 .. l BY <1>3
<1>6. \A n \in DOMAIN CanId(t) : CanId(t)[n] = <<t.id, 0>> BY <1>3
<1>7. Parts(CanId(t)) = {t.id} BY <1>5, <1>6 DEF Parts
<1> QED BY <1>2, <1>4, <1>5, <1>6, <1>7

LEMMA ChunkIs ==
    ASSUME NEW c, NEW t, IsTransfer(c, t), NEW k \in 1 .. MaxData
    PROVE  /\ Chunk(c, t, k) \in Seq(Bytes)
           /\ IdLength(c, t) \in {0, 4, 5}
           /\ Len(Chunk(c, t, k)) = IdLength(c, t) + 1
           /\ DOMAIN Chunk(c, t, k) = 1 .. IdLength(c, t) + 1
           /\ \A n \in 1 .. IdLength(c, t) : Chunk(c, t, k)[n] = <<t.id, 0>>
           /\ Chunk(c, t, k)[IdLength(c, t) + 1] = <<t.id, k>>
           /\ Parts(Chunk(c, t, k)) = {t.id}
<1>1. <<t.id, k>> \in Bytes BY Sizes DEF IsTransfer, Bytes
<1>2. PICK l \in {0, 4, 5} : l = IdLength(c, t) BY DEF IdLength
<1>3. PICK i : i = IF c \in {CAN, ISO15765} THEN CanId(t) ELSE <<>> OBVIOUS
<1>4. i \in Seq(Bytes) /\ Len(i) = l /\ \A n \in 1 .. l : i[n] = <<t.id, 0>>
  <2>1. CASE c \in {CAN, ISO15765} BY <2>1, <1>2, <1>3, IdIsBytes DEF IdLength
  <2>2. CASE c \notin {CAN, ISO15765} BY <2>2, <1>2, <1>3 DEF IdLength
  <2> QED BY <2>1, <2>2
<1>5. PICK b : b = <<<<t.id, k>>>> OBVIOUS
<1>6. b \in Seq(Bytes) /\ Len(b) = 1 /\ b[1] = <<t.id, k>> BY <1>1, <1>5
<1>7. Chunk(c, t, k) = i \o b BY <1>3, <1>5 DEF Chunk
<1>8. /\ i \o b \in Seq(Bytes) /\ Len(i \o b) = l + 1
      /\ \A n \in 1 .. l + 1 : (i \o b)[n] = IF n <= l THEN i[n] ELSE b[n - l]
  BY <1>4, <1>6, ConcatProperties
<1>9. PICK s : s = i \o b OBVIOUS
<1>10. s \in Seq(Bytes) /\ Len(s) = l + 1 BY <1>8, <1>9
<1>11. \A n \in 1 .. l : s[n] = <<t.id, 0>> BY <1>4, <1>8, <1>9
<1>12. s[l + 1] = <<t.id, k>> BY <1>6, <1>8, <1>9
<1>13. DOMAIN s = 1 .. l + 1 BY <1>10
<1>14. Parts(s) = {t.id}
  <2>1. \A n \in DOMAIN s : s[n][1] = t.id BY <1>11, <1>12, <1>13
  <2>2. l + 1 \in DOMAIN s BY <1>13
  <2> QED BY <2>1, <2>2 DEF Parts
<1> QED BY <1>2, <1>7, <1>9, <1>10, <1>11, <1>12, <1>13, <1>14

\* Truncating keeps what comes first.
LEMMA TruncateKeeps ==
    ASSUME NEW s \in Seq(Bytes)
    PROVE  /\ Truncate(s) \in Seq(Bytes)
           /\ Len(Truncate(s)) <= PartialMax /\ Len(Truncate(s)) <= Len(s)
           /\ \A n \in 1 .. Len(Truncate(s)) : Truncate(s)[n] = s[n]
           /\ \A n \in 1 .. Len(s) : n <= PartialMax => n \in 1 .. Len(Truncate(s))
           /\ Len(s) <= PartialMax => Truncate(s) = s
<1>1. PICK k \in Nat : k = IF Len(s) <= PartialMax THEN Len(s) ELSE PartialMax
  BY Sizes, LenProperties
<1>2. k \in 0 .. Len(s) /\ k <= PartialMax BY <1>1, Sizes, LenProperties
<1>3. Truncate(s) = SubSeq(s, 1, k) BY <1>1 DEF Truncate
<1>4. /\ SubSeq(s, 1, k) \in Seq(Bytes) /\ Len(SubSeq(s, 1, k)) = k
      /\ \A n \in 1 .. k : SubSeq(s, 1, k)[n] = s[n]
  BY <1>2, LenProperties
<1>5. Len(s) <= PartialMax => SubSeq(s, 1, k) = s BY <1>1, LenProperties
<1> QED BY <1>1, <1>2, <1>3, <1>4, <1>5, LenProperties

\* What is joined and cut off holds the bytes of both, the first one's all.
LEMMA PartsJoined ==
    ASSUME NEW b \in Seq(Bytes), NEW d \in Seq(Bytes), Len(b) <= PartialMax
    PROVE  /\ Parts(b) \subseteq Parts(Truncate(b \o d))
           /\ Parts(Truncate(b \o d)) \subseteq Parts(b) \cup Parts(d)
<1>1. /\ b \o d \in Seq(Bytes) /\ Len(b \o d) = Len(b) + Len(d)
      /\ \A n \in 1 .. Len(b) + Len(d) :
            (b \o d)[n] = IF n <= Len(b) THEN b[n] ELSE d[n - Len(b)]
  BY ConcatProperties
<1>2. PICK s \in Seq(Bytes) : s = b \o d BY <1>1
<1>3. PICK r \in Seq(Bytes) : r = Truncate(s) BY TruncateKeeps
<1>4. /\ Len(r) <= Len(s) /\ \A n \in 1 .. Len(r) : r[n] = s[n]
      /\ \A n \in 1 .. Len(s) : n <= PartialMax => n \in 1 .. Len(r)
  BY <1>3, TruncateKeeps
<1>5. /\ DOMAIN r = 1 .. Len(r) /\ DOMAIN b = 1 .. Len(b) /\ DOMAIN d = 1 .. Len(d)
      /\ Len(r) \in Nat /\ Len(b) \in Nat /\ Len(d) \in Nat /\ Len(s) = Len(b) + Len(d)
  BY <1>1, <1>2, LenProperties
<1>6. \A n \in 1 .. Len(b) : n \in 1 .. Len(r) /\ r[n] = b[n]
  BY <1>1, <1>2, <1>4, <1>5, Sizes
<1>7. \A n \in 1 .. Len(r) : \/ n \in 1 .. Len(b) /\ r[n] = b[n]
                             \/ n - Len(b) \in 1 .. Len(d) /\ r[n] = d[n - Len(b)]
  <2> SUFFICES ASSUME NEW n \in 1 .. Len(r)
               PROVE \/ n \in 1 .. Len(b) /\ r[n] = b[n]
                     \/ n - Len(b) \in 1 .. Len(d) /\ r[n] = d[n - Len(b)]
    OBVIOUS
  <2>1. n \in 1 .. Len(b) + Len(d) BY <1>4, <1>5
  <2>2. r[n] = IF n <= Len(b) THEN b[n] ELSE d[n - Len(b)] BY <1>1, <1>2, <1>4, <2>1
  <2>3. CASE n <= Len(b) BY <2>1, <2>2, <2>3, <1>5
  <2>4. CASE ~(n <= Len(b)) BY <2>1, <2>2, <2>4, <1>5
  <2> QED BY <2>3, <2>4
<1>8. Parts(b) \subseteq Parts(r) BY <1>5, <1>6 DEF Parts
<1>9. Parts(r) \subseteq Parts(b) \cup Parts(d) BY <1>5, <1>7 DEF Parts
<1> QED BY <1>2, <1>3, <1>8, <1>9

LEMMA PartsOfRest ==
    ASSUME NEW s \in Seq(Bytes), NEW k \in Nat
    PROVE  /\ SubSeq(s, k + 1, Len(s)) \in Seq(Bytes)
           /\ Parts(SubSeq(s, k + 1, Len(s))) \subseteq Parts(s)
<1>1. PICK l \in Nat : l = Len(s) BY LenProperties
<1>2. CASE k >= l
  <2>1. SubSeq(s, k + 1, l) = <<>> BY <1>2, SubSeqEmpty
  <2>2. Parts(<<>>) = {} BY DEF Parts
  <2>3. <<>> \in Seq(Bytes) OBVIOUS
  <2> QED BY <1>1, <2>1, <2>2, <2>3
<1>3. CASE k < l
  <2>1. k + 1 \in 1 .. l /\ l \in 1 .. l BY <1>3
  <2>2. PICK r : r = SubSeq(s, k + 1, l) OBVIOUS
  <2>3. r \in Seq(Bytes) /\ Len(r) = l - k /\ \A n \in 1 .. l - k : r[n] = s[k + n]
    BY <1>1, <2>1, <2>2, SubSeqProperties
  <2>4. DOMAIN r = 1 .. l - k /\ DOMAIN s = 1 .. l BY <1>1, <2>3, LenProperties
  <2>5. \A n \in 1 .. l - k : k + n \in 1 .. l BY <1>3
  <2> QED BY <1>1, <2>2, <2>3, <2>4, <2>5 DEF Parts
<1> QED BY <1>2, <1>3

\* A transfer's first frames, and one more of them.
LEMMA FirstIs ==
    ASSUME NEW c, NEW t, IsTransfer(c, t), NEW k \in 0 .. MaxData
    PROVE  /\ IdLength(c, t) \in {0, 4, 5}
           /\ First(c, t, k) \in Seq(Bytes)
           /\ Len(First(c, t, k)) = IdLength(c, t) + k
           /\ Len(First(c, t, k)) <= PartialMax
           /\ \A n \in 1 .. IdLength(c, t) + k :
                 First(c, t, k)[n] = <<t.id, IF n <= IdLength(c, t) THEN 0 ELSE n - IdLength(c, t)>>
           /\ k >= 1 => Parts(First(c, t, k)) = {t.id}
<1>1. PICK l \in {0, 4, 5} : l = IdLength(c, t) BY DEF IdLength
<1>2. \A n \in 1 .. l + k : <<t.id, IF n <= l THEN 0 ELSE n - l>> \in Bytes
  <2> SUFFICES ASSUME NEW n \in 1 .. l + k
               PROVE  (IF n <= l THEN 0 ELSE n - l) \in 0 .. MaxData
    BY DEF IsTransfer, Bytes
  <2> QED BY Sizes
<1>3. PICK s : s = [n \in 1 .. l + k |-> <<t.id, IF n <= l THEN 0 ELSE n - l>>] OBVIOUS
<1>4. s = First(c, t, k) BY <1>1, <1>3 DEF First
<1>5. l + k \in Nat BY Sizes
<1>6. s \in Seq(Bytes)
  <2>1. s \in [1 .. l + k -> Bytes] BY <1>2, <1>3
  <2> QED BY <1>5, <2>1
<1>7. Len(s) = l + k BY <1>3, <1>5, <1>6
<1>8. DOMAIN s = 1 .. l + k BY <1>3
<1>9. ASSUME k >= 1 PROVE Parts(s) = {t.id}
  <2>1. \A n \in DOMAIN s : s[n][1] = t.id BY <1>3, <1>8
  <2>2. l + k \in DOMAIN s BY <1>8, <1>9, Sizes
  <2> QED BY <2>1, <2>2 DEF Parts
<1>10. l + k <= PartialMax BY Sizes
<1> QED BY <1>1, <1>3, <1>4, <1>6, <1>7, <1>9, <1>10

\* The first frame's data are the beginning.
LEMMA ChunkIsFirst ==
    ASSUME NEW c, NEW t, IsTransfer(c, t)
    PROVE  Chunk(c, t, 1) = First(c, t, 1)
<1>1. 1 \in 1 .. MaxData /\ 1 \in 0 .. MaxData BY Sizes
<1>2. PICK l \in {0, 4, 5} : l = IdLength(c, t) BY DEF IdLength
<1>3. PICK s \in Seq(Bytes) : s = Chunk(c, t, 1) BY <1>1, ChunkIs
<1>4. PICK r \in Seq(Bytes) : r = First(c, t, 1) BY <1>1, FirstIs
<1>5. Len(s) = l + 1 /\ Len(r) = l + 1 BY <1>1, <1>2, <1>3, <1>4, ChunkIs, FirstIs
<1>6. \A n \in 1 .. l : s[n] = <<t.id, 0>> BY <1>1, <1>2, <1>3, ChunkIs
<1>7. s[l + 1] = <<t.id, 1>> BY <1>1, <1>2, <1>3, ChunkIs
<1>8. \A n \in 1 .. l + 1 : r[n] = <<t.id, IF n <= l THEN 0 ELSE n - l>>
  BY <1>1, <1>2, <1>4, FirstIs
<1>9. \A n \in 1 .. l + 1 : s[n] = r[n]
  <2> SUFFICES ASSUME NEW n \in 1 .. l + 1 PROVE s[n] = r[n] OBVIOUS
  <2>1. CASE n <= l
    <3>1. n \in 1 .. l BY <2>1
    <3>2. s[n] = <<t.id, 0>> BY <3>1, <1>6
    <3>3. r[n] = <<t.id, 0>> BY <2>1, <1>8
    <3> QED BY <3>2, <3>3
  <2>2. CASE n = l + 1 BY <2>2, <1>7, <1>8
  <2> QED BY <2>1, <2>2
<1> QED BY <1>3, <1>4, <1>5, <1>9, SeqEqual

\* A later frame's data without the id follow what came before.
LEMMA ChunkFollows ==
    ASSUME NEW c, NEW t, IsTransfer(c, t), NEW k \in 1 .. MaxData, k + 1 <= MaxData
    PROVE  LET chunk == Chunk(c, t, k + 1) IN
           Truncate(First(c, t, k) \o SubSeq(chunk, IdLength(c, t) + 1, Len(chunk)))
              = First(c, t, k + 1)
<1>1. k \in 0 .. MaxData /\ k + 1 \in 0 .. MaxData /\ k + 1 \in 1 .. MaxData BY Sizes
<1>2. PICK l \in {0, 4, 5} : l = IdLength(c, t) BY DEF IdLength
<1>3. PICK s \in Seq(Bytes) : s = Chunk(c, t, k + 1) BY <1>1, ChunkIs
<1>4. PICK r \in Seq(Bytes) : r = First(c, t, k) BY <1>1, FirstIs
<1>5. PICK q \in Seq(Bytes) : q = First(c, t, k + 1) BY <1>1, FirstIs
<1>6. Len(s) = l + 1 /\ s[l + 1] = <<t.id, k + 1>> BY <1>1, <1>2, <1>3, ChunkIs
<1>7. /\ Len(r) = l + k
      /\ \A n \in 1 .. l + k : r[n] = <<t.id, IF n <= l THEN 0 ELSE n - l>>
  <2>1. /\ Len(First(c, t, k)) = IdLength(c, t) + k
        /\ \A n \in 1 .. IdLength(c, t) + k : First(c, t, k)[n]
              = <<t.id, IF n <= IdLength(c, t) THEN 0 ELSE n - IdLength(c, t)>>
    BY <1>1, FirstIs
  <2> QED BY <1>2, <1>4, <2>1
<1>8. /\ Len(q) = l + (k + 1) /\ Len(q) <= PartialMax
      /\ \A n \in 1 .. l + (k + 1) : q[n] = <<t.id, IF n <= l THEN 0 ELSE n - l>>
  <2>1. /\ Len(First(c, t, k + 1)) = IdLength(c, t) + (k + 1)
        /\ Len(First(c, t, k + 1)) <= PartialMax
        /\ \A n \in 1 .. IdLength(c, t) + (k + 1) : First(c, t, k + 1)[n]
              = <<t.id, IF n <= IdLength(c, t) THEN 0 ELSE n - IdLength(c, t)>>
    BY <1>1, FirstIs
  <2> QED BY <1>2, <1>5, <2>1
<1>9. PICK b : b = SubSeq(s, l + 1, l + 1) OBVIOUS
<1>10. b \in Seq(Bytes) /\ Len(b) = 1 /\ b[1] = <<t.id, k + 1>>
  <2>1. l + 1 \in Int /\ \A i \in l + 1 .. l + 1 : s[i] \in Bytes
    BY <1>6, ElementOfSeq
  <2>2. /\ b \in Seq(Bytes) /\ Len(b) = IF l + 1 <= l + 1 THEN l + 1 - (l + 1) + 1 ELSE 0
        /\ \A i \in 1 .. l + 1 - (l + 1) + 1 : b[i] = s[l + 1 + i - 1]
    BY <1>9, <2>1, SubSeqProperties
  <2> QED BY <1>6, <2>2
<1>11. /\ r \o b \in Seq(Bytes) /\ Len(r \o b) = l + k + 1
       /\ \A n \in 1 .. l + k + 1 : (r \o b)[n] = IF n <= l + k THEN r[n] ELSE b[n - (l + k)]
  <2>1. /\ r \o b \in Seq(Bytes) /\ Len(r \o b) = Len(r) + Len(b)
        /\ \A n \in 1 .. Len(r) + Len(b) :
              (r \o b)[n] = IF n <= Len(r) THEN r[n] ELSE b[n - Len(r)]
    BY <1>10, ConcatProperties
  <2>2. Len(r) = l + k /\ Len(b) = 1 BY <1>7, <1>10
  <2> QED BY <2>1, <2>2
<1>12. PICK j \in Seq(Bytes) : j = r \o b BY <1>11
<1>13. \A n \in 1 .. l + k + 1 : j[n] = q[n]
  <2> SUFFICES ASSUME NEW n \in 1 .. l + k + 1 PROVE j[n] = q[n] OBVIOUS
  <2>1. CASE n <= l + k
    <3>1. n \in 1 .. l + k /\ n \in 1 .. l + (k + 1) BY <2>1
    <3>2. j[n] = r[n] BY <2>1, <1>11, <1>12
    <3> QED BY <3>1, <3>2, <1>7, <1>8
  <2>2. CASE n = l + k + 1
    <3>1. n - (l + k) = 1 /\ ~(n <= l + k) BY <2>2
    <3>3. j[n] = b[1] BY <3>1, <1>11, <1>12
    <3>2. q[n] = <<t.id, k + 1>> BY <2>2, <1>8
    <3> QED BY <3>3, <3>2, <1>10
  <2> QED BY <2>1, <2>2
<1>14. Len(j) = l + k + 1 /\ Len(q) = l + k + 1 BY <1>8, <1>11, <1>12
<1>15. j = q BY <1>13, <1>14, SeqEqual
<1>16. Truncate(q) = q BY <1>8, TruncateKeeps
<1> QED BY <1>2, <1>3, <1>4, <1>5, <1>6, <1>9, <1>12, <1>15, <1>16
-----------------------------------------------------------------------------
(***************************************************************************)
(* What absorb_frame makes of a frame.                                     *)
(***************************************************************************)
Frames == [ch : Channels, id : Transfers, start : BOOLEAN, end : BOOLEAN, loop : BOOLEAN,
           ind : BOOLEAN, ext : BOOLEAN, data : {s \in Seq(Bytes) : Len(s) <= PartialMax}]

LEMMA FlagsType == \A f : Flags(f) \subseteq {"TX_MSG_TYPE", "ADDR_TYPE"}
BY DEF Flags

LEMMA BaseType ==
    ASSUME TypeInv, NEW f \in Frames
    PROVE  /\ Base(f) \in Partials
           /\ active[f.ch] => Base(f) = partial[f.ch]
           /\ ~active[f.ch] => /\ Base(f).data = <<>>
                               /\ Base(f).flags = IF announced[f.ch] THEN {"ADDR_TYPE"} ELSE {}
<1>1. f.ch \in Channels BY DEF Frames
<1>2. CASE active[f.ch]
  <2>1. partial[f.ch] \in Partials BY <1>1 DEF TypeInv
  <2> QED BY <1>2, <2>1 DEF Base
<1>3. CASE ~active[f.ch]
  <2>1. PICK g : g = IF announced[f.ch] THEN {"ADDR_TYPE"} ELSE {} OBVIOUS
  <2>2. Base(f) = [data |-> <<>>, flags |-> g] BY <1>3, <2>1 DEF Base, Empty
  <2>3. <<>> \in Seq(Bytes) /\ Len(<<>>) = 0 /\ 0 <= PartialMax BY Sizes
  <2>4. g \in SUBSET {"TX_MSG_TYPE", "ADDR_TYPE"} BY <2>1
  <2>5. Base(f) \in Partials BY <2>2, <2>3, <2>4 DEF Partials
  <2> QED BY <1>3, <2>1, <2>2, <2>5
<1> QED BY <1>2, <1>3

LEMMA AccumulatedType ==
    ASSUME TypeInv, NEW f \in Frames
    PROVE  /\ Accumulated(f) \in Partials
           /\ Accumulated(f).flags = Base(f).flags \cup Flags(f)
           /\ Parts(Base(f).data) \subseteq Parts(Accumulated(f).data)
           /\ Parts(Accumulated(f).data) \subseteq Parts(Base(f).data) \cup Parts(f.data)
           /\ ~active[f.ch] => Accumulated(f).data = f.data
<1>1. PICK b \in Seq(Bytes) : b = Base(f).data /\ Len(b) <= PartialMax
  BY BaseType DEF Partials
<1>2. PICK d \in Seq(Bytes) : d = f.data /\ Len(d) <= PartialMax BY DEF Frames
<1>3. Skip(f) \in Nat BY DEF Skip
<1>4. PICK r \in Seq(Bytes) : r = SubSeq(d, Skip(f) + 1, Len(d)) /\ Parts(r) \subseteq Parts(d)
  BY <1>2, <1>3, PartsOfRest
<1>5. PICK j \in Seq(Bytes) : j = Truncate(b \o r) /\ Len(j) <= PartialMax
  <2>1. b \o r \in Seq(Bytes) BY ConcatProperties
  <2> QED BY <2>1, TruncateKeeps
<1>6. Parts(b) \subseteq Parts(j) /\ Parts(j) \subseteq Parts(b) \cup Parts(r)
  BY <1>1, <1>5, PartsJoined
<1>7. PICK g : g = Base(f).flags \cup Flags(f) OBVIOUS
<1>8. g \in SUBSET {"TX_MSG_TYPE", "ADDR_TYPE"}
  BY <1>7, BaseType, FlagsType DEF Partials
<1>9. Accumulated(f) = [data |-> j, flags |-> g]
  BY <1>1, <1>2, <1>4, <1>5, <1>7 DEF Accumulated
<1>10. Accumulated(f) \in Partials BY <1>5, <1>8, <1>9 DEF Partials
<1>11. ASSUME ~active[f.ch] PROVE j = d
  <2>1. b = <<>> BY <1>1, <1>11, BaseType
  <2>2. Skip(f) = 0 BY <1>11 DEF Skip
  <2>3. r = SubSeq(d, 1, Len(d)) BY <1>4, <2>2
  <2>4. r = d BY <2>3, SubSeqFull
  <2>5. b \o r = d BY <2>1, <2>4
  <2> QED BY <1>2, <1>5, <2>5, TruncateKeeps
<1> QED BY <1>1, <1>2, <1>4, <1>6, <1>7, <1>9, <1>10, <1>11

\* A frame for the channel c queues this.
Queues(c, m) == queued' = [queued EXCEPT ![c] = Append(@, m)]

LEMMA QueueTypes ==
    ASSUME TypeInv, NEW c, NEW m \in Messages, Queues(c, m)
    PROVE  queued' \in [Channels -> Seq(Messages)]
<1>1. CASE c \in Channels
  <2>1. Append(queued[c], m) \in Seq(Messages) BY <1>1, AppendProperties DEF TypeInv
  <2>2. PICK s \in Seq(Messages) : s = Append(queued[c], m) BY <2>1
  <2>3. queued' = [queued EXCEPT ![c] = s] BY <2>2 DEF Queues
  <2> QED BY <1>1, <2>3 DEF TypeInv
<1>2. CASE c \notin Channels
  <2>1. queued' = queued BY <1>2 DEF TypeInv, Queues
  <2> QED BY <2>1 DEF TypeInv
<1> QED BY <1>1, <1>2

LEMMA MessageType ==
    ASSUME NEW k \in Kinds, NEW d \in Seq(Bytes), NEW g \in SUBSET AllFlags
    PROVE  /\ Message(k, d, g) \in Messages
           /\ Message(k, d, g).kind = k
           /\ Message(k, d, g).data = d
           /\ Message(k, d, g).flags = g
BY DEF Message, Messages

\* The effects of absorb_frame, case by case.
Ignores == UNCHANGED <<partial, active, announced, queued>>

Echoes == \E m \in Messages : /\ ~IsOwn(m) /\ Queues(ISO15765, m)
                              /\ UNCHANGED <<partial, active, announced>>

Announces(f) ==
    \E m \in Messages :
       /\ ~IsOwn(m) /\ Queues(f.ch, m)
       /\ active' = [active EXCEPT ![f.ch] = FALSE]
       /\ announced' = [announced EXCEPT ![f.ch] = f.ch = ISO15765 /\ f.ext]
       /\ UNCHANGED partial

PassesOn(f) ==
    \E m \in Messages :
       /\ m.kind = "message" /\ m.data = f.data /\ m.flags = Flags(f)
       /\ Queues(f.ch, m)
       /\ UNCHANGED <<partial, active, announced>>

Joins(f) ==
    /\ partial' = [partial EXCEPT ![f.ch] = Accumulated(f)]
    /\ active' = [active EXCEPT ![f.ch] = ~f.end]
    /\ announced' = [announced EXCEPT ![f.ch] = active[f.ch] /\ announced[f.ch]]
    /\ IF f.end
       THEN \E m \in Messages : /\ m.kind = "message"
                                /\ m.data = Accumulated(f).data
                                /\ m.flags = Accumulated(f).flags
                                /\ Queues(f.ch, m)
       ELSE UNCHANGED queued

LEMMA Absorbed ==
    ASSUME TypeInv, NEW f \in Frames, AbsorbFrame(f)
    PROVE  \/ f.ch \notin chOpen /\ Ignores
           \/ f.ch = CAN /\ f.ch \notin chOpen /\ Echoes
           \/ f.ch = ISO15765 /\ f.ch \in chOpen /\ f.ind /\ Echoes
           \/ f.ch = CAN /\ f.ch \in chOpen /\ f.ind
           \/ f.ch = CAN /\ f.ch \in chOpen /\ ~f.ind /\ PassesOn(f)
           \/ IsData(f) /\ IsAnnouncement(f) /\ Announces(f)
           \/ IsData(f) /\ ~IsAnnouncement(f) /\ Joins(f)
<1>1. f.data \in Seq(Bytes) BY DEF Frames
<1>2. CASE Closed(f)
  <2>1. CASE f.ch = CAN /\ f.loop /\ ISO15765 \in chOpen
    <3>1. PICK m : m = Message("message", f.data, {"TX_MSG_TYPE", "CAN"}) OBVIOUS
    <3>2. {"TX_MSG_TYPE", "CAN"} \in SUBSET AllFlags /\ "message" \in Kinds BY DEF AllFlags, Kinds
    <3>3. m \in Messages /\ m.flags = {"TX_MSG_TYPE", "CAN"} BY <1>1, <3>1, <3>2, MessageType
    <3>4. Queues(ISO15765, m) BY <1>2, <2>1, <3>1 DEF Closed, Queue, Queues
    <3> QED BY <1>2, <2>1, <3>3, <3>4 DEF Closed, Echoes, IsOwn
  <2>2. CASE ~(f.ch = CAN /\ f.loop /\ ISO15765 \in chOpen)
    BY <1>2, <2>2 DEF Closed, Ignores
  <2> QED BY <2>1, <2>2
<1>3. CASE TransmitDone(f)
  <2>1. PICK g : g = {"TX_MSG_TYPE", "TX_DONE"} \cup Flags(f) OBVIOUS
  <2>2. g \in SUBSET AllFlags /\ "indication" \in Kinds BY <2>1, FlagsType DEF AllFlags, Kinds
  <2>3. PICK m : m = Message("indication", f.data, g) OBVIOUS
  <2>4. m \in Messages /\ m.kind = "indication" BY <1>1, <2>2, <2>3, MessageType
  <2>5. Queues(f.ch, m) BY <1>3, <2>1, <2>3 DEF TransmitDone, Queue, Queues
  <2> QED BY <1>3, <2>4, <2>5 DEF TransmitDone, Echoes, IsOwn
<1>4. CASE RawFrame(f)
  <2>1. Flags(f) \in SUBSET AllFlags /\ "message" \in Kinds BY FlagsType DEF AllFlags, Kinds
  <2>2. PICK m : m = Message("message", f.data, Flags(f)) OBVIOUS
  <2>3. m \in Messages /\ m.kind = "message" /\ m.data = f.data /\ m.flags = Flags(f)
    BY <1>1, <2>1, <2>2, MessageType
  <2>4. Queues(f.ch, m) BY <1>4, <2>2 DEF RawFrame, Queue, Queues
  <2> QED BY <1>4, <2>3, <2>4 DEF RawFrame, PassesOn
<1>5. CASE Announce(f)
  <2>1. PICK d : d = IF f.loop THEN <<>> ELSE f.data OBVIOUS
  <2>2. PICK g : g = IF f.loop /\ f.ch = ISO15765 THEN Flags(f) \cup {"TX_DONE"}
                     ELSE IF f.loop THEN {"FIRST_FRAME"} ELSE Flags(f) \cup {"FIRST_FRAME"}
    OBVIOUS
  <2>3. d \in Seq(Bytes) BY <1>1, <2>1
  <2>4. g \in SUBSET AllFlags /\ "indication" \in Kinds BY <2>2, FlagsType DEF AllFlags, Kinds
  <2>5. PICK m : m = Message("indication", d, g) OBVIOUS
  <2>6. m \in Messages /\ m.kind = "indication" BY <2>3, <2>4, <2>5, MessageType
  <2>7. Queues(f.ch, m) BY <1>5, <2>1, <2>2, <2>5 DEF Announce, Indication, Queue, Queues
  <2> QED BY <1>5, <2>6, <2>7 DEF Announce, Announces, IsOwn
<1>6. CASE Accumulate(f)
  <2>1. PICK a \in Partials : a = Accumulated(f) BY AccumulatedType
  <2>2. a.data \in Seq(Bytes) /\ a.flags \in SUBSET AllFlags /\ "message" \in Kinds
    BY <2>1 DEF Partials, AllFlags, Kinds
  <2>3. PICK m : m = Message("message", a.data, a.flags) OBVIOUS
  <2>4. m \in Messages /\ m.kind = "message" /\ m.data = a.data /\ m.flags = a.flags
    BY <2>2, <2>3, MessageType
  <2>5. f.end => Queues(f.ch, m) BY <1>6, <2>1, <2>3 DEF Accumulate, Queue, Queues
  <2>6. ~f.end => UNCHANGED queued BY <1>6 DEF Accumulate
  <2>7. /\ partial' = [partial EXCEPT ![f.ch] = Accumulated(f)]
        /\ active' = [active EXCEPT ![f.ch] = ~f.end]
        /\ announced' = [announced EXCEPT ![f.ch] = active[f.ch] /\ announced[f.ch]]
        /\ IsData(f) /\ ~IsAnnouncement(f)
    BY <1>6 DEF Accumulate
  <2>8. IF f.end
        THEN \E n \in Messages : /\ n.kind = "message"
                                 /\ n.data = Accumulated(f).data
                                 /\ n.flags = Accumulated(f).flags
                                 /\ Queues(f.ch, n)
        ELSE UNCHANGED queued
    BY <2>1, <2>4, <2>5, <2>6
  <2> QED BY <2>7, <2>8 DEF Joins
<1> QED BY <1>2, <1>3, <1>4, <1>5, <1>6 DEF AbsorbFrame

\* What becomes of a frame: it, or what it was part of, is lost, or it arrives.
Loses(f) == Ignores /\ cut' = cut \cup {f.id} /\ started' = started

Arrives(f) ==
    /\ cut' = cut
    /\ started' = IF f.start /\ f.ch \in chOpen THEN started \cup {f.id} ELSE started
    /\ \/ f.ch = CAN /\ f.ch \notin chOpen /\ (Ignores \/ Echoes)
       \/ f.ch = ISO15765 /\ f.ch \in chOpen /\ f.ind /\ Echoes
       \/ f.ch = CAN /\ f.ch \in chOpen /\ f.ind
       \/ f.ch = CAN /\ f.ch \in chOpen /\ ~f.ind /\ PassesOn(f)
       \/ IsData(f) /\ IsAnnouncement(f) /\ Announces(f)
       \/ IsData(f) /\ ~IsAnnouncement(f) /\ Joins(f)

HostTypes ==
    /\ partial' \in [Channels -> Partials]
    /\ active' \in [Channels -> BOOLEAN] /\ announced' \in [Channels -> BOOLEAN]
    /\ queued' \in [Channels -> Seq(Messages)]
    /\ losses' \in Nat /\ cut' \subseteq Transfers

LEMMA JoinTypes ==
    ASSUME TypeInv, NEW f \in Frames, AbsorbFrame(f)
    PROVE  /\ partial' \in [Channels -> Partials]
           /\ active' \in [Channels -> BOOLEAN] /\ announced' \in [Channels -> BOOLEAN]
           /\ queued' \in [Channels -> Seq(Messages)]
<1>1. CASE Ignores BY <1>1 DEF Ignores, TypeInv
<1>2. CASE Echoes
  <2>1. queued' \in [Channels -> Seq(Messages)] BY <1>2, QueueTypes DEF Echoes
  <2> QED BY <1>2, <2>1 DEF Echoes, TypeInv
<1>3. CASE PassesOn(f)
  <2>1. queued' \in [Channels -> Seq(Messages)] BY <1>3, QueueTypes DEF PassesOn
  <2> QED BY <1>3, <2>1 DEF PassesOn, TypeInv
<1>4. CASE Announces(f)
  <2>1. queued' \in [Channels -> Seq(Messages)] BY <1>4, QueueTypes DEF Announces
  <2>2. /\ active' = [active EXCEPT ![f.ch] = FALSE]
        /\ announced' = [announced EXCEPT ![f.ch] = f.ch = ISO15765 /\ f.ext]
        /\ UNCHANGED partial
    BY <1>4 DEF Announces
  <2>3. (f.ch = ISO15765 /\ f.ext) \in BOOLEAN OBVIOUS
  <2>4. announced' \in [Channels -> BOOLEAN] BY <2>2, <2>3 DEF TypeInv
  <2> QED BY <2>1, <2>2, <2>4 DEF TypeInv
<1>5. CASE Joins(f)
  <2>1. queued' \in [Channels -> Seq(Messages)]
    <3>1. CASE f.end BY <1>5, <3>1, QueueTypes DEF Joins
    <3>2. CASE ~f.end BY <1>5, <3>2 DEF Joins, TypeInv
    <3> QED BY <3>1, <3>2
  <2>2. PICK a \in Partials : a = Accumulated(f) BY AccumulatedType
  <2>3. partial' \in [Channels -> Partials] BY <1>5, <2>2 DEF Joins, TypeInv
  <2>4. (~f.end) \in BOOLEAN /\ (active[f.ch] /\ announced[f.ch]) \in BOOLEAN OBVIOUS
  <2>5. active' \in [Channels -> BOOLEAN] BY <1>5, <2>4 DEF Joins, TypeInv
  <2>6. announced' \in [Channels -> BOOLEAN] BY <1>5, <2>4 DEF Joins, TypeInv
  <2> QED BY <2>1, <2>3, <2>5, <2>6
<1>6. CASE f.ch = CAN /\ f.ch \in chOpen /\ f.ind
  <2>1. TransmitDone(f) BY <1>6 DEF AbsorbFrame, Closed, TransmitDone, RawFrame, Announce, Accumulate, IsData
  <2>2. PICK g : g = {"TX_MSG_TYPE", "TX_DONE"} \cup Flags(f) OBVIOUS
  <2>3. g \in SUBSET AllFlags /\ "indication" \in Kinds BY <2>2, FlagsType DEF AllFlags, Kinds
  <2>4. PICK m : m = Message("indication", f.data, g) OBVIOUS
  <2>5. m \in Messages BY <2>3, <2>4, MessageType DEF Frames
  <2>6. Queues(f.ch, m) BY <2>1, <2>2, <2>4 DEF TransmitDone, Queue, Queues
  <2>7. queued' \in [Channels -> Seq(Messages)] BY <2>5, <2>6, QueueTypes
  <2> QED BY <2>1, <2>7 DEF TransmitDone, TypeInv
<1> QED BY <1>1, <1>2, <1>3, <1>4, <1>5, <1>6, Absorbed

LEMMA Deliveries ==
    ASSUME TypeInv, NEW f \in Frames, Deliver(f)
    PROVE  HostTypes /\ (Loses(f) \/ Arrives(f))
<1>1. ASSUME AbsorbFrame(f), UNCHANGED losses,
             cut' = IF f.ch \in chOpen \/ f.ch = CAN THEN cut ELSE cut \cup {f.id},
             started' = IF f.start /\ f.ch \in chOpen THEN started \cup {f.id} ELSE started
      PROVE  HostTypes /\ (Loses(f) \/ Arrives(f))
  <2>1. HostTypes BY <1>1, JoinTypes DEF HostTypes, TypeInv, Frames
  <2>2. CASE f.ch \in chOpen \/ f.ch = CAN
    <3>1. cut' = cut BY <1>1, <2>2
    <3>2. \/ f.ch = CAN /\ f.ch \notin chOpen /\ (Ignores \/ Echoes)
          \/ f.ch = ISO15765 /\ f.ch \in chOpen /\ f.ind /\ Echoes
          \/ f.ch = CAN /\ f.ch \in chOpen /\ f.ind
          \/ f.ch = CAN /\ f.ch \in chOpen /\ ~f.ind /\ PassesOn(f)
          \/ IsData(f) /\ IsAnnouncement(f) /\ Announces(f)
          \/ IsData(f) /\ ~IsAnnouncement(f) /\ Joins(f)
      BY <1>1, <2>2, Absorbed
    <3> QED BY <1>1, <2>1, <3>1, <3>2 DEF Arrives
  <2>3. CASE ~(f.ch \in chOpen \/ f.ch = CAN)
    <3>1. Ignores BY <1>1, <2>3, Absorbed DEF IsData
    <3>2. cut' = cut \cup {f.id} BY <1>1, <2>3
    <3>3. started' = started BY <1>1, <2>3
    <3> QED BY <2>1, <3>1, <3>2, <3>3 DEF Loses
  <2> QED BY <2>1, <2>2, <2>3
<1>2. ASSUME losses' = losses + 1, cut' = cut \cup {f.id},
             UNCHANGED <<partial, active, announced, queued, started>>
      PROVE  HostTypes /\ Loses(f)
  BY <1>2 DEF HostTypes, Loses, Ignores, TypeInv, Frames
<1> QED BY <1>1, <1>2 DEF Deliver

(***************************************************************************)
(* Queues and what has been sent, one more of each.                        *)
(***************************************************************************)
\* w2 is w or goes on from it.
Extends(w, w2) == DOMAIN w \subseteq DOMAIN w2 /\ \A k \in DOMAIN w : w2[k] = w[k]

LEMMA AppendExtends ==
    ASSUME NEW S, NEW w \in Seq(S), NEW t \in S
    PROVE  Extends(w, Append(w, t)) /\ Extends(w, w)
BY AppendProperties, LenProperties DEF Extends

LEMMA GoodStays ==
    ASSUME NEW q, NEW c, NEW w, NEW w2, Extends(w, w2), NEW lost, NEW lost2, lost \subseteq lost2,
           NEW n \in Nat, NEW n2 \in Nat, n <= n2, NEW st, NEW st2, st2 \subseteq st \cup {n + 1},
           Good(q, c, w, lost, n, st)
    PROVE  Good(q, c, w2, lost2, n2, st2)
<1> SUFFICES ASSUME NEW i \in DOMAIN q, IsOwn(q[i]), NEW d, d = q[i].data
             PROVE  Fair(d, c, w2, lost2) /\ Parts(d) \subseteq 1 .. n2 /\ Pure(Parts(d), st2)
  BY DEF Good
<1>1. Fair(d, c, w, lost) /\ Parts(d) \subseteq 1 .. n /\ Pure(Parts(d), st) BY DEF Good
<1>2. Fair(d, c, w2, lost2) BY <1>1 DEF Fair, Extends
<1>3. Parts(d) \subseteq 1 .. n2 BY <1>1
<1>4. n + 1 \notin Parts(d) BY <1>1
<1>5. Pure(Parts(d), st2) BY <1>1, <1>4 DEF Pure
<1> QED BY <1>2, <1>3, <1>5

LEMMA GoodMore ==
    ASSUME NEW q \in Seq(Messages), NEW m \in Messages, NEW c, NEW w, NEW lost, NEW n, NEW st,
           Good(q, c, w, lost, n, st),
           IsOwn(m) => /\ Fair(m.data, c, w, lost)
                       /\ Parts(m.data) \subseteq 1 .. n
                       /\ Pure(Parts(m.data), st)
    PROVE  Good(Append(q, m), c, w, lost, n, st)
<1>1. PICK l \in Nat : l = Len(q) BY LenProperties
<1>2. PICK r : r = Append(q, m) OBVIOUS
<1>3. /\ r \in Seq(Messages) /\ DOMAIN r = 1 .. l + 1 /\ DOMAIN q = 1 .. l
      /\ \A i \in 1 .. l : r[i] = q[i]
      /\ r[l + 1] = m
  BY <1>1, <1>2, AppendProperties, LenProperties
<1> SUFFICES ASSUME NEW i \in 1 .. l + 1, IsOwn(r[i])
             PROVE  /\ Fair(r[i].data, c, w, lost)
                    /\ Parts(r[i].data) \subseteq 1 .. n
                    /\ Pure(Parts(r[i].data), st)
  BY <1>2, <1>3 DEF Good
<1>4. CASE i \in 1 .. l BY <1>3, <1>4 DEF Good
<1>5. CASE i = l + 1 BY <1>3, <1>5
<1> QED BY <1>4, <1>5

LEMMA FaithfulSame ==
    ASSUME NEW q \in Seq(Messages), NEW m \in Messages, ~IsOwn(m), NEW c, NEW w,
           Faithful(c, q, w)
    PROVE  Faithful(c, Append(q, m), w)
<1>1. PICK l \in Nat : l = Len(q) BY LenProperties
<1>2. PICK r : r = Append(q, m) OBVIOUS
<1>3. /\ DOMAIN r = 1 .. l + 1 /\ DOMAIN q = 1 .. l
      /\ \A i \in 1 .. l : r[i] = q[i]
      /\ r[l + 1] = m
  BY <1>1, <1>2, AppendProperties, LenProperties
<1>4. Own(r) = Own(q)
  <2>1. \A i \in 1 .. l + 1 : i \in 1 .. l \/ i = l + 1 OBVIOUS
  <2>2. 1 .. l \subseteq 1 .. l + 1 OBVIOUS
  <2> QED BY <1>3, <2>1, <2>2 DEF Own
<1>5. \A i \in Own(q) : r[i] = q[i] BY <1>3 DEF Own
<1>6. PICK place \in [DOMAIN w -> Own(q)] :
          /\ Own(q) = {place[k] : k \in DOMAIN w}
          /\ \A j, k \in DOMAIN w : j < k => place[j] < place[k]
          /\ \A k \in DOMAIN w : Is(q[place[k]], c, w[k])
  BY DEF Faithful
<1>7. \A k \in DOMAIN w : Is(r[place[k]], c, w[k]) BY <1>5, <1>6
<1>8. Faithful(c, r, w) BY <1>4, <1>6, <1>7 DEF Faithful
<1> QED BY <1>2, <1>8

LEMMA FaithfulMore ==
    ASSUME NEW q \in Seq(Messages), NEW m \in Messages, IsOwn(m), NEW c,
           NEW w \in Seq(Sent), NEW t \in Sent, Is(m, c, t),
           Faithful(c, q, w)
    PROVE  Faithful(c, Append(q, m), Append(w, t))
<1>1. PICK l \in Nat : l = Len(q) BY LenProperties
<1>2. PICK r : r = Append(q, m) OBVIOUS
<1>3. /\ DOMAIN r = 1 .. l + 1 /\ DOMAIN q = 1 .. l
      /\ \A i \in 1 .. l : r[i] = q[i]
      /\ r[l + 1] = m
  BY <1>1, <1>2, AppendProperties, LenProperties
<1>4. PICK h \in Nat : h = Len(w) BY LenProperties
<1>5. PICK v : v = Append(w, t) OBVIOUS
<1>6. /\ DOMAIN v = 1 .. h + 1 /\ DOMAIN w = 1 .. h
      /\ \A k \in 1 .. h : v[k] = w[k]
      /\ v[h + 1] = t
  BY <1>4, <1>5, AppendProperties, LenProperties
<1>7. Own(r) = Own(q) \cup {l + 1} /\ Own(q) \subseteq 1 .. l
  <2>1. \A i \in 1 .. l + 1 : i \in 1 .. l \/ i = l + 1 OBVIOUS
  <2>2. 1 .. l \subseteq 1 .. l + 1 /\ l + 1 \in 1 .. l + 1 OBVIOUS
  <2> QED BY <1>3, <2>1, <2>2 DEF Own
<1>8. PICK place \in [1 .. h -> Own(q)] :
          /\ Own(q) = {place[k] : k \in 1 .. h}
          /\ \A j, k \in 1 .. h : j < k => place[j] < place[k]
          /\ \A k \in 1 .. h : Is(q[place[k]], c, w[k])
  BY <1>6 DEF Faithful
<1>9. PICK new : new = [k \in 1 .. h + 1 |-> IF k = h + 1 THEN l + 1 ELSE place[k]] OBVIOUS
<1>10. \A k \in 1 .. h + 1 : k \in 1 .. h \/ k = h + 1 OBVIOUS
<1>11. /\ \A k \in 1 .. h : new[k] = place[k] /\ place[k] \in Own(q) /\ new[k] \in 1 .. l
       /\ new[h + 1] = l + 1
  <2>1. \A k \in 1 .. h : k \in 1 .. h + 1 /\ k # h + 1 OBVIOUS
  <2>2. h + 1 \in 1 .. h + 1 OBVIOUS
  <2> QED BY <1>7, <1>8, <1>9, <2>1, <2>2
<1>12. new \in [1 .. h + 1 -> Own(r)]
  <2>1. \A k \in 1 .. h + 1 : new[k] \in Own(r) BY <1>7, <1>10, <1>11
  <2> QED BY <1>9, <2>1
<1>13. Own(r) = {new[k] : k \in 1 .. h + 1}
  <2>1. 1 .. h \subseteq 1 .. h + 1 /\ h + 1 \in 1 .. h + 1 OBVIOUS
  <2>2. {new[k] : k \in 1 .. h + 1} \subseteq Own(r) BY <1>12
  <2>3. Own(q) \subseteq {new[k] : k \in 1 .. h + 1} BY <1>8, <1>11, <2>1
  <2>4. l + 1 \in {new[k] : k \in 1 .. h + 1} BY <1>11, <2>1
  <2> QED BY <1>7, <2>2, <2>3, <2>4
<1>14. ASSUME NEW j \in 1 .. h + 1, NEW k \in 1 .. h + 1, j < k PROVE new[j] < new[k]
  <2>1. j \in 1 .. h BY <1>14
  <2>2. CASE k \in 1 .. h BY <1>8, <1>11, <1>14, <2>1, <2>2
  <2>3. CASE k = h + 1
    <3>1. new[j] \in 1 .. l /\ new[k] = l + 1 BY <1>11, <2>1, <2>3
    <3> QED BY <3>1
  <2> QED BY <1>10, <2>2, <2>3
<1>15. ASSUME NEW k \in 1 .. h + 1 PROVE Is(r[new[k]], c, v[k])
  <2>1. CASE k \in 1 .. h
    <3>1. r[new[k]] = q[place[k]] BY <1>3, <1>11, <2>1
    <3> QED BY <1>6, <1>8, <2>1, <3>1
  <2>2. CASE k = h + 1 BY <1>3, <1>6, <1>11, <2>2
  <2> QED BY <1>10, <2>1, <2>2
<1>16. Faithful(c, r, v) BY <1>6, <1>12, <1>13, <1>14, <1>15 DEF Faithful
<1> QED BY <1>2, <1>5, <1>16
-----------------------------------------------------------------------------
(***************************************************************************)
(* A channel that a step is not about.                                     *)
(***************************************************************************)
Keeps(d) ==
    /\ partial'[d] = partial[d] /\ active'[d] = active[d] /\ announced'[d] = announced[d]
    /\ sending'[d] = sending[d] /\ whole'[d] = whole[d]
    /\ d \in chOpen => d \in chOpen'
    /\ \/ queued'[d] = queued[d]
       \/ \E m \in Messages : ~IsOwn(m) /\ queued'[d] = Append(queued[d], m)

\* What no step takes back.
Grows ==
    /\ transfers <= transfers' /\ cut \subseteq cut'
    /\ started' \subseteq started \cup {transfers + 1}

LEMMA Types ==
    ASSUME TypeInv
    PROVE  /\ transfers \in Nat
           /\ \A c \in Channels :
                 /\ partial[c] \in Partials /\ partial[c].data \in Seq(Bytes)
                 /\ Len(partial[c].data) <= PartialMax
                 /\ active[c] \in BOOLEAN /\ announced[c] \in BOOLEAN
                 /\ queued[c] \in Seq(Messages)
                 /\ sending[c] \in Underway /\ whole[c] \in Seq(Sent)
                 /\ sending[c].id \in Nat /\ sending[c].next \in Nat /\ sending[c].last \in Nat
                 /\ sending[c].ext \in BOOLEAN /\ sending[c].loop \in BOOLEAN
<1>1. transfers \in Nat BY Sizes DEF TypeInv
<1>2. ASSUME NEW c \in Channels
      PROVE  /\ partial[c] \in Partials
             /\ active[c] \in BOOLEAN /\ announced[c] \in BOOLEAN
             /\ queued[c] \in Seq(Messages)
             /\ sending[c] \in Underway /\ whole[c] \in Seq(Sent)
  BY <1>2 DEF TypeInv
<1>3. ASSUME NEW c \in Channels
      PROVE  partial[c].data \in Seq(Bytes) /\ Len(partial[c].data) <= PartialMax
  BY <1>2 DEF Partials
<1>4. ASSUME NEW c \in Channels
      PROVE  /\ sending[c].id \in Nat /\ sending[c].next \in Nat /\ sending[c].last \in Nat
             /\ sending[c].ext \in BOOLEAN /\ sending[c].loop \in BOOLEAN
  BY <1>2 DEF Underway
<1> QED BY <1>1, <1>2, <1>3, <1>4

\* A transfer on its way is one of IsTransfer's.
LEMMA UnderwayIs ==
    ASSUME TypeInv, NEW c \in Channels, NEW t \in Underway, Sendable(c, t, transfers)
    PROVE  /\ IsTransfer(c, t) /\ t.id \in 1 .. transfers
           /\ t.next \in 1 .. t.last + 1 /\ t.last \in 1 .. MaxData /\ t.last <= MaxData
           /\ c # CAN
<1>1. t.id \in 1 .. MaxTransfers BY Sizes DEF Sendable, TypeInv
<1> QED BY <1>1, Sizes DEF Sendable, IsTransfer, Transfers, Underway

\* What has been joined of a transfer holds it.
LEMMA JoinedHolds ==
    ASSUME TypeInv, NEW c \in Channels, SendInv(c),
           sending[c] # NoTransfer, sending[c].id \notin cut, sending[c].next > 1
    PROVE  Parts(partial[c].data) = {sending[c].id}
<1>1. PICK t \in Underway : t = sending[c] BY Types
<1>2. IsTransfer(c, t) /\ t.next \in 1 .. t.last + 1 /\ t.last \in 1 .. MaxData
  BY <1>1, UnderwayIs DEF SendInv
<1>3. partial[c].data = First(c, t, t.next - 1) BY <1>1 DEF SendInv, Joined
<1>4. PICK k \in 0 .. MaxData : k = t.next - 1 /\ k >= 1 BY <1>1, <1>2, Sizes
<1> QED BY <1>1, <1>2, <1>3, <1>4, FirstIs

\* What a channel's queue holds stays as good when nothing of its own is added.
LEMMA QuietQueue ==
    ASSUME TypeInv, TypeInv', NEW d \in Channels, Grows, QueueInv(d), FaithInv(d),
           whole'[d] = whole[d],
           \/ queued'[d] = queued[d]
           \/ \E m \in Messages : ~IsOwn(m) /\ queued'[d] = Append(queued[d], m)
    PROVE  QueueInv(d)' /\ FaithInv(d)'
<1>1. PICK N \in Nat : N = transfers BY Types
<1>2. PICK M \in Nat : M = transfers' /\ N <= M
  <2>1. transfers' \in Nat BY Sizes DEF TypeInv
  <2> QED BY <1>1, <2>1 DEF Grows
<1>3. PICK q \in Seq(Messages) : q = queued[d] BY Types
<1>4. PICK w : w = whole[d] /\ w = whole'[d] OBVIOUS
<1>5. QueueInv(d)'
  <2>1. Good(q, d, w, cut, N, started) BY <1>1, <1>3, <1>4 DEF QueueInv
  <2>2. Extends(w, w) BY DEF Extends
  <2>3. cut \subseteq cut' /\ started' \subseteq started \cup {N + 1} BY <1>1 DEF Grows
  <2>4. Good(q, d, w, cut', M, started') BY <1>2, <2>1, <2>2, <2>3, GoodStays
  <2>5. Good(queued'[d], d, w, cut', M, started')
    <3>1. CASE queued'[d] = queued[d] BY <1>3, <2>4, <3>1
    <3>2. CASE \E m \in Messages : ~IsOwn(m) /\ queued'[d] = Append(queued[d], m)
      BY <1>3, <2>4, <3>2, GoodMore
    <3> QED BY <3>1, <3>2
  <2> QED BY <1>2, <1>4, <2>5 DEF QueueInv
<1>6. FaithInv(d)'
  <2> SUFFICES ASSUME cut' = {} PROVE Faithful(d, queued'[d], w)
    BY <1>4 DEF FaithInv
  <2>1. cut = {} BY DEF Grows
  <2>2. Faithful(d, q, w) BY <1>3, <1>4, <2>1 DEF FaithInv
  <2>3. CASE queued'[d] = queued[d] BY <1>3, <2>2, <2>3
  <2>4. CASE \E m \in Messages : ~IsOwn(m) /\ queued'[d] = Append(queued[d], m)
    BY <1>3, <2>2, <2>4, FaithfulSame
  <2> QED BY <2>3, <2>4
<1> QED BY <1>5, <1>6

\* So it does when a message s of its own is sent to its end and queued.
LEMMA MessageQueue ==
    ASSUME TypeInv, TypeInv', NEW c \in Channels, Grows, QueueInv(c), FaithInv(c), cut' = cut,
           NEW s \in Sent, whole'[c] = Append(whole[c], s),
           NEW m \in Messages, IsOwn(m), queued'[c] = Append(queued[c], m),
           m.data = Whole(c, s) \/ Parts(m.data) \cap cut # {} \/ m.data = <<>>,
           cut = {} => Is(m, c, s),
           Parts(m.data) \subseteq 1 .. transfers', Pure(Parts(m.data), started')
    PROVE  QueueInv(c)' /\ FaithInv(c)'
<1>1. PICK N \in Nat : N = transfers BY Types
<1>2. PICK M \in Nat : M = transfers' /\ N <= M
  <2>1. transfers' \in Nat BY Sizes DEF TypeInv
  <2> QED BY <1>1, <2>1 DEF Grows
<1>3. PICK q \in Seq(Messages) : q = queued[c] BY Types
<1>4. PICK w \in Seq(Sent) : w = whole[c] BY Types
<1>5. PICK w2 : w2 = Append(w, s) OBVIOUS
<1>6. Good(q, c, w2, cut, M, started')
  <2>1. Good(q, c, w, cut, N, started) BY <1>1, <1>3, <1>4 DEF QueueInv
  <2>2. Extends(w, w2) BY <1>5, AppendExtends
  <2>3. started' \subseteq started \cup {N + 1} BY <1>1 DEF Grows
  <2> QED BY <1>2, <2>1, <2>2, <2>3, GoodStays
<1>7. Fair(m.data, c, w2, cut)
  <2>1. Len(w) + 1 \in DOMAIN w2 /\ w2[Len(w) + 1] = s
    BY <1>5, AppendProperties, LenProperties
  <2> QED BY <2>1 DEF Fair
<1>8. Good(Append(q, m), c, w2, cut, M, started') BY <1>2, <1>6, <1>7, GoodMore
<1>9. QueueInv(c)' BY <1>2, <1>3, <1>4, <1>5, <1>8 DEF QueueInv
<1>10. FaithInv(c)' BY <1>3, <1>4, FaithfulMore DEF FaithInv
<1> QED BY <1>9, <1>10

LEMMA KeepsInv ==
    ASSUME TypeInv, TypeInv', NEW d \in Channels, Keeps(d), Grows, ChannelInv(d)
    PROVE  ChannelInv(d)'
<1>1. PICK t \in Underway : t = sending[d] /\ t = sending'[d] BY Types DEF Keeps
<1>2. PICK p \in Partials : p = partial[d] /\ p = partial'[d] BY Types DEF Keeps
<1>3. PICK N \in Nat : N = transfers BY Types
<1>4. PICK M \in Nat : M = transfers' /\ N <= M
  <2>1. transfers' \in Nat BY Sizes DEF TypeInv
  <2> QED BY <1>3, <2>1 DEF Grows
<1>5. SendInv(d)'
  <2>1. t # NoTransfer => Sendable(d, t, M)
    <3>1. t # NoTransfer => Sendable(d, t, N) BY <1>1, <1>3 DEF ChannelInv, SendInv
    <3> QED BY <1>4, <3>1 DEF Sendable
  <2>2. t # NoTransfer /\ t.id \notin cut' =>
           d \in chOpen' /\ Joined(d, t, p, active'[d], announced'[d])
    BY <1>1, <1>2 DEF ChannelInv, SendInv, Keeps, Grows
  <2>3. t = NoTransfer /\ cut' = {} => ~announced'[d]
    BY <1>1 DEF ChannelInv, SendInv, Keeps, Grows
  <2> QED BY <1>1, <1>2, <1>4, <2>1, <2>2, <2>3 DEF SendInv
<1>6. PartInv(d)'
  <2> SUFFICES ASSUME active'[d]
               PROVE \/ Parts(p.data) \cap cut' # {}
                     \/ t # NoTransfer /\ t.id \notin cut' /\ t.next > 1
    BY <1>1, <1>2 DEF PartInv
  <2>1. \/ Parts(p.data) \cap cut # {}
        \/ t # NoTransfer /\ t.id \notin cut /\ t.next > 1
    BY <1>1, <1>2 DEF ChannelInv, PartInv, Keeps
  <2>2. CASE Parts(p.data) \cap cut # {} BY <2>2 DEF Grows
  <2>3. CASE t # NoTransfer /\ t.id \notin cut /\ t.next > 1
    <3>1. Parts(p.data) = {t.id} BY <1>1, <1>2, <2>3, JoinedHolds DEF ChannelInv
    <3> QED BY <2>3, <3>1
  <2> QED BY <2>1, <2>2, <2>3
<1>7. PureInv(d)'
  <2>1. PICK ids : ids = Parts(p.data) OBVIOUS
  <2>2. /\ ids \subseteq 1 .. N
        /\ t # NoTransfer => \A u \in ids : u <= t.id
        /\ active'[d] => Pure(ids, started)
        /\ active'[d] /\ t # NoTransfer /\ t.id \in started => \A u \in ids : u >= t.id
    BY <1>1, <1>2, <1>3, <2>1 DEF ChannelInv, PureInv, Keeps
  <2>3. ids \subseteq 1 .. M BY <1>4, <2>2
  <2>4. started' \subseteq started \cup {N + 1} BY <1>3 DEF Grows
  <2>5. N + 1 \notin ids BY <2>2
  <2>6. active'[d] => Pure(ids, started') BY <2>2, <2>4, <2>5 DEF Pure
  <2>7. t # NoTransfer => t.id <= N
    BY <1>1, <1>3 DEF ChannelInv, SendInv, Sendable
  <2>8. active'[d] /\ t # NoTransfer /\ t.id \in started' => \A u \in ids : u >= t.id
    BY <2>2, <2>4, <2>7
  <2> QED BY <1>1, <1>2, <1>4, <2>1, <2>2, <2>3, <2>6, <2>8 DEF PureInv
<1>8. QueueInv(d)' /\ FaithInv(d)' BY QuietQueue DEF ChannelInv, Keeps
<1> QED BY <1>5, <1>6, <1>7, <1>8 DEF ChannelInv

(***************************************************************************)
(* The channel of a frame that is lost, or falls on a closed channel.      *)
(***************************************************************************)
\* The transfer t the frame is of is what is being sent, or begins with it;
\* t2 is what is then being sent of it.
LEMMA LossInv ==
    ASSUME TypeInv, TypeInv', NEW c \in Channels, ChannelInv(c), Grows,
           UNCHANGED <<partial, active, announced, queued>>,
           NEW i \in Nat, cut' = cut \cup {i}, started' = started,
           \/ sending[c] # NoTransfer /\ i = sending[c].id
           \/ sending[c] = NoTransfer /\ i = transfers + 1 /\ transfers' = transfers + 1,
           sending'[c] # NoTransfer => /\ sending'[c].id = i
                                       /\ Sendable(c, sending'[c], transfers'),
           Extends(whole[c], whole'[c])
    PROVE  ChannelInv(c)'
<1>1. PICK t \in Underway : t = sending[c] BY Types
<1>2. PICK u \in Underway : u = sending'[c] BY DEF TypeInv
<1>3. PICK N \in Nat : N = transfers BY Types
<1>4. PICK M \in Nat : M = transfers' /\ N <= M
  <2>1. transfers' \in Nat BY Sizes DEF TypeInv
  <2> QED BY <1>3, <2>1 DEF Grows
<1>5. i \in cut' OBVIOUS
<1>6. SendInv(c)' BY <1>5 DEF SendInv
<1>7. PICK ids : ids = Parts(partial[c].data) OBVIOUS
<1>8. PartInv(c)'
  <2> SUFFICES ASSUME active[c] PROVE ids \cap cut' # {}
    BY <1>7 DEF PartInv
  <2>1. \/ ids \cap cut # {}
        \/ t # NoTransfer /\ t.id \notin cut /\ t.next > 1
    BY <1>1, <1>7 DEF ChannelInv, PartInv
  <2>2. CASE ids \cap cut # {} BY <2>2
  <2>3. CASE t # NoTransfer /\ t.id \notin cut /\ t.next > 1
    <3>1. ids = {t.id} BY <1>1, <1>7, <2>3, JoinedHolds DEF ChannelInv
    <3>2. i = t.id BY <1>1, <2>3
    <3> QED BY <1>5, <3>1, <3>2
  <2> QED BY <2>1, <2>2, <2>3
<1>9. PureInv(c)'
  <2>1. /\ ids \subseteq 1 .. N
        /\ t # NoTransfer => \A v \in ids : v <= t.id
        /\ active[c] => Pure(ids, started)
        /\ active[c] /\ t # NoTransfer /\ t.id \in started => \A v \in ids : v >= t.id
    BY <1>1, <1>3, <1>7 DEF ChannelInv, PureInv
  <2>2. ids \subseteq 1 .. M BY <1>4, <2>1
  <2>3. started \subseteq 1 .. N BY <1>3 DEF TypeInv
  <2>4. ASSUME u # NoTransfer PROVE \A v \in ids : v <= u.id
    <3>1. u.id = i BY <1>2, <2>4
    <3>2. CASE t # NoTransfer /\ i = t.id BY <2>1, <3>1, <3>2
    <3>3. CASE i = N + 1 BY <2>1, <3>1, <3>3
    <3> QED BY <1>1, <1>3, <3>2, <3>3
  <2>5. ASSUME active[c], u # NoTransfer, u.id \in started PROVE \A v \in ids : v >= u.id
    <3>1. u.id = i BY <1>2, <2>5
    <3>2. CASE t # NoTransfer /\ i = t.id BY <2>1, <2>5, <3>1, <3>2
    <3>3. CASE i = N + 1 BY <2>3, <2>5, <3>1, <3>3
    <3> QED BY <1>1, <1>3, <3>2, <3>3
  <2> QED BY <1>2, <1>4, <1>7, <2>1, <2>2, <2>4, <2>5 DEF PureInv
<1>10. QueueInv(c)'
  <2>1. Good(queued[c], c, whole[c], cut, N, started) BY <1>3 DEF ChannelInv, QueueInv
  <2>2. Good(queued[c], c, whole'[c], cut', M, started') BY <1>4, <2>1, GoodStays
  <2> QED BY <1>4, <2>2 DEF QueueInv
<1>11. FaithInv(c)' BY <1>5 DEF FaithInv
<1> QED BY <1>6, <1>8, <1>9, <1>10, <1>11 DEF ChannelInv
-----------------------------------------------------------------------------
(***************************************************************************)
(* A transfer begins.                                                      *)
(***************************************************************************)
LEMMA BegunIs ==
    ASSUME TypeInv, NEW c \in Channels, NewTransfer(c), NEW t \in Begun(c)
    PROVE  /\ t \in Underway /\ t # NoTransfer
           /\ t.id = transfers + 1 /\ t.next = 1 /\ t.last \in 1 .. MaxData
           /\ t.id \in Transfers /\ transfers' = t.id /\ transfers' \in 0 .. MaxTransfers
           /\ t.ext \in BOOLEAN /\ t.loop \in BOOLEAN /\ (c # ISO15765 => ~t.ext)
           /\ IsTransfer(c, t)
           /\ sending[c] = NoTransfer
<1>1. PICK N \in Nat : N = transfers BY Types
<1>2. N < MaxTransfers /\ transfers' = N + 1 /\ sending[c] = NoTransfer BY <1>1 DEF NewTransfer
<1>3. /\ t.id = N + 1 /\ t.next = 1 /\ t.last \in 1 .. MaxData
      /\ t.ext \in BOOLEAN /\ t.loop \in BOOLEAN /\ (c # ISO15765 => ~t.ext)
  BY <1>1 DEF Begun
<1>4. t \in [id : {N + 1}, next : {1}, last : 1 .. MaxData, ext : BOOLEAN, loop : BOOLEAN]
  BY <1>1 DEF Begun
<1>5. N + 1 \in Nat /\ 1 \in Nat /\ 1 .. MaxData \subseteq Nat BY Sizes
<1>6. t \in Underway BY <1>4, <1>5 DEF Underway
<1>7. NoTransfer.id = 0 BY DEF NoTransfer
<1>8. t # NoTransfer BY <1>3, <1>7
<1>9. t.id \in Transfers /\ transfers' \in 0 .. MaxTransfers BY <1>2, <1>3, Sizes DEF Transfers
<1>10. IsTransfer(c, t) BY <1>3, <1>9 DEF IsTransfer
<1>11. t.id = transfers + 1 /\ transfers' = t.id BY <1>1, <1>2, <1>3
<1> QED BY <1>2, <1>3, <1>6, <1>8, <1>9, <1>10, <1>11

LEMMA FrameType ==
    ASSUME NEW c \in Channels, NEW t, t.id \in Transfers, t.loop \in BOOLEAN, t.ext \in BOOLEAN
    PROVE  Frame(c, t) \in Frames
<1>1. <<>> \in {s \in Seq(Bytes) : Len(s) <= PartialMax} BY Sizes
<1> QED BY <1>1 DEF Frame, Frames

LEMMA StartStep ==
    ASSUME IInv, NEW c \in Channels, SendStart(c)
    PROVE  IInv'
<1>1. TypeInv /\ \A d \in Channels : ChannelInv(d) BY DEF IInv
<1>2. PICK t \in Begun(c) :
          /\ sending' = [sending EXCEPT ![c] = t]
          /\ Deliver([Frame(c, t) EXCEPT !.start = TRUE,
                        !.data = IF c = ISO15765 THEN CanId(t) ELSE <<>>])
  BY DEF SendStart
<1>3. NewTransfer(c) /\ c # CAN /\ whole' = whole /\ c \in chOpen
  BY DEF SendStart, NewTransfer
<1>4. /\ t \in Underway /\ t # NoTransfer
      /\ t.id = transfers + 1 /\ t.next = 1 /\ t.last \in 1 .. MaxData
      /\ t.id \in Transfers /\ transfers' = t.id /\ transfers' \in 0 .. MaxTransfers
      /\ t.ext \in BOOLEAN /\ t.loop \in BOOLEAN /\ (c # ISO15765 => ~t.ext)
      /\ IsTransfer(c, t)
      /\ sending[c] = NoTransfer
  BY <1>1, <1>3, BegunIs
<1>5. PICK d \in Seq(Bytes) : d = (IF c = ISO15765 THEN CanId(t) ELSE <<>>) /\ Len(d) <= PartialMax
  <2>1. CASE c = ISO15765
    <3>1. CanId(t) \in Seq(Bytes) /\ Len(CanId(t)) = (IF t.ext THEN 5 ELSE 4)
      BY <1>4, IdIsBytes
    <3>2. Len(CanId(t)) <= PartialMax BY <3>1, Sizes
    <3> QED BY <2>1, <3>1, <3>2
  <2>2. CASE c # ISO15765
    <3>1. <<>> \in Seq(Bytes) /\ Len(<<>>) = 0 /\ 0 <= PartialMax BY Sizes
    <3> QED BY <2>2, <3>1
  <2> QED BY <2>1, <2>2
<1>6. PICK f : f = [Frame(c, t) EXCEPT !.start = TRUE, !.data = d] OBVIOUS
<1>7. f \in Frames
  <2>1. Frame(c, t) \in Frames BY <1>4, FrameType
  <2> QED BY <1>5, <1>6, <2>1 DEF Frames
<1>8. Deliver(f) BY <1>2, <1>5, <1>6
<1>9. HostTypes /\ (Loses(f) \/ Arrives(f)) BY <1>1, <1>7, <1>8, Deliveries
<1>10. /\ f.ch = c /\ f.id = t.id /\ f.start /\ ~f.end /\ ~f.ind /\ f.ext = t.ext
  BY <1>6 DEF Frame
<1>11. started' \subseteq started \cup {t.id} BY <1>9, <1>10 DEF Loses, Arrives
<1>12. TypeInv'
  <2>1. chOpen' = chOpen /\ resets' = resets BY <1>3 DEF NewTransfer
  <2>2. sending' \in [Channels -> Underway] BY <1>1, <1>2, <1>4 DEF TypeInv
  <2>3. started \subseteq 1 .. transfers /\ transfers \in Nat BY <1>1, Types DEF TypeInv
  <2>4. started' \subseteq 1 .. transfers' BY <1>4, <1>11, <2>3
  <2> QED BY <1>1, <1>3, <1>4, <1>9, <2>1, <2>2, <2>4 DEF TypeInv, HostTypes
<1>13. Grows
  <2>1. cut \subseteq cut' BY <1>9 DEF Loses, Arrives
  <2>2. transfers \in Nat BY <1>1, Types
  <2> QED BY <1>4, <1>11, <2>1, <2>2 DEF Grows
<1>14. Loses(f) \/ (cut' = cut /\ Announces(f))
  BY <1>3, <1>9, <1>10 DEF Arrives, IsAnnouncement
<1>15. ASSUME NEW e \in Channels, e # c PROVE Keeps(e)
  <2>1. sending'[e] = sending[e] /\ whole'[e] = whole[e] /\ chOpen' = chOpen
    BY <1>1, <1>2, <1>3, <1>15 DEF TypeInv, NewTransfer
  <2>2. CASE Loses(f) BY <2>1, <2>2 DEF Loses, Ignores, Keeps
  <2>3. CASE Announces(f)
    <3>1. queued'[e] = queued[e] /\ active'[e] = active[e] /\ announced'[e] = announced[e]
          /\ partial' = partial
      BY <1>1, <1>10, <1>15, <2>3 DEF Announces, Queues, TypeInv
    <3> QED BY <2>1, <3>1 DEF Keeps
  <2> QED BY <1>14, <2>2, <2>3
<1>16. ChannelInv(c)'
  <2>1. sending'[c] = t BY <1>1, <1>2 DEF TypeInv
  <2>2. Sendable(c, t, transfers')
    <3>1. t.id \in 1 .. transfers' /\ t.next \in 1 .. t.last + 1 /\ t.next <= t.last
      BY <1>4, Sizes DEF Transfers
    <3>2. c # CAN /\ t.last \in 1 .. MaxData /\ (c # ISO15765 => ~t.ext) BY <1>3, <1>4
    <3> QED BY <3>1, <3>2 DEF Sendable
  <2>3. CASE Loses(f)
    <3>1. Extends(whole[c], whole'[c]) BY <1>3 DEF Extends
    <3>2. t.id \in Nat BY <1>4, Sizes DEF Transfers
    <3> QED BY <1>1, <1>4, <1>10, <1>12, <1>13, <2>1, <2>2, <2>3, <3>1, <3>2, LossInv
          DEF Loses, Ignores
  <2>4. CASE cut' = cut /\ Announces(f)
    <3>1. PICK m \in Messages :
             /\ ~IsOwn(m) /\ Queues(c, m)
             /\ active' = [active EXCEPT ![c] = FALSE]
             /\ announced' = [announced EXCEPT ![c] = c = ISO15765 /\ t.ext]
             /\ UNCHANGED partial
      BY <1>10, <2>4 DEF Announces
    <3>2. ~active'[c] /\ (announced'[c] <=> t.ext)
      <4>1. active'[c] = FALSE BY <1>1, <3>1 DEF TypeInv
      <4>2. announced'[c] = (c = ISO15765 /\ t.ext) BY <1>1, <3>1 DEF TypeInv
      <4>3. c # ISO15765 => ~t.ext BY <1>4
      <4> QED BY <4>1, <4>2, <4>3
    <3>3. SendInv(c)'
      <4>1. Joined(c, t, partial'[c], active'[c], announced'[c]) BY <1>4, <3>2 DEF Joined
      <4>2. c \in chOpen' BY <1>3 DEF NewTransfer
      <4> QED BY <1>4, <2>1, <2>2, <4>1, <4>2 DEF SendInv
    <3>4. PartInv(c)' BY <3>2 DEF PartInv
    <3>5. PureInv(c)'
      <4>1. PICK ids : ids = Parts(partial[c].data) /\ ids = Parts(partial'[c].data) BY <3>1
      <4>2. PICK N \in Nat : N = transfers BY <1>1, Types
      <4>3. ids \subseteq 1 .. N BY <1>1, <4>1, <4>2 DEF ChannelInv, PureInv
      <4>4. t.id = N + 1 /\ transfers' = N + 1 BY <1>4, <4>2
      <4>5. ids \subseteq 1 .. transfers' /\ \A u \in ids : u <= t.id BY <4>3, <4>4
      <4> QED BY <2>1, <3>2, <4>1, <4>5 DEF PureInv
    <3>6. QueueInv(c)' /\ FaithInv(c)'
      <4>1. queued'[c] = Append(queued[c], m) BY <1>1, <3>1 DEF Queues, TypeInv
      <4> QED BY <1>1, <1>3, <1>12, <1>13, <3>1, <4>1, QuietQueue DEF ChannelInv
    <3> QED BY <3>3, <3>4, <3>5, <3>6 DEF ChannelInv
  <2> QED BY <1>14, <2>3, <2>4
<1>17. \A e \in Channels : ChannelInv(e)'
  <2>1. \A e \in Channels : e # c => ChannelInv(e)' BY <1>1, <1>12, <1>13, <1>15, KeepsInv
  <2> QED BY <1>16, <2>1
<1> QED BY <1>12, <1>17 DEF IInv

\* What is left alone on the channels d other than c.
LEMMA OthersKeep ==
    ASSUME TypeInv, NEW c, NEW f \in Frames, f.ch = c, Loses(f) \/ PassesOn(f) \/ Joins(f),
           NEW d \in Channels, d # c, chOpen' = chOpen,
           sending'[d] = sending[d], whole'[d] = whole[d]
    PROVE  Keeps(d)
<1>1. CASE Loses(f) BY <1>1 DEF Loses, Ignores, Keeps
<1>2. CASE PassesOn(f)
  <2>1. queued'[d] = queued[d] BY <1>2 DEF PassesOn, Queues, TypeInv
  <2> QED BY <1>2, <2>1 DEF PassesOn, Keeps
<1>3. CASE Joins(f)
  <2>1. queued'[d] = queued[d]
    <3>1. CASE f.end BY <1>3, <3>1 DEF Joins, Queues, TypeInv
    <3>2. CASE ~f.end BY <1>3, <3>2 DEF Joins
    <3> QED BY <3>1, <3>2
  <2>2. partial'[d] = partial[d] /\ active'[d] = active[d] /\ announced'[d] = announced[d]
    BY <1>3 DEF Joins, TypeInv
  <2> QED BY <2>1, <2>2 DEF Keeps
<1> QED BY <1>1, <1>2, <1>3

LEMMA EchoKeeps ==
    ASSUME TypeInv, Echoes, NEW d \in Channels, chOpen' = chOpen,
           sending'[d] = sending[d], whole'[d] = whole[d]
    PROVE  Keeps(d)
<1>1. PICK m \in Messages : /\ ~IsOwn(m) /\ Queues(ISO15765, m)
                            /\ UNCHANGED <<partial, active, announced>>
  BY DEF Echoes
<1>2. queued'[d] = queued[d] \/ queued'[d] = Append(queued[d], m)
  BY <1>1 DEF Queues, TypeInv
<1> QED BY <1>1, <1>2 DEF Keeps

\* A transfer as it is remembered.
LEMMA SentIs ==
    ASSUME NEW c, NEW t \in Underway, NEW s, s = [id |-> t.id, last |-> t.last, ext |-> t.ext]
    PROVE  /\ s \in Sent /\ s.ext = t.ext
           /\ Whole(c, s) = First(c, t, t.last)
<1>1. t.id \in Nat /\ t.last \in Nat /\ t.ext \in BOOLEAN BY DEF Underway
<1>2. s \in Sent BY <1>1 DEF Sent
<1>3. s.id = t.id /\ s.last = t.last /\ s.ext = t.ext OBVIOUS
<1>4. IdLength(c, s) = IdLength(c, t) BY <1>3 DEF IdLength
<1>5. Whole(c, s) = First(c, t, t.last) BY <1>3, <1>4 DEF Whole, First
<1> QED BY <1>2, <1>3, <1>5

LEMMA SingleStep ==
    ASSUME IInv, NEW c \in Channels, SendSingle(c)
    PROVE  IInv'
<1>1. TypeInv /\ \A d \in Channels : ChannelInv(d) BY DEF IInv
<1>2. PICK t \in Begun(c) :
          /\ t.last = 1
          /\ Deliver([Frame(c, t) EXCEPT !.end = c = ISO15765,
                        !.data = CanId(t) \o <<<<t.id, 1>>>>])
          /\ whole' = IF c \in chOpen THEN Ended(c, t) ELSE whole
  BY DEF SendSingle
<1>3. NewTransfer(c) /\ c \in {CAN, ISO15765} /\ sending' = sending /\ chOpen' = chOpen
      /\ resets' = resets /\ c \in chOpen \cup {CAN}
  BY DEF SendSingle, NewTransfer
<1>4. /\ t \in Underway /\ t # NoTransfer
      /\ t.id = transfers + 1
      /\ t.id \in Transfers /\ transfers' = t.id /\ transfers' \in 0 .. MaxTransfers
      /\ t.ext \in BOOLEAN /\ t.loop \in BOOLEAN /\ (c # ISO15765 => ~t.ext)
      /\ IsTransfer(c, t)
      /\ sending[c] = NoTransfer
  BY <1>1, <1>3, BegunIs
<1>5. PICK d \in Seq(Bytes) : d = Chunk(c, t, 1) /\ Len(d) <= PartialMax /\ Parts(d) = {t.id}
  <2>1. 1 \in 1 .. MaxData BY Sizes
  <2>2. /\ Chunk(c, t, 1) \in Seq(Bytes) /\ IdLength(c, t) \in {0, 4, 5}
        /\ Len(Chunk(c, t, 1)) = IdLength(c, t) + 1 /\ Parts(Chunk(c, t, 1)) = {t.id}
    BY <1>4, <2>1, ChunkIs
  <2>3. Len(Chunk(c, t, 1)) <= PartialMax BY <2>2, Sizes
  <2> QED BY <2>2, <2>3
<1>6. d = CanId(t) \o <<<<t.id, 1>>>> BY <1>3, <1>5 DEF Chunk
<1>7. PICK f : f = [Frame(c, t) EXCEPT !.end = c = ISO15765, !.data = d] OBVIOUS
<1>8. f \in Frames
  <2>1. Frame(c, t) \in Frames BY <1>4, FrameType
  <2>2. (c = ISO15765) \in BOOLEAN OBVIOUS
  <2> QED BY <1>5, <1>7, <2>1, <2>2 DEF Frames
<1>9. HostTypes /\ (Loses(f) \/ Arrives(f)) BY <1>1, <1>2, <1>6, <1>7, <1>8, Deliveries
<1>10. /\ f.ch = c /\ f.id = t.id /\ ~f.start /\ (f.end <=> c = ISO15765) /\ ~f.ind
       /\ f.ext = t.ext /\ f.data = d
  BY <1>7 DEF Frame
<1>11. started' = started BY <1>9, <1>10 DEF Loses, Arrives
<1>12. PICK s : s = [id |-> t.id, last |-> t.last, ext |-> t.ext] OBVIOUS
<1>13. s \in Sent /\ s.ext = t.ext /\ Whole(c, s) = First(c, t, 1)
  BY <1>2, <1>4, <1>12, SentIs
<1>14. Whole(c, s) = d BY <1>4, <1>5, <1>13, ChunkIsFirst
<1>15. /\ \A e \in Channels : e # c => whole'[e] = whole[e]
       /\ whole'[c] = IF c \in chOpen THEN Append(whole[c], s) ELSE whole[c]
       /\ whole' \in [Channels -> Seq(Sent)]
  <2>1. CASE c \in chOpen
    <3>1. whole' = [whole EXCEPT ![c] = Append(@, s)] BY <1>2, <1>12, <2>1 DEF Ended
    <3>2. Append(whole[c], s) \in Seq(Sent) BY <1>1, <1>13, AppendProperties DEF TypeInv
    <3>3. PICK w \in Seq(Sent) : w = Append(whole[c], s) BY <3>2
    <3>4. whole' = [whole EXCEPT ![c] = w] BY <3>1, <3>3
    <3> QED BY <1>1, <2>1, <3>3, <3>4 DEF TypeInv
  <2>2. CASE c \notin chOpen BY <1>1, <1>2, <2>2 DEF TypeInv
  <2> QED BY <2>1, <2>2
<1>16. PICK N \in Nat : N = transfers BY <1>1, Types
<1>17. t.id = N + 1 /\ transfers' = N + 1 /\ started \subseteq 1 .. N
  BY <1>1, <1>4, <1>16 DEF TypeInv
<1>18. TypeInv'
  <2>1. started' \subseteq 1 .. transfers' BY <1>11, <1>17
  <2>2. chOpen' \subseteq Channels /\ resets' \in Nat /\ sending' \in [Channels -> Underway]
    BY <1>1, <1>3 DEF TypeInv
  <2> QED BY <1>4, <1>9, <1>15, <2>1, <2>2 DEF TypeInv, HostTypes
<1>19. Grows
  <2>1. cut \subseteq cut' BY <1>9 DEF Loses, Arrives
  <2> QED BY <1>11, <1>16, <1>17, <2>1 DEF Grows
<1>20. \/ Loses(f)
       \/ c = CAN /\ c \notin chOpen /\ (Ignores \/ Echoes)
       \/ c = CAN /\ c \in chOpen /\ cut' = cut /\ PassesOn(f)
       \/ c = ISO15765 /\ c \in chOpen /\ cut' = cut /\ Joins(f)
  <2>1. CASE Loses(f) BY <2>1
  <2>2. CASE Arrives(f)
    <3>1. CAN # ISO15765 BY DEF CAN, ISO15765
    <3>2. cut' = cut /\ f.ch = c /\ ~f.ind /\ ~IsAnnouncement(f)
      BY <1>10, <2>2 DEF Arrives, IsAnnouncement
    <3>3. CASE c = CAN BY <2>2, <3>1, <3>2, <3>3 DEF Arrives, IsData
    <3>4. CASE c = ISO15765 BY <2>2, <3>1, <3>2, <3>4 DEF Arrives, IsData
    <3> QED BY <1>3, <3>3, <3>4
  <2> QED BY <1>9, <2>1, <2>2
<1>21. CASE c = CAN /\ c \notin chOpen /\ (Ignores \/ Echoes)
  <2>1. \A e \in Channels : whole'[e] = whole[e] /\ sending'[e] = sending[e]
    BY <1>3, <1>15, <1>21
  <2>2. ASSUME NEW e \in Channels PROVE Keeps(e)
    <3>1. CASE Ignores BY <1>3, <2>1, <3>1 DEF Ignores, Keeps
    <3>2. CASE Echoes BY <1>1, <1>3, <2>1, <3>2, EchoKeeps
    <3> QED BY <1>21, <3>1, <3>2
  <2>3. \A e \in Channels : ChannelInv(e)' BY <1>1, <1>18, <1>19, <2>2, KeepsInv
  <2> QED BY <1>18, <2>3 DEF IInv
<1>22. ASSUME Loses(f) \/ PassesOn(f) \/ Joins(f), ChannelInv(c)' PROVE IInv'
  <2>1. ASSUME NEW e \in Channels, e # c PROVE ChannelInv(e)'
    <3>1. Keeps(e) BY <1>1, <1>3, <1>8, <1>10, <1>15, <1>22, <2>1, OthersKeep
    <3> QED BY <1>1, <1>18, <1>19, <3>1, KeepsInv
  <2> QED BY <1>18, <1>22, <2>1 DEF IInv
<1>23. CASE Loses(f)
  <2>1. Extends(whole[c], whole'[c])
    <3>1. whole[c] \in Seq(Sent) BY <1>1, Types
    <3> QED BY <1>13, <1>15, <3>1, AppendExtends
  <2>2. sending'[c] = NoTransfer BY <1>3, <1>4
  <2>3. t.id \in Nat BY <1>17
  <2>4. ChannelInv(c)'
    BY <1>1, <1>4, <1>10, <1>18, <1>19, <1>23, <2>1, <2>2, <2>3, LossInv DEF Loses, Ignores
  <2> QED BY <1>22, <1>23, <2>4
<1>24. PICK ids : ids = Parts(partial[c].data) OBVIOUS
<1>25. ids \subseteq 1 .. N /\ (active[c] => Pure(ids, started))
  BY <1>1, <1>16, <1>24 DEF ChannelInv, PureInv
<1>26. ASSUME cut = {} PROVE ~announced[c] /\ ~active[c]
  BY <1>1, <1>4, <1>26 DEF ChannelInv, SendInv, PartInv
<1>27. CASE c = CAN /\ c \in chOpen /\ cut' = cut /\ PassesOn(f)
  <2>1. PICK m \in Messages : /\ m.kind = "message" /\ m.data = d /\ m.flags = Flags(f)
                              /\ Queues(c, m)
                              /\ UNCHANGED <<partial, active, announced>>
    BY <1>10, <1>27 DEF PassesOn
  <2>2. "ADDR_TYPE" \notin m.flags /\ "CAN" \notin m.flags
    BY <1>10, <1>27, <2>1 DEF Flags, CAN, ISO15765
  <2>3. ~t.ext BY <1>4, <1>27 DEF CAN, ISO15765
  <2>4. IsOwn(m) /\ Is(m, c, s) BY <1>13, <1>14, <2>1, <2>2, <2>3 DEF IsOwn, Is
  <2>5. SendInv(c)' BY <1>1, <1>3, <1>4, <1>27, <2>1 DEF ChannelInv, SendInv
  <2>6. PartInv(c)' BY <1>1, <1>3, <1>4, <1>27, <2>1 DEF ChannelInv, PartInv
  <2>7. PureInv(c)'
    <3>1. ids = Parts(partial'[c].data) BY <1>24, <2>1
    <3>2. ids \subseteq 1 .. transfers' BY <1>17, <1>25
    <3> QED BY <1>3, <1>4, <1>11, <1>25, <2>1, <3>1, <3>2 DEF PureInv
  <2>8. QueueInv(c)' /\ FaithInv(c)'
    <3>1. queued'[c] = Append(queued[c], m) BY <1>1, <2>1 DEF Queues, TypeInv
    <3>2. Parts(m.data) = {N + 1} BY <1>5, <1>17, <2>1
    <3>3. Parts(m.data) \subseteq 1 .. transfers' /\ Pure(Parts(m.data), started')
      BY <1>17, <3>2 DEF Pure
    <3>4. whole'[c] = Append(whole[c], s) BY <1>15, <1>27
    <3>5. m.data = Whole(c, s) BY <1>14, <2>1
    <3> QED BY <1>1, <1>13, <1>18, <1>19, <1>27, <2>4, <3>1, <3>3, <3>4, <3>5, MessageQueue
          DEF ChannelInv
  <2>9. ChannelInv(c)' BY <2>5, <2>6, <2>7, <2>8 DEF ChannelInv
  <2> QED BY <1>22, <1>27, <2>9
<1>28. CASE c = ISO15765 /\ c \in chOpen /\ cut' = cut /\ Joins(f)
  <2>1. PICK a \in Partials : a = Accumulated(f) BY <1>1, <1>8, AccumulatedType
  <2>2. /\ a.flags = Base(f).flags \cup Flags(f)
        /\ Parts(Base(f).data) \subseteq Parts(a.data)
        /\ Parts(a.data) \subseteq Parts(Base(f).data) \cup {t.id}
        /\ ~active[c] => a.data = d
    BY <1>1, <1>5, <1>8, <1>10, <2>1, AccumulatedType
  <2>3. /\ active[c] => Base(f) = partial[c]
        /\ ~active[c] => /\ Base(f).data = <<>>
                         /\ Base(f).flags = IF announced[c] THEN {"ADDR_TYPE"} ELSE {}
    BY <1>1, <1>8, <1>10, BaseType
  <2>4. PICK m \in Messages : /\ m.kind = "message" /\ m.data = a.data /\ m.flags = a.flags
                              /\ Queues(c, m)
    BY <1>10, <1>28, <2>1 DEF Joins
  <2>5. /\ partial'[c] = a /\ ~active'[c] /\ announced'[c] = (active[c] /\ announced[c])
    BY <1>1, <1>10, <1>28, <2>1 DEF Joins, TypeInv
  <2>6. "CAN" \notin m.flags
    <3>1. a.flags \subseteq {"TX_MSG_TYPE", "ADDR_TYPE"} BY <2>1 DEF Partials
    <3> QED BY <2>4, <3>1
  <2>7. IsOwn(m) BY <2>4, <2>6 DEF IsOwn
  <2>8. Parts(a.data) \subseteq ids \cup {N + 1} /\ (~active[c] => Parts(a.data) = {N + 1})
    <3>1. CASE active[c] BY <1>17, <1>24, <2>2, <2>3, <3>1
    <3>2. CASE ~active[c]
      <4>1. a.data = d BY <2>2, <3>2
      <4> QED BY <1>5, <1>17, <3>2, <4>1
    <3> QED BY <3>1, <3>2
  <2>9. SendInv(c)' BY <1>3, <1>4, <1>26, <1>28, <2>5 DEF SendInv
  <2>10. PartInv(c)' BY <2>5 DEF PartInv
  <2>11. Parts(a.data) \subseteq 1 .. transfers'
    <3>1. ids \cup {N + 1} \subseteq 1 .. N + 1 BY <1>25
    <3> QED BY <1>17, <2>8, <3>1
  <2>12. PureInv(c)' BY <1>3, <1>4, <2>5, <2>11 DEF PureInv
  <2>13. QueueInv(c)' /\ FaithInv(c)'
    <3>1. queued'[c] = Append(queued[c], m) BY <1>1, <2>4 DEF Queues, TypeInv
    <3>2. Pure(Parts(m.data), started')
      <4>1. CASE active[c]
        <5>1. Pure(ids, started) BY <1>25, <4>1
        <5>2. Parts(m.data) \subseteq ids \cup {N + 1} BY <2>4, <2>8
        <5>3. \A x \in started : x <= N /\ x # N + 1 /\ x <= N + 1 /\ N + 1 >= x BY <1>17
        <5> QED BY <1>11, <5>1, <5>2, <5>3 DEF Pure
      <4>2. CASE ~active[c] BY <1>11, <1>17, <2>4, <2>8, <4>2 DEF Pure
      <4> QED BY <4>1, <4>2
    <3>3. whole'[c] = Append(whole[c], s) BY <1>15, <1>28
    <3>4. m.data = Whole(c, s) \/ Parts(m.data) \cap cut # {}
      <4>1. CASE active[c]
        <5>1. ids \cap cut # {} BY <1>1, <1>4, <1>24, <4>1 DEF ChannelInv, PartInv
        <5>2. ids \subseteq Parts(m.data) BY <1>24, <2>2, <2>3, <2>4, <4>1
        <5> QED BY <5>1, <5>2
      <4>2. CASE ~active[c] BY <1>14, <2>2, <2>4, <4>2
      <4> QED BY <4>1, <4>2
    <3>5. ASSUME cut = {} PROVE Is(m, c, s)
      <4>1. m.data = Whole(c, s) BY <1>14, <1>26, <2>2, <2>4, <3>5
      <4>2. Base(f).flags = {} BY <1>26, <2>3, <3>5
      <4>3. m.flags = Flags(f) BY <2>2, <2>4, <4>2
      <4>4. "ADDR_TYPE" \in Flags(f) <=> t.ext BY <1>10, <1>28 DEF Flags
      <4> QED BY <1>13, <4>1, <4>3, <4>4 DEF Is
    <3>6. Parts(m.data) \subseteq 1 .. transfers' BY <2>4, <2>11
    <3> QED BY <1>1, <1>13, <1>18, <1>19, <1>28, <2>7, <3>1, <3>2, <3>3, <3>4, <3>5, <3>6,
               MessageQueue DEF ChannelInv
  <2>14. ChannelInv(c)' BY <2>9, <2>10, <2>12, <2>13 DEF ChannelInv
  <2> QED BY <1>22, <1>28, <2>14
<1> QED BY <1>20, <1>21, <1>23, <1>27, <1>28
-----------------------------------------------------------------------------
(***************************************************************************)
(* A transfer goes on, and ends.                                           *)
(***************************************************************************)
\* What a frame of the transfer under way is joined to.
LEMMA JoinedParts ==
    ASSUME TypeInv, NEW c \in Channels, ChannelInv(c), NEW t \in Underway, t = sending[c],
           t # NoTransfer, NEW f \in Frames, f.ch = c, Parts(f.data) \subseteq {t.id},
           NEW a \in Partials, a = Accumulated(f)
    PROVE  /\ Parts(a.data) \subseteq 1 .. transfers
           /\ \A u \in Parts(a.data) : u <= t.id
           /\ Pure(Parts(a.data), started)
           /\ t.id \in started => \A u \in Parts(a.data) : u >= t.id
           /\ t.id \in cut => Parts(a.data) \cap cut # {} \/ a.data = f.data
<1>1. PICK N \in Nat : N = transfers BY Types
<1>2. t.id \in 1 .. N /\ IsTransfer(c, t) BY <1>1, UnderwayIs DEF ChannelInv, SendInv
<1>3. PICK ids : ids = IF active[c] THEN Parts(partial[c].data) ELSE {} OBVIOUS
<1>4. ids = Parts(Base(f).data)
  <2>1. Parts(<<>>) = {} BY DEF Parts
  <2> QED BY <1>3, <2>1, BaseType
<1>5. /\ ids \subseteq Parts(a.data) /\ Parts(a.data) \subseteq ids \cup {t.id}
      /\ ~active[c] => a.data = f.data
  BY <1>4, AccumulatedType
<1>6. /\ ids \subseteq 1 .. N
      /\ \A u \in ids : u <= t.id
      /\ Pure(ids, started)
      /\ t.id \in started => \A u \in ids : u >= t.id
  <2>1. CASE active[c] BY <1>1, <1>3, <2>1 DEF ChannelInv, PureInv
  <2>2. CASE ~active[c] BY <1>3, <2>2 DEF Pure
  <2> QED BY <2>1, <2>2
<1>7. ids \cup {t.id} \subseteq 1 .. N BY <1>2, <1>6
<1>8. t.id <= t.id /\ t.id >= t.id BY <1>2
<1>9. Parts(a.data) \subseteq 1 .. N BY <1>5, <1>7
<1>10. \A u \in Parts(a.data) : u <= t.id BY <1>5, <1>6, <1>8
<1>11. ASSUME t.id \in started PROVE \A u \in Parts(a.data) : u >= t.id
  BY <1>5, <1>6, <1>8, <1>11
<1>12. Pure(Parts(a.data), started)
  <2> SUFFICES ASSUME NEW x \in Parts(a.data), x \in started, NEW u \in Parts(a.data)
               PROVE  u >= x
    BY DEF Pure
  <2>1. CASE x = t.id BY <1>11, <2>1
  <2>2. CASE x \in ids /\ u \in ids BY <1>6, <2>2 DEF Pure
  <2>3. CASE x \in ids /\ u = t.id
    <3>1. x <= t.id /\ x \in 1 .. N BY <1>6, <2>3
    <3> QED BY <1>2, <2>3, <3>1
  <2> QED BY <1>5, <2>1, <2>2, <2>3
<1>13. ASSUME t.id \in cut PROVE Parts(a.data) \cap cut # {} \/ a.data = f.data
  <2>1. CASE active[c]
    <3>1. ids \cap cut # {} BY <1>3, <1>13, <2>1 DEF ChannelInv, PartInv
    <3> QED BY <1>5, <3>1
  <2>2. CASE ~active[c] BY <1>5, <2>2
  <2> QED BY <2>1, <2>2
<1> QED BY <1>1, <1>9, <1>10, <1>11, <1>12, <1>13

LEMMA DataJoins ==
    ASSUME TypeInv, NEW c \in Channels, ChannelInv(c), NEW t \in Underway, t = sending[c],
           t # NoTransfer, t.id \notin cut, t.next <= t.last,
           NEW f \in Frames, f.ch = c, f.data = Chunk(c, t, t.next), f.ext \in {t.ext, FALSE},
           NEW a \in Partials, a = Accumulated(f)
    PROVE  a.data = First(c, t, t.next) /\ ("ADDR_TYPE" \in a.flags <=> t.ext)
<1>1. /\ IsTransfer(c, t) /\ t.next \in 1 .. t.last + 1 /\ t.last \in 1 .. MaxData
      /\ c # CAN
  BY UnderwayIs DEF ChannelInv, SendInv
<1>2. Joined(c, t, partial[c], active[c], announced[c]) BY DEF ChannelInv, SendInv
<1>3. PICK k \in 1 .. MaxData : k = t.next BY <1>1, Sizes
<1>4. a.flags = Base(f).flags \cup Flags(f) BY AccumulatedType
<1>5. "ADDR_TYPE" \in Flags(f) => t.ext BY DEF Flags
<1>6. CASE k = 1
  <2>1. ~active[c] /\ (announced[c] <=> t.ext) BY <1>2, <1>3, <1>6 DEF Joined
  <2>2. a.data = First(c, t, 1) BY <1>1, <1>3, <1>6, <2>1, AccumulatedType, ChunkIsFirst
  <2>3. "ADDR_TYPE" \in Base(f).flags <=> t.ext BY <2>1, BaseType
  <2> QED BY <1>3, <1>4, <1>5, <1>6, <2>2, <2>3
<1>7. CASE k > 1
  <2>1. PICK j \in 1 .. MaxData : j = k - 1 /\ k = j + 1 /\ j + 1 <= MaxData BY <1>7, Sizes
  <2>2. t.next > 1 /\ t.next - 1 = j BY <1>3, <1>7, <2>1
  <2>3. active[c] /\ partial[c].data = First(c, t, j) /\ ("ADDR_TYPE" \in partial[c].flags <=> t.ext)
    BY <1>2, <2>2 DEF Joined
  <2>4. Base(f) = partial[c] BY <2>3, BaseType
  <2>5. "ADDR_TYPE" \in Base(f).flags \cup Flags(f) <=> t.ext BY <1>5, <2>3, <2>4
  <2>6. Len(f.data) = IdLength(c, t) + 1 BY <1>1, <1>3, ChunkIs
  <2>7. Skip(f) = IdLength(c, t)
    <3>1. CASE c = ISO15765
      <4>1. PICK l \in {4, 5} : l = IF t.ext THEN 5 ELSE 4 OBVIOUS
      <4>2. IdLength(c, t) = l BY <3>1, <4>1 DEF IdLength
      <4>3. ~(Len(f.data) < l) BY <2>6, <4>2
      <4>4. (IF "ADDR_TYPE" \in Base(f).flags \cup Flags(f) THEN 5 ELSE 4) = l BY <2>5, <4>1
      <4> QED BY <2>3, <3>1, <4>2, <4>3, <4>4 DEF Skip
    <3>2. CASE c # ISO15765 BY <1>1, <3>2 DEF Skip, IdLength
    <3> QED BY <3>1, <3>2
  <2>8. a.data = Truncate(Base(f).data \o SubSeq(f.data, Skip(f) + 1, Len(f.data)))
    BY DEF Accumulated
  <2>9. a.data = First(c, t, j + 1)
    <3>1. LET chunk == Chunk(c, t, j + 1) IN
          Truncate(First(c, t, j) \o SubSeq(chunk, IdLength(c, t) + 1, Len(chunk)))
             = First(c, t, j + 1)
      BY <1>1, <2>1, ChunkFollows
    <3>2. f.data = Chunk(c, t, j + 1) BY <1>3, <2>1
    <3>3. Base(f).data = First(c, t, j) BY <2>3, <2>4
    <3> QED BY <2>7, <2>8, <3>1, <3>2, <3>3
  <2> QED BY <1>3, <1>4, <2>1, <2>5, <2>9
<1> QED BY <1>6, <1>7

LEMMA EndJoins ==
    ASSUME TypeInv, NEW c \in Channels, ChannelInv(c), NEW t \in Underway, t = sending[c],
           t # NoTransfer, t.id \notin cut, t.next > t.last, c # ISO15765,
           NEW f \in Frames, f.ch = c, f.data = <<>>,
           NEW a \in Partials, a = Accumulated(f)
    PROVE  a.data = First(c, t, t.last) /\ "ADDR_TYPE" \notin a.flags /\ ~t.ext
<1>1. /\ IsTransfer(c, t) /\ t.next \in 1 .. t.last + 1 /\ t.last \in 1 .. MaxData
  BY UnderwayIs DEF ChannelInv, SendInv
<1>2. Joined(c, t, partial[c], active[c], announced[c]) BY DEF ChannelInv, SendInv
<1>3. PICK k \in 1 .. MaxData : k = t.last /\ t.next = k + 1 BY <1>1, Sizes
<1>4. t.next > 1 /\ t.next - 1 = k BY <1>3
<1>5. ~t.ext BY <1>1 DEF IsTransfer
<1>6. active[c] /\ partial[c].data = First(c, t, k) /\ "ADDR_TYPE" \notin partial[c].flags
  BY <1>2, <1>4, <1>5 DEF Joined
<1>7. Base(f) = partial[c] BY <1>6, BaseType
<1>8. a.flags = Base(f).flags \cup Flags(f) BY AccumulatedType
<1>9. "ADDR_TYPE" \notin Flags(f) BY DEF Flags
<1>10. k \in 0 .. MaxData OBVIOUS
<1>11. PICK b \in Seq(Bytes) : b = First(c, t, k) /\ Len(b) <= PartialMax
  BY <1>1, <1>10, FirstIs
<1>12. Skip(f) = 0 BY DEF Skip
<1>13. SubSeq(f.data, Skip(f) + 1, Len(f.data)) = <<>>
  <2>1. Len(f.data) = 0 OBVIOUS
  <2> QED BY <1>12, <2>1, SubSeqEmpty
<1>14. a.data = Truncate(b \o <<>>) BY <1>6, <1>7, <1>11, <1>13 DEF Accumulated
<1>15. b \o <<>> = b BY ConcatEmptySeq
<1>16. a.data = b BY <1>11, <1>14, <1>15, TruncateKeeps
<1> QED BY <1>3, <1>5, <1>6, <1>7, <1>8, <1>9, <1>11, <1>16

\* A frame that ends a transfer, and arrives.
LEMMA Ending ==
    ASSUME TypeInv, TypeInv', NEW c \in Channels, ChannelInv(c), Grows, cut' = cut,
           transfers' = transfers, started' = started,
           NEW t \in Underway, t = sending[c], t # NoTransfer, sending'[c] = NoTransfer,
           NEW f \in Frames, f.ch = c, f.end, Joins(f), Parts(f.data) \subseteq {t.id},
           NEW a \in Partials, a = Accumulated(f),
           t.id \notin cut => a.data = First(c, t, t.last) /\ ("ADDR_TYPE" \in a.flags <=> t.ext),
           t.id \in cut => t.id \in Parts(f.data) \/ f.data = <<>>,
           NEW s, s = [id |-> t.id, last |-> t.last, ext |-> t.ext],
           whole'[c] = Append(whole[c], s)
    PROVE  ChannelInv(c)'
<1>1. s \in Sent /\ s.ext = t.ext /\ Whole(c, s) = First(c, t, t.last) BY SentIs
<1>2. /\ Parts(a.data) \subseteq 1 .. transfers
      /\ Pure(Parts(a.data), started)
      /\ t.id \in cut => Parts(a.data) \cap cut # {} \/ a.data = f.data
  BY JoinedParts
<1>3. PICK m \in Messages : /\ m.kind = "message" /\ m.data = a.data /\ m.flags = a.flags
                            /\ Queues(c, m)
  BY DEF Joins
<1>4. /\ partial'[c] = a /\ ~active'[c] /\ announced'[c] = (active[c] /\ announced[c])
      /\ queued'[c] = Append(queued[c], m)
  BY <1>3 DEF Joins, Queues, TypeInv
<1>5. IsOwn(m)
  <2>1. a.flags \subseteq {"TX_MSG_TYPE", "ADDR_TYPE"} BY DEF Partials
  <2>2. "CAN" \notin m.flags BY <1>3, <2>1
  <2> QED BY <1>3, <2>2 DEF IsOwn
<1>6. SendInv(c)'
  <2>1. ASSUME cut = {} PROVE ~(active[c] /\ announced[c])
    <3>1. Joined(c, t, partial[c], active[c], announced[c]) BY <2>1 DEF ChannelInv, SendInv
    <3>2. t.next \in 1 .. t.last + 1 /\ t.last \in 1 .. MaxData
      BY UnderwayIs DEF ChannelInv, SendInv
    <3>3. t.next = 1 \/ t.next > 1 BY <3>2, Sizes
    <3> QED BY <3>1, <3>3 DEF Joined
  <2> QED BY <1>4, <2>1 DEF SendInv
<1>7. PartInv(c)' BY <1>4 DEF PartInv
<1>8. PureInv(c)' BY <1>2, <1>4 DEF PureInv
<1>9. m.data = Whole(c, s) \/ Parts(m.data) \cap cut # {} \/ m.data = <<>>
  <2>1. CASE t.id \notin cut BY <1>1, <1>3, <2>1
  <2>2. CASE t.id \in cut
    <3>1. CASE Parts(a.data) \cap cut # {} BY <1>3, <3>1
    <3>2. CASE a.data = f.data BY <1>3, <2>2, <3>2
    <3> QED BY <1>2, <2>2, <3>1, <3>2
  <2> QED BY <2>1, <2>2
<1>10. cut = {} => Is(m, c, s) BY <1>1, <1>3 DEF Is
<1>11. QueueInv(c)' /\ FaithInv(c)'
  <2>1. Parts(m.data) \subseteq 1 .. transfers' /\ Pure(Parts(m.data), started') BY <1>2, <1>3
  <2> QED BY <1>1, <1>4, <1>5, <1>9, <1>10, <2>1, MessageQueue DEF ChannelInv
<1> QED BY <1>6, <1>7, <1>8, <1>11 DEF ChannelInv

\* A frame in the middle of one, and arrives.
LEMMA GoingOn ==
    ASSUME TypeInv, TypeInv', NEW c \in Channels, ChannelInv(c), Grows, cut' = cut,
           transfers' = transfers, started' = started, whole'[c] = whole[c], chOpen' = chOpen,
           NEW t \in Underway, t = sending[c], t # NoTransfer, t.next <= t.last,
           NEW u \in Underway, u = [t EXCEPT !.next = @ + 1], sending'[c] = u,
           c = ISO15765 => t.next < t.last,
           NEW f \in Frames, f.ch = c, ~f.end, Joins(f), Parts(f.data) = {t.id},
           NEW a \in Partials, a = Accumulated(f),
           t.id \notin cut => a.data = First(c, t, t.next) /\ ("ADDR_TYPE" \in a.flags <=> t.ext)
    PROVE  ChannelInv(c)'
<1>1. /\ Parts(a.data) \subseteq 1 .. transfers
      /\ \A v \in Parts(a.data) : v <= t.id
      /\ Pure(Parts(a.data), started)
      /\ t.id \in started => \A v \in Parts(a.data) : v >= t.id
      /\ t.id \in cut => Parts(a.data) \cap cut # {} \/ a.data = f.data
  BY JoinedParts
<1>2. /\ partial'[c] = a /\ active'[c] /\ announced'[c] = (active[c] /\ announced[c])
      /\ queued' = queued
  BY DEF Joins, TypeInv
<1>3. /\ u.id = t.id /\ u.next = t.next + 1 /\ u.last = t.last /\ u.ext = t.ext
      /\ t.id \in Nat /\ t.next \in Nat /\ t.last \in Nat
  BY DEF Underway
<1>4. Sendable(c, t, transfers) BY DEF ChannelInv, SendInv
<1>5. t.next \in 1 .. t.last + 1 /\ t.last \in 1 .. MaxData /\ t.id \in 1 .. transfers /\ c # CAN
      /\ (c # ISO15765 => ~t.ext)
  BY <1>4 DEF Sendable
<1>6. Sendable(c, u, transfers)
  <2>1. u.next \in 1 .. u.last + 1 BY <1>3, <1>5
  <2>2. c = ISO15765 => u.next <= u.last BY <1>3
  <2>3. u.last \in 1 .. MaxData /\ u.id \in 1 .. transfers BY <1>3, <1>5
  <2>4. c # ISO15765 => ~u.ext BY <1>3, <1>5
  <2> QED BY <1>5, <2>1, <2>2, <2>3, <2>4 DEF Sendable
<1>7. u # NoTransfer
  <2>1. NoTransfer.next = 0 BY DEF NoTransfer
  <2>2. u.next # 0 BY <1>3
  <2> QED BY <2>1, <2>2
<1>8. u.next > 1 /\ u.next # 1 /\ u.next - 1 = t.next BY <1>3, <1>5
<1>9. ASSUME t.id \notin cut PROVE Joined(c, u, a, active'[c], announced'[c]) /\ c \in chOpen
  <2>1. Joined(c, t, partial[c], active[c], announced[c]) /\ c \in chOpen
    BY <1>9 DEF ChannelInv, SendInv
  <2>2. t.next = 1 \/ t.next > 1 BY <1>3, <1>5
  <2>3. ~announced'[c] BY <1>2, <2>1, <2>2 DEF Joined
  <2>4. First(c, u, t.next) = First(c, t, t.next) BY <1>3 DEF First, IdLength
  <2>5. a.data = First(c, u, u.next - 1) /\ ("ADDR_TYPE" \in a.flags <=> u.ext)
    BY <1>3, <1>8, <1>9, <2>4
  <2> QED BY <1>2, <1>8, <2>1, <2>3, <2>5 DEF Joined
<1>10. SendInv(c)'
  <2>1. u.id \notin cut => c \in chOpen /\ Joined(c, u, a, active'[c], announced'[c])
    BY <1>3, <1>9
  <2> QED BY <1>2, <1>6, <1>7, <2>1 DEF SendInv
<1>11. PartInv(c)'
  <2>1. CASE t.id \in cut
    <3>1. Parts(a.data) \cap cut # {} BY <1>1, <2>1
    <3> QED BY <1>2, <3>1 DEF PartInv
  <2>2. CASE t.id \notin cut BY <1>3, <1>7, <1>8, <2>2 DEF PartInv
  <2> QED BY <2>1, <2>2
<1>12. PureInv(c)' BY <1>1, <1>2, <1>3 DEF PureInv
<1>13. QueueInv(c)' /\ FaithInv(c)' BY <1>2, QuietQueue DEF ChannelInv
<1> QED BY <1>10, <1>11, <1>12, <1>13 DEF ChannelInv

LEMMA DataStep ==
    ASSUME IInv, NEW c \in Channels, SendData(c)
    PROVE  IInv'
<1>1. TypeInv /\ \A d \in Channels : ChannelInv(d) BY DEF IInv
<1>2. PICK t \in Underway : t = sending[c] BY <1>1, Types
<1>3. PICK last \in BOOLEAN : last = (c = ISO15765 /\ t.next = t.last) OBVIOUS
<1>4. /\ t # NoTransfer /\ t.next <= t.last
      /\ \E flag \in {t.ext, FALSE} :
            Deliver([Frame(c, t) EXCEPT !.end = last, !.ext = flag,
               !.data = (IF c = ISO15765 THEN CanId(t) ELSE <<>>) \o <<<<t.id, t.next>>>>])
      /\ sending' = [sending EXCEPT ![c] = IF last THEN NoTransfer ELSE [t EXCEPT !.next = @ + 1]]
      /\ whole' = IF last THEN Ended(c, t) ELSE whole
      /\ UNCHANGED <<chOpen, transfers, resets>>
  BY <1>2, <1>3 DEF SendData
<1>5. /\ IsTransfer(c, t) /\ t.next \in 1 .. t.last + 1 /\ t.last \in 1 .. MaxData
      /\ t.id \in 1 .. transfers /\ c # CAN
  BY <1>1, <1>2, <1>4, UnderwayIs DEF ChannelInv, SendInv
<1>6. Sendable(c, t, transfers) BY <1>1, <1>2, <1>4 DEF ChannelInv, SendInv
<1>7. PICK k \in 1 .. MaxData : k = t.next BY <1>4, <1>5, Sizes
<1>8. PICK d \in Seq(Bytes) : d = Chunk(c, t, k) /\ Len(d) <= PartialMax /\ Parts(d) = {t.id}
  <2>1. /\ Chunk(c, t, k) \in Seq(Bytes) /\ IdLength(c, t) \in {0, 4, 5}
        /\ Len(Chunk(c, t, k)) = IdLength(c, t) + 1 /\ Parts(Chunk(c, t, k)) = {t.id}
    BY <1>5, ChunkIs
  <2>2. Len(Chunk(c, t, k)) <= PartialMax BY <2>1, Sizes
  <2> QED BY <2>1, <2>2
<1>9. d = (IF c = ISO15765 THEN CanId(t) ELSE <<>>) \o <<<<t.id, t.next>>>>
  BY <1>5, <1>7, <1>8 DEF Chunk
<1>10. PICK flag \in {t.ext, FALSE} :
          Deliver([Frame(c, t) EXCEPT !.end = last, !.ext = flag, !.data = d])
  BY <1>4, <1>9
<1>11. PICK f : f = [Frame(c, t) EXCEPT !.end = last, !.ext = flag, !.data = d] OBVIOUS
<1>12. t.ext \in BOOLEAN /\ t.loop \in BOOLEAN /\ t.id \in Nat BY DEF Underway
<1>13. f \in Frames
  <2>1. Frame(c, t) \in Frames BY <1>5, <1>12, FrameType DEF IsTransfer
  <2>2. flag \in BOOLEAN BY <1>12
  <2> QED BY <1>8, <1>11, <2>1, <2>2 DEF Frames
<1>14. HostTypes /\ (Loses(f) \/ Arrives(f)) BY <1>1, <1>10, <1>11, <1>13, Deliveries
<1>15. /\ f.ch = c /\ f.id = t.id /\ ~f.start /\ (f.end <=> last) /\ ~f.ind
       /\ f.ext = flag /\ f.data = d
  BY <1>11 DEF Frame
<1>16. started' = started BY <1>14, <1>15 DEF Loses, Arrives
<1>17. PICK s : s = [id |-> t.id, last |-> t.last, ext |-> t.ext] OBVIOUS
<1>18. s \in Sent BY <1>17, SentIs
<1>19. PICK u : u = IF last THEN NoTransfer ELSE [t EXCEPT !.next = @ + 1] OBVIOUS
<1>20. u \in Underway
  <2>1. NoTransfer \in Underway BY DEF NoTransfer, Underway
  <2>2. [t EXCEPT !.next = @ + 1] \in Underway BY DEF Underway
  <2> QED BY <1>19, <2>1, <2>2
<1>21. /\ sending'[c] = u /\ sending' \in [Channels -> Underway]
       /\ \A e \in Channels : e # c => sending'[e] = sending[e]
  BY <1>1, <1>4, <1>19, <1>20 DEF TypeInv
<1>22. /\ \A e \in Channels : e # c => whole'[e] = whole[e]
       /\ whole'[c] = IF last THEN Append(whole[c], s) ELSE whole[c]
       /\ whole' \in [Channels -> Seq(Sent)]
  <2>1. CASE last
    <3>1. whole' = [whole EXCEPT ![c] = Append(@, s)] BY <1>4, <1>17, <2>1 DEF Ended
    <3>2. Append(whole[c], s) \in Seq(Sent) BY <1>1, <1>18, AppendProperties DEF TypeInv
    <3>3. PICK w \in Seq(Sent) : w = Append(whole[c], s) BY <3>2
    <3>4. whole' = [whole EXCEPT ![c] = w] BY <3>1, <3>3
    <3> QED BY <1>1, <2>1, <3>3, <3>4 DEF TypeInv
  <2>2. CASE ~last BY <1>1, <1>4, <2>2 DEF TypeInv
  <2> QED BY <2>1, <2>2
<1>23. TypeInv'
  BY <1>1, <1>4, <1>14, <1>16, <1>21, <1>22 DEF TypeInv, HostTypes
<1>24. Grows
  <2>1. cut \subseteq cut' BY <1>14 DEF Loses, Arrives
  <2>2. transfers \in Nat BY <1>1, Types
  <2> QED BY <1>4, <1>16, <2>1, <2>2 DEF Grows
<1>25. Loses(f) \/ (cut' = cut /\ Joins(f))
  <2>1. CAN # ISO15765 BY DEF CAN, ISO15765
  <2>2. ~IsAnnouncement(f) BY <1>15 DEF IsAnnouncement
  <2> QED BY <1>5, <1>14, <1>15, <2>1, <2>2 DEF Arrives
<1>26. ChannelInv(c)'
  <2>1. CASE Loses(f)
    <3>1. Extends(whole[c], whole'[c])
      <4>1. whole[c] \in Seq(Sent) BY <1>1, Types
      <4> QED BY <1>18, <1>22, <4>1, AppendExtends
    <3>2. ASSUME u # NoTransfer PROVE u.id = t.id /\ Sendable(c, u, transfers')
      <4>1. u = [t EXCEPT !.next = @ + 1] /\ ~last BY <1>19, <3>2
      <4>2. /\ u.id = t.id /\ u.next = t.next + 1 /\ u.last = t.last /\ u.ext = t.ext
            /\ t.next \in Nat /\ t.last \in Nat
        BY <4>1 DEF Underway
      <4>3. c = ISO15765 => t.next < t.last
        <5>1. c = ISO15765 => t.next # t.last BY <1>3, <4>1
        <5> QED BY <1>4, <4>2, <5>1
      <4>4. u.next \in 1 .. u.last + 1 /\ (c = ISO15765 => u.next <= u.last)
        BY <1>4, <1>5, <4>2, <4>3
      <4>5. u.id \in 1 .. transfers' /\ u.last \in 1 .. MaxData BY <1>4, <1>5, <4>2
      <4>6. c # CAN /\ (c # ISO15765 => ~u.ext) BY <1>6, <4>2 DEF Sendable
      <4> QED BY <4>2, <4>4, <4>5, <4>6 DEF Sendable
    <3> QED BY <1>1, <1>2, <1>4, <1>12, <1>15, <1>21, <1>23, <1>24, <2>1, <3>1, <3>2, LossInv
          DEF Loses, Ignores
  <2>2. CASE cut' = cut /\ Joins(f)
    <3>1. PICK a \in Partials : a = Accumulated(f) BY <1>1, <1>13, AccumulatedType
    <3>2. t.id \notin cut => a.data = First(c, t, t.next) /\ ("ADDR_TYPE" \in a.flags <=> t.ext)
      <4>1. /\ f \in Frames /\ f.ch = c /\ f.data = Chunk(c, t, t.next)
            /\ f.ext \in {t.ext, FALSE}
        BY <1>7, <1>8, <1>13, <1>15
      <4>2. TypeInv /\ ChannelInv(c) BY <1>1
      <4> QED BY <1>2, <1>4, <3>1, <4>1, <4>2, DataJoins
    <3>3. Parts(f.data) = {t.id} BY <1>8, <1>15
    <3>4. transfers' = transfers /\ chOpen' = chOpen BY <1>4
    <3>5. CASE last
      <4>1. t.last = t.next /\ f.end BY <1>3, <1>15, <3>5
      <4>2. sending'[c] = NoTransfer /\ whole'[c] = Append(whole[c], s)
        BY <1>19, <1>21, <1>22, <3>5
      <4> QED BY <1>1, <1>2, <1>4, <1>13, <1>15, <1>16, <1>17, <1>23, <1>24, <2>2, <3>1, <3>2,
                 <3>3, <3>4, <4>1, <4>2, Ending
    <3>6. CASE ~last
      <4>1. u = [t EXCEPT !.next = @ + 1] /\ ~f.end /\ whole'[c] = whole[c]
        BY <1>15, <1>19, <1>22, <3>6
      <4>2. t.next \in Nat /\ t.last \in Nat BY DEF Underway
      <4>3. c = ISO15765 => t.next < t.last
        <5>1. c = ISO15765 => t.next # t.last BY <1>3, <3>6
        <5> QED BY <1>4, <4>2, <5>1
      <4> QED BY <1>1, <1>2, <1>4, <1>13, <1>15, <1>16, <1>20, <1>21, <1>23, <1>24, <2>2, <3>1,
                 <3>2, <3>3, <3>4, <4>1, <4>3, GoingOn
    <3> QED BY <3>5, <3>6
  <2> QED BY <1>25, <2>1, <2>2
<1>27. ASSUME NEW e \in Channels, e # c PROVE ChannelInv(e)'
  <2>1. Keeps(e) BY <1>1, <1>4, <1>13, <1>15, <1>21, <1>22, <1>25, <1>27, OthersKeep
  <2> QED BY <1>1, <1>23, <1>24, <2>1, KeepsInv
<1> QED BY <1>23, <1>26, <1>27 DEF IInv

LEMMA EndStep ==
    ASSUME IInv, NEW c \in Channels, SendEnd(c)
    PROVE  IInv'
<1>1. TypeInv /\ \A d \in Channels : ChannelInv(d) BY DEF IInv
<1>2. PICK t \in Underway : t = sending[c] BY <1>1, Types
<1>3. /\ c # ISO15765 /\ t # NoTransfer /\ t.next > t.last
      /\ Deliver([Frame(c, t) EXCEPT !.end = TRUE])
      /\ sending' = [sending EXCEPT ![c] = NoTransfer]
      /\ whole' = Ended(c, t)
      /\ UNCHANGED <<chOpen, transfers, resets>>
  BY <1>2 DEF SendEnd
<1>4. /\ IsTransfer(c, t) /\ t.id \in 1 .. transfers /\ c # CAN
  BY <1>1, <1>2, <1>3, UnderwayIs DEF ChannelInv, SendInv
<1>5. PICK f : f = [Frame(c, t) EXCEPT !.end = TRUE] OBVIOUS
<1>6. t.ext \in BOOLEAN /\ t.loop \in BOOLEAN /\ t.id \in Nat BY DEF Underway
<1>7. f \in Frames
  <2>1. Frame(c, t) \in Frames BY <1>4, <1>6, FrameType DEF IsTransfer
  <2> QED BY <1>5, <2>1 DEF Frames
<1>8. HostTypes /\ (Loses(f) \/ Arrives(f)) BY <1>1, <1>3, <1>5, <1>7, Deliveries
<1>9. /\ f.ch = c /\ f.id = t.id /\ ~f.start /\ f.end /\ ~f.ind /\ f.data = <<>>
  BY <1>5 DEF Frame
<1>10. started' = started BY <1>8, <1>9 DEF Loses, Arrives
<1>11. PICK s : s = [id |-> t.id, last |-> t.last, ext |-> t.ext] OBVIOUS
<1>12. s \in Sent BY <1>11, SentIs
<1>13. NoTransfer \in Underway BY DEF NoTransfer, Underway
<1>14. /\ sending'[c] = NoTransfer /\ sending' \in [Channels -> Underway]
       /\ \A e \in Channels : e # c => sending'[e] = sending[e]
  BY <1>1, <1>3, <1>13 DEF TypeInv
<1>15. /\ \A e \in Channels : e # c => whole'[e] = whole[e]
       /\ whole'[c] = Append(whole[c], s)
       /\ whole' \in [Channels -> Seq(Sent)]
  <2>1. whole' = [whole EXCEPT ![c] = Append(@, s)] BY <1>3, <1>11 DEF Ended
  <2>2. Append(whole[c], s) \in Seq(Sent) BY <1>1, <1>12, AppendProperties DEF TypeInv
  <2>3. PICK w \in Seq(Sent) : w = Append(whole[c], s) BY <2>2
  <2>4. whole' = [whole EXCEPT ![c] = w] BY <2>1, <2>3
  <2> QED BY <1>1, <2>3, <2>4 DEF TypeInv
<1>16. TypeInv'
  BY <1>1, <1>3, <1>8, <1>10, <1>14, <1>15 DEF TypeInv, HostTypes
<1>17. Grows
  <2>1. cut \subseteq cut' BY <1>8 DEF Loses, Arrives
  <2>2. transfers \in Nat BY <1>1, Types
  <2> QED BY <1>3, <1>10, <2>1, <2>2 DEF Grows
<1>18. Loses(f) \/ (cut' = cut /\ Joins(f))
  <2>1. ~IsAnnouncement(f) BY <1>9 DEF IsAnnouncement
  <2> QED BY <1>3, <1>4, <1>8, <1>9, <2>1 DEF Arrives
<1>19. ChannelInv(c)'
  <2>1. CASE Loses(f)
    <3>1. Extends(whole[c], whole'[c])
      <4>1. whole[c] \in Seq(Sent) BY <1>1, Types
      <4> QED BY <1>12, <1>15, <4>1, AppendExtends
    <3> QED BY <1>1, <1>2, <1>3, <1>6, <1>9, <1>14, <1>16, <1>17, <2>1, <3>1, LossInv
          DEF Loses, Ignores
  <2>2. CASE cut' = cut /\ Joins(f)
    <3>1. PICK a \in Partials : a = Accumulated(f) BY <1>1, <1>7, AccumulatedType
    <3>2. t.id \notin cut => a.data = First(c, t, t.last) /\ ("ADDR_TYPE" \in a.flags <=> t.ext)
      BY <1>1, <1>2, <1>3, <1>7, <1>9, <3>1, EndJoins
    <3>3. Parts(f.data) \subseteq {t.id} BY <1>9 DEF Parts
    <3>4. transfers' = transfers BY <1>3
    <3> QED BY <1>1, <1>2, <1>3, <1>7, <1>9, <1>10, <1>11, <1>14, <1>15, <1>16, <1>17, <2>2,
               <3>1, <3>2, <3>3, <3>4, Ending
  <2> QED BY <1>18, <2>1, <2>2
<1>20. ASSUME NEW e \in Channels, e # c PROVE ChannelInv(e)'
  <2>1. Keeps(e) BY <1>1, <1>3, <1>7, <1>9, <1>14, <1>15, <1>18, <1>20, OthersKeep
  <2> QED BY <1>1, <1>16, <1>17, <2>1, KeepsInv
<1> QED BY <1>16, <1>19, <1>20 DEF IInv

(***************************************************************************)
(* Indications, and channels opened, closed and flushed.                   *)
(***************************************************************************)
LEMMA TransmitDoneStep ==
    ASSUME IInv, SendTransmitDone
    PROVE  IInv'
<1>1. TypeInv /\ \A d \in Channels : ChannelInv(d) BY DEF IInv
<1>2. PICK N \in Nat : N = transfers BY <1>1, Types
<1>3. PICK t : t = [NoTransfer EXCEPT !.id = transfers'] OBVIOUS
<1>4. /\ ISO15765 \in chOpen /\ N < MaxTransfers /\ transfers' = N + 1
      /\ Deliver([Frame(ISO15765, t) EXCEPT !.ind = TRUE, !.data = CanId(t)])
      /\ UNCHANGED <<chOpen, sending, whole, resets>>
  BY <1>2, <1>3 DEF SendTransmitDone
<1>5. t.id = N + 1 /\ t.ext = FALSE /\ t.loop = FALSE BY <1>3, <1>4 DEF NoTransfer
<1>6. t.id \in Transfers /\ ISO15765 \in Channels
  BY <1>1, <1>4, <1>5, Sizes DEF Transfers, TypeInv
<1>7. IsTransfer(ISO15765, t) BY <1>5, <1>6 DEF IsTransfer
<1>8. PICK d \in Seq(Bytes) : d = CanId(t) /\ Len(d) <= PartialMax
  <2>1. CanId(t) \in Seq(Bytes) /\ Len(CanId(t)) = 4 BY <1>5, <1>7, IdIsBytes
  <2>2. 4 <= PartialMax BY Sizes
  <2> QED BY <2>1, <2>2
<1>9. PICK f : f = [Frame(ISO15765, t) EXCEPT !.ind = TRUE, !.data = d] OBVIOUS
<1>10. f \in Frames
  <2>1. Frame(ISO15765, t) \in Frames BY <1>5, <1>6, FrameType
  <2> QED BY <1>8, <1>9, <2>1 DEF Frames
<1>11. HostTypes /\ (Loses(f) \/ Arrives(f)) BY <1>1, <1>4, <1>8, <1>9, <1>10, Deliveries
<1>12. f.ch = ISO15765 /\ f.id = t.id /\ ~f.start /\ f.ind BY <1>9 DEF Frame
<1>13. started' = started BY <1>11, <1>12 DEF Loses, Arrives
<1>14. Ignores \/ Echoes
  <2>1. CAN # ISO15765 BY DEF CAN, ISO15765
  <2> QED BY <1>11, <1>12, <2>1 DEF Loses, Arrives, IsData
<1>15. TypeInv'
  <2>1. started \subseteq 1 .. N BY <1>1, <1>2 DEF TypeInv
  <2>2. started' \subseteq 1 .. transfers' /\ transfers' \in 0 .. MaxTransfers
    BY <1>4, <1>13, <2>1, Sizes
  <2> QED BY <1>1, <1>4, <1>11, <2>2 DEF TypeInv, HostTypes
<1>16. Grows
  <2>1. cut \subseteq cut' BY <1>11 DEF Loses, Arrives
  <2> QED BY <1>2, <1>4, <1>13, <2>1 DEF Grows
<1>17. ASSUME NEW e \in Channels PROVE ChannelInv(e)'
  <2>1. chOpen' = chOpen /\ sending'[e] = sending[e] /\ whole'[e] = whole[e] BY <1>4
  <2>2. CASE Ignores
    <3>1. Keeps(e) BY <2>1, <2>2 DEF Ignores, Keeps
    <3> QED BY <1>1, <1>15, <1>16, <3>1, KeepsInv
  <2>3. CASE Echoes
    <3>1. Keeps(e) BY <1>1, <2>1, <2>3, EchoKeeps
    <3> QED BY <1>1, <1>15, <1>16, <3>1, KeepsInv
  <2> QED BY <1>14, <2>2, <2>3
<1> QED BY <1>15, <1>17 DEF IInv

LEMMA ForgetStep ==
    ASSUME IInv, NEW c \in Channels, Open(c) \/ Close(c) \/ Flush(c)
    PROVE  IInv'
<1>1. TypeInv /\ \A d \in Channels : ChannelInv(d) BY DEF IInv
<1>2. Forget(c) BY DEF Open, Close, Flush
<1>3. /\ resets' = resets + 1
      /\ active' = [active EXCEPT ![c] = FALSE]
      /\ announced' = [announced EXCEPT ![c] = FALSE]
      /\ cut' = cut \cup ({sending[c].id} \cap Transfers)
      /\ UNCHANGED <<partial, queued, sending, transfers, whole, losses, started>>
  BY <1>2 DEF Forget, wire
<1>4. /\ chOpen' \subseteq Channels
      /\ \A d \in Channels : d # c /\ d \in chOpen => d \in chOpen'
  BY <1>1 DEF Open, Close, Flush, TypeInv
<1>5. TypeInv' BY <1>1, <1>3, <1>4 DEF TypeInv
<1>6. Grows
  <2>1. transfers \in Nat BY <1>1, Types
  <2> QED BY <1>3, <2>1 DEF Grows
<1>7. ASSUME NEW d \in Channels, d # c PROVE ChannelInv(d)'
  <2>1. Keeps(d) BY <1>1, <1>3, <1>4, <1>7 DEF Keeps, TypeInv
  <2> QED BY <1>1, <1>5, <1>6, <2>1, KeepsInv
<1>8. ChannelInv(c)'
  <2>1. ~active'[c] /\ ~announced'[c] BY <1>1, <1>3 DEF TypeInv
  <2>2. PICK t \in Underway : t = sending[c] /\ t = sending'[c] BY <1>1, <1>3, Types
  <2>3. SendInv(c)'
    <3>1. ASSUME t # NoTransfer PROVE Sendable(c, t, transfers') /\ t.id \in cut'
      <4>1. Sendable(c, t, transfers) BY <1>1, <2>2, <3>1 DEF ChannelInv, SendInv
      <4>2. t.id \in Transfers BY <1>1, <2>2, <4>1, UnderwayIs DEF IsTransfer
      <4> QED BY <1>3, <2>2, <4>1, <4>2
    <3> QED BY <2>1, <2>2, <3>1 DEF SendInv
  <2>4. PartInv(c)' BY <2>1 DEF PartInv
  <2>5. PureInv(c)' BY <1>1, <1>3, <2>1 DEF ChannelInv, PureInv
  <2>6. QueueInv(c)' /\ FaithInv(c)' BY <1>1, <1>3, <1>5, <1>6, QuietQueue DEF ChannelInv
  <2> QED BY <2>3, <2>4, <2>5, <2>6 DEF ChannelInv
<1> QED BY <1>5, <1>7, <1>8 DEF IInv
-----------------------------------------------------------------------------
LEMMA InitInv == Init => IInv
<1> SUFFICES ASSUME Init PROVE IInv OBVIOUS
<1>1. <<>> \in Seq(Bytes) /\ Len(<<>>) = 0 /\ 0 <= PartialMax BY Sizes
<1>2. Empty \in Partials BY <1>1 DEF Empty, Partials
<1>3. NoTransfer \in Underway BY DEF NoTransfer, Underway
<1>4. <<>> \in Seq(Messages) /\ <<>> \in Seq(Sent) OBVIOUS
<1>5. TypeInv
  <2>1. /\ partial = [c \in Channels |-> Empty] /\ active = [c \in Channels |-> FALSE]
        /\ announced = [c \in Channels |-> FALSE] /\ queued = [c \in Channels |-> <<>>]
        /\ sending = [c \in Channels |-> NoTransfer] /\ whole = [c \in Channels |-> <<>>]
    BY DEF Init
  <2>2. partial \in [Channels -> Partials] BY <1>2, <2>1
  <2>3. active \in [Channels -> BOOLEAN] /\ announced \in [Channels -> BOOLEAN] BY <2>1
  <2>4. queued \in [Channels -> Seq(Messages)] /\ whole \in [Channels -> Seq(Sent)] BY <1>4, <2>1
  <2>5. sending \in [Channels -> Underway] BY <1>3, <2>1
  <2>6. 0 \in 0 .. MaxTransfers BY Sizes
  <2> QED BY <2>2, <2>3, <2>4, <2>5, <2>6 DEF Init, TypeInv
<1>6. ASSUME NEW c \in Channels PROVE ChannelInv(c)
  <2>1. /\ partial[c] = Empty /\ ~active[c] /\ ~announced[c] /\ queued[c] = <<>>
        /\ sending[c] = NoTransfer /\ whole[c] = <<>>
    BY DEF Init
  <2>2. SendInv(c) BY <2>1 DEF SendInv
  <2>3. PartInv(c) BY <2>1 DEF PartInv
  <2>4. PureInv(c)
    <3>1. Parts(partial[c].data) = {} BY <2>1 DEF Parts, Empty
    <3> QED BY <2>1, <3>1 DEF PureInv
  <2>5. QueueInv(c) BY <2>1 DEF QueueInv, Good
  <2>6. FaithInv(c)
    <3>1. DOMAIN queued[c] = {} /\ DOMAIN whole[c] = {} BY <2>1
    <3>2. PICK place : place = [k \in {} |-> 0] OBVIOUS
    <3>3. Own(queued[c]) = {} BY <3>1 DEF Own
    <3>4. place \in [DOMAIN whole[c] -> Own(queued[c])] BY <3>1, <3>2, <3>3
    <3>5. Own(queued[c]) = {place[k] : k \in DOMAIN whole[c]} BY <3>1, <3>3
    <3> QED BY <3>1, <3>4, <3>5 DEF FaithInv, Faithful
  <2> QED BY <2>2, <2>3, <2>4, <2>5, <2>6 DEF ChannelInv
<1> QED BY <1>5, <1>6 DEF IInv

LEMMA Stutters == IInv /\ UNCHANGED vars => IInv'
<1> SUFFICES ASSUME IInv, UNCHANGED vars PROVE IInv' OBVIOUS
<1>1. TypeInv' BY DEF IInv, TypeInv, vars, host, wire
<1>2. ASSUME NEW c \in Channels PROVE ChannelInv(c)'
  <2>1. ChannelInv(c) BY DEF IInv
  <2>2. SendInv(c)' BY <2>1 DEF ChannelInv, SendInv, vars, host, wire
  <2>3. PartInv(c)' BY <2>1 DEF ChannelInv, PartInv, vars, host, wire
  <2>4. PureInv(c)' BY <2>1 DEF ChannelInv, PureInv, vars, host, wire
  <2>5. QueueInv(c)' BY <2>1 DEF ChannelInv, QueueInv, vars, host, wire
  <2>6. FaithInv(c)' BY <2>1 DEF ChannelInv, FaithInv, vars, host, wire
  <2> QED BY <2>2, <2>3, <2>4, <2>5, <2>6 DEF ChannelInv
<1> QED BY <1>1, <1>2 DEF IInv

LEMMA NextInv == IInv /\ [Next]_vars => IInv'
<1> SUFFICES ASSUME IInv, Next PROVE IInv' BY Stutters
<1>1. CASE SendTransmitDone BY <1>1, TransmitDoneStep
<1>2. ASSUME NEW c \in Channels, SendStart(c) PROVE IInv' BY <1>2, StartStep
<1>3. ASSUME NEW c \in Channels, SendSingle(c) PROVE IInv' BY <1>3, SingleStep
<1>4. ASSUME NEW c \in Channels, SendData(c) PROVE IInv' BY <1>4, DataStep
<1>5. ASSUME NEW c \in Channels, SendEnd(c) PROVE IInv' BY <1>5, EndStep
<1>6. ASSUME NEW c \in Channels, Open(c) \/ Close(c) \/ Flush(c) PROVE IInv'
  BY <1>6, ForgetStep
<1> QED BY <1>1, <1>2, <1>3, <1>4, <1>5, <1>6 DEF Next

LEMMA Inductive == Spec => []IInv
BY InitInv, NextInv, PTL DEF Spec

\* The places of the messages that are a channel's own.
LEMMA OwnAreDelivered == \A c : Own(queued[c]) = Delivered(c)
BY DEF Own, Delivered, IsOwn

\* absorb_frame: a message that is queued is one transfer, whole, sent to its
\* end, unless something it holds lost a frame.
THEOREM MessagesAreWhole == Spec => []WholeOrCut
<1>1. ASSUME IInv PROVE WholeOrCut
  <2>1. TypeInv /\ \A c \in Channels : QueueInv(c) BY <1>1 DEF IInv, ChannelInv
  <2>2. TypeOK
    <3>1. \A c \in Channels : /\ partial[c].data \in Seq(Bytes)
                              /\ Len(partial[c].data) <= PartialMax
      BY <2>1, Types
    <3>2. \A c \in Channels : partial[c].flags \subseteq {"TX_MSG_TYPE", "ADDR_TYPE"}
      BY <2>1 DEF TypeInv, Partials
    <3>3. ASSUME NEW c \in Channels, NEW n \in DOMAIN queued[c]
          PROVE  queued[c][n].kind \in Kinds /\ queued[c][n].data \in Seq(Bytes)
      <4>1. queued[c][n] \in Messages BY <2>1, ElementOfSeq DEF TypeInv
      <4> QED BY <4>1 DEF Messages
    <3>4. started \subseteq Transfers
      <4>1. 1 .. transfers \subseteq Transfers BY <2>1, Sizes DEF TypeInv, Transfers
      <4> QED BY <2>1, <4>1 DEF TypeInv
    <3> QED BY <2>1, <3>1, <3>2, <3>3, <3>4 DEF TypeOK, TypeInv, Kinds
  <2>3. ASSUME NEW c \in Channels, NEW n \in Delivered(c)
        PROVE  Fair(queued[c][n].data, c, whole[c], cut)
    BY <2>1, <2>3, OwnAreDelivered DEF QueueInv, Good, Own
  <2> QED BY <2>2, <2>3 DEF WholeOrCut, Fair
<1> QED BY <1>1, Inductive, PTL

\* As long as nothing is lost, all of them are delivered, in the order sent.
THEOREM AllAreDelivered == Spec => []NothingSkipped
<1>1. ASSUME IInv PROVE NothingSkipped
  <2> SUFFICES ASSUME cut = {}, NEW c \in Channels
               PROVE \E place \in [DOMAIN whole[c] -> Delivered(c)] :
                        /\ Delivered(c) = {place[k] : k \in DOMAIN whole[c]}
                        /\ \A k, l \in DOMAIN whole[c] : k < l => place[k] < place[l]
                        /\ \A k \in DOMAIN whole[c] :
                              queued[c][place[k]].data = Whole(c, whole[c][k])
    BY DEF NothingSkipped
  <2>1. Faithful(c, queued[c], whole[c]) BY <1>1 DEF IInv, ChannelInv, FaithInv
  <2> QED BY <2>1, OwnAreDelivered DEF Faithful, Is
<1> QED BY <1>1, Inductive, PTL

\* A START discards what was in progress: no message that was announced holds
\* bytes of an earlier one.
THEOREM StartsAreClean == Spec => []AnnouncedIsPure
<1>1. ASSUME IInv PROVE AnnouncedIsPure
  <2>1. ASSUME NEW c \in Channels, NEW n \in Delivered(c)
        PROVE  Pure(Parts(queued[c][n].data), started)
    <3>1. QueueInv(c) BY <1>1 DEF IInv, ChannelInv
    <3> QED BY <2>1, <3>1, OwnAreDelivered DEF QueueInv, Good, Own
  <2> QED BY <2>1 DEF AnnouncedIsPure, Pure
<1> QED BY <1>1, Inductive, PTL

\* How many bytes of CAN id a whole message has in front.
LEMMA IdBytesOf ==
    ASSUME NEW c \in Channels, NEW t \in Sent
    PROVE  Cardinality(IdBytes(Whole(c, t))) = IdLength(c, t)
<1>1. PICK l \in {0, 4, 5} : l = IdLength(c, t) BY DEF IdLength
<1>2. PICK k \in Nat : k = t.last BY DEF Sent
<1>3. PICK s : s = [n \in 1 .. l + k |-> <<t.id, IF n <= l THEN 0 ELSE n - l>>] OBVIOUS
<1>4. s = Whole(c, t) BY <1>1, <1>2, <1>3 DEF Whole, First
<1>5. IdBytes(s) = 1 .. l
  <2>1. \A n \in DOMAIN s : s[n][2] = IF n <= l THEN 0 ELSE n - l BY <1>3
  <2>2. DOMAIN s = 1 .. l + k BY <1>3
  <2>3. \A n \in 1 .. l + k : (IF n <= l THEN 0 ELSE n - l) = 0 <=> n \in 1 .. l OBVIOUS
  <2>4. 1 .. l \subseteq 1 .. l + k OBVIOUS
  <2> QED BY <2>1, <2>2, <2>3, <2>4 DEF IdBytes
<1>6. Cardinality(1 .. l) = l
  <2>1. Cardinality(1 .. l) = IF 1 > l THEN 0 ELSE l - 1 + 1 BY FS_Interval
  <2> QED BY <2>1
<1> QED BY <1>1, <1>4, <1>5, <1>6

\* The flag of an extended address is on the messages that have one, and on no
\* other, whichever frames of them carried it.
THEOREM AddressesAreMarked == Spec => []AddressMarked
<1>1. ASSUME IInv PROVE AddressMarked
  <2> SUFFICES ASSUME cut = {}, NEW c \in Channels, c = ISO15765, NEW n \in Delivered(c)
               PROVE "ADDR_TYPE" \in queued[c][n].flags
                        <=> Cardinality(IdBytes(queued[c][n].data)) = 5
    BY DEF AddressMarked
  <2>1. TypeInv /\ Faithful(c, queued[c], whole[c]) BY <1>1 DEF IInv, ChannelInv, FaithInv
  <2>2. PICK k \in DOMAIN whole[c] : Is(queued[c][n], c, whole[c][k])
    BY <2>1, OwnAreDelivered DEF Faithful
  <2>3. PICK t \in Sent : t = whole[c][k]
    <3>1. whole[c] \in Seq(Sent) BY <2>1, Types
    <3> QED BY <3>1, ElementOfSeq
  <2>4. queued[c][n].data = Whole(c, t) /\ ("ADDR_TYPE" \in queued[c][n].flags <=> t.ext)
    BY <2>2, <2>3 DEF Is
  <2>5. IdLength(c, t) = IF t.ext THEN 5 ELSE 4 BY DEF IdLength
  <2>6. t.ext \in BOOLEAN BY DEF Sent
  <2>7. IdLength(c, t) = 5 <=> t.ext BY <2>5, <2>6
  <2> QED BY <2>4, <2>7, IdBytesOf
<1> QED BY <1>1, Inductive, PTL
=============================================================================
