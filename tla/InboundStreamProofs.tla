------------------------ MODULE InboundStreamProofs ------------------------
(***************************************************************************)
(* Proofs about InboundStream, for any sizes, any scripts of the cable and *)
(* any cut of its stream into reads: the accumulator always has room for a *)
(* whole read, no byte is used for two records, and, for scripts whose     *)
(* records the parser understands one by one, each of them is handed on as *)
(* it was meant and nothing else is.                                       *)
(***************************************************************************)
EXTENDS InboundStream, WellFoundedInduction, SequenceTheorems, TLAPS

(***************************************************************************)
(* What the parser leaves in the accumulator has at most LineMax bytes, or *)
(* is a frame or a line that begins there and wants more; `more` bytes may *)
(* have been read since.                                                   *)
(***************************************************************************)
BytesAt(places) == [k \in 1 .. Len(places) |-> wire.bytes[places[k]]]

UnfinishedFrame(s, more) ==
    /\ Len(s) >= 4 /\ BeginsAr(s) /\ s[3] \in Digit
    /\ Len(s) < 4 + s[4] + more

\* Its line has ended, the raw bytes behind it are not all there.
UnfinishedLine(s, more) ==
    /\ Len(s) >= 3 /\ BeginsAr(s) /\ s[3] \notin Digit
    /\ \E e \in LineEnds(s) : e + 1 <= LineMax + ReadMax
    /\ \A e \in LineEnds(s) : Len(s) < e + 1 + InitMax + more

HeldBack(s) ==
    \/ Len(s) <= LineMax
    \/ UnfinishedFrame(s, 0)
    \/ UnfinishedLine(s, 0)

\* The same with a read behind it; once a record is consumed, the rest is short.
Bounded(s, fresh) ==
    \/ Len(s) <= LineMax + ReadMax
    \/ fresh /\ (UnfinishedFrame(s, ReadMax) \/ UnfinishedLine(s, ReadMax))

AccumInv ==
    /\ mode = "reading" => HeldBack(BytesAt(accum))
    /\ mode = "consuming" => Bounded(BytesAt(Rest), off = 0)

TypeInv ==
    /\ TypeOK
    /\ wire.bytes \in Seq(Byte)
    /\ mode # "ended" => failures < FailuresMax

(***************************************************************************)
(* The bytes go through the accumulator in the order of the stream.        *)
(***************************************************************************)
\* What is handed on is a record from `from` to `to`; each lies behind the one
\* before it, and what is not consumed yet behind all of them.
BytesTakenOnce ==
    /\ \A k \in DOMAIN taken : taken[k].from <= taken[k].to
    /\ \A k \in DOMAIN taken : \A j \in 1 .. k - 1 : taken[j].to < taken[k].from
    /\ \A k \in DOMAIN taken : \A i \in off + 1 .. Len(accum) : taken[k].to < accum[i]

\* While no read is dropped, the accumulator is the end of what has been read.
HeldIsTheStream ==
    losses = 0 => \A i \in 1 .. Len(accum) : accum[i] = at - Len(accum) + i

OrderInv ==
    /\ taken \in Seq(ToSet(taken))
    /\ \A k \in DOMAIN taken : taken[k].from \in Nat /\ taken[k].to \in 0 .. at
    /\ \A i \in 1 .. Len(accum) : accum[i] <= at
    /\ \A j, i \in 1 .. Len(accum) : j < i => accum[j] < accum[i]
    /\ BytesTakenOnce

IInv == TypeInv /\ AccumInv /\ OrderInv /\ HeldIsTheStream
-----------------------------------------------------------------------------
(* The parser.                                                             *)

LEMMA LeastExists ==
    ASSUME NEW T \in SUBSET Nat, T # {}
    PROVE  \E x \in T : \A y \in T : x <= y
<1>1. PICK R : R = {ss \in Nat \X Nat : ss[1] < ss[2]}
  OBVIOUS
<1>2. IsWellFoundedOn(R, Nat)
  BY <1>1, NatLessThanWellFounded DEF OpToRel
<1>3. \A S, U : IsWellFoundedOn(R, S) /\ U \subseteq S /\ U # {} =>
                \E x \in U : \A y \in U : ~ (<<y, x>> \in R)
  BY WFMin
<1>4. PICK N : N = Nat
  OBVIOUS
<1>5. IsWellFoundedOn(R, N) /\ T \subseteq N /\ T # {}
  BY <1>2, <1>4
<1>6. PICK x \in T : \A y \in T : ~ (<<y, x>> \in R)
  BY <1>3, <1>5
<1>7. \A a, b \in Nat : <<a, b>> \in R <=> a < b
  BY <1>1
<1>8. \A y \in T : y \in Nat /\ x \in Nat /\ ~(y < x)
  BY <1>6, <1>7
<1>9. \A y \in T : x <= y
  BY <1>8
<1> QED
  BY <1>9

LEMMA MinOf ==
    ASSUME NEW T \in SUBSET Nat, T # {}
    PROVE  Min(T) \in T /\ \A y \in T : Min(T) <= y
BY LeastExists DEF Min

LEMMA MaxOf ==
    ASSUME NEW a \in Int, NEW b \in Int
    PROVE  Max({a, b}) \in {a, b} /\ Max({a, b}) >= a /\ Max({a, b}) >= b
<1>1. \E x \in {a, b} : \A y \in {a, b} : x >= y
  OBVIOUS
<1> QED
  BY <1>1 DEF Max

LEMMA Sizes ==
    /\ LineMax \in Nat /\ InitMax \in Nat /\ AccumCap \in Nat
    /\ ByteMax \in Nat /\ ReadMax \in Nat /\ FailuresMax \in Nat /\ LossesMax \in Nat
    /\ ReadMax > 0 /\ FailuresMax > 0 /\ LineMax >= 3 /\ InitMax <= LineMax
    /\ LineMax + InitMax + 2 * ReadMax <= AccumCap /\ ByteMax + 4 + ReadMax <= AccumCap
BY SizesAssumption, CodeAssumption

LEMMA BytesType ==
    ASSUME NEW s \in Seq(Byte)
    PROVE  Len(s) \in Nat /\ \A i \in 1 .. Len(s) : s[i] \in 0 .. ByteMax
BY ElementOfSeq, LenProperties DEF Byte

\* The line ends of a sequence leave two bytes before and one behind them.
LEMMA LineEndsType ==
    ASSUME NEW s \in Seq(Byte)
    PROVE  /\ LineEnds(s) \in SUBSET Nat
           /\ \A e \in LineEnds(s) : e \in 3 .. Len(s) - 1
BY DEF LineEnds

\* The number of raw bytes an ary line announces is one op_parse can wait for.
LEMMA RawBytes ==
    ASSUME NEW body \in Seq(Byte), body # <<>>, body[1] = Code["y"],
           ParseAscii(body).kind = "init"
    PROVE  ParseAscii(body).fields[2] \in 0 .. InitMax
<1>1. "y" \in Verbs /\ Verbs \subseteq Characters
  BY DEF Verbs, Characters
<1>2. (CHOOSE v \in Verbs : Code[v] = body[1]) = "y"
  BY <1>1, CodeAssumption
<1>3. ParseAscii(body) = Recognised("y", body)
  BY <1>1, <1>2 DEF ParseAscii
<1>4. FixedFields["y"] = 2 /\ Junk.kind # "init"
  BY DEF FixedFields, Junk
<1> QED
  BY <1>3, <1>4 DEF Recognised

\* A line is consumed with its raw bytes, at most InitMax of them, or waits.
LEMMA ParseLineUsed ==
    ASSUME NEW s \in Seq(Byte), Len(s) >= 3
    PROVE  \/ /\ LineEnds(s) = {} /\ Len(s) > LineMax
              /\ ParseLine(s).used = 1
           \/ /\ LineEnds(s) = {} /\ Len(s) <= LineMax
              /\ ParseLine(s).used = 0
           \/ /\ LineEnds(s) # {}
              /\ \E raw \in 0 .. InitMax :
                    \/ /\ ParseLine(s).used = Min(LineEnds(s)) + 1 + raw
                       /\ Len(s) >= Min(LineEnds(s)) + 1 + raw
                    \/ ParseLine(s).used = 0 /\ Len(s) < Min(LineEnds(s)) + 1 + raw
<1>1. CASE LineEnds(s) = {}
  BY <1>1, Sizes DEF ParseLine, JunkOf, Incomplete
<1>2. CASE LineEnds(s) # {}
  <2>1. PICK e \in 3 .. Len(s) - 1 : e = Min(LineEnds(s))
    BY <1>2, LineEndsType, MinOf
  <2> DEFINE body == SubSeq(s, 3, e - 1)
             r == ParseAscii(body)
             raw == IF r.kind = "init" /\ s[3] = Code["y"] THEN r.fields[2] ELSE 0
  <2>2. /\ body \in Seq(Byte)
        /\ body # <<>> => body[1] = s[3]
    BY <2>1
  <2>3. raw \in 0 .. InitMax
    <3>1. CASE r.kind = "init" /\ s[3] = Code["y"]
      <4>1. body # <<>>
        BY <3>1 DEF ParseAscii, Junk
      <4> QED
        BY <2>2, <3>1, <4>1, RawBytes
    <3>2. CASE ~(r.kind = "init" /\ s[3] = Code["y"])
      BY <3>2, Sizes
    <3> QED
      BY <3>1, <3>2
  <2>4. e + 1 - 2 = e - 1 /\ e \in Nat
    BY <2>1
  <2>5. ParseLine(s).used = IF Len(s) < e + 1 + raw THEN 0 ELSE e + 1 + raw
    BY <1>2, <2>1, <2>4 DEF ParseLine, LineUpTo, Raw, Incomplete
  <2> HIDE DEF raw
  <2>6. PICK n \in 0 .. InitMax : n = raw
    BY <2>3
  <2>7. ParseLine(s).used = IF Len(s) < e + 1 + n THEN 0 ELSE e + 1 + n
    BY <2>5, <2>6
  <2>8. \/ ParseLine(s).used = e + 1 + n /\ Len(s) >= e + 1 + n
        \/ ParseLine(s).used = 0 /\ Len(s) < e + 1 + n
    BY <2>1, <2>7, Sizes
  <2> QED
    BY <1>2, <2>1, <2>8
<1> QED
  BY <1>1, <1>2

\* A frame is consumed whole or waits; one of no length is junk.
LEMMA ParseFrameUsed ==
    ASSUME NEW s \in Seq(Byte)
    PROVE  \/ Len(s) < 4 /\ ParseFrame(s).used = 0
           \/ /\ Len(s) >= 4
              /\ s[4] \in 0 .. ByteMax
              /\ IF Len(s) < 4 + s[4] THEN ParseFrame(s).used = 0
                 ELSE ParseFrame(s).used = 4 + s[4]
<1>1. CASE Len(s) < 4
  BY <1>1 DEF ParseFrame, Incomplete
<1>2. CASE Len(s) >= 4
  <2>1. s[4] \in 0 .. ByteMax
    BY <1>2, BytesType
  <2> QED
    BY <1>2, <2>1, BytesType, Sizes DEF ParseFrame, Incomplete, JunkOf
<1> QED
  BY <1>1, <1>2

\* op_parse never consumes more than it was given; what it leaves to wait is
\* held back for a reason, and what is behind a record is short.
LEMMA ParseUsed ==
    ASSUME NEW s \in Seq(Byte), Len(s) >= 1, NEW fresh \in BOOLEAN, Bounded(s, fresh)
    PROVE  /\ Parse(s).used \in 0 .. Len(s)
           /\ Parse(s).used = 0 => HeldBack(s)
           /\ Parse(s).used > 0 => Len(s) - Parse(s).used <= LineMax + ReadMax
<1> USE Sizes, BytesType
<1>1. CASE ~BeginsAr(s)
  <2>1. Parse(s).used = 1
    BY <1>1 DEF Parse, JunkOf
  <2>2. Len(s) <= LineMax + ReadMax
    BY <1>1 DEF Bounded, UnfinishedFrame, UnfinishedLine
  <2> QED
    BY <2>1, <2>2
<1>2. CASE BeginsAr(s) /\ Len(s) < 3
  <2>1. Parse(s).used = 0
    BY <1>2 DEF Parse, Incomplete
  <2> QED
    BY <1>2, <2>1 DEF HeldBack
<1>3. CASE BeginsAr(s) /\ Len(s) >= 3 /\ s[3] \in Digit
  <2>1. Parse(s) = ParseFrame(s)
    BY <1>3 DEF Parse
  <2>2. \/ Len(s) <= LineMax + ReadMax
        \/ Len(s) < 4 + s[4] + ReadMax /\ Len(s) >= 4
    BY <1>3 DEF Bounded, UnfinishedFrame, UnfinishedLine
  <2>3. CASE Len(s) < 4
    BY <2>1, <2>3, ParseFrameUsed DEF HeldBack
  <2>4. CASE Len(s) >= 4
    <3>1. s[4] \in 0 .. ByteMax
      BY <2>4, ParseFrameUsed
    <3>2. CASE Len(s) < 4 + s[4]
      <4>1. Parse(s).used = 0
        BY <2>1, <2>4, <3>2, ParseFrameUsed
      <4>2. UnfinishedFrame(s, 0)
        BY <1>3, <2>4, <3>1, <3>2 DEF UnfinishedFrame
      <4> QED
        BY <4>1, <4>2 DEF HeldBack
    <3>3. CASE Len(s) >= 4 + s[4]
      <4>1. Parse(s).used = 4 + s[4]
        BY <2>1, <2>4, <3>1, <3>3, ParseFrameUsed
      <4> QED
        BY <2>2, <3>1, <3>3, <4>1
    <3> QED
      BY <3>1, <3>2, <3>3
  <2> QED
    BY <2>3, <2>4
<1>4. CASE BeginsAr(s) /\ Len(s) >= 3 /\ s[3] \notin Digit
  <2>1. Parse(s) = ParseLine(s)
    BY <1>4 DEF Parse
  <2>2. \/ Len(s) <= LineMax + ReadMax
        \/ UnfinishedLine(s, ReadMax)
    BY <1>4 DEF Bounded, UnfinishedFrame
  <2>3. CASE LineEnds(s) = {}
    <3>1. Len(s) <= LineMax + ReadMax
      BY <2>2, <2>3 DEF UnfinishedLine
    <3> QED
      BY <1>4, <2>1, <2>3, <3>1, ParseLineUsed DEF HeldBack
  <2>4. CASE LineEnds(s) # {}
    <3>1. PICK e \in LineEnds(s) : e = Min(LineEnds(s)) /\ \A y \in LineEnds(s) : e <= y
      BY <2>4, LineEndsType, MinOf
    <3>2. e \in 3 .. Len(s) - 1 /\ \A y \in LineEnds(s) : y \in 3 .. Len(s) - 1
      BY LineEndsType
    <3>3. PICK raw \in 0 .. InitMax :
             \/ Parse(s).used = e + 1 + raw /\ Len(s) >= e + 1 + raw
             \/ Parse(s).used = 0 /\ Len(s) < e + 1 + raw
      BY <1>4, <2>1, <2>4, <3>1, ParseLineUsed
    <3>4. e + 1 <= LineMax + ReadMax
      BY <2>2, <3>1, <3>2 DEF UnfinishedLine
    <3>5. \/ Len(s) <= LineMax + ReadMax
          \/ Len(s) < e + 1 + InitMax + ReadMax
      BY <2>2, <3>1 DEF UnfinishedLine
    <3>6. CASE Parse(s).used = e + 1 + raw /\ Len(s) >= e + 1 + raw
      BY <3>2, <3>5, <3>6
    <3>7. CASE Parse(s).used = 0 /\ Len(s) < e + 1 + raw
      <4>1. \A y \in LineEnds(s) : Len(s) < y + 1 + InitMax + 0
        BY <3>1, <3>2, <3>7
      <4>2. UnfinishedLine(s, 0)
        BY <1>4, <3>1, <3>4, <4>1 DEF UnfinishedLine
      <4> QED
        BY <3>7, <4>2 DEF HeldBack
    <3> QED
      BY <3>3, <3>6, <3>7
  <2> QED
    BY <2>3, <2>4
<1> QED
  BY <1>1, <1>2, <1>3, <1>4

\* op_resync_offset skips at least one byte and no more than there are.
LEMMA ResyncRange ==
    ASSUME NEW s \in Seq(Byte), Len(s) >= 1
    PROVE  Resync(s) \in 1 .. Len(s)
<1> DEFINE places == {i \in 2 .. Len(s) - 2 : Plausible(s, i)}
<1>1. CASE places = {}
  BY <1>1 DEF Resync
<1>2. CASE places # {}
  <2>1. places \in SUBSET Nat
    OBVIOUS
  <2>2. Min(places) \in places
    BY <1>2, <2>1, MinOf
  <2>3. Resync(s) = Min(places) - 1
    BY <1>2 DEF Resync
  <2>4. Min(places) \in 2 .. Len(s) - 2
    BY <2>2
  <2> HIDE DEF places
  <2> QED
    BY <2>3, <2>4
<1> QED
  BY <1>1, <1>2

LEMMA SkipRange ==
    ASSUME NEW s \in Seq(Byte), Len(s) >= 1, NEW used \in 1 .. Len(s)
    PROVE  Skip(s, used) \in used .. Len(s)
<1>1. PICK r \in 1 .. Len(s) : r = Resync(s)
  BY ResyncRange
<1>a. r \in Int /\ used \in Int
  BY BytesType
<1>2. /\ Max({r, used}) \in {r, used}
      /\ Max({r, used}) >= used
  BY <1>a, MaxOf
<1> QED
  BY <1>1, <1>2, BytesType DEF Skip

\* With what was held back there is room for a whole read.
LEMMA HeldFits ==
    ASSUME NEW s \in Seq(Byte), HeldBack(s)
    PROVE  Len(s) + ReadMax <= AccumCap
<1> USE Sizes, BytesType
<1>1. CASE Len(s) <= LineMax
  BY <1>1
<1>2. CASE UnfinishedFrame(s, 0)
  <2>1. s[4] \in 0 .. ByteMax
    BY <1>2, BytesType DEF UnfinishedFrame
  <2> QED
    BY <1>2, <2>1 DEF UnfinishedFrame
<1>3. CASE UnfinishedLine(s, 0)
  <2>1. PICK e \in LineEnds(s) : e + 1 <= LineMax + ReadMax
    BY <1>3 DEF UnfinishedLine
  <2>2. e \in 3 .. Len(s) - 1
    BY LineEndsType
  <2>3. Len(s) < e + 1 + InitMax + 0
    BY <1>3, <2>1 DEF UnfinishedLine
  <2> QED
    BY <2>1, <2>2, <2>3
<1> QED
  BY <1>1, <1>2, <1>3 DEF HeldBack

\* A read behind what was held back begins no other record there.
LEMMA ReadBehind ==
    ASSUME NEW s \in Seq(Byte), NEW t \in Seq(Byte), HeldBack(s),
           Len(s) <= Len(t), Len(t) <= Len(s) + ReadMax,
           \A k \in 1 .. Len(s) : t[k] = s[k]
    PROVE  Bounded(t, TRUE)
<1> USE Sizes, BytesType
<1>1. CASE Len(s) <= LineMax
  BY <1>1 DEF Bounded
<1>2. CASE UnfinishedFrame(s, 0)
  <2>1. s[4] \in 0 .. ByteMax
    BY <1>2, BytesType DEF UnfinishedFrame
  <2>2. Len(s) >= 4 /\ t[1] = s[1] /\ t[2] = s[2] /\ t[3] = s[3] /\ t[4] = s[4]
    BY <1>2 DEF UnfinishedFrame
  <2>3. BeginsAr(t)
    BY <1>2, <2>2 DEF UnfinishedFrame, BeginsAr
  <2>4. Len(s) < 4 + s[4]
    BY <1>2, <2>1 DEF UnfinishedFrame
  <2>5. Len(t) >= 4 /\ Len(t) < 4 + t[4] + ReadMax
    BY <2>1, <2>2, <2>4
  <2>6. t[3] \in Digit
    BY <1>2, <2>2 DEF UnfinishedFrame
  <2> QED
    BY <2>3, <2>5, <2>6 DEF UnfinishedFrame, Bounded
<1>3. CASE UnfinishedLine(s, 0)
  <2>1. Len(s) >= 3 /\ t[1] = s[1] /\ t[2] = s[2] /\ t[3] = s[3]
    <3>1. Len(s) >= 3
      BY <1>3 DEF UnfinishedLine
    <3>2. 1 \in 1 .. Len(s) /\ 2 \in 1 .. Len(s) /\ 3 \in 1 .. Len(s)
      BY <3>1
    <3> QED
      BY <3>1, <3>2
  <2>2. BeginsAr(t) /\ t[3] \notin Digit
    BY <1>3, <2>1 DEF UnfinishedLine, BeginsAr
  <2>3. PICK e \in LineEnds(s) : e + 1 <= LineMax + ReadMax
    BY <1>3 DEF UnfinishedLine
  <2>4. e \in LineEnds(t)
    BY DEF LineEnds
  <2>5. ASSUME NEW y \in LineEnds(t)
        PROVE  Len(t) < y + 1 + InitMax + ReadMax
    <3>1. y \in 3 .. Len(t) - 1
      BY LineEndsType
    <3>2. CASE y <= Len(s) - 1
      <4>1. y \in LineEnds(s)
        BY <3>1, <3>2 DEF LineEnds
      <4>2. Len(s) < y + 1 + InitMax + 0
        BY <1>3, <4>1 DEF UnfinishedLine
      <4> QED
        BY <3>1, <4>2
    <3>3. CASE y > Len(s) - 1
      BY <3>1, <3>3
    <3> QED
      BY <3>1, <3>2, <3>3
  <2>6. UnfinishedLine(t, ReadMax)
    BY <2>1, <2>2, <2>3, <2>4, <2>5 DEF UnfinishedLine
  <2> QED
    BY <2>6 DEF Bounded
<1> QED
  BY <1>1, <1>2, <1>3 DEF HeldBack
-----------------------------------------------------------------------------
(***************************************************************************)
(* A record that is understood alone is understood in the stream: nothing  *)
(* less than all of it is taken, and what is behind it makes no difference.*)
(***************************************************************************)

LEMMA SamePart ==
    ASSUME NEW s \in Seq(Byte), NEW t \in Seq(Byte), NEW a \in Nat \ {0}, NEW b \in Nat,
           b <= Len(s), b <= Len(t), \A k \in 1 .. b : t[k] = s[k]
    PROVE  SubSeq(t, a, b) = SubSeq(s, a, b)
<1>1. \A k \in 1 .. b - a + 1 : a + k - 1 \in 1 .. b
  OBVIOUS
<1>2. /\ SubSeq(s, a, b) = [k \in 1 .. b - a + 1 |-> s[a + k - 1]]
      /\ SubSeq(t, a, b) = [k \in 1 .. b - a + 1 |-> t[a + k - 1]]
  OBVIOUS
<1> QED
  BY <1>1, <1>2

IsFirstEnd(s, e) == e \in LineEnds(s) /\ \A y \in LineEnds(s) : e <= y

LEMMA ParseLineUpTo ==
    ASSUME NEW s \in Seq(Byte), NEW e, IsFirstEnd(s, e)
    PROVE  ParseLine(s) = LineUpTo(s, e + 1)
<1>1. e \in 3 .. Len(s) - 1 /\ LineEnds(s) # {} /\ LineEnds(s) \in SUBSET Nat
  BY LineEndsType DEF IsFirstEnd
<1>2. \A y \in LineEnds(s) : y \in 3 .. Len(s) - 1
  BY LineEndsType
<1>3. PICK m \in LineEnds(s) : m = Min(LineEnds(s)) /\ m <= e
  BY <1>1, MinOf DEF IsFirstEnd
<1>4. Min(LineEnds(s)) = e
  BY <1>1, <1>2, <1>3 DEF IsFirstEnd
<1> QED
  BY <1>1, <1>4 DEF ParseLine

LEMMA LineUpToIs ==
    ASSUME NEW s, NEW e \in Nat, NEW r, NEW raw,
           r = ParseAscii(SubSeq(s, 3, e - 1)), raw = Raw(r, s[3])
    PROVE  LineUpTo(s, e + 1) =
               IF Len(s) < e + 1 + raw THEN Incomplete
               ELSE [used |-> e + 1 + raw,
                     reply |-> IF raw = 0 THEN r
                               ELSE [r EXCEPT !.data = SubSeq(s, e + 2, e + 1 + raw)]]
<1>1. PICK end : end = e + 1
  OBVIOUS
<1>2. end - 2 = e - 1 /\ end + 1 = e + 2
  BY <1>1
<1>3. LineUpTo(s, end) =
          IF Len(s) < end + raw THEN Incomplete
          ELSE [used |-> end + raw,
                reply |-> IF raw = 0 THEN r
                          ELSE [r EXCEPT !.data = SubSeq(s, e + 2, end + raw)]]
  BY <1>2, Zenon DEF LineUpTo
<1> QED
  BY <1>1, <1>3

LEMMA FirstEndExists ==
    ASSUME NEW s \in Seq(Byte), LineEnds(s) # {}
    PROVE  \E e \in 3 .. Len(s) - 1 : IsFirstEnd(s, e)
BY LineEndsType, MinOf DEF IsFirstEnd

LEMMA RawRange ==
    ASSUME NEW s \in Seq(Byte), NEW e \in 3 .. Len(s) - 1
    PROVE  Raw(ParseAscii(SubSeq(s, 3, e - 1)), s[3]) \in 0 .. InitMax
<1> DEFINE body == SubSeq(s, 3, e - 1)
<1>1. CASE ParseAscii(body).kind = "init" /\ s[3] = Code["y"]
  <2>1. body # <<>>
    BY <1>1 DEF ParseAscii, Junk
  <2>2. body \in Seq(Byte) /\ body[1] = s[3]
    BY <2>1
  <2> QED
    BY <1>1, <2>1, <2>2, RawBytes DEF Raw
<1>2. CASE ~(ParseAscii(body).kind = "init" /\ s[3] = Code["y"])
  BY <1>2, Sizes DEF Raw
<1> QED
  BY <1>1, <1>2

\* A record of its own: all of it is used, and it means something.
Alone(s) ==
    /\ s \in Seq(Byte) /\ Parse(s).used = Len(s) /\ Parse(s).reply.kind # "junk"
    /\ s[3] \in Digit \/ \E e \in LineEnds(s) : e <= LineMax

LEMMA AloneHead ==
    ASSUME NEW s, Alone(s)
    PROVE  Len(s) >= 3 /\ BeginsAr(s) /\ Plausible(s, 1)
<1>1. s \in Seq(Byte) /\ Parse(s).reply.kind # "junk" /\ Len(s) \in Nat
  BY LenProperties DEF Alone
<1>2. BeginsAr(s) /\ Len(s) >= 3
  BY <1>1 DEF Parse, JunkOf, Incomplete, Junk
<1>3. s[1] = Code["a"] /\ s[2] = Code["r"]
  BY <1>1, <1>2 DEF BeginsAr
<1>4. CASE s[3] \in Digit
  BY <1>2, <1>3, <1>4 DEF Plausible
<1>5. CASE s[3] \notin Digit
  <2>1. PICK e \in 3 .. Len(s) - 1 : IsFirstEnd(s, e)
    <3>1. LineEnds(s) # {}
      BY <1>5 DEF Alone
    <3> QED
      BY <1>1, <3>1, FirstEndExists
  <2>2. Parse(s) = LineUpTo(s, e + 1)
    BY <1>1, <1>2, <1>5, <2>1, ParseLineUpTo DEF Parse
  <2> DEFINE body == SubSeq(s, 3, e - 1)
  <2>3. ParseAscii(body).kind # "junk"
    <3>1. PICK r : r = ParseAscii(body)
      OBVIOUS
    <3>2. PICK raw : raw = Raw(r, s[3])
      OBVIOUS
    <3>3. Parse(s) = IF Len(s) < e + 1 + raw THEN Incomplete
                     ELSE [used |-> e + 1 + raw,
                           reply |-> IF raw = 0 THEN r
                                     ELSE [r EXCEPT !.data = SubSeq(s, e + 2, e + 1 + raw)]]
      BY <2>1, <2>2, <3>1, <3>2, LineUpToIs
    <3>4. raw = 0 \/ r.kind = "init"
      BY <3>2 DEF Raw
    <3> QED
      BY <1>1, <3>1, <3>3, <3>4 DEF Incomplete, Junk
  <2>4. body # <<>> /\ \E v \in Verbs : Code[v] = body[1]
    BY <2>3 DEF ParseAscii, Junk
  <2>5. body[1] = s[3]
    BY <1>1, <2>1, <2>4
  <2> QED
    BY <1>2, <1>3, <2>4, <2>5 DEF Plausible
<1> QED
  BY <1>4, <1>5

LEMMA AloneFrame ==
    ASSUME NEW s, Alone(s), s[3] \in Digit
    PROVE  /\ Len(s) >= 4 /\ s[4] \in Nat \ {0} /\ Len(s) = 4 + s[4]
           /\ Parse(s) = [used |-> Len(s), reply |-> FrameReply(SubSeq(s, 1, Len(s)))]
<1>1. s \in Seq(Byte) /\ Len(s) \in Nat /\ Len(s) >= 3 /\ BeginsAr(s)
  BY AloneHead, LenProperties DEF Alone
<1>2. Parse(s) = ParseFrame(s) /\ Parse(s).reply.kind # "junk" /\ Parse(s).used = Len(s)
  BY <1>1 DEF Parse, Alone
<1>3. Len(s) >= 4 /\ ~(Len(s) < 4 + s[4]) /\ s[4] # 0
  BY <1>1, <1>2 DEF ParseFrame, Incomplete, JunkOf, Junk
<1>4. s[4] \in 0 .. ByteMax
  BY <1>1, <1>3, BytesType
<1>5. ParseFrame(s) = [used |-> 4 + s[4], reply |-> FrameReply(SubSeq(s, 1, 4 + s[4]))]
  BY <1>3 DEF ParseFrame
<1>6. Len(s) = 4 + s[4]
  BY <1>2, <1>5
<1> QED
  BY <1>2, <1>3, <1>4, <1>5, <1>6, Sizes

LEMMA AloneLine ==
    ASSUME NEW s, Alone(s), s[3] \notin Digit
    PROVE  \E e \in 3 .. Len(s) - 1 :
              /\ IsFirstEnd(s, e) /\ e <= LineMax /\ Parse(s) = LineUpTo(s, e + 1)
              /\ Len(s) = e + 1 + Raw(ParseAscii(SubSeq(s, 3, e - 1)), s[3])
<1>1. s \in Seq(Byte) /\ Len(s) \in Nat /\ Len(s) >= 3 /\ BeginsAr(s)
      /\ Parse(s).used = Len(s)
  BY AloneHead, LenProperties DEF Alone
<1>2. PICK y \in LineEnds(s) : y <= LineMax
  BY DEF Alone
<1>3. PICK e \in 3 .. Len(s) - 1 : IsFirstEnd(s, e)
  BY <1>1, <1>2, FirstEndExists
<1>4. e <= y /\ y \in 3 .. Len(s) - 1
  BY <1>1, <1>3, LineEndsType DEF IsFirstEnd
<1>5. e <= LineMax
  BY <1>2, <1>4, Sizes
<1>6. Parse(s) = LineUpTo(s, e + 1)
  BY <1>1, <1>3, ParseLineUpTo DEF Parse
<1>7. PICK raw \in 0 .. InitMax : raw = Raw(ParseAscii(SubSeq(s, 3, e - 1)), s[3])
  BY <1>1, RawRange
<1>8. LineUpTo(s, e + 1).used = e + 1 + raw
  <2>1. PICK r : r = ParseAscii(SubSeq(s, 3, e - 1))
    OBVIOUS
  <2>2. LineUpTo(s, e + 1) =
            IF Len(s) < e + 1 + raw THEN Incomplete
            ELSE [used |-> e + 1 + raw,
                  reply |-> IF raw = 0 THEN r
                            ELSE [r EXCEPT !.data = SubSeq(s, e + 2, e + 1 + raw)]]
    BY <1>3, <1>7, <2>1, LineUpToIs
  <2>3. LineUpTo(s, e + 1).used = IF Len(s) < e + 1 + raw THEN 0 ELSE e + 1 + raw
    BY <2>2 DEF Incomplete
  <2> QED
    BY <1>1, <1>6, <2>3
<1> QED
  BY <1>1, <1>3, <1>5, <1>6, <1>7, <1>8

\* The line ends of a part are those of the whole that lie in it.
LEMMA SameEnds ==
    ASSUME NEW s \in Seq(Byte), NEW t \in Seq(Byte), Len(t) <= Len(s),
           \A k \in 1 .. Len(t) : t[k] = s[k]
    PROVE  /\ \A e \in LineEnds(t) : e \in LineEnds(s)
           /\ \A e \in LineEnds(s) : e <= Len(t) - 1 => e \in LineEnds(t)
<1>1. Len(s) \in Nat /\ Len(t) \in Nat
  BY LenProperties
<1>2. \A e \in 3 .. Len(t) - 1 : /\ t[e] = s[e] /\ t[e + 1] = s[e + 1]
                               /\ e \in 3 .. Len(s) - 1
  <2> SUFFICES ASSUME NEW e \in 3 .. Len(t) - 1
               PROVE  t[e] = s[e] /\ t[e + 1] = s[e + 1] /\ e \in 3 .. Len(s) - 1
    OBVIOUS
  <2>1. e \in 1 .. Len(t) /\ e + 1 \in 1 .. Len(t) /\ e \in 3 .. Len(s) - 1
    BY <1>1
  <2> QED
    BY <2>1
<1>3. \A e \in 3 .. Len(s) - 1 : e <= Len(t) - 1 => e \in 3 .. Len(t) - 1
  BY <1>1
<1> QED
  BY <1>2, <1>3 DEF LineEnds

\* Less than the whole record is waited for.
LEMMA PartIsUnfinished ==
    ASSUME NEW s, Alone(s), NEW t \in Seq(Byte), 1 <= Len(t), Len(t) < Len(s),
           \A k \in 1 .. Len(t) : t[k] = s[k]
    PROVE  Parse(t) = Incomplete
<1>1. /\ s \in Seq(Byte) /\ Len(s) \in Nat /\ Len(t) \in Nat /\ Len(s) >= 3
      /\ s[1] = Code["a"] /\ s[2] = Code["r"]
  BY AloneHead, LenProperties DEF Alone, BeginsAr
<1>2. BeginsAr(t)
  <2>1. 1 \in 1 .. Len(t) /\ (Len(t) >= 2 => 2 \in 1 .. Len(t))
    BY <1>1
  <2> QED
    BY <1>1, <2>1 DEF BeginsAr
<1>3. CASE Len(t) < 3
  BY <1>2, <1>3 DEF Parse
<1>4. CASE Len(t) >= 3 /\ s[3] \in Digit
  <2>1. t[3] = s[3] /\ Len(s) = 4 + s[4] /\ s[4] \in Nat
    BY <1>1, <1>4, AloneFrame
  <2>2. Len(t) < 4 \/ Len(t) < 4 + t[4]
    <3>1. CASE Len(t) >= 4
      <4>1. t[4] = s[4]
        BY <1>1, <3>1
      <4> QED
        BY <1>1, <2>1, <4>1
    <3> QED
      BY <1>1, <3>1
  <2> QED
    BY <1>2, <1>4, <2>1, <2>2 DEF Parse, ParseFrame
<1>5. CASE Len(t) >= 3 /\ s[3] \notin Digit
  <2>1. t[3] = s[3]
    BY <1>1, <1>5
  <2>2. PICK e \in 3 .. Len(s) - 1 :
           /\ IsFirstEnd(s, e) /\ e <= LineMax
           /\ Len(s) = e + 1 + Raw(ParseAscii(SubSeq(s, 3, e - 1)), s[3])
    BY <1>5, AloneLine
  <2>3. Parse(t) = ParseLine(t)
    BY <1>2, <1>5, <2>1 DEF Parse
  <2>4. CASE e <= Len(t) - 1
    <3>1. IsFirstEnd(t, e)
      BY <1>1, <2>2, <2>4, SameEnds DEF IsFirstEnd
    <3>2. SubSeq(t, 3, e - 1) = SubSeq(s, 3, e - 1)
      <4>1. e - 1 \in Nat /\ e - 1 <= Len(s) /\ e - 1 <= Len(t) /\ 3 \in Nat \ {0}
        BY <1>1, <2>2, <2>4
      <4>2. \A k \in 1 .. e - 1 : t[k] = s[k]
        BY <1>1, <4>1
      <4> QED
        BY <1>1, <4>1, <4>2, SamePart
    <3>3. PICK raw \in 0 .. InitMax : raw = Raw(ParseAscii(SubSeq(s, 3, e - 1)), s[3])
      BY <1>1, RawRange
    <3>4. Len(s) = e + 1 + raw
      BY <2>2, <3>3
    <3>5. Len(t) < e + 1 + raw
      BY <1>1, <3>4
    <3>6. Parse(t) = LineUpTo(t, e + 1)
      BY <2>3, <3>1, ParseLineUpTo
    <3>7. PICK r : r = ParseAscii(SubSeq(s, 3, e - 1))
      OBVIOUS
    <3>8. r = ParseAscii(SubSeq(t, 3, e - 1)) /\ raw = Raw(r, t[3])
      BY <2>1, <3>2, <3>3, <3>7
    <3>9. LineUpTo(t, e + 1) =
              IF Len(t) < e + 1 + raw THEN Incomplete
              ELSE [used |-> e + 1 + raw,
                    reply |-> IF raw = 0 THEN r
                              ELSE [r EXCEPT !.data = SubSeq(t, e + 2, e + 1 + raw)]]
      BY <2>2, <3>8, LineUpToIs
    <3> QED
      BY <3>5, <3>6, <3>9
  <2>5. CASE ~(e <= Len(t) - 1)
    <3>1. LineEnds(t) = {}
      <4>1. ASSUME NEW y \in LineEnds(t) PROVE FALSE
        <5>1. y \in 3 .. Len(t) - 1
          BY LineEndsType
        <5>2. Len(t) <= Len(s)
          BY <1>1
        <5>3. y \in LineEnds(s)
          BY <1>1, <4>1, <5>2, SameEnds
        <5>4. e <= y
          BY <2>2, <5>3 DEF IsFirstEnd
        <5> QED
          BY <1>1, <2>2, <2>5, <5>1, <5>4
      <4> QED
        BY <4>1
    <3>2. Len(t) <= LineMax
      BY <1>1, <2>2, <2>5, Sizes
    <3>3. ~(Len(t) > LineMax)
      BY <1>1, <3>2, Sizes
    <3> QED
      BY <2>3, <3>1, <3>3 DEF ParseLine
  <2> QED
    BY <2>4, <2>5
<1> QED
  BY <1>1, <1>3, <1>4, <1>5

\* What is behind the record makes no difference.
LEMMA MoreIsTheSame ==
    ASSUME NEW s, Alone(s), NEW u \in Seq(Byte), Len(s) <= Len(u),
           \A k \in 1 .. Len(s) : u[k] = s[k]
    PROVE  Parse(u) = Parse(s)
<1>1. /\ s \in Seq(Byte) /\ Len(s) \in Nat /\ Len(u) \in Nat /\ Len(s) >= 3
      /\ s[1] = Code["a"] /\ s[2] = Code["r"]
  BY AloneHead, LenProperties DEF Alone, BeginsAr
<1>2. u[1] = s[1] /\ u[2] = s[2] /\ u[3] = s[3]
  BY <1>1
<1>3. BeginsAr(u) /\ Len(u) >= 3
  BY <1>1, <1>2 DEF BeginsAr
<1>4. CASE s[3] \in Digit
  <2>1. /\ Len(s) >= 4 /\ s[4] \in Nat \ {0} /\ Len(s) = 4 + s[4]
        /\ Parse(s) = [used |-> Len(s), reply |-> FrameReply(SubSeq(s, 1, Len(s)))]
    BY <1>4, AloneFrame
  <2>2. u[4] = s[4] /\ SubSeq(u, 1, Len(s)) = SubSeq(s, 1, Len(s))
    BY <1>1, <2>1, SamePart
  <2>3. ~(Len(u) < 4) /\ ~(Len(u) < 4 + u[4]) /\ u[4] # 0
    <3>1. PICK m \in Nat \ {0} : m = s[4]
      BY <2>1
    <3>2. Len(s) = 4 + m /\ u[4] = m
      BY <2>1, <2>2, <3>1
    <3>3. Len(u) >= 4 + m
      BY <3>2
    <3> QED
      BY <1>1, <3>2, <3>3
  <2>4. Parse(u) = ParseFrame(u)
    BY <1>2, <1>3, <1>4 DEF Parse
  <2> QED
    BY <2>1, <2>2, <2>3, <2>4 DEF ParseFrame
<1>5. CASE s[3] \notin Digit
  <2>1. PICK e \in 3 .. Len(s) - 1 :
           /\ IsFirstEnd(s, e) /\ Parse(s) = LineUpTo(s, e + 1)
           /\ Len(s) = e + 1 + Raw(ParseAscii(SubSeq(s, 3, e - 1)), s[3])
    BY <1>5, AloneLine
  <2>2. Parse(u) = ParseLine(u)
    BY <1>2, <1>3, <1>5 DEF Parse
  <2>3. IsFirstEnd(u, e)
    <3>1. e \in LineEnds(s) /\ \A y \in LineEnds(s) : e <= y
      BY <2>1 DEF IsFirstEnd
    <3>2. e \in LineEnds(u) /\ \A y \in LineEnds(u) : y <= Len(s) - 1 => y \in LineEnds(s)
      BY <1>1, <3>1, SameEnds
    <3>3. \A y \in LineEnds(u) : y \in Nat
      BY LineEndsType
    <3> QED
      BY <1>1, <2>1, <3>1, <3>2, <3>3 DEF IsFirstEnd
  <2>4. PICK raw \in 0 .. InitMax : raw = Raw(ParseAscii(SubSeq(s, 3, e - 1)), s[3])
    BY <1>1, RawRange
  <2>5. e + 1 + raw = Len(s) /\ ~(Len(u) < e + 1 + raw) /\ ~(Len(s) < e + 1 + raw)
    <3>1. e + 1 + raw = Len(s)
      BY <2>1, <2>4
    <3> QED
      BY <1>1, <3>1
  <2>6. SubSeq(u, 3, e - 1) = SubSeq(s, 3, e - 1)
    <3>1. e - 1 \in Nat /\ e - 1 <= Len(s) /\ e - 1 <= Len(u) /\ 3 \in Nat \ {0}
      BY <1>1, <2>1
    <3>2. \A k \in 1 .. e - 1 : u[k] = s[k]
      <4>1. \A k \in 1 .. e - 1 : k \in 1 .. Len(s)
        BY <1>1, <3>1
      <4> QED
        BY <4>1
    <3> QED
      BY <1>1, <3>1, <3>2, SamePart
  <2>7. SubSeq(u, e + 2, e + 1 + raw) = SubSeq(s, e + 2, e + 1 + raw)
    <3>1. e + 2 \in Nat \ {0}
      BY <2>1
    <3> QED
      BY <1>1, <2>5, <3>1, SamePart
  <2>8. ParseLine(u) = LineUpTo(u, e + 1)
    BY <2>3, ParseLineUpTo
  <2> QED
    <3>1. PICK r : r = ParseAscii(SubSeq(s, 3, e - 1))
      OBVIOUS
    <3>2. r = ParseAscii(SubSeq(u, 3, e - 1)) /\ raw = Raw(r, u[3])
      BY <1>2, <2>4, <2>6, <3>1
    <3>a. raw = Raw(r, s[3]) /\ e \in Nat
      BY <2>1, <2>4, <3>1
    <3>3. LineUpTo(u, e + 1) =
              IF Len(u) < e + 1 + raw THEN Incomplete
              ELSE [used |-> e + 1 + raw,
                    reply |-> IF raw = 0 THEN r
                              ELSE [r EXCEPT !.data = SubSeq(u, e + 2, e + 1 + raw)]]
      BY <3>2, <3>a, LineUpToIs
    <3>4. LineUpTo(s, e + 1) =
              IF Len(s) < e + 1 + raw THEN Incomplete
              ELSE [used |-> e + 1 + raw,
                    reply |-> IF raw = 0 THEN r
                              ELSE [r EXCEPT !.data = SubSeq(s, e + 2, e + 1 + raw)]]
      BY <3>1, <3>a, LineUpToIs
    <3> QED
      BY <2>1, <2>2, <2>5, <2>7, <2>8, <3>3, <3>4
<1> QED
  BY <1>4, <1>5
-----------------------------------------------------------------------------
(* The steps of the reader.                                                *)

LEMMA SuffixType ==
    ASSUME NEW n \in Nat, NEW places \in Seq(1 .. n), NEW m \in 0 .. Len(places)
    PROVE  /\ SubSeq(places, m + 1, Len(places)) \in Seq(1 .. n)
           /\ Len(SubSeq(places, m + 1, Len(places))) = Len(places) - m
           /\ \A i \in 1 .. Len(places) - m :
                 SubSeq(places, m + 1, Len(places))[i] = places[m + i]
<1>1. Len(places) \in Nat /\ \A i \in 1 .. Len(places) : places[i] \in 1 .. n
  BY LenProperties, ElementOfSeq
<1>2. \A i \in m + 1 .. Len(places) : places[i] \in 1 .. n
  BY <1>1
<1>3. m + 1 \in Int /\ Len(places) \in Int
  BY <1>1
<1>4. /\ SubSeq(places, m + 1, Len(places)) \in Seq(1 .. n)
      /\ Len(SubSeq(places, m + 1, Len(places))) =
            IF m + 1 <= Len(places) THEN Len(places) - (m + 1) + 1 ELSE 0
      /\ \A i \in 1 .. Len(places) - (m + 1) + 1 :
            SubSeq(places, m + 1, Len(places))[i] = places[m + 1 + i - 1]
  BY <1>2, <1>3, SubSeqProperties
<1> QED
  BY <1>1, <1>4

LEMMA WireTypes ==
    ASSUME WellLaid(wire)
    PROVE  /\ wire.bytes \in Seq(Byte) /\ Len(wire.bytes) \in Nat
           /\ Len(wire.ends) \in Nat \ {0} /\ DOMAIN wire.ends = 1 .. Len(wire.ends)
           /\ \A i \in 1 .. Len(wire.ends) : wire.ends[i] \in 1 .. Len(wire.bytes)
<1>1. Len(wire.bytes) \in Nat /\ Len(wire.ends) \in Nat /\ Len(wire.ends) # 0
  BY LenProperties, EmptySeq DEF WellLaid
<1> QED
  BY <1>1, LenProperties, ElementOfSeq DEF WellLaid

LEMMA RestType ==
    ASSUME TypeInv
    PROVE  /\ Rest \in Seq(1 .. Len(wire.bytes))
           /\ Len(Rest) = Len(accum) - off
           /\ \A i \in 1 .. Len(accum) - off : Rest[i] = accum[off + i]
<1>1. /\ accum \in Seq(1 .. Len(wire.bytes)) /\ off \in 0 .. Len(accum)
      /\ Len(wire.bytes) \in Nat
  BY LenProperties DEF TypeInv, TypeOK
<1> QED
  BY <1>1, SuffixType DEF Rest

LEMMA TupleType ==
    ASSUME NEW n \in Nat, NEW S, NEW f \in [1 .. n -> S]
    PROVE  f \in Seq(S) /\ Len(f) = n
OBVIOUS

LEMMA BytesAtType ==
    ASSUME TypeInv, NEW places \in Seq(1 .. Len(wire.bytes))
    PROVE  /\ BytesAt(places) \in Seq(Byte)
           /\ Len(BytesAt(places)) = Len(places)
           /\ \A k \in 1 .. Len(places) : BytesAt(places)[k] = wire.bytes[places[k]]
<1>1. Len(places) \in Nat /\ \A k \in 1 .. Len(places) : places[k] \in 1 .. Len(wire.bytes)
  BY LenProperties, ElementOfSeq
<1>2. \A k \in 1 .. Len(places) : wire.bytes[places[k]] \in Byte
  BY <1>1, ElementOfSeq DEF TypeInv
<1>3. BytesAt(places) \in [1 .. Len(places) -> Byte]
  BY <1>2 DEF BytesAt
<1> QED
  BY <1>1, <1>3 DEF BytesAt

LEMMA TakeAll ==
    ASSUME TypeInv, AccumInv, mode = "reading", NEW n \in 1 .. ReadMax
    PROVE  Take(n) = n /\ Len(accum) + n <= AccumCap
<1>1. accum \in Seq(1 .. Len(wire.bytes)) /\ Len(accum) \in Nat
  BY LenProperties DEF TypeInv, TypeOK
<1>2. Len(accum) + ReadMax <= AccumCap
  BY <1>1, BytesAtType, HeldFits DEF AccumInv
<1>3. PICK m \in Nat : m = AccumCap - Len(accum)
  BY <1>1, <1>2, Sizes
<1>4. n \in Nat /\ n <= m
  BY <1>1, <1>2, <1>3, Sizes
<1>5. {n, m} \in SUBSET Nat /\ {n, m} # {}
  BY <1>4
<1>6. Min({n, m}) \in {n, m} /\ Min({n, m}) <= n
  BY <1>5, MinOf
<1>7. Min({n, m}) = n
  BY <1>3, <1>4, <1>6
<1> QED
  BY <1>1, <1>3, <1>4, <1>7, Sizes DEF Take

\* What a read does to the accumulator: all of it is taken.
LEMMA ReadEffect ==
    ASSUME TypeInv, AccumInv, NEW n \in 1 .. ReadMax, Read(n)
    PROVE  /\ n \in Nat /\ at + n <= Len(wire.bytes) /\ Len(accum) + n <= AccumCap
           /\ at' = at + n /\ off' = 0 /\ mode' = "consuming" /\ failures' = 0
           /\ UNCHANGED <<wire, hungUp, lost, taken, losses>>
           /\ accum' \in Seq(1 .. Len(wire.bytes))
           /\ Len(accum') = Len(accum) + n
           /\ \A i \in 1 .. Len(accum) : accum'[i] = accum[i]
           /\ \A i \in Len(accum) + 1 .. Len(accum) + n : accum'[i] = at + (i - Len(accum))
           /\ Rest' \in Seq(1 .. Len(wire.bytes))
           /\ Len(Rest') = Len(accum')
           /\ \A i \in 1 .. Len(accum') : Rest'[i] = accum'[i]
<1>a. mode = "reading"
  BY DEF Read
<1>b. /\ accum \in Seq(1 .. Len(wire.bytes)) /\ Len(accum) \in Nat
      /\ at \in 0 .. Len(wire.bytes) /\ Len(wire.bytes) \in Nat
  BY LenProperties DEF TypeInv, TypeOK
<1>o. off = 0
  BY <1>a DEF TypeInv, TypeOK
<1>c. n \in Nat /\ at + n <= Len(wire.bytes) /\ Len(accum) + n <= AccumCap
  BY <1>a, <1>b, TakeAll, Sizes DEF Read, Left
<1> DEFINE fresh == [k \in 1 .. n |-> at + k]
<1>d. /\ accum' = accum \o fresh
      /\ at' = at + n /\ off' = 0 /\ mode' = "consuming" /\ failures' = 0
      /\ UNCHANGED <<wire, hungUp, lost, taken, losses>>
  BY <1>a, <1>o, TakeAll DEF Read
<1>e. /\ fresh \in Seq(1 .. Len(wire.bytes)) /\ Len(fresh) = n
      /\ \A k \in 1 .. n : fresh[k] = at + k
  BY <1>b, <1>c
<1> HIDE DEF fresh
<1>f. /\ accum' \in Seq(1 .. Len(wire.bytes))
      /\ Len(accum') = Len(accum) + n
      /\ \A i \in 1 .. Len(accum) : accum'[i] = accum[i]
      /\ \A i \in Len(accum) + 1 .. Len(accum) + n : accum'[i] = at + (i - Len(accum))
  <2>1. \A i \in 1 .. Len(accum) + n :
           accum'[i] = IF i <= Len(accum) THEN accum[i] ELSE fresh[i - Len(accum)]
    BY <1>b, <1>d, <1>e, ConcatProperties
  <2>2. accum' \in Seq(1 .. Len(wire.bytes)) /\ Len(accum') = Len(accum) + n
    BY <1>b, <1>d, <1>e, ConcatProperties
  <2>3. ASSUME NEW i \in 1 .. Len(accum)
        PROVE  accum'[i] = accum[i]
    <3>1. i \in 1 .. Len(accum) + n /\ i <= Len(accum)
      BY <1>b, <1>c
    <3> QED
      BY <2>1, <3>1
  <2>4. ASSUME NEW i \in Len(accum) + 1 .. Len(accum) + n
        PROVE  accum'[i] = at + (i - Len(accum))
    <3>1. /\ i \in 1 .. Len(accum) + n /\ ~(i <= Len(accum))
          /\ i - Len(accum) \in 1 .. n
      BY <1>b, <1>c
    <3>2. accum'[i] = fresh[i - Len(accum)]
      BY <2>1, <3>1
    <3> QED
      BY <1>e, <3>1, <3>2
  <2> QED
    BY <2>2, <2>3, <2>4
<1>g. /\ Rest' \in Seq(1 .. Len(wire.bytes))
      /\ Len(Rest') = Len(accum')
      /\ \A i \in 1 .. Len(accum') : Rest'[i] = accum'[i]
  <2>1. Rest' = SubSeq(accum', 0 + 1, Len(accum')) /\ 0 \in 0 .. Len(accum')
    BY <1>b, <1>c, <1>d, <1>f DEF Rest
  <2>2. /\ SubSeq(accum', 0 + 1, Len(accum')) \in Seq(1 .. Len(wire.bytes))
        /\ Len(SubSeq(accum', 0 + 1, Len(accum'))) = Len(accum') - 0
        /\ \A i \in 1 .. Len(accum') - 0 :
              SubSeq(accum', 0 + 1, Len(accum'))[i] = accum'[0 + i]
    BY <1>b, <1>f, <2>1, SuffixType
  <2>3. Len(accum') \in Nat
    BY <1>b, <1>c, <1>f
  <2> QED
    BY <2>1, <2>2, <2>3
<1> QED
  BY <1>c, <1>d, <1>f, <1>g

LEMMA ReadNext ==
    ASSUME IInv, NEW n \in 1 .. ReadMax, Read(n)
    PROVE  IInv'
<1>a. TypeInv /\ AccumInv /\ OrderInv /\ HeldIsTheStream /\ mode = "reading"
  BY DEF IInv, Read
<1>b. /\ accum \in Seq(1 .. Len(wire.bytes)) /\ Len(accum) \in Nat
      /\ at \in 0 .. Len(wire.bytes) /\ Len(wire.bytes) \in Nat /\ off = 0
      /\ \A i \in 1 .. Len(accum) : accum[i] \in 1 .. Len(wire.bytes)
  BY <1>a, LenProperties, ElementOfSeq DEF TypeInv, TypeOK
<1>c. n \in Nat /\ at + n <= Len(wire.bytes) /\ Len(accum) + n <= AccumCap
  BY <1>a, ReadEffect
<1>d. /\ at' = at + n /\ off' = 0 /\ mode' = "consuming" /\ failures' = 0
      /\ UNCHANGED <<wire, hungUp, lost, taken, losses>>
  BY <1>a, ReadEffect
<1>f. /\ accum' \in Seq(1 .. Len(wire.bytes))
      /\ Len(accum') = Len(accum) + n
      /\ \A i \in 1 .. Len(accum) : accum'[i] = accum[i]
      /\ \A i \in Len(accum) + 1 .. Len(accum) + n : accum'[i] = at + (i - Len(accum))
  BY <1>a, ReadEffect
<1>k. \A i \in 1 .. Len(accum') :
         \/ i \in 1 .. Len(accum) /\ accum'[i] = accum[i]
         \/ i \in Len(accum) + 1 .. Len(accum) + n /\ accum'[i] = at + (i - Len(accum))
  <2> SUFFICES ASSUME NEW i \in 1 .. Len(accum')
               PROVE  \/ i \in 1 .. Len(accum) /\ accum'[i] = accum[i]
                      \/ /\ i \in Len(accum) + 1 .. Len(accum) + n
                         /\ accum'[i] = at + (i - Len(accum))
    OBVIOUS
  <2>1. i \in 1 .. Len(accum) + n
    BY <1>f
  <2>2. i \in 1 .. Len(accum) \/ i \in Len(accum) + 1 .. Len(accum) + n
    BY <1>b, <1>c, <2>1
  <2> QED
    BY <1>f, <2>2
<1>1. TypeInv'
  BY <1>a, <1>b, <1>c, <1>d, <1>f, Sizes DEF TypeInv, TypeOK
<1>2. AccumInv'
  <2> DEFINE s == BytesAt(accum)
             t == BytesAt(accum)'
  <2>1. s \in Seq(Byte) /\ Len(s) = Len(accum) /\ HeldBack(s)
        /\ \A k \in 1 .. Len(accum) : s[k] = wire.bytes[accum[k]]
    BY <1>a, <1>b, BytesAtType DEF AccumInv
  <2>2. t = [k \in 1 .. Len(accum') |-> wire.bytes[accum'[k]]]
    BY <1>d DEF BytesAt
  <2>3. t \in Seq(Byte) /\ Len(t) = Len(accum')
        /\ \A k \in 1 .. Len(accum') : t[k] = wire.bytes[accum'[k]]
    <3>1. t = BytesAt(accum')
      BY <2>2 DEF BytesAt
    <3> QED
      BY <1>a, <1>f, <3>1, BytesAtType
  <2> HIDE DEF s, t
  <2>4. \A k \in 1 .. Len(s) : t[k] = s[k]
    BY <1>b, <1>c, <1>f, <2>1, <2>3
  <2>5. Len(s) <= Len(t) /\ Len(t) <= Len(s) + ReadMax
    BY <1>b, <1>f, <2>1, <2>3, Sizes
  <2>6. Bounded(t, TRUE)
    BY <2>1, <2>3, <2>4, <2>5, ReadBehind
  <2>7. BytesAt(Rest)' = t
    <3>1. /\ Rest' \in Seq(1 .. Len(wire.bytes))
          /\ Len(Rest') = Len(accum')
          /\ \A i \in 1 .. Len(accum') : Rest'[i] = accum'[i]
      BY <1>a, ReadEffect
    <3> QED
      BY <1>d, <2>2, <3>1 DEF BytesAt
  <2> QED
    BY <1>d, <2>6, <2>7 DEF AccumInv
<1>3. OrderInv'
  <2>a. /\ taken \in Seq(ToSet(taken))
        /\ \A k \in DOMAIN taken : taken[k].from \in Nat /\ taken[k].to \in 0 .. at
    BY <1>a DEF OrderInv
  <2>b. /\ \A i \in 1 .. Len(accum) : accum[i] <= at
        /\ \A j, i \in 1 .. Len(accum) : j < i => accum[j] < accum[i]
    BY <1>a DEF OrderInv
  <2>c. \A k \in DOMAIN taken : \A i \in 1 .. Len(accum) : taken[k].to < accum[i]
    BY <1>a, <1>b DEF OrderInv, BytesTakenOnce
  <2>1. \A i \in 1 .. Len(accum') : accum'[i] <= at'
    <3> SUFFICES ASSUME NEW i \in 1 .. Len(accum') PROVE accum'[i] <= at'
      OBVIOUS
    <3>1. CASE i \in 1 .. Len(accum) /\ accum'[i] = accum[i]
      <4>1. accum[i] <= at /\ accum[i] \in Nat
        BY <1>b, <2>b, <3>1
      <4> QED
        BY <1>b, <1>c, <1>d, <3>1, <4>1
    <3>2. CASE /\ i \in Len(accum) + 1 .. Len(accum) + n
               /\ accum'[i] = at + (i - Len(accum))
      BY <1>b, <1>c, <1>d, <3>2
    <3> QED
      BY <1>k, <3>1, <3>2
  <2>2. \A j, i \in 1 .. Len(accum') : j < i => accum'[j] < accum'[i]
    <3> SUFFICES ASSUME NEW j \in 1 .. Len(accum'), NEW i \in 1 .. Len(accum'), j < i
                 PROVE  accum'[j] < accum'[i]
      OBVIOUS
    <3>a. i \in 1 .. Len(accum) + n /\ j \in 1 .. Len(accum) + n
      BY <1>f
    <3>1. CASE i <= Len(accum)
      <4>0. i \in 1 .. Len(accum) /\ j \in 1 .. Len(accum)
        BY <1>b, <3>a, <3>1
      <4>1. accum'[i] = accum[i] /\ accum'[j] = accum[j]
        BY <1>f, <4>0
      <4> QED
        BY <2>b, <4>0, <4>1
    <3>2. CASE i > Len(accum)
      <4>0. i \in Len(accum) + 1 .. Len(accum) + n
        BY <1>b, <3>a, <3>2
      <4>1. accum'[i] = at + (i - Len(accum))
        BY <1>f, <4>0
      <4>2. CASE j <= Len(accum)
        <5>0. j \in 1 .. Len(accum)
          BY <1>b, <3>a, <4>2
        <5>1. accum'[j] = accum[j] /\ accum[j] <= at /\ accum[j] \in Nat
          <6>1. accum'[j] = accum[j]
            BY <1>f, <5>0
          <6>2. accum[j] <= at
            BY <2>b, <5>0
          <6>3. accum[j] \in Nat
            BY <1>b, <5>0
          <6> QED
            BY <6>1, <6>2, <6>3
        <5>2. at \in Nat /\ i - Len(accum) \in Nat /\ i - Len(accum) > 0
          BY <1>b, <3>a, <3>2
        <5>3. accum[j] < at + (i - Len(accum))
          BY <5>1, <5>2
        <5> QED
          BY <4>1, <5>1, <5>3
      <4>3. CASE j > Len(accum)
        <5>0. j \in Len(accum) + 1 .. Len(accum) + n
          BY <1>b, <3>a, <4>3
        <5>1. accum'[j] = at + (j - Len(accum))
          BY <1>f, <5>0
        <5> QED
          BY <1>b, <1>c, <1>f, <4>1, <5>1
      <4> QED
        BY <1>b, <1>c, <1>f, <4>2, <4>3
    <3> QED
      BY <1>b, <1>c, <1>f, <3>1, <3>2
  <2>3. \A k \in DOMAIN taken : \A i \in 1 .. Len(accum') : taken[k].to < accum'[i]
    <3> SUFFICES ASSUME NEW k \in DOMAIN taken, NEW i \in 1 .. Len(accum')
                 PROVE  taken[k].to < accum'[i]
      OBVIOUS
    <3>a. i \in 1 .. Len(accum) + n
      BY <1>f
    <3>1. CASE i <= Len(accum)
      <4>0. i \in 1 .. Len(accum)
        BY <1>b, <3>a, <3>1
      <4>1. accum'[i] = accum[i]
        BY <1>f, <4>0
      <4> QED
        BY <2>c, <4>0, <4>1
    <3>2. CASE i > Len(accum)
      <4>0. i \in Len(accum) + 1 .. Len(accum) + n
        BY <1>b, <3>a, <3>2
      <4>1. accum'[i] = at + (i - Len(accum)) /\ taken[k].to \in 0 .. at
        BY <1>f, <2>a, <4>0
      <4> QED
        BY <1>b, <1>c, <1>f, <3>2, <4>1
    <3> QED
      BY <1>b, <1>c, <1>f, <3>1, <3>2
  <2>4. taken' \in Seq(ToSet(taken')) /\ BytesTakenOnce'
    BY <1>a, <1>d, <2>3, <2>a DEF OrderInv, BytesTakenOnce
  <2>5. \A k \in DOMAIN taken' : taken'[k].from \in Nat /\ taken'[k].to \in 0 .. at'
    BY <1>b, <1>c, <1>d, <2>a
  <2> QED
    BY <2>1, <2>2, <2>4, <2>5 DEF OrderInv
<1>4. HeldIsTheStream'
  <2> SUFFICES ASSUME losses = 0, NEW i \in 1 .. Len(accum')
               PROVE  accum'[i] = at' - Len(accum') + i
    BY <1>d DEF HeldIsTheStream
  <2>a. at' = at + n /\ Len(accum') = Len(accum) + n
    BY <1>d, <1>f
  <2>1. CASE i \in 1 .. Len(accum) /\ accum'[i] = accum[i]
    <3>1. accum[i] = at - Len(accum) + i
      BY <1>a, <2>1 DEF HeldIsTheStream
    <3> QED
      BY <1>b, <1>c, <2>a, <2>1, <3>1
  <2>2. CASE /\ i \in Len(accum) + 1 .. Len(accum) + n
             /\ accum'[i] = at + (i - Len(accum))
    BY <1>b, <1>c, <2>a, <2>2
  <2> QED
    BY <1>k, <2>1, <2>2
<1> QED
  BY <1>1, <1>2, <1>3, <1>4 DEF IInv

\* What an iteration of consume_accum moves `off` by.
LEMMA ConsumeOff ==
    ASSUME TypeInv, AccumInv, mode = "consuming", off < Len(accum)
    PROVE  /\ Parsed.used \in 0 .. Len(accum) - off
           /\ Parsed.used = 0 => HeldBack(BytesAt(Rest))
           /\ Parsed.used > 0 =>
                 /\ Len(accum) - off - Parsed.used <= LineMax + ReadMax
                 /\ Skip(BytesAt(Rest), Parsed.used) \in Parsed.used .. Len(accum) - off
<1>1. /\ BytesAt(Rest) \in Seq(Byte)
      /\ Len(BytesAt(Rest)) = Len(accum) - off
  BY RestType, BytesAtType
<1>2. Len(accum) \in Nat /\ off \in 0 .. Len(accum)
  BY LenProperties DEF TypeInv, TypeOK
<1>3. Bounded(BytesAt(Rest), off = 0) /\ (off = 0) \in BOOLEAN
  BY DEF AccumInv
<1>4. Parsed = Parse(BytesAt(Rest))
  BY DEF Parsed, BytesAt
<1>5. Len(BytesAt(Rest)) >= 1
  BY <1>1, <1>2
<1>6. /\ Parse(BytesAt(Rest)).used \in 0 .. Len(BytesAt(Rest))
      /\ Parse(BytesAt(Rest)).used = 0 => HeldBack(BytesAt(Rest))
      /\ Parse(BytesAt(Rest)).used > 0 =>
            Len(BytesAt(Rest)) - Parse(BytesAt(Rest)).used <= LineMax + ReadMax
  BY <1>1, <1>3, <1>5, ParseUsed
<1>7. Parsed.used > 0 => Parsed.used \in 1 .. Len(BytesAt(Rest))
  BY <1>1, <1>2, <1>4, <1>6
<1>8. Parsed.used > 0 =>
          Skip(BytesAt(Rest), Parsed.used) \in Parsed.used .. Len(BytesAt(Rest))
  BY <1>1, <1>5, <1>7, SkipRange
<1> QED
  BY <1>1, <1>4, <1>6, <1>8

\* A sequence is one of whatever holds its elements.
LEMMA SequenceOf ==
    ASSUME NEW S, NEW T, NEW seq \in Seq(S), \A i \in 1 .. Len(seq) : seq[i] \in T
    PROVE  seq \in Seq(T)
<1>1. Len(seq) \in Nat /\ seq \in [1 .. Len(seq) -> S]
  BY LenProperties
<1>2. seq \in [1 .. Len(seq) -> T]
  BY <1>1
<1> QED
  BY <1>1, <1>2

\* What is behind a later place is behind an earlier one.
LEMMA StillBehind ==
    ASSUME NEW a \in Nat, NEW b \in Nat, NEW m \in Nat, a <= b
    PROVE  \A i \in b + 1 .. m : i \in a + 1 .. m
OBVIOUS

LEMMA ConsumeNext ==
    ASSUME IInv, Consume
    PROVE  IInv'
<1>a. TypeInv /\ AccumInv /\ OrderInv /\ HeldIsTheStream
  BY DEF IInv
<1>b. /\ mode = "consuming" /\ off < Len(accum) /\ Parsed.used > 0
      /\ UNCHANGED <<wire, at, accum, mode, failures, hungUp, lost, losses>>
  BY DEF Consume
<1>c. /\ accum \in Seq(1 .. Len(wire.bytes)) /\ Len(accum) \in Nat
      /\ off \in 0 .. Len(accum) /\ at \in Nat
      /\ \A i \in 1 .. Len(accum) : accum[i] \in Nat
  <2>1. accum \in Seq(1 .. Len(wire.bytes)) /\ off \in 0 .. Len(accum) /\ at \in Nat
    BY <1>a DEF TypeInv, TypeOK
  <2> QED
    BY <2>1, LenProperties, ElementOfSeq
<1>d. PICK used \in 1 .. Len(accum) - off :
         /\ used = Parsed.used
         /\ Len(accum) - off - used <= LineMax + ReadMax
         /\ Skip(BytesAt(Rest), used) \in used .. Len(accum) - off
  BY <1>a, <1>b, <1>c, ConsumeOff
<1>e. /\ off' \in off + used .. Len(accum)
      /\ \/ taken' = taken
         \/ /\ taken' = Append(taken, [reply |-> Parsed.reply,
                                       from |-> Rest[1], to |-> Rest[used]])
            /\ off' = off + used
  <2>1. CASE Parsed.reply.kind = "junk"
    <3>1. off' = off + Skip(BytesAt(Rest), used) /\ taken' = taken
      BY <1>d, <2>1 DEF Consume, BytesAt
    <3>2. PICK skip \in used .. Len(accum) - off : skip = Skip(BytesAt(Rest), used)
      BY <1>d
    <3>3. off + skip \in off + used .. Len(accum)
      BY <1>c, <1>d, <3>2
    <3> QED
      BY <3>1, <3>2, <3>3
  <2>2. CASE Parsed.reply.kind # "junk"
    <3>1. off + used \in off + used .. Len(accum)
      BY <1>c, <1>d
    <3> QED
      BY <1>d, <2>2, <3>1 DEF Consume
  <2> QED
    BY <2>1, <2>2
<1>1. TypeInv'
  BY <1>a, <1>b, <1>c, <1>d, <1>e DEF TypeInv, TypeOK
<1>2. AccumInv'
  <2>1. Rest' = SubSeq(accum, off' + 1, Len(accum)) /\ off' \in 0 .. Len(accum)
    BY <1>b, <1>c, <1>e DEF Rest
  <2>2. Rest' \in Seq(1 .. Len(wire.bytes)) /\ Len(Rest') = Len(accum) - off'
    BY <1>c, <2>1, SuffixType, LenProperties, <1>a DEF TypeInv
  <2>3. BytesAt(Rest)' = BytesAt(Rest')
    BY <1>b DEF BytesAt
  <2>4. Len(BytesAt(Rest')) = Len(accum) - off'
    BY <1>a, <2>2, BytesAtType
  <2>5. Len(accum) - off' <= LineMax + ReadMax
    BY <1>c, <1>d, <1>e, Sizes
  <2> QED
    BY <1>b, <2>3, <2>4, <2>5 DEF AccumInv, Bounded
<1>3. OrderInv'
  <2>a. /\ taken \in Seq(ToSet(taken))
        /\ \A k \in DOMAIN taken : taken[k].from \in Nat /\ taken[k].to \in 0 .. at
        /\ \A i \in 1 .. Len(accum) : accum[i] <= at
        /\ \A j, i \in 1 .. Len(accum) : j < i => accum[j] < accum[i]
    BY <1>a DEF OrderInv
  <2>b. /\ \A k \in DOMAIN taken : taken[k].from <= taken[k].to
        /\ \A k \in DOMAIN taken : \A j \in 1 .. k - 1 : taken[j].to < taken[k].from
        /\ \A k \in DOMAIN taken : \A i \in off + 1 .. Len(accum) : taken[k].to < accum[i]
    BY <1>a DEF OrderInv, BytesTakenOnce
  <2>c. /\ Len(taken) \in Nat /\ DOMAIN taken = 1 .. Len(taken)
    BY <2>a, LenProperties
  <2>1. CASE taken' = taken
    <3>1. \A k \in DOMAIN taken : \A i \in off' + 1 .. Len(accum) : taken[k].to < accum[i]
      <4>1. off' \in Nat /\ off \in Nat /\ off <= off' /\ Len(accum) \in Nat
        BY <1>c, <1>d, <1>e
      <4>2. \A i \in off' + 1 .. Len(accum) : i \in off + 1 .. Len(accum)
        BY <4>1, StillBehind
      <4> QED
        BY <2>b, <4>2
    <3>2. BytesTakenOnce'
      BY <1>b, <2>1, <2>b, <3>1 DEF BytesTakenOnce
    <3> QED
      BY <1>b, <2>1, <2>a, <3>2 DEF OrderInv
  <2>2. CASE /\ taken' = Append(taken, [reply |-> Parsed.reply,
                                        from |-> Rest[1], to |-> Rest[used]])
             /\ off' = off + used
    <3> DEFINE e == [reply |-> Parsed.reply, from |-> Rest[1], to |-> Rest[used]]
    <3>1. Rest[1] = accum[off + 1] /\ Rest[used] = accum[off + used]
      <4>1. 1 \in 1 .. Len(accum) - off /\ used \in 1 .. Len(accum) - off
        BY <1>c, <1>d
      <4> QED
        BY <1>a, <4>1, RestType
    <3>2. PICK p \in 1 .. Len(accum), q \in 1 .. Len(accum) :
             p = off + 1 /\ q = off + used
      <4>1. off + 1 \in 1 .. Len(accum) /\ off + used \in 1 .. Len(accum)
        BY <1>c, <1>d
      <4> QED
        BY <4>1
    <3>3. p <= q /\ q <= off' /\ p \in Nat /\ q \in Nat
      <4>1. off \in Nat /\ used \in Nat /\ 1 <= used
        BY <1>c, <1>d
      <4> QED
        BY <2>2, <3>2, <4>1
    <3>4. PICK last : last = e
      OBVIOUS
    <3>5. last.from = accum[p] /\ last.to = accum[q]
      BY <3>1, <3>2, <3>4
    <3> HIDE DEF e
    <3>6. last.from \in Nat /\ last.to \in 0 .. at /\ last.from <= last.to
      <4>1. accum[p] \in Nat /\ accum[q] \in Nat /\ accum[q] <= at
        BY <1>c, <2>a
      <4>2. accum[p] <= accum[q]
        <5>1. p = q \/ p < q
          BY <3>3
        <5> QED
          BY <2>a, <4>1, <5>1
      <4> QED
        BY <1>c, <3>5, <4>1, <4>2
    <3>7. /\ taken' = Append(taken, last)
          /\ \A k \in DOMAIN taken : taken[k].to < last.from
          /\ \A i \in off' + 1 .. Len(accum) : last.to < accum[i]
      <4>1. taken' = Append(taken, last)
        BY <2>2, <3>4 DEF e
      <4>2. p \in off + 1 .. Len(accum)
        BY <1>c, <3>2
      <4>3. \A k \in DOMAIN taken : taken[k].to < last.from
        BY <2>b, <3>5, <4>2
      <4>4. \A i \in off' + 1 .. Len(accum) : i \in 1 .. Len(accum) /\ q < i
        <5>1. off \in Nat /\ used \in Nat /\ Len(accum) \in Nat
          BY <1>c, <1>d
        <5>2. off' \in Nat
          BY <2>2, <5>1
        <5>3. q <= off' /\ q \in Nat
          BY <3>3
        <5>4. PICK from \in Nat, to \in Nat : from = off' /\ to = Len(accum)
          BY <5>1, <5>2
        <5>5. q <= from /\ q \in Nat
          BY <5>3, <5>4
        <5>6. \A i \in from + 1 .. to : i \in 1 .. to /\ q < i
          BY <5>5
        <5> QED
          BY <5>4, <5>6
      <4> QED
        BY <2>a, <3>5, <4>1, <4>3, <4>4
    <3>8. /\ taken' \in Seq(ToSet(taken) \cup {last})
          /\ Len(taken') = Len(taken) + 1
          /\ \A k \in 1 .. Len(taken) : taken'[k] = taken[k]
          /\ taken'[Len(taken) + 1] = last
      <4>1. taken \in Seq(ToSet(taken) \cup {last})
        <5>1. \A i \in 1 .. Len(taken) : taken[i] \in ToSet(taken) \cup {last}
          BY <2>c DEF ToSet
        <5> QED
          BY <2>a, <5>1, SequenceOf
      <4> QED
        BY <3>7, <4>1, <2>c, AppendProperties
    <3>9. DOMAIN taken' = 1 .. Len(taken) + 1 /\ taken' \in Seq(ToSet(taken'))
      <4>1. DOMAIN taken' = 1 .. Len(taken) + 1
        BY <3>8, LenProperties
      <4>2. \A k \in 1 .. Len(taken') : taken'[k] \in ToSet(taken')
        BY <3>8, <4>1 DEF ToSet
      <4> QED
        BY <3>8, <4>1, <4>2, SequenceOf
    <3>10. \A k \in DOMAIN taken' : taken'[k].from \in Nat /\ taken'[k].to \in 0 .. at
      BY <2>a, <2>c, <3>6, <3>8, <3>9
    <3>11. BytesTakenOnce'
      <4>1. \A k \in DOMAIN taken' : taken'[k].from <= taken'[k].to
        BY <2>b, <2>c, <3>6, <3>8, <3>9
      <4>2. ASSUME NEW k \in DOMAIN taken', NEW j \in 1 .. k - 1
            PROVE  taken'[j].to < taken'[k].from
        <5>1. k \in 1 .. Len(taken) + 1 /\ j \in 1 .. Len(taken) /\ taken'[j] = taken[j]
          BY <2>c, <3>8, <3>9
        <5>2. CASE k = Len(taken) + 1
          BY <2>c, <3>7, <3>8, <5>1, <5>2
        <5>3. CASE k # Len(taken) + 1
          <6>0. k \in 1 .. Len(taken)
            BY <2>c, <5>1, <5>3
          <6>1. k \in DOMAIN taken /\ taken'[k] = taken[k]
            BY <2>c, <3>8, <6>0
          <6> QED
            BY <2>b, <5>1, <6>1
        <5> QED
          BY <5>2, <5>3
      <4>3. ASSUME NEW k \in DOMAIN taken', NEW i \in off' + 1 .. Len(accum)
            PROVE  taken'[k].to < accum[i]
        <5>1. i \in off + 1 .. Len(accum)
          BY <1>c, <1>d, <2>2
        <5>2. k \in 1 .. Len(taken) + 1
          BY <3>9
        <5>3. CASE k = Len(taken) + 1
          BY <3>7, <3>8, <5>3
        <5>4. CASE k # Len(taken) + 1
          <6>1. k \in DOMAIN taken /\ taken'[k] = taken[k]
            BY <2>c, <3>8, <5>2, <5>4
          <6> QED
            BY <2>b, <5>1, <6>1
        <5> QED
          BY <5>3, <5>4
      <4> QED
        BY <1>b, <4>1, <4>2, <4>3 DEF BytesTakenOnce
    <3> QED
      BY <1>b, <2>a, <3>9, <3>10, <3>11 DEF OrderInv
  <2> QED
    BY <1>e, <2>1, <2>2
<1>4. HeldIsTheStream'
  BY <1>a, <1>b DEF HeldIsTheStream
<1> QED
  BY <1>1, <1>2, <1>3, <1>4 DEF IInv

\* What is behind the last record stays: the accumulator is never full.
LEMMA ConsumeEndEffect ==
    ASSUME TypeInv, AccumInv, ConsumeEnd
    PROVE  accum' = Rest /\ HeldBack(BytesAt(Rest))
<1>b. /\ mode = "consuming" /\ accum' = Compact(Rest)
      /\ off < Len(accum) => Parsed.used = 0
  BY DEF ConsumeEnd, Unconsumed, Rest
<1>c. /\ Len(accum) \in Nat /\ off \in 0 .. Len(accum)
  <2>1. accum \in Seq(1 .. Len(wire.bytes)) /\ off \in 0 .. Len(accum)
    BY DEF TypeInv, TypeOK
  <2> QED
    BY <2>1, LenProperties
<1>d. Rest \in Seq(1 .. Len(wire.bytes)) /\ Len(Rest) = Len(accum) - off
  BY RestType
<1>e. BytesAt(Rest) \in Seq(Byte) /\ Len(BytesAt(Rest)) = Len(Rest)
  BY <1>d, BytesAtType
<1>f. HeldBack(BytesAt(Rest))
  <2>1. CASE off = Len(accum)
    BY <1>c, <1>d, <1>e, <2>1, Sizes DEF HeldBack
  <2>2. CASE off < Len(accum)
    BY <1>b, <2>2, ConsumeOff
  <2> QED
    BY <1>c, <2>1, <2>2
<1>g. Len(Rest) # AccumCap
  BY <1>c, <1>d, <1>e, <1>f, HeldFits, Sizes
<1> QED
  BY <1>b, <1>f, <1>g DEF Compact

LEMMA ConsumeEndNext ==
    ASSUME IInv, ConsumeEnd
    PROVE  IInv'
<1>a. TypeInv /\ AccumInv /\ OrderInv /\ HeldIsTheStream
  BY DEF IInv
<1>b. /\ mode = "consuming" /\ off' = 0 /\ mode' = "reading"
      /\ UNCHANGED <<wire, at, failures, hungUp, lost, taken, losses>>
  BY DEF ConsumeEnd
<1>c. /\ accum \in Seq(1 .. Len(wire.bytes)) /\ Len(accum) \in Nat
      /\ off \in 0 .. Len(accum) /\ at \in Nat /\ Len(accum) <= AccumCap
  <2>1. /\ accum \in Seq(1 .. Len(wire.bytes)) /\ off \in 0 .. Len(accum) /\ at \in Nat
        /\ Len(accum) <= AccumCap
    BY <1>a DEF TypeInv, TypeOK
  <2> QED
    BY <2>1, LenProperties
<1>d. /\ Rest \in Seq(1 .. Len(wire.bytes))
      /\ Len(Rest) = Len(accum) - off
      /\ \A i \in 1 .. Len(accum) - off : Rest[i] = accum[off + i]
  BY <1>a, RestType
<1>f. HeldBack(BytesAt(Rest)) /\ accum' = Rest
  BY <1>a, ConsumeEndEffect
<1>h. accum' = Rest
  BY <1>f
<1>1. TypeInv'
  <2>1. /\ accum' \in Seq(1 .. Len(wire.bytes)) /\ Len(accum') <= AccumCap
        /\ off' \in 0 .. Len(accum')
    BY <1>b, <1>c, <1>d, <1>h, Sizes
  <2> QED
    BY <1>a, <1>b, <2>1 DEF TypeInv, TypeOK
<1>2. AccumInv'
  <2>1. BytesAt(accum)' = BytesAt(Rest)
    BY <1>b, <1>h DEF BytesAt
  <2> QED
    BY <1>b, <1>f, <2>1 DEF AccumInv
<1>i. Len(accum') = Len(accum) - off /\ \A i \in 1 .. Len(accum') : accum'[i] = accum[off + i]
  BY <1>d, <1>h
<1>3. OrderInv'
  <2>1. \A i \in 1 .. Len(accum') : off + i \in 1 .. Len(accum) /\ off + i \in off + 1 .. Len(accum)
    BY <1>c, <1>i
  <2>2. \A i \in 1 .. Len(accum') : accum'[i] <= at
    BY <1>a, <1>i, <2>1 DEF OrderInv
  <2>3. \A j, i \in 1 .. Len(accum') : j < i => accum'[j] < accum'[i]
    <3> SUFFICES ASSUME NEW j \in 1 .. Len(accum'), NEW i \in 1 .. Len(accum'), j < i
                 PROVE  accum'[j] < accum'[i]
      OBVIOUS
    <3>1. off + j < off + i
      BY <1>c
    <3> QED
      BY <1>a, <1>i, <2>1, <3>1 DEF OrderInv
  <2>4. \A k \in DOMAIN taken : \A i \in 1 .. Len(accum') : taken[k].to < accum'[i]
    BY <1>a, <1>i, <2>1 DEF OrderInv, BytesTakenOnce
  <2>5. BytesTakenOnce'
    <3>1. off' + 1 = 1
      BY <1>b
    <3> QED
      BY <1>a, <1>b, <2>4, <3>1 DEF OrderInv, BytesTakenOnce
  <2> QED
    BY <1>a, <1>b, <2>2, <2>3, <2>5 DEF OrderInv
<1>4. HeldIsTheStream'
  <2> SUFFICES ASSUME losses = 0, NEW i \in 1 .. Len(accum')
               PROVE  accum'[i] = at - Len(accum') + i
    BY <1>b DEF HeldIsTheStream
  <2>1. accum'[i] = at - Len(accum) + (off + i)
    BY <1>a, <1>c, <1>i DEF HeldIsTheStream
  <2> QED
    BY <1>c, <1>i, <2>1
<1> QED
  BY <1>1, <1>2, <1>3, <1>4 DEF IInv

\* A step that leaves the accumulator alone.
LEMMA OthersNext ==
    ASSUME IInv, \/ \E n \in 1 .. ReadMax : DropRead(n)
                 \/ ReadGone \/ ReadFails \/ ReadTimesOut \/ HangUp \/ UNCHANGED vars
    PROVE  IInv'
<1>a. TypeInv /\ AccumInv /\ OrderInv /\ HeldIsTheStream
  BY DEF IInv
<1>b. /\ at \in 0 .. Len(wire.bytes) /\ Len(wire.bytes) \in Nat /\ losses \in 0 .. LossesMax
      /\ failures \in 0 .. FailuresMax
      /\ mode # "ended" => failures < FailuresMax
  BY <1>a, LenProperties DEF TypeInv, TypeOK
<1>1. UNCHANGED <<wire, accum, off, taken>>
  BY DEF DropRead, ReadGone, ReadFails, LeaveLoop, ReadTimesOut, HangUp, vars
<1>2. /\ at' \in at .. Len(wire.bytes) /\ losses' \in losses .. LossesMax
      /\ losses' = 0 => at' = at
  <2>1. CASE \E n \in 1 .. ReadMax : DropRead(n)
    BY <1>b, <2>1, Sizes DEF DropRead, Left
  <2>2. CASE UNCHANGED <<at, losses>>
    BY <1>b, <2>2, Sizes
  <2> QED
    BY <2>1, <2>2 DEF ReadGone, ReadFails, ReadTimesOut, HangUp, vars
<1>3. /\ mode' \in {mode, "ended"}
      /\ mode' # mode => mode = "reading"
      /\ failures' \in 0 .. FailuresMax
      /\ mode' # "ended" => failures' < FailuresMax
  <2>1. CASE ReadFails
    <3>1. /\ failures' = failures + 1 /\ mode = "reading" /\ failures < FailuresMax
          /\ IF failures' = FailuresMax THEN mode' = "ended" ELSE mode' = mode
      BY <1>b, <2>1 DEF ReadFails, Failing, LeaveLoop
    <3> QED
      BY <1>b, <3>1, Sizes
  <2>2. CASE ReadGone
    BY <1>b, <2>2, Sizes DEF ReadGone, LeaveLoop
  <2>3. CASE mode' = mode /\ failures' \in {0, failures}
    BY <1>b, <2>3, Sizes
  <2> QED
    BY <2>1, <2>2, <2>3 DEF DropRead, ReadTimesOut, HangUp, vars
<1>c. hungUp' \in BOOLEAN /\ lost' \in BOOLEAN
  <2>1. hungUp' \in {hungUp, TRUE} /\ lost' \in {lost, TRUE}
    BY DEF DropRead, ReadFails, ReadGone, LeaveLoop, ReadTimesOut, HangUp, vars
  <2> QED
    BY <1>a, <2>1 DEF TypeInv, TypeOK
<1>4. TypeInv'
  <2>1. at' \in 0 .. Len(wire.bytes) /\ losses' \in 0 .. LossesMax
    BY <1>b, <1>2
  <2>2. mode' # "consuming" => off' = 0
    BY <1>a, <1>1, <1>3 DEF TypeInv, TypeOK
  <2> QED
    BY <1>a, <1>c, <1>1, <1>3, <2>1, <2>2 DEF TypeInv, TypeOK
<1>5. AccumInv'
  <2>1. /\ BytesAt(accum)' = BytesAt(accum)
        /\ BytesAt(Rest)' = BytesAt(Rest)
    BY <1>1 DEF BytesAt, Rest
  <2> QED
    BY <1>a, <1>1, <1>3, <2>1 DEF AccumInv
<1>6. OrderInv'
  <2>1. \A k \in DOMAIN taken : taken[k].from \in Nat /\ taken[k].to \in 0 .. at'
    BY <1>a, <1>b, <1>2 DEF OrderInv
  <2>2. \A i \in 1 .. Len(accum) : accum[i] <= at'
    <3>1. \A i \in 1 .. Len(accum) : accum[i] \in Nat
      BY <1>a, ElementOfSeq DEF TypeInv, TypeOK
    <3> QED
      BY <1>a, <1>b, <1>2, <3>1 DEF OrderInv
  <2>3. BytesTakenOnce'
    BY <1>a, <1>1 DEF OrderInv, BytesTakenOnce
  <2> QED
    BY <1>a, <1>1, <2>1, <2>2, <2>3 DEF OrderInv
<1>7. HeldIsTheStream'
  <2>1. losses' = 0 => losses = 0
    BY <1>b, <1>2
  <2> QED
    BY <1>a, <1>1, <1>2, <2>1 DEF HeldIsTheStream
<1> QED
  BY <1>4, <1>5, <1>6, <1>7 DEF IInv

LEMMA InitInv == Init => IInv
<1> SUFFICES ASSUME Init PROVE IInv
  OBVIOUS
<1>1. PICK script \in Scripts : wire = Layout(script)
  BY DEF Init
<1>2. wire.bytes \in Seq(Byte) /\ wire.ends[1] \in 1 .. Len(wire.bytes)
  <2>1. WellLaid(wire)
    BY <1>1, ScriptsAssumption
  <2>2. 1 \in 1 .. Len(wire.ends)
    BY <2>1, WireTypes
  <2> QED
    BY <2>1, <2>2, WireTypes
<1>3. /\ at \in 0 .. Len(wire.bytes) /\ accum = <<>> /\ Len(accum) = 0 /\ off = 0
      /\ mode = "reading" /\ failures = 0 /\ hungUp = FALSE /\ lost = FALSE
      /\ taken = <<>> /\ losses = 0
  <2>1. Len(wire.bytes) \in Nat
    BY <1>2, LenProperties
  <2> QED
    BY <1>2, <2>1 DEF Init
<1>4. TypeInv
  <2>1. /\ accum \in Seq(1 .. Len(wire.bytes)) /\ Len(accum) <= AccumCap
        /\ off \in 0 .. Len(accum) /\ failures \in 0 .. FailuresMax
        /\ failures < FailuresMax /\ losses \in 0 .. LossesMax
    BY <1>3, Sizes
  <2>2. mode \in {"reading", "consuming", "ended"} /\ hungUp \in BOOLEAN /\ lost \in BOOLEAN
    BY <1>3
  <2> QED
    BY <1>2, <1>3, <2>1, <2>2 DEF TypeInv, TypeOK
<1>5. AccumInv
  <2>1. Len(BytesAt(accum)) = 0
    BY <1>3 DEF BytesAt
  <2> QED
    BY <1>3, <2>1, Sizes DEF AccumInv, HeldBack
<1>6. OrderInv
  BY <1>3 DEF OrderInv, BytesTakenOnce
<1>7. HeldIsTheStream
  BY <1>3 DEF HeldIsTheStream
<1> QED
  BY <1>4, <1>5, <1>6, <1>7 DEF IInv

LEMMA Invariance == Spec => []IInv
<1>1. IInv /\ [Next]_vars => IInv'
  BY ReadNext, ConsumeNext, ConsumeEndNext, OthersNext DEF Next
<1> QED
  BY <1>1, InitInv, PTL DEF Spec
-----------------------------------------------------------------------------
(***************************************************************************)
(* The records.  Since the stream is in step the parser stands, whenever   *)
(* it looks, where a record ends or where the garbage before the first one *)
(* begins; what has been handed on since are the records up to there.      *)
(***************************************************************************)
Ends == {0} \cup {wire.ends[i] : i \in 1 .. Len(wire.ends)}

Due(done) == {i \in DOMAIN wire.ends : First(wire, i) >= since /\ wire.ends[i] <= done}
Got == {k \in DOMAIN taken : taken[k].from >= since}

InStep(done) ==
    /\ since - 1 <= done /\ done <= at
    /\ Len(Rest) = at - done
    /\ \A k \in 1 .. at - done : Rest[k] = done + k
    /\ {taken[k] : k \in Got} = {Sent(i) : i \in Due(done)}
    /\ mode = "reading" => Due(at) = Due(done)

\* The first read of the session, or the first behind a dropped one.
GarbageAhead ==
    /\ mode = "consuming" /\ off = 0 /\ Got = {}
    /\ since + 2 <= at
    /\ \E b \in 0 .. since - 2 :
          /\ Len(accum) = at - b
          /\ \A k \in 1 .. at - b : accum[k] = b + k
          /\ \A k \in b + 1 .. since - 1 : wire.bytes[k] # Code["a"]

StepInv ==
    /\ since \in 0 .. Len(wire.bytes)
    /\ since # 0 => since - 1 \in Ends
    /\ since # 0 /\ mode # "ended" => GarbageAhead \/ \E done \in Ends : InStep(done)

LostInv == lost => /\ mode = "ended"
                   /\ failures < FailuresMax => at = Len(wire.bytes)

\* Wherever what has been read ends, a record is waited for, then found.
FoundInStream(w) ==
    \A i \in DOMAIN w.ends :
        LET begin == First(w, i)
        IN  /\ w.means[i].kind # "junk" /\ Plausible(w.bytes, begin)
            /\ \A e \in begin .. Len(w.bytes) :
                  Parse(Piece(w, begin, e)) =
                      IF e < w.ends[i] THEN Incomplete
                      ELSE [used |-> w.ends[i] - begin + 1, reply |-> w.means[i]]

WireInv == WellLaid(wire) /\ FoundInStream(wire)
StreamInv == WireInv /\ StepInv /\ LostInv

LEMMA EndsType ==
    ASSUME WellLaid(wire)
    PROVE  Ends \in SUBSET Nat /\ \A d \in Ends : d <= Len(wire.bytes)
BY WireTypes DEF Ends

LEMMA FirstType ==
    ASSUME WellLaid(wire), NEW i \in 1 .. Len(wire.ends)
    PROVE  First(wire, i) \in 1 .. wire.ends[i]
<1>1. wire.ends[i] \in 1 .. Len(wire.bytes)
  BY WireTypes
<1>2. CASE i = 1
  BY <1>1, <1>2, WireTypes DEF First
<1>3. CASE i # 1
  <2>1. i - 1 \in 1 .. Len(wire.ends) /\ i - 1 < i /\ First(wire, i) = wire.ends[i - 1] + 1
    BY <1>3, WireTypes DEF First
  <2>2. wire.ends[i - 1] < wire.ends[i] /\ wire.ends[i - 1] \in 1 .. Len(wire.bytes)
    BY <2>1, WireTypes DEF WellLaid
  <2> QED
    BY <1>1, <2>1, <2>2, WireTypes
<1> QED
  BY <1>2, <1>3

\* A record that op_parse understands when it is all there is, is waited for up to
\* its last byte and then found the same whatever is behind it (op_proto.c:226-303).
THEOREM UnderstoodIsFound ==
    ASSUME WellLaid(wire), RecordsAreUnderstood(wire)
    PROVE  FoundInStream(wire)
<1>a. wire.bytes \in Seq(Byte) /\ Len(wire.bytes) \in Nat
      /\ \A k \in 1 .. Len(wire.bytes) : wire.bytes[k] \in Byte
  BY WireTypes, ElementOfSeq
<1> SUFFICES ASSUME NEW i \in DOMAIN wire.ends
             PROVE  /\ wire.means[i].kind # "junk"
                    /\ Plausible(wire.bytes, First(wire, i))
                    /\ \A e \in First(wire, i) .. Len(wire.bytes) :
                          Parse(Piece(wire, First(wire, i), e)) =
                              IF e < wire.ends[i] THEN Incomplete
                              ELSE [used |-> wire.ends[i] - First(wire, i) + 1,
                                    reply |-> wire.means[i]]
  BY DEF FoundInStream
<1>b. i \in 1 .. Len(wire.ends)
  BY WireTypes
<1>c. PICK end \in 1 .. Len(wire.bytes) : end = wire.ends[i]
  BY <1>b, WireTypes
<1>d. PICK begin \in 1 .. end : begin = First(wire, i)
  BY <1>b, <1>c, FirstType
<1>e. ASSUME NEW e \in begin .. Len(wire.bytes)
      PROVE  /\ Piece(wire, begin, e) \in Seq(Byte)
             /\ Len(Piece(wire, begin, e)) = e - begin + 1
             /\ \A k \in 1 .. e - begin + 1 : Piece(wire, begin, e)[k] = wire.bytes[begin + k - 1]
  <2>1. \A k \in 1 .. e - begin + 1 : begin + k - 1 \in 1 .. Len(wire.bytes)
    BY <1>a, <1>c, <1>d
  <2>2. \A k \in 1 .. e - begin + 1 : wire.bytes[begin + k - 1] \in Byte
    BY <1>a, <2>1
  <2>3. PICK n \in Nat : n = e - begin + 1
    BY <1>a, <1>c, <1>d
  <2>4. Piece(wire, begin, e) = [k \in 1 .. n |-> wire.bytes[begin + k - 1]]
    BY <2>3 DEF Piece
  <2>5. [k \in 1 .. n |-> wire.bytes[begin + k - 1]] \in [1 .. n -> Byte]
    BY <2>2, <2>3
  <2>6. Piece(wire, begin, e) \in Seq(Byte) /\ Len(Piece(wire, begin, e)) = n
    BY <2>3, <2>4, <2>5, TupleType
  <2> QED
    BY <2>3, <2>4, <2>6
<1> DEFINE s == Piece(wire, begin, end)
<1>f. s \in Seq(Byte) /\ Len(s) = end - begin + 1
      /\ \A k \in 1 .. end - begin + 1 : s[k] = wire.bytes[begin + k - 1]
  <2>1. end \in begin .. Len(wire.bytes)
    BY <1>a, <1>c, <1>d
  <2> QED
    BY <1>e, <2>1
<1>g. /\ wire.means[i].kind # "junk"
      /\ Parse(s) = [used |-> Len(s), reply |-> wire.means[i]]
      /\ s[3] \in Digit \/ \E e \in LineEnds(s) : e <= LineMax
  BY <1>c, <1>d DEF RecordsAreUnderstood
<1> HIDE DEF s
<1>h. Alone(s)
  BY <1>f, <1>g DEF Alone
<1>1. Plausible(wire.bytes, begin)
  <2>1. Len(s) >= 3 /\ Plausible(s, 1)
    BY <1>h, AloneHead
  <2>2. s[1] = wire.bytes[begin] /\ s[2] = wire.bytes[begin + 1]
        /\ s[3] = wire.bytes[begin + 2]
    <3>1. /\ 1 \in 1 .. end - begin + 1 /\ 2 \in 1 .. end - begin + 1
          /\ 3 \in 1 .. end - begin + 1
          /\ begin + 1 - 1 = begin /\ begin + 2 - 1 = begin + 1 /\ begin + 3 - 1 = begin + 2
      BY <1>c, <1>d, <1>f, <2>1
    <3> QED
      BY <1>f, <3>1
  <2> QED
    BY <2>1, <2>2 DEF Plausible
<1>2. ASSUME NEW e \in begin .. Len(wire.bytes)
      PROVE  Parse(Piece(wire, begin, e)) =
                 IF e < end THEN Incomplete
                 ELSE [used |-> end - begin + 1, reply |-> wire.means[i]]
  <2> DEFINE t == Piece(wire, begin, e)
  <2>1. /\ t \in Seq(Byte) /\ Len(t) = e - begin + 1
        /\ \A k \in 1 .. e - begin + 1 : t[k] = wire.bytes[begin + k - 1]
    BY <1>e
  <2> HIDE DEF t
  <2>2. CASE e < end
    <3>1. 1 <= Len(t) /\ Len(t) < Len(s)
      BY <1>a, <1>c, <1>d, <1>f, <2>1, <2>2
    <3>2. \A k \in 1 .. Len(t) : t[k] = s[k]
      <4>1. \A k \in 1 .. e - begin + 1 : k \in 1 .. end - begin + 1
        BY <1>a, <1>c, <1>d, <2>2
      <4> QED
        BY <1>f, <2>1, <4>1
    <3>3. Parse(t) = Incomplete
      BY <1>h, <2>1, <3>1, <3>2, PartIsUnfinished
    <3> QED
      BY <2>2, <3>3 DEF t
  <2>3. CASE ~(e < end)
    <3>1. Len(s) <= Len(t)
      BY <1>a, <1>c, <1>d, <1>f, <2>1, <2>3
    <3>2. \A k \in 1 .. Len(s) : t[k] = s[k]
      <4>1. \A k \in 1 .. end - begin + 1 : k \in 1 .. e - begin + 1
        BY <1>a, <1>c, <1>d, <2>3
      <4> QED
        BY <1>f, <2>1, <4>1
    <3>3. Parse(t) = Parse(s)
      BY <1>h, <2>1, <3>1, <3>2, MoreIsTheSame
    <3> QED
      BY <1>f, <1>g, <2>3, <3>3 DEF t
  <2> QED
    BY <2>2, <2>3
<1> QED
  BY <1>c, <1>d, <1>g, <1>1, <1>2

\* Records end in their order.
LEMMA EndsOrder ==
    ASSUME WellLaid(wire), NEW i \in 1 .. Len(wire.ends), NEW j \in 1 .. Len(wire.ends)
    PROVE  /\ i <= j => wire.ends[i] <= wire.ends[j]
           /\ wire.ends[i] < wire.ends[j] => i < j
           /\ wire.ends[i] = wire.ends[j] => i = j
<1>1. wire.ends[i] \in Nat /\ wire.ends[j] \in Nat /\ i \in Nat /\ j \in Nat
  BY WireTypes
<1>2. (i < j => wire.ends[i] < wire.ends[j]) /\ (j < i => wire.ends[j] < wire.ends[i])
  BY DEF WellLaid
<1> QED
  BY <1>1, <1>2

\* Where a record ends and the stream does not, one begins.
LEMMA NextRecord ==
    ASSUME WellLaid(wire), NEW d \in Ends, d < Len(wire.bytes)
    PROVE  \E i \in 1 .. Len(wire.ends) :
              /\ First(wire, i) = d + 1 /\ d < wire.ends[i]
              /\ \A j \in 1 .. Len(wire.ends) : wire.ends[j] > d => wire.ends[j] >= wire.ends[i]
<1> DEFINE last == Len(wire.ends)
<1>1. last \in Nat \ {0} /\ Len(wire.bytes) \in Nat /\ wire.ends[last] = Len(wire.bytes)
  BY WireTypes DEF WellLaid
<1>2. CASE d = 0
  <2>1. 1 \in 1 .. last /\ First(wire, 1) = d + 1
    BY <1>1, <1>2 DEF First
  <2>2. d < wire.ends[1]
    BY <1>2, <2>1, WireTypes
  <2>3. \A j \in 1 .. last : wire.ends[j] >= wire.ends[1]
    <3> SUFFICES ASSUME NEW j \in 1 .. last PROVE wire.ends[j] >= wire.ends[1]
      OBVIOUS
    <3>1. 1 <= j /\ wire.ends[1] \in Nat /\ wire.ends[j] \in Nat
      BY <2>1, WireTypes
    <3> QED
      BY <2>1, <3>1, EndsOrder
  <2> QED
    BY <2>1, <2>2, <2>3
<1>3. CASE d # 0
  <2>1. PICK m \in 1 .. last : d = wire.ends[m]
    BY <1>3 DEF Ends
  <2>2. m # last
    BY <1>1, <2>1
  <2>3. PICK i \in 1 .. last : i = m + 1
    BY <1>1, <2>1, <2>2
  <2>4. First(wire, i) = d + 1
    BY <2>1, <2>3 DEF First
  <2>5. d < wire.ends[i]
    BY <2>1, <2>3 DEF WellLaid
  <2>6. ASSUME NEW j \in 1 .. last, wire.ends[j] > d
        PROVE  wire.ends[j] >= wire.ends[i]
    <3>1. /\ wire.ends[m] \in Nat /\ wire.ends[j] \in Nat /\ wire.ends[i] \in Nat
      BY WireTypes
    <3>2. m < j
      BY <2>1, <2>6, <3>1, EndsOrder
    <3>3. i <= j
      BY <2>3, <3>2
    <3> QED
      BY <3>1, <3>3, EndsOrder
  <2> QED
    BY <2>4, <2>5, <2>6
<1> QED
  BY <1>2, <1>3

\* A record that ends behind the end of another also begins behind it.
LEMMA FirstBehind ==
    ASSUME WellLaid(wire), NEW d \in Ends, NEW j \in 1 .. Len(wire.ends), d < wire.ends[j]
    PROVE  d < First(wire, j)
<1>1. /\ wire.ends[j] \in 1 .. Len(wire.bytes) /\ Len(wire.bytes) \in Nat
      /\ First(wire, j) \in 1 .. wire.ends[j]
  BY WireTypes, FirstType
<1>2. CASE d = 0
  BY <1>1, <1>2
<1>3. CASE d # 0
  <2>1. PICK m \in 1 .. Len(wire.ends) : d = wire.ends[m]
    BY <1>3 DEF Ends
  <2>2. m < j
    BY <2>1, EndsOrder
  <2>3. j # 1 /\ j - 1 \in 1 .. Len(wire.ends) /\ m <= j - 1
    BY <2>2, WireTypes
  <2>4. First(wire, j) = wire.ends[j - 1] + 1
    BY <2>3 DEF First
  <2>5. wire.ends[m] <= wire.ends[j - 1] /\ wire.ends[m] \in Nat /\ wire.ends[j - 1] \in Nat
    BY <2>3, EndsOrder, WireTypes
  <2> QED
    BY <2>1, <2>4, <2>5
<1> QED
  BY <1>2, <1>3

\* With the next record one more is due.
LEMMA DueGrows ==
    ASSUME WellLaid(wire), since \in Nat, NEW d \in Ends, since - 1 <= d,
           NEW i \in 1 .. Len(wire.ends), First(wire, i) = d + 1, d < wire.ends[i],
           \A j \in 1 .. Len(wire.ends) : wire.ends[j] > d => wire.ends[j] >= wire.ends[i]
    PROVE  Due(wire.ends[i]) = Due(d) \cup {i}
<1>1. DOMAIN wire.ends = 1 .. Len(wire.ends) /\ wire.ends[i] \in Nat /\ d \in Nat
  BY WireTypes, EndsType
<1>2. ASSUME NEW j \in Due(wire.ends[i]), j # i
      PROVE  j \in Due(d)
  <2>1. j \in 1 .. Len(wire.ends) /\ wire.ends[j] <= wire.ends[i] /\ First(wire, j) >= since
    BY <1>1 DEF Due
  <2>2. wire.ends[j] \in Nat
    BY <2>1, WireTypes
  <2>3. wire.ends[j] # wire.ends[i]
    BY <1>2, <2>1, EndsOrder
  <2>4. wire.ends[j] <= d
    BY <1>1, <2>1, <2>2, <2>3
  <2> QED
    BY <1>1, <2>1, <2>4 DEF Due
<1>3. i \in Due(wire.ends[i])
  BY <1>1 DEF Due
<1>4. ASSUME NEW j \in Due(d)
      PROVE  j \in Due(wire.ends[i])
  <2>1. j \in 1 .. Len(wire.ends) /\ wire.ends[j] <= d /\ First(wire, j) >= since
    BY <1>1 DEF Due
  <2>2. wire.ends[j] \in Nat
    BY <2>1, WireTypes
  <2> QED
    BY <1>1, <2>1, <2>2 DEF Due
<1> QED
  BY <1>2, <1>3, <1>4
LEMMA Placed ==
    ASSUME IInv, WireInv
    PROVE  /\ WellLaid(wire) /\ FoundInStream(wire) /\ TypeInv
           /\ at \in Nat /\ at <= Len(wire.bytes) /\ Len(wire.bytes) \in Nat
           /\ off \in Nat /\ Len(accum) \in Nat /\ off <= Len(accum)
           /\ Len(Rest) = Len(accum) - off
           /\ \A i \in 1 .. Len(accum) - off : Rest[i] = accum[off + i]
           /\ \A k \in DOMAIN taken : /\ taken[k].from \in Nat /\ taken[k].to \in Nat
                                      /\ taken[k].from <= taken[k].to /\ taken[k].to <= at
           /\ Ends \in SUBSET Nat
<1>1. WellLaid(wire) /\ FoundInStream(wire) /\ TypeInv
  BY DEF WireInv, IInv
<1>2. /\ at \in 0 .. Len(wire.bytes) /\ Len(wire.bytes) \in Nat
      /\ off \in 0 .. Len(accum) /\ accum \in Seq(1 .. Len(wire.bytes)) /\ Len(accum) \in Nat
  BY <1>1, LenProperties DEF TypeInv, TypeOK
<1>3. \A k \in DOMAIN taken : taken[k].from \in Nat /\ taken[k].to \in 0 .. at
                              /\ taken[k].from <= taken[k].to
  BY DEF IInv, OrderInv, BytesTakenOnce
<1>4. Ends \in SUBSET Nat
  BY <1>1, EndsType
<1> QED
  BY <1>1, <1>2, <1>3, <1>4, RestType

\* No record is due in front of the place from which the stream is in step.
LEMMA NoneDue ==
    ASSUME WellLaid(wire), NEW s \in Nat
    PROVE  {i \in DOMAIN wire.ends : First(wire, i) >= s /\ wire.ends[i] <= s - 1} = {}
<1>1. ASSUME NEW i \in DOMAIN wire.ends, First(wire, i) >= s, wire.ends[i] <= s - 1
      PROVE  FALSE
  <2>1. i \in 1 .. Len(wire.ends)
    BY <1>1, WireTypes
  <2>2. First(wire, i) \in 1 .. wire.ends[i] /\ wire.ends[i] \in Nat
    BY <2>1, FirstType, WireTypes
  <2> QED
    BY <1>1, <2>2
<1> QED
  BY <1>1

\* Where the parser stands at a record, it finds it once it is whole.
LEMMA FindsRecord ==
    ASSUME IInv, WireInv, NEW done \in Ends, InStep(done), off < Len(accum)
    PROVE  \E i \in 1 .. Len(wire.ends) :
              /\ First(wire, i) = done + 1 /\ done < wire.ends[i]
              /\ \A j \in 1 .. Len(wire.ends) :
                    wire.ends[j] > done => wire.ends[j] >= wire.ends[i]
              /\ wire.ends[i] \in Nat /\ wire.means[i].kind # "junk"
              /\ Parsed = IF at < wire.ends[i] THEN Incomplete
                          ELSE [used |-> wire.ends[i] - done, reply |-> wire.means[i]]
<1>1. /\ WellLaid(wire) /\ FoundInStream(wire)
      /\ at \in Nat /\ at <= Len(wire.bytes) /\ Len(wire.bytes) \in Nat
      /\ off \in Nat /\ Len(accum) \in Nat /\ Len(Rest) = Len(accum) - off
      /\ done \in Nat
  BY Placed
<1>2. /\ Len(Rest) = at - done /\ done < at
      /\ \A k \in 1 .. at - done : Rest[k] = done + k
  BY <1>1 DEF InStep
<1>3. PICK i \in 1 .. Len(wire.ends) :
         /\ First(wire, i) = done + 1 /\ done < wire.ends[i]
         /\ \A j \in 1 .. Len(wire.ends) : wire.ends[j] > done => wire.ends[j] >= wire.ends[i]
  <2>1. done < Len(wire.bytes)
    BY <1>1, <1>2
  <2> QED
    BY <1>1, <2>1, NextRecord
<1>4. wire.ends[i] \in Nat /\ i \in DOMAIN wire.ends
  BY <1>1, WireTypes
<1>5. Parsed = Parse(Piece(wire, done + 1, at))
  <2>1. at - (done + 1) + 1 = at - done
    BY <1>1
  <2>2. \A k \in 1 .. at - done : done + 1 + k - 1 = Rest[k]
    BY <1>1, <1>2
  <2>3. [k \in 1 .. Len(Rest) |-> wire.bytes[Rest[k]]] = Piece(wire, done + 1, at)
    BY <1>2, <2>1, <2>2 DEF Piece
  <2> QED
    BY <2>3 DEF Parsed
<1>6. /\ wire.means[i].kind # "junk"
      /\ \A e \in done + 1 .. Len(wire.bytes) :
            Parse(Piece(wire, done + 1, e)) =
                IF e < wire.ends[i] THEN Incomplete
                ELSE [used |-> wire.ends[i] - (done + 1) + 1, reply |-> wire.means[i]]
  BY <1>1, <1>3, <1>4 DEF FoundInStream
<1>7. at \in done + 1 .. Len(wire.bytes) /\ wire.ends[i] - (done + 1) + 1 = wire.ends[i] - done
  <2>1. PICK w \in Nat : w = wire.ends[i]
    BY <1>4
  <2>2. at \in done + 1 .. Len(wire.bytes)
    BY <1>1, <1>2
  <2>3. w - (done + 1) + 1 = w - done
    <3>1. done \in Nat
      BY <1>1
    <3> QED
      BY <2>1, <3>1
  <2> QED
    BY <2>1, <2>2, <2>3
<1>8. Parsed = IF at < wire.ends[i] THEN Incomplete
               ELSE [used |-> wire.ends[i] - done, reply |-> wire.means[i]]
  BY <1>5, <1>6, <1>7
<1> QED
  BY <1>3, <1>4, <1>6, <1>8

\* The first read in step begins at a record, or ends behind the first three
\* bytes of one with nothing before them that could begin it.
LEMMA InStepFromOf ==
    ASSUME IInv, WireInv, NEW n \in 1 .. ReadMax, at + n <= Len(wire.bytes), InStepFrom(n) # 0
    PROVE  \E e \in Ends : /\ InStepFrom(n) = e + 1 /\ e >= at /\ accum = <<>>
                           /\ \A k \in at + 1 .. e : wire.bytes[k] # Code["a"]
                           /\ e = at \/ at + n >= e + 3
<1> DEFINE T == {x \in {0} \cup ToSet(wire.ends) : x >= at}
<1>1. /\ at \in Nat /\ at <= Len(wire.bytes) /\ Ends \in SUBSET Nat
      /\ Len(wire.bytes) \in Nat /\ WellLaid(wire)
  BY Placed
<1>2. {0} \cup ToSet(wire.ends) = Ends
  BY <1>1, WireTypes DEF ToSet, Ends
<1>3. T \in SUBSET Nat
  BY <1>1, <1>2
<1>4. T # {}
  <2>1. Len(wire.ends) \in 1 .. Len(wire.ends) /\ wire.ends[Len(wire.ends)] = Len(wire.bytes)
    BY <1>1, WireTypes DEF WellLaid
  <2>2. Len(wire.bytes) \in Ends
    BY <2>1 DEF Ends
  <2> QED
    BY <1>1, <1>2, <2>2
<1>5. PICK e \in T : e = Min(T)
  BY <1>3, <1>4, MinOf
<1>6. InStepFrom(n) = IF /\ accum = <<>>
                         /\ \A k \in at + 1 .. e : wire.bytes[k] # Code["a"]
                         /\ e = at \/ at + n >= e + 3
                      THEN e + 1 ELSE 0
  BY <1>5 DEF InStepFrom
<1>7. e \in Ends /\ e >= at
  BY <1>2, <1>5
<1> QED
  BY <1>6, <1>7

LEMMA ReadStep ==
    ASSUME IInv, WireInv, StepInv, NEW n \in 1 .. ReadMax, Read(n)
    PROVE  StepInv'
<1>a. /\ WellLaid(wire) /\ TypeInv /\ AccumInv /\ OrderInv /\ mode = "reading"
      /\ at \in Nat /\ at <= Len(wire.bytes) /\ Len(wire.bytes) \in Nat
      /\ Len(accum) \in Nat /\ Ends \in SUBSET Nat
      /\ Len(Rest) = Len(accum) - off
      /\ \A i \in 1 .. Len(accum) - off : Rest[i] = accum[off + i]
  BY Placed DEF IInv, Read
<1>b. /\ n \in Nat /\ n > 0 /\ at + n <= Len(wire.bytes)
      /\ at' = at + n /\ off' = 0 /\ mode' = "consuming"
      /\ UNCHANGED <<wire, taken>>
      /\ Len(accum') = Len(accum) + n
      /\ \A i \in 1 .. Len(accum) : accum'[i] = accum[i]
      /\ \A i \in Len(accum) + 1 .. Len(accum) + n : accum'[i] = at + (i - Len(accum))
      /\ Len(Rest') = Len(accum')
      /\ \A i \in 1 .. Len(accum') : Rest'[i] = accum'[i]
  <2>1. n > 0
    BY Sizes
  <2>2. TypeInv /\ AccumInv
    BY <1>a
  <2> QED
    BY <2>1, <2>2, ReadEffect
<1>c. Ends' = Ends
  BY <1>b DEF Ends
<1>o. off = 0
  BY <1>a DEF TypeInv, TypeOK
<1>1. CASE since # 0
  <2>1. since' = since
    BY <1>1 DEF Read
  <2>2. PICK done \in Ends : InStep(done)
    BY <1>a, <1>1 DEF StepInv, GarbageAhead
  <2>3. /\ since - 1 <= done /\ done <= at /\ Len(Rest) = at - done
        /\ \A k \in 1 .. at - done : Rest[k] = done + k
        /\ {taken[k] : k \in Got} = {Sent(i) : i \in Due(done)}
        /\ done \in Nat
    BY <1>a, <2>2 DEF InStep
  <2>4. Len(accum) = at - done /\ \A k \in 1 .. at - done : accum[k] = done + k
    BY <1>a, <1>o, <2>3
  <2>5. Len(Rest') = at' - done
    BY <1>a, <1>b, <2>3, <2>4
  <2>6. ASSUME NEW k \in 1 .. at' - done
        PROVE  Rest'[k] = done + k
    <3>1. k \in 1 .. Len(accum) + n /\ k \in 1 .. Len(accum')
      BY <1>a, <1>b, <2>3, <2>4
    <3>2. CASE k \in 1 .. Len(accum)
      BY <1>b, <2>4, <3>1, <3>2
    <3>3. CASE k \notin 1 .. Len(accum)
      <4>1. k \in Len(accum) + 1 .. Len(accum) + n
        BY <1>a, <1>b, <3>1, <3>3
      <4>2. Rest'[k] = at + (k - Len(accum))
        BY <1>b, <3>1, <4>1
      <4> QED
        BY <1>a, <2>3, <2>4, <4>1, <4>2
    <3> QED
      BY <3>2, <3>3
  <2>7. /\ {taken[k] : k \in Got}' = {taken[k] : k \in Got}
        /\ {Sent(i) : i \in Due(done)}' = {Sent(i) : i \in Due(done)}
    BY <1>b, <2>1 DEF Got, Due, Sent
  <2>8. since' - 1 <= done /\ done <= at'
    BY <1>a, <1>b, <2>1, <2>3
  <2>9. InStep(done)'
    BY <1>b, <2>3, <2>5, <2>6, <2>7, <2>8 DEF InStep
  <2> QED
    BY <1>b, <1>c, <2>1, <2>9 DEF StepInv
<1>2. CASE since = 0 /\ InStepFrom(n) = 0
  <2>1. since' = 0
    BY <1>2 DEF Read
  <2> QED
    BY <1>a, <1>b, <2>1 DEF StepInv
<1>3. CASE since = 0 /\ InStepFrom(n) # 0
  <2>1. PICK e \in Ends :
           /\ InStepFrom(n) = e + 1 /\ e >= at /\ accum = <<>>
           /\ \A k \in at + 1 .. e : wire.bytes[k] # Code["a"]
           /\ e = at \/ at + n >= e + 3
    BY <1>b, <1>3, InStepFromOf
  <2>2. since' = e + 1 /\ e \in Nat /\ Len(accum) = 0
    BY <1>a, <1>3, <2>1 DEF Read
  <2>3. since' \in 0 .. Len(wire'.bytes) /\ since' - 1 \in Ends'
    BY <1>a, <1>b, <1>c, <2>1, <2>2
  <2>4. Len(accum') = n /\ \A i \in 1 .. n : accum'[i] = at + i
    <3>1. \A i \in 1 .. n : i \in Len(accum) + 1 .. Len(accum) + n /\ i - Len(accum) = i
      BY <1>b, <2>2
    <3> QED
      BY <1>b, <2>2, <3>1
  <2>5. Got' = {}
    <3>1. \A k \in DOMAIN taken : taken[k].from \in Nat /\ taken[k].from <= at
      <4>1. \A k \in DOMAIN taken : /\ taken[k].from \in Nat /\ taken[k].to \in Nat
                                    /\ taken[k].from <= taken[k].to /\ taken[k].to <= at
        BY Placed
      <4> QED
        BY <1>a, <4>1
    <3>2. \A k \in DOMAIN taken : ~(taken[k].from >= e + 1)
      BY <1>a, <2>1, <2>2, <3>1
    <3> QED
      BY <1>b, <2>2, <3>2 DEF Got
  <2>6. CASE e = at
    <3>1. since' - 1 = e /\ Len(Rest') = at' - e /\ e <= at' /\ at' - e = n
      BY <1>a, <1>b, <2>2, <2>4, <2>6
    <3>2. \A k \in 1 .. n : Rest'[k] = e + k
      BY <1>b, <2>4, <2>6
    <3>3. {i \in DOMAIN wire.ends : First(wire, i) >= e + 1 /\ wire.ends[i] <= e} = {}
      <4>1. e + 1 - 1 = e /\ e + 1 \in Nat
        BY <2>2
      <4>2. {i \in DOMAIN wire.ends :
                First(wire, i) >= e + 1 /\ wire.ends[i] <= e + 1 - 1} = {}
        BY <1>a, <4>1, NoneDue
      <4> QED
        BY <4>1, <4>2
    <3>4. Due(e)' = {}
      <4>1. Due(e)' = {i \in DOMAIN wire.ends :
                          First(wire, i) >= e + 1 /\ wire.ends[i] <= e}
        BY <1>b, <2>2 DEF Due, First
      <4> QED
        BY <3>3, <4>1
    <3>5. {taken[k] : k \in Got}' = {} /\ {Sent(i) : i \in Due(e)}' = {}
      BY <2>5, <3>4
    <3>6. since' - 1 <= e
      BY <2>2, <3>1
    <3>7. InStep(e)'
      BY <1>b, <3>1, <3>2, <3>5, <3>6 DEF InStep
    <3> QED
      BY <1>c, <2>3, <3>7 DEF StepInv
  <2>7. CASE e # at
    <3>1. at' - at = n /\ since' + 2 <= at' /\ at \in 0 .. since' - 2 /\ since' - 1 = e
      BY <1>a, <1>b, <2>1, <2>2, <2>7
    <3>2. GarbageAhead'
      BY <1>b, <2>1, <2>4, <2>5, <3>1 DEF GarbageAhead
    <3> QED
      BY <2>3, <3>2 DEF StepInv
  <2> QED
    BY <2>6, <2>7
<1> QED
  BY <1>1, <1>2, <1>3

\* Garbage that holds no "a" is skipped up to the record behind it.
LEMMA GarbageSkipped ==
    ASSUME NEW s \in Seq(Byte), NEW m \in 2 .. Len(s) - 2, Plausible(s, m),
           \A k \in 1 .. m - 1 : s[k] # Code["a"]
    PROVE  Parse(s) = JunkOf(1) /\ Skip(s, 1) = m - 1
<1> DEFINE places == {i \in 2 .. Len(s) - 2 : Plausible(s, i)}
<1>1. m \in Nat /\ m >= 2 /\ Len(s) \in Nat /\ 1 \in 1 .. m - 1
  BY BytesType
<1>2. Parse(s) = JunkOf(1)
  BY <1>1 DEF Parse, BeginsAr
<1>3. m \in places /\ places \in SUBSET Nat
  OBVIOUS
<1>4. \A p \in places : p >= m
  <2>1. ASSUME NEW p \in places, ~(p >= m)
        PROVE  FALSE
    <3>1. p \in 1 .. m - 1 /\ s[p] = Code["a"]
      BY <1>1, <2>1 DEF Plausible
    <3> QED
      BY <3>1
  <2> QED
    BY <2>1
<1>5. PICK r \in places : r = Min(places) /\ r <= m
  BY <1>3, MinOf
<1>6. r = m
  BY <1>1, <1>4, <1>5
<1>7. Resync(s) = m - 1
  BY <1>3, <1>5, <1>6 DEF Resync
<1>8. PICK q : q = m - 1
  OBVIOUS
<1>9. q \in Int /\ q >= 1
  BY <1>1, <1>8
<1>10. Max({q, 1}) \in {q, 1} /\ Max({q, 1}) >= q
  <2>1. q \in Int /\ 1 \in Int
    BY <1>9
  <2> QED
    BY <2>1, MaxOf
<1>11. Max({q, 1}) = q
  BY <1>9, <1>10
<1> QED
  BY <1>2, <1>7, <1>8, <1>11 DEF Skip

LEMMA GarbageConsumed ==
    ASSUME IInv, WireInv, StepInv, since # 0, GarbageAhead
    PROVE  /\ Parsed = JunkOf(1) /\ off < Len(accum)
           /\ \E b \in 0 .. since - 2 :
                 /\ Len(accum) = at - b
                 /\ \A k \in 1 .. at - b : accum[k] = b + k
                 /\ Skip(BytesAt(Rest), 1) = since - 1 - b
<1>1. /\ WellLaid(wire) /\ FoundInStream(wire) /\ TypeInv
      /\ at \in Nat /\ at <= Len(wire.bytes) /\ Len(wire.bytes) \in Nat
      /\ Len(Rest) = Len(accum) - off
      /\ \A i \in 1 .. Len(accum) - off : Rest[i] = accum[off + i]
  BY Placed
<1>2. since \in Nat /\ since > 0 /\ since - 1 \in Ends /\ since + 2 <= at /\ off = 0
  BY <1>1 DEF StepInv, GarbageAhead
<1>3. PICK b \in 0 .. since - 2 :
         /\ Len(accum) = at - b
         /\ \A k \in 1 .. at - b : accum[k] = b + k
         /\ \A k \in b + 1 .. since - 1 : wire.bytes[k] # Code["a"]
  BY DEF GarbageAhead
<1>4. Len(Rest) = at - b /\ \A k \in 1 .. at - b : Rest[k] = b + k
  BY <1>1, <1>2, <1>3
<1>5. PICK s \in Seq(Byte) : /\ s = BytesAt(Rest) /\ Len(s) = at - b
                             /\ \A k \in 1 .. at - b : s[k] = wire.bytes[b + k]
  <2>1. Rest \in Seq(1 .. Len(wire.bytes))
    BY <1>1, RestType
  <2>2. PICK s : s = BytesAt(Rest)
    OBVIOUS
  <2>3. s \in Seq(Byte) /\ Len(s) = at - b /\ \A k \in 1 .. at - b : s[k] = wire.bytes[Rest[k]]
    BY <1>1, <1>4, <2>1, <2>2, BytesAtType
  <2> QED
    BY <1>4, <2>2, <2>3
<1>6. PICK i \in 1 .. Len(wire.ends) : First(wire, i) = since - 1 + 1
  <2>1. since - 1 < Len(wire.bytes)
    BY <1>1, <1>2
  <2> QED
    BY <1>1, <1>2, <2>1, NextRecord
<1>7. Plausible(wire.bytes, since)
  <2>1. i \in DOMAIN wire.ends /\ since - 1 + 1 = since
    BY <1>1, <1>2, WireTypes
  <2> QED
    BY <1>1, <1>6, <2>1 DEF FoundInStream
<1>8. PICK m \in Nat : m = since - b
  BY <1>2
<1>9. m \in 2 .. Len(s) - 2 /\ b + m = since /\ m + 2 <= at - b
  BY <1>1, <1>2, <1>5, <1>8
<1>10. Plausible(s, m)
  <2>1. /\ m \in 1 .. at - b /\ m + 1 \in 1 .. at - b /\ m + 2 \in 1 .. at - b
        /\ b + (m + 1) = since + 1 /\ b + (m + 2) = since + 2
    BY <1>1, <1>2, <1>9
  <2>2. /\ s[m] = wire.bytes[since] /\ s[m + 1] = wire.bytes[since + 1]
        /\ s[m + 2] = wire.bytes[since + 2]
    BY <1>5, <1>9, <2>1
  <2> QED
    BY <1>7, <2>2 DEF Plausible
<1>11. \A k \in 1 .. m - 1 : s[k] # Code["a"]
  <2>1. ASSUME NEW k \in 1 .. m - 1
        PROVE  s[k] # Code["a"]
    <3>1. k \in 1 .. at - b /\ b + k \in b + 1 .. since - 1
      BY <1>1, <1>2, <1>9
    <3> QED
      BY <1>3, <1>5, <3>1
  <2> QED
    BY <2>1
<1>12. Parse(s) = JunkOf(1) /\ Skip(s, 1) = m - 1
  BY <1>9, <1>10, <1>11, GarbageSkipped
<1>13. Parsed = JunkOf(1)
  BY <1>5, <1>12 DEF Parsed, BytesAt
<1>14. m - 1 = since - 1 - b /\ off < Len(accum)
  BY <1>1, <1>2, <1>3, <1>8
<1> QED
  BY <1>3, <1>5, <1>12, <1>13, <1>14

LEMMA ConsumeStep ==
    ASSUME IInv, WireInv, StepInv, Consume
    PROVE  StepInv'
<1>a. /\ WellLaid(wire) /\ TypeInv /\ AccumInv /\ OrderInv
      /\ at \in Nat /\ at <= Len(wire.bytes) /\ Len(wire.bytes) \in Nat
      /\ off \in Nat /\ Len(accum) \in Nat /\ Ends \in SUBSET Nat
      /\ Len(Rest) = Len(accum) - off
      /\ \A i \in 1 .. Len(accum) - off : Rest[i] = accum[off + i]
  BY Placed DEF IInv
<1>b. /\ mode = "consuming" /\ mode' = mode /\ off < Len(accum) /\ Parsed.used > 0
      /\ UNCHANGED <<wire, at, accum, since>>
  BY DEF Consume
<1>c. Ends' = Ends
  BY <1>b DEF Ends
<1>d. Rest' \in Seq(1 .. Len(wire.bytes)) /\ Len(Rest') = Len(accum) - off'
      /\ \A i \in 1 .. Len(accum) - off' : Rest'[i] = accum[off' + i]
  <2>1. TypeInv'
    BY ConsumeNext DEF IInv
  <2>2. off' \in 0 .. Len(accum) /\ accum \in Seq(1 .. Len(wire.bytes))
    BY <1>a, <1>b, <2>1 DEF TypeInv, TypeOK
  <2>3. Rest' = SubSeq(accum, off' + 1, Len(accum))
    BY <1>b DEF Rest
  <2> QED
    BY <1>a, <2>2, <2>3, SuffixType
<1>1. CASE since = 0
  BY <1>b, <1>1 DEF StepInv
<1>2. CASE since # 0 /\ GarbageAhead
  <2>1. /\ Parsed = JunkOf(1) /\ off = 0 /\ Got = {} /\ since - 1 \in Ends /\ since \in Nat
        /\ since + 2 <= at
    BY <1>a, <1>2, GarbageConsumed DEF GarbageAhead, StepInv
  <2>2. PICK b \in 0 .. since - 2 : /\ Len(accum) = at - b
                                    /\ \A k \in 1 .. at - b : accum[k] = b + k
                                    /\ Skip(BytesAt(Rest), 1) = since - 1 - b
    BY <1>2, GarbageConsumed
  <2>3. off' = since - 1 - b /\ taken' = taken
    BY <2>1, <2>2 DEF Consume, JunkOf, Junk, BytesAt
  <2>4. PICK d \in Nat : d = since - 1 /\ d \in Ends /\ d <= at /\ off' = d - b /\ b <= d
    BY <1>a, <2>1, <2>2, <2>3
  <2>5. Len(Rest') = at - d
    BY <1>a, <1>d, <2>1, <2>2, <2>4
  <2>6. ASSUME NEW k \in 1 .. at - d
        PROVE  Rest'[k] = d + k
    <3>1. k \in 1 .. Len(accum) - off'
      BY <1>a, <2>1, <2>2, <2>4
    <3>2. off' + k \in 1 .. at - b /\ b + (off' + k) = d + k
      BY <1>a, <2>1, <2>2, <2>4
    <3> QED
      BY <1>d, <2>2, <3>1, <3>2
  <2>7. Due(d)' = {}
    <3>1. Due(d)' = {i \in DOMAIN wire.ends :
                        First(wire, i) >= since /\ wire.ends[i] <= since - 1}
      BY <1>b, <2>4 DEF Due, First
    <3> QED
      BY <1>a, <2>1, <3>1, NoneDue
  <2>8. Got' = {}
    BY <1>b, <2>1, <2>3 DEF Got
  <2>9. {taken[k] : k \in Got}' = {} /\ {Sent(i) : i \in Due(d)}' = {}
    BY <2>7, <2>8
  <2>10. since' - 1 <= d
    BY <1>b, <2>4
  <2>11. InStep(d)'
    BY <1>b, <2>4, <2>5, <2>6, <2>9, <2>10 DEF InStep
  <2> QED
    BY <1>b, <1>c, <2>1, <2>4, <2>11 DEF StepInv
<1>3. CASE since # 0 /\ ~GarbageAhead
  <2>0. since \in Nat
    BY <1>a DEF StepInv
  <2>1. PICK done \in Ends : InStep(done)
    BY <1>b, <1>3 DEF StepInv
  <2>2. /\ since - 1 <= done /\ done <= at /\ Len(Rest) = at - done
        /\ \A k \in 1 .. at - done : Rest[k] = done + k
        /\ {taken[k] : k \in Got} = {Sent(i) : i \in Due(done)}
        /\ done \in Nat /\ since \in Nat
    BY <1>a, <2>0, <2>1 DEF InStep
  <2>3. PICK i \in 1 .. Len(wire.ends) :
           /\ First(wire, i) = done + 1 /\ done < wire.ends[i]
           /\ \A j \in 1 .. Len(wire.ends) :
                 wire.ends[j] > done => wire.ends[j] >= wire.ends[i]
           /\ wire.ends[i] \in Nat /\ wire.means[i].kind # "junk"
           /\ Parsed = IF at < wire.ends[i] THEN Incomplete
                       ELSE [used |-> wire.ends[i] - done, reply |-> wire.means[i]]
    BY <1>b, <2>1, FindsRecord
  <2>4. PICK end \in Nat : end = wire.ends[i]
    BY <2>3
  <2>5. /\ end <= at /\ Parsed.used = end - done /\ Parsed.reply = wire.means[i]
    BY <1>a, <1>b, <2>3, <2>4 DEF Incomplete
  <2>6. /\ end - done \in 1 .. at - done /\ 1 \in 1 .. at - done
        /\ done + 1 = First(wire, i) /\ done + (end - done) = end /\ done < end
    <3>1. done \in Nat /\ at \in Nat /\ end \in Nat
      BY <1>a, <2>2
    <3>2. done < end /\ done + 1 = First(wire, i)
      BY <2>3, <2>4
    <3>3. end <= at
      BY <2>5
    <3>4. end - done \in 1 .. at - done /\ 1 \in 1 .. at - done
      BY <3>1, <3>2, <3>3
    <3>5. done + (end - done) = end
      BY <3>1
    <3> QED
      BY <3>2, <3>4, <3>5
  <2>7. Rest[1] = First(wire, i) /\ Rest[Parsed.used] = end
    BY <2>2, <2>5, <2>6
  <2>8. off' = off + (end - done) /\ taken' = Append(taken, Sent(i))
    BY <2>3, <2>4, <2>5, <2>7 DEF Consume, Sent
  <2>9. Len(Rest') = at - end
    <3>1. Len(Rest') = Len(accum) - off' /\ Len(accum) - off = at - done
      BY <1>a, <1>d, <2>2
    <3>2. /\ Len(accum) \in Nat /\ off \in Nat /\ at \in Nat /\ done \in Nat /\ end \in Nat
          /\ off' = off + (end - done)
      BY <1>a, <2>2, <2>8
    <3> QED
      BY <3>1, <3>2
  <2>10. ASSUME NEW k \in 1 .. at - end
         PROVE  Rest'[k] = end + k
    <3>1. PICK d \in 1 .. at - done : d = end - done
      BY <2>6
    <3>2. k \in Nat /\ d \in Nat /\ k >= 1 /\ k <= at - end /\ end = done + d
      BY <1>a, <2>2, <3>1
    <3>3. d + k \in 1 .. at - done /\ done + (d + k) = end + k
      BY <1>a, <2>2, <3>2
    <3>4. d + k \in 1 .. Len(accum) - off
      BY <1>a, <2>2, <3>3
    <3>5. off' = off + d /\ off' + k = off + (d + k)
      BY <1>a, <2>8, <3>1, <3>2
    <3>6. k \in 1 .. Len(accum) - off'
      BY <1>a, <2>2, <3>2, <3>5
    <3>7. Rest'[k] = accum[off + (d + k)]
      BY <1>d, <3>5, <3>6
    <3>8. Rest[d + k] = accum[off + (d + k)]
      BY <1>a, <3>4
    <3> QED
      BY <2>2, <3>3, <3>7, <3>8
  <2>11. {taken[k] : k \in Got}' = {Sent(j) : j \in Due(done)} \cup {Sent(i)}
    <3>1. Len(taken) \in Nat /\ taken \in Seq(ToSet(taken) \cup {Sent(i)})
          /\ DOMAIN taken = 1 .. Len(taken)
      <4>1. taken \in Seq(ToSet(taken))
        BY <1>a DEF OrderInv
      <4>2. Len(taken) \in Nat /\ DOMAIN taken = 1 .. Len(taken)
        BY <4>1, LenProperties
      <4>3. \A k \in 1 .. Len(taken) : taken[k] \in ToSet(taken) \cup {Sent(i)}
        BY <4>2 DEF ToSet
      <4> QED
        BY <4>1, <4>2, <4>3, SequenceOf
    <3>2. /\ taken' \in Seq(ToSet(taken) \cup {Sent(i)}) /\ Len(taken') = Len(taken) + 1
          /\ \A k \in 1 .. Len(taken) : taken'[k] = taken[k]
          /\ taken'[Len(taken) + 1] = Sent(i)
      BY <2>8, <3>1, AppendProperties
    <3>3. DOMAIN taken' = 1 .. Len(taken) + 1
      BY <3>2, LenProperties
    <3>4. Sent(i).from >= since
      BY <2>2, <2>6 DEF Sent
    <3>5. Got' = Got \cup {Len(taken) + 1}
      <4>1. \A k \in 1 .. Len(taken) + 1 : k \in 1 .. Len(taken) \/ k = Len(taken) + 1
        BY <3>1
      <4>2. \A k \in 1 .. Len(taken) : k \in 1 .. Len(taken) + 1
        BY <3>1
      <4>3. Got' = {k \in 1 .. Len(taken) + 1 : taken'[k].from >= since}
        BY <1>b, <3>3 DEF Got
      <4>4. Len(taken) + 1 \in 1 .. Len(taken) + 1
        BY <3>1
      <4> QED
        BY <3>1, <3>2, <3>4, <4>1, <4>2, <4>3, <4>4 DEF Got
    <3>6. \A k \in Got : taken'[k] = taken[k]
      BY <3>1, <3>2 DEF Got
    <3>7. {taken'[k] : k \in Got'} = {taken[k] : k \in Got} \cup {Sent(i)}
      BY <3>2, <3>5, <3>6
    <3> QED
      BY <2>2, <3>7
  <2>12. Due(end)' = Due(done) \cup {i}
    <3>1. Due(end)' = Due(end)
      BY <1>b DEF Due, First
    <3> QED
      BY <1>a, <2>2, <2>3, <2>4, <3>1, DueGrows
  <2>13. {Sent(j) : j \in Due(end)}' = {Sent(j) : j \in Due(done)} \cup {Sent(i)}
    <3>1. \A j : Sent(j)' = Sent(j)
      BY <1>b DEF Sent, First
    <3> QED
      BY <2>12, <3>1
  <2>14. InStep(end)'
    <3>1. since' - 1 <= end
      BY <1>b, <2>2, <2>6
    <3> QED
      BY <1>b, <2>5, <2>9, <2>10, <2>11, <2>13, <3>1 DEF InStep
  <2>15. end \in Ends
    BY <2>4 DEF Ends
  <2> QED
    BY <1>b, <1>c, <2>14, <2>15 DEF StepInv
<1> QED
  BY <1>1, <1>2, <1>3

LEMMA ConsumeEndStep ==
    ASSUME IInv, WireInv, StepInv, ConsumeEnd
    PROVE  StepInv'
<1>a. /\ WellLaid(wire) /\ TypeInv /\ AccumInv
      /\ at \in Nat /\ at <= Len(wire.bytes) /\ Len(wire.bytes) \in Nat
      /\ off \in Nat /\ Len(accum) \in Nat /\ off <= Len(accum) /\ Ends \in SUBSET Nat
      /\ Len(Rest) = Len(accum) - off
  BY Placed DEF IInv
<1>b. /\ mode = "consuming" /\ mode' = "reading" /\ off' = 0
      /\ off < Len(accum) => Parsed.used = 0
      /\ UNCHANGED <<wire, at, taken, since>>
  BY DEF ConsumeEnd
<1>c. Ends' = Ends
  BY <1>b DEF Ends
<1>d. accum' = Rest
  BY <1>a, ConsumeEndEffect
<1>1. CASE since = 0
  BY <1>b, <1>1 DEF StepInv
<1>2. CASE since # 0
  <2>0. ~GarbageAhead
    BY <1>2, <1>b, GarbageConsumed DEF JunkOf
  <2>1. PICK done \in Ends : InStep(done)
    BY <1>b, <1>2, <2>0 DEF StepInv
  <2>2. /\ since - 1 <= done /\ done <= at /\ Len(Rest) = at - done
        /\ \A k \in 1 .. at - done : Rest[k] = done + k
        /\ {taken[k] : k \in Got} = {Sent(i) : i \in Due(done)}
        /\ done \in Nat
    BY <1>a, <2>1 DEF InStep
  <2>3. Due(at) = Due(done)
    <3>1. CASE off = Len(accum)
      <4>1. at = done
        BY <1>a, <2>2, <3>1
      <4> QED
        BY <4>1
    <3>2. CASE off < Len(accum)
      <4>1. PICK i \in 1 .. Len(wire.ends) :
               /\ done < wire.ends[i] /\ wire.ends[i] \in Nat
               /\ \A j \in 1 .. Len(wire.ends) :
                     wire.ends[j] > done => wire.ends[j] >= wire.ends[i]
               /\ Parsed = IF at < wire.ends[i] THEN Incomplete
                           ELSE [used |-> wire.ends[i] - done, reply |-> wire.means[i]]
        BY <2>1, <3>2, FindsRecord
      <4>2. PICK end \in Nat : end = wire.ends[i]
        BY <4>1
      <4>3. at < end
        <5>1. CASE ~(at < end)
          <6>1. Parsed.used = end - done /\ end - done > 0
            BY <1>a, <2>2, <4>1, <4>2, <5>1
          <6> QED
            BY <1>b, <3>2, <6>1
        <5> QED
          BY <5>1
      <4>4. ASSUME NEW j \in DOMAIN wire.ends
            PROVE  wire.ends[j] <= at <=> wire.ends[j] <= done
        <5>1. j \in 1 .. Len(wire.ends) /\ wire.ends[j] \in Nat
          BY <1>a, WireTypes
        <5>2. wire.ends[j] > done => wire.ends[j] >= end
          BY <4>1, <4>2, <5>1
        <5> QED
          BY <1>a, <2>2, <4>3, <5>1, <5>2
      <4> QED
        BY <4>4 DEF Due
    <3> QED
      BY <1>a, <3>1, <3>2
  <2>4. Rest' = Rest
    <3>1. Rest' = SubSeq(Rest, 0 + 1, Len(Rest)) /\ Rest \in Seq(1 .. Len(wire.bytes))
      BY <1>a, <1>b, <1>d, RestType DEF Rest
    <3>2. Len(Rest) \in Nat /\ 0 \in 0 .. Len(Rest)
      BY <3>1, LenProperties
    <3>3. /\ Rest' \in Seq(1 .. Len(wire.bytes)) /\ Len(Rest') = Len(Rest) - 0
          /\ \A i \in 1 .. Len(Rest) - 0 : Rest'[i] = Rest[0 + i]
      BY <1>a, <3>1, <3>2, SuffixType
    <3>4. Len(Rest') = Len(Rest) /\ \A i \in 1 .. Len(Rest) : Rest'[i] = Rest[i]
      BY <3>2, <3>3
    <3> QED
      BY <3>1, <3>3, <3>4, SeqEqual
  <2>5. /\ {taken[k] : k \in Got}' = {taken[k] : k \in Got}
        /\ {Sent(i) : i \in Due(done)}' = {Sent(i) : i \in Due(done)}
        /\ Due(at)' = Due(at) /\ Due(done)' = Due(done)
    BY <1>b DEF Got, Due, Sent, First
  <2>6. InStep(done)'
    BY <1>b, <2>2, <2>3, <2>4, <2>5 DEF InStep
  <2> QED
    BY <1>b, <1>c, <2>6 DEF StepInv
<1> QED
  BY <1>1, <1>2

LEMMA OthersStep ==
    ASSUME IInv, WireInv, StepInv,
           \/ \E n \in 1 .. ReadMax : DropRead(n)
           \/ ReadGone \/ ReadFails \/ ReadTimesOut \/ HangUp \/ UNCHANGED vars
    PROVE  StepInv'
<1>a. Len(wire.bytes) \in Nat
  BY Placed
<1>1. UNCHANGED <<wire, accum, off, taken>>
  BY DEF DropRead, ReadGone, ReadFails, LeaveLoop, ReadTimesOut, HangUp, vars
<1>2. CASE since' = 0
  BY <1>a, <1>1, <1>2 DEF StepInv
<1>3. CASE UNCHANGED <<at, since>> /\ mode' \in {mode, "ended"}
  <2>1. Ends' = Ends
    BY <1>1 DEF Ends
  <2>2. since # 0 /\ mode' # "ended" => GarbageAhead' \/ \E done \in Ends : InStep(done)'
    <3> SUFFICES ASSUME since # 0, mode' # "ended"
                 PROVE  GarbageAhead' \/ \E done \in Ends : InStep(done)'
      OBVIOUS
    <3>1. mode' = mode
      BY <1>3
    <3>2. CASE GarbageAhead
      BY <1>1, <1>3, <3>1, <3>2 DEF GarbageAhead, Got
    <3>3. CASE \E done \in Ends : InStep(done)
      <4>1. PICK done \in Ends : InStep(done)
        BY <3>3
      <4>2. /\ {taken[k] : k \in Got}' = {taken[k] : k \in Got}
            /\ {Sent(i) : i \in Due(done)}' = {Sent(i) : i \in Due(done)}
            /\ Due(at)' = Due(at) /\ Due(done)' = Due(done) /\ Rest' = Rest
        BY <1>1, <1>3 DEF Got, Due, Sent, First, Rest
      <4>3. InStep(done)'
        BY <1>1, <1>3, <3>1, <4>1, <4>2 DEF InStep
      <4> QED
        BY <4>3
    <3> QED
      BY <3>1, <3>2, <3>3 DEF StepInv
  <2> QED
    BY <1>1, <1>3, <2>1, <2>2 DEF StepInv
<1>4. CASE \E n \in 1 .. ReadMax : DropRead(n)
  BY <1>2, <1>4 DEF DropRead
<1>5. CASE ReadGone \/ ReadFails \/ ReadTimesOut \/ HangUp \/ UNCHANGED vars
  <2>1. UNCHANGED <<at, since>> /\ mode' \in {mode, "ended"}
    BY <1>5 DEF ReadGone, ReadFails, LeaveLoop, ReadTimesOut, HangUp, vars
  <2> QED
    BY <1>3, <2>1
<1> QED
  BY <1>4, <1>5

\* A session is told that the cable is lost only when the loop is left.
LEMMA LostStep ==
    ASSUME IInv, LostInv, [Next]_vars
    PROVE  LostInv'
<1>a. /\ at \in 0 .. Len(wire.bytes) /\ Len(wire.bytes) \in Nat /\ failures \in 0 .. FailuresMax
      /\ mode # "ended" => failures < FailuresMax
  BY LenProperties DEF IInv, TypeInv, TypeOK
<1>1. CASE lost
  <2>1. mode = "ended" /\ (failures < FailuresMax => at = Len(wire.bytes))
    BY <1>1 DEF LostInv
  <2>2. UNCHANGED vars
    BY <2>1 DEF Next, Read, DropRead, Consume, ConsumeEnd, ReadGone, ReadFails, Failing,
                ReadTimesOut, HangUp
  <2> QED
    BY <2>1, <2>2 DEF LostInv, vars
<1>2. CASE ~lost
  <2>1. CASE ReadGone
    <3>1. mode' = "ended" /\ Left <= 0 /\ UNCHANGED <<wire, at>>
      BY <1>a, <2>1 DEF ReadGone, LeaveLoop, Readable, Left
    <3>2. at = Len(wire.bytes)
      BY <1>a, <3>1 DEF Left
    <3> QED
      BY <3>1, <3>2 DEF LostInv
  <2>2. CASE ReadFails
    <3>1. failures' = FailuresMax \/ lost' = lost
      BY <2>2 DEF ReadFails
    <3>2. failures' = FailuresMax => mode' = "ended"
      BY <2>2 DEF ReadFails, LeaveLoop
    <3>3. failures' = FailuresMax => ~(failures' < FailuresMax)
      BY Sizes
    <3> QED
      BY <1>2, <3>1, <3>2, <3>3 DEF LostInv
  <2>3. CASE lost' = lost
    BY <1>2, <2>3 DEF LostInv
  <2> QED
    BY <2>1, <2>2, <2>3 DEF Next, Read, DropRead, Consume, ConsumeEnd, ReadTimesOut, HangUp, vars
<1> QED
  BY <1>1, <1>2

LEMMA WireStays == ASSUME WireInv, [Next]_vars PROVE WireInv'
<1>1. wire' = wire
  BY DEF Next, Read, DropRead, Consume, ConsumeEnd, ReadGone, ReadFails, ReadTimesOut,
         HangUp, vars
<1>2. WellLaid(wire)' = WellLaid(wire) /\ FoundInStream(wire)' = FoundInStream(wire)
  BY <1>1
<1> QED
  BY <1>2 DEF WireInv

LEMMA StepInvariance ==
    ASSUME \A s \in Scripts : RecordsAreUnderstood(Layout(s))
    PROVE  Spec => []StreamInv
<1>1. Init => StreamInv
  <2> SUFFICES ASSUME Init PROVE StreamInv
    OBVIOUS
  <2>1. PICK s \in Scripts : wire = Layout(s)
    BY DEF Init
  <2>2. WireInv
    <3>1. WellLaid(wire) /\ RecordsAreUnderstood(wire)
      BY <2>1, ScriptsAssumption
    <3> QED
      BY <3>1, UnderstoodIsFound DEF WireInv
  <2>3. Len(wire.bytes) \in Nat
    BY <2>2, WireTypes DEF WireInv
  <2>4. StepInv /\ LostInv
    BY <2>3 DEF Init, StepInv, LostInv
  <2> QED
    BY <2>2, <2>4 DEF StreamInv
<1>2. IInv /\ StreamInv /\ [Next]_vars => StreamInv'
  BY ReadStep, ConsumeStep, ConsumeEndStep, OthersStep, LostStep, WireStays DEF Next, StreamInv
<1> QED
  BY <1>1, <1>2, Invariance, PTL DEF Spec

\* What is handed on while no read is dropped was sent as one record.
LEMMA GenuineConsumed ==
    ASSUME IInv, WireInv, RecordsStandAlone(wire), NothingInvented, Consume
    PROVE  NothingInvented'
<1>a. /\ WellLaid(wire) /\ FoundInStream(wire) /\ TypeInv /\ AccumInv
      /\ at \in Nat /\ at <= Len(wire.bytes) /\ Len(wire.bytes) \in Nat
      /\ off \in Nat /\ Len(accum) \in Nat
      /\ Rest \in Seq(1 .. Len(wire.bytes)) /\ Len(Rest) = Len(accum) - off
      /\ \A i \in 1 .. Len(accum) - off : Rest[i] = accum[off + i]
  BY Placed, RestType DEF IInv
<1>b. /\ off < Len(accum) /\ Parsed.used > 0 /\ mode = "consuming"
      /\ UNCHANGED <<wire, losses>>
  BY DEF Consume
<1> SUFFICES ASSUME losses = 0
             PROVE  \A k \in DOMAIN taken' : \E i \in DOMAIN wire.ends : taken'[k] = Sent(i)
  BY <1>b DEF NothingInvented, Sent, First
<1>c. \A k \in DOMAIN taken : \E i \in DOMAIN wire.ends : taken[k] = Sent(i)
  BY DEF NothingInvented
<1>1. CASE Parsed.reply.kind = "junk"
  BY <1>c, <1>1 DEF Consume
<1>2. CASE Parsed.reply.kind # "junk"
  <2>1. PICK n \in Nat : n = Len(Rest) /\ n >= 1
    BY <1>a, <1>b
  <2>2. \A k \in 1 .. n : Rest[k] = at - n + k
    <3>1. ASSUME NEW k \in 1 .. n
          PROVE  Rest[k] = at - n + k
      <4>1. off + k \in 1 .. Len(accum) /\ Len(accum) = n + off
        BY <1>a, <2>1
      <4>2. Rest[k] = at - Len(accum) + (off + k)
        BY <1>a, <2>1, <4>1 DEF IInv, HeldIsTheStream
      <4> QED
        BY <1>a, <2>1, <4>1, <4>2
    <3> QED
      BY <3>1
  <2>3. PICK p \in 1 .. Len(wire.bytes) : p = Rest[1] /\ p = at - n + 1
    <3>1. 1 \in 1 .. n
      BY <2>1
    <3> QED
      BY <1>a, <2>1, <2>2, <3>1, ElementOfSeq
  <2>4. at \in p .. Len(wire.bytes) /\ at - p + 1 = n
    BY <1>a, <2>1, <2>3
  <2>5. Parsed = Parse(Piece(wire, p, at))
    <3>1. \A k \in 1 .. n : p + k - 1 = Rest[k]
      BY <1>a, <2>1, <2>2, <2>3
    <3>2. [k \in 1 .. Len(Rest) |-> wire.bytes[Rest[k]]] = Piece(wire, p, at)
      BY <2>1, <2>4, <3>1 DEF Piece
    <3> QED
      BY <3>2 DEF Parsed
  <2>6. PICK i \in DOMAIN wire.ends : First(wire, i) = p
    BY <1>b, <1>2, <2>4, <2>5 DEF RecordsStandAlone
  <2>7. Parsed = IF at < wire.ends[i] THEN Incomplete
                 ELSE [used |-> wire.ends[i] - p + 1, reply |-> wire.means[i]]
    BY <1>a, <2>4, <2>5, <2>6 DEF FoundInStream
  <2>8. PICK end \in Nat : end = wire.ends[i] /\ end >= p
    <3>1. i \in 1 .. Len(wire.ends)
      BY <1>a, WireTypes
    <3>2. First(wire, i) \in 1 .. wire.ends[i] /\ wire.ends[i] \in Nat
      BY <1>a, <3>1, FirstType, WireTypes
    <3> QED
      BY <2>6, <3>2
  <2>9. end <= at /\ Parsed.used = end - p + 1 /\ Parsed.reply = wire.means[i]
    BY <1>a, <1>b, <2>7, <2>8 DEF Incomplete
  <2>10. end - p + 1 \in 1 .. n /\ at - n + (end - p + 1) = end
    <3>1. at \in Nat /\ p \in Nat /\ end <= at /\ end >= p /\ p = at - n + 1
      BY <1>a, <2>3, <2>8, <2>9
    <3>2. end - p + 1 >= 1 /\ end - p + 1 <= n /\ end - p + 1 \in Int
      BY <2>1, <3>1
    <3>3. at - n + (end - p + 1) = end
      BY <2>1, <3>1
    <3> QED
      BY <2>1, <3>2, <3>3
  <2>11. Rest[Parsed.used] = end
    BY <2>2, <2>9, <2>10
  <2>12. taken' = Append(taken, Sent(i))
    BY <1>2, <2>3, <2>6, <2>8, <2>9, <2>11 DEF Consume, Sent
  <2>13. taken \in Seq(ToSet(taken)) /\ Len(taken) \in Nat /\ DOMAIN taken = 1 .. Len(taken)
    BY LenProperties DEF IInv, OrderInv
  <2>14. taken \in Seq(ToSet(taken) \cup {Sent(i)})
    <3>1. \A k \in 1 .. Len(taken) : taken[k] \in ToSet(taken) \cup {Sent(i)}
      BY <2>13 DEF ToSet
    <3> QED
      BY <2>13, <3>1, SequenceOf
  <2>15. /\ taken' \in Seq(ToSet(taken) \cup {Sent(i)}) /\ Len(taken') = Len(taken) + 1
         /\ \A k \in 1 .. Len(taken) : taken'[k] = taken[k]
         /\ taken'[Len(taken) + 1] = Sent(i)
    BY <2>12, <2>13, <2>14, AppendProperties
  <2>16. DOMAIN taken' = 1 .. Len(taken) + 1
    BY <2>15, LenProperties
  <2>17. \A k \in 1 .. Len(taken) + 1 : k \in 1 .. Len(taken) \/ k = Len(taken) + 1
    BY <2>13
  <2> QED
    BY <1>c, <2>13, <2>15, <2>16, <2>17
<1> QED
  BY <1>1, <1>2

LEMMA GenuineStep ==
    ASSUME IInv, WireInv, RecordsStandAlone(wire), NothingInvented, [Next]_vars
    PROVE  NothingInvented' /\ RecordsStandAlone(wire)'
<1>1. wire' = wire
  BY DEF Next, Read, DropRead, Consume, ConsumeEnd, ReadGone, ReadFails, ReadTimesOut,
         HangUp, vars
<1>2. CASE Consume
  BY <1>1, <1>2, GenuineConsumed
<1>3. CASE ~Consume
  <2>1. taken' = taken
    BY <1>3 DEF Next, Read, DropRead, ConsumeEnd, ReadGone, ReadFails, ReadTimesOut,
                HangUp, vars
  <2>2. losses' = 0 => losses = 0
    <3>1. losses \in Nat
      BY DEF IInv, TypeInv, TypeOK
    <3>2. losses' = losses \/ losses' = losses + 1
      BY <1>3 DEF Next, Read, DropRead, ConsumeEnd, ReadGone, ReadFails, ReadTimesOut,
                  HangUp, vars
    <3> QED
      BY <3>1, <3>2
  <2> QED
    BY <1>1, <2>1, <2>2 DEF NothingInvented, Sent, First
<1> QED
  BY <1>1, <1>2, <1>3
-----------------------------------------------------------------------------
\* A whole read always fits: the copy into the accumulator is never cut short
\* and a full accumulator is never thrown away (op_device.c:424-427, 465-470),
\* whatever the cable sends and wherever the reads cut it.
THEOREM ReadsAlwaysFit == Spec => []NoReadIsCut
<1>1. IInv => NoReadIsCut
  <2> SUFFICES ASSUME IInv PROVE NoReadIsCut
    OBVIOUS
  <2>1. TypeInv /\ TypeOK /\ accum \in Seq(1 .. Len(wire.bytes))
    BY DEF IInv, TypeInv, TypeOK
  <2>2. mode = "reading" => HeldBack(BytesAt(accum))
    BY DEF IInv, AccumInv
  <2>3. BytesAt(accum) \in Seq(Byte) /\ Len(BytesAt(accum)) = Len(accum)
    BY <2>1, BytesAtType
  <2>4. mode = "reading" => Len(accum) + ReadMax <= AccumCap
    BY <2>2, <2>3, HeldFits
  <2> QED
    BY <2>1, <2>4 DEF NoReadIsCut
<1> QED
  BY <1>1, Invariance, PTL

\* No byte of the stream is used for two records, the records come in the order
\* of their bytes, and what waits in the accumulator lies behind them all, also
\* when reads are dropped and junk is skipped (op_device.c:395-428).
THEOREM NoByteTwice == Spec => []BytesTakenOnce
<1>1. IInv => BytesTakenOnce
  BY DEF IInv, OrderInv
<1> QED
  BY <1>1, Invariance, PTL

\* While no read is dropped, nothing is missing from the accumulator: it holds
\* the last bytes that have been read, in their order.
THEOREM NothingIsMissing == Spec => []HeldIsTheStream
<1>1. IInv => HeldIsTheStream
  BY DEF IInv
<1> QED
  BY <1>1, Invariance, PTL

\* Once the stream is in step, every record that has been read in full since is
\* handed on as the cable meant it, once and in order, and nothing else is; a
\* cable that hangs up is reported lost only when all it had sent has been read
\* (op_device.c:395-428, op_serial.c:78-80).  It holds for any records the
\* parser understands one by one, however long they are and wherever the reads
\* cut them.
THEOREM InStepForGood ==
    ASSUME \A s \in Scripts : RecordsAreUnderstood(Layout(s))
    PROVE  Spec => []RepliesInStep
<1>1. IInv /\ StreamInv => RepliesInStep
  <2> SUFFICES ASSUME IInv, StreamInv PROVE RepliesInStep
    OBVIOUS
  <2>a. WireInv /\ StepInv /\ LostInv
    BY DEF StreamInv
  <2>b. /\ WellLaid(wire) /\ TypeInv /\ at \in Nat /\ Ends \in SUBSET Nat
        /\ Len(Rest) = Len(accum) - off
        /\ \A i \in 1 .. Len(accum) - off : Rest[i] = accum[off + i]
        /\ accum \in Seq(1 .. Len(wire.bytes)) /\ Len(accum) \in Nat
    BY <2>a, Placed DEF TypeInv, TypeOK
  <2>1. lost /\ failures < FailuresMax => at = Len(wire.bytes) /\ mode = "ended"
    BY <2>a DEF LostInv
  <2>2. ASSUME mode = "reading", since # 0
        PROVE  /\ {taken[k] : k \in Got} = {Sent(i) : i \in Due(at)}
               /\ \A j, k \in Got : j < k => taken[j].to < taken[k].from
               /\ \E done \in {since - 1} \cup {wire.ends[i] : i \in Due(at)} :
                     /\ \A i \in Due(at) : wire.ends[i] <= done
                     /\ accum = [k \in 1 .. at - done |-> done + k]
    <3>1. PICK done \in Ends : InStep(done)
      BY <2>2, <2>a DEF StepInv, GarbageAhead
    <3>2. /\ since - 1 <= done /\ done <= at /\ Len(Rest) = at - done
          /\ \A k \in 1 .. at - done : Rest[k] = done + k
          /\ {taken[k] : k \in Got} = {Sent(i) : i \in Due(done)}
          /\ Due(at) = Due(done)
      BY <2>2, <3>1 DEF InStep
    <3>3. \A j, k \in Got : j < k => taken[j].to < taken[k].from
      <4> SUFFICES ASSUME NEW j \in Got, NEW k \in Got, j < k
                   PROVE  taken[j].to < taken[k].from
        OBVIOUS
      <4>1. taken \in Seq(ToSet(taken)) /\ BytesTakenOnce
        BY DEF IInv, OrderInv
      <4>2. j \in 1 .. Len(taken) /\ k \in 1 .. Len(taken) /\ Len(taken) \in Nat
        BY <4>1, LenProperties DEF Got
      <4>3. j \in 1 .. k - 1 /\ k \in DOMAIN taken
        BY <4>2 DEF Got
      <4> QED
        BY <4>1, <4>3 DEF BytesTakenOnce
    <3>4. done \in {since - 1} \cup {wire.ends[i] : i \in Due(at)}
      <4>1. CASE done # since - 1
        <5>1. since \in Nat /\ since - 1 \in Ends /\ since - 1 < done /\ done \in Nat
          BY <2>2, <2>a, <2>b, <3>2, <4>1 DEF StepInv
        <5>2. PICK m \in 1 .. Len(wire.ends) : done = wire.ends[m]
          <6>1. done # 0
            BY <2>2, <5>1
          <6> QED
            BY <6>1 DEF Ends
        <5>3. since - 1 < First(wire, m) /\ First(wire, m) \in Nat
          BY <2>b, <5>1, <5>2, FirstBehind, FirstType
        <5>4. m \in Due(at)
          BY <2>b, <3>2, <5>1, <5>2, <5>3, WireTypes DEF Due
        <5> QED
          BY <5>2, <5>4
      <4> QED
        BY <4>1
    <3>5. \A i \in Due(at) : wire.ends[i] <= done
      BY <3>2 DEF Due
    <3>6. accum = [k \in 1 .. at - done |-> done + k]
      <4>1. off = 0
        BY <2>2, <2>b DEF TypeInv, TypeOK
      <4>2. Len(accum) = at - done /\ \A k \in 1 .. at - done : accum[k] = done + k
        BY <2>b, <3>2, <4>1
      <4>3. accum = [k \in 1 .. Len(accum) |-> accum[k]]
        BY <2>b
      <4> QED
        BY <4>2, <4>3
    <3> QED
      BY <3>2, <3>3, <3>4, <3>5, <3>6
  <2> QED
    BY <2>1, <2>2 DEF RepliesInStep, Due, Got
<1> QED
  BY <1>1, Invariance, StepInvariance, PTL

\* While no read is dropped, what the parser hands on was sent as one record by
\* the cable, also when the session began in the middle of a record
\* (op_proto.c:305-318), provided that no record holds what could be taken for
\* one, which nothing in the protocol excludes: the data of a frame are any bytes.
THEOREM NothingIsMadeUp ==
    ASSUME \A s \in Scripts : RecordsAreUnderstood(Layout(s)),
           \A s \in Scripts : RecordsStandAlone(Layout(s))
    PROVE  Spec => []NothingInvented
<1>1. Init => NothingInvented /\ RecordsStandAlone(wire)
  <2> SUFFICES ASSUME Init PROVE NothingInvented /\ RecordsStandAlone(wire)
    OBVIOUS
  <2>1. PICK s \in Scripts : wire = Layout(s)
    BY DEF Init
  <2>2. RecordsStandAlone(wire)
    BY <2>1
  <2>3. DOMAIN taken = {}
    BY EmptySeq, LenProperties DEF Init
  <2> QED
    BY <2>2, <2>3 DEF NothingInvented
<1>2. IInv /\ StreamInv /\ NothingInvented /\ RecordsStandAlone(wire) /\ [Next]_vars
          => NothingInvented' /\ RecordsStandAlone(wire)'
  BY GenuineStep DEF StreamInv
<1> QED
  BY <1>1, <1>2, Invariance, StepInvariance, PTL DEF Spec
=============================================================================
