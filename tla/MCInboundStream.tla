-------------------------- MODULE MCInboundStream --------------------------
(* Small codes for the characters, so that every byte is also a short      *)
(* length, and the records of the run of InboundStream.                    *)
EXTENDS InboundStream

MCCode == [c \in Characters |->
    CASE c = "0" -> 0 [] c = " " -> 10 [] c = "CR" -> 11 [] c = "LF" -> 12
      [] c = "a" -> 13 [] c = "r" -> 14 [] c = "o" -> 15 [] c = "e" -> 16
      [] c = "i" -> 17 [] c = "m" -> 18 [] c = "f" -> 19 [] c = "g" -> 20
      [] c = "y" -> 21 [] c = "w" -> 22]

Means(kind, fields, tail, data) ==
    [kind |-> kind, fields |-> fields, tail |-> tail, data |-> data]

\* "aro 7", "are 9 6", an ary whose two raw bytes look like an "ar", a data
\* frame of K-line whose data are an "ar" and a line end, the END frame after
\* it, which is only a timestamp, and a CAN frame of a timestamp and one byte.
Ok == [bytes |-> <<13, 14, 15, 10, 7, 11, 12>>,
       means |-> Means("ok", <<>>, <<7>>, <<>>)]
Refusal == [bytes |-> <<13, 14, 16, 10, 9, 10, 6, 11, 12>>,
            means |-> Means("error", <<9>>, <<6>>, <<>>)]
Keys == [bytes |-> <<13, 14, 21, 3, 10, 2, 11, 12, 13, 14>>,
         means |-> Means("init", <<3, 2>>, <<>>, <<13, 14>>)]
KLine == [bytes |-> <<13, 14, 3, 5, 1, 13, 14, 11, 12>>,
          means |-> Means("frame", <<3, 1>>, <<>>, <<13, 14, 11, 12>>)]
KLineEnd == [bytes |-> <<13, 14, 3, 5, 8, 1, 2, 13, 14>>,
             means |-> Means("frame", <<3, 8>>, <<>>, <<>>)]
CAN == [bytes |-> <<13, 14, 5, 6, 0, 1, 13, 14, 10, 4>>,
        means |-> Means("frame", <<5, 0>>, <<>>, <<4>>)]

\* The longest frame there is in the run.
Long == [bytes |-> <<13, 14, 6, 22, 2, 1, 2, 3, 4>> \o [k \in 1 .. 17 |-> 5],
         means |-> Means("frame", <<6, 2>>, <<>>, [k \in 1 .. 17 |-> 5])]

MCRecords == {Ok, Refusal, Keys, KLine, KLineEnd, CAN}
MCScripts ==
    {s \in [1 .. 3 -> MCRecords] : s[3] \in {Ok, KLine, CAN}} \cup {<<Ok, Long>>}

\* The scripts of the run are what the theorems about them ask for.
ASSUME MCScriptsAssumption ==
    \A s \in MCScripts : /\ RecordsAreUnderstood(Layout(s))
                         /\ RecordsStandAlone(Layout(s))
=============================================================================
