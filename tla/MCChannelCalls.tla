--------------------------- MODULE MCChannelCalls ---------------------------
(* The calls of the run of ChannelCalls: an unsigned int has 4 bits and a  *)
(* long one sign bit and 6 more.                                           *)
EXTENDS ChannelCalls

Message(size, ok) == [size |-> size, ok |-> ok]
Config(p, v) == [size |-> 1, parameter |-> p, value |-> v]
Filter(need, sizes, ok) == [size |-> 1, need |-> need, sizes |-> sizes, ok |-> ok]
Call(kind, items) == [kind |-> kind, items |-> items, timeout |-> 0]

Write(items, timeout) == [kind |-> "write", items |-> items, timeout |-> timeout]

\* No message, one of two transfers, two of which the second takes two, and
\* three of which the second is at fault.  The Timeouts are none, some that a
\* first message leaves little of, one whose budget saturates, one of 2^32
\* and one of -1.
MCWrites ==
    {Write(<<>>, 0)}
    \cup {Write(<<Message(2, TRUE)>>, t) : t \in {0, 9, 16, 127}}
    \cup {Write(<<Message(1, TRUE), Message(2, TRUE)>>, t) : t \in {0, 3}}
    \cup {Write(<<Message(1, TRUE), Message(1, FALSE), Message(1, TRUE)>>, t) : t \in {0, 3}}

\* The wall clock is set back or forward.
MCLeaps == {-2, 2}

MCRequests ==
    MCWrites
    \cup {Call("set", <<Config("p", 1), Config("unknown", 1), Config("q", 1)>>),
          Call("set", <<Config("p", 1), Config("p", 0)>>),
          Call("get", <<Config("p", 0), Config("unknown", 0), Config("q", 0)>>),
          Call("read", <<[size |-> 1]>>),
          Call("init", <<[size |-> 2]>>),
          Call("filter", <<Filter(2, <<4, 4>>, TRUE)>>),
          Call("filter", <<Filter(3, <<4, 4, 12>>, TRUE)>>),
          Call("filter", <<Filter(3, <<4, 4, 4>>, FALSE)>>),
          Call("stop", <<[size |-> 1, filter |-> 1]>>),
          Call("clear", <<[size |-> 1]>>)}
\* The cable is fresh: which values it starts from tells no calls apart.
MCInit == Init /\ config = [p \in Parameters |-> 0]
MCSpec == MCInit /\ [][Next]_vars
=============================================================================
