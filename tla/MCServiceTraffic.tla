-------------------------- MODULE MCServiceTraffic --------------------------
EXTENDS ServiceTraffic

\* The names "1" and "2.1", in bytes.
MCKnownNames == {<<1>>, <<2, DOT, 1>>}

Bytes(n) == [1 .. n -> 0 .. 2]

\* Up to four bytes and then none, too few or enough for type and class; a reply and a
\* message with two questions, with a question for a known name.
MCMessages ==
    {[header |-> "query", bytes |-> front \o back] :
        front \in UNION {Bytes(n) : n \in 0 .. 4},
        back \in {<<>>, <<1, 0, 1>>, <<1, 0, 1, 0>>, <<2, 1, 0, 1>>, <<0, 1, 0, 1, 2, 2>>,
                 <<1, 0, 0, 1, 0, 1>>}}
    \cup [header : {"reply", "questions"}, bytes : {<<1, 1, 0, 1, 1, 1, 1>>}]

\* Zeros, as at the start; a known name; no zero at all.
MCLeftovers == {<<0, 0, 0, 0>>, <<2, DOT, 1, 0>>, <<1, 1, 1, 1>>}
=============================================================================
