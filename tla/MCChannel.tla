------------------------------ MODULE MCChannel ------------------------------
(***************************************************************************)
(* Instances of Channel for TLC.                                           *)
(***************************************************************************)
EXTENDS Channel

CONSTANTS t1, t2, t3

A(k, c) == [kind |-> k, ch |-> c]
Plain(k, c) == [arms |-> <<A(k, c)>>, select |-> FALSE, block |-> TRUE]
Try(k, c)   == [arms |-> <<A(k, c)>>, select |-> FALSE, block |-> FALSE]
Select(a, b) == [arms |-> <<a, b>>, select |-> TRUE, block |-> TRUE]
Poll(a, b)   == [arms |-> <<a, b>>, select |-> TRUE, block |-> FALSE]

MCChannels == {1, 2}

\* A task with a deadline and a token that selects, sends or closes, twice; a
\* select that names the channels in the opposite order; and a task that polls:
\* it drains the first channel or feeds either.
RacePrograms ==
    (t1 :> {Select(A("recv", 1), A("recv", 2)), Plain("send", 1), Plain("close", 1)})
    @@ (t2 :> {Select(A("recv", 2), A("recv", 1))})
    @@ (t3 :> {Try("recv", 1), Poll(A("send", 1), A("send", 2))})
RaceCalls == (t1 :> 2) @@ (t2 :> 1) @@ (t3 :> 1)
====
