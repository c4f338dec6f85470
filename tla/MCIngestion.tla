---------------------------- MODULE MCIngestion ----------------------------
(* Small windows, with and without a closure, and a provider whose answers *)
(* are late, short, empty, repeated, out of order, with gaps, or beyond    *)
(* the server's time.                                                      *)
EXTENDS Ingestion

Whole(o) == [open |-> o, form |-> "whole"]
Partial(o) == [open |-> o, form |-> "partial"]
Wholes(opens) == [k \in DOMAIN opens |-> Whole(opens[k])]

Open(first, last) == [start |-> first, end |-> last, closures |-> <<>>]
Outage == [start |-> 0, end |-> 4, closures |-> <<[gap |-> 1, resumed |-> 3]>>]

MCRequests == {Open(0, 4), Outage}
MCAnswers ==
  {Wholes(opens) : opens \in {<<>>, <<0>>, <<3>>, <<0, 1>>, <<1, 0>>, <<0, 2>>, <<1, 2>>}}
    \cup {<<Whole(0), Partial(1)>>, <<Whole(0), Partial(1), Whole(3)>>}

\* Two windows that end after the last candle that is completed.
MCWindows == {Open(0, 3), Open(0, 4)}
MCShortAnswers == {Wholes(<<0>>), Wholes(<<1, 2>>)}
=============================================================================
