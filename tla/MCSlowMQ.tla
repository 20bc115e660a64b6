------------------------------ MODULE MCSlowMQ ------------------------------
(***************************************************************************)
(* Model checking SlowMQ: the properties of the broker, and its refinement *)
(* of PubSub.                                                              *)
(***************************************************************************)
EXTENDS SlowMQ, TLC

CONSTANTS c1, c2, c3

Everyone == {c1, c2, c3}
Two      == {c1, c2}
Nobody   == {}
OneSlow  == {c1}

\* Both wildcards, so that one topic is found under two patterns, beside a
\* pattern that validate_topic_pattern refuses; and one pattern alone.
Overlapping == {<<"a", ">">>, <<"*", "b">>, <<">", "b">>}
OnePattern  == {<<"a", ">">>}
OneTopic   == {<<"a", "b">>}

Symmetry == Permutations(Conns)
=============================================================================
