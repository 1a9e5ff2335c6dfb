--------------------------- MODULE MCAdaptiveLoop ---------------------------
(* Three entries of a table, each with its own constellation and code, and  *)
(* channels that call for the slowest, the middle and the fastest.          *)
EXTENDS AdaptiveLoop

MCLut == [m \in 0 .. 2 |-> <<0, 13, 18>>[m + 1]]
MCMcs == [m \in 0 .. 2 |-> <<Scheme(1, 1), Scheme(2, 2), Scheme(3, 3)>>[m + 1]]

MCSnrs == {12, 15, 20}
=============================================================================
