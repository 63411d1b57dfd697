------------------------------ MODULE MCStats ------------------------------
(* Instances of Stats for TLC.                                             *)
EXTENDS Stats

Tv(s, m) == [sec |-> s, msec |-> m]

\* Requests that begin and end in the same second.
MCShort == {<<Tv(0, 0), Tv(0, 3)>>, <<Tv(0, 0), Tv(0, 5)>>}
=============================================================================
