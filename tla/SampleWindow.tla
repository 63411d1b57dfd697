---------------------------- MODULE SampleWindow ----------------------------
(***************************************************************************)
(* What a statistics ring of stats.c promises: it holds the newest samples *)
(* in the order in which they were recorded, at most RINGBUFFERS of them,  *)
(* and now and then it is emptied as a whole.                              *)
(***************************************************************************)
EXTENDS Integers, Sequences

CONSTANTS RINGBUFFERS, Samples

VARIABLE window

Init == window = <<>>

\* The oldest sample makes room for the new one.
Newest(s) == SubSeq(s, IF Len(s) > RINGBUFFERS THEN 2 ELSE 1, Len(s))

Record == \E d \in Samples : window' = Newest(Append(window, d))

Clear == window' = <<>>

Next == Record \/ Clear

Spec == Init /\ [][Next]_window
=============================================================================
