-------------------------------- MODULE Sums --------------------------------
(***************************************************************************)
(* What the specifications of a verdict need: what a sequence of weights   *)
(* adds up to, and the names of RBLs in the order of the configuration.    *)
(***************************************************************************)
EXTENDS Integers, Sequences

Total(s) ==
  LET sum[n \in 0..Len(s)] == IF n = 0 THEN 0 ELSE sum[n - 1] + s[n]
  IN sum[Len(s)]

\* The sequence has the numbers of S, in ascending order.
Ascending(s, S) ==
  /\ {s[i] : i \in DOMAIN s} = S
  /\ \A i, j \in DOMAIN s : i < j => s[i] < s[j]
=============================================================================
