--------------------------- MODULE PolicyRequest ---------------------------
(***************************************************************************)
(* What one policy request promises its client, whatever the threads       *)
(* behind it do: a request that can be read is put to every configured     *)
(* RBL, and once all of them have answered the client is told to REJECT,   *)
(* with the RBLs that list it in the order of the configuration, when      *)
(* their weights add up to the threshold, and DUNNO otherwise.  A request  *)
(* that cannot be read gets DUNNO.  Module Lookup implements it.           *)
(***************************************************************************)
EXTENDS Sums

CONSTANTS
  RBLs,                \* 1..n, the configured RBLs in the order of the file
  Weight,              \* their weights
  Threshold            \* the score that rejects

VARIABLES
  phase,               \* "read", "lookup", "bad" or "replied"
  answer,              \* what each RBL has answered so far
  verdict,             \* the reply's action
  named                \* the RBLs the reply names

vars == <<phase, answer, verdict, named>>

Init ==
  /\ phase = "read"
  /\ answer = [r \in RBLs |-> "pending"]
  /\ verdict = "none"
  /\ named = <<>>

\* The request arrives, and it can be used or not.
Read ==
  /\ phase = "read"
  /\ phase' \in {"lookup", "bad"}
  /\ UNCHANGED <<answer, verdict, named>>

\* An RBL answers.
Answer(r) ==
  /\ phase = "lookup"
  /\ answer[r] = "pending"
  /\ \E a \in {"listed", "clean"} : answer' = [answer EXCEPT ![r] = a]
  /\ UNCHANGED <<phase, verdict, named>>

Listed == {r \in RBLs : answer[r] = "listed"}
Points == [r \in RBLs |-> IF r \in Listed THEN Weight[r] ELSE 0]

\* The client gets its reply.
Reply ==
  /\ \/ phase = "bad" /\ verdict' = "DUNNO"
     \/ /\ phase = "lookup"
        /\ \A r \in RBLs : answer[r] # "pending"
        /\ verdict' = IF Total(Points) >= Threshold THEN "REJECT" ELSE "DUNNO"
  /\ phase' = "replied"
  /\ IF verdict' = "REJECT" THEN Ascending(named', Listed) ELSE named' = <<>>
  /\ UNCHANGED answer

Next == Read \/ Reply \/ \E r \in RBLs : Answer(r)

Spec == Init /\ [][Next]_vars
=============================================================================
