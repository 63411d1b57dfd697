------------------------------- MODULE MCPool -------------------------------
(* Instances of Pool for TLC: up to three connections, and what may fail.  *)
EXTENDS Pool

MCNoFaults  == {}
MCAllFaults == {"pthread_create", "malloc", "accept"}
=============================================================================
