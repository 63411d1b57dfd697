------------------------------ MODULE MCLookup ------------------------------
(* Instances of Lookup for TLC.                                            *)
EXTENDS Lookup

MCNoFaults  == {}
MCThread    == {"pthread_create"}
MCAllFaults == {"pthread_create", "malloc"}

\* Two RBLs that reach the threshold exactly, and one that does not matter
\* to the first and tips the second.
MCWeight == <<60, 40, 59>>
=============================================================================
