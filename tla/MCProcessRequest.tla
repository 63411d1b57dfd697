-------------------------- MODULE MCProcessRequest --------------------------
(* Instances of ProcessRequest for TLC: requests with one attribute before *)
(* or after the address, with either line end, unfinished ones and odd     *)
(* ones, with three numbers in the address, two, one or none.              *)
EXTENDS ProcessRequest

O == "other"
MCRequests == {
  <<O, LF, KEY, "1", "2", LF, LF>>,
  <<KEY, "1", "2", CR, LF, O, CR, LF, CR, LF>>,
  <<KEY, "1", "2", LF, O, LF, LF, LF>>,
  <<KEY, "1", "2", LF, O, CR>>,
  <<O, KEY, "1", "2">>,
  <<LF, LF, KEY, "1", LF, LF>>,
  <<KEY, "2", "1", "1", O, LF, O, LF, LF>>,
  <<CR, LF, KEY, "2", CR, LF>>,
  <<O, O, O, O, O, O, O, O, O, LF, LF>>,
  <<>> }

MCFaults == {"realloc", "malloc"}

\* The first two reach the threshold exactly, the last two fall short by one.
MCWeight == <<60, 40, 59>>
MCLength == <<5, 7, 4>>

MCAnswers == {
  [type |-> "none",     list |-> <<>>],
  [type |-> "AF_INET6", list |-> <<"127">>],
  [type |-> "AF_INET",  list |-> <<"elsewhere">>],
  [type |-> "AF_INET",  list |-> <<"elsewhere", "127", "127">>] }
=============================================================================
