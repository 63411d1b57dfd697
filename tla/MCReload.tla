------------------------------ MODULE MCReload ------------------------------
(* Instances of Reload for TLC.                                            *)
EXTENDS Reload

\* Texts that are right: a last line without its end, white space, comments,
\* octal; a comment that is longer than the buffer, hexadecimal, the line ends
\* of another system.
GoodTexts == {
  <<"\n", "#", "a", "\n", " ", "b", " ", " ", "0", "1", "0", " ", "#", "1", "\n",
    " ", "\n", "a", "\t", "3", "2", "7", "6", "7">>,
  <<"#", "a", "a", "a", "a", "a", "a", "a", "a", "a", "a", "b", " ", "0", "x", "1", "F", "\r", "\n">> }

\* No weight, weights that are none or out of range, nothing at all.
BadTexts == {
  <<"a", " ", "5", "\n", "b", "\n">>,
  <<"a", " ", "5", "\n", "b", " ", "0", "\n">>,
  <<"a", " ", "3", "2", "7", "6", "8", "\n">>,
  <<"a", " ", "-", "5", "\n">>,
  <<"a", " ", "0", "x", "\n", "b", " ", "5", "\n">>,
  <<"a", " ", "5", " ", "6", "\n">>,
  <<>> }

MCTexts == GoodTexts \cup BadTexts
=============================================================================
