------------------------------ MODULE MCGetopt ------------------------------
(* Instances of Getopt for TLC.                                            *)
EXTENDS Getopt

\* The words of short command lines: operands, options alone and in a bundle,
\* with an argument in the element or behind it, long options as the table of
\* main has them (in full, abbreviated, ambiguous, with and without "=") and
\* one as usage() has it.
Operand  == <<"x">>
Words ==
  { Operand, <<"-", "-">>, <<"-">>, <<"-", "v">>, <<"-", "f", "c">>, <<"-", "m", "2">>,
    <<"-", "d", "h">>, <<"-", "z", "v">>,
    <<"-", "-", "-", "-", "ver", "bose">>, <<"-", "-", "-", "-", "ver">>,
    <<"-", "-", "-", "-", "pidfile">>, <<"-", "-", "-", "-", "cfgfile", "=", "y">>,
    <<"-", "-", "-", "-", "debug", "=", "y">>, <<"-", "-", "debug">> }

\* Longer ones, for exchange: operands, an option, one that takes the next word.
FewWords == { Operand, <<"-", "v">>, <<"-", "m">> }

MaxShort == 3
MaxLong  == 6
MCCommandLines ==
  UNION {[1..n -> Words] : n \in 0..MaxShort} \cup UNION {[1..n -> FewWords] : n \in 0..MaxLong}

MCNumeral == [s \in {"0", "2", "10"} |-> IF s = "0" THEN 0 ELSE IF s = "2" THEN 2 ELSE 10]
=============================================================================
