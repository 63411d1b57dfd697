----------------------------- MODULE MCStartup -----------------------------
(* Instances of Startup for TLC.                                           *)
EXTENDS Startup

\* In the background and in the foreground, with an option in long form, and
\* for the version.
MCCommandLines == {<<>>, <<<<"-", "f">>>>, <<<<"--", "foreground">>>>, <<<<"-", "V">>>>}
MCShort == {<<>>, <<<<"-", "f">>>>}

MCAllFaults == {"cfg_read", "res_init", "socket", "stdin", "getaddrinfo", "fork"}
MCNoFaults == {}
=============================================================================
