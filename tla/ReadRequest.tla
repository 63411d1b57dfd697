---------------------------- MODULE ReadRequest ----------------------------
(***************************************************************************)
(* How a worker reads a request off its connection (read_request of        *)
(* worker.c) and finds the client's address in it (parse_request), while   *)
(* the client sends it in pieces of any size, stops, or closes.            *)
(*                                                                         *)
(* A request is a sequence of symbols: CR, LF, KEY for the text            *)
(* "client_address=", digits of an address, and anything else.  The buffer *)
(* always holds the first bread symbols of it, so it is not a variable.    *)
(***************************************************************************)
EXTENDS Integers, Sequences

CONSTANTS
  Requests,            \* what the client may set out to send
  Digits,              \* the symbols of an address
  KEY, CR, LF,         \* the attribute's name and the two line characters
  CHUNK,               \* by how much the buffer grows
  Faults               \* calls that may fail

Symbols == Digits \cup {KEY, CR, LF, "other"}

ASSUME ChunkAssumption == CHUNK \in Nat /\ CHUNK >= 2
ASSUME SymbolsAssumption == CR # LF /\ {CR, LF} \cap (Digits \cup {KEY}) = {}
ASSUME RequestsAssumption == Requests \subseteq Seq(Symbols)
ASSUME FaultsAssumption == Faults \subseteq {"realloc", "malloc"}

VARIABLES
  request,             \* what the client sets out to send
  sent,                \* how much of it has been sent
  closed,              \* has the client closed its side?
  expired,             \* are the ten seconds of tv used up?
  rpc,                 \* where read_request is
  bufsize, bread,      \* its variables; buf is NULL when bufsize = 0
  how,                 \* why it returned
  client               \* what parse_request returned

clientVars == <<request, sent, closed>>
vars == <<clientVars, expired, rpc, bufsize, bread, how, client>>

NULL == <<>>

\* The counters stay inside the buffer and the request.
TypeOK ==
  /\ request \in Requests
  /\ sent \in 0..Len(request)
  /\ closed \in BOOLEAN /\ expired \in BOOLEAN
  /\ rpc \in {"select", "read", "parse", "done"}
  /\ bufsize \in Nat /\ bread \in 0..sent
  /\ how \in {"none", "complete", "timeout", "eof", "error"}
  /\ client \in Seq(Symbols)

Init ==
  /\ request \in Requests
  /\ sent = 0 /\ closed = FALSE /\ expired = FALSE
  /\ rpc = "select" /\ bufsize = 0 /\ bread = 0 /\ how = "none"
  /\ client = NULL

buf == SubSeq(request, 1, bread)

-----------------------------------------------------------------------------
(*                               The client                                *)

Send ==
  /\ ~closed
  /\ \E n \in (sent + 1)..Len(request) : sent' = n
  /\ UNCHANGED <<request, closed, expired, rpc, bufsize, bread, how, client>>

Close ==
  /\ ~closed
  /\ closed' = TRUE
  /\ UNCHANGED <<request, sent, expired, rpc, bufsize, bread, how, client>>

\* select takes the time it waits off tv: ten seconds are all there is.
TimePasses ==
  /\ rpc = "select"
  /\ ~expired
  /\ expired' = TRUE
  /\ UNCHANGED <<clientVars, rpc, bufsize, bread, how, client>>

-----------------------------------------------------------------------------
(*                              read_request                               *)

Readable == bread < sent \/ closed

\* Without a buffer worker_th takes the request for unreadable.
Return(h) ==
  /\ how' = h
  /\ rpc' = IF h = "error" \/ bufsize = 0 THEN "done" ELSE "parse"

\* select: the connection is readable; the buffer grows when there is less
\* than a CHUNK left in it.
SelectReady ==
  /\ rpc = "select"
  /\ Readable
  /\ \/ /\ bufsize' = IF bufsize - bread < CHUNK THEN bufsize + CHUNK ELSE bufsize
        /\ rpc' = "read" /\ how' = how
     \/ /\ bufsize - bread < CHUNK
        /\ "realloc" \in Faults
        /\ Return("error") /\ bufsize' = bufsize
  /\ UNCHANGED <<clientVars, expired, bread, client>>

\* Mutated form of SelectTimeout: it waits once more instead of returning.
SelectTimeoutRetries ==
  /\ rpc = "select"
  /\ ~Readable /\ expired
  /\ expired' = FALSE
  /\ UNCHANGED <<clientVars, rpc, bufsize, bread, how, client>>

\* select: nothing came within the time.
SelectTimeout ==
  /\ rpc = "select"
  /\ ~Readable /\ expired
  /\ Return("timeout")
  /\ UNCHANGED <<clientVars, expired, bufsize, bread, client>>

\* select: a signal handler ran on this thread (SIGTERM, SIGINT or SIGUSR1).
SelectInterrupted ==
  /\ rpc = "select"
  /\ Return("error")
  /\ UNCHANGED <<clientVars, expired, bufsize, bread, client>>

Endings == {<<CR, LF, CR, LF>>, <<LF, LF>>}

EndsWith(s, e) ==
  Len(e) <= Len(s) /\ \A i \in 1..Len(e) : s[Len(s) - Len(e) + i] = e[i]

\* Mutated form of EndsRequest: the empty line is not asked for.
EndsRequestAtLine(s) == EndsWith(s, <<LF>>)

EndsRequest(s) == \E e \in Endings : EndsWith(s, e)

\* With fewer symbols than an ending has, the comparison starts before the
\* buffer, and whatever is in memory there may complete the ending.
MayEndRequest(s) == \E e \in Endings : Len(s) < Len(e) /\ EndsWith(e, s)

\* Mutated form of Room: no room is kept for the terminating zero.
RoomToTheBrim == bufsize - bread

\* What read may store: bufsize - bread - 1.
Room == bufsize - bread - 1

\* read: what is there, as far as the buffer goes.
ReadSome ==
  /\ rpc = "read"
  /\ bread < sent
  /\ bread' = IF sent - bread < Room THEN sent ELSE bread + Room
  /\ LET s == SubSeq(request, 1, bread') IN
       \/ (EndsRequest(s) \/ MayEndRequest(s)) /\ Return("complete")
       \/ ~EndsRequest(s) /\ rpc' = "select" /\ how' = how
  /\ UNCHANGED <<clientVars, expired, bufsize, client>>

\* read: end of file, or an error such as a reset, which drops what is unread.
ReadEof ==
  /\ rpc = "read"
  /\ closed
  /\ Return("eof")
  /\ UNCHANGED <<clientVars, expired, bufsize, bread, client>>

-----------------------------------------------------------------------------
(*                              parse_request                              *)

\* The places of symbol c in s from place k on.
Places(s, c, k) == {p \in k..Len(s) : s[p] = c}

First(S) == CHOOSE p \in S : \A q \in S : p <= q

\* Mutated form of LineEnd: without a line end the value goes to the end.
LineEndOrBufferEnd(s, k) ==
  IF Places(s, CR, k) # {} THEN {First(Places(s, CR, k))}
  ELSE IF Places(s, LF, k) # {} THEN {First(Places(s, LF, k))} ELSE {Len(s) + 1}

\* strchr(c, '\r'), or else strchr(c, '\n')
LineEnd(s, k) ==
  IF Places(s, CR, k) # {} THEN {First(Places(s, CR, k))}
  ELSE IF Places(s, LF, k) # {} THEN {First(Places(s, LF, k))} ELSE {}

parse_request(s) ==
  IF Places(s, KEY, 1) = {} THEN NULL
  ELSE LET k == First(Places(s, KEY, 1)) IN
       IF LineEnd(s, k) = {} THEN NULL
       ELSE SubSeq(s, k + 1, First(LineEnd(s, k)) - 1)

\* What it finds, or NULL when malloc has no room for it.
Parse ==
  /\ rpc = "parse"
  /\ \/ client' = parse_request(buf)
     \/ "malloc" \in Faults /\ client' = NULL
  /\ rpc' = "done"
  /\ UNCHANGED <<clientVars, expired, bufsize, bread, how>>

-----------------------------------------------------------------------------
read_request ==
  SelectReady \/ SelectTimeout \/ SelectInterrupted \/ ReadSome \/ ReadEof

Environment == Send \/ Close

Done == rpc = "done" /\ UNCHANGED vars

Next == read_request \/ Parse \/ Environment \/ TimePasses \/ Done

Spec == Init /\ [][Next]_vars

-----------------------------------------------------------------------------
(* The zero that ends the string always has a place in the buffer, however *)
(* the request comes in, and there is room to read when read is called.    *)
ZeroFits ==
  /\ bufsize > 0 => bread < bufsize
  /\ rpc = "read" => Room > 0

\* The symbol at place k ends a line with nothing in it.
EmptyLine(k) ==
  /\ request[k] = LF
  /\ \E j \in 0..(k - 1) :
       /\ j = 0 \/ request[j] = LF
       /\ \A i \in (j + 1)..(k - 1) : request[i] = CR

\* A request as a client should send it: lines that end alike, the last of
\* them, and no other, empty.
WellFormed ==
  /\ \/ CR \notin {request[k] : k \in 1..Len(request)}
     \/ \A k \in 1..Len(request) : request[k] = LF <=> k > 1 /\ request[k - 1] = CR
  /\ request # <<>>
  /\ request[1] \notin {CR, LF}
  /\ \A k \in 1..Len(request) : EmptyLine(k) <=> k = Len(request)

(* A request that is well formed is taken as complete when all of it has   *)
(* been read and not before, whatever the pieces it came in: the reader    *)
(* never stops early, and never waits for more.                            *)
WholeRequest ==
  WellFormed => /\ how = "complete" => bread = Len(request)
                /\ rpc = "select" => bread < Len(request)

\* The address at the start of s: sscanf stops at the first other symbol.
Address(s) ==
  SubSeq(s, 1, First({k \in 0..Len(s) : k = Len(s) \/ s[k + 1] \notin Digits}))

(* Whatever ends the request, a timeout in mid-line included, the address  *)
(* that is looked up is the one the client set out to send, or none is.    *)
AddressIsWhole ==
  client # NULL =>
    Address(client) = Address(SubSeq(request, First(Places(request, KEY, 1)) + 1, Len(request)))
=============================================================================
