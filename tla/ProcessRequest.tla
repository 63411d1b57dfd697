--------------------------- MODULE ProcessRequest ---------------------------
(***************************************************************************)
(* A whole request in one thread: process_request of server.c, from its    *)
(* read_request, which is the one of worker.c, to its close(conn).  It is  *)
(* the handler of a daemon without threads; nothing in the program calls   *)
(* it.  The RBLs are asked one after the other, in the order of the file,  *)
(* and no more of them once the score is reached.  Its reply goes out in   *)
(* two or three writes, whose results nobody looks at.                     *)
(*                                                                         *)
(* Each symbol of an address stands for a number and the dot behind it.    *)
(***************************************************************************)
EXTENDS ReadRequest, Sums, SequencesExt

CONSTANTS
  Weight,              \* the weights of the RBLs, in the order of the file
  Length,              \* strlen of their names
  Threshold,           \* 100 in the code
  Octets,              \* numbers of an address, 4 in the code
  Answers,             \* what gethostbyname may return: a family and addresses
  MallocFails          \* may malloc fail?

RBLs == 1..Len(Weight)

ASSUME WeightAssumption == Weight \in Seq(Nat \ {0})
ASSUME LengthAssumption == Length \in [RBLs -> Nat \ {0}]
ASSUME ThresholdAssumption == Threshold \in Nat \ {0}
ASSUME OctetsAssumption == Octets \in Nat \ {0}
ASSUME MallocAssumption == MallocFails \in BOOLEAN

VARIABLES
  proc,                \* "running" or "crashed"
  ppc,                 \* where process_request is
  err,                 \* the request is of no use
  rdn,                 \* the address in reverse
  rbl,                 \* the RBL the loop is at
  score, reply, replen,
  out,                 \* what is still to be written
  told,                \* what has been written
  asked                \* history: the queries, each with its answer

localVars  == <<err, rdn, rbl, score, reply, replen>>
handleVars == <<proc, ppc, localVars, out, told, asked>>
allVars    == <<vars, handleVars>>

\* The locals of process_request have their types, and the reader's.
HandleTypeOK ==
  /\ TypeOK
  /\ proc \in {"running", "crashed"}
  /\ ppc \in {"read", "prepare", "loop", "found", "answer", "write", "done"}
  /\ err \in BOOLEAN
  /\ rdn = NULL \/ rdn \in [1..Octets -> Digits]
  /\ rbl \in 1..(Len(Weight) + 1)
  /\ score \in Nat /\ replen \in Nat
  /\ reply \in Seq(RBLs)
  /\ Len(out) <= 3 /\ Len(told) <= 3
  /\ Len(asked) <= Len(Weight)

HandleInit ==
  /\ Init
  /\ proc = "running" /\ ppc = "read" /\ err = FALSE /\ rdn = NULL
  /\ rbl = 1 /\ score = 0 /\ reply = <<>> /\ replen = 0
  /\ out = <<>> /\ told = <<>> /\ asked = <<>>

At(p) == proc = "running" /\ ppc = p

-----------------------------------------------------------------------------
\* Without a request, or without an address in it, there is an error.
Requested ==
  /\ At("read") /\ rpc = "done"
  /\ err' = (client = NULL)
  /\ ppc' = IF err' THEN "answer" ELSE "prepare"
  /\ UNCHANGED <<vars, proc, rdn, rbl, score, reply, replen, out, told, asked>>

\* sscanf takes the numbers at the start of the address.
sscanf(s) == SubSeq(s, 1, First({k \in 0..Len(s) : k = Len(s) \/ s[k + 1] \notin Digits}))

Reversed(s) == Reverse(SubSeq(sscanf(s), 1, Octets))

\* Mutated form of Prepare: the numbers are not counted.
PrepareAny ==
  /\ At("prepare")
  /\ rdn' = Reverse(sscanf(client))
  /\ ppc' = "loop" /\ err' = FALSE
  /\ UNCHANGED <<vars, proc, rbl, score, reply, replen, out, told, asked>>

\* malloc(strlen(client) + 1), sscanf, sprintf.
Prepare ==
  /\ At("prepare")
  /\ \/ /\ Len(sscanf(client)) >= Octets
        /\ rdn' = Reversed(client)
        /\ ppc' = "loop" /\ err' = FALSE
     \/ /\ Len(sscanf(client)) < Octets \/ MallocFails
        /\ ppc' = "answer" /\ err' = TRUE /\ rdn' = NULL
  /\ UNCHANGED <<vars, proc, rbl, score, reply, replen, out, told, asked>>

\* Mutated form of More: all RBLs are asked.
MoreToTheEnd == rbl <= Len(Weight)

\* rbl && score < 100
More == rbl <= Len(Weight) /\ score < Threshold

\* An IPv4 address in 127.0.0.0/8 is among those of the answer.
Lists(a) == a.type = "AF_INET" /\ \E i \in DOMAIN a.list : a.list[i] = "127"

\* gethostbyname, and a look at all it returns.
Lookup ==
  /\ At("loop") /\ More
  /\ \E a \in Answers :
       /\ asked' = Append(asked, [rdn |-> rdn, rbl |-> rbl, answer |-> a])
       /\ IF Lists(a) THEN ppc' = "found" /\ rbl' = rbl
                      ELSE ppc' = "loop" /\ rbl' = rbl + 1
  /\ UNCHANGED <<vars, proc, err, rdn, score, reply, replen, out, told>>

\* Mutated form of NameRoom: the separator is one character.
NameRoomShort(r) == Length[r] + 1

\* The name with its separator, or with the zero at the end.
NameRoom(r) == Length[r] + (IF reply = <<>> THEN 1 ELSE 2)

\* The name goes to the end of the reply, the weight into the score; a reply
\* that malloc or realloc has no room for is written to all the same.
Found ==
  /\ At("found")
  /\ \/ /\ reply' = Append(reply, rbl)
        /\ replen' = replen + NameRoom(rbl)
        /\ score' = score + Weight[rbl]
        /\ rbl' = rbl + 1
        /\ ppc' = "loop" /\ proc' = proc
     \/ /\ MallocFails
        /\ proc' = "crashed"
        /\ UNCHANGED <<ppc, rbl, score, reply, replen>>
  /\ UNCHANGED <<vars, err, rdn, out, told, asked>>

\* Every RBL has been asked, or the score is reached.
Asked ==
  /\ At("loop") /\ ~More
  /\ ppc' = "answer"
  /\ UNCHANGED <<vars, proc, localVars, out, told, asked>>

\* Mutated form of Answer: the threshold itself does not reject.
AnswerAbove ==
  /\ At("answer")
  /\ out' = IF ~err /\ score > Threshold THEN <<"REJECT", reply, "END">>
                                         ELSE <<"DUNNO", "END">>
  /\ ppc' = "write"
  /\ UNCHANGED <<vars, proc, localVars, told, asked>>

\* REJECT or DUNNO.
Answer ==
  /\ At("answer")
  /\ out' = IF ~err /\ score >= Threshold THEN <<"REJECT", reply, "END">>
                                          ELSE <<"DUNNO", "END">>
  /\ ppc' = "write"
  /\ UNCHANGED <<vars, proc, localVars, told, asked>>

\* One write.  To a client that is gone it fails and is lost: server() has
\* SIGPIPE blocked, as all signals but three.
Write ==
  /\ At("write") /\ out # <<>>
  /\ out' = Tail(out) /\ told' = Append(told, Head(out))
  /\ UNCHANGED <<vars, proc, ppc, localVars, asked>>

\* The buffers are freed, and the connection is closed.
Finish ==
  /\ At("write") /\ out = <<>>
  /\ ppc' = "done"
  /\ UNCHANGED <<vars, proc, localVars, out, told, asked>>

-----------------------------------------------------------------------------
process_request ==
  Requested \/ Prepare \/ Lookup \/ Found \/ Asked \/ Answer \/ Write \/ Finish

Ended == (ppc = "done" \/ proc # "running") /\ UNCHANGED allVars

\* The reader, the client and the time take their steps as in ReadRequest:
\* server.c has a read_request and a parse_request of its own, word for word
\* those of worker.c.
ReadStep  == read_request /\ UNCHANGED handleVars
ParseStep == Parse /\ UNCHANGED handleVars

HandleNext ==
  \/ ReadStep \/ ParseStep
  \/ (Environment \/ TimePasses) /\ UNCHANGED handleVars
  \/ process_request
  \/ Ended

HandleSpec == HandleInit /\ [][HandleNext]_allVars

\* The thread runs, time passes, and gethostbyname returns; the client owes
\* nothing, and no signal has to come.
HandleFairSpec ==
  /\ HandleSpec
  /\ WF_allVars((SelectReady \/ SelectTimeout \/ ReadSome \/ ReadEof \/ Parse)
                  /\ UNCHANGED handleVars)
  /\ WF_allVars(TimePasses /\ UNCHANGED handleVars)
  /\ WF_allVars(process_request)

-----------------------------------------------------------------------------
\* What each answer adds to the score, and the RBLs whose answers add to it.
Points  == [i \in DOMAIN asked |-> IF Lists(asked[i].answer) THEN Weight[i] ELSE 0]
Listing == {i \in DOMAIN asked : Lists(asked[i].answer)}

\* The address that the client set out to send.
Intended == Address(SubSeq(request, First(Places(request, KEY, 1)) + 1, Len(request)))

(* However the request came in, in pieces, cut by a timeout or a reset,    *)
(* its address is never a cut one, and what the RBLs are asked about is    *)
(* the client's whole address, reversed.                                   *)
AsksForClient ==
  /\ AddressIsWhole
  /\ \A i \in DOMAIN asked : \A k \in 1..Octets : asked[i].rdn[k] = Intended[Octets + 1 - k]

(* Each RBL is asked once, in the order of the file, and none when those   *)
(* before it have settled the verdict.                                     *)
AsksInOrder ==
  \A i \in DOMAIN asked :
    /\ asked[i].rbl = i
    /\ Total(SubSeq(Points, 1, i - 1)) < Threshold

(* The verdict is the one that asking all of them would give: REJECT with  *)
(* those that made up the score, DUNNO only when all were asked and what   *)
(* they add up to is too little, or when there is no address to ask for.   *)
VerdictIsPolicy ==
  told # <<>> =>
    \/ /\ told[1] = "REJECT"
       /\ Total(Points) >= Threshold
       /\ Len(told) > 1 => Ascending(told[2], Listing)
    \/ /\ told[1] = "DUNNO"
       /\ IF err THEN asked = <<>>
          ELSE Len(asked) = Len(Weight) /\ Total(Points) < Threshold

(* The names and their separators fit into the reply, and nothing of it is *)
(* unused.                                                                 *)
ReplyFits ==
  reply # <<>> =>
    replen = Total([i \in DOMAIN reply |-> Length[reply[i]]]) + 2 * (Len(reply) - 1) + 1

(* Every request is read to some end, also when the client stops sending,  *)
(* and answered in full, unless memory runs out for the reply.             *)
Handled ==
  <>(\/ ppc = "done" /\ told # <<>> /\ told[Len(told)] = "END"
     \/ proc = "crashed" /\ MallocFails)
=============================================================================
