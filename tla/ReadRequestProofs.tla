------------------------- MODULE ReadRequestProofs -------------------------
(***************************************************************************)
(* The request reader is right for every chunk size and every request,     *)
(* whatever the pieces it comes in, and so is it inside process_request,   *)
(* which asks the RBLs about the client's address and no other, asks no    *)
(* more of them than it needs, and tells the verdict of their answers.     *)
(***************************************************************************)
EXTENDS ProcessRequest, SequenceTheorems, NaturalsInduction, WellFoundedInduction, TLAPS

\* read is called with room in the buffer, and a buffer has room for its zero.
Roomy ==
  /\ IF bufsize = 0 THEN bread = 0 ELSE bread < bufsize
  /\ rpc = "read" => bufsize - bread >= CHUNK

-----------------------------------------------------------------------------
(*                      First, prefixes, parse_request                     *)

(* First picks the least number of a set.                                  *)
LEMMA FirstIsLeast ==
  ASSUME NEW S, S \subseteq Nat, S # {}
  PROVE  First(S) \in S /\ \A q \in S : First(S) <= q
<1>1. PICK x \in S : \A y \in S : ~(<<y, x>> \in OpToRel(<, Nat))
  BY NatLessThanWellFounded, WFMin, Zenon
<1>2. \A y \in S : x <= y
  <2>1. \A y \in S : y < x => <<y, x>> \in OpToRel(<, Nat)
    BY <1>1, Zenon DEF OpToRel
  <2>2. x \in Nat /\ \A y \in S : y \in Nat /\ ~(y < x)
    BY <1>1, <2>1, Zenon
  <2> QED
    BY <2>2
<1>3. x \in S
  BY <1>1, Zenon
<1> QED
  BY <1>2, <1>3 DEF First

LEMMA FirstOfOne == ASSUME NEW p \in Nat PROVE First({p}) = p
<1>1. First({p}) \in {p}
  BY FirstIsLeast
<1> QED
  BY <1>1

(* The buffer is the first bread symbols of the request.                   *)
LEMMA Prefix ==
  ASSUME NEW S, NEW r \in Seq(S), NEW n \in 0..Len(r)
  PROVE  /\ SubSeq(r, 1, n) \in Seq(S)
         /\ Len(SubSeq(r, 1, n)) = n
         /\ \A i \in 1..n : SubSeq(r, 1, n)[i] = r[i]
<1>1. \A i \in 1..n : r[i] \in S
  OBVIOUS
<1> QED
  BY <1>1, SubSeqProperties

(* A piece of a sequence, by its places.                                   *)
LEMMA Piece ==
  ASSUME NEW S, NEW r \in Seq(S), NEW n \in 0..Len(r), NEW k \in 0..n
  PROVE  /\ SubSeq(r, k + 1, n) \in Seq(S)
         /\ Len(SubSeq(r, k + 1, n)) = n - k
         /\ \A i \in 1..(n - k) : SubSeq(r, k + 1, n)[i] = r[k + i]
<1>1. \A i \in (k + 1)..n : r[i] \in S
  OBVIOUS
<1>2. k + 1 \in Int /\ n \in Int
  OBVIOUS
<1> DEFINE t == SubSeq(r, k + 1, n)
<1>3. /\ t \in Seq(S)
      /\ Len(t) = IF k + 1 <= n THEN n - (k + 1) + 1 ELSE 0
      /\ \A i \in 1..(n - (k + 1) + 1) : t[i] = r[(k + 1) + i - 1]
  BY <1>1, <1>2, SubSeqProperties
<1> HIDE DEF t
<1>4. Len(t) = n - k /\ \A i \in 1..(n - k) : t[i] = r[k + i]
  BY <1>3
<1> QED
  BY <1>3, <1>4 DEF t

(* What parse_request finds: a value of symbols that follow the key and    *)
(* end before a line character.                                            *)
LEMMA ParseFinds ==
  ASSUME NEW s \in Seq(Symbols), parse_request(s) # NULL
  PROVE  \E k, e \in 1..Len(s) :
            /\ Places(s, KEY, 1) # {} /\ k = First(Places(s, KEY, 1))
            /\ k <= e /\ s[e] \in {CR, LF}
            /\ parse_request(s) = SubSeq(s, k + 1, e - 1)
<1> DEFINE k == First(Places(s, KEY, 1))
           e == First(LineEnd(s, k))
<1>1. \A c : \A m \in Nat : Places(s, c, m) \subseteq m..Len(s)
  BY DEF Places
<1>2. /\ Places(s, KEY, 1) # {}
      /\ LineEnd(s, k) # {}
      /\ parse_request(s) = SubSeq(s, k + 1, e - 1)
  BY DEF parse_request
<1>3. k \in 1..Len(s)
  BY <1>1, <1>2, FirstIsLeast
<1>4. \E c \in {CR, LF} :
         Places(s, c, k) # {} /\ LineEnd(s, k) = {First(Places(s, c, k))}
  BY <1>2 DEF LineEnd
<1>5. PICK c \in {CR, LF} :
         Places(s, c, k) # {} /\ LineEnd(s, k) = {First(Places(s, c, k))}
  BY <1>4
<1> DEFINE p == First(Places(s, c, k))
<1>6. p \in Places(s, c, k)
  <2>1. Places(s, c, k) \subseteq Nat
    BY <1>1, <1>3
  <2> QED
    BY <2>1, <1>5, FirstIsLeast
<1>7. p \in k..Len(s) /\ s[p] = c
  BY <1>6 DEF Places
<1>8. e = p
  <2>1. LineEnd(s, k) = {p}
    BY <1>5
  <2>2. p \in Nat
    BY <1>3, <1>7
  <2>3. First({p}) = p
    <3> HIDE DEF p
    <3> QED
      BY <2>2, FirstOfOne
  <2> QED
    BY <2>1, <2>3, Zenon
<1>9. e \in 1..Len(s) /\ k <= e /\ s[e] \in {CR, LF}
  <2> HIDE DEF k, e, p
  <2> QED
    BY <1>3, <1>7, <1>8
<1>10. k = First(Places(s, KEY, 1))
  OBVIOUS
<1> HIDE DEF k, e
<1> QED
  BY <1>2, <1>3, <1>9, <1>10

-----------------------------------------------------------------------------
(*                         The inductive invariant                         *)

Judged ==
  /\ rpc \in {"select", "read"} => how = "none" /\ ~EndsRequest(buf)
  /\ how = "complete" => EndsRequest(buf) \/ MayEndRequest(buf)

\* A request is complete only after something has been read.
CompleteIsRead == how = "complete" => bread > 0

Parsed == client # NULL => rpc = "done" /\ client = parse_request(buf)

IInv == TypeOK /\ Roomy /\ Judged /\ CompleteIsRead /\ Parsed

LEMMA InitInv == Init => IInv
<1> SUFFICES ASSUME Init PROVE IInv
  OBVIOUS
<1> USE DEF Init
<1>0. request \in Seq(Symbols)
  BY RequestsAssumption
<1>1. Len(buf) = 0
  BY <1>0, Prefix DEF buf
<1>2. ~EndsRequest(buf)
  BY <1>1 DEF EndsRequest, EndsWith, Endings
<1>3. TypeOK
  <2>1. client \in Seq(Symbols)
    BY EmptySeq DEF NULL
  <2>2. sent \in 0..Len(request) /\ bread \in 0..sent /\ bufsize \in Nat
    BY <1>0
  <2> QED
    BY <2>1, <2>2 DEF TypeOK
<1>4. Roomy
  BY DEF Roomy
<1>5. Judged
  BY <1>2 DEF Judged
<1>6. CompleteIsRead /\ Parsed
  BY DEF CompleteIsRead, Parsed
<1> QED
  BY <1>3, <1>4, <1>5, <1>6, Zenon DEF IInv

(* A call of select keeps the invariant.                                   *)
LEMMA SelectKeeps ==
  ASSUME IInv, SelectReady \/ SelectTimeout \/ SelectInterrupted
  PROVE  IInv'
<1> USE ChunkAssumption DEF IInv, TypeOK, Roomy, Judged, CompleteIsRead, Parsed, clientVars, buf
<1>1. CASE SelectReady
  BY <1>1 DEF SelectReady, Return
<1>2. CASE SelectTimeout
  BY <1>2 DEF SelectTimeout, Return
<1>3. CASE SelectInterrupted
  BY <1>3 DEF SelectInterrupted, Return
<1> QED
  BY <1>1, <1>2, <1>3

(* A call of read keeps the invariant.                                     *)
LEMMA ReadKeeps ==
  ASSUME IInv, ReadSome \/ ReadEof
  PROVE  IInv'
<1> USE ChunkAssumption DEF IInv, TypeOK, Roomy, Judged, CompleteIsRead, Parsed, clientVars, buf
<1>1. CASE ReadSome
  <2>1. bread' \in 0..sent' /\ bread' < bufsize /\ bufsize # 0
    BY <1>1 DEF ReadSome, Room
  <2>2. client = NULL /\ client' = client
    BY <1>1 DEF ReadSome
  <2>0. /\ rpc' \in {"select", "parse", "done"}
        /\ how' \in {"none", "complete", "timeout", "eof", "error"}
        /\ UNCHANGED <<request, sent, closed, expired, bufsize, client>>
    <3>1. \/ rpc' \in {"parse", "done"} /\ how' = "complete"
          \/ rpc' = "select" /\ how' = how
      BY <1>1 DEF ReadSome, Return
    <3>2. UNCHANGED <<request, sent, closed, expired, bufsize, client>>
      BY <1>1 DEF ReadSome
    <3> QED
      BY <3>1, <3>2
  <2>3. TypeOK' /\ Roomy'
    <3>1. Roomy'
      BY <2>0, <2>1
    <3> QED
      BY <2>0, <2>1, <3>1
  <2>4. Judged'
    BY <1>1 DEF ReadSome, Return
  <2>5. Parsed'
    BY <2>2, Zenon
  <2>6. CompleteIsRead'
    BY <1>1, <2>1 DEF ReadSome, Room
  <2> QED
    BY <2>3, <2>4, <2>5, <2>6, Zenon
<1>2. CASE ReadEof
  BY <1>2 DEF ReadEof, Return
<1> QED
  BY <1>1, <1>2

(* parse_request returns symbols of the request.                           *)
LEMMA ParseKeeps == ASSUME IInv, Parse PROVE IInv'
<1> USE DEF IInv, TypeOK, Roomy, Judged, CompleteIsRead, Parsed, clientVars, buf
<1>1. request \in Seq(Symbols) /\ bread \in 0..Len(request)
  BY RequestsAssumption
<1>2. buf \in Seq(Symbols)
  BY <1>1, Prefix
<1>3. client' \in Seq(Symbols)
  <2>1. CASE client' = NULL
    BY <2>1 DEF NULL
  <2>2. CASE client' = parse_request(buf) /\ client' # NULL
    <3> HIDE DEF buf
    <3>1. PICK k, e \in 1..Len(buf) : k <= e /\ parse_request(buf) = SubSeq(buf, k + 1, e - 1)
      BY <1>2, <2>2, ParseFinds, Zenon
    <3>2. \A i \in (k + 1)..(e - 1) : buf[i] \in Symbols
      BY <1>2, <3>1
    <3> QED
      BY <2>2, <3>1, <3>2, SubSeqProperties
  <2> QED
    BY <2>1, <2>2 DEF Parse
<1> QED
  BY <1>3 DEF Parse

(* Every step keeps the invariant.                                         *)
LEMMA NextInv == IInv /\ [Next]_vars => IInv'
<1> SUFFICES ASSUME IInv, [Next]_vars PROVE IInv'
  OBVIOUS
<1>1. CASE Environment \/ TimePasses \/ UNCHANGED vars
  <2> USE DEF IInv, TypeOK, Roomy, Judged, CompleteIsRead, Parsed, vars, clientVars, buf
  <2>1. CASE Send
    BY <2>1 DEF Send
  <2>2. CASE Close
    BY <2>2 DEF Close
  <2>3. CASE TimePasses
    BY <2>3 DEF TimePasses
  <2>4. CASE UNCHANGED vars
    BY <2>4
  <2> QED
    BY <1>1, <2>1, <2>2, <2>3, <2>4, Zenon DEF Environment
<1> QED
  BY <1>1, SelectKeeps, ReadKeeps, ParseKeeps, Zenon DEF Next, read_request, Done

LEMMA Invariant == Spec => []IInv
BY InitInv, NextInv, PTL DEF Spec

-----------------------------------------------------------------------------
(*                              The theorems                               *)

(* The counters of read_request stay inside the buffer and the request.    *)
THEOREM TypeCorrect == Spec => []TypeOK
<1>1. IInv => TypeOK
  BY DEF IInv
<1> QED
  BY <1>1, Invariant, PTL

(* The zero has a place in the buffer and read has room, for every CHUNK   *)
(* of two or more.                                                         *)
THEOREM RoomForTheZero == Spec => []ZeroFits
<1>1. IInv => ZeroFits
  BY ChunkAssumption DEF IInv, TypeOK, Roomy, ZeroFits, Room
<1> QED
  BY <1>1, Invariant, PTL

-----------------------------------------------------------------------------
(*                          The end of the request                         *)

(* What read_request takes for the end of a request is an empty line, if   *)
(* the request does not start with a line character.                       *)
LEMMA EndingIsEmptyLine ==
  ASSUME NEW n \in 0..Len(request), request \in Seq(Symbols),
         request # <<>>, request[1] \notin {CR, LF},
         LET s == SubSeq(request, 1, n) IN EndsRequest(s) \/ MayEndRequest(s)
  PROVE  n > 0 => EmptyLine(n)
<1> DEFINE s == SubSeq(request, 1, n)
<1>0. Len(s) = n /\ \A i \in 1..n : s[i] = request[i]
  BY Prefix
<1> SUFFICES ASSUME n > 0 PROVE EmptyLine(n)
  OBVIOUS
<1> HIDE DEF s
<1>1. CASE EndsWith(s, <<LF, LF>>)
  <2>1. n >= 2 /\ request[n] = LF /\ request[n - 1] = LF
    BY <1>0, <1>1 DEF EndsWith
  <2>2. (n - 1) \in 0..(n - 1) /\ (((n - 1) + 1)..(n - 1)) = {}
    BY <2>1
  <2> QED
    BY <2>1, <2>2 DEF EmptyLine
<1>2. CASE EndsWith(s, <<CR, LF, CR, LF>>)
  <2>1. n >= 4 /\ request[n] = LF /\ request[n - 1] = CR /\ request[n - 2] = LF
    BY <1>0, <1>2 DEF EndsWith
  <2>2. (n - 2) \in 0..(n - 1) /\ ((n - 2) + 1)..(n - 1) = {n - 1}
    BY <2>1
  <2> QED
    BY <2>1, <2>2 DEF EmptyLine
<1>3. CASE \E e \in Endings : Len(s) < Len(e) /\ EndsWith(e, s)
  <2>1. PICK e \in Endings : Len(s) < Len(e) /\ EndsWith(e, s)
    BY <1>3
  <2>2. /\ Len(e) \in {2, 4}
        /\ \A i \in 1..Len(e) : e[i] \in {CR, LF}
    BY DEF Endings
  <2>3. s[1] \in {CR, LF}
    <3>1. s[1] = e[Len(e) - n + 1]
      BY <1>0, <2>1 DEF EndsWith
    <3>2. Len(e) - n + 1 \in 1..Len(e)
      BY <1>0, <2>1, <2>2
    <3> QED
      BY <2>2, <3>1, <3>2
  <2> QED
    BY <1>0, <2>3
<1> QED
  BY <1>1, <1>2, <1>3 DEF s, EndsRequest, MayEndRequest, Endings

(* And an empty line at the end of a well formed request is taken for it.  *)
LEMMA EmptyLineEnds ==
  ASSUME request \in Seq(Symbols), WellFormed
  PROVE  EndsRequest(SubSeq(request, 1, Len(request)))
<1> DEFINE n == Len(request)
<1>1. n \in Nat /\ n > 0
  BY EmptySeq DEF WellFormed
<1>2. EmptyLine(n)
  BY <1>1 DEF WellFormed
<1>3. SubSeq(request, 1, n) = request
  BY SubSeqFull
<1>4. PICK j \in 0..(n - 1) : /\ j = 0 \/ request[j] = LF
                              /\ \A i \in (j + 1)..(n - 1) : request[i] = CR
  BY <1>2 DEF EmptyLine
<1>5. request[n] = LF /\ request[1] \notin {CR, LF}
  BY <1>2 DEF EmptyLine, WellFormed
<1>6. j # 0 /\ request[j] = LF
  BY <1>1, <1>4, <1>5
<1>7. CASE CR \notin {request[k] : k \in 1..n}
  <2>1. j = n - 1
    BY <1>1, <1>4, <1>6, <1>7
  <2> QED
    BY <1>1, <1>3, <1>5, <1>6, <2>1 DEF EndsRequest, EndsWith, Endings
<1>8. CASE \A k \in 1..n : request[k] = LF <=> k > 1 /\ request[k - 1] = CR
  <2>1. n > 1 /\ request[n - 1] = CR /\ j > 1 /\ request[j - 1] = CR
    BY <1>1, <1>4, <1>5, <1>6, <1>8
  <2>2. j # n - 1
    BY <1>6, <2>1, SymbolsAssumption
  <2>3. j = n - 2
    <3> SUFFICES ASSUME j < n - 2 PROVE FALSE
      BY <1>1, <1>4, <2>2
    <3>1. request[n - 2] = CR
      BY <1>1, <1>4, <1>6
    <3>2. request[n - 1] = LF
      BY <1>1, <1>4, <1>8, <3>1
    <3> QED
      BY <2>1, <3>2, SymbolsAssumption
  <2> QED
    BY <1>1, <1>3, <1>5, <1>6, <2>1, <2>3, SMTT(30) DEF EndsRequest, EndsWith, Endings
<1> QED
  BY <1>7, <1>8 DEF WellFormed

(* A well formed request is complete when all of it has been read, and not *)
(* before, for every CHUNK and every length.                               *)
THEOREM RequestIsWhole == Spec => []WholeRequest
<1>1. IInv => WholeRequest
  <2> SUFFICES ASSUME IInv, WellFormed
               PROVE  /\ how = "complete" => bread = Len(request)
                      /\ rpc = "select" => bread < Len(request)
    BY DEF WholeRequest
  <2>1. /\ request \in Seq(Symbols) /\ bread \in 0..Len(request)
        /\ Len(request) \in Nat
    BY RequestsAssumption DEF IInv, TypeOK
  <2>2. ASSUME how = "complete" PROVE bread = Len(request)
    <3>1. EndsRequest(buf) \/ MayEndRequest(buf)
      BY <2>2 DEF IInv, Judged
    <3>2. bread > 0 => EmptyLine(bread)
      BY <2>1, <3>1, EndingIsEmptyLine DEF WellFormed, buf
    <3>3. bread > 0
      BY <2>2 DEF IInv, CompleteIsRead
    <3> QED
      BY <2>1, <3>2, <3>3 DEF WellFormed
  <2>3. ASSUME rpc = "select" PROVE bread < Len(request)
    <3>1. ~EndsRequest(buf)
      BY <2>3 DEF IInv, Judged
    <3>2. bread # Len(request)
      BY <2>1, <3>1, EmptyLineEnds DEF buf
    <3> QED
      BY <2>1, <3>2
  <2> QED
    BY <2>2, <2>3
<1> QED
  BY <1>1, Invariant, PTL

-----------------------------------------------------------------------------
(*                               The address                               *)

(* A prefix that is cut before a symbol that is no digit has the address   *)
(* of the whole.                                                           *)
LEMMA AddressOfPrefix ==
  ASSUME NEW r \in Seq(Symbols), NEW s \in Seq(Symbols), Len(s) < Len(r),
         \A i \in 1..Len(s) : s[i] = r[i], r[Len(s) + 1] \notin Digits
  PROVE  Address(s) = Address(r)
<1> DEFINE Ends(x) == {k \in 0..Len(x) : k = Len(x) \/ x[k + 1] \notin Digits}
           a == First(Ends(s))
           b == First(Ends(r))
<1>0. Len(s) \in Nat /\ Len(r) \in Nat
  OBVIOUS
<1>1. /\ Ends(s) \subseteq 0..Len(s) /\ Len(s) \in Ends(s)
      /\ Ends(r) \subseteq 0..Len(r) /\ Len(r) \in Ends(r)
  BY <1>0
<1>2. a \in Ends(s) /\ \A q \in Ends(s) : a <= q
  <2>1. Ends(s) \subseteq Nat /\ Ends(s) # {}
    BY <1>0, <1>1
  <2> HIDE DEF Ends
  <2> QED
    BY <2>1, FirstIsLeast
<1>3. b \in Ends(r) /\ \A q \in Ends(r) : b <= q
  <2>1. Ends(r) \subseteq Nat /\ Ends(r) # {}
    BY <1>0, <1>1
  <2> HIDE DEF Ends
  <2> QED
    BY <2>1, FirstIsLeast
<1> HIDE DEF a, b
<1>4. a \in Ends(r)
  <2>1. a \in 0..Len(s) /\ (a = Len(s) \/ s[a + 1] \notin Digits)
    BY <1>2
  <2>2. r[a + 1] \notin Digits
    BY <1>0, <2>1
  <2> QED
    BY <1>0, <2>1, <2>2
<1>5. b \in Ends(s)
  <2>1. b \in 0..Len(r) /\ (b = Len(r) \/ r[b + 1] \notin Digits)
    BY <1>3
  <2>2. a \in 0..Len(s) /\ b <= a
    BY <1>2, <1>3, <1>4
  <2>3. b \in 0..Len(s)
    BY <1>0, <2>1, <2>2
  <2>4. b = Len(s) \/ s[b + 1] \notin Digits
    BY <1>0, <2>1, <2>3
  <2> QED
    BY <2>3, <2>4
<1>6. a = b /\ a \in 0..Len(s) /\ a \in 0..Len(r)
  BY <1>0, <1>2, <1>3, <1>4, <1>5
<1>7. SubSeq(s, 1, a) = SubSeq(r, 1, a)
  <2>1. /\ SubSeq(s, 1, a) \in Seq(Symbols) /\ Len(SubSeq(s, 1, a)) = a
        /\ \A i \in 1..a : SubSeq(s, 1, a)[i] = s[i]
    BY <1>6, Prefix
  <2>2. /\ SubSeq(r, 1, a) \in Seq(Symbols) /\ Len(SubSeq(r, 1, a)) = a
        /\ \A i \in 1..a : SubSeq(r, 1, a)[i] = r[i]
    BY <1>6, Prefix
  <2>3. \A i \in 1..a : s[i] = r[i]
    BY <1>0, <1>6
  <2> QED
    BY <2>1, <2>2, <2>3, SeqEqual
<1> QED
  BY <1>6, <1>7 DEF a, b, Address

(* The address that is looked up is the one the client set out to send,    *)
(* wherever a timeout or the end of the connection cut the request.        *)
THEOREM AddressNotCut == Spec => []AddressIsWhole
<1>1. IInv => AddressIsWhole
  <2> SUFFICES ASSUME IInv, client # NULL
               PROVE  Address(client) =
                        Address(SubSeq(request, First(Places(request, KEY, 1)) + 1, Len(request)))
    BY DEF AddressIsWhole
  <2> DEFINE K == First(Places(request, KEY, 1))
             rest == SubSeq(request, K + 1, Len(request))
  <2>1. /\ request \in Seq(Symbols) /\ bread \in 0..Len(request)
        /\ Len(request) \in Nat /\ client \in Seq(Symbols)
    BY RequestsAssumption DEF IInv, TypeOK
  <2>2. /\ buf \in Seq(Symbols) /\ Len(buf) = bread
        /\ \A i \in 1..bread : buf[i] = request[i]
    BY <2>1, Prefix DEF buf
  <2>3. client = parse_request(buf)
    BY DEF IInv, Parsed
  <2>4. PICK k, e \in 1..Len(buf) :
          /\ Places(buf, KEY, 1) # {} /\ k = First(Places(buf, KEY, 1))
          /\ k <= e /\ buf[e] \in {CR, LF}
          /\ client = SubSeq(buf, k + 1, e - 1)
    BY <2>2, <2>3, ParseFinds, Zenon
  <2>5. k \in Places(buf, KEY, 1) /\ \A q \in Places(buf, KEY, 1) : k <= q
    <3>1. Places(buf, KEY, 1) \subseteq Nat
      BY DEF Places
    <3> QED
      BY <2>4, <3>1, FirstIsLeast
  <2>6. k \in Places(request, KEY, 1)
    BY <2>1, <2>2, <2>4, <2>5 DEF Places
  <2>7. K \in Places(request, KEY, 1) /\ \A q \in Places(request, KEY, 1) : K <= q
    <3>1. Places(request, KEY, 1) \subseteq Nat
      BY DEF Places
    <3> QED
      BY <2>6, <3>1, FirstIsLeast
  <2> HIDE DEF K
  <2>8. K = k
    <3>1. K <= k /\ K \in 1..Len(request) /\ request[K] = KEY
      BY <2>6, <2>7 DEF Places
    <3>2. K \in Places(buf, KEY, 1)
      BY <2>1, <2>2, <2>4, <3>1 DEF Places
    <3> QED
      BY <2>4, <2>5, <3>1, <3>2
  <2>9. k < e /\ request[e] \notin Digits /\ e <= bread
    <3>1. buf[k] = KEY
      BY <2>5 DEF Places
    <3> QED
      BY <2>1, <2>2, <2>4, <3>1, SymbolsAssumption
  <2>10. /\ Len(client) = e - 1 - k
         /\ \A i \in 1..(e - 1 - k) : client[i] = buf[k + i]
    <3>1. e - 1 \in 0..Len(buf) /\ k \in 0..(e - 1)
      BY <2>2, <2>4, <2>9
    <3>2. /\ Len(SubSeq(buf, k + 1, e - 1)) = (e - 1) - k
          /\ \A i \in 1..((e - 1) - k) : SubSeq(buf, k + 1, e - 1)[i] = buf[k + i]
      BY <2>2, <3>1, Piece
    <3> QED
      BY <2>4, <3>2
  <2>11. /\ rest \in Seq(Symbols) /\ Len(rest) = Len(request) - k
         /\ \A i \in 1..(Len(request) - k) : rest[i] = request[k + i]
    <3>1. k \in 0..Len(request)
      BY <2>1, <2>2, <2>4
    <3> QED
      BY <2>1, <2>8, <3>1, Piece
  <2> HIDE DEF rest
  <2>0. /\ k \in Nat /\ e \in Nat /\ e <= Len(request)
        /\ e - k \in 1..(Len(request) - k) /\ k + (e - k) = e
    BY <2>1, <2>2, <2>4, <2>9
  <2>12. Len(client) < Len(rest) /\ rest[Len(client) + 1] \notin Digits
    <3>1. Len(client) + 1 = e - k
      BY <2>0, <2>10
    <3>2. rest[e - k] = request[e]
      BY <2>0, <2>11
    <3> QED
      BY <2>0, <2>1, <2>9, <2>11, <3>1, <3>2
  <2>13. \A i \in 1..Len(client) : client[i] = rest[i]
    <3> TAKE i \in 1..Len(client)
    <3>1. i \in 1..(e - 1 - k) /\ i \in 1..(Len(request) - k) /\ k + i \in 1..bread
      BY <2>0, <2>1, <2>9, <2>10
    <3> QED
      BY <2>2, <2>10, <2>11, <3>1
  <2>14. Address(client) = Address(rest)
    BY <2>1, <2>11, <2>12, <2>13, AddressOfPrefix
  <2> QED
    BY <2>14 DEF rest, K
<1> QED
  BY <1>1, Invariant, PTL

-----------------------------------------------------------------------------
(*                             process_request                             *)

LEMMA HandleSteps == [HandleNext]_allVars => [Next]_vars
<1> SUFFICES ASSUME [HandleNext]_allVars PROVE [Next]_vars
  OBVIOUS
<1>1. CASE read_request \/ Parse \/ Environment \/ TimePasses
  BY <1>1 DEF Next
<1>2. CASE process_request \/ Ended \/ UNCHANGED allVars
  BY <1>2 DEF process_request, Ended, allVars, Requested, Prepare, Lookup, Found, Asked, Answer,
              Write, Finish
<1> QED
  BY <1>1, <1>2 DEF HandleNext, ReadStep, ParseStep

(* process_request reads its request as the specification of the reader    *)
(* says, so that all that holds of the reader holds in it.                 *)
THEOREM HandlerReads == HandleSpec => Spec
<1>1. HandleInit => Init
  BY DEF HandleInit
<1> QED
  BY <1>1, HandleSteps, PTL DEF HandleSpec, Spec

\* What the RBLs are to be asked about.
Right(r) == \A k \in 1..Octets : r[k] = Intended[Octets + 1 - k]

\* An address is looked at only when all of it has been read.
HandleInv ==
  /\ ppc # "read" => rpc = "done"
  /\ ppc = "prepare" => client # NULL
  /\ ppc \in {"loop", "found"} => Right(rdn)
  /\ \A i \in DOMAIN asked : Right(asked[i].rdn)

LEMMA ReversedIsRight ==
  ASSUME client \in Seq(Symbols), client # NULL, AddressIsWhole, Len(sscanf(client)) >= Octets
  PROVE  Right(Reversed(client))
<1> DEFINE a == sscanf(client)
           n == First({k \in 0..Len(client) : k = Len(client) \/ client[k + 1] \notin Digits})
<1>1. a = Intended
  BY DEF AddressIsWhole, Intended, sscanf, Address
<1>2. n \in 0..Len(client)
  <2> DEFINE S == {k \in 0..Len(client) : k = Len(client) \/ client[k + 1] \notin Digits}
  <2>1. S \subseteq Nat /\ Len(client) \in S /\ S \subseteq 0..Len(client)
    OBVIOUS
  <2>2. First(S) \in S
    <3> HIDE DEF S
    <3> QED
      BY <2>1, FirstIsLeast
  <2> QED
    BY <2>1, <2>2
<1>3. a \in Seq(Symbols) /\ Len(a) = n
  <2> HIDE DEF n
  <2>1. SubSeq(client, 1, n) \in Seq(Symbols) /\ Len(SubSeq(client, 1, n)) = n
    BY <1>2, Prefix
  <2> QED
    BY <2>1 DEF n, sscanf
<1> HIDE DEF a, n
<1>4. /\ SubSeq(a, 1, Octets) \in Seq(Symbols) /\ Len(SubSeq(a, 1, Octets)) = Octets
      /\ \A i \in 1..Octets : SubSeq(a, 1, Octets)[i] = a[i]
  <2>1. Octets \in 0..Len(a)
    BY <1>2, <1>3, OctetsAssumption DEF a
  <2> QED
    BY <1>3, <2>1, Prefix
<1>5. Reversed(client) = [i \in 1..Octets |-> SubSeq(a, 1, Octets)[(Octets - i) + 1]]
  BY <1>4 DEF Reversed, Reverse, a
<1>6. ASSUME NEW k \in 1..Octets
      PROVE  Reversed(client)[k] = Intended[Octets + 1 - k]
  <2>1. Octets + 1 - k \in 1..Octets /\ (Octets - k) + 1 = Octets + 1 - k
    BY OctetsAssumption
  <2> QED
    BY <1>1, <1>4, <1>5, <2>1
<1> QED
  BY <1>6 DEF Right

LEMMA HandleNextInv ==
  ASSUME IInv, AddressIsWhole, HandleInv, [HandleNext]_allVars
  PROVE  HandleInv'
<1>1. [Next]_vars
  BY HandleSteps
<1>2. request' = request
  BY <1>1 DEF Next, Done, vars, clientVars, read_request, SelectReady, SelectTimeout,
         SelectInterrupted, ReadSome, ReadEof, Parse, Environment, Send, Close, TimePasses
<1>3. Intended' = Intended
  BY <1>2 DEF Intended
<1>4. CASE (read_request \/ Parse \/ Environment \/ TimePasses) /\ UNCHANGED handleVars
  <2>1. UNCHANGED <<ppc, rdn, asked>>
    BY <1>4 DEF handleVars, localVars
  <2>2. rpc = "done" => rpc' = "done" /\ client' = client
    BY <1>4 DEF read_request, SelectReady, SelectTimeout, SelectInterrupted, ReadSome, ReadEof,
                Parse, Environment, Send, Close, TimePasses
  <2>3. (\A i \in DOMAIN asked : Right(asked[i].rdn))'
    BY <1>3, <2>1 DEF HandleInv, Right
  <2>4. (ppc \in {"loop", "found"} => Right(rdn))'
    BY <1>3, <2>1 DEF HandleInv, Right
  <2> QED
    BY <2>1, <2>2, <2>3, <2>4 DEF HandleInv, NULL
<1>5. CASE Requested
  <2>1. /\ rpc' = "done" /\ asked' = asked /\ ppc' \in {"answer", "prepare"}
        /\ ppc' = "prepare" => client' # NULL
    BY <1>5 DEF Requested, At, vars, NULL
  <2>2. (\A i \in DOMAIN asked : Right(asked[i].rdn))'
    BY <1>3, <2>1 DEF HandleInv, Right
  <2> QED
    BY <2>1, <2>2 DEF HandleInv
<1>6. CASE Prepare
  <2>1. /\ ppc = "prepare" /\ rpc' = rpc /\ asked' = asked
        /\ \/ ppc' = "answer"
           \/ /\ ppc' = "loop" /\ rdn' = Reversed(client)
              /\ Len(sscanf(client)) >= Octets
    BY <1>6 DEF Prepare, At, vars
  <2>2. (\A i \in DOMAIN asked : Right(asked[i].rdn))'
    BY <1>3, <2>1 DEF HandleInv, Right
  <2>3. client \in Seq(Symbols)
    BY DEF IInv, TypeOK
  <2>4. ppc' = "loop" => Right(Reversed(client))
    BY <2>1, <2>3, ReversedIsRight DEF HandleInv
  <2>5. (ppc \in {"loop", "found"} => Right(rdn))'
    BY <1>3, <2>1, <2>4 DEF Right
  <2> QED
    BY <2>1, <2>2, <2>5 DEF HandleInv
<1>7. CASE Lookup
  <2>1. PICK a \in Answers : asked' = Append(asked, [rdn |-> rdn, rbl |-> rbl, answer |-> a])
    BY <1>7 DEF Lookup
  <2>2. /\ ppc = "loop" /\ ppc' \in {"loop", "found"} /\ rpc' = rpc /\ rdn' = rdn
    BY <1>7 DEF Lookup, At, vars
  <2>3. \A i \in DOMAIN asked' :
          (i \in DOMAIN asked /\ asked'[i] = asked[i]) \/ asked'[i].rdn = rdn
    BY <2>1
  <2>4. Right(rdn)
    BY <2>2 DEF HandleInv
  <2>5. (\A i \in DOMAIN asked : Right(asked[i].rdn))'
    BY <1>3, <2>3, <2>4 DEF HandleInv, Right
  <2>6. (ppc \in {"loop", "found"} => Right(rdn))'
    BY <1>3, <2>2, <2>4 DEF Right
  <2> QED
    BY <2>2, <2>5, <2>6 DEF HandleInv
<1>8. CASE Found \/ Asked \/ Answer \/ Write \/ Finish \/ Ended \/ UNCHANGED allVars
  <2>1. /\ UNCHANGED <<rpc, client, rdn, asked>>
        /\ \/ ppc' = ppc
           \/ ppc = "found" /\ ppc' = "loop"
           \/ ppc # "read" /\ ppc' \in {"answer", "write", "done"}
    BY <1>8 DEF Found, Asked, Answer, Write, Finish, Ended, At, allVars, vars, handleVars, localVars
  <2>2. (\A i \in DOMAIN asked : Right(asked[i].rdn))'
    BY <1>3, <2>1 DEF HandleInv, Right
  <2>3. (ppc \in {"loop", "found"} => Right(rdn))'
    BY <1>3, <2>1 DEF HandleInv, Right
  <2> QED
    BY <2>1, <2>2, <2>3 DEF HandleInv, NULL
<1> QED
  BY <1>4, <1>5, <1>6, <1>7, <1>8 DEF HandleNext, ReadStep, ParseStep, process_request

(* Whatever pieces the request comes in and whatever ends it, the RBLs are *)
(* asked about the reverse of the whole address that the client sends.     *)
THEOREM ClientIsAskedFor == HandleSpec => []AsksForClient
<1>1. HandleInit => HandleInv
  BY DEF HandleInit, HandleInv, Init
<1>2. IInv /\ AddressIsWhole /\ HandleInv /\ [HandleNext]_allVars => HandleInv'
  BY HandleNextInv
<1>3. AddressIsWhole /\ HandleInv => AsksForClient
  BY DEF HandleInv, AsksForClient, Right
<1> QED
  BY <1>1, <1>2, <1>3, HandlerReads, Invariant, AddressNotCut, PTL DEF HandleSpec
-----------------------------------------------------------------------------
(*                    Sums and ascending sequences                        *)

(* A set that has zero and the successor of each of its numbers has all.   *)
LEMMA NatSet ==
  ASSUME NEW S, 0 \in S, \A n \in Nat : n \in S => n + 1 \in S
  PROVE  Nat \subseteq S
<1> SUFFICES ASSUME Nat \ S # {} PROVE FALSE
  OBVIOUS
<1>1. PICK x \in Nat \ S : \A y \in Nat \ S : ~(<<y, x>> \in OpToRel(<, Nat))
  BY NatLessThanWellFounded, WFMin, Zenon
<1>2. x # 0 /\ x \in Nat
  BY <1>1
<1>3. x - 1 \in Nat /\ x - 1 < x /\ (x - 1) + 1 = x
  BY <1>2
<1>4. <<x - 1, x>> \in OpToRel(<, Nat)
  BY <1>2, <1>3, Zenon DEF OpToRel
<1>5. x - 1 \in S
  BY <1>1, <1>3, <1>4, Zenon
<1> QED
  BY <1>1, <1>3, <1>5

\* The partial sums of s, up to the m-th.
IsPartial(f, s, m) == f = [n \in 0..m |-> IF n = 0 THEN 0 ELSE f[n - 1] + s[n]]

(* There are partial sums, and they are numbers.                           *)
LEMMA PartialExists ==
  ASSUME NEW s \in Seq(Int), NEW m \in 0..Len(s)
  PROVE  \E f \in [0..m -> Int] : IsPartial(f, s, m)
<1> DEFINE S == {k \in Nat : k <= Len(s) => \E f \in [0..k -> Int] : IsPartial(f, s, k)}
<1>1. 0 \in S
  <2>1. IsPartial([n \in 0..0 |-> 0], s, 0)
    BY DEF IsPartial
  <2>2. [n \in 0..0 |-> 0] \in [0..0 -> Int]
    OBVIOUS
  <2> QED
    BY <2>1, <2>2
<1>2. ASSUME NEW k \in Nat, k \in S
      PROVE  k + 1 \in S
  <2> SUFFICES ASSUME k + 1 <= Len(s)
               PROVE  \E g \in [0..(k + 1) -> Int] : IsPartial(g, s, k + 1)
    OBVIOUS
  <2>1. PICK f \in [0..k -> Int] : IsPartial(f, s, k)
    BY <1>2
  <2> DEFINE g == [n \in 0..(k + 1) |-> IF n = k + 1 THEN f[k] + s[k + 1] ELSE f[n]]
  <2>2. g \in [0..(k + 1) -> Int]
    BY <2>1
  <2>3. g = [n \in 0..(k + 1) |-> IF n = 0 THEN 0 ELSE g[n - 1] + s[n]]
    <3>1. ASSUME NEW n \in 0..(k + 1)
          PROVE  g[n] = IF n = 0 THEN 0 ELSE g[n - 1] + s[n]
      <4>1. CASE n = k + 1
        <5>1. g[n] = f[k] + s[n] /\ n - 1 = k /\ g[k] = f[k]
          BY <4>1
        <5> QED
          BY <4>1, <5>1
      <4>2. CASE n # k + 1
        <5>1. n \in 0..k
          BY <4>2
        <5>2. f[n] = IF n = 0 THEN 0 ELSE f[n - 1] + s[n]
          BY <2>1, <5>1 DEF IsPartial
        <5>3. n # 0 => n - 1 \in 0..k
          BY <5>1
        <5> QED
          BY <5>1, <5>2, <5>3
      <4> QED
        BY <4>1, <4>2
    <3> QED
      BY <3>1
  <2> QED
    BY <2>2, <2>3 DEF IsPartial
<1>3. Nat \subseteq S
  <2> HIDE DEF S
  <2> QED
    BY <1>1, <1>2, NatSet
<1> QED
  BY <1>3

(* Partial sums of sequences that begin alike are alike.                   *)
LEMMA PartialUnique ==
  ASSUME NEW s \in Seq(Int), NEW t \in Seq(Int), NEW m \in Nat, NEW k \in Nat, NEW f, NEW g,
         IsPartial(f, s, m), IsPartial(g, t, k), m <= k,
         \A n \in 1..m : s[n] = t[n]
  PROVE  \A n \in 0..m : f[n] = g[n]
<1> DEFINE S == {n \in Nat : n <= m => f[n] = g[n]}
<1>0. /\ \A n \in 0..m : f[n] = IF n = 0 THEN 0 ELSE f[n - 1] + s[n]
      /\ \A n \in 0..k : g[n] = IF n = 0 THEN 0 ELSE g[n - 1] + t[n]
  BY DEF IsPartial
<1>1. 0 \in S
  BY <1>0
<1>2. ASSUME NEW n \in Nat, n \in S
      PROVE  n + 1 \in S
  <2> SUFFICES ASSUME n + 1 <= m PROVE f[n + 1] = g[n + 1]
    OBVIOUS
  <2>1. f[n] = g[n] /\ s[n + 1] = t[n + 1]
    BY <1>2
  <2>2. n + 1 # 0 /\ (n + 1) - 1 = n /\ n + 1 \in 0..m /\ n + 1 \in 0..k
    OBVIOUS
  <2>3. f[n + 1] = f[n] + s[n + 1] /\ g[n + 1] = g[n] + t[n + 1]
    BY <1>0, <2>2
  <2> QED
    BY <2>1, <2>3
<1>3. Nat \subseteq S
  <2> HIDE DEF S
  <2> QED
    BY <1>1, <1>2, NatSet
<1> QED
  BY <1>3

(* Total is the last of the partial sums, whichever they are.                *)
LEMMA SumIsPartial ==
  ASSUME NEW s \in Seq(Int), NEW f, IsPartial(f, s, Len(s))
  PROVE  Total(s) = f[Len(s)]
<1> DEFINE g == CHOOSE g : g = [n \in 0..Len(s) |-> IF n = 0 THEN 0 ELSE g[n - 1] + s[n]]
<1>1. g = [n \in 0..Len(s) |-> IF n = 0 THEN 0 ELSE g[n - 1] + s[n]]
  BY DEF IsPartial
<1>2. Total(s) = g[Len(s)]
  BY DEF Total
<1>3. IsPartial(g, s, Len(s))
  <2> HIDE DEF g
  <2> QED
    BY <1>1 DEF IsPartial
<1> HIDE DEF g
<1>4. g[Len(s)] = f[Len(s)]
  BY <1>3, PartialUnique
<1> QED
  BY <1>2, <1>4

LEMMA SumEmpty == Total(<<>>) = 0
<1>1. <<>> \in Seq(Int) /\ Len(<<>>) = 0 /\ 0 \in 0..0
  OBVIOUS
<1>2. PICK f : IsPartial(f, <<>>, 0)
  BY <1>1, PartialExists
<1>3. f[0] = 0
  BY <1>2 DEF IsPartial
<1>4. Total(<<>>) = f[Len(<<>>)]
  BY <1>1, <1>2, SumIsPartial
<1> QED
  BY <1>1, <1>3, <1>4

LEMMA SumType ==
  ASSUME NEW s \in Seq(Int)
  PROVE  Total(s) \in Int
<1>1. PICK f \in [0..Len(s) -> Int] : IsPartial(f, s, Len(s))
  BY PartialExists
<1> QED
  BY <1>1, SumIsPartial

(* A number at the end adds to the sum.                                    *)
LEMMA SumAppend ==
  ASSUME NEW s \in Seq(Int), NEW x \in Int
  PROVE  Total(Append(s, x)) = Total(s) + x
<1> DEFINE t == Append(s, x)
           m == Len(s)
<1>1. t \in Seq(Int) /\ Len(t) = m + 1 /\ m \in Nat /\ t[m + 1] = x /\ \A n \in 1..m : s[n] = t[n]
  OBVIOUS
<1>2. PICK f : IsPartial(f, s, m)
  BY <1>1, PartialExists
<1> HIDE DEF t
<1>3. PICK g : IsPartial(g, t, m + 1)
  BY <1>1, PartialExists
<1>4. f[m] = g[m]
  <2> HIDE DEF m
  <2>1. PICK k \in Nat : k = m + 1
    BY <1>1
  <2>2. IsPartial(g, t, k) /\ m \in Nat /\ m <= k /\ t \in Seq(Int)
    BY <1>1, <1>3, <2>1
  <2>3. \A n \in 1..m : s[n] = t[n]
    BY <1>1
  <2>4. \A n \in 0..m : f[n] = g[n]
    BY <1>2, <2>2, <2>3, PartialUnique, SMTT(30)
  <2> QED
    BY <1>1, <2>4
<1>5. g[m + 1] = g[m] + t[m + 1]
  <2>1. m + 1 \in 0..(m + 1) /\ m + 1 # 0 /\ (m + 1) - 1 = m
    BY <1>1
  <2> QED
    BY <1>3, <2>1 DEF IsPartial
<1>6. Total(s) = f[m] /\ Total(t) = g[m + 1]
  BY <1>1, <1>2, <1>3, SumIsPartial
<1> QED
  BY <1>1, <1>4, <1>5, <1>6 DEF t

(* A number greater than all of an ascending sequence goes to its end.     *)
LEMMA AscendingAppend ==
  ASSUME NEW s \in Seq(Int), NEW S, NEW x \in Int, Ascending(s, S), \A y \in S : y < x
  PROVE  Ascending(Append(s, x), S \cup {x})
<1> DEFINE t == Append(s, x)
           m == Len(s)
<1>1. /\ m \in Nat /\ DOMAIN s = 1..m /\ DOMAIN t = 1..(m + 1)
      /\ t[m + 1] = x /\ \A i \in 1..m : t[i] = s[i]
  OBVIOUS
<1> HIDE DEF t, m
<1>2. \A i \in 1..m : s[i] \in S
  BY <1>1 DEF Ascending
<1>3. {t[i] : i \in DOMAIN t} = S \cup {x}
  <2>1. 1..(m + 1) = (1..m) \cup {m + 1}
    BY <1>1
  <2>2. {s[i] : i \in 1..m} = S
    BY <1>1 DEF Ascending
  <2> QED
    BY <1>1, <2>1, <2>2
<1>4. ASSUME NEW i \in 1..(m + 1), NEW j \in 1..(m + 1), i < j
      PROVE  t[i] < t[j]
  <2>1. CASE j = m + 1
    <3>1. i \in 1..m
      BY <1>1, <1>4, <2>1
    <3> QED
      BY <1>1, <1>2, <2>1, <3>1
  <2>2. CASE j # m + 1
    <3>1. i \in 1..m /\ j \in 1..m
      BY <1>1, <1>4, <2>2
    <3> QED
      BY <1>1, <1>4, <3>1 DEF Ascending
  <2> QED
    BY <2>1, <2>2
<1> QED
  BY <1>1, <1>3, <1>4 DEF Ascending, t

(* The beginnings of a sequence, one number longer, or of a longer one.    *)
LEMMA PrefixGrows ==
  ASSUME NEW T, NEW s \in Seq(T), NEW k \in Nat, k < Len(s)
  PROVE  SubSeq(s, 1, k + 1) = Append(SubSeq(s, 1, k), s[k + 1])
<1>1. /\ SubSeq(s, 1, k) \in Seq(T) /\ Len(SubSeq(s, 1, k)) = k
      /\ \A i \in 1..k : SubSeq(s, 1, k)[i] = s[i]
  BY SubSeqProperties
<1>2. /\ SubSeq(s, 1, k + 1) \in Seq(T) /\ Len(SubSeq(s, 1, k + 1)) = k + 1
      /\ \A i \in 1..(k + 1) : SubSeq(s, 1, k + 1)[i] = s[i]
  BY SubSeqProperties
<1> DEFINE p == SubSeq(s, 1, k)
           q == SubSeq(s, 1, k + 1)
<1>3. s[k + 1] \in T
  OBVIOUS
<1> HIDE DEF p, q
<1>4. /\ Append(p, s[k + 1]) \in Seq(T) /\ Len(Append(p, s[k + 1])) = k + 1
      /\ \A i \in 1..(k + 1) : Append(p, s[k + 1])[i] = IF i <= k THEN p[i] ELSE s[k + 1]
  BY <1>1, <1>3 DEF p
<1>5. \A i \in 1..(k + 1) : Append(p, s[k + 1])[i] = q[i]
  BY <1>1, <1>2, <1>4 DEF p, q
<1>6. q = Append(p, s[k + 1])
  BY <1>2, <1>4, <1>5, SeqEqual DEF q
<1> QED
  BY <1>6 DEF p, q

LEMMA PrefixStays ==
  ASSUME NEW T, NEW s \in Seq(T), NEW x \in T, NEW k \in 0..Len(s)
  PROVE  SubSeq(Append(s, x), 1, k) = SubSeq(s, 1, k)
<1> DEFINE t == Append(s, x)
<1>1. t \in Seq(T) /\ Len(t) = Len(s) + 1 /\ \A i \in 1..Len(s) : t[i] = s[i]
  OBVIOUS
<1> HIDE DEF t
<1>2. /\ SubSeq(s, 1, k) \in Seq(T) /\ Len(SubSeq(s, 1, k)) = k
      /\ \A i \in 1..k : SubSeq(s, 1, k)[i] = s[i]
  BY SubSeqProperties
<1>3. /\ SubSeq(t, 1, k) \in Seq(T) /\ Len(SubSeq(t, 1, k)) = k
      /\ \A i \in 1..k : SubSeq(t, 1, k)[i] = t[i]
  BY <1>1, SubSeqProperties
<1> QED
  BY <1>1, <1>2, <1>3, SeqEqual DEF t

-----------------------------------------------------------------------------
(*                               The verdict                               *)
(*                                                                         *)
(* The score is at all times the sum of what the answers so far give, the  *)
(* reply has the RBLs it is made of, and the loop goes on only while the   *)
(* sum falls short: the score that decides is that of all the answers.     *)

Queries == [rdn : [1..Octets -> Digits], rbl : RBLs, answer : Answers]

Locals ==
  /\ proc \in {"running", "crashed"}
  /\ ppc \in {"read", "prepare", "loop", "found", "answer", "write", "done"}
  /\ err \in BOOLEAN
  /\ rdn = NULL \/ rdn \in [1..Octets -> Digits]
  /\ rbl \in 1..(Len(Weight) + 1)
  /\ score \in Nat /\ replen \in Nat
  /\ reply \in Seq(RBLs)
  /\ asked \in Seq(Queries)

Progress ==
  /\ Len(asked) = IF ppc = "found" THEN rbl ELSE rbl - 1
  /\ ppc = "found" => rbl \in RBLs /\ Lists(asked[rbl].answer)
  /\ ppc \in {"read", "prepare"} \/ err => asked = <<>>
  /\ ppc \in {"loop", "found"} => ~err /\ rdn \in [1..Octets -> Digits]
  /\ ppc \in {"answer", "write", "done"} => err \/ ~More

\* What the score counts already.
Scored == Total(SubSeq(Points, 1, rbl - 1))
Named  == {i \in Listing : i < rbl}

Lengths == [i \in DOMAIN reply |-> Length[reply[i]]]

Scores ==
  /\ AsksInOrder
  /\ score = Scored
  /\ Ascending(reply, Named)
  /\ replen = IF reply = <<>> THEN 0 ELSE Total(Lengths) + 2 * (Len(reply) - 1) + 1

Verdict == IF ~err /\ score >= Threshold THEN <<"REJECT", reply, "END">> ELSE <<"DUNNO", "END">>

\* What has been written and what is still to be written make up the verdict.
Telling ==
  IF ppc \in {"write", "done"}
  THEN \E k \in 0..Len(Verdict) :
         /\ told = SubSeq(Verdict, 1, k)
         /\ out = SubSeq(Verdict, k + 1, Len(Verdict))
  ELSE told = <<>> /\ out = <<>>

AskInv == Locals /\ Progress /\ Scores /\ Telling

LEMMA PointsType ==
  ASSUME asked \in Seq(Queries), Len(asked) <= Len(Weight)
  PROVE  /\ Points \in Seq(Int) /\ Len(Points) = Len(asked)
         /\ \A i \in 1..Len(asked) : Points[i] = IF Lists(asked[i].answer) THEN Weight[i] ELSE 0
<1>1. \A i \in 1..Len(asked) : Weight[i] \in Int
  BY WeightAssumption
<1>2. DOMAIN asked = 1..Len(asked) /\ Len(asked) \in Nat
  OBVIOUS
<1>3. \A i \in 1..Len(asked) : (IF Lists(asked[i].answer) THEN Weight[i] ELSE 0) \in Int
  BY <1>1
<1> QED
  BY <1>2, <1>3 DEF Points

(* One more answer: what it gives goes to the end of the points.           *)
LEMMA PointsGrow ==
  ASSUME asked \in Seq(Queries), Len(asked) < Len(Weight), NEW q \in Queries,
         asked' = Append(asked, q)
  PROVE  /\ Points' = Append(Points, IF Lists(q.answer) THEN Weight[Len(asked) + 1] ELSE 0)
         /\ Listing' = IF Lists(q.answer) THEN Listing \cup {Len(asked) + 1} ELSE Listing
<1> DEFINE n == Len(asked)
           x == IF Lists(q.answer) THEN Weight[n + 1] ELSE 0
<1>1. /\ n \in Nat /\ DOMAIN asked = 1..n /\ DOMAIN asked' = 1..(n + 1)
      /\ asked'[n + 1] = q /\ \A i \in 1..n : asked'[i] = asked[i]
  OBVIOUS
<1>2. /\ Points \in Seq(Int) /\ Len(Points) = n
      /\ \A i \in 1..n : Points[i] = IF Lists(asked[i].answer) THEN Weight[i] ELSE 0
  BY PointsType
<1>3. Append(Points, x) = [i \in 1..(n + 1) |-> IF i = n + 1 THEN x ELSE Points[i]]
  <2> DEFINE u == Append(Points, x)
             m == n + 1
  <2>1. x \in Int
    BY WeightAssumption
  <2>2. /\ u \in Seq(Int) /\ Len(u) = m /\ m \in Nat
        /\ \A i \in 1..m : u[i] = IF i = m THEN x ELSE Points[i]
    BY <1>2, <2>1
  <2> HIDE DEF u, m, x
  <2>3. u = [i \in 1..m |-> u[i]]
    BY <2>2
  <2> QED
    BY <2>2, <2>3 DEF u, m
<1>4. Points' = [i \in 1..(n + 1) |-> IF Lists(asked'[i].answer) THEN Weight[i] ELSE 0]
  BY <1>1 DEF Points
<1>5. ASSUME NEW i \in 1..(n + 1)
      PROVE  (IF Lists(asked'[i].answer) THEN Weight[i] ELSE 0) = IF i = n + 1 THEN x ELSE Points[i]
  <2>1. CASE i = n + 1
    BY <1>1, <2>1
  <2>2. CASE i # n + 1
    <3> HIDE DEF n
    <3>1. i \in 1..n
      BY <1>1, <2>2
    <3> QED
      BY <1>1, <1>2, <2>2, <3>1
  <2> QED
    BY <2>1, <2>2
<1>6. Listing' = IF Lists(q.answer) THEN Listing \cup {n + 1} ELSE Listing
  <2>1. 1..(n + 1) = (1..n) \cup {n + 1} /\ n + 1 \notin 1..n
    BY <1>1
  <2>2. Listing' = {i \in 1..(n + 1) : Lists(asked'[i].answer)}
    BY <1>1 DEF Listing
  <2>3. Listing = {i \in 1..n : Lists(asked[i].answer)}
    BY <1>1 DEF Listing
  <2> HIDE DEF n
  <2> QED
    BY <1>1, <2>1, <2>2, <2>3
<1> QED
  BY <1>3, <1>4, <1>5, <1>6

LEMMA ScoredIsInt ==
  ASSUME NEW s \in Seq(Int), NEW k \in 0..Len(s)
  PROVE  SubSeq(s, 1, k) \in Seq(Int) /\ Total(SubSeq(s, 1, k)) \in Int
<1>1. SubSeq(s, 1, k) \in Seq(Int)
  BY SubSeqProperties
<1> QED
  BY <1>1, SumType

\* The address in reverse is one of digits.
LEMMA ReversedType ==
  ASSUME client \in Seq(Symbols), Len(sscanf(client)) >= Octets
  PROVE  Reversed(client) \in [1..Octets -> Digits]
<1> DEFINE S == {k \in 0..Len(client) : k = Len(client) \/ client[k + 1] \notin Digits}
           n == First(S)
           a == sscanf(client)
<1>1. n \in S /\ \A k \in S : n <= k
  <2>1. S \subseteq Nat /\ S # {}
    OBVIOUS
  <2> HIDE DEF S
  <2> QED
    BY <2>1, FirstIsLeast
<1>2. n \in 0..Len(client) /\ Len(client) \in Nat
  BY <1>1
<1>3. \A i \in 1..n : client[i] \in Digits
  <2> TAKE i \in 1..n
  <2>1. i - 1 \in 0..Len(client) /\ i - 1 < n /\ i - 1 # Len(client) /\ (i - 1) + 1 = i
    BY <1>2
  <2>2. i - 1 \notin S
    <3> HIDE DEF S
    <3> QED
      BY <1>1, <1>2, <2>1
  <2> QED
    BY <2>1, <2>2
<1>4. a = SubSeq(client, 1, n)
  BY DEF sscanf
<1> HIDE DEF S, n, a
<1>5. a \in Seq(Symbols) /\ Len(a) = n /\ \A i \in 1..n : a[i] = client[i]
  BY <1>2, <1>4, Prefix
<1>6. Octets \in 0..Len(a) /\ Octets \in Nat
  BY <1>2, <1>5, OctetsAssumption DEF a
<1>7. /\ SubSeq(a, 1, Octets) \in Seq(Symbols) /\ Len(SubSeq(a, 1, Octets)) = Octets
      /\ \A i \in 1..Octets : SubSeq(a, 1, Octets)[i] = a[i]
  BY <1>5, <1>6, Prefix
<1>8. Reversed(client) = [i \in 1..Octets |-> SubSeq(a, 1, Octets)[(Octets - i) + 1]]
  BY <1>7 DEF Reversed, Reverse, a
<1>9. \A i \in 1..Octets : SubSeq(a, 1, Octets)[(Octets - i) + 1] \in Digits
  <2> TAKE i \in 1..Octets
  <2>1. (Octets - i) + 1 \in 1..Octets /\ (Octets - i) + 1 \in 1..n
    BY <1>2, <1>5, <1>6
  <2> QED
    BY <1>3, <1>5, <1>7, <2>1
<1> QED
  BY <1>8, <1>9

(* Nothing is asked and nothing is scored in the step.                     *)
LEMMA ScoresStay ==
  ASSUME Scores, UNCHANGED <<asked, rbl, score, reply, replen>>
  PROVE  Scores'
BY DEF Scores, AsksInOrder, Points, Listing, Scored, Named, Lengths

\* The answer of one RBL: it does not list the client, and the next one is
\* asked, or it does, and Found follows.
LEMMA LookupAsks ==
  ASSUME AskInv, Lookup
  PROVE  AskInv'
<1> DEFINE n == Len(asked)
<1>1. PICK a \in Answers :
        /\ asked' = Append(asked, [rdn |-> rdn, rbl |-> rbl, answer |-> a])
        /\ IF Lists(a) THEN ppc' = "found" /\ rbl' = rbl
                       ELSE ppc' = "loop" /\ rbl' = rbl + 1
  BY DEF Lookup
<1> DEFINE q == [rdn |-> rdn, rbl |-> rbl, answer |-> a]
<1>2. /\ ppc = "loop" /\ rbl <= Len(Weight) /\ score < Threshold /\ Len(Weight) \in Nat
      /\ UNCHANGED <<proc, err, rdn, score, reply, replen, out, told>>
  BY WeightAssumption DEF Lookup, At, More
<1>3. /\ rbl = n + 1 /\ n = Len(asked) /\ n \in Nat /\ n < Len(Weight) /\ rbl \in RBLs /\ ~err
      /\ asked \in Seq(Queries) /\ rdn \in [1..Octets -> Digits] /\ score = Scored
      /\ score \in Nat /\ rbl \in Nat /\ rbl - 1 = n
  BY <1>2 DEF AskInv, Locals, Progress, Scores, RBLs
<1> HIDE DEF n
<1>4. q \in Queries
  BY <1>3 DEF Queries
<1>5. /\ Points' = Append(Points, IF Lists(a) THEN Weight[n + 1] ELSE 0)
      /\ Listing' = IF Lists(a) THEN Listing \cup {n + 1} ELSE Listing
      /\ Points \in Seq(Int) /\ Len(Points) = n
  <2>1. q.answer = a
    OBVIOUS
  <2> HIDE DEF q
  <2> QED
    BY <1>1, <1>3, <1>4, <2>1, PointsGrow, PointsType DEF q
<1>6. /\ asked' \in Seq(Queries) /\ Len(asked') = n + 1
      /\ asked'[n + 1] = q /\ \A i \in 1..n : asked'[i] = asked[i]
  <2> HIDE DEF q
  <2> QED
    BY <1>1, <1>3, <1>4 DEF q
<1>7. \A k \in 0..n : SubSeq(Points', 1, k) = SubSeq(Points, 1, k)
  <2>1. (IF Lists(a) THEN Weight[n + 1] ELSE 0) \in Int
    BY <1>3, WeightAssumption
  <2> QED
    BY <1>5, <2>1, PrefixStays
<1>8. SubSeq(Points, 1, n) = Points
  BY <1>5, SubSeqFull
<1>9. Locals'
  BY <1>1, <1>2, <1>3, <1>6 DEF AskInv, Locals, RBLs
<1>10. Progress'
  <2>1. Len(asked') = IF ppc' = "found" THEN rbl' ELSE rbl' - 1
    BY <1>1, <1>3, <1>6
  <2>2. ppc' = "found" => rbl' \in RBLs /\ Lists(asked'[rbl'].answer)
    BY <1>1, <1>3, <1>6
  <2> QED
    BY <1>1, <1>2, <1>3, <2>1, <2>2 DEF Progress
<1>11. AsksInOrder'
  <2> SUFFICES ASSUME NEW i \in 1..(n + 1)
               PROVE  asked'[i].rbl = i /\ Total(SubSeq(Points', 1, i - 1)) < Threshold
    BY <1>6 DEF AsksInOrder
  <2>1. CASE i = n + 1
    <3>1. SubSeq(Points', 1, i - 1) = SubSeq(Points, 1, rbl - 1)
      BY <1>3, <1>7, <2>1
    <3>2. asked'[i].rbl = i
      BY <1>3, <1>6, <2>1
    <3>3. Total(SubSeq(Points', 1, i - 1)) = score
      BY <1>3, <3>1 DEF Scored
    <3> QED
      BY <1>2, <3>2, <3>3
  <2>2. CASE i # n + 1
    <3>1. i \in 1..n /\ i \in DOMAIN asked /\ i - 1 \in 0..n
      BY <1>3, <2>2
    <3>2. SubSeq(Points', 1, i - 1) = SubSeq(Points, 1, i - 1)
      BY <1>7, <3>1
    <3> QED
      BY <1>6, <3>1, <3>2 DEF AskInv, Scores, AsksInOrder
  <2> QED
    BY <2>1, <2>2
<1>12. score' = Scored'
  <2>1. CASE Lists(a)
    <3>1. SubSeq(Points', 1, n) = SubSeq(Points, 1, n)
      BY <1>3, <1>7
    <3>2. rbl' - 1 = n
      BY <1>1, <1>3, <2>1
    <3>3. Scored' = Total(SubSeq(Points, 1, n))
      BY <3>1, <3>2 DEF Scored
    <3> QED
      BY <1>2, <1>3, <3>3 DEF Scored
  <2>2. CASE ~Lists(a)
    <3>1. rbl' - 1 = n + 1 /\ Points' = Append(Points, 0)
      BY <1>1, <1>3, <1>5, <2>2
    <3>2. Len(Points') = n + 1 /\ Points' \in Seq(Int)
      BY <1>5, <3>1
    <3>3. SubSeq(Points', 1, n + 1) = Points'
      BY <3>2, SubSeqFull
    <3>4. Total(Points') = Total(Points) + 0 /\ Total(Points) \in Int
      BY <1>5, <3>1, SumAppend, SumType
    <3>5. Scored' = Total(Points')
      BY <3>1, <3>3 DEF Scored
    <3>6. Scored = Total(Points)
      BY <1>3, <1>8 DEF Scored
    <3> QED
      BY <1>2, <1>3, <3>4, <3>5, <3>6
  <2> QED
    BY <2>1, <2>2
<1>13. Named' = Named
  <2>1. Listing \subseteq 1..n
    BY <1>3 DEF Listing
  <2>2. CASE Lists(a)
    <3>1. Listing' = Listing \cup {n + 1} /\ rbl' = n + 1 /\ ~(n + 1 < n + 1)
      BY <1>1, <1>3, <1>5, <2>2
    <3> QED
      BY <1>3, <3>1 DEF Named
  <2>3. CASE ~Lists(a)
    <3>1. Listing' = Listing /\ rbl' = n + 2
      BY <1>1, <1>3, <1>5, <2>3
    <3>2. \A i \in Listing : i < n + 1 /\ i < n + 2
      BY <1>3, <2>1
    <3> QED
      BY <1>3, <3>1, <3>2 DEF Named
  <2> QED
    BY <2>2, <2>3
<1>14. Scores'
  BY <1>2, <1>11, <1>12, <1>13 DEF AskInv, Scores, Lengths
<1>15. Telling'
  BY <1>1, <1>2 DEF AskInv, Telling
<1> QED
  BY <1>9, <1>10, <1>14, <1>15 DEF AskInv

\* The weight goes into the score and the name into the reply.
LEMMA FoundScores ==
  ASSUME AskInv, Found
  PROVE  AskInv'
<1>1. /\ ppc = "found" /\ UNCHANGED <<err, rdn, out, told, asked>>
  BY DEF Found, At
<1>2. CASE proc' = "crashed" /\ UNCHANGED <<ppc, rbl, score, reply, replen>>
  <2>1. Scores'
    BY <1>1, <1>2, ScoresStay DEF AskInv
  <2> QED
    BY <1>1, <1>2, <2>1 DEF AskInv, Locals, Progress, Telling, Verdict, More
<1>3. CASE /\ reply' = Append(reply, rbl)
           /\ replen' = replen + NameRoom(rbl)
           /\ score' = score + Weight[rbl]
           /\ rbl' = rbl + 1
           /\ ppc' = "loop" /\ proc' = proc
  <2> DEFINE n == rbl - 1
  <2>1. /\ rbl \in RBLs /\ n \in Nat /\ Len(asked) = n + 1 /\ n + 1 <= Len(Weight)
        /\ Len(Weight) \in Nat /\ rbl = n + 1 /\ rbl' - 1 = n + 1
        /\ asked \in Seq(Queries) /\ reply \in Seq(RBLs) /\ score \in Nat /\ replen \in Nat
        /\ rdn \in [1..Octets -> Digits] /\ ~err
    BY <1>1, <1>3, WeightAssumption DEF AskInv, Locals, Progress, RBLs
  <2>2. /\ Weight[rbl] \in Nat /\ Length[rbl] \in Nat /\ rbl \in Nat
    <3>1. Weight[rbl] \in Nat
      BY <2>1, WeightAssumption DEF RBLs
    <3>2. Length[rbl] \in Nat
      BY <2>1, LengthAssumption
    <3> QED
      BY <2>1, <3>1, <3>2
  <2>3. /\ Points \in Seq(Int) /\ Len(Points) = n + 1 /\ Points[n + 1] = Weight[rbl]
    BY <1>1, <2>1, PointsType DEF AskInv, Progress
  <2>4. Points' = Points /\ Listing' = Listing
    BY <1>1 DEF Points, Listing
  <2> HIDE DEF n
  <2>5. score' = Scored'
    <3>1. SubSeq(Points, 1, n + 1) = Append(SubSeq(Points, 1, n), Weight[rbl])
      BY <2>1, <2>3, PrefixGrows
    <3>2. SubSeq(Points, 1, n) \in Seq(Int)
      BY <2>1, <2>3, ScoredIsInt
    <3>3. Total(SubSeq(Points, 1, n + 1)) = Total(SubSeq(Points, 1, n)) + Weight[rbl]
      <4>1. Weight[rbl] \in Int
        BY <2>2
      <4>2. Total(Append(SubSeq(Points, 1, n), Weight[rbl])) = Total(SubSeq(Points, 1, n)) + Weight[rbl]
        BY <3>2, <4>1, SumAppend, Zenon
      <4> QED
        BY <3>1, <4>2
    <3>4. score = Total(SubSeq(Points, 1, n))
      BY DEF AskInv, Scores, Scored, n
    <3>5. Scored' = Total(SubSeq(Points, 1, n + 1))
      BY <2>1, <2>4 DEF Scored
    <3> QED
      BY <1>3, <3>3, <3>4, <3>5
  <2>6. Ascending(reply', Named')
    <3>1. Named' = Named \cup {rbl}
      <4>1. rbl \in Listing
        BY <1>1, <2>1 DEF AskInv, Progress, Listing
      <4>2. \A i \in Listing : i \in Nat
        BY <2>1 DEF Listing
      <4>3. \A i \in Listing : i < rbl' <=> i < rbl \/ i = rbl
        BY <1>3, <2>2, <4>2
      <4> QED
        BY <2>4, <4>1, <4>3 DEF Named
    <3>2. /\ reply \in Seq(Int) /\ rbl \in Int /\ \A y \in Named : y < rbl
          /\ Ascending(reply, Named)
      BY <2>1 DEF AskInv, Scores, Named, RBLs
    <3> QED
      BY <1>3, <3>1, <3>2, AscendingAppend
  <2>7. replen' = IF reply' = <<>> THEN 0 ELSE Total(Lengths') + 2 * (Len(reply') - 1) + 1
    <3>1. Lengths \in Seq(Int)
      <4>1. ASSUME NEW i \in 1..Len(reply)
            PROVE  Length[reply[i]] \in Int
        <5>1. reply[i] \in RBLs
          BY <2>1, ElementOfSeq
        <5> QED
          BY <5>1, LengthAssumption
      <4>2. DOMAIN reply = 1..Len(reply) /\ Len(reply) \in Nat
        BY <2>1
      <4> QED
        BY <4>1, <4>2 DEF Lengths
    <3>2. Lengths' = Append(Lengths, Length[rbl])
      BY <1>3, <2>1 DEF Lengths
    <3>3. Total(Lengths') = Total(Lengths) + Length[rbl] /\ Total(Lengths) \in Int
      <4>1. Total(Lengths) \in Int
        BY <3>1, SumType
      <4>2. Length[rbl] \in Int
        BY <2>2
      <4>3. Total(Append(Lengths, Length[rbl])) = Total(Lengths) + Length[rbl]
        BY <3>1, <4>2, SumAppend
      <4> QED
        BY <3>2, <4>1, <4>3
    <3>4. reply' # <<>> /\ Len(reply') = Len(reply) + 1 /\ Len(reply) \in Nat
      BY <1>3, <2>1
    <3>5. replen = IF reply = <<>> THEN 0 ELSE Total(Lengths) + 2 * (Len(reply) - 1) + 1
      BY DEF AskInv, Scores
    <3>6. CASE reply = <<>>
      <4>1. Lengths = <<>> /\ Total(Lengths) = 0 /\ Len(reply) = 0
        BY <3>6, SumEmpty DEF Lengths
      <4> QED
        BY <1>3, <2>2, <3>3, <3>4, <3>5, <3>6, <4>1 DEF NameRoom
    <3>7. CASE reply # <<>>
      <4>1. replen' = replen + (Length[rbl] + 2)
        BY <1>3, <3>7 DEF NameRoom
      <4>2. replen = Total(Lengths) + 2 * (Len(reply) - 1) + 1
        BY <3>5, <3>7
      <4>3. \A x, y, z \in Int :
              (x + 2 * (y - 1) + 1) + (z + 2) = (x + z) + 2 * ((y + 1) - 1) + 1
        OBVIOUS
      <4>4. Length[rbl] \in Int /\ Len(reply) \in Int
        BY <2>2, <3>4
      <4>5. replen' = (Total(Lengths) + Length[rbl]) + 2 * ((Len(reply) + 1) - 1) + 1
        BY <3>3, <4>1, <4>2, <4>3, <4>4
      <4> QED
        BY <3>3, <3>4, <4>5
    <3> QED
      BY <3>6, <3>7
  <2>8. Scores'
    <3>1. AsksInOrder'
      BY <1>1, <2>4 DEF AskInv, Scores, AsksInOrder
    <3> QED
      BY <2>5, <2>6, <2>7, <3>1 DEF Scores
  <2>9. Locals'
    <3>0. NameRoom(rbl) \in Nat
      BY <2>2 DEF NameRoom
    <3>1. replen' \in Nat /\ score' \in Nat
      <4>1. score' \in Nat
        BY <1>3, <2>1, <2>2
      <4>2. replen' \in Nat
        BY <1>3, <2>1, <3>0
      <4> QED
        BY <4>1, <4>2
    <3>2. reply' \in Seq(RBLs)
      BY <1>3, <2>1
    <3> QED
      BY <1>1, <1>3, <2>1, <3>1, <3>2 DEF AskInv, Locals
  <2>10. Progress'
    BY <1>1, <1>3, <2>1 DEF AskInv, Progress
  <2>11. Telling'
    BY <1>1, <1>3 DEF AskInv, Telling
  <2> QED
    BY <2>8, <2>9, <2>10, <2>11 DEF AskInv
<1> QED
  BY <1>2, <1>3 DEF Found

\* The first verdict and its writes.
LEMMA VerdictTold ==
  ASSUME AskInv, Answer \/ Write \/ Finish
  PROVE  AskInv'
<1>1. /\ UNCHANGED <<proc, localVars, asked>>
      /\ ppc \in {"answer", "write"} /\ ppc' \in {"write", "done"}
  BY DEF Answer, Write, Finish, At
<1>2. Scores'
  BY <1>1, ScoresStay DEF AskInv, localVars
<1>3. Locals' /\ Progress' /\ Verdict' = Verdict
  BY <1>1 DEF AskInv, Locals, Progress, More, Verdict, localVars
<1> DEFINE v == Verdict
<1>4. Len(v) \in {2, 3} /\ Len(v) \in Nat /\ v = [i \in 1..Len(v) |-> v[i]]
  BY DEF Verdict
<1> DEFINE T == {v[i] : i \in 1..Len(v)}
<1>5. v \in Seq(T)
  <2> HIDE DEF v
  <2> QED
    BY <1>4
<1>6. Telling'
  <2>1. CASE Answer
    <3>1. told' = <<>> /\ out' = v /\ ppc' = "write"
      <4>1. ppc = "answer" /\ told' = told /\ ppc' = "write" /\ out' = v
        BY <2>1, Zenon DEF Answer, At, Verdict
      <4>2. told = <<>>
        BY <4>1, Zenon DEF AskInv, Telling
      <4> QED
        BY <4>1, <4>2
    <3> HIDE DEF v
    <3>2. SubSeq(v, 1, 0) = <<>> /\ SubSeq(v, 0 + 1, Len(v)) = v /\ 0 \in 0..Len(v)
      BY <1>4, <1>5, SubSeqFull, SubSeqEmpty
    <3> QED
      BY <1>3, <3>1, <3>2 DEF Telling, v
  <2>2. CASE Write
    <3>1. /\ ppc = "write" /\ ppc' = "write" /\ out # <<>>
          /\ out' = Tail(out) /\ told' = Append(told, Head(out))
      BY <2>2 DEF Write, At
    <3>2. PICK k \in 0..Len(v) : told = SubSeq(v, 1, k) /\ out = SubSeq(v, k + 1, Len(v))
      BY <3>1 DEF AskInv, Telling
    <3> HIDE DEF v, T
    <3>3. /\ SubSeq(v, k + 1, Len(v)) \in Seq(T) /\ Len(out) = Len(v) - k /\ out \in Seq(T)
          /\ \A i \in 1..(Len(v) - k) : out[i] = v[k + i]
      <4>1. Len(v) \in 0..Len(v)
        BY <1>4
      <4> QED
        BY <1>5, <3>2, <4>1, Piece
    <3> DEFINE m == Len(v)
    <3>0. m \in Nat /\ k \in 0..m /\ k \in Nat
      BY <1>4
    <3>4. k < m /\ Head(out) = v[k + 1] /\ k + 1 \in 0..m /\ k \in Nat
      <4>1. Len(out) > 0 /\ Head(out) = out[1]
        BY <3>1, <3>3
      <4> HIDE DEF m
      <4>2. Len(out) = m - k
        BY <3>3 DEF m
      <4>3. k < m /\ 1 \in 1..(m - k)
        BY <3>0, <4>1, <4>2
      <4> QED
        BY <3>0, <3>3, <4>1, <4>3 DEF m
    <3>5. told' = SubSeq(v, 1, k + 1)
      BY <1>5, <3>1, <3>2, <3>4, PrefixGrows
    <3>6. out' = SubSeq(v, (k + 1) + 1, Len(v))
      <4>1. /\ SubSeq(v, (k + 1) + 1, Len(v)) \in Seq(T)
            /\ Len(SubSeq(v, (k + 1) + 1, Len(v))) = Len(v) - (k + 1)
            /\ \A i \in 1..(Len(v) - (k + 1)) : SubSeq(v, (k + 1) + 1, Len(v))[i] = v[(k + 1) + i]
        <5>1. Len(v) \in 0..Len(v)
          BY <1>4
        <5> QED
          BY <1>5, <3>4, <5>1, Piece
      <4>2. /\ out' \in Seq(T) /\ Len(out') = Len(v) - (k + 1)
            /\ \A i \in 1..(Len(v) - (k + 1)) : out'[i] = out[i + 1]
        <5>1. out' \in Seq(T) /\ Len(out') = Len(out) - 1 /\ \A i \in 1..(Len(out) - 1) : out'[i] = out[i + 1]
          BY <3>1, <3>3
        <5>2. Len(out) - 1 = Len(v) - (k + 1)
          BY <3>0, <3>3
        <5> QED
          BY <5>1, <5>2
      <4>3. \A i \in 1..(Len(v) - (k + 1)) : out[i + 1] = v[(k + 1) + i]
        <5> TAKE i \in 1..(m - (k + 1))
        <5>1. i + 1 \in 1..(m - k) /\ k + (i + 1) = (k + 1) + i
          BY <3>0
        <5> QED
          BY <3>3, <5>1
      <4> QED
        BY <4>1, <4>2, <4>3, SeqEqual
    <3> QED
      BY <1>3, <3>1, <3>4, <3>5, <3>6 DEF Telling, v
  <2>3. CASE Finish
    <3>1. ppc = "write" /\ ppc' = "done" /\ UNCHANGED <<told, out>>
      BY <2>3 DEF Finish, At
    <3> QED
      BY <1>3, <3>1 DEF AskInv, Telling
  <2> QED
    BY <2>1, <2>2, <2>3
<1> QED
  BY <1>2, <1>3, <1>6 DEF AskInv

LEMMA AskNext ==
  ASSUME IInv, AskInv, [HandleNext]_allVars
  PROVE  AskInv'
<1>1. CASE UNCHANGED handleVars
  <2>1. Scores'
    BY <1>1, ScoresStay DEF AskInv, handleVars, localVars
  <2> QED
    BY <1>1, <2>1 DEF AskInv, Locals, Progress, Telling, Verdict, More, handleVars, localVars
<1>2. CASE Requested
  <2>1. /\ ppc = "read" /\ ppc' = (IF err' THEN "answer" ELSE "prepare") /\ err' \in BOOLEAN
        /\ UNCHANGED <<proc, rdn, rbl, score, reply, replen, out, told, asked>>
    BY <1>2 DEF Requested, At
  <2>2. Scores'
    BY <2>1, ScoresStay DEF AskInv
  <2> QED
    BY <2>1, <2>2 DEF AskInv, Locals, Progress, Telling
<1>3. CASE Prepare
  <2>1. /\ ppc = "prepare"
        /\ \/ rdn' = Reversed(client) /\ ppc' = "loop" /\ err' = FALSE
              /\ Len(sscanf(client)) >= Octets
           \/ ppc' = "answer" /\ err' = TRUE /\ rdn' = NULL
        /\ UNCHANGED <<proc, rbl, score, reply, replen, out, told, asked>>
    BY <1>3 DEF Prepare, At
  <2>2. ppc' = "loop" => rdn' \in [1..Octets -> Digits]
    BY <2>1, ReversedType DEF IInv, TypeOK
  <2>3. Scores'
    BY <2>1, ScoresStay DEF AskInv
  <2> QED
    BY <2>1, <2>2, <2>3 DEF AskInv, Locals, Progress, Telling
<1>4. CASE Asked
  <2>1. /\ ppc = "loop" /\ ppc' = "answer" /\ ~More
        /\ UNCHANGED <<proc, err, rdn, rbl, score, reply, replen, out, told, asked>>
    BY <1>4 DEF Asked, At, localVars
  <2>2. Scores'
    BY <2>1, ScoresStay DEF AskInv
  <2> QED
    BY <2>1, <2>2 DEF AskInv, Locals, Progress, Telling, More
<1>5. CASE Lookup
  BY <1>5, LookupAsks
<1>6. CASE Found
  BY <1>6, FoundScores
<1>7. CASE Answer \/ Write \/ Finish
  BY <1>7, VerdictTold
<1> QED
  BY <1>1, <1>2, <1>3, <1>4, <1>5, <1>6, <1>7
     DEF HandleNext, ReadStep, ParseStep, process_request, Ended, allVars

LEMMA AskInvariant == HandleSpec => [](IInv /\ AskInv)
<1>1. HandleInit => AskInv
  <2> SUFFICES ASSUME HandleInit PROVE AskInv
    OBVIOUS
  <2> USE DEF HandleInit
  <2>1. Len(Weight) \in Nat
    BY WeightAssumption
  <2>2. Locals
    <3>1. <<>> \in Seq(RBLs) /\ <<>> \in Seq(Queries)
      BY EmptySeq
    <3>2. 1 \in 1..(Len(Weight) + 1)
      BY <2>1
    <3> QED
      BY <3>1, <3>2, Zenon DEF Locals
  <2>3. Scores
    <3>1. Points = <<>> /\ Listing = {} /\ SubSeq(Points, 1, rbl - 1) = <<>>
      BY DEF Points, Listing
    <3>2. Named = {} /\ Scored = 0
      BY <3>1, SumEmpty DEF Named, Scored
    <3>3. Ascending(<<>>, {})
      BY DEF Ascending
    <3>4. AsksInOrder
      BY DEF AsksInOrder
    <3> QED
      BY <3>2, <3>3, <3>4, Zenon DEF Scores
  <2> QED
    BY <2>2, <2>3 DEF AskInv, Progress, Telling
<1>2. IInv /\ AskInv /\ [HandleNext]_allVars => AskInv'
  BY AskNext
<1> QED
  BY <1>1, <1>2, HandlerReads, Invariant, PTL DEF HandleSpec

(* The locals of process_request have their types.                         *)
THEOREM HandleTypeCorrect == HandleSpec => []HandleTypeOK
<1>1. IInv /\ AskInv => HandleTypeOK
  <2> SUFFICES ASSUME IInv, AskInv PROVE HandleTypeOK
    OBVIOUS
  <2>1. Len(asked) <= Len(Weight)
    BY WeightAssumption DEF AskInv, Locals, Progress, RBLs
  <2>2. Len(out) <= 3 /\ Len(told) <= 3
    <3>1. CASE ppc \in {"write", "done"}
      <4>1. PICK k \in 0..Len(Verdict) :
              told = SubSeq(Verdict, 1, k) /\ out = SubSeq(Verdict, k + 1, Len(Verdict))
        BY <3>1 DEF AskInv, Telling
      <4>2. Len(Verdict) \in {2, 3}
        BY DEF Verdict
      <4>3. \A i \in 1..Len(Verdict) : Verdict[i] \in {Verdict[j] : j \in 1..Len(Verdict)}
        OBVIOUS
      <4>4. /\ \A i \in 1..k : i \in 1..Len(Verdict)
            /\ \A i \in (k + 1)..Len(Verdict) : i \in 1..Len(Verdict)
            /\ k \in Int /\ Len(Verdict) \in Int /\ k + 1 \in Int
        BY <4>1, <4>2
      <4>5. Len(told) = IF 1 <= k THEN k - 1 + 1 ELSE 0
        BY <4>1, <4>3, <4>4, SubSeqProperties
      <4>6. Len(out) = IF k + 1 <= Len(Verdict) THEN Len(Verdict) - (k + 1) + 1 ELSE 0
        BY <4>1, <4>3, <4>4, SubSeqProperties
      <4>7. Len(told) <= 3 /\ Len(out) <= 3
        BY <4>1, <4>2, <4>5, <4>6, SMTT(30)
      <4> QED
        BY <4>7
    <3>2. CASE ppc \notin {"write", "done"}
      BY <3>2 DEF AskInv, Telling
    <3> QED
      BY <3>1, <3>2
  <2> QED
    BY <2>1, <2>2 DEF IInv, AskInv, Locals, HandleTypeOK
<1> QED
  BY <1>1, AskInvariant, PTL

(* Each RBL is asked once, in the order of the file, and only while those  *)
(* before it leave the verdict open, for any list and any answers.         *)
THEOREM AskedInOrder == HandleSpec => []AsksInOrder
<1>1. AskInv => AsksInOrder
  BY DEF AskInv, Scores
<1> QED
  BY <1>1, AskInvariant, PTL

(* The verdict is that of all the answers: REJECT with the RBLs that list  *)
(* the client, in the order of the file, exactly when their weights reach  *)
(* the threshold.                                                          *)
THEOREM VerdictIsTheirs == HandleSpec => []VerdictIsPolicy
<1>1. AskInv => VerdictIsPolicy
  <2> SUFFICES ASSUME AskInv, told # <<>>
               PROVE  \/ /\ told[1] = "REJECT"
                         /\ Total(Points) >= Threshold
                         /\ Len(told) > 1 => Ascending(told[2], Listing)
                      \/ /\ told[1] = "DUNNO"
                         /\ IF err THEN asked = <<>>
                            ELSE Len(asked) = Len(Weight) /\ Total(Points) < Threshold
    BY DEF VerdictIsPolicy
  <2> DEFINE v == Verdict
  <2>1. PICK k \in 0..Len(v) : told = SubSeq(v, 1, k)
    BY DEF AskInv, Telling
  <2>2. /\ ppc \in {"write", "done"} /\ err \in BOOLEAN
        /\ err => asked = <<>>
        /\ ~err => ~More
        /\ Len(asked) = rbl - 1 /\ rbl \in 1..(Len(Weight) + 1) /\ asked \in Seq(Queries)
        /\ score = Scored /\ Ascending(reply, Named) /\ score \in Nat /\ Len(Weight) \in Nat
    BY WeightAssumption DEF AskInv, Telling, Locals, Progress, Scores
  <2>3. Points \in Seq(Int) /\ Len(Points) = Len(asked)
    BY <2>2, PointsType
  <2>4. score = Total(Points)
    <3>1. SubSeq(Points, 1, rbl - 1) = Points
      BY <2>2, <2>3, SubSeqFull
    <3> QED
      BY <2>2, <3>1 DEF Scored
  <2>5. Named = Listing
    BY <2>2 DEF Named, Listing
  <2>6. CASE ~err /\ score >= Threshold
    <3>1. v = <<"REJECT", reply, "END">>
      BY <2>6 DEF Verdict
    <3>2. k # 0 /\ told[1] = "REJECT" /\ (Len(told) > 1 => told[2] = reply)
      BY <2>1, <3>1
    <3> QED
      BY <2>2, <2>4, <2>5, <2>6, <3>2
  <2>7. CASE ~(~err /\ score >= Threshold)
    <3>1. v = <<"DUNNO", "END">>
      BY <2>7 DEF Verdict
    <3>2. k # 0 /\ told[1] = "DUNNO"
      BY <2>1, <3>1
    <3>3. ~err => Len(asked) = Len(Weight) /\ Total(Points) < Threshold
      BY <2>2, <2>4, <2>7, ThresholdAssumption DEF More
    <3> QED
      BY <2>2, <3>2, <3>3
  <2> QED
    BY <2>6, <2>7
<1> QED
  BY <1>1, AskInvariant, PTL

(* The room made for the reply is that of its names and separators, for    *)
(* any number of RBLs and any lengths of their names.                      *)
THEOREM ReplyHasRoom == HandleSpec => []ReplyFits
<1>1. AskInv => ReplyFits
  BY DEF AskInv, Scores, Lengths, ReplyFits
<1> QED
  BY <1>1, AskInvariant, PTL
=============================================================================
