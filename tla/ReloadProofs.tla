---------------------------- MODULE ReloadProofs ----------------------------
(***************************************************************************)
(* For any files, any memory, any workers and any number of rounds: types  *)
(* and weights are right, cfg_free gives back what is allocated and only   *)
(* its own list, no item but one with a wrong weight is lost, no worker    *)
(* meets an item that was given back unless the daemon ends or a reload    *)
(* overtakes it, and the lists that cfg_read makes and server() uses say   *)
(* what is written in the files.                                           *)
(*                                                                         *)
(* The argument: the chains of the list in use and of the one being read   *)
(* never meet (Heap: an item's successor has the same owner, and no item   *)
(* is the successor of two), so freeing one from its head leaves the       *)
(* other, and the pointers into it, alone.  What is allocated stays in     *)
(* reach of a head (Kept).  For the contents, first the text alone: of the *)
(* line at a position cfg_cleanline, word, argument and Weight make what   *)
(* is written there (LineIs), and NextLine says what that adds to the      *)
(* entries of the text.  Then the program: while cfg_read works its list   *)
(* has the entries of the text so far (Built), and the list in use is one  *)
(* that was read to the end (InUse).                                       *)
(***************************************************************************)
EXTENDS Reload, SequenceTheorems, FiniteSetTheorems, NaturalsInduction, WellFoundedInduction, TLAPS

\* Chains stay with their owner, and do not join.
Heap ==
  /\ \A a \in Items : owner[a] \in {"free", "leaked"} => next[a] = NULL
  /\ \A a \in Items : next[a] # NULL => owner[next[a]] = owner[a]
  /\ \A a, b \in Items : next[a] = next[b] /\ next[a] # NULL => a = b

\* No item leads to p: it is the head of a chain.
NoPred(p) == p = NULL \/ \A a \in Items : next[a] # p
Heads == NoPred(first) /\ NoPred(item) /\ NoPred(rblist)

Owns(p, o) == p = NULL \/ owner[p] = o

\* What cfg_read and cfg_free are doing when the main thread is at mpc.
Control ==
  /\ mpc = "startup" => rblist = NULL
  /\ mpc \in {"startup", "reload"} => cfgpc \in {"open", "read", "parse", "cleanup", "returned"}
  /\ mpc \in {"loop", "accept", "wait"} => cfgpc = "idle"
  /\ mpc \in {"swap", "teardown"} => cfgpc \in {"free", "returned"}

\* Whose items the pointers of the main thread point to.
Lists ==
  /\ cfgpc \in {"idle", "open"} => first = NULL
  /\ cfgpc \in {"read", "parse", "free", "returned"} => Owns(first, "new")
  /\ cfgpc \in {"read", "parse"} =>
       /\ Owns(last, "new")
       /\ first = NULL <=> last = NULL
       /\ last # NULL => next[last] = NULL
  /\ cfgpc = "cleanup" => Owns(item, "new")
  /\ cfgpc = "free" => Owns(item, "served")
  /\ cfgpc \notin {"cleanup", "free"} => item = NULL
  /\ cfgpc # "free" => Owns(rblist, "served")

\* Whose items the pointers of worker w point to.
Held(w) ==
  /\ wpc[w] = "walk" => rbl[w] \in Pointers /\ Owns(rbl[w], "served")
  /\ \A i \in DOMAIN resdata[w] : resdata[w][i] \in Items /\ owner[resdata[w][i]] = "served"

Readers ==
  /\ \A w \in Workers : wpc[w] \in {"idle", "begin"} => resdata[w] = <<>>
  /\ mpc = "swap" => \A w \in Workers \ overtaken : wpc[w] \in {"idle", "begin"}
  /\ mpc \notin {"teardown", "ended", "crashed"} => \A w \in Workers \ overtaken : Held(w)

IInv == TypeOK /\ Heap /\ Heads /\ Control /\ Lists /\ Readers

-----------------------------------------------------------------------------
(*                                 Typing                                  *)

\* The weight of a line is a short.
LEMMA WeightIsShort ==
  ASSUME NEW s
  PROVE  Weight(s) \in 0..SHRT_MAX
<1>1. CASE numeric(s) /\ strtol(s) \in 1..SHRT_MAX
  <2>1. Weight(s) = strtol(s)
    BY <1>1 DEF Weight
  <2>2. \A n \in 1..SHRT_MAX : n \in 0..SHRT_MAX
    <3>1. SHRT_MAX \in Nat
      BY DEF SHRT_MAX
    <3> QED
      BY <3>1
  <2> QED
    BY <1>1, <2>1, <2>2
<1>2. CASE ~(numeric(s) /\ strtol(s) \in 1..SHRT_MAX)
  <2>1. Weight(s) = 0
    BY <1>2, Zenon DEF Weight
  <2> QED
    BY <2>1 DEF SHRT_MAX
<1> QED
  BY <1>1, <1>2

\* So is the weight of every line of a text.
LEMMA LineWeight ==
  ASSUME NEW t \in Texts, NEW p \in 0..Len(t)
  PROVE  Lines[t][p].weight \in 0..SHRT_MAX
<1>1. Lines[t][p] = Line(t, p)
  BY DEF Lines
<1>2. Line(t, p).weight = Weight(argument(cfg_cleanline(fgets(From(t, p + 1)))))
  BY DEF Line
<1> QED
  BY <1>1, <1>2, WeightIsShort

\* And that of the line that is none.
LEMMA NoLineWeight == NoLine.weight = 0 /\ 0 \in 0..SHRT_MAX
BY DEF NoLine, SHRT_MAX

\* At the start all of it holds.
LEMMA InitInv == Init => IInv
<1> SUFFICES ASSUME Init PROVE IInv
  OBVIOUS
<1> USE DEF Init, CfgInit
<1>1. TypeOK
  <2>1. buf.weight \in 0..SHRT_MAX /\ weight \in [Items -> 0..SHRT_MAX]
    BY DEF NoLine, SHRT_MAX
  <2>2. CfgTypeOK
    BY <2>1 DEF CfgTypeOK, Pointers
  <2>3. err \in 0..Rounds
    BY RoundsAssumption
  <2>4. /\ rbl \in [Workers -> Pointers \cup {Dangling}]
        /\ resdata \in [Workers -> Seq(Items \cup {Dangling})]
    BY DEF Pointers
  <2> QED
    BY <2>2, <2>3, <2>4 DEF TypeOK
<1>2. Heap /\ Heads
  BY DEF Heap, Heads, NoPred
<1>3. Control /\ Lists
  BY DEF Control, Lists, Owns
<1>4. Readers
  BY DEF Readers, Held
<1> QED
  BY <1>1, <1>2, <1>3, <1>4 DEF IInv

-----------------------------------------------------------------------------
(*                          cfg_read and cfg_free                          *)

\* Nothing moves in the memory.
LEMMA HeapStays ==
  ASSUME Heap, Heads, UNCHANGED <<next, owner>>,
         first' \in {NULL, first}, item' \in {NULL, item, first, rblist}, rblist' \in {NULL, rblist, first}
  PROVE  Heap' /\ Heads'
BY DEF Heap, Heads, NoPred

\* A new item is linked to the end of the list that is being read.
LEMMA AddItemHeap ==
  ASSUME CfgTypeOK, Heap, Heads, Lists, AddItem
  PROVE  Heap' /\ Heads' /\ Lists' /\ CfgTypeOK'
<1>1. /\ cfgpc = "parse" /\ cfgpc' = "read"
      /\ buf.weight # 0
      /\ item' = item /\ item = NULL /\ rblist' = rblist /\ text' = text /\ buf' = NoLine
  BY DEF AddItem, ParseLine, Lists
<1>2. PICK a \in Items :
        /\ owner[a] = "free"
        /\ owner' = [owner EXCEPT ![a] = "new"]
        /\ rbldomain' = [rbldomain EXCEPT ![a] = buf.name]
        /\ weight' = [weight EXCEPT ![a] = buf.weight]
        /\ next' = [b \in Items |-> IF b = a THEN NULL ELSE IF b = last THEN a ELSE next[b]]
        /\ first' = (IF first = NULL THEN a ELSE first)
        /\ last' = a
  BY DEF AddItem, calloc, Link
<1>3. /\ next[a] = NULL /\ \A b \in Items : next[b] # a
      /\ a # first /\ a # last /\ a # rblist
  <2>1. \A b \in Items : next[b] # a
    BY <1>2, NULLAssumption DEF Heap, CfgTypeOK, Pointers
  <2> QED
    BY <1>1, <1>2, <2>1, NULLAssumption DEF Heap, Lists, Owns
<1>4. /\ last # NULL => last \in Items /\ owner[last] = "new" /\ next[last] = NULL
      /\ first # NULL => owner[first] = "new"
      /\ first = NULL <=> last = NULL
  BY <1>1 DEF Lists, Owns, CfgTypeOK, Pointers
<1>5. Heap'
  <2>1. ASSUME NEW b \in Items, owner'[b] \in {"free", "leaked"}
        PROVE  next'[b] = NULL
    <3>1. b # a /\ owner[b] = owner'[b]
      BY <1>2, <2>1 DEF CfgTypeOK
    <3>2. b # last
      BY <1>4, <2>1, <3>1, NULLAssumption
    <3> QED
      BY <1>2, <2>1, <3>1, <3>2 DEF Heap
  <2>2. \A b \in Items : next'[b] # NULL => owner'[next'[b]] = owner'[b]
    BY <1>2, <1>3, <1>4, NULLAssumption DEF Heap, CfgTypeOK, Pointers
  <2>3. \A b, d \in Items : next'[b] = next'[d] /\ next'[b] # NULL => b = d
    BY <1>2, <1>3, <1>4, NULLAssumption DEF Heap, CfgTypeOK, Pointers
  <2> QED
    BY <2>1, <2>2, <2>3 DEF Heap
<1>6. Heads'
  <2>1. NoPred(first)'
    BY <1>2, <1>3, <1>4, NULLAssumption DEF Heads, NoPred
  <2>2. NoPred(rblist)'
    BY <1>1, <1>2, <1>3, NULLAssumption DEF Heads, NoPred
  <2> QED
    BY <1>1, <2>1, <2>2 DEF Heads, NoPred
<1>7. Lists'
  BY <1>1, <1>2, <1>3, <1>4, NULLAssumption DEF Lists, Owns, CfgTypeOK, Pointers
<1>8. CfgTypeOK'
  <2>1. buf'.weight \in 0..SHRT_MAX
    BY <1>1 DEF NoLine, SHRT_MAX
  <2>2. weight' \in [Items -> 0..SHRT_MAX]
    BY <1>2 DEF CfgTypeOK
  <2>3. DOMAIN rbldomain' = Items
    BY <1>2 DEF CfgTypeOK
  <2>4. owner' \in [Items -> {"free", "new", "served", "leaked"}]
    BY <1>2 DEF CfgTypeOK
  <2>5. next' \in [Items -> Pointers]
    BY <1>2 DEF CfgTypeOK, Pointers
  <2>6. ASSUME NEW b \in Items, owner'[b] \in {"new", "served"}
        PROVE  weight'[b] > 0
    <3>1. CASE b = a
      <4>1. buf.weight \in Nat
        BY DEF CfgTypeOK
      <4>2. weight'[b] = buf.weight
        BY <1>2, <3>1 DEF CfgTypeOK
      <4> QED
        BY <1>1, <4>1, <4>2
    <3>2. CASE b # a
      <4>1. owner'[b] = owner[b] /\ weight'[b] = weight[b]
        BY <1>2, <3>2 DEF CfgTypeOK
      <4> QED
        BY <2>6, <4>1 DEF CfgTypeOK
    <3> QED
      BY <3>1, <3>2
  <2> QED
    <3>1. first' \in Pointers /\ last' \in Pointers /\ item' \in Pointers /\ rblist' \in Pointers
      BY <1>1, <1>2 DEF CfgTypeOK, Pointers
    <3>2. text' \in Texts \cup {<<>>}
      BY <1>1 DEF CfgTypeOK
    <3> QED
      BY <1>1, <2>1, <2>2, <2>3, <2>4, <2>5, <2>6, <3>1, <3>2 DEF CfgTypeOK
<1> QED
  BY <1>5, <1>6, <1>7, <1>8

\* The head of the list in cfg_free goes; what it led to is the next head.
LEMMA FreeItemHeap ==
  ASSUME CfgTypeOK, Heap, Heads, Lists, FreeItem
  PROVE  /\ Heap' /\ Heads' /\ Lists' /\ CfgTypeOK'
         /\ item \in Items /\ Owns(item, IF cfgpc = "cleanup" THEN "new" ELSE "served")
<1>1. /\ cfgpc \in {"cleanup", "free"} /\ cfgpc' = cfgpc
      /\ item \in Items /\ item # NULL /\ item' = next[item]
      /\ owner' = [owner EXCEPT ![item] = "free"]
      /\ weight' = [weight EXCEPT ![item] = 0]
      /\ next' = [next EXCEPT ![item] = NULL]
      /\ UNCHANGED <<text, buf, first, last, rblist>>
      /\ DOMAIN rbldomain' = Items
  BY DEF FreeItem, readVars, CfgTypeOK, Pointers
<1>2. /\ \A a \in Items : next[a] # item
      /\ owner[item] = (IF cfgpc = "cleanup" THEN "new" ELSE "served")
  BY <1>1 DEF Heads, NoPred, Lists, Owns
<1>3. next[item] # NULL => /\ next[item] \in Items /\ next[item] # item
                           /\ owner[next[item]] = owner[item]
  BY <1>1, <1>2 DEF Heap, CfgTypeOK, Pointers
<1>4. Heap'
  BY <1>1, <1>2, NULLAssumption DEF Heap, CfgTypeOK, Pointers
<1>5. Heads'
  <2>1. NoPred(item)'
    BY <1>1, <1>3 DEF NoPred, Heap, CfgTypeOK
  <2>2. NoPred(first)' /\ NoPred(rblist)'
    BY <1>1 DEF Heads, NoPred, CfgTypeOK
  <2> QED
    BY <2>1, <2>2 DEF Heads
<1>6. Lists'
  BY <1>1, <1>2, <1>3 DEF Lists, Owns, CfgTypeOK, Pointers
<1>7. CfgTypeOK'
  <2>1. weight' \in [Items -> 0..SHRT_MAX]
    BY <1>1, NoLineWeight DEF CfgTypeOK
  <2>2. owner' \in [Items -> {"free", "new", "served", "leaked"}] /\ next' \in [Items -> Pointers]
    BY <1>1 DEF CfgTypeOK, Pointers
  <2>3. ASSUME NEW b \in Items, owner'[b] \in {"new", "served"}
        PROVE  weight'[b] > 0
    <3>1. b # item
      BY <1>1, <2>3 DEF CfgTypeOK
    <3>2. owner'[b] = owner[b] /\ weight'[b] = weight[b]
      BY <1>1, <3>1 DEF CfgTypeOK
    <3> QED
      BY <2>3, <3>2 DEF CfgTypeOK
  <2>4. item' \in Pointers
    BY <1>1 DEF CfgTypeOK
  <2>5. UNCHANGED <<cfgpc, text, buf, first, last, rblist>> /\ DOMAIN rbldomain' = Items
    BY <1>1
  <2>6. /\ cfgpc' \in {"idle", "open", "read", "parse", "cleanup", "free", "returned"}
        /\ text' \in Texts \cup {<<>>}
        /\ buf'.weight \in 0..SHRT_MAX
        /\ first' \in Pointers /\ last' \in Pointers /\ rblist' \in Pointers
    BY <2>5 DEF CfgTypeOK
  <2> QED
    BY <2>1, <2>2, <2>3, <2>4, <2>5, <2>6, Zenon DEF CfgTypeOK
<1> QED
  BY <1>1, <1>2, <1>4, <1>5, <1>6, <1>7 DEF Owns

\* The other steps of cfg_read do not touch a list.
LEMMA ReadKeeps ==
  ASSUME CfgTypeOK, Heap, Heads, Lists,
         fopen \/ ReadLine \/ BadLine \/ BadWeight \/ EndOfFile \/ FreeEnd
  PROVE  /\ Heap' /\ Heads' /\ Lists' /\ CfgTypeOK'
         /\ \A a \in Items : owner[a] = "served" => owner'[a] = "served"
<1>1. CASE fopen
  <2>1. /\ cfgpc = "open" /\ cfgpc' \in {"read", "returned"}
        /\ text' \in Texts \cup {<<>>} /\ first' = NULL
        /\ cfgpc' = "read" => last' = NULL
        /\ last' \in {NULL, last}
        /\ UNCHANGED <<buf, item, rbldomain, weight, next, owner, rblist>>
    BY <1>1 DEF fopen, cfg_return, heapVars, nodeVars
  <2>2. Heap' /\ Heads'
    BY <2>1, HeapStays
  <2>3. Lists'
    BY <2>1 DEF Lists, Owns
  <2>4. CfgTypeOK'
    BY <2>1 DEF CfgTypeOK, Pointers
  <2> QED
    BY <2>1, <2>2, <2>3, <2>4
<1>2. CASE ReadLine
  <2>1. /\ cfgpc = "read" /\ cfgpc' \in {"read", "parse"}
        /\ buf' = buf \/ buf' = Lines[text][pos]
        /\ UNCHANGED <<text, first, last, item, rbldomain, weight, next, owner, rblist>>
    BY <1>2 DEF ReadLine, heapVars, nodeVars
  <2>2. Heap' /\ Heads'
    BY <2>1, HeapStays
  <2>3. Lists'
    BY <2>1 DEF Lists, Owns
  <2>4. buf'.weight \in 0..SHRT_MAX
    BY <1>2, <2>1, LineWeight DEF ReadLine, CfgTypeOK
  <2>5. CfgTypeOK'
    BY <2>1, <2>4 DEF CfgTypeOK, Pointers
  <2> QED
    BY <2>1, <2>2, <2>3, <2>5
<1>3. CASE BadLine
  <2>1. /\ cfgpc = "parse" /\ cfgpc' = "cleanup" /\ item' = first /\ buf' = NoLine
        /\ UNCHANGED <<text, first, last, rbldomain, weight, next, owner, rblist>>
    BY <1>3 DEF BadLine, err_cleanup, ParseLine, heapVars, nodeVars
  <2>2. Heap' /\ Heads'
    BY <2>1, HeapStays
  <2>3. Lists'
    BY <2>1 DEF Lists, Owns
  <2>4. CfgTypeOK'
    BY <2>1, NoLineWeight DEF CfgTypeOK
  <2> QED
    BY <2>1, <2>2, <2>3, <2>4
<1>4. CASE BadWeight
  <2>1. /\ cfgpc = "parse" /\ cfgpc' = "cleanup" /\ item' = first /\ buf' = NoLine
        /\ UNCHANGED <<text, first, last, rbldomain, weight, next, rblist>>
    BY <1>4 DEF BadWeight, err_cleanup, ParseLine, nodeVars
  <2>2. PICK a \in Items : owner[a] = "free" /\ owner' = [owner EXCEPT ![a] = "leaked"]
    BY <1>4 DEF BadWeight, calloc
  <2>3. next[a] = NULL /\ \A b \in Items : next[b] # a
    BY <2>2, NULLAssumption DEF Heap, CfgTypeOK, Pointers
  <2>4. Heap'
    BY <2>1, <2>2, <2>3, NULLAssumption DEF Heap, CfgTypeOK, Pointers
  <2>5. Heads'
    BY <2>1 DEF Heads, NoPred
  <2>6. Lists'
    BY <2>1, <2>2, <2>3 DEF Lists, Owns, CfgTypeOK, Pointers
  <2>7. CfgTypeOK'
    <3>1. owner' \in [Items -> {"free", "new", "served", "leaked"}]
      BY <2>2 DEF CfgTypeOK
    <3>2. \A b \in Items : owner'[b] \in {"new", "served"} => weight'[b] > 0
      BY <2>1, <2>2 DEF CfgTypeOK
    <3> QED
      BY <2>1, <3>1, <3>2, NoLineWeight DEF CfgTypeOK
  <2> QED
    BY <2>2, <2>4, <2>5, <2>6, <2>7 DEF CfgTypeOK
<1>5. CASE EndOfFile
  <2>1. /\ cfgpc = "read" /\ cfgpc' = "returned"
        /\ UNCHANGED <<text, buf, first, last, item, rbldomain, weight, next, owner, rblist>>
    BY <1>5 DEF EndOfFile, cfg_return, heapVars, nodeVars
  <2>2. Heap' /\ Heads'
    BY <2>1, HeapStays
  <2>3. Lists'
    BY <2>1 DEF Lists, Owns
  <2>4. CfgTypeOK'
    BY <2>1 DEF CfgTypeOK, Pointers
  <2> QED
    BY <2>1, <2>2, <2>3, <2>4
<1>6. CASE FreeEnd
  <2>1. /\ cfgpc \in {"cleanup", "free"} /\ cfgpc' = "returned" /\ item = NULL
        /\ cfgpc = "cleanup" => first' = NULL /\ rblist' = rblist
        /\ cfgpc = "free" => rblist' = NULL /\ first' = first
        /\ UNCHANGED <<text, buf, last, item, rbldomain, weight, next, owner>>
    BY <1>6 DEF FreeEnd, heapVars, nodeVars
  <2>2. Heap' /\ Heads'
    BY <2>1, HeapStays
  <2>3. Lists'
    BY <2>1 DEF Lists, Owns
  <2>4. CfgTypeOK'
    BY <2>1 DEF CfgTypeOK, Pointers
  <2> QED
    BY <2>1, <2>2, <2>3, <2>4
<1> QED
  BY <1>1, <1>2, <1>3, <1>4, <1>5, <1>6

-----------------------------------------------------------------------------
(*                              The callers                                *)

\* The step has nothing to do with the configuration.
LEMMA CfgStays ==
  ASSUME CfgTypeOK, Heap, Heads, Lists, UNCHANGED cfgVars
  PROVE  CfgTypeOK' /\ Heap' /\ Heads' /\ Lists'
<1> USE DEF cfgVars, readVars, heapVars, nodeVars
<1>1. CfgTypeOK'
  BY DEF CfgTypeOK
<1>2. Heap' /\ Heads'
  BY HeapStays
<1>3. Lists'
  BY DEF Lists, Owns
<1> QED
  BY <1>1, <1>2, <1>3

\* A list that was read is put to use.
LEMMA UseKeeps ==
  ASSUME CfgTypeOK, Heap, Heads, Lists, cfgpc = "returned", Use
  PROVE  /\ CfgTypeOK' /\ Heap' /\ Heads' /\ Lists'
         /\ cfgpc' = "idle" /\ loaded' = text
         /\ \A a \in Items : owner[a] = "served" => owner'[a] = "served"
<1>1. /\ rblist' = first /\ loaded' = text /\ cfgpc' = "idle"
      /\ text' = <<>> /\ buf' = NoLine /\ first' = NULL /\ last' = NULL
      /\ UNCHANGED <<item, rbldomain, weight, next>>
      /\ owner' = [a \in Items |-> IF owner[a] = "new" THEN "served" ELSE owner[a]]
  BY DEF Use, cfg_done, nodeVars
<1>2. Heap'
  BY <1>1, NULLAssumption DEF Heap, CfgTypeOK, Pointers
<1>3. Heads'
  BY <1>1 DEF Heads, NoPred
<1>4. Lists'
  BY <1>1 DEF Lists, Owns, CfgTypeOK, Pointers
<1>5. CfgTypeOK'
  <2>1. owner' \in [Items -> {"free", "new", "served", "leaked"}]
    BY <1>1 DEF CfgTypeOK
  <2>2. \A b \in Items : owner'[b] \in {"new", "served"} => weight'[b] > 0
    BY <1>1 DEF CfgTypeOK
  <2> QED
    BY <1>1, <2>1, <2>2, NoLineWeight DEF CfgTypeOK, Pointers
<1> QED
  BY <1>1, <1>2, <1>3, <1>4, <1>5

\* cfg_free(&rblist) begins.
LEMMA FreeListKeeps ==
  ASSUME CfgTypeOK, Heap, Heads, Lists, cfgpc \in {"idle", "returned"}, FreeList
  PROVE  /\ CfgTypeOK' /\ Heap' /\ Heads' /\ Lists'
         /\ cfgpc' = "free" /\ UNCHANGED <<owner, rblist>>
<1>1. /\ cfgpc' = "free" /\ item' = rblist
      /\ UNCHANGED <<text, buf, first, last, rbldomain, weight, next, owner, rblist>>
  BY DEF FreeList, readVars, heapVars, nodeVars
<1>2. Heap' /\ Heads'
  BY <1>1, HeapStays
<1>3. Lists'
  BY <1>1 DEF Lists, Owns
<1>4. CfgTypeOK'
  BY <1>1 DEF CfgTypeOK, Pointers
<1> QED
  BY <1>1, <1>2, <1>3, <1>4

\* A worker's pointers stay good as long as nothing served is given back.
LEMMA ReadersStay ==
  ASSUME Readers, UNCHANGED <<wpc, rbl, resdata, overtaken>>,
         mpc' = "swap" => mpc = "swap",
         mpc \in {"teardown", "ended", "crashed"} => mpc' \in {"teardown", "ended", "crashed"},
         \A a \in Items : owner[a] = "served" => owner'[a] = "served"
  PROVE  Readers'
<1>1. ASSUME NEW w \in Workers, Held(w)
      PROVE  Held(w)'
  BY <1>1 DEF Held, Owns, Pointers
<1> QED
  BY <1>1 DEF Readers

\* cfg_read and cfg_free as steps of the main thread.
LEMMA ConfigureInv == IInv /\ Configure => IInv'
<1> SUFFICES ASSUME IInv, Configure PROVE IInv'
  OBVIOUS
<1>1. /\ CfgTypeOK /\ Heap /\ Heads /\ Lists /\ Control /\ Readers /\ TypeOK
  BY DEF IInv, TypeOK
<1>2. /\ mpc \notin {"ended", "crashed"} /\ wpc' = wpc
      /\ UNCHANGED <<mpc, appstate, workermgr, err, loaded, overtaken>>
  BY DEF Configure, Running, mainVars, workerVars, history
<1>3. CASE (cfg_read \/ FreeEnd) /\ UNCHANGED workerVars
  <2>1. /\ Heap' /\ Heads' /\ Lists' /\ CfgTypeOK'
        /\ \A a \in Items : owner[a] = "served" => owner'[a] = "served"
    <3>1. CASE AddItem
      BY <1>1, <3>1, AddItemHeap DEF AddItem, calloc, CfgTypeOK
    <3>2. CASE ~AddItem
      BY <1>1, <1>3, <3>2, ReadKeeps DEF cfg_read
    <3> QED
      BY <3>1, <3>2
  <2>2. Readers'
    BY <1>1, <1>2, <1>3, <2>1, ReadersStay DEF workerVars
  <2>3. Control'
    <3>1. rblist' = NULL \/ rblist' = rblist
      BY <1>3 DEF cfg_read, fopen, ReadLine, BadLine, BadWeight, AddItem, EndOfFile, FreeEnd,
                  err_cleanup, ParseLine
    <3>2. /\ cfgpc \in {"open", "read", "parse", "cleanup"} =>
                cfgpc' \in {"read", "parse", "cleanup", "returned"}
          /\ cfgpc = "free" => cfgpc' = "returned"
          /\ cfgpc \in {"open", "read", "parse", "cleanup", "free"}
      BY <1>3 DEF cfg_read, fopen, ReadLine, BadLine, BadWeight, AddItem, EndOfFile, FreeEnd,
                  err_cleanup, ParseLine, cfg_return
    <3> QED
      BY <1>1, <1>2, <3>1, <3>2 DEF Control
  <2>4. TypeOK'
    BY <1>1, <1>2, <1>3, <2>1 DEF TypeOK, workerVars
  <2> QED
    BY <2>1, <2>2, <2>3, <2>4 DEF IInv
<1>4. CASE /\ FreeItem
           /\ rbl' = [w \in Workers |-> IF rbl[w] = item THEN Dangling ELSE rbl[w]]
           /\ resdata' = [w \in Workers |-> ReplaceAll(resdata[w], item, Dangling)]
  <2>1. /\ Heap' /\ Heads' /\ Lists' /\ CfgTypeOK'
        /\ item \in Items /\ Owns(item, IF cfgpc = "cleanup" THEN "new" ELSE "served")
    BY <1>1, <1>4, FreeItemHeap
  <2>2. /\ owner' = [owner EXCEPT ![item] = "free"] /\ UNCHANGED <<cfgpc, rblist>>
        /\ cfgpc \in {"cleanup", "free"}
    BY <1>4 DEF FreeItem
  <2>3. Control'
    BY <1>1, <1>2, <2>2 DEF Control
  <2>4. TypeOK'
    <3>1. rbl' \in [Workers -> Pointers \cup {Dangling}]
      BY <1>1, <1>4 DEF TypeOK
    <3>2. ASSUME NEW w \in Workers
          PROVE  ReplaceAll(resdata[w], item, Dangling) \in Seq(Items \cup {Dangling})
      BY <1>1 DEF TypeOK, ReplaceAll
    <3> QED
      BY <1>1, <1>2, <1>4, <2>1, <3>1, <3>2 DEF TypeOK
  <2>5. Readers'
    <3>1. ASSUME NEW w \in Workers, resdata[w] = <<>>
          PROVE  resdata'[w] = <<>>
      BY <1>4, <3>1 DEF ReplaceAll
    <3>2. ASSUME NEW w \in Workers, mpc # "swap", Held(w), mpc # "teardown"
          PROVE  Held(w)'
      <4>1. owner[item] = "new"
        BY <1>1, <1>2, <2>1, <2>2, <3>2, NULLAssumption DEF Control, Owns, TypeOK
      <4>2. wpc[w] = "walk" => rbl'[w] = rbl[w] /\ (rbl[w] # NULL => owner'[rbl[w]] = "served")
        BY <1>1, <1>4, <2>1, <2>2, <3>2, <4>1 , NULLAssumption DEF Held, Owns, Pointers, CfgTypeOK
      <4>3. resdata[w] \in Seq(Items \cup {Dangling})
        BY <1>1 DEF TypeOK
      <4>4. ASSUME NEW i \in DOMAIN resdata[w]
            PROVE  resdata[w][i] # item /\ resdata[w][i] \in Items /\ owner'[resdata[w][i]] = "served"
        BY <1>1, <2>2, <3>2, <4>1, <4>4 DEF Held, CfgTypeOK
      <4>5. /\ DOMAIN resdata'[w] = DOMAIN resdata[w]
            /\ \A i \in DOMAIN resdata[w] : resdata'[w][i] = resdata[w][i]
        BY <1>4, <4>3, <4>4 DEF ReplaceAll
      <4> QED
        BY <1>2, <3>2, <4>2, <4>4, <4>5 DEF Held, Owns
    <3>3. ASSUME NEW w \in Workers, mpc = "swap", w \notin overtaken
          PROVE  Held(w)'
      <4>1. resdata'[w] = <<>> /\ wpc'[w] # "walk"
        BY <1>1, <1>2, <3>1, <3>3 DEF Readers
      <4> QED
        BY <4>1 DEF Held
    <3> QED
      BY <1>1, <1>2, <3>1, <3>2, <3>3 DEF Readers
  <2> QED
    BY <2>1, <2>3, <2>4, <2>5 DEF IInv
<1> QED
  BY <1>3, <1>4 DEF Configure

\* A step of a worker: the configuration stays, and its own pointers follow
\* the list.
LEMMA WorkerInv ==
  ASSUME IInv, NEW w \in Workers, worker_th(w)
  PROVE  IInv'
<1>1. /\ CfgTypeOK /\ Heap /\ Heads /\ Lists /\ Control /\ Readers /\ TypeOK
  BY DEF IInv, TypeOK
<1>2. /\ UNCHANGED <<cfgVars, appstate, workermgr, err, loaded>>
      /\ mpc \notin {"ended", "crashed"}
  BY DEF worker_th, BadRequest, Begin, Walk, WalkEnd, Collect, WorkerDone, WorkerCrash,
         Transition, Running, mainVars, history
<1>3. /\ CfgTypeOK' /\ Heap' /\ Heads' /\ Lists'
      /\ UNCHANGED <<owner, cfgpc, rblist, next>>
  BY <1>1, <1>2, CfgStays DEF cfgVars, heapVars, nodeVars
<1>4. CASE WorkerCrash(w)
  <2>1. mpc' = "crashed" /\ UNCHANGED <<wpc, rbl, resdata, overtaken>>
    BY <1>4 DEF WorkerCrash, workerVars, history
  <2>2. Readers'
    BY <1>1, <1>3, <2>1, ReadersStay
  <2> QED
    BY <1>1, <1>2, <1>3, <2>1, <2>2 DEF IInv, TypeOK, Control
<1>5. ASSUME ~WorkerCrash(w)
      PROVE  IInv'
  <2>1. /\ mpc' = mpc
        /\ \E to \in {"idle", "walk", "collect"} : wpc' = [wpc EXCEPT ![w] = to]
        /\ \A v \in Workers \ {w} : rbl'[v] = rbl[v] /\ resdata'[v] = resdata[v]
        /\ overtaken' \in {overtaken, overtaken \cup {w}, overtaken \ {w}}
    BY <1>1, <1>5 DEF worker_th, BadRequest, Begin, Walk, WalkEnd, Collect, WorkerDone,
         Transition, mainVars, history, TypeOK
  <2>2. Control'
    BY <1>1, <1>3, <2>1 DEF Control
  <2>3. /\ rbl' \in [Workers -> Pointers \cup {Dangling}]
        /\ resdata' \in [Workers -> Seq(Items \cup {Dangling})]
    <3>1. /\ rbl \in [Workers -> Pointers \cup {Dangling}]
          /\ resdata \in [Workers -> Seq(Items \cup {Dangling})]
          /\ rblist \in Pointers /\ next \in [Items -> Pointers]
      BY <1>1 DEF TypeOK, CfgTypeOK
    <3>2. CASE BadRequest(w) \/ WalkEnd(w) \/ WorkerDone(w)
      BY <3>1, <3>2 DEF BadRequest, WalkEnd, WorkerDone
    <3>3. CASE Begin(w)
      BY <3>1, <3>3 DEF Begin
    <3>4. CASE Walk(w)
      <4>1. Append(resdata[w], rbl[w]) \in Seq(Items \cup {Dangling})
        BY <3>1, <3>4 DEF Walk
      <4>2. next[rbl[w]] \in Pointers
        BY <3>1, <3>4 DEF Walk
      <4> QED
        BY <3>1, <3>4, <4>1, <4>2 DEF Walk
    <3>5. CASE Collect(w)
      <4>1. Tail(resdata[w]) \in Seq(Items \cup {Dangling})
        BY <3>1, <3>5 DEF Collect
      <4> QED
        BY <3>1, <3>5, <4>1 DEF Collect
    <3> QED
      BY <1>5, <3>2, <3>3, <3>4, <3>5 DEF worker_th
  <2>4. TypeOK'
    BY <1>1, <1>2, <1>3, <2>1, <2>3 DEF TypeOK
  <2>5. wpc'[w] \in {"idle", "begin"} => resdata'[w] = <<>>
    BY <1>1, <1>5 DEF worker_th, BadRequest, Begin, Walk, WalkEnd, Collect, WorkerDone,
         Transition, TypeOK, Readers
  <2>6. mpc = "swap" /\ w \notin overtaken' => wpc'[w] \in {"idle", "begin"}
    BY <1>1, <1>5 DEF worker_th, BadRequest, Begin, Walk, WalkEnd, Collect, WorkerDone,
         Transition, TypeOK, Readers, history
  <2>7. ASSUME mpc # "teardown", w \notin overtaken'
        PROVE  Held(w)'
    <3>1. CASE BadRequest(w) \/ WorkerDone(w)
      BY <1>1, <3>1 DEF BadRequest, WorkerDone, Transition, Held, TypeOK, Readers
    <3>2. CASE Begin(w)
      <4>1. /\ mpc # "swap" /\ wpc[w] = "begin" /\ resdata' = resdata
            /\ rbl'[w] = IF rblist \in Items \ Live THEN Dangling ELSE rblist
        BY <1>1, <2>7, <3>2 DEF Begin, Transition, TypeOK
      <4>2. rblist \in Pointers /\ Owns(rblist, "served")
        BY <1>1, <1>2, <2>7, <4>1 DEF Lists, Control, TypeOK, CfgTypeOK
      <4>3. rbl'[w] = rblist
        BY <4>1, <4>2, NULLAssumption DEF Owns, Live, Pointers
      <4>4. resdata'[w] = <<>>
        BY <1>1, <4>1 DEF Readers
      <4> QED
        BY <1>3, <4>2, <4>3, <4>4 DEF Held, Owns
    <3>3. CASE Walk(w)
      <4>1. /\ wpc[w] = "walk" /\ rbl[w] \in Items /\ w \notin overtaken
            /\ resdata'[w] = Append(resdata[w], rbl[w])
            /\ rbl'[w] = next[rbl[w]]
        BY <1>1, <2>7, <3>3 DEF Walk, Transition, TypeOK, history
      <4>2. Held(w)
        BY <1>1, <1>2, <2>7, <4>1 DEF Readers
      <4>3. owner[rbl[w]] = "served"
        BY <4>1, <4>2, NULLAssumption DEF Held, Owns
      <4>4. next[rbl[w]] \in Pointers /\ Owns(next[rbl[w]], "served")
        BY <1>1, <4>1, <4>3 DEF Heap, Owns, CfgTypeOK
      <4>5. resdata[w] \in Seq(Items \cup {Dangling})
        BY <1>1 DEF TypeOK
      <4>6. \A i \in DOMAIN resdata'[w] :
              resdata'[w][i] \in Items /\ owner[resdata'[w][i]] = "served"
        BY <4>1, <4>2, <4>3, <4>5 DEF Held
      <4> QED
        BY <1>3, <4>1, <4>4, <4>6 DEF Held, Owns
    <3>4. CASE WalkEnd(w) \/ Collect(w)
      <4>1. /\ wpc[w] \in {"walk", "collect"} /\ wpc'[w] = "collect" /\ w \notin overtaken
            /\ \/ resdata'[w] = resdata[w]
               \/ resdata[w] # <<>> /\ resdata'[w] = Tail(resdata[w])
        BY <1>1, <2>7, <3>4 DEF WalkEnd, Collect, Transition, TypeOK, history
      <4>2. Held(w)
        BY <1>1, <1>2, <2>7, <4>1 DEF Readers
      <4>3. resdata[w] \in Seq(Items \cup {Dangling})
        BY <1>1 DEF TypeOK
      <4>4. \A i \in DOMAIN resdata'[w] :
              resdata'[w][i] \in Items /\ owner[resdata'[w][i]] = "served"
        <5>1. \A i \in DOMAIN resdata[w] :
                resdata[w][i] \in Items /\ owner[resdata[w][i]] = "served"
          BY <4>2 DEF Held
        <5>2. CASE resdata'[w] = resdata[w]
          BY <5>1, <5>2
        <5>3. CASE resdata[w] # <<>> /\ resdata'[w] = Tail(resdata[w])
          <6>1. \A i \in DOMAIN Tail(resdata[w]) :
                  i + 1 \in DOMAIN resdata[w] /\ Tail(resdata[w])[i] = resdata[w][i + 1]
            BY <4>3, <5>3
          <6> QED
            BY <5>1, <5>3, <6>1
        <5> QED
          BY <4>1, <5>2, <5>3
      <4> QED
        BY <1>3, <4>1, <4>4 DEF Held
    <3> QED
      BY <1>5, <3>1, <3>2, <3>3, <3>4 DEF worker_th
  <2>8. ASSUME NEW v \in Workers, v # w
        PROVE  /\ wpc'[v] = wpc[v] /\ resdata'[v] = resdata[v]
               /\ v \in overtaken' <=> v \in overtaken
               /\ Held(v) => Held(v)'
    <3>1. wpc'[v] = wpc[v] /\ resdata'[v] = resdata[v] /\ rbl'[v] = rbl[v]
      BY <1>1, <2>1, <2>8 DEF TypeOK
    <3> QED
      BY <1>3, <2>1, <2>8, <3>1 DEF Held, Owns
  <2>9. Readers'
    BY <1>1, <2>1, <2>5, <2>6, <2>7, <2>8 DEF Readers
  <2> QED
    BY <1>3, <2>2, <2>4, <2>9 DEF IInv
<1> QED
  BY <1>4, <1>5

-----------------------------------------------------------------------------
(*                              The invariant                              *)

\* Every step keeps it.
LEMMA NextInv == IInv /\ [Next]_vars => IInv'
<1> SUFFICES ASSUME IInv, [Next]_vars PROVE IInv'
  OBVIOUS
<1>1. /\ CfgTypeOK /\ Heap /\ Heads /\ Lists /\ Control /\ Readers /\ TypeOK
  BY DEF IInv, TypeOK
<1>2. CASE UNCHANGED vars
  <2>1. CfgTypeOK' /\ Heap' /\ Heads' /\ Lists'
    BY <1>1, <1>2, CfgStays DEF vars
  <2>2. UNCHANGED <<cfgpc, owner, rblist, mainVars, workerVars, history>>
    BY <1>2 DEF vars, cfgVars, heapVars
  <2>3. Readers'
    BY <1>1, <2>2, ReadersStay DEF mainVars, workerVars, history
  <2> QED
    BY <1>1, <2>1, <2>2, <2>3 DEF IInv, TypeOK, Control, mainVars, workerVars, history
<1>3. CASE Started
  <2>1. /\ mpc = "startup" /\ cfgpc = "returned" /\ mpc' \in {"loop", "ended"}
        /\ UNCHANGED <<appstate, workermgr, err, wpc, rbl, resdata, overtaken>>
    BY <1>3 DEF Started, workerVars
  <2>2. /\ CfgTypeOK' /\ Heap' /\ Heads' /\ Lists'
        /\ \A a \in Items : owner[a] = "served" => owner'[a] = "served"
        /\ mpc' = "loop" => cfgpc' = "idle"
        /\ loaded' \in Texts \cup {<<>>}
    <3>1. CASE Use /\ mpc' = "loop"
      BY <1>1, <2>1, <3>1, UseKeeps DEF CfgTypeOK
    <3>2. CASE mpc' = "ended" /\ UNCHANGED <<cfgVars, loaded>>
      <4>1. UNCHANGED owner
        BY <3>2 DEF cfgVars, heapVars
      <4> QED
        BY <1>1, <2>1, <3>2, <4>1, CfgStays DEF TypeOK
    <3> QED
      BY <1>3, <3>1, <3>2 DEF Started
  <2>3. Readers'
    BY <1>1, <2>1, <2>2, ReadersStay
  <2> QED
    BY <1>1, <2>1, <2>2, <2>3 DEF IInv, TypeOK, Control
<1>4. CASE LoopTest \/ AcceptFails
  <2>1. /\ mpc \in {"loop", "accept"} /\ cfgpc = "idle"
        /\ UNCHANGED <<appstate, workermgr, err, wpc, rbl, resdata, loaded, overtaken>>
    BY <1>1, <1>4 DEF LoopTest, AcceptFails, workerVars, history, Control
  <2>2. \/ mpc' \in {"loop", "accept"} /\ UNCHANGED cfgVars
        \/ mpc' = "teardown" /\ FreeList
    BY <1>4 DEF LoopTest, AcceptFails
  <2>3. /\ CfgTypeOK' /\ Heap' /\ Heads' /\ Lists' /\ Control' /\ UNCHANGED owner
    <3>1. CASE mpc' \in {"loop", "accept"} /\ UNCHANGED cfgVars
      <4>1. UNCHANGED <<owner, cfgpc, rblist>>
        BY <3>1 DEF cfgVars, heapVars
      <4> QED
        BY <1>1, <2>1, <3>1, <4>1, CfgStays DEF Control
    <3>2. CASE mpc' = "teardown" /\ FreeList
      BY <1>1, <2>1, <3>2, FreeListKeeps DEF Control
    <3> QED
      BY <2>2, <3>1, <3>2
  <2>4. Readers'
    BY <1>1, <2>1, <2>2, <2>3, ReadersStay
  <2> QED
    BY <1>1, <2>1, <2>2, <2>3, <2>4 DEF IInv, TypeOK
<1>5. CASE AcceptRequest
  <2>1. /\ mpc = "accept" /\ mpc' = "loop" /\ workermgr' = TRUE
        /\ \/ \E w \in Workers : wpc[w] = "idle" /\ wpc' = [wpc EXCEPT ![w] = "begin"]
           \/ wpc' = wpc
        /\ UNCHANGED <<cfgVars, appstate, err, rbl, resdata, loaded, overtaken>>
    BY <1>5, Zenon DEF AcceptRequest, history
  <2>2. CfgTypeOK' /\ Heap' /\ Heads' /\ Lists' /\ UNCHANGED <<owner, cfgpc>>
    BY <1>1, <2>1, CfgStays DEF cfgVars, heapVars
  <2>3. TypeOK'
    BY <1>1, <2>1, <2>2 DEF TypeOK
  <2>4. Readers'
    BY <1>1, <2>1, <2>2 DEF Readers, Held, Owns, TypeOK
  <2>5. Control'
    BY <1>1, <2>1, <2>2 DEF Control
  <2> QED
    BY <2>2, <2>3, <2>4, <2>5 DEF IInv
<1>6. CASE AcceptOther \/ WaitWithoutMgr \/ WaitRound \/ sigterm \/ Hangup
  <2>1. /\ \/ mpc' = mpc
           \/ mpc = "accept" /\ mpc' \in {"loop", "wait"}
           \/ mpc = "wait" /\ mpc' = "ended"
        /\ appstate' \in {"RUN", "RELOAD", "EXIT"} /\ err' \in 0..Rounds
        /\ UNCHANGED <<cfgVars, workermgr, wpc, rbl, resdata, loaded, overtaken>>
    BY <1>1, <1>6, RoundsAssumption
       DEF AcceptOther, WaitWithoutMgr, WaitRound, sigterm, Hangup, workerVars, history, TypeOK
  <2>2. CfgTypeOK' /\ Heap' /\ Heads' /\ Lists' /\ UNCHANGED <<owner, cfgpc, rblist>>
    BY <1>1, <2>1, CfgStays DEF cfgVars, heapVars
  <2>3. Readers'
    BY <1>1, <2>1, <2>2, ReadersStay
  <2> QED
    BY <1>1, <2>1, <2>2, <2>3 DEF IInv, TypeOK, Control
<1>7. CASE WaitEnd
  <2>1. /\ mpc = "wait" /\ mpc' \in {"loop", "reload"} /\ cfgpc = "idle"
        /\ cfgpc' = IF mpc' = "loop" THEN "idle" ELSE "open"
        /\ appstate' \in {"RUN", appstate} /\ err' = 0
        /\ UNCHANGED <<text, buf, first, last, item, rbldomain, weight, next, owner, rblist>>
        /\ UNCHANGED <<workermgr, wpc, rbl, resdata, loaded, overtaken>>
    BY <1>1, <1>7 DEF WaitEnd, cfgVars, readVars, heapVars, nodeVars, workerVars, history, Control
  <2>2. Heap' /\ Heads'
    BY <1>1, <2>1, HeapStays
  <2>3. Lists' /\ Control'
    BY <1>1, <2>1 DEF Lists, Owns, Control
  <2>4. CfgTypeOK'
    BY <1>1, <2>1 DEF CfgTypeOK
  <2>5. Readers'
    BY <1>1, <2>1, ReadersStay
  <2> QED
    BY <1>1, <2>1, <2>2, <2>3, <2>4, <2>5, RoundsAssumption DEF IInv, TypeOK
<1>8. CASE NewList
  <2>1. /\ mpc = "reload" /\ cfgpc = "returned"
        /\ UNCHANGED <<workermgr, err, wpc, rbl, resdata, loaded>>
    BY <1>8 DEF NewList, workerVars
  <2>2. CASE first = NULL /\ mpc' = "loop"
    <3>1. /\ cfgpc' = "idle" /\ appstate' = "RUN"
          /\ text' = <<>> /\ buf' = NoLine /\ first' = NULL /\ last' = NULL
          /\ UNCHANGED <<item, rbldomain, weight, next, owner, rblist, overtaken>>
      BY <1>8, <2>2 DEF NewList, cfg_done, nodeVars
    <3>2. Heap' /\ Heads'
      BY <1>1, <3>1, HeapStays
    <3>3. Lists' /\ Control'
      BY <1>1, <2>1, <2>2, <3>1 DEF Lists, Owns, Control
    <3>4. CfgTypeOK'
      BY <1>1, <3>1, NoLineWeight DEF CfgTypeOK, Pointers
    <3>5. Readers'
      BY <1>1, <2>1, <2>2, <3>1, ReadersStay
    <3> QED
      BY <1>1, <2>1, <2>2, <3>1, <3>2, <3>3, <3>4, <3>5 DEF IInv, TypeOK
  <2>3. CASE ~(first = NULL /\ mpc' = "loop")
    <3>1. /\ mpc' = "swap" /\ FreeList /\ appstate' = appstate
          /\ overtaken' = {w \in Workers : wpc[w] \in {"walk", "collect"}}
      BY <1>8, <2>3 DEF NewList
    <3>2. /\ CfgTypeOK' /\ Heap' /\ Heads' /\ Lists'
          /\ cfgpc' = "free" /\ UNCHANGED <<owner, rblist>>
      BY <1>1, <2>1, <3>1, FreeListKeeps
    <3>3. TypeOK' /\ Control'
      BY <1>1, <2>1, <3>1, <3>2 DEF TypeOK, Control
    <3>4. Readers'
      <4>1. ASSUME NEW w \in Workers, w \notin overtaken'
            PROVE  wpc'[w] \in {"idle", "begin"} /\ resdata'[w] = <<>>
        BY <1>1, <2>1, <3>1, <4>1 DEF TypeOK, Readers
      <4>2. ASSUME NEW w \in Workers, w \notin overtaken'
            PROVE  Held(w)'
        BY <4>1, <4>2 DEF Held
      <4> QED
        BY <1>1, <2>1, <4>1, <4>2 DEF Readers
    <3> QED
      BY <3>2, <3>3, <3>4 DEF IInv
  <2> QED
    BY <2>2, <2>3
<1>9. CASE Swap
  <2>1. /\ mpc = "swap" /\ cfgpc = "returned" /\ Use /\ mpc' = "loop" /\ appstate' = "RUN"
        /\ UNCHANGED <<workermgr, err, wpc, rbl, resdata, overtaken>>
    BY <1>9 DEF Swap, workerVars
  <2>2. /\ CfgTypeOK' /\ Heap' /\ Heads' /\ Lists'
        /\ cfgpc' = "idle" /\ loaded' = text
        /\ \A a \in Items : owner[a] = "served" => owner'[a] = "served"
    BY <1>1, <2>1, UseKeeps
  <2>3. Readers'
    BY <1>1, <2>1, <2>2, ReadersStay
  <2>4. loaded' \in Texts \cup {<<>>}
    BY <1>1, <2>2 DEF CfgTypeOK
  <2> QED
    BY <1>1, <2>1, <2>2, <2>3, <2>4 DEF IInv, TypeOK, Control
<1>10. CASE Return
  <2>1. /\ mpc = "teardown" /\ mpc' = "ended" /\ UNCHANGED cfgVars
        /\ UNCHANGED <<appstate, workermgr, err, wpc, rbl, resdata, loaded, overtaken>>
    BY <1>10 DEF Return, workerVars, history
  <2>2. CfgTypeOK' /\ Heap' /\ Heads' /\ Lists' /\ UNCHANGED <<owner, cfgpc, rblist>>
    BY <1>1, <2>1, CfgStays DEF cfgVars, heapVars
  <2>3. Readers'
    BY <1>1, <2>1, <2>2, ReadersStay
  <2> QED
    BY <1>1, <2>1, <2>2, <2>3 DEF IInv, TypeOK, Control
<1>11. CASE Configure
  BY <1>11, ConfigureInv
<1>12. ASSUME NEW w \in Workers, worker_th(w)
       PROVE  IInv'
  BY <1>12, WorkerInv
<1> QED
  BY <1>2, <1>3, <1>4, <1>5, <1>6, <1>7, <1>8, <1>9, <1>10, <1>11, <1>12
     DEF Next, Main, thr_waitcomplete, Done

\* So it holds as long as the program runs.
LEMMA Invariance == Spec => []IInv
<1>1. Init => IInv
  BY InitInv
<1>2. IInv /\ [Next]_vars => IInv'
  BY NextInv
<1> QED
  BY <1>1, <1>2, PTL DEF Spec

-----------------------------------------------------------------------------
(*                            Nothing is forgotten                         *)
(*                                                                         *)
(* An owner's items are reached from the head of its chain: every set that *)
(* holds the head and is closed under next holds them.  Adding an item     *)
(* lengthens the chain at its end, freeing one moves the head past it.     *)

Covers(nx, p, S) == p \in S \cup {NULL} /\ \A b \in S : nx[b] \in S \cup {NULL}
Reached(nx, p, T) == \A S \in SUBSET Items : Covers(nx, p, S) => T \subseteq S

\* What a list leaves behind when it has been freed.
Gone == mpc \in {"swap", "teardown"} /\ cfgpc = "returned" => rblist = NULL

Kept ==
  Running =>
    /\ Gone
    /\ Reached(next, ServedHead, Owned("served"))
    /\ Reached(next, NewHead, Owned("new"))

\* Both heads are those of their owners' chains.
LEMMA HeadsOwn ==
  ASSUME IInv
  PROVE  Owns(ServedHead, "served") /\ Owns(NewHead, "new")
BY DEF IInv, Lists, Control, ServedHead, NewHead, Owns

\* No chain has an item that is not its owner's.
LEMMA ChainIsOwned ==
  ASSUME IInv, NEW o, NEW p \in Pointers, Owns(p, o)
  PROVE  ChainSet(p) \subseteq Owned(o)
<1>1. Owned(o) \in SUBSET Items /\ p \in Owned(o) \cup {NULL}
  BY DEF Owned, Owns, Pointers
<1>2. \A b \in Owned(o) : next[b] \in Owned(o) \cup {NULL}
  BY DEF IInv, Heap, Owned, TypeOK, CfgTypeOK, Pointers
<1> QED
  BY <1>1, <1>2 DEF ChainSet

\* The memory stays, and the heads with it.
LEMMA KeptStays ==
  ASSUME Kept, UNCHANGED <<next, owner>>, Running,
         ServedHead' = ServedHead, NewHead' = NewHead, Gone'
  PROVE  Kept'
BY DEF Kept, Reached, Covers, Owned

\* The chain of an owner that the step is not about.
LEMMA OthersReached ==
  ASSUME IInv, NEW o, NEW p, Owns(p, o), Reached(next, p, Owned(o)),
         Owned(o)' = Owned(o), \A b \in Owned(o) : next'[b] = next[b]
  PROVE  Reached(next', p, Owned(o)')
<1> SUFFICES ASSUME NEW S \in SUBSET Items, Covers(next', p, S)
             PROVE  Owned(o) \subseteq S
  BY DEF Reached
<1>1. S \cap Owned(o) \in SUBSET Items
  OBVIOUS
<1>2. p \in (S \cap Owned(o)) \cup {NULL}
  BY DEF Covers, Owns, Owned
<1>3. ASSUME NEW b \in S \cap Owned(o)
      PROVE  next[b] \in (S \cap Owned(o)) \cup {NULL}
  <2>1. next[b] \in S \cup {NULL}
    BY <1>3 DEF Covers
  <2>2. next[b] # NULL => next[b] \in Owned(o)
    BY <1>3, <2>1 DEF IInv, Heap, Owned
  <2> QED
    BY <2>1, <2>2
<1>4. Covers(next, p, S \cap Owned(o))
  BY <1>2, <1>3 DEF Covers
<1> QED
  BY <1>1, <1>4 DEF Reached

\* AddItem: behind the last item, which is reached.
LEMMA AddReached ==
  ASSUME IInv, Kept, Running, AddItem, mpc' = mpc
  PROVE  Kept'
<1>1. /\ mpc \in {"startup", "reload"} /\ cfgpc = "parse" /\ cfgpc' = "read" /\ rblist' = rblist
  BY DEF AddItem, ParseLine, IInv, Control, TypeOK, Running
<1>2. PICK a \in Items :
        /\ owner[a] = "free"
        /\ owner' = [owner EXCEPT ![a] = "new"]
        /\ next' = [b \in Items |-> IF b = a THEN NULL ELSE IF b = last THEN a ELSE next[b]]
        /\ first' = (IF first = NULL THEN a ELSE first)
  BY DEF AddItem, calloc, Link
<1>3. /\ \A b \in Items : next[b] # a
      /\ last # NULL => last \in Owned("new") /\ next[last] = NULL
      /\ first # NULL => first \in Owned("new")
      /\ first = NULL <=> last = NULL
      /\ a \notin Owned("new") /\ a \notin Owned("served")
  <2>1. CfgTypeOK /\ Heap /\ Lists
    BY DEF IInv, TypeOK
  <2>2. \A b \in Items : next[b] # a
    BY <1>2, <2>1, NULLAssumption DEF Heap, CfgTypeOK, Pointers
  <2> QED
    BY <1>1, <1>2, <2>1, <2>2 DEF Lists, Owns, Owned, CfgTypeOK, Pointers
<1>4. NewHead = first /\ NewHead' = first' /\ ServedHead = rblist /\ ServedHead' = rblist
  BY <1>1 DEF NewHead, ServedHead
<1>5. Owned("new")' = Owned("new") \cup {a} /\ Owned("served")' = Owned("served")
  BY <1>2 DEF Owned, IInv, TypeOK, CfgTypeOK
<1>6. Reached(next', ServedHead', Owned("served")')
  <2>1. \A b \in Owned("served") : next'[b] = next[b]
    BY <1>2, <1>3, NULLAssumption DEF Owned, Pointers
  <2> QED
    BY <1>4, <1>5, <2>1, HeadsOwn, OthersReached DEF Kept
<1>7. Reached(next', NewHead', Owned("new")')
  <2> SUFFICES ASSUME NEW S \in SUBSET Items, Covers(next', first', S)
               PROVE  Owned("new") \cup {a} \subseteq S
    BY <1>4, <1>5 DEF Reached
  <2> DEFINE R == S \ {a}
  <2>1. first \in R \cup {NULL}
    BY <1>2, <1>3 DEF Covers
  <2>2. ASSUME NEW b \in R
        PROVE  next[b] \in R \cup {NULL}
    <3>1. CASE b = last
      BY <1>3, <2>2, <3>1, NULLAssumption DEF Pointers
    <3>2. CASE b # last
      <4>1. next'[b] = next[b]
        BY <1>2, <2>2, <3>2
      <4> QED
        BY <1>3, <2>2, <4>1 DEF Covers
    <3> QED
      BY <3>1, <3>2
  <2>3. Owned("new") \subseteq R
    BY <1>4, <2>1, <2>2 DEF Kept, Reached, Covers
  <2>4. a \in S
    <3>1. CASE first = NULL
      BY <1>2, <3>1, NULLAssumption DEF Covers
    <3>2. CASE first # NULL
      <4>1. last \in S /\ last # a /\ last \in Items
        BY <1>3, <2>3, <3>2
      <4>2. next'[last] = a
        BY <1>2, <4>1
      <4> QED
        BY <1>2, <4>1, <4>2, NULLAssumption DEF Covers
    <3> QED
      BY <3>1, <3>2
  <2> QED
    BY <2>3, <2>4
<1>8. Gone'
  BY <1>1 DEF Gone
<1> QED
  BY <1>6, <1>7, <1>8 DEF Kept

\* FreeItem: what is left is reached from the next one.
LEMMA FreeReached ==
  ASSUME IInv, Kept, Running, FreeItem, mpc' = mpc
  PROVE  Kept'
<1>1. CfgTypeOK /\ Heap /\ Heads /\ Lists /\ Control
  BY DEF IInv, TypeOK
<1>2. /\ cfgpc \in {"cleanup", "free"} /\ cfgpc' = cfgpc
      /\ item \in Items /\ item # NULL /\ item' = next[item]
      /\ owner' = [owner EXCEPT ![item] = "free"]
      /\ next' = [next EXCEPT ![item] = NULL]
      /\ first' = first /\ rblist' = rblist
  BY <1>1 DEF FreeItem, readVars, CfgTypeOK, Pointers
<1>3. owner[item] = IF cfgpc = "cleanup" THEN "new" ELSE "served"
  BY <1>1, <1>2 DEF Lists, Owns
<1>4. /\ cfgpc = "cleanup" => /\ NewHead = item /\ NewHead' = item'
                              /\ ServedHead = rblist /\ ServedHead' = rblist
      /\ cfgpc = "free" => /\ ServedHead = item /\ ServedHead' = item'
                           /\ NewHead' = NewHead
  BY <1>2 DEF ServedHead, NewHead
<1>5. ASSUME NEW o, owner[item] = o, o # "free", Reached(next, item, Owned(o))
      PROVE  Reached(next', item', Owned(o)')
  <2>1. Owned(o)' = Owned(o) \ {item}
    BY <1>1, <1>2, <1>5 DEF Owned, CfgTypeOK
  <2> SUFFICES ASSUME NEW S \in SUBSET Items, Covers(next', item', S)
               PROVE  Owned(o) \ {item} \subseteq S
    BY <2>1 DEF Reached
  <2>2. \A b \in S \cup {item} : next[b] \in S \cup {item, NULL}
    BY <1>1, <1>2 DEF Covers, CfgTypeOK
  <2>3. Covers(next, item, S \cup {item})
    BY <2>2 DEF Covers
  <2>4. S \cup {item} \in SUBSET Items
    BY <1>2
  <2> QED
    BY <1>5, <2>3, <2>4 DEF Reached
<1>6. ASSUME NEW o, owner[item] # o, o # "free", NEW p, Owns(p, o), Reached(next, p, Owned(o))
      PROVE  Reached(next', p, Owned(o)')
  <2>1. Owned(o)' = Owned(o) /\ \A b \in Owned(o) : next'[b] = next[b]
    BY <1>1, <1>2, <1>6 DEF Owned, CfgTypeOK
  <2> QED
    BY <1>6, <2>1, OthersReached
<1>7. Gone'
  BY <1>2 DEF Gone
<1>8. CASE cfgpc = "cleanup"
  <2>1. Reached(next', NewHead', Owned("new")')
    BY <1>3, <1>4, <1>5, <1>8 DEF Kept
  <2>2. Reached(next', ServedHead', Owned("served")')
    BY <1>3, <1>4, <1>6, <1>8, HeadsOwn DEF Kept
  <2> QED
    BY <1>7, <2>1, <2>2 DEF Kept
<1>9. CASE cfgpc = "free"
  <2>1. Reached(next', ServedHead', Owned("served")')
    BY <1>3, <1>4, <1>5, <1>9 DEF Kept
  <2>2. Reached(next', NewHead', Owned("new")')
    BY <1>3, <1>4, <1>6, <1>9, HeadsOwn DEF Kept
  <2> QED
    BY <1>7, <2>1, <2>2 DEF Kept
<1> QED
  BY <1>2, <1>8, <1>9

\* Use: nothing of the list before it is there, and the new one takes its place.
LEMMA UseReached ==
  ASSUME IInv, Kept, Running, Use, cfgpc = "returned", rblist = NULL,
         mpc \in {"startup", "swap"}, mpc' = "loop"
  PROVE  Kept'
<1>1. /\ rblist' = first /\ cfgpc' = "idle" /\ UNCHANGED next
      /\ owner' = [a \in Items |-> IF owner[a] = "new" THEN "served" ELSE owner[a]]
  BY DEF Use, cfg_done, nodeVars
<1>2. ServedHead = NULL /\ NewHead = first /\ ServedHead' = first /\ NewHead' = NULL
  BY <1>1 DEF ServedHead, NewHead
<1>3. Owned("served") = {}
  <2>1. Covers(next, NULL, {})
    BY DEF Covers
  <2> QED
    BY <1>2, <2>1 DEF Kept, Reached
<1>4. Owned("served")' = Owned("new") /\ Owned("new")' = {}
  BY <1>1, <1>3 DEF Owned
<1>5. Reached(next', NewHead', Owned("new")') /\ Reached(next', ServedHead', Owned("served")')
  BY <1>1, <1>2, <1>4 DEF Kept, Reached
<1> QED
  BY <1>5 DEF Kept, Gone

\* Every step keeps what is allocated in reach.
LEMMA KeptNext == IInv /\ Kept /\ [Next]_vars => Kept'
<1> SUFFICES ASSUME IInv, Kept, [Next]_vars PROVE Kept'
  OBVIOUS
<1>0. Running' => Running
  BY DEF Next, Main, Started, LoopTest, AcceptFails, AcceptRequest, AcceptOther,
         thr_waitcomplete, WaitWithoutMgr, WaitRound, WaitEnd, NewList, Swap, Return, Configure,
         sigterm, Hangup, Serving, worker_th, BadRequest, Begin, Walk, WalkEnd, Collect,
         WorkerDone, WorkerCrash, Transition, Done, Running, vars, mainVars
<1> SUFFICES ASSUME Running, Running' PROVE Kept'
  BY <1>0 DEF Kept
<1>1. Control /\ Lists /\ Gone
  BY DEF IInv, Kept
<1>2. CASE UNCHANGED cfgVars /\ mpc' = mpc
  <2>1. UNCHANGED <<cfgpc, item, first, next, owner, rblist>>
    BY <1>2 DEF cfgVars, readVars, heapVars, nodeVars
  <2>2. ServedHead' = ServedHead /\ NewHead' = NewHead /\ Gone'
    BY <1>1, <1>2, <2>1 DEF ServedHead, NewHead, Gone
  <2> QED
    BY <2>1, <2>2, KeptStays
<1>3. CASE UNCHANGED cfgVars /\ mpc \in {"loop", "accept", "wait"} /\ mpc' \in {"loop", "accept", "wait"}
  <2>1. UNCHANGED <<cfgpc, item, first, next, owner, rblist>>
    BY <1>3 DEF cfgVars, readVars, heapVars, nodeVars
  <2>2. ServedHead' = ServedHead /\ NewHead' = NewHead /\ Gone'
    BY <1>1, <1>3, <2>1 DEF ServedHead, NewHead, Gone, Control
  <2> QED
    BY <2>1, <2>2, KeptStays
<1>4. CASE FreeList /\ mpc' = "teardown" /\ mpc \in {"loop", "accept"}
  <2>1. cfgpc = "idle" /\ cfgpc' = "free" /\ item' = rblist /\ UNCHANGED <<next, owner>>
    BY <1>1, <1>4 DEF FreeList, Control, heapVars, nodeVars
  <2>2. ServedHead' = ServedHead /\ NewHead' = NewHead /\ Gone'
    BY <1>4, <2>1 DEF ServedHead, NewHead, Gone
  <2> QED
    BY <2>1, <2>2, KeptStays
<1>5. CASE Started
  BY <1>1, <1>5, UseReached DEF Started, Control, Running
<1>6. CASE WaitEnd /\ mpc' = "reload"
  <2>1. cfgpc = "idle" /\ cfgpc' = "open" /\ mpc = "wait" /\ UNCHANGED <<next, owner, rblist>>
    BY <1>1, <1>6 DEF WaitEnd, Control, heapVars, nodeVars
  <2>2. ServedHead' = ServedHead /\ NewHead' = NewHead /\ Gone'
    BY <1>6, <2>1 DEF ServedHead, NewHead, Gone
  <2> QED
    BY <2>1, <2>2, KeptStays
<1>7. CASE NewList
  <2>1. mpc = "reload" /\ cfgpc = "returned" /\ ServedHead = rblist /\ NewHead = first
    BY <1>7 DEF NewList, ServedHead, NewHead
  <2>2. CASE first = NULL /\ mpc' = "loop" /\ cfg_done /\ UNCHANGED <<owner, rblist>>
    <3>1. cfgpc' = "idle" /\ UNCHANGED <<next, owner, rblist>>
      BY <2>2 DEF cfg_done, nodeVars
    <3>2. ServedHead' = ServedHead /\ NewHead' = NewHead /\ Gone'
      BY <2>1, <2>2, <3>1 DEF ServedHead, NewHead, Gone
    <3> QED
      BY <3>1, <3>2, KeptStays
  <2>3. CASE mpc' = "swap" /\ FreeList
    <3>1. cfgpc' = "free" /\ item' = rblist /\ UNCHANGED <<next, owner, first>>
      BY <2>3 DEF FreeList, readVars, heapVars, nodeVars
    <3>2. ServedHead' = ServedHead /\ NewHead' = NewHead /\ Gone'
      BY <2>1, <2>3, <3>1 DEF ServedHead, NewHead, Gone
    <3> QED
      BY <3>1, <3>2, KeptStays
  <2> QED
    BY <1>7, <2>2, <2>3 DEF NewList
<1>8. CASE Swap
  BY <1>1, <1>8, UseReached DEF Swap, Gone
<1>9. CASE Configure
  <2>1. mpc' = mpc
    BY <1>9 DEF Configure, mainVars
  <2>2. CASE FreeItem
    BY <2>1, <2>2, FreeReached
  <2>3. CASE AddItem
    BY <2>1, <2>3, AddReached
  <2>4. CASE fopen \/ ReadLine \/ BadLine \/ EndOfFile \/ FreeEnd
    <3>1. UNCHANGED <<next, owner>>
      BY <2>4 DEF fopen, ReadLine, BadLine, EndOfFile, FreeEnd, heapVars, nodeVars
    <3>2. CASE fopen
      BY <1>1, <2>1, <3>1, <3>2, KeptStays DEF fopen, cfg_return, ServedHead, NewHead, Gone, Lists, Control
    <3>3. CASE ReadLine
      BY <1>1, <2>1, <3>1, <3>3, KeptStays DEF ReadLine, ServedHead, NewHead, Gone, Lists, Control
    <3>4. CASE BadLine
      BY <1>1, <2>1, <3>1, <3>4, KeptStays
         DEF BadLine, err_cleanup, ParseLine, ServedHead, NewHead, Gone, Control, IInv, TypeOK, Running
    <3>5. CASE EndOfFile
      BY <1>1, <2>1, <3>1, <3>5, KeptStays DEF EndOfFile, cfg_return, ServedHead, NewHead, Gone, Control
    <3>6. CASE FreeEnd
      BY <1>1, <2>1, <3>1, <3>6, KeptStays DEF FreeEnd, ServedHead, NewHead, Gone, Control
    <3> QED
      BY <2>4, <3>2, <3>3, <3>4, <3>5, <3>6
  <2>5. CASE BadWeight
    <3>1. /\ mpc \in {"startup", "reload"} /\ cfgpc = "parse" /\ cfgpc' = "cleanup"
          /\ item' = first /\ UNCHANGED <<next, first, rblist>>
      BY <1>1, <2>5 DEF BadWeight, err_cleanup, ParseLine, nodeVars, Control, IInv, TypeOK, Running
    <3>2. PICK a \in Items : owner[a] = "free" /\ owner' = [owner EXCEPT ![a] = "leaked"]
      BY <2>5 DEF BadWeight, calloc
    <3>3. Owned("served")' = Owned("served") /\ Owned("new")' = Owned("new")
      BY <3>2 DEF Owned, IInv, TypeOK, CfgTypeOK
    <3>4. ServedHead' = ServedHead /\ NewHead' = NewHead /\ Gone'
      BY <2>1, <3>1 DEF ServedHead, NewHead, Gone
    <3> QED
      BY <3>1, <3>3, <3>4 DEF Kept, Reached
  <2> QED
    BY <1>9, <2>2, <2>3, <2>4, <2>5 DEF Configure, cfg_read
<1>10. CASE LoopTest \/ AcceptFails
  BY <1>3, <1>4, <1>10 DEF LoopTest, AcceptFails
<1>11. CASE AcceptRequest \/ AcceptOther
  BY <1>3, <1>11 DEF AcceptRequest, AcceptOther
<1>12. CASE WaitRound \/ sigterm \/ Hangup \/ \E w \in Workers : worker_th(w)
  BY <1>2, <1>12 DEF WaitRound, sigterm, Hangup, worker_th, BadRequest, Begin, Walk, WalkEnd,
     Collect, WorkerDone, WorkerCrash, mainVars, Running
<1>13. CASE WaitEnd /\ mpc' = "loop"
  BY <1>3, <1>13 DEF WaitEnd
<1>14. CASE UNCHANGED vars
  BY <1>2, <1>14 DEF vars, mainVars
<1>15. ~WaitWithoutMgr /\ ~Return
  BY DEF WaitWithoutMgr, Return, Running
<1> QED
  BY <1>5, <1>6, <1>7, <1>8, <1>9, <1>10, <1>11, <1>12, <1>13, <1>14, <1>15
     DEF Next, Main, thr_waitcomplete, WaitEnd, Done

\* So nothing gets out of reach.
LEMMA KeptAlways == Spec => []Kept
<1>1. Init => Kept
  <2> SUFFICES ASSUME Init PROVE Kept
    OBVIOUS
  <2>1. Owned("served") = {} /\ Owned("new") = {} /\ mpc = "startup"
    BY DEF Init, CfgInit, Owned
  <2> QED
    BY <2>1 DEF Kept, Reached, Gone
<1>2. IInv /\ Kept /\ [Next]_vars => Kept'
  BY KeptNext
<1> QED
  BY <1>1, <1>2, Invariance, PTL DEF Spec

-----------------------------------------------------------------------------
(*                 The first and the last of some numbers, parts           *)

\* Among numbers there is a least one, and a greatest one below a bound.
LEMMA LeastExists ==
  ASSUME NEW S, S \subseteq Nat, S # {}
  PROVE  \E x \in S : \A y \in S : x <= y
<1>1. PICK x \in S : \A y \in S : ~(<<y, x>> \in OpToRel(<, Nat))
  BY NatLessThanWellFounded, WFMin, Zenon
<1>2. \A y \in S : y < x => <<y, x>> \in OpToRel(<, Nat)
  BY <1>1, Zenon DEF OpToRel
<1>3. x \in Nat /\ \A y \in S : y \in Nat /\ ~(y < x)
  BY <1>1, <1>2, Zenon
<1>4. \A y \in S : x <= y
  BY <1>3
<1> QED
  BY <1>4

LEMMA GreatestExists ==
  ASSUME NEW S, S \subseteq Nat, S # {}, NEW m \in Nat, \A y \in S : y <= m
  PROVE  \E x \in S : \A y \in S : y <= x
<1> DEFINE T == {m - y : y \in S}
<1>1. T \subseteq Nat /\ T # {}
  <2>1. \A y \in S : y \in Nat /\ m - y \in Nat
    OBVIOUS
  <2> QED
    BY <2>1
<1>2. PICK z \in T : \A y \in T : z <= y
  <2> HIDE DEF T
  <2> QED
    BY <1>1, LeastExists
<1>3. PICK x \in S : z = m - x
  BY <1>2
<1>4. \A y \in S : m - y \in T
  OBVIOUS
<1>5. ASSUME NEW y \in S PROVE y <= x
  <2>1. m - y \in T /\ x \in Nat /\ y \in Nat
    BY <1>4
  <2>2. m - x <= m - y
    BY <1>2, <1>3, <2>1
  <2> QED
    BY <2>1, <2>2
<1> QED
  BY <1>5

\* Min and Max find them.
LEMMA MinIs ==
  ASSUME NEW S, S \subseteq Nat, S # {}
  PROVE  Min(S) \in S /\ \A y \in S : Min(S) <= y
BY LeastExists DEF Min

LEMMA MaxIs ==
  ASSUME NEW S, S \subseteq Nat, S # {}, NEW m \in Nat, \A y \in S : y <= m
  PROVE  Max(S) \in S /\ \A y \in S : y <= Max(S)
<1>1. PICK x \in S : \A y \in S : x >= y
  BY GreatestExists
<1> QED
  BY <1>1 DEF Max

\* s is a part of t: the characters from a to b.
LEMMA PartIs ==
  ASSUME NEW s \in Seq(STRING), NEW a \in Nat \ {0}, NEW b \in 0..Len(s), a <= b + 1
  PROVE  /\ SubSeq(s, a, b) \in Seq(STRING)
         /\ Len(SubSeq(s, a, b)) = b - a + 1
         /\ \A i \in 1..(b - a + 1) : SubSeq(s, a, b)[i] = s[a + i - 1]
<1>1. \A i \in a..b : s[i] \in STRING
  OBVIOUS
<1> QED
  BY <1>1, SubSeqProperties

\* A part of a part is a part.
LEMMA PartOfPart ==
  ASSUME NEW s \in Seq(STRING), NEW a \in Nat \ {0}, NEW b \in 0..Len(s), a <= b + 1,
         NEW c \in Nat \ {0}, NEW d \in 0..(b - a + 1), c <= d + 1
  PROVE  SubSeq(SubSeq(s, a, b), c, d) = SubSeq(s, a + c - 1, a + d - 1)
<1> DEFINE u == SubSeq(s, a, b)
           v == SubSeq(u, c, d)
           w == SubSeq(s, a + c - 1, a + d - 1)
<1>1. /\ u \in Seq(STRING) /\ Len(u) = b - a + 1
      /\ \A i \in 1..(b - a + 1) : u[i] = s[a + i - 1]
  BY PartIs
<1>2. /\ v \in Seq(STRING) /\ Len(v) = d - c + 1
      /\ \A i \in 1..(d - c + 1) : v[i] = u[c + i - 1]
  <2> HIDE DEF u
  <2>1. d \in 0..Len(u)
    BY <1>1
  <2> QED
    BY <1>1, <2>1, PartIs
<1>3. a + c - 1 \in Nat \ {0} /\ a + d - 1 \in 0..Len(s) /\ a + c - 1 <= (a + d - 1) + 1
  OBVIOUS
<1>4. /\ w \in Seq(STRING) /\ Len(w) = (a + d - 1) - (a + c - 1) + 1
      /\ \A i \in 1..((a + d - 1) - (a + c - 1) + 1) : w[i] = s[(a + c - 1) + i - 1]
  BY <1>3, PartIs
<1> HIDE DEF u, v, w
<1>5. Len(v) = Len(w) /\ (a + d - 1) - (a + c - 1) + 1 = d - c + 1 /\ Len(v) = d - c + 1
  BY <1>2, <1>4
<1>6. ASSUME NEW i \in 1..Len(v)
      PROVE  v[i] = w[i]
  <2>1. i \in 1..(d - c + 1) /\ c + i - 1 \in 1..(b - a + 1)
    BY <1>5
  <2>2. v[i] = s[a + (c + i - 1) - 1]
    BY <1>1, <1>2, <2>1
  <2>3. w[i] = s[(a + c - 1) + i - 1]
    BY <1>4, <1>5, <2>1
  <2>4. a + (c + i - 1) - 1 = (a + c - 1) + i - 1
    BY <2>1
  <2> QED
    BY <2>2, <2>3, <2>4
<1>7. v = w
  BY <1>2, <1>4, <1>5, <1>6, SeqEqual
<1> QED
  BY <1>7 DEF u, v, w

\* Find is the place of the first of C, or the one behind the end.
LEMMA FindIs ==
  ASSUME NEW s \in Seq(STRING), NEW C
  PROVE  /\ Find(s, C) \in 1..(Len(s) + 1)
         /\ \A k \in 1..Len(s) : k < Find(s, C) => s[k] \notin C
         /\ Find(s, C) <= Len(s) => s[Find(s, C)] \in C
<1> DEFINE S == {k \in 1..Len(s) : s[k] \in C} \cup {Len(s) + 1}
<1>1. S \subseteq Nat /\ S # {}
  OBVIOUS
<1>2. Find(s, C) \in S /\ \A y \in S : Find(s, C) <= y
  <2> HIDE DEF S
  <2>1. Min(S) \in S /\ \A y \in S : Min(S) <= y
    BY <1>1, MinIs
  <2> QED
    BY <2>1 DEF Find, S
<1> QED
  BY <1>2

\* ltrim leaves out the white space at the front.
LEMMA LtrimIs ==
  ASSUME NEW s \in Seq(STRING)
  PROVE  \E f \in 1..(Len(s) + 1) :
           /\ ltrim(s) = SubSeq(s, f, Len(s))
           /\ \A k \in 1..Len(s) : k < f => isspace(s[k])
           /\ f <= Len(s) => ~isspace(s[f])
<1> DEFINE S == {k \in 1..Len(s) : ~isspace(s[k])} \cup {Len(s) + 1}
<1>1. S \subseteq Nat /\ S # {}
  OBVIOUS
<1>2. Min(S) \in S /\ \A y \in S : Min(S) <= y
  <2> HIDE DEF S
  <2> QED
    BY <1>1, MinIs
<1>3. ltrim(s) = SubSeq(s, Min(S), Len(s))
  BY DEF ltrim, From
<1> DEFINE f == Min(S)
<1>4. /\ f \in 1..(Len(s) + 1)
      /\ \A k \in 1..Len(s) : k < f => isspace(s[k])
      /\ f <= Len(s) => ~isspace(s[f])
  <2>1. f \in S /\ \A y \in S : f <= y
    BY <1>2
  <2> HIDE DEF f
  <2> QED
    BY <2>1 DEF isspace
<1> QED
  BY <1>3, <1>4

\* cfg_cleanline, of a line of which c is what stands before the comment.
LEMMA CleanIs ==
  ASSUME NEW l \in Seq(STRING)
  PROVE  \E m \in 0..Len(Content(l)) :
           /\ cfg_cleanline(l) = SubSeq(Content(l), 1, m)
           /\ \A k \in 1..Len(Content(l)) : k > m => isspace(Content(l)[k])
           /\ m > 0 => ~isspace(Content(l)[m])
<1> DEFINE c == Content(l)
           S == {k \in 1..Len(c) : ~isspace(c[k])} \cup {0}
<1>0. c \in Seq(STRING)
  BY FindIs, PartIs DEF Content, Before
<1>1. S \subseteq Nat /\ S # {} /\ Len(c) \in Nat /\ \A y \in S : y <= Len(c)
  BY <1>0
<1>2. Max(S) \in S /\ \A y \in S : y <= Max(S)
  <2> HIDE DEF S, c
  <2> QED
    BY <1>1, MaxIs
<1>3. cfg_cleanline(l) = SubSeq(c, 1, Max(S))
  BY DEF cfg_cleanline, Content
<1> DEFINE m == Max(S)
<1>4. /\ m \in 0..Len(c)
      /\ \A k \in 1..Len(c) : k > m => isspace(c[k])
      /\ m > 0 => ~isspace(c[m])
  <2>1. m \in S /\ \A y \in S : y <= m
    BY <1>2
  <2> HIDE DEF m, c
  <2> QED
    BY <1>1, <2>1 DEF isspace
<1> QED
  BY <1>3, <1>4

-----------------------------------------------------------------------------
(*                          The words of a line                            *)

\* What is no space is in a word.
LEMMA WordCovers ==
  ASSUME NEW c \in Seq(STRING), NEW k \in 1..Len(c), ~isspace(c[k])
  PROVE  \E b \in Words(c) : b[1] <= k /\ k <= b[2]
<1> DEFINE A == {i \in 1..k : \A j \in i..k : ~isspace(c[j])}
           Z == {i \in k..Len(c) : \A j \in k..i : ~isspace(c[j])}
<1>1. A \subseteq Nat /\ k \in A
  OBVIOUS
<1>2. Z \subseteq Nat /\ k \in Z /\ Len(c) \in Nat /\ \A y \in Z : y <= Len(c)
  OBVIOUS
<1>3. PICK a \in A : \A y \in A : a <= y
  <2> HIDE DEF A
  <2> QED
    BY <1>1, LeastExists
<1>4. PICK z \in Z : \A y \in Z : y <= z
  <2> HIDE DEF Z
  <2> QED
    BY <1>2, GreatestExists
<1>5. /\ a \in 1..k /\ \A j \in a..k : ~isspace(c[j])
      /\ z \in k..Len(c) /\ \A j \in k..z : ~isspace(c[j])
  OBVIOUS
<1>6. a = 1 \/ isspace(c[a - 1])
  <2> SUFFICES ASSUME a # 1, ~isspace(c[a - 1]) PROVE FALSE
    OBVIOUS
  <2>1. \A j \in (a - 1)..k : j = a - 1 \/ j \in a..k
    BY <1>5
  <2>2. a - 1 \in A
    BY <1>5, <2>1
  <2> QED
    BY <1>3, <1>5, <2>2
<1>7. z = Len(c) \/ isspace(c[z + 1])
  <2> SUFFICES ASSUME z # Len(c), ~isspace(c[z + 1]) PROVE FALSE
    OBVIOUS
  <2>1. \A j \in k..(z + 1) : j = z + 1 \/ j \in k..z
    BY <1>5
  <2>2. z + 1 \in Z
    BY <1>2, <1>5, <2>1
  <2> QED
    BY <1>4, <1>5, <2>2
<1>8. <<a, z>> \in Words(c)
  <2>1. a \in 1..Len(c) /\ z \in 1..Len(c) /\ a <= z
    BY <1>2, <1>5
  <2>2. \A j \in a..z : ~isspace(c[j])
    BY <1>5
  <2> QED
    BY <1>6, <1>7, <2>1, <2>2 DEF Words
<1> QED
  BY <1>5, <1>8

\* A word is as long as it can be.
LEMMA WordIs ==
  ASSUME NEW c \in Seq(STRING), NEW b \in Words(c)
  PROVE  /\ b[1] \in 1..Len(c) /\ b[2] \in 1..Len(c) /\ b[1] <= b[2] /\ b = <<b[1], b[2]>>
         /\ \A k \in b[1]..b[2] : ~isspace(c[k])
         /\ b[1] = 1 \/ isspace(c[b[1] - 1])
         /\ b[2] = Len(c) \/ isspace(c[b[2] + 1])
BY DEF Words

\* Two words have no character in common.
LEMMA WordUnique ==
  ASSUME NEW c \in Seq(STRING), NEW b \in Words(c), NEW d \in Words(c), NEW k \in Int,
         b[1] <= k, k <= b[2], d[1] <= k, k <= d[2]
  PROVE  b = d
<1>1. ASSUME NEW x \in Words(c), NEW y \in Words(c), x[1] <= k, k <= x[2], y[1] <= k, k <= y[2]
      PROVE  ~(x[1] < y[1]) /\ ~(x[2] < y[2])
  <2>1. /\ x[1] \in 1..Len(c) /\ x[2] \in 1..Len(c)
        /\ y[1] \in 1..Len(c) /\ y[2] \in 1..Len(c)
    BY WordIs
  <2>2. ~(x[1] < y[1])
    <3> SUFFICES ASSUME x[1] < y[1] PROVE FALSE
      OBVIOUS
    <3>1. y[1] - 1 \in x[1]..x[2]
      BY <1>1, <2>1
    <3>2. y[1] # 1
      BY <2>1
    <3> QED
      BY <3>1, <3>2, WordIs
  <2>3. ~(x[2] < y[2])
    <3> SUFFICES ASSUME x[2] < y[2] PROVE FALSE
      OBVIOUS
    <3>1. x[2] + 1 \in y[1]..y[2]
      BY <1>1, <2>1
    <3>2. x[2] # Len(c)
      BY <2>1
    <3> QED
      BY <3>1, <3>2, WordIs
  <2> QED
    BY <2>2, <2>3
<1>2. ~(b[1] < d[1]) /\ ~(b[2] < d[2]) /\ ~(d[1] < b[1]) /\ ~(d[2] < b[2])
  BY <1>1
<1>3. /\ b[1] \in Int /\ b[2] \in Int /\ d[1] \in Int /\ d[2] \in Int
      /\ b = <<b[1], b[2]>> /\ d = <<d[1], d[2]>>
  BY WordIs
<1> QED
  BY <1>2, <1>3

\* A word begins and ends with characters that are no space.
LEMMA WordEnds ==
  ASSUME NEW c \in Seq(STRING), NEW b \in Words(c)
  PROVE  ~isspace(c[b[1]]) /\ ~isspace(c[b[2]])
<1>1. b[1] \in b[1]..b[2] /\ b[2] \in b[1]..b[2]
  BY WordIs
<1> QED
  BY <1>1, WordIs

-----------------------------------------------------------------------------
(*                       What cfg_read makes of a line                     *)

\* The line c with its first word from f to e - 1, and more from h on, m being
\* the last character that is no space.
Laid(c, f, e, h, m) ==
  /\ m \in 0..Len(c) /\ f \in 1..(m + 1) /\ e \in f..(m + 1) /\ h \in e..(m + 1)
  /\ \A k \in 1..Len(c) : k < f \/ (e <= k /\ k < h) \/ k > m => isspace(c[k])
  /\ \A k \in f..(e - 1) : ~isspace(c[k])
  /\ h <= m => ~isspace(c[h]) /\ e < h
  /\ m > 0 => ~isspace(c[m])
  /\ f <= m => f < e

\* m is the last character of c that is no space, or 0.
Trimmed(c, m) ==
  /\ c \in Seq(STRING) /\ m \in 0..Len(c)
  /\ \A k \in 1..Len(c) : k > m => isspace(c[k])
  /\ m > 0 => ~isspace(c[m])

\* word and argument of a line are laid out like this.
LEMMA LineLaid ==
  ASSUME NEW c, NEW m, Trimmed(c, m)
  PROVE  \E f, e, h \in Nat :
           /\ Laid(c, f, e, h, m)
           /\ word(SubSeq(c, 1, m)) = SubSeq(c, f, e - 1)
           /\ argument(SubSeq(c, 1, m)) = SubSeq(c, h, m)
<1>0. /\ c \in Seq(STRING) /\ m \in 0..Len(c)
      /\ \A k \in 1..Len(c) : k > m => isspace(c[k])
      /\ m > 0 => ~isspace(c[m])
  BY DEF Trimmed
<1> USE <1>0
<1> DEFINE d == SubSeq(c, 1, m)
<1>1. d \in Seq(STRING) /\ Len(d) = m /\ \A i \in 1..m : d[i] = c[i]
  <2>1. m - 1 + 1 = m /\ \A i \in 1..m : 1 + i - 1 = i
    OBVIOUS
  <2>2. 1 \in Nat \ {0} /\ 1 <= m + 1
    OBVIOUS
  <2>3. d \in Seq(STRING) /\ Len(d) = m - 1 + 1 /\ \A i \in 1..(m - 1 + 1) : d[i] = c[1 + i - 1]
    BY <2>2, PartIs
  <2> HIDE DEF d
  <2> QED
    BY <2>1, <2>3
<1>2. PICK f \in 1..(m + 1) :
        /\ ltrim(d) = SubSeq(d, f, m)
        /\ \A k \in 1..m : k < f => isspace(d[k])
        /\ f <= m => ~isspace(d[f])
  <2> HIDE DEF d
  <2> QED
    BY <1>1, LtrimIs
<1> DEFINE u == SubSeq(c, f, m)
<1>3. ltrim(d) = u
  <2>1. SubSeq(SubSeq(c, 1, m), f, m) = SubSeq(c, 1 + f - 1, 1 + m - 1)
    BY PartOfPart
  <2>2. 1 + f - 1 = f /\ 1 + m - 1 = m
    OBVIOUS
  <2> QED
    BY <1>2, <2>1, <2>2
<1>4. u \in Seq(STRING) /\ Len(u) = m - f + 1 /\ \A i \in 1..(m - f + 1) : u[i] = c[f + i - 1]
  BY PartIs
<1>5. PICK g \in 1..(m - f + 2) :
        /\ g = Find(u, Spaces)
        /\ \A k \in 1..(m - f + 1) : k < g => ~isspace(u[k])
        /\ g <= m - f + 1 => isspace(u[g])
  <2>1. (m - f + 1) + 1 = m - f + 2
    OBVIOUS
  <2> HIDE DEF u
  <2>2. /\ Find(u, Spaces) \in 1..(Len(u) + 1)
        /\ \A k \in 1..Len(u) : k < Find(u, Spaces) => u[k] \notin Spaces
        /\ Find(u, Spaces) <= Len(u) => u[Find(u, Spaces)] \in Spaces
    BY <1>4, FindIs
  <2>3. Len(u) = m - f + 1
    BY <1>4
  <2> QED
    BY <2>1, <2>2, <2>3 DEF isspace
<1> DEFINE e == f + g - 1
           v == SubSeq(c, e, m)
<1>6. e \in f..(m + 1) /\ e - 1 = f + (g - 1) - 1
  OBVIOUS
<1>7. word(d) = SubSeq(c, f, e - 1)
  <2>1. SubSeq(SubSeq(c, f, m), 1, g - 1) = SubSeq(c, f + 1 - 1, f + (g - 1) - 1)
    <3>1. 1 \in Nat \ {0} /\ g - 1 \in 0..(m - f + 1) /\ 1 <= (g - 1) + 1 /\ f <= m + 1
          /\ f \in Nat \ {0}
      OBVIOUS
    <3> QED
      BY <3>1, PartOfPart
  <2>2. word(d) = SubSeq(u, 1, g - 1)
    BY <1>3, <1>5 DEF word, Before
  <2>3. f + 1 - 1 = f
    OBVIOUS
  <2> QED
    BY <1>6, <2>1, <2>2, <2>3
<1>8. From(u, g) = v
  <2>1. SubSeq(SubSeq(c, f, m), g, m - f + 1) = SubSeq(c, f + g - 1, f + (m - f + 1) - 1)
    <3>1. g \in Nat \ {0} /\ m - f + 1 \in 0..(m - f + 1) /\ g <= (m - f + 1) + 1 /\ f <= m + 1
          /\ f \in Nat \ {0}
      OBVIOUS
    <3> QED
      BY <3>1, PartOfPart
  <2>2. f + (m - f + 1) - 1 = m
    OBVIOUS
  <2>3. From(u, g) = SubSeq(u, g, m - f + 1)
    BY <1>4 DEF From
  <2> QED
    BY <2>1, <2>2, <2>3
<1>9. v \in Seq(STRING) /\ Len(v) = m - e + 1 /\ \A i \in 1..(m - e + 1) : v[i] = c[e + i - 1]
  <2>1. e \in Nat \ {0} /\ e <= m + 1
    BY <1>6
  <2> HIDE DEF e
  <2> QED
    BY <2>1, PartIs
<1>10. PICK p \in 1..(m - e + 2) :
        /\ ltrim(v) = SubSeq(v, p, m - e + 1)
        /\ \A k \in 1..(m - e + 1) : k < p => isspace(v[k])
        /\ p <= m - e + 1 => ~isspace(v[p])
  <2> HIDE DEF v
  <2>1. (m - e + 1) + 1 = m - e + 2
    BY <1>6
  <2> HIDE DEF e
  <2> QED
    BY <1>9, <2>1, LtrimIs
<1> DEFINE h == e + p - 1
<1>11. argument(d) = SubSeq(c, h, m)
  <2>1. argument(d) = ltrim(v)
    BY <1>3, <1>5, <1>8 DEF argument
  <2>2. SubSeq(SubSeq(c, e, m), p, m - e + 1) = SubSeq(c, e + p - 1, e + (m - e + 1) - 1)
    <3>1. p \in Nat \ {0} /\ m - e + 1 \in 0..(m - e + 1) /\ p <= (m - e + 1) + 1 /\ e <= m + 1
          /\ e \in Nat \ {0}
      BY <1>6
    <3> HIDE DEF e
    <3> QED
      BY <3>1, PartOfPart
  <2>3. e + (m - e + 1) - 1 = m
    BY <1>6
  <2> QED
    BY <1>10, <2>1, <2>2, <2>3
<1>14. g \in 1..(m - f + 1) => isspace(c[e])
  <2> SUFFICES ASSUME g \in 1..(m - f + 1) PROVE isspace(c[e])
    OBVIOUS
  <2> HIDE DEF u
  <2>1. isspace(u[g])
    BY <1>5
  <2>2. u[g] = c[e]
    BY <1>4
  <2> QED
    BY <2>1, <2>2
<1>12. Laid(c, f, e, h, m)
  <2>1. h \in e..(m + 1)
    BY <1>6
  <2>2. ASSUME NEW k \in 1..Len(c), k < f \/ (e <= k /\ k < h) \/ k > m
        PROVE  isspace(c[k])
    <3>1. CASE k < f
      <4>1. k \in 1..m
        BY <3>1
      <4>2. isspace(d[k]) /\ d[k] = c[k]
        BY <1>1, <1>2, <3>1, <4>1
      <4> QED
        BY <4>2
    <3>2. CASE e <= k /\ k < h
      <4>1. k - e + 1 \in 1..(m - e + 1) /\ k - e + 1 < p /\ e + (k - e + 1) - 1 = k
        BY <1>6, <2>1, <3>2
      <4>2. v[k - e + 1] = c[e + (k - e + 1) - 1]
        BY <1>9, <4>1
      <4> QED
        BY <1>10, <4>1, <4>2
    <3> QED
      BY <2>2, <3>1, <3>2
  <2>3. ASSUME NEW k \in f..(e - 1)
        PROVE  ~isspace(c[k])
    <3>1. k - f + 1 \in 1..(m - f + 1) /\ k - f + 1 < g /\ f + (k - f + 1) - 1 = k
      BY <1>6
    <3>2. u[k - f + 1] = c[f + (k - f + 1) - 1]
      BY <1>4, <3>1
    <3> QED
      BY <1>5, <3>1, <3>2
  <2>4. ASSUME h <= m
        PROVE  ~isspace(c[h]) /\ e < h
    <3>1. p \in 1..(m - e + 1) /\ e + p - 1 = h
      BY <1>6, <2>4
    <3>2. ~isspace(c[h])
      BY <1>9, <1>10, <3>1
    <3>3. CASE p = 1
      <4>1. h = e /\ g \in 1..(m - f + 1) /\ f + g - 1 = e
        BY <1>6, <2>4, <3>3
      <4>2. isspace(c[e])
        BY <1>14, <4>1
      <4> QED
        BY <3>2, <4>1, <4>2
    <3>4. CASE p # 1
      BY <1>6, <3>2, <3>4
    <3> QED
      BY <3>3, <3>4
  <2>5. ASSUME f <= m
        PROVE  f < e
    <3>1. ~isspace(c[f])
      BY <1>1, <1>2, <2>5
    <3>2. CASE g = 1
      <4>1. g \in 1..(m - f + 1) /\ f + g - 1 = f
        BY <2>5, <3>2
      <4>2. isspace(c[e]) /\ e = f
        BY <1>14, <4>1
      <4> QED
        BY <3>1, <4>2
    <3>3. CASE g # 1
      BY <3>3
    <3> QED
      BY <3>2, <3>3
  <2> HIDE DEF e, h
  <2> QED
    BY <1>6, <2>1, <2>2, <2>3, <2>4, <2>5 DEF Laid
<1>13. f \in Nat /\ e \in Nat /\ h \in Nat
  BY <1>6
<1> HIDE DEF e, h, d
<1>15. \E f1, e1, h1 \in Nat :
           /\ Laid(c, f1, e1, h1, m)
           /\ word(d) = SubSeq(c, f1, e1 - 1)
           /\ argument(d) = SubSeq(c, h1, m)
  BY <1>7, <1>11, <1>12, <1>13
<1> QED
  BY <1>15 DEF d

\* Only white space: there is no word.
LEMMA NoWords ==
  ASSUME NEW c \in Seq(STRING), NEW f, NEW e, NEW h, NEW m, Laid(c, f, e, h, m)
  PROVE  Words(c) = {} <=> f = m + 1
<1>1. ASSUME f = m + 1, NEW b \in Words(c)
      PROVE  FALSE
  <2>1. b[1] \in 1..Len(c) /\ ~isspace(c[b[1]])
    BY WordIs, WordEnds
  <2>2. b[1] < f \/ b[1] > m
    BY <1>1, <2>1 DEF Laid
  <2> QED
    BY <2>1, <2>2 DEF Laid
<1>2. ASSUME f # m + 1
      PROVE  Words(c) # {}
  <2>1. f \in 1..Len(c) /\ f \in f..(e - 1)
    BY <1>2 DEF Laid
  <2> QED
    BY <2>1, WordCovers DEF Laid
<1> QED
  BY <1>1, <1>2

\* The name is a word.
LEMMA FirstWord ==
  ASSUME NEW c \in Seq(STRING), NEW f, NEW e, NEW h, NEW m, Laid(c, f, e, h, m), f <= m
  PROVE  <<f, e - 1>> \in Words(c)
<1>1. f \in 1..Len(c) /\ e - 1 \in 1..Len(c) /\ f <= e - 1
  BY DEF Laid
<1>2. f = 1 \/ isspace(c[f - 1])
  <2> SUFFICES ASSUME f # 1 PROVE isspace(c[f - 1])
    OBVIOUS
  <2>1. f - 1 \in 1..Len(c) /\ f - 1 < f
    BY <1>1
  <2> QED
    BY <2>1 DEF Laid
<1>3. e - 1 = Len(c) \/ isspace(c[(e - 1) + 1])
  <2> SUFFICES ASSUME e - 1 # Len(c) PROVE isspace(c[(e - 1) + 1])
    OBVIOUS
  <2>1. e \in 1..Len(c) /\ (e - 1) + 1 = e /\ ((e <= e /\ e < h) \/ e > m)
    BY <1>1 DEF Laid
  <2>2. isspace(c[e])
    BY <2>1 DEF Laid
  <2> QED
    BY <2>1, <2>2
<1>4. \A k \in f..(e - 1) : ~isspace(c[k])
  BY DEF Laid
<1> QED
  BY <1>1, <1>2, <1>3, <1>4 DEF Words

\* One word is no entry.
LEMMA OneWord ==
  ASSUME NEW c \in Seq(STRING), NEW f, NEW e, NEW h, NEW m, Laid(c, f, e, h, m), f <= m, h > m
  PROVE  ~IsEntry(c)
<1> SUFFICES ASSUME NEW b \in TwoWords(c) PROVE FALSE
  BY DEF IsEntry
<1>1. b[1] \in Words(c) /\ b[2] \in Words(c) /\ b[1][2] < b[2][1]
  BY DEF TwoWords
<1>2. /\ b[1][1] \in 1..Len(c) /\ b[1][2] \in 1..Len(c) /\ b[1][1] <= b[1][2]
      /\ b[2][1] \in 1..Len(c) /\ ~isspace(c[b[1][1]]) /\ ~isspace(c[b[2][1]])
  BY <1>1, WordIs, WordEnds
<1>3. ASSUME NEW k \in 1..Len(c), ~isspace(c[k])
      PROVE  k \in f..(e - 1)
  <2>1. ~(k < f) /\ ~(e <= k /\ k < h) /\ ~(k > m)
    BY <1>3 DEF Laid
  <2> QED
    BY <2>1 DEF Laid
<1>4. b[1][2] + 1 \in f..(e - 1) /\ b[1][2] # Len(c)
  <2>1. b[1][1] \in f..(e - 1) /\ b[2][1] \in f..(e - 1)
    BY <1>2, <1>3
  <2>2. f \in Int /\ e \in Int /\ b[1][1] \in Int /\ b[1][2] \in Int /\ b[2][1] \in Int
    BY <1>2 DEF Laid
  <2>3. f <= b[1][1] /\ b[1][1] <= b[1][2] /\ b[1][2] < b[2][1] /\ b[2][1] <= e - 1
    BY <1>1, <1>2, <2>1, <2>2
  <2>4. f <= b[1][2] + 1 /\ b[1][2] + 1 <= e - 1
    BY <2>2, <2>3
  <2>5. b[1][2] # Len(c)
    BY <1>2, <2>3
  <2> QED
    BY <2>2, <2>4, <2>5
<1>5. isspace(c[b[1][2] + 1])
  BY <1>1, <1>4, WordIs
<1> QED
  BY <1>4, <1>5 DEF Laid

\* A name and a weight are two words.
LEMMA NameAndWeight ==
  ASSUME NEW c \in Seq(STRING), NEW f, NEW e, NEW h, NEW m, Laid(c, f, e, h, m), f <= m, h <= m,
         \A k \in h..m : ~isspace(c[k])
  PROVE  TwoWords(c) = {<<<<f, e - 1>>, <<h, m>>>>}
<1> DEFINE v == <<f, e - 1>>
           w == <<h, m>>
<1>1. v \in Words(c)
  BY FirstWord
<1>2. w \in Words(c)
  <2>1. h \in 1..Len(c) /\ m \in 1..Len(c) /\ h - 1 \in 1..Len(c) /\ e <= h - 1 /\ h - 1 < h
    BY DEF Laid
  <2>2. isspace(c[h - 1])
    BY <2>1 DEF Laid
  <2>3. m = Len(c) \/ isspace(c[m + 1])
    <3> SUFFICES ASSUME m # Len(c) PROVE isspace(c[m + 1])
      OBVIOUS
    <3>1. m + 1 \in 1..Len(c) /\ m + 1 > m
      BY <2>1
    <3> QED
      BY <3>1 DEF Laid
  <2> QED
    BY <2>1, <2>2, <2>3 DEF Words
<1>3. v[1] = f /\ v[2] = e - 1 /\ w[1] = h /\ w[2] = m /\ v[2] < w[1] /\ ~(w[2] < v[1])
      /\ ~(v[2] < v[1]) /\ ~(w[2] < w[1])
  BY DEF Laid
<1> HIDE DEF v, w
<1>4. ASSUME NEW b \in Words(c)
      PROVE  b = v \/ b = w
  <2>1. b[1] \in 1..Len(c) /\ b[1] <= b[2] /\ b[1] <= b[1] /\ ~isspace(c[b[1]]) /\ b[1] \in Int
    BY WordIs, WordEnds
  <2>2. ~(b[1] < f) /\ ~(e <= b[1] /\ b[1] < h) /\ ~(b[1] > m)
    BY <2>1 DEF Laid
  <2>3. CASE b[1] < e
    <3>1. v[1] <= b[1] /\ b[1] <= v[2]
      BY <1>3, <2>1, <2>2, <2>3 DEF Laid
    <3> QED
      BY <1>1, <2>1, <3>1, WordUnique
  <2>4. CASE h <= b[1]
    <3>1. w[1] <= b[1] /\ b[1] <= w[2]
      BY <1>3, <2>1, <2>2, <2>4 DEF Laid
    <3> QED
      BY <1>2, <2>1, <3>1, WordUnique
  <2> QED
    BY <2>1, <2>2, <2>3, <2>4 DEF Laid
<1>5. Words(c) = {v, w}
  BY <1>1, <1>2, <1>4
<1>6. ASSUME NEW b \in TwoWords(c)
      PROVE  b = <<v, w>>
  <2>1. b \in {v, w} \X {v, w} /\ b[1][2] < b[2][1]
    BY <1>5 DEF TwoWords
  <2> QED
    BY <1>3, <2>1
<1>7. <<v, w>> \in TwoWords(c)
  BY <1>1, <1>2, <1>3, <1>5 DEF TwoWords
<1>8. TwoWords(c) = {<<v, w>>}
  BY <1>6, <1>7
<1> QED
  BY <1>8 DEF v, w

\* A weight with white space in it is none.
LEMMA SpacedWeight ==
  ASSUME NEW c \in Seq(STRING), NEW h \in 1..Len(c), NEW m \in h..Len(c), ~isspace(c[h]),
         NEW q \in h..m, isspace(c[q])
  PROVE  Weight(SubSeq(c, h, m)) = 0
<1> DEFINE s == SubSeq(c, h, m)
           i == q - h + 1
<1>1. s \in Seq(STRING) /\ Len(s) = m - h + 1 /\ i \in 2..Len(s) /\ s[i] \in Spaces
  <2>1. h \in Nat \ {0} /\ m \in 0..Len(c) /\ h <= m + 1
    OBVIOUS
  <2>2. s \in Seq(STRING) /\ Len(s) = m - h + 1 /\ \A k \in 1..(m - h + 1) : s[k] = c[h + k - 1]
    BY <2>1, PartIs
  <2>3. q # h
    OBVIOUS
  <2>4. i \in 2..(m - h + 1) /\ i \in 1..(m - h + 1) /\ h + i - 1 = q
    BY <2>3
  <2> HIDE DEF s, i
  <2> QED
    BY <2>2, <2>4 DEF isspace
<1> HIDE DEF s, i
<1>2. PICK j \in 1..Len(unsigned(s)) : unsigned(s)[j] \in Spaces
  <2>1. CASE unsigned(s) = s
    <3>1. i \in 1..Len(s)
      BY <1>1
    <3> QED
      BY <1>1, <2>1, <3>1
  <2>2. CASE unsigned(s) = Tail(s)
    <3>1. s # <<>>
      BY <1>1
    <3>2. Len(Tail(s)) = Len(s) - 1 /\ \A k \in 1..Len(Tail(s)) : Tail(s)[k] = s[k + 1]
      BY <1>1, <3>1, HeadTailProperties
    <3>3. i - 1 \in 1..Len(Tail(s)) /\ (i - 1) + 1 = i
      BY <1>1, <3>2
    <3>4. Tail(s)[i - 1] = s[i]
      BY <3>2, <3>3
    <3> QED
      BY <1>1, <2>2, <3>3, <3>4
  <2> QED
    BY <2>1, <2>2 DEF unsigned
<1> DEFINE u == unsigned(s)
<1>3. u \in Seq(STRING)
  <2>1. s # <<>>
    BY <1>1
  <2>2. Tail(s) \in Seq(STRING)
    BY <1>1, <2>1, HeadTailProperties
  <2> QED
    BY <1>1, <2>2 DEF unsigned
<1>4. j \in 1..Len(u) /\ u[j] \in Spaces
  BY <1>2
<1> HIDE DEF u
<1>5. u[j] \notin DOMAIN Digit
  BY <1>4 DEF Digit, Spaces, VT
<1>6. \E k \in 1..Len(numeral(u)) : numeral(u)[k] \notin DOMAIN Digit
  <2>1. CASE hexadecimal(u)
    <3>1. u[1] = "0" /\ u[2] \in {"x", "X"} /\ Len(u) > 2 /\ numeral(u) = From(u, 3)
      BY <2>1 DEF hexadecimal, numeral
    <3>2. j \in 3..Len(u)
      <4>1. u[1] \notin Spaces /\ u[2] \notin Spaces
        BY <3>1 DEF Spaces, VT
      <4>2. j # 1 /\ j # 2
        BY <1>4, <4>1
      <4>3. Len(u) \in Nat
        BY <1>3
      <4> QED
        BY <1>4, <4>2, <4>3
    <3>3. /\ Len(From(u, 3)) = Len(u) - 2
          /\ \A k \in 1..(Len(u) - 2) : From(u, 3)[k] = u[3 + k - 1]
      <4>1. 3 \in Nat \ {0} /\ Len(u) \in 0..Len(u) /\ 3 <= Len(u) + 1
        BY <1>3, <3>1
      <4> QED
        <5>1. /\ Len(SubSeq(u, 3, Len(u))) = Len(u) - 3 + 1
              /\ \A k \in 1..(Len(u) - 3 + 1) : SubSeq(u, 3, Len(u))[k] = u[3 + k - 1]
          BY <1>3, <4>1, PartIs
        <5>2. Len(u) - 3 + 1 = Len(u) - 2
          BY <1>3
        <5> QED
          BY <5>1, <5>2 DEF From
    <3>4. j - 2 \in 1..(Len(u) - 2) /\ 3 + (j - 2) - 1 = j
      BY <1>3, <3>2
    <3>5. From(u, 3)[j - 2] = u[j]
      BY <3>3, <3>4
    <3> QED
      BY <1>5, <3>1, <3>3, <3>4, <3>5
  <2>2. CASE ~hexadecimal(u)
    BY <1>4, <1>5, <2>2 DEF numeral
  <2> QED
    BY <2>1, <2>2
<1>7. ~numeric(s)
  BY <1>6 DEF numeric, u
<1> QED
  BY <1>7 DEF Weight, s

\* More than two words are no entry.
LEMMA MoreWords ==
  ASSUME NEW c \in Seq(STRING), NEW f, NEW e, NEW h, NEW m, Laid(c, f, e, h, m), f <= m, h <= m,
         NEW q \in h..m, isspace(c[q])
  PROVE  ~IsEntry(c)
<1> SUFFICES ASSUME NEW b \in TwoWords(c) PROVE FALSE
  BY DEF IsEntry
<1>1. /\ f \in 1..Len(c) /\ h \in 1..Len(c) /\ m \in 1..Len(c) /\ e \in 1..Len(c)
      /\ f < e /\ e < h /\ h < q /\ q < m /\ q \in 1..Len(c)
      /\ ~isspace(c[f]) /\ ~isspace(c[h]) /\ ~isspace(c[m]) /\ isspace(c[e])
  <2>1. f \in 1..Len(c) /\ h \in 1..Len(c) /\ m \in 1..Len(c) /\ e \in 1..Len(c) /\ q \in 1..Len(c)
        /\ f < e /\ e < h /\ f \in f..(e - 1)
    BY DEF Laid
  <2>2. ~isspace(c[f]) /\ ~isspace(c[h]) /\ ~isspace(c[m]) /\ isspace(c[e])
    BY <2>1 DEF Laid
  <2>3. q # h /\ q # m
    BY <2>2
  <2> QED
    BY <2>1, <2>2, <2>3
<1>2. Words(c) = {b[1], b[2]}
  BY DEF TwoWords
<1>3. PICK x \in Words(c) : x[1] <= f /\ f <= x[2]
  BY <1>1, WordCovers
<1>4. PICK y \in Words(c) : y[1] <= h /\ h <= y[2]
  BY <1>1, WordCovers
<1>5. PICK z \in Words(c) : z[1] <= m /\ m <= z[2]
  BY <1>1, WordCovers
<1>6. ASSUME NEW d \in Words(c), NEW k \in 1..Len(c), isspace(c[k])
      PROVE  k < d[1] \/ d[2] < k
  <2>1. d[1] \in Int /\ d[2] \in Int
    BY WordIs
  <2>2. k \notin d[1]..d[2]
    BY <1>6, WordIs
  <2> QED
    BY <2>1, <2>2
<1>7. x[2] < e
  <2>1. e < x[1] \/ x[2] < e
    BY <1>1, <1>6
  <2>2. x[1] \in Int
    BY WordIs
  <2> QED
    BY <1>1, <1>3, <2>1, <2>2
<1>8. e < y[1] /\ y[2] < q
  <2>1. (e < y[1] \/ y[2] < e) /\ (q < y[1] \/ y[2] < q)
    BY <1>1, <1>6
  <2>2. y[1] \in Int /\ y[2] \in Int
    BY WordIs
  <2> QED
    BY <1>1, <1>4, <2>1, <2>2
<1>9. q < z[1]
  <2>1. q < z[1] \/ z[2] < q
    BY <1>1, <1>6
  <2>2. z[2] \in Int
    BY WordIs
  <2> QED
    BY <1>1, <1>5, <2>1, <2>2
<1>10. x # y /\ y # z /\ x # z
  <2>1. /\ x[1] \in Int /\ x[2] \in Int /\ y[1] \in Int /\ y[2] \in Int
        /\ z[1] \in Int /\ z[2] \in Int
    BY WordIs
  <2>2. x[1] <= x[2] /\ y[1] <= y[2] /\ z[1] <= z[2]
    BY WordIs
  <2>3. x[1] < y[1] /\ y[1] < z[1]
    <3>1. e \in Int /\ q \in Int
      BY <1>1
    <3>2. x[2] < e /\ e < y[1]
      BY <1>7, <1>8
    <3>3. y[2] < q /\ q < z[1]
      BY <1>8, <1>9
    <3>4. x[1] < y[1]
      BY <2>1, <2>2, <3>1, <3>2
    <3>5. y[1] < z[1]
      BY <2>1, <2>2, <3>1, <3>3
    <3> QED
      BY <3>4, <3>5
  <2> QED
    BY <2>1, <2>3
<1>11. x \in {b[1], b[2]} /\ y \in {b[1], b[2]} /\ z \in {b[1], b[2]}
  BY <1>2
<1> QED
  BY <1>10, <1>11

\* What is in the line, and what cfg_read sees in it.
LEMMA LineMeans ==
  ASSUME NEW c, NEW m, Trimmed(c, m),
         NEW name, name = word(SubSeq(c, 1, m)), NEW arg, arg = argument(SubSeq(c, 1, m))
  PROVE  /\ name = <<>> <=> Words(c) = {}
         /\ name # <<>> => (Weight(arg) # 0 <=> IsEntry(c))
         /\ IsEntry(c) => Entry(c) = <<name, Weight(arg)>>
<1>0. c \in Seq(STRING) /\ m \in 0..Len(c)
  BY DEF Trimmed
<1> USE <1>0
<1>1. PICK f, e, h \in Nat :
        /\ Laid(c, f, e, h, m)
        /\ name = SubSeq(c, f, e - 1)
        /\ arg = SubSeq(c, h, m)
  BY LineLaid
<1>2. f \in 1..(m + 1) /\ e \in f..(m + 1) /\ h \in e..(m + 1) /\ (f <= m => f < e)
  BY <1>1 DEF Laid
<1>3. name = <<>> <=> f = m + 1
  <2>1. Len(name) = (e - 1) - f + 1 /\ name \in Seq(STRING)
    <3>1. f \in Nat \ {0} /\ e - 1 \in 0..Len(c) /\ f <= (e - 1) + 1
      BY <1>2
    <3> QED
      BY <1>1, <3>1, PartIs
  <2>2. name = <<>> <=> Len(name) = 0
    BY <2>1
  <2> QED
    BY <1>2, <2>1, <2>2
<1>4. name = <<>> <=> Words(c) = {}
  BY <1>1, <1>3, NoWords
<1>5. ASSUME name = <<>> PROVE ~IsEntry(c)
  BY <1>4, <1>5 DEF IsEntry, TwoWords
<1>6. CASE f = m + 1
  BY <1>3, <1>4, <1>5, <1>6
<1>7. CASE f <= m /\ h > m
  <2>1. ~IsEntry(c)
    BY <1>1, <1>7, OneWord
  <2>2. arg = <<>>
    BY <1>1, <1>2, <1>7, SubSeqEmpty
  <2>3. ~numeric(arg)
    BY <2>2 DEF numeric, unsigned
  <2>4. Weight(arg) = 0
    BY <2>3 DEF Weight
  <2> QED
    BY <1>4, <2>1, <2>4
<1>8. CASE f <= m /\ h <= m /\ \A k \in h..m : ~isspace(c[k])
  <2>1. TwoWords(c) = {<<<<f, e - 1>>, <<h, m>>>>}
    <3>1. Laid(c, f, e, h, m)
      BY <1>1
    <3>2. f <= m
      BY <1>8
    <3>3. h <= m
      BY <1>8
    <3>4. \A k \in h..m : ~isspace(c[k])
      BY <1>8
    <3> HIDE <1>1, <1>8
    <3> QED
      BY <3>1, <3>2, <3>3, <3>4, NameAndWeight
  <2> DEFINE b == <<<<f, e - 1>>, <<h, m>>>>
  <2>2. Cut(c, b[1]) = name /\ Cut(c, b[2]) = arg
    BY <1>1 DEF Cut
  <2> HIDE DEF b
  <2>3. TwoWords(c) = {b}
    BY <2>1 DEF b
  <2>4. IsEntry(c) <=> Weight(arg) # 0
    BY <2>2, <2>3 DEF IsEntry
  <2>5. Entry(c) = <<name, Weight(arg)>>
    <3>1. (CHOOSE d \in TwoWords(c) : TRUE) = b
      BY <2>3
    <3> QED
      BY <2>2, <3>1 DEF Entry
  <2> QED
    BY <1>4, <2>4, <2>5
<1>9. CASE f <= m /\ h <= m /\ ~(\A k \in h..m : ~isspace(c[k]))
  <2>1. PICK q \in h..m : isspace(c[q])
    BY <1>9
  <2>2. ~IsEntry(c)
    BY <1>1, <1>9, <2>1, MoreWords
  <2>3. Weight(arg) = 0
    <3>1. h \in 1..Len(c) /\ m \in h..Len(c)
      BY <1>2, <1>9
    <3>2. ~isspace(c[h])
      BY <1>1, <1>9 DEF Laid
    <3> QED
      BY <1>1, <2>1, <3>1, <3>2, SpacedWeight
  <2> QED
    BY <1>4, <2>2, <2>3
<1> QED
  BY <1>2, <1>6, <1>7, <1>8, <1>9

-----------------------------------------------------------------------------
(*                        What fgets takes of a text                       *)

\* The characters of a part, with its end given by its length.
LEMMA PartOf ==
  ASSUME NEW t \in Seq(STRING), NEW q \in 0..Len(t), NEW n \in 0..(Len(t) - q)
  PROVE  /\ SubSeq(t, q + 1, q + n) \in Seq(STRING)
         /\ Len(SubSeq(t, q + 1, q + n)) = n
         /\ \A i \in 1..n : SubSeq(t, q + 1, q + n)[i] = t[q + i]
<1>1. q + 1 \in Nat \ {0} /\ q + n \in 0..Len(t) /\ q + 1 <= (q + n) + 1
      /\ (q + n) - (q + 1) + 1 = n
  OBVIOUS
<1> DEFINE u == SubSeq(t, q + 1, q + n)
<1>2. /\ u \in Seq(STRING)
      /\ Len(u) = (q + n) - (q + 1) + 1
      /\ \A i \in 1..((q + n) - (q + 1) + 1) : u[i] = t[(q + 1) + i - 1]
  BY <1>1, PartIs
<1> HIDE DEF u
<1>3. \A i \in 1..n : (q + 1) + i - 1 = q + i
  OBVIOUS
<1>4. Len(u) = n /\ \A i \in 1..n : u[i] = t[(q + 1) + i - 1]
  BY <1>1, <1>2
<1>5. \A i \in 1..n : u[i] = t[q + i]
  BY <1>3, <1>4
<1> QED
  BY <1>2, <1>4, <1>5 DEF u

\* The front of such a part.
LEMMA PartOfThat ==
  ASSUME NEW t \in Seq(STRING), NEW q \in 0..Len(t), NEW n \in 0..(Len(t) - q), NEW j \in 0..n
  PROVE  SubSeq(SubSeq(t, q + 1, q + n), 1, j) = SubSeq(t, q + 1, q + j)
<1>1. /\ q + 1 \in Nat \ {0} /\ q + n \in 0..Len(t) /\ q + 1 <= (q + n) + 1
      /\ 1 \in Nat \ {0} /\ j \in 0..((q + n) - (q + 1) + 1) /\ 1 <= j + 1
      /\ (q + 1) + 1 - 1 = q + 1 /\ (q + 1) + j - 1 = q + j
  OBVIOUS
<1>2. SubSeq(SubSeq(t, q + 1, q + n), 1, j) = SubSeq(t, (q + 1) + 1 - 1, (q + 1) + j - 1)
  BY <1>1, PartOfPart
<1> QED
  BY <1>1, <1>2

\* What fgets returns, and where the line ends.
LEMMA FgetsIs ==
  ASSUME NEW t \in Seq(STRING), NEW q \in 0..(Len(t) - 1)
  PROVE  \E g \in 1..(Len(t) - q + 1), n \in 1..(Len(t) - q) :
           /\ \A i \in 1..(Len(t) - q) : i < g => t[q + i] # "\n"
           /\ g <= Len(t) - q => t[q + g] = "\n"
           /\ fgets(From(t, q + 1)) = SubSeq(t, q + 1, q + n)
           /\ LineOf(t, q + 1) = SubSeq(t, q + 1, q + (g - 1))
           /\ n <= g /\ n <= MAXLINE - 2
           /\ n = g \/ n = Len(t) - q \/ n = MAXLINE - 2
<1> DEFINE r == From(t, q + 1)
           g == Find(r, {"\n"})
           S == {g, Len(r), MAXLINE - 2}
           n == Min(S)
<1>0. q \in 0..Len(t) /\ Len(t) - q \in 0..(Len(t) - q) /\ q + (Len(t) - q) = Len(t)
  OBVIOUS
<1>1. r = SubSeq(t, q + 1, q + (Len(t) - q))
  BY <1>0 DEF From
<1>2. r \in Seq(STRING) /\ Len(r) = Len(t) - q /\ \A i \in 1..(Len(t) - q) : r[i] = t[q + i]
  <2> HIDE DEF r
  <2> QED
    BY <1>0, <1>1, PartOf
<1>3. /\ g \in 1..(Len(r) + 1)
      /\ \A k \in 1..Len(r) : k < g => r[k] # "\n"
      /\ g <= Len(r) => r[g] = "\n"
  <2> HIDE DEF r
  <2> QED
    BY <1>2, FindIs
<1>4. n \in S /\ n <= g /\ n <= Len(r) /\ n <= MAXLINE - 2
  <2>1. S \subseteq Nat /\ S # {}
    BY <1>2, <1>3, MaxlineAssumption
  <2> HIDE DEF S, r, g
  <2>2. Min(S) \in S /\ \A y \in S : Min(S) <= y
    BY <2>1, MinIs
  <2> QED
    BY <2>2 DEF S
<1>5. fgets(r) = SubSeq(r, 1, n)
  BY DEF fgets
<1>6. LineOf(t, q + 1) = SubSeq(r, 1, g - 1)
  BY DEF LineOf, Before
<1> HIDE DEF r, g, S, n
<1>7. g \in 1..(Len(t) - q + 1) /\ n \in 1..(Len(t) - q) /\ g - 1 \in 0..(Len(t) - q)
      /\ n \in 0..(Len(t) - q)
  <2>1. n >= 1 /\ n \in Int
    BY <1>2, <1>3, <1>4, MaxlineAssumption DEF S
  <2> QED
    BY <1>2, <1>3, <1>4, <2>1
<1>8. SubSeq(r, 1, n) = SubSeq(t, q + 1, q + n) /\ SubSeq(r, 1, g - 1) = SubSeq(t, q + 1, q + (g - 1))
  BY <1>0, <1>1, <1>7, PartOfThat
<1>9. \A i \in 1..(Len(t) - q) : i < g => t[q + i] # "\n"
  BY <1>2, <1>3
<1>10. g <= Len(t) - q => t[q + g] = "\n"
  BY <1>2, <1>3, <1>7
<1>11. n = g \/ n = Len(t) - q \/ n = MAXLINE - 2
  BY <1>2, <1>4 DEF S
<1>12. fgets(From(t, q + 1)) = SubSeq(t, q + 1, q + n)
  BY <1>5, <1>8 DEF r
<1>13. LineOf(t, q + 1) = SubSeq(t, q + 1, q + (g - 1))
  BY <1>6, <1>8
<1> QED
  BY <1>4, <1>7, <1>9, <1>10, <1>11, <1>12, <1>13

\* Before position p of t nothing is left of a line but, possibly, its end.
AtLine(t, p) == p = Len(t) \/ p + 1 \in LineStarts(t) \/ t[p + 1] = "\n"

\* After what fgets took, another line begins, or the line feed of this one is
\* all that is left of it.
LEMMA FgetsEnds ==
  ASSUME NEW t \in Seq(STRING), Fits(t), NEW q \in 0..(Len(t) - 1), AtLine(t, q),
         NEW g \in 1..(Len(t) - q + 1), NEW n \in 1..(Len(t) - q),
         \A i \in 1..(Len(t) - q) : i < g => t[q + i] # "\n",
         g <= Len(t) - q => t[q + g] = "\n",
         LineOf(t, q + 1) = SubSeq(t, q + 1, q + (g - 1)),
         n <= g, n <= MAXLINE - 2,
         n = g \/ n = Len(t) - q \/ n = MAXLINE - 2
  PROVE  /\ n = g \/ n = g - 1
         /\ AtLine(t, q + n)
         /\ \A k \in (q + 2)..(q + n) : k \notin LineStarts(t)
         /\ q + 1 \notin LineStarts(t) => g = 1 /\ n = 1
<1>0. q \in 0..Len(t) /\ g - 1 \in 0..(Len(t) - q)
  OBVIOUS
<1>1. Len(SubSeq(t, q + 1, q + (g - 1))) = g - 1
  BY <1>0, PartOf
<1>2. q + 1 \in LineStarts(t) => g - 1 <= MAXLINE - 2
  BY <1>1 DEF Fits
<1>3. q + 1 \notin LineStarts(t) => g = 1 /\ n = 1
  <2> SUFFICES ASSUME q + 1 \notin LineStarts(t) PROVE g = 1 /\ n = 1
    OBVIOUS
  <2>1. t[q + 1] = "\n"
    BY DEF AtLine
  <2> QED
    BY <2>1
<1>4. n = g \/ n = g - 1
  <2>1. CASE q + 1 \in LineStarts(t)
    BY <1>2, <2>1, MaxlineAssumption
  <2>2. CASE q + 1 \notin LineStarts(t)
    BY <1>3, <2>2
  <2> QED
    BY <2>1, <2>2
<1>5. AtLine(t, q + n)
  <2>1. CASE n = g
    <3>1. t[q + n] = "\n" /\ (q + n + 1) - 1 = q + n
      BY <2>1
    <3>2. q + n + 1 \in 1..Len(t) => q + n + 1 \in LineStarts(t)
      BY <3>1 DEF LineStarts
    <3>3. q + n # Len(t) => q + n + 1 \in 1..Len(t)
      OBVIOUS
    <3> QED
      BY <3>2, <3>3 DEF AtLine
  <2>2. CASE n = g - 1
    <3>1. n # Len(t) - q => g <= Len(t) - q /\ q + g = q + n + 1
      BY <2>2
    <3> QED
      BY <3>1 DEF AtLine
  <2> QED
    BY <1>4, <2>1, <2>2
<1>6. ASSUME NEW k \in (q + 2)..(q + n), k \in LineStarts(t)
      PROVE  FALSE
  <2>1. k # 1 /\ k - 1 - q \in 1..(Len(t) - q) /\ k - 1 - q < g /\ q + (k - 1 - q) = k - 1
    OBVIOUS
  <2>2. t[k - 1] # "\n"
    BY <2>1
  <2> QED
    BY <1>6, <2>1, <2>2 DEF LineStarts
<1> QED
  BY <1>3, <1>4, <1>5, <1>6

\* fgets took r of t after the first q characters, and the line there is l.
Taken(t, q, g, n, l, r) ==
  /\ t \in Seq(STRING) /\ q \in 0..(Len(t) - 1)
  /\ g \in 1..(Len(t) - q + 1) /\ n \in 1..(Len(t) - q)
  /\ n = g \/ n = g - 1
  /\ g <= Len(t) - q => t[q + g] = "\n"
  /\ l = SubSeq(t, q + 1, q + (g - 1)) /\ r = SubSeq(t, q + 1, q + n)

\* All of that in numbers, and the characters one by one.
LEMMA TakenIs ==
  ASSUME NEW t, NEW q, NEW g, NEW n, NEW l, NEW r, Taken(t, q, g, n, l, r)
  PROVE  /\ t \in Seq(STRING) /\ q \in 0..Len(t) /\ g \in 1..(Len(t) - q + 1)
         /\ g - 1 \in 0..(Len(t) - q) /\ n \in 1..(Len(t) - q) /\ n \in 0..(Len(t) - q)
         /\ n = g \/ n = g - 1
         /\ g <= Len(t) - q => t[q + g] = "\n"
         /\ l = SubSeq(t, q + 1, q + (g - 1)) /\ r = SubSeq(t, q + 1, q + n)
BY DEF Taken

LEMMA TakenLine ==
  ASSUME NEW t, NEW q, NEW g, NEW n, NEW l, NEW r, Taken(t, q, g, n, l, r)
  PROVE  l \in Seq(STRING) /\ Len(l) = g - 1 /\ \A i \in 1..(g - 1) : l[i] = t[q + i]
<1>1. /\ t \in Seq(STRING) /\ q \in 0..Len(t) /\ g - 1 \in 0..(Len(t) - q)
      /\ l = SubSeq(t, q + 1, q + (g - 1))
  BY DEF Taken
<1> QED
  BY <1>1, PartOf

LEMMA TakenRead ==
  ASSUME NEW t, NEW q, NEW g, NEW n, NEW l, NEW r, Taken(t, q, g, n, l, r)
  PROVE  r \in Seq(STRING) /\ Len(r) = n /\ \A i \in 1..n : r[i] = t[q + i]
<1>1. /\ t \in Seq(STRING) /\ q \in 0..Len(t) /\ n \in 0..(Len(t) - q)
      /\ r = SubSeq(t, q + 1, q + n)
  BY DEF Taken
<1> QED
  BY <1>1, PartOf

\* Up to its comment, or its line feed, what fgets took is the line.
LEMMA ReadContent ==
  ASSUME NEW t, NEW q, NEW g, NEW n, NEW l, NEW r, Taken(t, q, g, n, l, r)
  PROVE  \/ Content(r) = Content(l)
         \/ n = g /\ Content(l) = l /\ Content(r) = r
<1>0. /\ t \in Seq(STRING) /\ q \in 0..Len(t) /\ g \in 1..(Len(t) - q + 1)
      /\ g - 1 \in 0..(Len(t) - q) /\ n \in 1..(Len(t) - q) /\ n \in 0..(Len(t) - q)
      /\ n = g \/ n = g - 1
      /\ g <= Len(t) - q => t[q + g] = "\n"
      /\ l = SubSeq(t, q + 1, q + (g - 1)) /\ r = SubSeq(t, q + 1, q + n)
  BY TakenIs
<1>1. l \in Seq(STRING) /\ Len(l) = g - 1 /\ \A i \in 1..(g - 1) : l[i] = t[q + i]
  BY TakenLine
<1>2. r \in Seq(STRING) /\ Len(r) = n /\ \A i \in 1..n : r[i] = t[q + i]
  BY TakenRead
<1> USE <1>0
<1> DEFINE x == Find(l, {"#"})
           y == Find(r, {"#"})
<1>3. /\ x \in 1..g
      /\ \A k \in 1..(g - 1) : k < x => l[k] # "#"
      /\ x <= g - 1 => l[x] = "#"
  <2>1. /\ x \in 1..(Len(l) + 1)
        /\ \A k \in 1..Len(l) : k < x => l[k] \notin {"#"}
        /\ x <= Len(l) => l[x] \in {"#"}
    BY <1>1, FindIs
  <2> HIDE DEF x
  <2>2. Len(l) = g - 1 /\ Len(l) + 1 = g
    BY <1>1
  <2> QED
    BY <2>1, <2>2
<1>4. /\ y \in 1..(n + 1)
      /\ \A k \in 1..n : k < y => r[k] # "#"
      /\ y <= n => r[y] = "#"
  <2>1. /\ y \in 1..(Len(r) + 1)
        /\ \A k \in 1..Len(r) : k < y => r[k] \notin {"#"}
        /\ y <= Len(r) => r[y] \in {"#"}
    BY <1>2, FindIs
  <2> HIDE DEF y
  <2> QED
    BY <1>2, <2>1
<1>5. Content(l) = SubSeq(l, 1, x - 1) /\ Content(r) = SubSeq(r, 1, y - 1)
  BY DEF Content, Before
<1> HIDE DEF x, y
<1>6. CASE x = y
  <2>1. x - 1 \in 0..(g - 1) /\ x - 1 \in 0..n
    BY <1>3, <1>4, <1>6
  <2>2. SubSeq(l, 1, x - 1) = SubSeq(t, q + 1, q + (x - 1))
    BY <1>0, <2>1, PartOfThat
  <2>3. SubSeq(r, 1, x - 1) = SubSeq(t, q + 1, q + (x - 1))
    BY <1>0, <2>1, PartOfThat
  <2> QED
    BY <1>5, <1>6, <2>2, <2>3
<1>7. CASE x # y
  <2>1. \A k \in 1..(g - 1) : k \in 1..n /\ l[k] = r[k]
    BY <1>1, <1>2
  <2>2. x = g
    <3> SUFFICES ASSUME x <= g - 1 PROVE FALSE
      BY <1>3
    <3>1. l[x] = "#" /\ r[x] = "#" /\ x \in 1..n
      BY <1>3, <2>1
    <3>2. y <= x
      BY <1>4, <3>1
    <3>3. y \in 1..(g - 1) /\ y < x /\ y <= n
      BY <1>3, <1>4, <1>7, <3>2
    <3> QED
      BY <1>3, <1>4, <2>1, <3>3
  <2>3. ~(y <= g - 1)
    <3> SUFFICES ASSUME y <= g - 1 PROVE FALSE
      OBVIOUS
    <3>1. r[y] = "#" /\ y \in 1..(g - 1)
      BY <1>4
    <3>2. l[y] = "#"
      BY <2>1, <3>1
    <3>3. y < x
      BY <2>2, <3>1
    <3> QED
      BY <1>3, <3>1, <3>2, <3>3
  <2>4. n = g /\ y = n + 1
    <3>1. n = g
      BY <1>4, <1>7, <2>2, <2>3
    <3>2. y = n \/ y = n + 1
      BY <1>4, <2>3, <3>1
    <3>3. r[n] = "\n"
      BY <1>2, <3>1
    <3> QED
      BY <1>4, <3>1, <3>2, <3>3
  <2>5. SubSeq(l, 1, Len(l)) = l /\ SubSeq(r, 1, Len(r)) = r
    BY <1>1, <1>2, SubSeqFull
  <2>6. x - 1 = Len(l) /\ y - 1 = Len(r)
    BY <1>1, <1>2, <2>2, <2>4
  <2> QED
    BY <1>5, <2>4, <2>5, <2>6
<1> QED
  BY <1>6, <1>7

\* A line without its comment is a text.
LEMMA ContentIs ==
  ASSUME NEW l \in Seq(STRING)
  PROVE  Content(l) \in Seq(STRING)
<1>1. Find(l, {"#"}) \in 1..(Len(l) + 1)
  BY FindIs
<1>2. /\ 1 \in Nat \ {0} /\ Find(l, {"#"}) - 1 \in 0..Len(l)
      /\ 1 <= (Find(l, {"#"}) - 1) + 1
  BY <1>1
<1>3. SubSeq(l, 1, Find(l, {"#"}) - 1) \in Seq(STRING)
  BY <1>2, PartIs
<1> QED
  BY <1>3 DEF Content, Before

\* cfg_cleanline leaves of it what stands in the line but for the white space at
\* its end.
LEMMA ReadClean ==
  ASSUME NEW t, NEW q, NEW g, NEW n, NEW l, NEW r, Taken(t, q, g, n, l, r)
  PROVE  \E m : Trimmed(Content(l), m) /\ cfg_cleanline(r) = SubSeq(Content(l), 1, m)
<1>0. /\ t \in Seq(STRING) /\ q \in 0..Len(t) /\ g \in 1..(Len(t) - q + 1)
      /\ g - 1 \in 0..(Len(t) - q) /\ n \in 1..(Len(t) - q) /\ n \in 0..(Len(t) - q)
      /\ n = g \/ n = g - 1
      /\ g <= Len(t) - q => t[q + g] = "\n"
      /\ l = SubSeq(t, q + 1, q + (g - 1)) /\ r = SubSeq(t, q + 1, q + n)
  BY TakenIs
<1>1. l \in Seq(STRING) /\ Len(l) = g - 1 /\ \A i \in 1..(g - 1) : l[i] = t[q + i]
  BY TakenLine
<1>2. r \in Seq(STRING) /\ Len(r) = n /\ \A i \in 1..n : r[i] = t[q + i]
  BY TakenRead
<1>3. Content(l) \in Seq(STRING)
  BY <1>1, ContentIs
<1>4. PICK m \in 0..Len(Content(r)) :
        /\ cfg_cleanline(r) = SubSeq(Content(r), 1, m)
        /\ \A k \in 1..Len(Content(r)) : k > m => isspace(Content(r)[k])
        /\ m > 0 => ~isspace(Content(r)[m])
  BY <1>2, CleanIs
<1>5. Content(r) = Content(l) \/ (n = g /\ Content(l) = l /\ Content(r) = r)
  BY ReadContent
<1>6. CASE Content(r) = Content(l)
  BY <1>3, <1>4, <1>6 DEF Trimmed
<1>7. CASE n = g /\ Content(l) = l /\ Content(r) = r
  <2>1. n \in 1..n /\ g <= Len(t) - q /\ r[n] = "\n"
    BY <1>0, <1>2, <1>7
  <2>2. isspace(r[n])
    BY <2>1 DEF isspace, Spaces
  <2>3. m \in 0..n /\ m # n
    BY <1>2, <1>4, <1>7, <2>1, <2>2
  <2>4. m \in 0..(g - 1)
    BY <1>0, <1>7, <2>3
  <2>5. SubSeq(r, 1, m) = SubSeq(t, q + 1, q + m) /\ SubSeq(l, 1, m) = SubSeq(t, q + 1, q + m)
    BY <1>0, <2>3, <2>4, PartOfThat
  <2>6. \A k \in 1..(g - 1) : k \in 1..n /\ l[k] = r[k]
    BY <1>1, <1>2, <1>7
  <2>7. \A k \in 1..Len(l) : k > m => isspace(l[k])
    BY <1>1, <1>2, <1>4, <1>7, <2>6
  <2>8. m > 0 => ~isspace(l[m])
    BY <1>4, <1>7, <2>4, <2>6
  <2>9. Trimmed(Content(l), m)
    <3>1. m \in 0..Len(l)
      BY <1>1, <2>4
    <3>2. Trimmed(l, m)
      BY <1>1, <2>7, <2>8, <3>1 DEF Trimmed
    <3> QED
      BY <1>7, <3>2
  <2>10. cfg_cleanline(r) = SubSeq(Content(l), 1, m)
    BY <1>4, <1>7, <2>5, Zenon
  <2> QED
    BY <2>9, <2>10
<1> QED
  BY <1>5, <1>6, <1>7, Zenon

\* A line that cfg_read gets, and what is written there.
LEMMA LineIs ==
  ASSUME NEW t \in Texts, Fits(t), NEW q \in 0..(Len(t) - 1), AtLine(t, q),
         NEW ln, ln = Lines[t][q], NEW c, c = Content(LineOf(t, q + 1))
  PROVE  /\ ln.size \in 1..(Len(t) - q)
         /\ AtLine(t, q + ln.size)
         /\ \A k \in (q + 2)..(q + ln.size) : k \notin LineStarts(t)
         /\ q + 1 \in LineStarts(t) =>
              /\ ln.name = <<>> <=> Words(c) = {}
              /\ ln.name # <<>> => (ln.weight # 0 <=> IsEntry(c))
              /\ IsEntry(c) => Entry(c) = <<ln.name, ln.weight>>
         /\ q + 1 \notin LineStarts(t) => ln.name = <<>>
         /\ ln.arg = <<>> => ln.weight = 0
<1>0. t \in Seq(STRING)
  BY TextsAssumption
<1>1. ln = Line(t, q)
  <2>1. q \in 0..Len(t)
    BY <1>0
  <2> QED
    BY <2>1, Zenon DEF Lines
<1> DEFINE r == fgets(From(t, q + 1))
<1>2. PICK g \in 1..(Len(t) - q + 1), n \in 1..(Len(t) - q) :
        /\ \A i \in 1..(Len(t) - q) : i < g => t[q + i] # "\n"
        /\ g <= Len(t) - q => t[q + g] = "\n"
        /\ r = SubSeq(t, q + 1, q + n)
        /\ LineOf(t, q + 1) = SubSeq(t, q + 1, q + (g - 1))
        /\ n <= g /\ n <= MAXLINE - 2
        /\ n = g \/ n = Len(t) - q \/ n = MAXLINE - 2
  BY <1>0, FgetsIs
<1>3. /\ n = g \/ n = g - 1
      /\ AtLine(t, q + n)
      /\ \A k \in (q + 2)..(q + n) : k \notin LineStarts(t)
      /\ q + 1 \notin LineStarts(t) => g = 1 /\ n = 1
  <2> HIDE DEF r
  <2> QED
    BY <1>0, <1>2, FgetsEnds
<1>4. Len(r) = n
  <2>1. q \in 0..Len(t) /\ n \in 0..(Len(t) - q)
    BY <1>0
  <2> QED
    BY <1>0, <1>2, <2>1, PartOf
<1>5. PICK m : Trimmed(c, m) /\ cfg_cleanline(r) = SubSeq(c, 1, m)
  <2> HIDE DEF r
  <2>1. Taken(t, q, g, n, LineOf(t, q + 1), r)
    BY <1>0, <1>2, <1>3 DEF Taken
  <2> QED
    BY <2>1, ReadClean
<1>6. ln = [size |-> Len(r), name |-> word(cfg_cleanline(r)), arg |-> argument(cfg_cleanline(r)),
            weight |-> Weight(argument(cfg_cleanline(r)))]
  BY <1>1, Zenon DEF Line
<1>7. /\ ln.size = Len(r)
      /\ ln.name = word(SubSeq(c, 1, m))
      /\ ln.arg = argument(SubSeq(c, 1, m))
      /\ ln.weight = Weight(ln.arg)
  <2> HIDE DEF r
  <2> QED
    BY <1>5, <1>6
<1>8. /\ ln.name = <<>> <=> Words(c) = {}
      /\ ln.name # <<>> => (ln.weight # 0 <=> IsEntry(c))
      /\ IsEntry(c) => Entry(c) = <<ln.name, ln.weight>>
  <2> HIDE DEF r
  <2> QED
    BY <1>5, <1>7, LineMeans
<1>9. ASSUME q + 1 \notin LineStarts(t) PROVE Words(c) = {}
  <2>1. LineOf(t, q + 1) = SubSeq(t, q + 1, q + (1 - 1))
    BY <1>2, <1>3, <1>9
  <2>2. Len(SubSeq(t, q + 1, q + (1 - 1))) = 1 - 1 /\ SubSeq(t, q + 1, q + (1 - 1)) \in Seq(STRING)
    <3>1. q \in 0..Len(t) /\ 1 - 1 \in 0..(Len(t) - q)
      BY <1>0
    <3> QED
      BY <1>0, <3>1, PartOf
  <2>3. LineOf(t, q + 1) = <<>>
    BY <2>1, <2>2
  <2>4. c = <<>>
    <3>1. <<>> \in Seq(STRING) /\ Len(<<>>) = 0
      OBVIOUS
    <3>2. Find(<<>>, {"#"}) \in 1..(Len(<<>>) + 1)
      BY <3>1, FindIs
    <3>3. c = SubSeq(<<>>, 1, 0)
      BY <2>3, <3>2 DEF Content, Before
    <3> QED
      BY <3>1, <3>3, SubSeqEmpty
  <2> QED
    BY <2>4 DEF Words
<1>10. ln.arg = <<>> => ln.weight = 0
  <2>1. ~numeric(<<>>)
    BY DEF numeric, unsigned
  <2>2. Weight(<<>>) = 0
    BY <2>1 DEF Weight
  <2> QED
    BY <1>7, <2>2
<1> HIDE DEF r
<1>11. ln.size = n
  BY <1>4, <1>7
<1> QED
  BY <1>3, <1>8, <1>9, <1>10, <1>11

-----------------------------------------------------------------------------
(*                         What a text says, line by line                  *)

\* A function f on 0..m with f[0] = v and every value made from the one before.
Recursion(V, v, g, m) ==
  \E f \in [0..m -> V] : f[0] = v /\ \A n \in 1..m : f[n] = g[<<n, f[n - 1]>>]

\* A recursive definition has a function that fits it.
LEMMA RecursionExists ==
  ASSUME NEW V, NEW v \in V, NEW g \in [Nat \X V -> V], NEW k \in Nat
  PROVE  Recursion(V, v, g, k)
<1> DEFINE N == {m \in Nat : ~Recursion(V, v, g, m)}
<1> SUFFICES ASSUME k \in N PROVE FALSE
  OBVIOUS
<1>1. PICK m \in N : \A y \in N : m <= y
  <2>1. N \subseteq Nat /\ N # {}
    OBVIOUS
  <2> HIDE DEF N
  <2> QED
    BY <2>1, LeastExists
<1>2. CASE m = 0
  <2> DEFINE f == [n \in 0..0 |-> v]
  <2>1. f \in [0..0 -> V] /\ f[0] = v /\ \A n \in 1..0 : f[n] = g[<<n, f[n - 1]>>]
    OBVIOUS
  <2> HIDE DEF f
  <2>2. Recursion(V, v, g, 0)
    BY <2>1 DEF Recursion
  <2> QED
    BY <1>1, <1>2, <2>2
<1>3. CASE m # 0
  <2>1. m \in Nat /\ m - 1 \in Nat /\ ~(m <= m - 1)
    BY <1>1, <1>3
  <2>2. Recursion(V, v, g, m - 1)
    BY <1>1, <2>1
  <2>3. PICK f \in [0..(m - 1) -> V] :
          f[0] = v /\ \A n \in 1..(m - 1) : f[n] = g[<<n, f[n - 1]>>]
    BY <2>2 DEF Recursion
  <2> DEFINE x == g[<<m, f[m - 1]>>]
             h == [n \in 0..m |-> IF n = m THEN x ELSE f[n]]
  <2>4. x \in V
    BY <2>1
  <2> HIDE DEF x
  <2>5. h \in [0..m -> V] /\ h[0] = v
    BY <2>1, <2>3, <2>4, <1>3
  <2>6. ASSUME NEW n \in 1..m
        PROVE  h[n] = g[<<n, h[n - 1]>>]
    <3>1. h[n - 1] = f[n - 1]
      BY <2>1
    <3>2. CASE n = m
      <4>1. h[n] = x
        BY <2>1, <3>2
      <4> HIDE DEF h
      <4> QED
        BY <3>1, <3>2, <4>1 DEF x
    <3>3. CASE n # m
      <4>1. n \in 1..(m - 1) /\ h[n] = f[n]
        BY <2>1, <3>3
      <4> QED
        BY <2>3, <3>1, <4>1
    <3> QED
      BY <3>2, <3>3
  <2> HIDE DEF h
  <2>7. Recursion(V, v, g, m)
    BY <2>5, <2>6 DEF Recursion
  <2> QED
    BY <1>1, <2>7
<1> QED
  BY <1>2, <1>3

\* EntriesTo collects the entries of the lines in their order.
LEMMA EntriesToIs ==
  ASSUME NEW t \in Seq(STRING)
  PROVE  /\ EntriesTo(t)[0] = <<>>
         /\ \A k \in 0..Len(t) : Len(EntriesTo(t)[k]) \in Nat
         /\ \A k \in 1..Len(t) :
              EntriesTo(t)[k] = IF k \in LineStarts(t) /\ IsEntry(Contents(t)[k])
                                THEN Append(EntriesTo(t)[k - 1], Entry(Contents(t)[k]))
                                ELSE EntriesTo(t)[k - 1]
         /\ \A k \in 1..Len(t) :
              k \in LineStarts(t) /\ IsEntry(Contents(t)[k]) =>
                Len(EntriesTo(t)[k]) = Len(EntriesTo(t)[k - 1]) + 1
<1> DEFINE lines == Contents(t)
           E == {Entry(lines[k]) : k \in Nat}
           V == Seq(E)
           IsOne(k) == k \in LineStarts(t) /\ IsEntry(lines[k])
           g == [x \in Nat \X V |-> IF IsOne(x[1]) THEN Append(x[2], Entry(lines[x[1]])) ELSE x[2]]
<1>1. g \in [Nat \X V -> V]
  <2> SUFFICES ASSUME NEW x \in Nat \X V PROVE g[x] \in V
    OBVIOUS
  <2>1. x[1] \in Nat /\ x[2] \in V /\ Entry(lines[x[1]]) \in E
    OBVIOUS
  <2> HIDE DEF E
  <2>2. Append(x[2], Entry(lines[x[1]])) \in V
    BY <2>1
  <2> QED
    BY <2>1, <2>2
<1>2. <<>> \in V /\ Len(t) \in Nat
  OBVIOUS
<1>3. PICK f \in [0..Len(t) -> V] :
        f[0] = <<>> /\ \A n \in 1..Len(t) : f[n] = g[<<n, f[n - 1]>>]
  <2> HIDE DEF g, V
  <2>1. Recursion(V, <<>>, g, Len(t))
    BY <1>1, <1>2, RecursionExists
  <2> QED
    BY <2>1, Zenon DEF Recursion
<1>4. \A n \in 1..Len(t) :
        f[n] = IF IsOne(n) THEN Append(f[n - 1], Entry(lines[n])) ELSE f[n - 1]
  <2> SUFFICES ASSUME NEW n \in 1..Len(t)
               PROVE  f[n] = IF IsOne(n) THEN Append(f[n - 1], Entry(lines[n])) ELSE f[n - 1]
    OBVIOUS
  <2>1. n \in Nat /\ n - 1 \in 0..Len(t) /\ f[n - 1] \in V
    OBVIOUS
  <2>2. <<n, f[n - 1]>> \in Nat \X V /\ <<n, f[n - 1]>>[1] = n /\ <<n, f[n - 1]>>[2] = f[n - 1]
    BY <2>1
  <2>3. g[<<n, f[n - 1]>>] = IF IsOne(n) THEN Append(f[n - 1], Entry(lines[n])) ELSE f[n - 1]
    <3> HIDE DEF V, lines, IsOne
    <3> QED
      BY <2>2
  <2> QED
    BY <1>3, <2>3
<1> DEFINE Def(e) == e = [k \in 0..Len(t) |->
                            IF k = 0 THEN <<>>
                            ELSE IF k \in LineStarts(t) /\ IsEntry(lines[k])
                                 THEN Append(e[k - 1], Entry(lines[k])) ELSE e[k - 1]]
           F == CHOOSE e : Def(e)
<1>5. Def(f)
  <2>1. DOMAIN f = 0..Len(t) /\ f = [k \in 0..Len(t) |-> f[k]]
    OBVIOUS
  <2>2. ASSUME NEW k \in 0..Len(t)
        PROVE  f[k] = IF k = 0 THEN <<>>
                      ELSE IF k \in LineStarts(t) /\ IsEntry(lines[k])
                           THEN Append(f[k - 1], Entry(lines[k])) ELSE f[k - 1]
    <3>1. k # 0 => k \in 1..Len(t)
      OBVIOUS
    <3> HIDE DEF lines
    <3> QED
      BY <1>3, <1>4, <3>1
  <2> HIDE DEF lines
  <2> QED
    BY <2>1, <2>2
<1>6. Def(F)
  <2> HIDE DEF Def
  <2> QED
    BY <1>5
<1>7. EntriesTo(t) = F
  BY DEF EntriesTo
<1> HIDE DEF F
<1>8. /\ F[0] = <<>>
      /\ \A k \in 1..Len(t) : F[k] = IF IsOne(k) THEN Append(F[k - 1], Entry(lines[k])) ELSE F[k - 1]
  <2> HIDE DEF lines
  <2>1. \A k \in 0..Len(t) : F[k] = IF k = 0 THEN <<>>
                            ELSE IF k \in LineStarts(t) /\ IsEntry(lines[k])
                                 THEN Append(F[k - 1], Entry(lines[k])) ELSE F[k - 1]
    BY <1>6
  <2>2. 0 \in 0..Len(t) /\ \A k \in 1..Len(t) : k \in 0..Len(t) /\ k # 0
    OBVIOUS
  <2> QED
    BY <2>1, <2>2
<1>9. \A k \in 0..Len(t) : F[k] \in V
  <2> DEFINE N == {k \in 0..Len(t) : F[k] \notin V}
  <2> SUFFICES ASSUME N # {} PROVE FALSE
    OBVIOUS
  <2>1. PICK m \in N : \A y \in N : m <= y
    <3>1. N \subseteq Nat
      OBVIOUS
    <3> HIDE DEF N
    <3> QED
      BY <3>1, LeastExists
  <2>2. m # 0
    BY <1>2, <1>8, <2>1
  <2>3. m \in 1..Len(t) /\ m - 1 \in 0..Len(t) /\ ~(m <= m - 1)
    BY <2>1, <2>2
  <2>4. F[m - 1] \in V
    BY <2>1, <2>3
  <2>5. Entry(lines[m]) \in E
    BY <2>3
  <2>6. F[m] \in V
    <3> HIDE DEF E, lines, IsOne
    <3>1. Append(F[m - 1], Entry(lines[m])) \in V
      BY <2>4, <2>5
    <3> HIDE DEF V
    <3> QED
      BY <1>8, <2>3, <2>4, <3>1
  <2> QED
    BY <2>1, <2>6
<1>10. \A k \in 0..Len(t) : Len(F[k]) \in Nat
  <2> HIDE DEF E
  <2> QED
    BY <1>9
<1>11. ASSUME NEW k \in 1..Len(t), IsOne(k)
       PROVE  Len(F[k]) = Len(F[k - 1]) + 1
  <2>1. k - 1 \in 0..Len(t)
    OBVIOUS
  <2>2. F[k - 1] \in V /\ F[k] = Append(F[k - 1], Entry(lines[k]))
    BY <1>8, <1>9, <1>11, <2>1
  <2> HIDE DEF lines, E
  <2> QED
    BY <2>2
<1> QED
  BY <1>7, <1>8, <1>10, <1>11

\* The lines that begin in the first p characters are right.
RightTo(t, p) ==
  \A k \in LineStarts(t) : k <= p => Words(Contents(t)[k]) = {} \/ IsEntry(Contents(t)[k])

\* A text that is right is right to its end.
LEMMA RightIs ==
  ASSUME NEW t \in Seq(STRING)
  PROVE  IsRight(t) <=> RightTo(t, Len(t))
<1>1. \A k \in LineStarts(t) : k <= Len(t)
  BY DEF LineStarts
<1>2. DOMAIN Contents(t) = LineStarts(t)
  BY DEF Contents
<1> QED
  BY <1>1, <1>2 DEF IsRight, RightTo, Range

\* Between the lines nothing is said.
LEMMA NothingBetween ==
  ASSUME NEW t \in Seq(STRING), NEW a \in 0..Len(t), NEW b \in a..Len(t),
         \A k \in (a + 1)..b : k \notin LineStarts(t)
  PROVE  /\ EntriesTo(t)[b] = EntriesTo(t)[a]
         /\ RightTo(t, a) => RightTo(t, b)
<1>1. EntriesTo(t)[b] = EntriesTo(t)[a]
  <2> DEFINE N == {m \in a..b : EntriesTo(t)[m] # EntriesTo(t)[a]}
  <2> SUFFICES ASSUME N # {} PROVE FALSE
    OBVIOUS
  <2>1. PICK m \in N : \A y \in N : m <= y
    <3>1. N \subseteq Nat
      OBVIOUS
    <3> HIDE DEF N
    <3> QED
      BY <3>1, LeastExists
  <2>2. m \in (a + 1)..b /\ m \in 1..Len(t) /\ m - 1 \in a..b /\ ~(m <= m - 1)
    BY <2>1
  <2>3. EntriesTo(t)[m - 1] = EntriesTo(t)[a]
    BY <2>1, <2>2
  <2>4. EntriesTo(t)[m] = EntriesTo(t)[m - 1]
    BY <2>2, EntriesToIs
  <2> QED
    BY <2>1, <2>3, <2>4
<1>2. ASSUME RightTo(t, a), NEW k \in LineStarts(t), k <= b
      PROVE  k <= a
  <2>1. k \in 1..Len(t)
    BY DEF LineStarts
  <2>2. k \notin (a + 1)..b
    BY <1>2
  <2> QED
    BY <1>2, <2>1, <2>2
<1> QED
  BY <1>1, <1>2 DEF RightTo

\* The further the more entries.
LEMMA MoreEntries ==
  ASSUME NEW t \in Seq(STRING), NEW a \in 0..Len(t)
  PROVE  Len(EntriesTo(t)[a]) <= Len(EntriesTo(t)[Len(t)])
<1> DEFINE L(k) == Len(EntriesTo(t)[k])
           N == {k \in a..Len(t) : ~(L(a) <= L(k))}
<1> SUFFICES ASSUME N # {} PROVE FALSE
  OBVIOUS
<1>1. PICK m \in N : \A y \in N : m <= y
  <2>1. N \subseteq Nat
    OBVIOUS
  <2> HIDE DEF N
  <2> QED
    BY <2>1, LeastExists
<1>2. \A k \in 0..Len(t) : L(k) \in Nat
  BY EntriesToIs
<1>3. m # a
  BY <1>1, <1>2
<1>4. m \in 1..Len(t) /\ m - 1 \in a..Len(t) /\ ~(m <= m - 1) /\ m - 1 \in 0..Len(t) /\ m \in 0..Len(t)
  BY <1>1, <1>3
<1>5. L(a) <= L(m - 1)
  BY <1>1, <1>4
<1>6. L(m) = L(m - 1) \/ L(m) = L(m - 1) + 1
  <2>1. CASE m \in LineStarts(t) /\ IsEntry(Contents(t)[m])
    BY <1>4, <2>1, EntriesToIs
  <2>2. CASE ~(m \in LineStarts(t) /\ IsEntry(Contents(t)[m]))
    BY <1>4, <2>2, EntriesToIs
  <2> QED
    BY <2>1, <2>2
<1>7. L(a) <= L(m)
  <2> HIDE DEF L
  <2> QED
    BY <1>2, <1>4, <1>5, <1>6
<1> QED
  BY <1>1, <1>7

\* cfg_read gets the next line: either nothing is said there, or an entry, or
\* the text is not right.
LEMMA NextLine ==
  ASSUME NEW t \in Texts, Fits(t), NEW q \in 0..(Len(t) - 1), AtLine(t, q), RightTo(t, q),
         NEW ln, ln = Lines[t][q]
  PROVE  /\ ln.size \in 1..(Len(t) - q)
         /\ AtLine(t, q + ln.size)
         /\ ln.arg = <<>> => ln.weight = 0
         /\ ln.name = <<>> =>
              /\ RightTo(t, q + ln.size)
              /\ EntriesTo(t)[q + ln.size] = EntriesTo(t)[q]
         /\ ln.name # <<>> /\ ln.weight # 0 =>
              /\ RightTo(t, q + ln.size)
              /\ EntriesTo(t)[q + ln.size] = Append(EntriesTo(t)[q], <<ln.name, ln.weight>>)
              /\ Len(EntriesTo(t)[q]) < Len(EntriesTo(t)[Len(t)])
         /\ ln.name # <<>> /\ ln.weight = 0 => ~IsRight(t)
<1> DEFINE c == Contents(t)[q + 1]
<1>0. t \in Seq(STRING)
  BY TextsAssumption
<1>1. q \in 0..Len(t) /\ q + 1 \in 0..Len(t) /\ q + 1 \in 1..Len(t) /\ (q + 1) - 1 = q
  BY <1>0
<1>2. q + 1 \in LineStarts(t) => c = Content(LineOf(t, q + 1))
  BY DEF Contents
<1>3. /\ ln.size \in 1..(Len(t) - q)
      /\ AtLine(t, q + ln.size)
      /\ \A k \in (q + 2)..(q + ln.size) : k \notin LineStarts(t)
      /\ q + 1 \in LineStarts(t) =>
           /\ ln.name = <<>> <=> Words(c) = {}
           /\ ln.name # <<>> => (ln.weight # 0 <=> IsEntry(c))
           /\ IsEntry(c) => Entry(c) = <<ln.name, ln.weight>>
      /\ q + 1 \notin LineStarts(t) => ln.name = <<>>
      /\ ln.arg = <<>> => ln.weight = 0
  <2> HIDE DEF c
  <2> QED
    BY <1>2, LineIs
<1> HIDE DEF c
<1>4. /\ EntriesTo(t)[q + ln.size] = EntriesTo(t)[q + 1]
      /\ RightTo(t, q + 1) => RightTo(t, q + ln.size)
  <2>1. q + ln.size \in (q + 1)..Len(t) /\ (q + 1) + 1 = q + 2
    BY <1>0, <1>3
  <2>2. \A k \in ((q + 1) + 1)..(q + ln.size) : k \notin LineStarts(t)
    BY <1>3, <2>1
  <2> QED
    BY <1>0, <1>1, <2>1, <2>2, NothingBetween
<1>5. RightTo(t, q + 1) <=> (q + 1 \in LineStarts(t) => Words(c) = {} \/ IsEntry(c))
  <2>1. \A k \in LineStarts(t) : k \in Nat /\ (k <= q + 1 <=> k <= q \/ k = q + 1)
    BY <1>0 DEF LineStarts
  <2> QED
    BY <1>1, <2>1 DEF RightTo, c
<1>6. /\ EntriesTo(t)[q + 1] = IF q + 1 \in LineStarts(t) /\ IsEntry(c)
                               THEN Append(EntriesTo(t)[q], Entry(c)) ELSE EntriesTo(t)[q]
      /\ q + 1 \in LineStarts(t) /\ IsEntry(c) =>
           Len(EntriesTo(t)[q + 1]) = Len(EntriesTo(t)[q]) + 1
  BY <1>0, <1>1, EntriesToIs DEF c
<1>7. Words(c) = {} => ~IsEntry(c)
  BY DEF IsEntry, TwoWords
<1>8. CASE ln.name = <<>>
  BY <1>3, <1>4, <1>5, <1>6, <1>7, <1>8
<1>9. CASE ln.name # <<>> /\ ln.weight # 0
  <2>1. q + 1 \in LineStarts(t) /\ IsEntry(c) /\ Entry(c) = <<ln.name, ln.weight>>
    BY <1>3, <1>9
  <2>2. Len(EntriesTo(t)[q]) < Len(EntriesTo(t)[Len(t)])
    <3>1. /\ Len(EntriesTo(t)[q]) \in Nat
          /\ Len(EntriesTo(t)[q + 1]) = Len(EntriesTo(t)[q]) + 1
      BY <1>0, <1>1, <1>6, <2>1, EntriesToIs
    <3>2. /\ Len(EntriesTo(t)[q + 1]) <= Len(EntriesTo(t)[Len(t)])
          /\ Len(EntriesTo(t)[Len(t)]) \in Nat
      <4>1. Len(t) \in 0..Len(t)
        BY <1>0
      <4> QED
        BY <1>0, <1>1, <4>1, MoreEntries, EntriesToIs
    <3> QED
      BY <3>1, <3>2
  <2> QED
    BY <1>3, <1>4, <1>5, <1>6, <1>9, <2>1, <2>2
<1>10. CASE ln.name # <<>> /\ ln.weight = 0
  <2>1. q + 1 \in LineStarts(t) /\ Words(c) # {} /\ ~IsEntry(c)
    BY <1>3, <1>10
  <2>2. ~RightTo(t, Len(t))
    <3>1. q + 1 <= Len(t)
      BY <1>0
    <3>2. ~(Words(Contents(t)[q + 1]) = {} \/ IsEntry(Contents(t)[q + 1]))
      BY <2>1 DEF c
    <3> QED
      BY <2>1, <3>1, <3>2, Zenon DEF RightTo
  <2> QED
    BY <1>0, <1>3, <1>10, <2>2, RightIs
<1> QED
  BY <1>8, <1>9, <1>10

-----------------------------------------------------------------------------
(*                             Chains as sequences                         *)

\* The items of s are what nx leads to from p, to the end.
IsChain(nx, s, p) ==
  /\ s \in Seq(Items)
  /\ p = IF s = <<>> THEN NULL ELSE s[1]
  /\ \A i \in 1..Len(s) : nx[s[i]] = IF i = Len(s) THEN NULL ELSE s[i + 1]

OwnedBy(ow, s, o) == \A i \in 1..Len(s) : ow[s[i]] = o
Vals(rd, wt, s)   == [i \in 1..Len(s) |-> <<rd[s[i]], wt[s[i]]>>]

\* The memory is finite.
LEMMA ItemsCounted == Cardinality(Items) \in Nat
BY ItemsAssumption, FS_CardinalityType

\* One item more of a sequence.
LEMMA OneMore ==
  ASSUME NEW s \in Seq(Items), NEW n \in 1..Len(s)
  PROVE  /\ Len(SubSeq(s, 1, n - 1)) = n - 1 /\ SubSeq(s, 1, n - 1) \in Seq(Items)
         /\ n > 1 => SubSeq(s, 1, n - 1)[n - 1] = s[n - 1]
         /\ Append(SubSeq(s, 1, n - 1), s[n]) = SubSeq(s, 1, n)
<1> DEFINE u == SubSeq(s, 1, n - 1)
           v == SubSeq(s, 1, n)
<1>1. /\ u \in Seq(Items) /\ Len(u) = n - 1 /\ \A i \in 1..(n - 1) : u[i] = s[i]
  <2>1. 1 \in 1..(Len(s) + 1) /\ n - 1 \in 0..Len(s)
    OBVIOUS
  <2> QED
    OBVIOUS
<1>2. /\ v \in Seq(Items) /\ Len(v) = n /\ \A i \in 1..n : v[i] = s[i]
  OBVIOUS
<1> HIDE DEF u, v
<1>3. s[n] \in Items
  OBVIOUS
<1>4. Append(u, s[n]) \in Seq(Items) /\ Len(Append(u, s[n])) = n
      /\ \A i \in 1..n : Append(u, s[n])[i] = s[i]
  BY <1>1, <1>3
<1>5. Append(u, s[n]) = v
  <2>1. \A i \in 1..n : Append(u, s[n])[i] = v[i]
    BY <1>2, <1>4
  <2> HIDE DEF u, v
  <2> QED
    BY <1>2, <1>4, <2>1, SeqEqual
<1>6. n > 1 => n - 1 \in 1..(n - 1)
  OBVIOUS
<1> QED
  BY <1>1, <1>5, <1>6 DEF u, v

\* Chain finds them.
LEMMA ChainIs ==
  ASSUME NEW s, NEW p, IsChain(next, s, p), Len(s) <= Cardinality(Items)
  PROVE  Chain(p) = s
<1> DEFINE N == Cardinality(Items)
           Nxt(u) == LET a == IF u = <<>> THEN p ELSE next[u[Len(u)]]
                     IN IF a = NULL THEN u ELSE Append(u, a)
           f == [n \in 0..N |-> IF n <= Len(s) THEN SubSeq(s, 1, n) ELSE s]
           Def(e) == e = [n \in 0..N |->
                            IF n = 0 THEN <<>>
                            ELSE LET u == e[n - 1]
                                     a == IF u = <<>> THEN p ELSE next[u[Len(u)]]
                                 IN IF a = NULL THEN u ELSE Append(u, a)]
           F == CHOOSE e : Def(e)
<1>0. /\ s \in Seq(Items) /\ Len(s) \in Nat /\ N \in Nat
      /\ p = IF s = <<>> THEN NULL ELSE s[1]
      /\ \A i \in 1..Len(s) : next[s[i]] = IF i = Len(s) THEN NULL ELSE s[i + 1]
  BY ItemsCounted DEF IsChain
<1>1. SubSeq(s, 1, Len(s)) = s /\ SubSeq(s, 1, 0) = <<>>
  BY <1>0, SubSeqFull, SubSeqEmpty
<1>2. f[0] = <<>> /\ f[N] = s
  <2>1. f[0] = SubSeq(s, 1, 0)
    BY <1>0
  <2>2. f[N] = IF N <= Len(s) THEN SubSeq(s, 1, N) ELSE s
    BY <1>0
  <2>3. N <= Len(s) => N = Len(s)
    BY <1>0
  <2> HIDE DEF f
  <2> QED
    BY <1>1, <2>1, <2>2, <2>3
<1>3. Nxt(s) = s
  <2>1. CASE s = <<>>
    BY <1>0, <2>1
  <2>2. CASE s # <<>>
    <3>1. next[s[Len(s)]] = NULL
      BY <1>0, <2>2
    <3> QED
      BY <2>2, <3>1
  <2> QED
    BY <2>1, <2>2
<1>4. ASSUME NEW n \in 1..N
      PROVE  f[n] = Nxt(f[n - 1])
  <2>1. CASE n <= Len(s)
    <3> DEFINE u == SubSeq(s, 1, n - 1)
    <3>1. f[n] = SubSeq(s, 1, n) /\ f[n - 1] = u
      BY <1>0, <2>1
    <3>2. /\ Len(u) = n - 1 /\ u \in Seq(Items)
          /\ n > 1 => u[n - 1] = s[n - 1]
          /\ Append(u, s[n]) = SubSeq(s, 1, n)
      BY <1>0, <2>1, OneMore
    <3> HIDE DEF u, f
    <3>3. s[n] \in Items /\ s[n] # NULL
      BY <1>0, <2>1, NULLAssumption
    <3>4. CASE n = 1
      <4>1. u = <<>> /\ p = s[1]
        BY <1>0, <2>1, <3>2, <3>4
      <4> QED
        BY <3>1, <3>2, <3>3, <3>4, <4>1
    <3>5. CASE n # 1
      <4>1. u # <<>> /\ u[Len(u)] = s[n - 1]
        BY <3>2, <3>5
      <4>2. next[s[n - 1]] = s[n]
        <5>1. n - 1 \in 1..Len(s) /\ n - 1 # Len(s) /\ (n - 1) + 1 = n
          BY <1>0, <2>1, <3>5
        <5> QED
          BY <1>0, <5>1
      <4> QED
        BY <3>1, <3>2, <3>3, <4>1, <4>2
    <3> QED
      BY <3>4, <3>5
  <2>2. CASE n > Len(s)
    <3>1. f[n] = s /\ f[n - 1] = s
      <4>1. ~(n <= Len(s)) /\ (n - 1 <= Len(s) => n - 1 = Len(s))
        BY <1>0, <2>2
      <4>2. /\ f[n] = IF n <= Len(s) THEN SubSeq(s, 1, n) ELSE s
            /\ f[n - 1] = IF n - 1 <= Len(s) THEN SubSeq(s, 1, n - 1) ELSE s
        BY <1>0
      <4> HIDE DEF f
      <4> QED
        BY <1>1, <4>1, <4>2
    <3> HIDE DEF f, Nxt
    <3> QED
      BY <1>3, <3>1
  <2>3. n <= Len(s) \/ n > Len(s)
    BY <1>0
  <2> HIDE DEF f, Nxt
  <2> QED
    BY <2>1, <2>2, <2>3
<1>5. Def(f)
  <2>1. ASSUME NEW n \in 0..N
        PROVE  f[n] = IF n = 0 THEN <<>>
                      ELSE LET u == f[n - 1]
                               a == IF u = <<>> THEN p ELSE next[u[Len(u)]]
                           IN IF a = NULL THEN u ELSE Append(u, a)
    <3>1. n # 0 => n \in 1..N
      BY <1>0
    <3> HIDE DEF f
    <3> QED
      BY <1>2, <1>4, <3>1
  <2>2. DOMAIN f = 0..N /\ f = [n \in 0..N |-> f[n]]
    OBVIOUS
  <2> HIDE DEF f, N
  <2> QED
    BY <2>1, <2>2
<1>6. Def(F)
  <2> HIDE DEF Def
  <2> QED
    BY <1>5
<1>7. Chain(p) = F[N]
  BY DEF Chain
<1> HIDE DEF F
<1>8. F[0] = <<>> /\ \A n \in 1..N : F[n] = Nxt(F[n - 1])
  <2> HIDE DEF N
  <2>1. \A n \in 0..N : F[n] = IF n = 0 THEN <<>>
                      ELSE LET u == F[n - 1]
                               a == IF u = <<>> THEN p ELSE next[u[Len(u)]]
                           IN IF a = NULL THEN u ELSE Append(u, a)
    BY <1>6
  <2>2. 0 \in 0..N /\ \A n \in 1..N : n \in 0..N /\ n # 0
    BY <1>0
  <2> QED
    BY <2>1, <2>2
<1>9. F[N] = f[N]
  <2> DEFINE M == {n \in 0..N : F[n] # f[n]}
  <2> HIDE DEF f, Nxt
  <2> SUFFICES ASSUME N \in M PROVE FALSE
    BY <1>0
  <2>1. PICK m \in M : \A y \in M : m <= y
    <3>1. M \subseteq Nat /\ M # {}
      OBVIOUS
    <3> HIDE DEF M
    <3> QED
      BY <3>1, LeastExists
  <2>2. m # 0
    BY <1>2, <1>8, <2>1
  <2>3. m \in 1..N /\ m - 1 \in 0..N /\ ~(m <= m - 1)
    BY <1>0, <2>1, <2>2
  <2>4. F[m - 1] = f[m - 1]
    BY <2>1, <2>3
  <2>5. F[m] = f[m]
    BY <1>4, <1>8, <2>3, <2>4
  <2> QED
    BY <2>1, <2>5
<1> QED
  BY <1>2, <1>7, <1>9

-----------------------------------------------------------------------------
(*                         The list and the file                           *)

Others == {a \in Live : owner[a] # "new"}
Enough == Cardinality(Others) + Len(Meaning[text]) <= Cardinality(Items)
NewVals(s) == Vals(rbldomain, weight, s)

\* s is the list that cfg_read has made so far, and there is no other new item.
NewIs(s) ==
  /\ IsChain(next, s, first) /\ OwnedBy(owner, s, "new")
  /\ Cardinality(Owned("new")) = Len(s)

LastOf(s) == last = IF s = <<>> THEN NULL ELSE s[Len(s)]

\* It has what the first q characters of the text say.
ReadTo(s, q) ==
  /\ q \in 0..Len(text) /\ AtLine(text, q) /\ RightTo(text, q)
  /\ NewVals(s) = EntriesTo(text)[q]

InHand(s) ==
  \E q \in 0..(Len(text) - 1) :
    /\ ReadTo(s, q)
    /\ buf = Lines[text][q] /\ buf.name # <<>>
    /\ pos = q + buf.size

Built ==
  /\ mpc \in {"startup", "reload"} =>
       /\ cfgpc = "read" =>
            text \in Texts /\ \E s : NewIs(s) /\ LastOf(s) /\ (Fits(text) => ReadTo(s, pos))
       /\ cfgpc = "parse" =>
            text \in Texts /\ \E s : NewIs(s) /\ LastOf(s) /\ (Fits(text) => InHand(s))
       /\ cfgpc = "cleanup" => (Fits(text) => Meaning[text] = <<>> \/ ~Enough)
       /\ cfgpc = "returned" =>
            \E s : NewIs(s) /\ (Fits(text) => NewVals(s) = IF Enough THEN Meaning[text] ELSE <<>>)
  /\ mpc = "swap" =>
       first # NULL /\ \E s : NewIs(s) /\ (Fits(text) => NewVals(s) = Meaning[text])

UsedIs(s) ==
  /\ IsChain(next, s, rblist) /\ OwnedBy(owner, s, "served") /\ Len(s) <= Cardinality(Items)
  /\ loaded \in Fitting => NewVals(s) = Meaning[loaded]

InUse ==
  mpc \in {"loop", "accept", "wait", "reload"} => rblist # NULL /\ \E s : UsedIs(s)

\* A chain of an owner whose items are left alone.
LEMMA ChainStays ==
  ASSUME NEW s, NEW p, NEW o, NEW o1, IsChain(next, s, p), OwnedBy(owner, s, o),
         \A a \in Items : owner[a] = o =>
           /\ next'[a] = next[a] /\ rbldomain'[a] = rbldomain[a] /\ weight'[a] = weight[a]
           /\ owner'[a] = o1
  PROVE  /\ IsChain(next', s, p) /\ OwnedBy(owner', s, o1)
         /\ Vals(rbldomain', weight', s) = NewVals(s)
<1>1. \A i \in 1..Len(s) : s[i] \in Items /\ owner[s[i]] = o
  BY DEF IsChain, OwnedBy
<1>2. \A i \in 1..Len(s) :
        /\ next'[s[i]] = next[s[i]] /\ rbldomain'[s[i]] = rbldomain[s[i]]
        /\ weight'[s[i]] = weight[s[i]] /\ owner'[s[i]] = o1
  BY <1>1
<1>3. IsChain(next', s, p)
  BY <1>2 DEF IsChain
<1>4. OwnedBy(owner', s, o1)
  BY <1>2 DEF OwnedBy
<1>5. Vals(rbldomain', weight', s) = NewVals(s)
  BY <1>2 DEF Vals, NewVals
<1> QED
  BY <1>3, <1>4, <1>5

\* The empty list.
LEMMA EmptyChain ==
  ASSUME NEW nx, NEW ow, NEW rd, NEW wt
  PROVE  IsChain(nx, <<>>, NULL) /\ OwnedBy(ow, <<>>, "new") /\ Vals(rd, wt, <<>>) = <<>>
BY DEF IsChain, OwnedBy, Vals

\* What is allocated fits into the memory.
LEMMA Room ==
  /\ Cardinality(Others) \in Nat /\ Cardinality(Owned("new")) \in Nat /\ Cardinality(Items) \in Nat
  /\ Cardinality(Others) + Cardinality(Owned("new")) = Cardinality(Live)
  /\ Cardinality(Live) <= Cardinality(Items)
<1>1. Others \in SUBSET Items /\ Owned("new") \in SUBSET Items /\ Live \in SUBSET Items
  BY DEF Others, Owned, Live
<1>2. /\ IsFiniteSet(Others) /\ IsFiniteSet(Owned("new"))
      /\ Cardinality(Live) <= Cardinality(Items)
  BY <1>1, ItemsAssumption, FS_Subset
<1>3. Others \cap Owned("new") = {} /\ Others \cup Owned("new") = Live
  BY DEF Others, Owned, Live
<1>4. Cardinality(Others \cup Owned("new"))
        = Cardinality(Others) + Cardinality(Owned("new")) - Cardinality(Others \cap Owned("new"))
  BY <1>2, FS_Union
<1>5. /\ Cardinality(Others) \in Nat /\ Cardinality(Owned("new")) \in Nat
      /\ Cardinality(Items) \in Nat /\ Cardinality({}) = 0
  BY <1>2, ItemsAssumption, FS_CardinalityType, FS_EmptySet
<1>6. Cardinality(Live) = Cardinality(Others) + Cardinality(Owned("new")) - Cardinality({})
  BY <1>3, <1>4, Zenon
<1> QED
  BY <1>2, <1>5, <1>6

\* Meaning, for the texts there are.
LEMMA MeaningIs ==
  /\ \A t \in Texts \cup {<<>>} : Meaning[t] = IF IsRight(t) THEN EntriesTo(t)[Len(t)] ELSE <<>>
  /\ Meaning[<<>>] = <<>>
<1>1. \A t \in Texts \cup {<<>>} : Meaning[t] = IF IsRight(t) THEN EntriesTo(t)[Len(t)] ELSE <<>>
  BY DEF Meaning, Entries
<1>2. <<>> \in Seq(STRING) /\ Len(<<>>) = 0
  OBVIOUS
<1>3. EntriesTo(<<>>)[0] = <<>>
  BY <1>2, EntriesToIs
<1> QED
  BY <1>1, <1>2, <1>3

\* No list is being read: no item is new.
LEMMA NoneNew ==
  ASSUME Kept, Running, NewHead = NULL
  PROVE  Owned("new") = {}
<1>1. Covers(next, NULL, {})
  BY DEF Covers
<1> QED
  BY <1>1 DEF Kept, Reached

\* The owner and the contents of the new items stay.
LEMMA NewStays ==
  ASSUME NEW s, NewIs(s), first' = first,
         \A a \in Items : owner[a] = "new" <=> owner'[a] = "new",
         \A a \in Items : owner[a] = "new" =>
           next'[a] = next[a] /\ rbldomain'[a] = rbldomain[a] /\ weight'[a] = weight[a]
  PROVE  NewIs(s)' /\ NewVals(s)' = NewVals(s)
<1>1. /\ IsChain(next', s, first) /\ OwnedBy(owner', s, "new")
      /\ Vals(rbldomain', weight', s) = NewVals(s)
  BY ChainStays DEF NewIs
<1>2. Owned("new")' = Owned("new")
  BY DEF Owned
<1> QED
  BY <1>1, <1>2 DEF NewIs, NewVals

\* The list in use stays.
LEMMA InUseStays ==
  ASSUME InUse, rblist' = rblist, loaded' = loaded,
         mpc' \in {"loop", "accept", "wait", "reload"} => mpc \in {"loop", "accept", "wait", "reload"},
         \A a \in Items : owner[a] = "served" =>
           /\ next'[a] = next[a] /\ rbldomain'[a] = rbldomain[a] /\ weight'[a] = weight[a]
           /\ owner'[a] = "served"
  PROVE  InUse'
<1> SUFFICES ASSUME mpc \in {"loop", "accept", "wait", "reload"} PROVE InUse'
  BY DEF InUse
<1>1. PICK s : UsedIs(s)
  BY DEF InUse
<1>2. /\ IsChain(next', s, rblist) /\ OwnedBy(owner', s, "served")
      /\ Vals(rbldomain', weight', s) = NewVals(s)
  BY <1>1, ChainStays DEF UsedIs
<1>3. UsedIs(s)'
  BY <1>1, <1>2 DEF UsedIs, NewVals
<1> QED
  BY <1>3 DEF InUse

-----------------------------------------------------------------------------
(*                            The steps of cfg_read                        *)

\* The file is opened: nothing of it is read.
LEMMA OpenBuilds ==
  ASSUME IInv, Kept, Running, mpc \in {"startup", "reload"}, mpc' = mpc, fopen
  PROVE  Built'
<1>1. /\ cfgpc = "open" /\ first' = NULL
      /\ UNCHANGED <<rbldomain, weight, next, owner>>
      /\ \/ text' \in Texts /\ pos' = 0 /\ last' = NULL /\ cfgpc' = "read"
         \/ text' = <<>> /\ cfgpc' = "returned"
  BY DEF fopen, cfg_return, heapVars, nodeVars
<1>2. Owned("new")' = {}
  <2>1. NewHead = NULL
    BY <1>1 DEF NewHead
  <2>2. Owned("new") = {}
    BY <2>1, NoneNew
  <2> QED
    BY <1>1, <2>2 DEF Owned
<1>3. NewIs(<<>>)' /\ NewVals(<<>>)' = <<>>
  <2>1. IsChain(next', <<>>, NULL) /\ OwnedBy(owner', <<>>, "new") /\ Vals(rbldomain', weight', <<>>) = <<>>
    BY EmptyChain
  <2>2. Cardinality(Owned("new")') = 0 /\ Len(<<>>) = 0
    BY <1>2, FS_EmptySet
  <2> QED
    BY <1>1, <2>1, <2>2 DEF NewIs, NewVals
<1>4. CASE text' \in Texts /\ pos' = 0 /\ last' = NULL /\ cfgpc' = "read"
  <2>1. text' \in Seq(STRING) /\ 0 \in 0..Len(text')
    BY <1>4, TextsAssumption
  <2>2. AtLine(text', 0) /\ RightTo(text', 0)
    <3>1. \A k \in LineStarts(text') : ~(k <= 0)
      BY <2>1 DEF LineStarts
    <3>2. Len(text') # 0 => 0 + 1 \in LineStarts(text')
      BY <2>1 DEF LineStarts
    <3> QED
      BY <2>1, <3>1, <3>2 DEF AtLine, RightTo
  <2>3. EntriesTo(text')[0] = <<>>
    BY <2>1, EntriesToIs
  <2>4. ReadTo(<<>>, 0)'
    BY <1>3, <2>1, <2>2, <2>3 DEF ReadTo
  <2>5. LastOf(<<>>)'
    BY <1>4 DEF LastOf
  <2>6. \E s : NewIs(s)' /\ LastOf(s)' /\ (Fits(text') => ReadTo(s, pos)')
    BY <1>3, <1>4, <2>4, <2>5
  <2> QED
    BY <1>4, <2>6 DEF Built
<1>5. CASE text' = <<>> /\ cfgpc' = "returned"
  <2>1. Meaning[text'] = <<>>
    BY <1>5, MeaningIs
  <2>2. \E s : NewIs(s)' /\ (Fits(text') => NewVals(s)' = IF Enough' THEN Meaning[text'] ELSE <<>>)
    BY <1>3, <2>1
  <2> QED
    BY <1>5, <2>2 DEF Built
<1> QED
  BY <1>1, <1>4, <1>5

\* A line: nothing is said there, or it is in hand.
LEMMA LineBuilds ==
  ASSUME Built, mpc \in {"startup", "reload"}, mpc' = mpc, ReadLine
  PROVE  Built'
<1> DEFINE ln == Lines[text][pos]
<1>1. /\ cfgpc = "read" /\ pos \in 0..(Len(text) - 1)
      /\ pos' = pos + ln.size
      /\ \/ ln.name = <<>> /\ cfgpc' = "read" /\ buf' = buf
         \/ ln.name # <<>> /\ buf' = ln /\ cfgpc' = "parse"
      /\ UNCHANGED <<text, first, last, rbldomain, weight, next, owner>>
  BY DEF ReadLine, heapVars, nodeVars
<1> HIDE DEF ln
<1>2. PICK s : NewIs(s) /\ LastOf(s) /\ (Fits(text) => ReadTo(s, pos))
  BY <1>1 DEF Built
<1>3. text \in Texts /\ text \in Seq(STRING)
  BY <1>1, TextsAssumption DEF Built
<1>4. NewIs(s)' /\ NewVals(s)' = NewVals(s) /\ LastOf(s)'
  BY <1>1, <1>2, NewStays DEF LastOf
<1>5. CASE ln.name = <<>> /\ cfgpc' = "read" /\ buf' = buf
  <2>1. ASSUME Fits(text) PROVE ReadTo(s, pos)'
    <3>1. AtLine(text, pos) /\ RightTo(text, pos) /\ NewVals(s) = EntriesTo(text)[pos]
      BY <1>2, <2>1 DEF ReadTo
    <3>2. /\ ln.size \in 1..(Len(text) - pos)
          /\ AtLine(text, pos + ln.size) /\ RightTo(text, pos + ln.size)
          /\ EntriesTo(text)[pos + ln.size] = EntriesTo(text)[pos]
      BY <1>1, <1>3, <1>5, <2>1, <3>1, NextLine DEF ln
    <3>3. pos + ln.size \in 0..Len(text)
      BY <1>1, <1>3, <3>2
    <3> QED
      BY <1>1, <1>4, <3>1, <3>2, <3>3 DEF ReadTo
  <2>2. \E u : NewIs(u)' /\ LastOf(u)' /\ (Fits(text') => ReadTo(u, pos)')
    BY <1>1, <1>4, <2>1
  <2> QED
    BY <1>1, <1>3, <1>5, <2>2 DEF Built
<1>6. CASE ln.name # <<>> /\ buf' = ln /\ cfgpc' = "parse"
  <2>1. ASSUME Fits(text) PROVE InHand(s)'
    <3>1. ReadTo(s, pos)
      BY <1>2, <2>1
    <3>2. ReadTo(s, pos) => text' = text /\ (\E q \in 0..(Len(text) - 1) :
            /\ q \in 0..Len(text) /\ AtLine(text, q) /\ RightTo(text, q)
            /\ NewVals(s)' = EntriesTo(text)[q]
            /\ buf' = Lines[text][q] /\ buf'.name # <<>>
            /\ pos' = q + buf'.size)
      BY <1>1, <1>4, <1>6 DEF ReadTo, ln
    <3> QED
      BY <3>1, <3>2 DEF InHand, ReadTo
  <2>2. \E u : NewIs(u)' /\ LastOf(u)' /\ (Fits(text') => InHand(u)')
    BY <1>1, <1>4, <2>1
  <2> QED
    BY <1>1, <1>3, <1>6, <2>2 DEF Built
<1> QED
  BY <1>1, <1>5, <1>6

\* The entry in hand goes to the end of the list.
LEMMA AddBuilds ==
  ASSUME IInv, Built, mpc \in {"startup", "reload"}, mpc' = mpc, AddItem
  PROVE  Built'
<1>0. CfgTypeOK /\ Heap /\ Lists
  BY DEF IInv, TypeOK
<1>1. /\ cfgpc = "parse" /\ cfgpc' = "read" /\ buf.weight # 0
      /\ UNCHANGED <<text, pos>>
  BY DEF AddItem, ParseLine
<1>2. PICK a \in Items :
        /\ owner[a] = "free"
        /\ owner' = [owner EXCEPT ![a] = "new"]
        /\ rbldomain' = [rbldomain EXCEPT ![a] = buf.name]
        /\ weight' = [weight EXCEPT ![a] = buf.weight]
        /\ next' = [b \in Items |-> IF b = a THEN NULL ELSE IF b = last THEN a ELSE next[b]]
        /\ first' = (IF first = NULL THEN a ELSE first)
        /\ last' = a
  BY DEF AddItem, calloc, Link
<1>3. PICK s : NewIs(s) /\ LastOf(s) /\ (Fits(text) => InHand(s))
  BY <1>1 DEF Built
<1>4. /\ s \in Seq(Items) /\ first = IF s = <<>> THEN NULL ELSE s[1]
      /\ \A i \in 1..Len(s) : next[s[i]] = IF i = Len(s) THEN NULL ELSE s[i + 1]
      /\ \A i \in 1..Len(s) : owner[s[i]] = "new"
      /\ last = IF s = <<>> THEN NULL ELSE s[Len(s)]
  BY <1>3 DEF NewIs, IsChain, OwnedBy, LastOf
<1> DEFINE u == Append(s, a)
<1>5. /\ u \in Seq(Items) /\ Len(u) = Len(s) + 1 /\ u # <<>> /\ u[Len(s) + 1] = a
      /\ \A i \in 1..Len(s) : u[i] = s[i] /\ s[i] \in Items
  <2>1. \A i \in 1..Len(s) : s[i] \in Items
    BY <1>4
  <2> QED
    BY <1>4, <2>1, AppendProperties
<1> HIDE DEF u
<1>6. \A i \in 1..Len(s) : s[i] # a /\ s[i] # NULL
  BY <1>2, <1>4, <1>5, NULLAssumption
<1>7. IsChain(next', u, first')
  <2>1. first' = u[1]
    <3>1. CASE s = <<>>
      BY <1>2, <1>4, <1>5, <3>1
    <3>2. CASE s # <<>>
      <4>1. 1 \in 1..Len(s)
        BY <1>4, <3>2
      <4>2. first = s[1] /\ first # NULL
        BY <1>4, <1>6, <3>2, <4>1
      <4> QED
        BY <1>2, <1>5, <4>1, <4>2
    <3> QED
      BY <3>1, <3>2
  <2>2. ASSUME NEW i \in 1..Len(u)
        PROVE  next'[u[i]] = IF i = Len(u) THEN NULL ELSE u[i + 1]
    <3>1. CASE i = Len(u)
      BY <1>2, <1>5, <3>1
    <3>2. CASE i = Len(s)
      <4>1. i \in 1..Len(s) /\ s # <<>> /\ i # Len(u) /\ i + 1 = Len(s) + 1
        BY <1>4, <1>5, <3>2
      <4>2. u[i] = last /\ last \in Items /\ last # a
        BY <1>4, <1>5, <1>6, <3>2, <4>1
      <4>3. next'[last] = a
        BY <1>2, <4>2
      <4> QED
        BY <1>5, <4>1, <4>2, <4>3
    <3>3. CASE i # Len(u) /\ i # Len(s)
      <4>1. i \in 1..Len(s) /\ i + 1 \in 1..Len(s) /\ s # <<>> /\ Len(s) \in 1..Len(s)
        BY <1>4, <1>5, <3>3
      <4>2. next[s[i]] = s[i + 1] /\ next[last] = NULL /\ s[i + 1] # NULL
        BY <1>4, <1>6, <3>3, <4>1
      <4>3. next'[s[i]] = next[s[i]]
        BY <1>2, <1>5, <1>6, <4>1, <4>2
      <4> QED
        BY <1>5, <3>3, <4>1, <4>2, <4>3
    <3> QED
      BY <3>1, <3>2, <3>3
  <2> QED
    BY <1>5, <2>1, <2>2 DEF IsChain
<1>8. OwnedBy(owner', u, "new")
  <2> SUFFICES ASSUME NEW i \in 1..Len(u) PROVE owner'[u[i]] = "new"
    BY DEF OwnedBy
  <2>1. CASE i = Len(s) + 1
    BY <1>0, <1>2, <1>5, <2>1 DEF CfgTypeOK
  <2>2. CASE i # Len(s) + 1
    <3>1. i \in 1..Len(s)
      BY <1>4, <1>5, <2>2
    <3> QED
      BY <1>0, <1>2, <1>4, <1>5, <3>1 DEF CfgTypeOK
  <2> QED
    BY <2>1, <2>2
<1>9. Cardinality(Owned("new")') = Len(u)
  <2>1. Owned("new")' = Owned("new") \cup {a} /\ a \notin Owned("new")
    BY <1>0, <1>2 DEF Owned, CfgTypeOK
  <2>2. Owned("new") \in SUBSET Items
    BY DEF Owned
  <2>3. IsFiniteSet(Owned("new"))
    BY <2>2, ItemsAssumption, FS_Subset
  <2>4. Cardinality(Owned("new") \cup {a}) = Cardinality(Owned("new")) + 1
    BY <2>1, <2>3, FS_AddElement
  <2>5. Cardinality(Owned("new")) = Len(s)
    BY <1>3 DEF NewIs
  <2> QED
    BY <1>5, <2>1, <2>4, <2>5
<1>10. NewIs(u)' /\ LastOf(u)'
  BY <1>2, <1>5, <1>7, <1>8, <1>9 DEF NewIs, LastOf
<1>11. /\ Len(NewVals(u)') = Len(s) + 1
       /\ NewVals(u)' = Append(NewVals(s), <<buf.name, buf.weight>>)
  <2> DEFINE e == <<buf.name, buf.weight>>
             x == NewVals(u)'
             y == Append(NewVals(s), e)
             n == Len(s) + 1
  <2>1. x = [i \in 1..n |-> <<rbldomain'[u[i]], weight'[u[i]]>>]
    BY <1>5 DEF NewVals, Vals
  <2>2. y = [i \in 1..n |-> IF i = n THEN e ELSE <<rbldomain[s[i]], weight[s[i]]>>]
    <3>1. NewVals(s) = [i \in 1..Len(s) |-> <<rbldomain[s[i]], weight[s[i]]>>]
      BY DEF NewVals, Vals
    <3>2. Len(NewVals(s)) = Len(s) /\ Len(s) \in Nat
      BY <1>4, <3>1
    <3> HIDE DEF e
    <3> QED
      BY <3>1, <3>2
  <2>3. ASSUME NEW i \in 1..n
        PROVE  <<rbldomain'[u[i]], weight'[u[i]]>> = IF i = n THEN e ELSE <<rbldomain[s[i]], weight[s[i]]>>
    <3>1. CASE i = n
      BY <1>0, <1>2, <1>5, <3>1 DEF CfgTypeOK
    <3>2. CASE i # n
      <4>1. i \in 1..Len(s)
        BY <1>4, <3>2
      <4> QED
        BY <1>2, <1>5, <1>6, <3>2, <4>1
    <3> QED
      BY <3>1, <3>2
  <2>4. n \in Nat
    BY <1>4
  <2>5. Len(x) = n
    <3> HIDE DEF x, n
    <3> QED
      BY <2>1, <2>4
  <2>6. x = y
    <3> HIDE DEF x, y, n, e
    <3> QED
      BY <2>1, <2>2, <2>3
  <2> QED
    BY <2>5, <2>6
<1>12. text \in Texts /\ text \in Seq(STRING)
  BY <1>1, TextsAssumption DEF Built
<1>13. ASSUME Fits(text) PROVE ReadTo(u, pos)'
  <2>1. PICK q \in 0..(Len(text) - 1) :
          /\ ReadTo(s, q) /\ buf = Lines[text][q] /\ buf.name # <<>> /\ pos = q + buf.size
    BY <1>3, <1>13 DEF InHand
  <2>2. AtLine(text, q) /\ RightTo(text, q) /\ NewVals(s) = EntriesTo(text)[q]
    BY <2>1 DEF ReadTo
  <2>3. /\ buf.size \in 1..(Len(text) - q)
        /\ AtLine(text, q + buf.size) /\ RightTo(text, q + buf.size)
        /\ EntriesTo(text)[q + buf.size] = Append(EntriesTo(text)[q], <<buf.name, buf.weight>>)
    BY <1>1, <1>12, <1>13, <2>1, <2>2, NextLine
  <2>4. q + buf.size \in 0..Len(text)
    BY <1>12, <2>3
  <2> QED
    BY <1>1, <1>11, <2>1, <2>2, <2>3, <2>4 DEF ReadTo
<1>14. \E v : NewIs(v)' /\ LastOf(v)' /\ (Fits(text') => ReadTo(v, pos)')
  BY <1>1, <1>10, <1>13
<1> QED
  BY <1>1, <1>12, <1>14 DEF Built

\* The line in hand is of no use, or there is no place for it: the text is not
\* right, or there is not enough memory for it.
LEMMA RefusalBuilds ==
  ASSUME IInv, Built, mpc \in {"startup", "reload"}, mpc' = mpc, BadLine \/ BadWeight
  PROVE  Built'
<1>1. /\ cfgpc = "parse" /\ cfgpc' = "cleanup" /\ text' = text
      /\ buf.arg = <<>> \/ Live = Items \/ buf.weight = 0
  BY DEF BadLine, BadWeight, err_cleanup, ParseLine
<1>3. PICK s : NewIs(s) /\ LastOf(s) /\ (Fits(text) => InHand(s))
  BY <1>1 DEF Built
<1>4. text \in Texts /\ text \in Seq(STRING)
  BY <1>1, TextsAssumption DEF Built
<1>5. ASSUME Fits(text)
      PROVE  Meaning[text] = <<>> \/ ~Enough'
  <2>1. PICK q \in 0..(Len(text) - 1) :
          /\ ReadTo(s, q) /\ buf = Lines[text][q] /\ buf.name # <<>> /\ pos = q + buf.size
    BY <1>3, <1>5 DEF InHand
  <2>2. AtLine(text, q) /\ RightTo(text, q) /\ NewVals(s) = EntriesTo(text)[q]
    BY <2>1 DEF ReadTo
  <2>3. /\ buf.arg = <<>> => buf.weight = 0
        /\ buf.weight # 0 => Len(EntriesTo(text)[q]) < Len(EntriesTo(text)[Len(text)])
        /\ buf.weight = 0 => ~IsRight(text)
    BY <1>4, <1>5, <2>1, <2>2, NextLine
  <2>4. CASE buf.weight = 0
    BY <1>4, <2>3, <2>4, MeaningIs
  <2>5. CASE buf.weight # 0 /\ ~IsRight(text)
    BY <1>4, <2>5, MeaningIs
  <2>6. CASE buf.weight # 0 /\ IsRight(text)
    <3>1. Live = Items /\ Meaning[text] = EntriesTo(text)[Len(text)]
      BY <1>1, <1>4, <2>3, <2>6, MeaningIs
    <3>2. owner' = owner
      <4>1. ~BadWeight
        BY <2>6 DEF BadWeight
      <4> QED
        BY <4>1 DEF BadLine, heapVars
    <3>3. Len(NewVals(s)) = Len(s) /\ Len(s) = Cardinality(Owned("new"))
      BY <1>3 DEF NewIs, IsChain, NewVals, Vals
    <3>4. Len(Meaning[text]) \in Nat
      <4>1. Len(text) \in 0..Len(text)
        BY <1>4
      <4> QED
        BY <1>4, <3>1, <4>1, EntriesToIs
    <3>5. Cardinality(Owned("new")) < Len(Meaning[text])
      BY <2>2, <2>3, <2>6, <3>1, <3>3
    <3>6. ~Enough
      BY <3>1, <3>4, <3>5, Room DEF Enough
    <3> QED
      BY <1>1, <3>2, <3>6 DEF Enough, Others, Live
  <2> QED
    BY <2>4, <2>5, <2>6
<1> QED
  BY <1>1, <1>5 DEF Built

\* The end of the file: everything is read.
LEMMA EndBuilds ==
  ASSUME Built, mpc \in {"startup", "reload"}, mpc' = mpc, EndOfFile
  PROVE  Built'
<1>1. /\ cfgpc = "read" /\ pos = Len(text) /\ cfgpc' = "returned" /\ first' = first
      /\ UNCHANGED <<text, rbldomain, weight, next, owner>>
  BY DEF EndOfFile, cfg_return, heapVars, nodeVars
<1>2. PICK s : NewIs(s) /\ LastOf(s) /\ (Fits(text) => ReadTo(s, pos))
  BY <1>1 DEF Built
<1>3. text \in Texts /\ text \in Seq(STRING)
  BY <1>1, TextsAssumption DEF Built
<1>4. NewIs(s)' /\ NewVals(s)' = NewVals(s)
  BY <1>1, <1>2, NewStays
<1>5. ASSUME Fits(text)
      PROVE  NewVals(s) = Meaning[text] /\ Enough
  <2>1. RightTo(text, Len(text)) /\ NewVals(s) = EntriesTo(text)[Len(text)]
    BY <1>1, <1>2, <1>5 DEF ReadTo
  <2>2. NewVals(s) = Meaning[text]
    BY <1>3, <2>1, RightIs, MeaningIs
  <2>3. Len(NewVals(s)) = Len(s) /\ Len(s) = Cardinality(Owned("new"))
    BY <1>2 DEF NewIs, IsChain, NewVals, Vals
  <2> QED
    BY <2>2, <2>3, Room DEF Enough
<1>6. Enough' = Enough
  BY <1>1 DEF Enough, Others, Live
<1>7. \E u : NewIs(u)' /\ (Fits(text') => NewVals(u)' = IF Enough' THEN Meaning[text'] ELSE <<>>)
  BY <1>1, <1>4, <1>5, <1>6
<1> QED
  BY <1>1, <1>7 DEF Built

-----------------------------------------------------------------------------
(*                         cfg_free and the callers                        *)

\* What cfg_free gives back, neither of the two depends on.
LEMMA FreeBuilds ==
  ASSUME IInv, Built, Running, mpc' = mpc, FreeItem
  PROVE  Built'
<1>1. CfgTypeOK /\ Heap /\ Heads /\ Lists /\ Control
  BY DEF IInv, TypeOK
<1>2. /\ cfgpc \in {"cleanup", "free"} /\ cfgpc' = cfgpc
      /\ item \in Items /\ item # NULL
      /\ owner' = [owner EXCEPT ![item] = "free"]
      /\ rbldomain' = [rbldomain EXCEPT ![item] = <<>>]
      /\ weight' = [weight EXCEPT ![item] = 0]
      /\ next' = [next EXCEPT ![item] = NULL]
      /\ first' = first /\ text' = text
  BY <1>1 DEF FreeItem, readVars, CfgTypeOK, Pointers
<1>3. owner[item] = IF cfgpc = "cleanup" THEN "new" ELSE "served"
  BY <1>1, <1>2 DEF Lists, Owns
<1>4. CASE cfgpc = "cleanup"
  <2>1. Others' = Others
    BY <1>1, <1>2, <1>3, <1>4 DEF Others, Live, CfgTypeOK
  <2>2. Enough' = Enough
    BY <1>2, <2>1 DEF Enough
  <2>3. mpc # "swap"
    BY <1>1, <1>4 DEF Control
  <2> QED
    BY <1>2, <1>4, <2>2, <2>3 DEF Built
<1>5. CASE cfgpc = "free"
  <2>1. mpc \notin {"startup", "reload"}
    BY <1>1, <1>5 DEF Control
  <2>2. ASSUME mpc = "swap"
        PROVE  first' # NULL /\ \E s : NewIs(s)' /\ (Fits(text') => NewVals(s)' = Meaning[text'])
    <3>1. PICK s : NewIs(s) /\ (Fits(text) => NewVals(s) = Meaning[text])
      BY <2>2 DEF Built
    <3>2. /\ \A a \in Items : owner[a] = "new" <=> owner'[a] = "new"
          /\ \A a \in Items : owner[a] = "new" =>
               next'[a] = next[a] /\ rbldomain'[a] = rbldomain[a] /\ weight'[a] = weight[a]
      BY <1>1, <1>2, <1>3, <1>5 DEF CfgTypeOK
    <3>3. NewIs(s)' /\ NewVals(s)' = NewVals(s)
      BY <1>2, <3>1, <3>2, NewStays
    <3> QED
      BY <1>2, <2>2, <3>1, <3>3 DEF Built
  <2> QED
    BY <1>2, <2>1, <2>2 DEF Built
<1> QED
  BY <1>2, <1>4, <1>5

\* The end of cfg_free: of a refused text nothing is left.
LEMMA FreeEndBuilds ==
  ASSUME IInv, Kept, Built, Running, mpc' = mpc, FreeEnd
  PROVE  Built'
<1>1. Control
  BY DEF IInv
<1>2. /\ cfgpc \in {"cleanup", "free"} /\ item = NULL /\ cfgpc' = "returned"
      /\ cfgpc = "cleanup" => first' = NULL
      /\ cfgpc = "free" => first' = first
      /\ UNCHANGED <<text, rbldomain, weight, next, owner>>
  BY DEF FreeEnd, heapVars, nodeVars
<1>3. CASE cfgpc = "cleanup"
  <2>1. Owned("new")' = {}
    <3>1. NewHead = NULL
      BY <1>2, <1>3 DEF NewHead
    <3>2. Owned("new") = {}
      BY <3>1, NoneNew
    <3> QED
      BY <1>2, <3>2 DEF Owned
  <2>2. NewIs(<<>>)' /\ NewVals(<<>>)' = <<>>
    <3>1. IsChain(next', <<>>, NULL) /\ OwnedBy(owner', <<>>, "new") /\ Vals(rbldomain', weight', <<>>) = <<>>
      BY EmptyChain
    <3>2. Cardinality(Owned("new")') = 0 /\ Len(<<>>) = 0
      BY <2>1, FS_EmptySet
    <3> QED
      BY <1>2, <1>3, <3>1, <3>2 DEF NewIs, NewVals
  <2>3. Enough' = Enough
    BY <1>2 DEF Enough, Others, Live
  <2>4. mpc \in {"startup", "reload"} =>
          \E s : NewIs(s)' /\ (Fits(text') => NewVals(s)' = IF Enough' THEN Meaning[text'] ELSE <<>>)
    BY <1>2, <1>3, <2>2, <2>3 DEF Built
  <2>5. mpc # "swap"
    BY <1>1, <1>3 DEF Control
  <2> QED
    BY <1>2, <2>4, <2>5 DEF Built
<1>4. CASE cfgpc = "free"
  <2>1. mpc \notin {"startup", "reload"}
    BY <1>1, <1>4 DEF Control
  <2>2. ASSUME mpc = "swap"
        PROVE  first' # NULL /\ \E s : NewIs(s)' /\ (Fits(text') => NewVals(s)' = Meaning[text'])
    <3>1. PICK s : NewIs(s) /\ (Fits(text) => NewVals(s) = Meaning[text])
      BY <2>2 DEF Built
    <3>2. NewIs(s)' /\ NewVals(s)' = NewVals(s)
      BY <1>2, <1>4, <3>1, NewStays
    <3> QED
      BY <1>2, <1>4, <2>2, <3>1, <3>2 DEF Built
  <2> QED
    BY <1>2, <2>1, <2>2 DEF Built
<1> QED
  BY <1>2, <1>3, <1>4

\* Reading and freeing leave the list in use alone, but when it is that list
\* that is freed.
LEMMA ConfigureInUse ==
  ASSUME IInv, InUse, mpc' = mpc, loaded' = loaded, cfg_read \/ cfg_free
  PROVE  InUse'
<1> SUFFICES ASSUME mpc = "reload" PROVE InUse'
  <2>1. mpc \notin {"loop", "accept", "wait"}
    BY DEF IInv, Control, cfg_read, cfg_free, fopen, ReadLine, BadLine, BadWeight, AddItem,
           EndOfFile, FreeItem, FreeEnd, ParseLine, err_cleanup
  <2> QED
    BY <2>1 DEF InUse
<1>1. /\ CfgTypeOK /\ Lists
      /\ cfgpc \in {"open", "read", "parse", "cleanup", "returned"}
  BY DEF IInv, TypeOK, Control
<1>2. CASE AddItem
  <2>1. cfgpc = "parse" /\ rblist' = rblist
    BY <1>2 DEF AddItem, ParseLine
  <2>2. PICK a \in Items :
          /\ owner[a] = "free"
          /\ owner' = [owner EXCEPT ![a] = "new"]
          /\ rbldomain' = [rbldomain EXCEPT ![a] = buf.name]
          /\ weight' = [weight EXCEPT ![a] = buf.weight]
          /\ next' = [b \in Items |-> IF b = a THEN NULL ELSE IF b = last THEN a ELSE next[b]]
    BY <1>2 DEF AddItem, calloc, Link
  <2>3. last # NULL => owner[last] = "new"
    BY <1>1, <2>1 DEF Lists, Owns
  <2>4. ASSUME NEW b \in Items, owner[b] = "served"
        PROVE  /\ next'[b] = next[b] /\ rbldomain'[b] = rbldomain[b] /\ weight'[b] = weight[b]
               /\ owner'[b] = "served"
    <3>1. b # a /\ b # last
      BY <2>2, <2>3, <2>4, NULLAssumption
    <3> QED
      BY <1>1, <2>2, <2>4, <3>1 DEF CfgTypeOK
  <2> QED
    BY <2>1, <2>4, InUseStays
<1>3. CASE FreeItem
  <2>1. /\ cfgpc = "cleanup" /\ rblist' = rblist /\ item # NULL
        /\ owner' = [owner EXCEPT ![item] = "free"]
        /\ rbldomain' = [rbldomain EXCEPT ![item] = <<>>]
        /\ weight' = [weight EXCEPT ![item] = 0]
        /\ next' = [next EXCEPT ![item] = NULL]
    BY <1>1, <1>3 DEF FreeItem
  <2>2. owner[item] = "new"
    BY <1>1, <2>1 DEF Lists, Owns
  <2>3. ASSUME NEW b \in Items, owner[b] = "served"
        PROVE  /\ next'[b] = next[b] /\ rbldomain'[b] = rbldomain[b] /\ weight'[b] = weight[b]
               /\ owner'[b] = "served"
    BY <1>1, <2>1, <2>2, <2>3 DEF CfgTypeOK
  <2> QED
    BY <2>1, <2>3, InUseStays
<1>4. CASE BadWeight
  <2>1. rblist' = rblist /\ UNCHANGED <<next, rbldomain, weight>>
    BY <1>4 DEF BadWeight, nodeVars, err_cleanup, ParseLine
  <2>2. PICK a \in Items : owner[a] = "free" /\ owner' = [owner EXCEPT ![a] = "leaked"]
    BY <1>4 DEF BadWeight, calloc
  <2>3. \A b \in Items : owner[b] = "served" => owner'[b] = "served"
    BY <1>1, <2>2 DEF CfgTypeOK
  <2> QED
    BY <2>1, <2>3, InUseStays
<1>5. CASE fopen \/ ReadLine \/ BadLine \/ EndOfFile \/ FreeEnd
  <2>1. rblist' = rblist /\ UNCHANGED <<next, rbldomain, weight, owner>>
    BY <1>1, <1>5 DEF fopen, ReadLine, BadLine, EndOfFile, FreeEnd, heapVars, nodeVars,
                      err_cleanup, ParseLine
  <2> QED
    BY <2>1, InUseStays
<1> QED
  BY <1>2, <1>3, <1>4, <1>5 DEF cfg_read, cfg_free

\* The list that was read is the one in use.
LEMMA UseBuilds ==
  ASSUME NEW s, NewIs(s), first # NULL, Fits(text) => NewVals(s) = Meaning[text],
         Use, mpc' = "loop"
  PROVE  Built' /\ InUse'
<1>1. /\ rblist' = first /\ loaded' = text
      /\ UNCHANGED <<rbldomain, weight, next>>
      /\ owner' = [a \in Items |-> IF owner[a] = "new" THEN "served" ELSE owner[a]]
  BY DEF Use, cfg_done, nodeVars
<1>2. IsChain(next, s, first) /\ OwnedBy(owner, s, "new") /\ Len(s) = Cardinality(Owned("new"))
  BY DEF NewIs
<1>3. \A a \in Items : owner[a] = "new" =>
        /\ next'[a] = next[a] /\ rbldomain'[a] = rbldomain[a] /\ weight'[a] = weight[a]
        /\ owner'[a] = "served"
  BY <1>1
<1>4. /\ IsChain(next', s, first) /\ OwnedBy(owner', s, "served")
      /\ Vals(rbldomain', weight', s) = NewVals(s)
  BY <1>2, <1>3, ChainStays
<1>5. Len(s) <= Cardinality(Items)
  <2>1. Cardinality(Owned("new")) <= Cardinality(Items)
    <3>1. Owned("new") \in SUBSET Items
      BY DEF Owned
    <3> QED
      BY <3>1, ItemsAssumption, FS_Subset
  <2> QED
    BY <1>2, <2>1
<1>6. UsedIs(s)'
  BY <1>1, <1>4, <1>5 DEF UsedIs, NewVals, Fitting
<1> QED
  BY <1>1, <1>6 DEF Built, InUse

\* A list that is not empty has all that the text says.
LEMMA FullList ==
  ASSUME NEW s, NewIs(s), first # NULL, Fits(text) => NewVals(s) = IF Enough THEN Meaning[text] ELSE <<>>
  PROVE  Fits(text) => NewVals(s) = Meaning[text]
<1>1. s # <<>> /\ s \in Seq(Items)
  BY DEF NewIs, IsChain
<1>2. Len(NewVals(s)) = Len(s) /\ Len(s) # 0
  BY <1>1 DEF NewVals, Vals
<1>3. NewVals(s) # <<>>
  BY <1>2
<1> QED
  BY <1>3

\* A step of cfg_read or of cfg_free.
LEMMA ConfigureBuilds ==
  ASSUME IInv, Kept, Built, InUse, Configure
  PROVE  Built' /\ InUse'
<1>1. Running /\ mpc' = mpc /\ loaded' = loaded /\ (cfg_read \/ cfg_free)
  BY DEF Configure, mainVars, history, cfg_free
<1>2. InUse'
  BY <1>1, ConfigureInUse
<1>3. CASE cfg_read
  <2>1. cfgpc \in {"open", "read", "parse"}
    BY <1>3 DEF cfg_read, fopen, ReadLine, BadLine, BadWeight, AddItem, EndOfFile, ParseLine, err_cleanup
  <2>2. mpc \in {"startup", "reload"}
    BY <1>1, <2>1 DEF IInv, TypeOK, Control, Running
  <2>3. CASE fopen
    BY <1>1, <1>2, <2>2, <2>3, OpenBuilds
  <2>4. CASE ReadLine
    BY <1>1, <1>2, <2>2, <2>4, LineBuilds
  <2>5. CASE BadLine \/ BadWeight
    BY <1>1, <1>2, <2>2, <2>5, RefusalBuilds
  <2>6. CASE AddItem
    BY <1>1, <1>2, <2>2, <2>6, AddBuilds
  <2>7. CASE EndOfFile
    BY <1>1, <1>2, <2>2, <2>7, EndBuilds
  <2> QED
    BY <1>2, <1>3, <2>3, <2>4, <2>5, <2>6, <2>7 DEF cfg_read
<1>4. CASE FreeItem
  BY <1>1, <1>2, <1>4, FreeBuilds
<1>5. CASE FreeEnd
  BY <1>1, <1>2, <1>5, FreeEndBuilds
<1> QED
  BY <1>1, <1>3, <1>4, <1>5 DEF cfg_free

\* Every step keeps what is known of both lists.
LEMMA BuiltNext == IInv /\ Kept /\ Built /\ InUse /\ [Next]_vars => Built' /\ InUse'
<1> SUFFICES ASSUME IInv, Kept, Built, InUse, [Next]_vars PROVE Built' /\ InUse'
  OBVIOUS
<1>1. CASE /\ UNCHANGED <<cfgVars, loaded>>
           /\ \/ mpc' = mpc
              \/ mpc \in {"loop", "accept", "wait"} /\ mpc' \in {"loop", "accept", "wait"}
  <2>1. UNCHANGED <<text, pos, buf, first, last, next, owner, rbldomain, weight, cfgpc, rblist>>
    BY <1>1 DEF cfgVars, readVars, heapVars, nodeVars
  <2>2. InUse'
    <3>1. mpc' \in {"loop", "accept", "wait", "reload"} => mpc \in {"loop", "accept", "wait", "reload"}
      BY <1>1
    <3> QED
      BY <1>1, <2>1, <3>1, InUseStays
  <2>3. CASE mpc' = mpc
    <3>1. Enough' = Enough /\ Owned("new")' = Owned("new")
      BY <2>1 DEF Enough, Others, Live, Owned
    <3>2. \A s : /\ NewIs(s)' <=> NewIs(s)
                 /\ LastOf(s)' <=> LastOf(s)
                 /\ ReadTo(s, pos)' <=> ReadTo(s, pos)
                 /\ InHand(s)' <=> InHand(s)
                 /\ NewVals(s)' = NewVals(s)
      BY <2>1, <3>1 DEF NewIs, LastOf, ReadTo, InHand, NewVals
    <3> HIDE DEF Built
    <3> QED
      BY <2>1, <2>2, <2>3, <3>1, <3>2 DEF Built
  <2>4. CASE mpc' \in {"loop", "accept", "wait"}
    BY <2>2, <2>4 DEF Built
  <2> QED
    BY <1>1, <2>3, <2>4
<1>2. CASE mpc' \notin {"startup", "loop", "accept", "wait", "reload", "swap"}
  BY <1>2 DEF Built, InUse
<1>3. CASE Started
  <2>1. CASE first # NULL /\ Use /\ mpc' = "loop"
    <3>1. PICK s : NewIs(s) /\ (Fits(text) => NewVals(s) = IF Enough THEN Meaning[text] ELSE <<>>)
      BY <1>3 DEF Started, Built
    <3>2. Fits(text) => NewVals(s) = Meaning[text]
      BY <2>1, <3>1, FullList
    <3> QED
      BY <2>1, <3>1, <3>2, UseBuilds
  <2> QED
    BY <1>2, <1>3, <2>1 DEF Started
<1>4. CASE WaitEnd /\ mpc' = "reload"
  <2>1. mpc = "wait" /\ cfgpc' = "open" /\ UNCHANGED <<next, owner, rbldomain, weight, rblist, loaded>>
    BY <1>4 DEF WaitEnd, heapVars, nodeVars, history
  <2>2. InUse'
    BY <2>1, InUseStays
  <2> QED
    BY <1>4, <2>1, <2>2 DEF Built
<1>5. CASE NewList
  <2>1. mpc = "reload" /\ cfgpc = "returned" /\ loaded' = loaded
    BY <1>5 DEF NewList
  <2>2. CASE first = NULL /\ mpc' = "loop" /\ cfg_done /\ UNCHANGED <<owner, rblist>>
    <3>1. UNCHANGED <<next, owner, rbldomain, weight, rblist>>
      BY <2>2 DEF cfg_done, nodeVars
    <3>2. InUse'
      BY <2>1, <3>1, InUseStays
    <3> QED
      BY <2>2, <3>2 DEF Built
  <2>3. CASE first # NULL /\ mpc' = "swap" /\ FreeList
    <3>1. UNCHANGED <<text, first, next, owner, rbldomain, weight>>
      BY <2>3 DEF FreeList, readVars, heapVars, nodeVars
    <3>2. PICK s : NewIs(s) /\ (Fits(text) => NewVals(s) = IF Enough THEN Meaning[text] ELSE <<>>)
      BY <2>1 DEF Built
    <3>3. Fits(text) => NewVals(s) = Meaning[text]
      BY <2>3, <3>2, FullList
    <3>4. NewIs(s)' /\ NewVals(s)' = NewVals(s)
      BY <3>1, <3>2, NewStays
    <3>5. first' # NULL /\ \E u : NewIs(u)' /\ (Fits(text') => NewVals(u)' = Meaning[text'])
      BY <2>3, <3>1, <3>3, <3>4
    <3> QED
      BY <2>3, <3>5 DEF Built, InUse
  <2> QED
    BY <1>5, <2>2, <2>3 DEF NewList
<1>6. CASE Swap
  <2>1. first # NULL /\ \E s : NewIs(s) /\ (Fits(text) => NewVals(s) = Meaning[text])
    BY <1>6 DEF Swap, Built
  <2> QED
    BY <1>6, <2>1, UseBuilds DEF Swap
<1>7. CASE Configure
  BY <1>7, ConfigureBuilds
<1>8. CASE LoopTest \/ AcceptFails \/ AcceptRequest \/ AcceptOther
  BY <1>1, <1>2, <1>8 DEF LoopTest, AcceptFails, AcceptRequest, AcceptOther, history
<1>9. CASE WaitEnd /\ mpc' = "loop"
  BY <1>1, <1>9 DEF WaitEnd, history
<1>10. CASE WaitWithoutMgr \/ WaitRound \/ Return
  BY <1>1, <1>2, <1>10 DEF WaitWithoutMgr, WaitRound, Return, history
<1>11. CASE sigterm \/ Hangup
  BY <1>1, <1>11 DEF sigterm, Hangup, history
<1>12. CASE \E w \in Workers : worker_th(w)
  BY <1>1, <1>2, <1>12 DEF worker_th, BadRequest, Begin, Walk, WalkEnd,
     Collect, WorkerDone, WorkerCrash, mainVars, history
<1>13. CASE UNCHANGED vars
  BY <1>1, <1>13 DEF vars, mainVars, history
<1> QED
  BY <1>3, <1>4, <1>5, <1>6, <1>7, <1>8, <1>9, <1>10, <1>11, <1>12, <1>13
     DEF Next, Main, thr_waitcomplete, WaitEnd, Done

\* At the start nothing has been read.
LEMMA InitBuilt == Init => Built /\ InUse
BY DEF Init, CfgInit, Built, InUse

\* A chain that is known says what is served from its head.
LEMMA ServedIs ==
  ASSUME NEW s, NEW p, IsChain(next, s, p), Len(s) <= Cardinality(Items)
  PROVE  Served(p) = NewVals(s)
BY ChainIs DEF Served, NewVals, Vals

-----------------------------------------------------------------------------
(*                              The properties                             *)

\* Whatever the file says, weights in the list are positive shorts, and the
\* pointers of both threads lead to items or to where one was.
THEOREM TypeCorrect == Spec => []TypeOK
<1>1. IInv => TypeOK
  BY DEF IInv
<1> QED
  BY <1>1, Invariance, PTL

\* worker_th works with items that are there, until the daemon ends or a reload
\* goes ahead while it works.
THEOREM ReadersAreSafe == Spec => []ReadersSafe
<1>1. ASSUME IInv, NEW w \in Workers, Stale(w)
      PROVE  w \in overtaken \/ mpc \in {"teardown", "ended", "crashed"}
  <2> SUFFICES ASSUME w \notin overtaken, mpc \notin {"teardown", "ended", "crashed"}
               PROVE  FALSE
    OBVIOUS
  <2>1. Held(w) /\ resdata[w] \in Seq(Items \cup {Dangling})
    BY <1>1 DEF IInv, TypeOK, Readers
  <2>2. CASE wpc[w] = "walk" /\ rbl[w] = Dangling
    BY <2>1, <2>2, DanglingAssumption DEF Held
  <2>3. CASE resdata[w] # <<>> /\ Head(resdata[w]) = Dangling
    <3>1. 1 \in DOMAIN resdata[w] /\ resdata[w][1] = Dangling
      BY <2>1, <2>3
    <3>2. Dangling \in Items
      BY <2>1, <3>1 DEF Held
    <3> QED
      BY <3>2, DanglingAssumption DEF Pointers
  <2> QED
    BY <1>1, <2>2, <2>3 DEF Stale
<1>2. IInv => ReadersSafe
  BY <1>1 DEF ReadersSafe
<1> QED
  BY <1>2, Invariance, PTL

\* cfg_free gives back every item once: what it comes to is still allocated,
\* and belongs to the list that it is freeing.
THEOREM FreesOnlyItsOwn == Spec => []FreesItsOwn
<1>1. IInv => FreesItsOwn
  BY DEF IInv, Lists, Owns, FreesItsOwn
<1> QED
  BY <1>1, Invariance, PTL

\* Reading, refusing, exchanging and freeing leave no item behind: what cfg_read
\* put in a list is in the list in use, in the one being read, or in what
\* cfg_free has still to give back.
THEOREM NothingIsLost == Spec => []NothingElseLost
<1>1. IInv /\ Kept => NothingElseLost
  <2> SUFFICES ASSUME IInv, Kept, Running
               PROVE  Owned("served") = ChainSet(ServedHead) /\ Owned("new") = ChainSet(NewHead)
    BY DEF NothingElseLost
  <2>1. ServedHead \in Pointers /\ NewHead \in Pointers
    BY DEF ServedHead, NewHead, IInv, TypeOK, CfgTypeOK, Pointers
  <2>2. ChainSet(ServedHead) \subseteq Owned("served") /\ ChainSet(NewHead) \subseteq Owned("new")
    BY <2>1, HeadsOwn, ChainIsOwned
  <2>3. ASSUME NEW p, NEW o, Reached(next, p, Owned(o))
        PROVE  Owned(o) \subseteq ChainSet(p)
    BY <2>3 DEF Reached, Covers, ChainSet, Owned
  <2> QED
    BY <2>2, <2>3 DEF Kept
<1> QED
  BY <1>1, Invariance, KeptAlways, PTL

\* cfg_read makes of every file whose lines fit into its buffer the list that is
\* written there, in its order: of one that is right as long as there is memory,
\* and of one with a wrong line none.
THEOREM ReadsWhatIsWritten == Spec => []ReadsAsWritten
<1>1. Built => ReadsAsWritten
  <2> SUFFICES ASSUME Built, cfgpc = "returned", mpc \in {"startup", "reload"}, text \in Fitting
               PROVE  Served(first) = IF Enough THEN Meaning[text] ELSE <<>>
    BY DEF ReadsAsWritten, Enough, Others
  <2>1. PICK s : NewIs(s) /\ (Fits(text) => NewVals(s) = IF Enough THEN Meaning[text] ELSE <<>>)
    BY DEF Built
  <2>2. IsChain(next, s, first) /\ Len(s) <= Cardinality(Items)
    <3>1. Owned("new") \in SUBSET Items
      BY DEF Owned
    <3>2. Cardinality(Owned("new")) <= Cardinality(Items)
      BY <3>1, ItemsAssumption, FS_Subset
    <3> QED
      BY <2>1, <3>2 DEF NewIs
  <2>3. Served(first) = NewVals(s)
    BY <2>2, ServedIs
  <2>4. Fits(text)
    BY DEF Fitting
  <2> QED
    BY <2>1, <2>3, <2>4
<1> QED
  BY <1>1, Invariance, KeptAlways, InitBuilt, BuiltNext, PTL DEF Spec

\* Whatever was refused or interrupted since, the list that is served is whole,
\* and says what the file said that it was made of.
THEOREM ListIsThatOfTheFile == Spec => []ListIsFile
<1>1. IInv /\ InUse => ListIsFile
  <2> SUFFICES ASSUME IInv, InUse, mpc \in {"loop", "accept", "wait", "reload"}
               PROVE  /\ rblist # NULL /\ ChainSet(rblist) \subseteq Live
                      /\ loaded \in Fitting => Served(rblist) = Meaning[loaded]
    BY DEF ListIsFile
  <2>1. PICK s : UsedIs(s)
    BY DEF InUse
  <2>2. rblist # NULL /\ rblist \in Pointers /\ Owns(rblist, "served")
    BY DEF InUse, IInv, TypeOK, CfgTypeOK, Control, Lists
  <2>3. ChainSet(rblist) \subseteq Live
    <3>1. ChainSet(rblist) \subseteq Owned("served")
      BY <2>2, ChainIsOwned
    <3>2. Owned("served") \subseteq Live
      BY DEF Owned, Live
    <3> QED
      BY <3>1, <3>2
  <2>4. Served(rblist) = NewVals(s)
    BY <2>1, ServedIs DEF UsedIs
  <2> QED
    BY <2>1, <2>2, <2>3, <2>4 DEF UsedIs
<1> QED
  BY <1>1, Invariance, KeptAlways, InitBuilt, BuiltNext, PTL DEF Spec
=============================================================================
