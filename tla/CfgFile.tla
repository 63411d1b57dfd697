------------------------------ MODULE CfgFile ------------------------------
(***************************************************************************)
(* The configuration file and the list made of it: cfg_read and cfg_free   *)
(* of cfgfile.c.  A text is a sequence of characters, the list a chain of  *)
(* items in memory.  cfg_read takes its lines through a buffer of MAXLINE  *)
(* bytes and stops at the first one it cannot use; cfg_free gives a list   *)
(* back item by item, while other threads run.  Module Reload has the      *)
(* callers.                                                                *)
(***************************************************************************)
EXTENDS Integers, Sequences, FiniteSetsExt, SequencesExt

CONSTANTS
  Texts,               \* what the file may hold when it is opened
  Items,               \* the places in memory for items
  NULL,
  MAXLINE              \* 1024 in the code

\* The digits above nine.
Letters == [d \in 10..15 |-> << {"a", "A"}, {"b", "B"}, {"c", "C"}, {"d", "D"}, {"e", "E"}, {"f", "F"} >>[d - 9]]

Digit == [c \in {"0", "1", "2", "3", "4", "5", "6", "7", "8", "9",
                 "a", "b", "c", "d", "e", "f", "A", "B", "C", "D", "E", "F"} |->
            CHOOSE d \in 0..15 : ToString(d) = c \/ (d > 9 /\ c \in Letters[d])]

\* The largest short.
SHRT_MAX == 32767

ASSUME TextsAssumption == Texts \subseteq Seq(STRING)
ASSUME NULLAssumption == NULL \notin Items
ASSUME ItemsAssumption == IsFiniteSet(Items)
ASSUME MaxlineAssumption == MAXLINE \in Nat /\ MAXLINE > 2

VARIABLES
  cfgpc,               \* where cfg_read or cfg_free is
  text, pos,           \* the file, and how much of it has been read
  buf,                 \* the line in hand
  first, last,         \* of cfg_read; first is what it returns
  item,                \* of cfg_free
  rbldomain, weight, next,   \* the memory: an item for each place
  owner,               \* what the item there belongs to, or "free"
  rblist               \* the list the daemon works with

readVars == <<text, pos, buf, first, last>>
nodeVars == <<rbldomain, weight, next>>
heapVars == <<nodeVars, owner>>
cfgVars  == <<cfgpc, readVars, item, heapVars, rblist>>

Live == {a \in Items : owner[a] # "free"}
Pointers == Items \cup {NULL}

\* No line is in hand.
NoLine == [size |-> 0, name |-> <<>>, arg |-> <<>>, weight |-> 0]

\* An item in a list has a weight that is a positive short.
CfgTypeOK ==
  /\ cfgpc \in {"idle", "open", "read", "parse", "cleanup", "free", "returned"}
  /\ text \in Texts \cup {<<>>}
  /\ buf.weight \in 0..SHRT_MAX
  /\ first \in Pointers /\ last \in Pointers
  /\ item \in Pointers /\ rblist \in Pointers
  /\ DOMAIN rbldomain = Items
  /\ weight \in [Items -> 0..SHRT_MAX]
  /\ next \in [Items -> Pointers]
  /\ owner \in [Items -> {"free", "new", "served", "leaked"}]
  /\ \A a \in Items : owner[a] \in {"new", "served"} => weight[a] > 0

CfgInit ==
  /\ cfgpc = "open"
  /\ text = <<>> /\ pos = 0 /\ buf = NoLine
  /\ first = NULL /\ last = NULL /\ item = NULL /\ rblist = NULL
  /\ rbldomain = [a \in Items |-> <<>>]
  /\ weight = [a \in Items |-> 0]
  /\ next = [a \in Items |-> NULL]
  /\ owner = [a \in Items |-> "free"]

-----------------------------------------------------------------------------
(*                                 One line                                *)

\* A vertical tab, for which TLA+ has no character of its own.
VT == "VT"

Spaces     == {" ", "\t", "\n", VT, "\f", "\r"}
isspace(c) == c \in Spaces

\* The place of the first character of s that is in C, or the one behind s.
Find(s, C) == Min({k \in 1..Len(s) : s[k] \in C} \cup {Len(s) + 1})

Before(s, k) == SubSeq(s, 1, k - 1)
From(s, k)   == SubSeq(s, k, Len(s))

\* fgets: the rest of the line, as far as it fits into the buffer.
fgets(s) ==
  LET rest == Find(s, {"\n"}) IN
  SubSeq(s, 1, Min({rest, Len(s), MAXLINE - 2}))

\* Mutated form of cfg_cleanline: comments stay.
cfg_rtrim(line) == SubSeq(line, 1, Max({k \in 1..Len(line) : ~isspace(line[k])} \cup {0}))

\* The line without its comment and without white space at its end.
cfg_cleanline(line) ==
  LET clean == Before(line, Find(line, {"#"})) IN
  SubSeq(clean, 1, Max({k \in 1..Len(clean) : ~isspace(clean[k])} \cup {0}))

ltrim(s)    == From(s, Min({k \in 1..Len(s) : ~isspace(s[k])} \cup {Len(s) + 1}))
word(s)     == Before(ltrim(s), Find(ltrim(s), Spaces))
argument(s) == ltrim(From(ltrim(s), Find(ltrim(s), Spaces)))

\* strtol(s, &y, 0): numeric when it uses up s.  A "0x" counts as the mark of
\* a hexadecimal number only when there is more behind it.
unsigned(s) == IF s # <<>> /\ s[1] \in {"-", "+"} THEN Tail(s) ELSE s
hexadecimal(u) == Len(u) > 2 /\ u[1] = "0" /\ u[2] \in {"x", "X"}
base(s)     ==
  CASE hexadecimal(unsigned(s))                                 -> 16
    [] ~hexadecimal(unsigned(s)) /\ unsigned(s)[1] = "0"        -> 8
    [] OTHER                                                    -> 10
numeral(u)  == IF hexadecimal(u) THEN From(u, 3) ELSE u
numeric(s)  ==
  unsigned(s) # <<>> /\ \A k \in 1..Len(numeral(unsigned(s))) :
    numeral(unsigned(s))[k] \in DOMAIN Digit /\ Digit[numeral(unsigned(s))[k]] < base(s)
strtol(s)   ==
  (IF s[1] = "-" THEN -1 ELSE 1)
    * FoldLeft(LAMBDA v, c : base(s) * v + Digit[c], 0, numeral(unsigned(s)))

\* The weight as it goes into the list, 0 for what is refused.
Weight(s) == IF numeric(s) /\ strtol(s) \in 1..SHRT_MAX THEN strtol(s) ELSE 0

\* What cfg_read makes of the line it gets after p characters of t.
Line(t, p) ==
  LET read  == fgets(From(t, p + 1))
      clean == cfg_cleanline(read)
  IN [size |-> Len(read), name |-> word(clean), arg |-> argument(clean),
      weight |-> Weight(argument(clean))]

Lines == [t \in Texts |-> [p \in 0..Len(t) |-> Line(t, p)]]

-----------------------------------------------------------------------------
(*                                 cfg_read                                *)

\* The list is complete, or it could not be read: first is returned.
cfg_return(list) ==
  /\ cfgpc' = "returned"
  /\ first' = list

\* There is a file to read, whatever is in it now, or there is none.
fopen ==
  /\ cfgpc = "open"
  /\ \/ /\ text' \in Texts /\ pos' = 0
        /\ first' = NULL /\ last' = NULL
        /\ cfgpc' = "read"
     \/ /\ text' = <<>> /\ pos' = 0 /\ last' = last
        /\ cfg_return(NULL)
  /\ UNCHANGED <<buf, item, heapVars, rblist>>

\* The next line, or what the buffer takes of it; an empty one is left at that.
ReadLine ==
  /\ cfgpc = "read"
  /\ pos \in 0..(Len(text) - 1)
  /\ pos' = pos + Lines[text][pos].size
  /\ \/ /\ Lines[text][pos].name = <<>>
        /\ UNCHANGED <<cfgpc, buf>>
     \/ /\ Lines[text][pos].name # <<>>
        /\ buf' = Lines[text][pos]
        /\ cfgpc' = "parse"
  /\ UNCHANGED <<text, first, last, item, heapVars, rblist>>

\* The line in hand is used up: on to the next one, or to err_cleanup.
ParseLine(to) ==
  /\ cfgpc = "parse"
  /\ cfgpc' = to
  /\ buf' = NoLine
  /\ UNCHANGED <<text, pos, rblist>>

\* Mutated form of err_cleanup: it frees the list in use.
err_cleanup_rblist ==
  /\ ParseLine("cleanup")
  /\ item' = rblist
  /\ UNCHANGED <<first, last>>

\* err_cleanup: cfg_free(&first).
err_cleanup ==
  /\ ParseLine("cleanup")
  /\ item' = first
  /\ UNCHANGED <<first, last>>

\* Mutated form of BadLine: it returns at once.
BadLineUnfreed ==
  /\ buf.arg = <<>> \/ Live = Items
  /\ ParseLine("returned")
  /\ first' = NULL
  /\ UNCHANGED <<last, item, heapVars>>

\* The line ends after the name, or calloc finds no place.
BadLine ==
  /\ buf.arg = <<>> \/ Live = Items
  /\ err_cleanup
  /\ UNCHANGED heapVars

\* calloc finds a place.
calloc(a, as) ==
  /\ owner[a] = "free"
  /\ owner' = [owner EXCEPT ![a] = as]

\* The item is in no list yet when its weight turns out to be of no use.
BadWeight ==
  /\ buf.arg # <<>> /\ buf.weight = 0
  /\ \E a \in Items : calloc(a, "leaked")
  /\ UNCHANGED nodeVars
  /\ err_cleanup

\* The line's item, at a, behind the last one.
Link(a) ==
  /\ rbldomain' = [rbldomain EXCEPT ![a] = buf.name]
  /\ weight' = [weight EXCEPT ![a] = buf.weight]
  /\ next' = [b \in Items |-> IF b = a THEN NULL ELSE IF b = last THEN a ELSE next[b]]
  /\ first' = IF first = NULL THEN a ELSE first

\* Mutated form of AddItem: a weight of zero will do.
AddItemUnchecked ==
  /\ ParseLine("read")
  /\ buf.arg # <<>>
  /\ \E a \in Items :
       /\ calloc(a, "new")
       /\ Link(a)
       /\ last' = a
  /\ item' = item

\* The item goes to the end of the list.
AddItem ==
  /\ ParseLine("read")
  /\ buf.weight # 0
  /\ \E a \in Items :
       /\ calloc(a, "new")
       /\ Link(a)
       /\ last' = a
  /\ item' = item

EndOfFile ==
  /\ cfgpc = "read"
  /\ pos = Len(text)
  /\ cfg_return(first)
  /\ UNCHANGED <<text, pos, buf, last, item, heapVars, rblist>>

\* The caller has the result, and the variables of the call are gone.
cfg_done ==
  /\ cfgpc' = "idle"
  /\ text' = <<>> /\ pos' = 0 /\ buf' = NoLine /\ first' = NULL /\ last' = NULL
  /\ UNCHANGED <<item, nodeVars>>

cfg_read == fopen \/ ReadLine \/ BadLine \/ BadWeight \/ AddItem \/ EndOfFile

-----------------------------------------------------------------------------
(*                                 cfg_free                                *)

\* One turn of the loop: next = item->next, and the item is given back.
FreeItem ==
  /\ cfgpc \in {"cleanup", "free"}
  /\ item # NULL
  /\ item' = next[item]
  /\ owner' = [owner EXCEPT ![item] = "free"]
  /\ rbldomain' = [rbldomain EXCEPT ![item] = <<>>]
  /\ weight' = [weight EXCEPT ![item] = 0]
  /\ next' = [next EXCEPT ![item] = NULL]
  /\ UNCHANGED <<cfgpc, readVars, rblist>>

\* Mutated form of FreeEnd: both lists are set to NULL.
FreeEndBoth ==
  /\ cfgpc \in {"cleanup", "free"}
  /\ item = NULL
  /\ cfgpc' = "returned"
  /\ rblist' = NULL
  /\ first' = IF cfgpc = "cleanup" THEN NULL ELSE first
  /\ UNCHANGED <<text, pos, buf, last, item, heapVars>>

\* *list = NULL, and back to cfg_read, which returns NULL, or to its caller.
FreeEnd ==
  /\ cfgpc \in {"cleanup", "free"}
  /\ item = NULL
  /\ cfgpc' = "returned"
  /\ IF cfgpc = "cleanup" THEN first' = NULL /\ rblist' = rblist
                          ELSE rblist' = NULL /\ first' = first
  /\ UNCHANGED <<text, pos, buf, last, item, heapVars>>

cfg_free == FreeItem \/ FreeEnd
=============================================================================
