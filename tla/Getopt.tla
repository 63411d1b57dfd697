------------------------------- MODULE Getopt -------------------------------
(***************************************************************************)
(* How the command line is read: main's loop over getopt_long, that is     *)
(* _getopt_internal of getopt.c, which moves the words that are no options *)
(* behind those that are as it goes along.  Lines 53-60 leave the file out *)
(* of a build on glibc, whose own getopt_long, of the same origin, is used *)
(* there.                                                                  *)
(*                                                                         *)
(* A word is a sequence of symbols: characters, the names of options, and  *)
(* numerals.  argv is what it permutes: the places in the command line of  *)
(* the words it has now.  Its element 0, the program's name, is left out,  *)
(* so indices are those of the code.  No "::" and no "W;" is in main's     *)
(* option string, and it starts neither with "-" nor with "+".             *)
(***************************************************************************)
EXTENDS Integers, Sequences, FiniteSets, SequencesExt

CONSTANTS
  CommandLines,        \* the command lines: sequences of words
  Orderings,           \* REQUIRE_ORDER if POSIXLY_CORRECT is set, else PERMUTE
  Numeral,             \* the values of the symbols that are numerals
  None

ASSUME CommandLinesAssumption == CommandLines \subseteq Seq(Seq(STRING))
ASSUME OrderingsAssumption == Orderings \subseteq {"PERMUTE", "REQUIRE_ORDER"}
ASSUME NumeralAssumption == DOMAIN Numeral \subseteq STRING /\ \A s \in DOMAIN Numeral : Numeral[s] \in Nat

ASSUME NoneAssumption == None # "-1"

VARIABLES
  args, ordering,      \* the command line, and what the environment asks for
  argv, optind,
  first_nonopt, last_nonopt,
  nextchar, optarg,    \* strings, the empty one for NULL
  bottom, middle, top, before,   \* of exchange, and argv as it found it
  pc, back,            \* where the scan is, and where exchange returns to
  c,                   \* what getopt_long returned
  conf, outcome        \* the options in main, and what becomes of them

input == <<args, ordering>>
rotation == <<bottom, middle, top, before, back>>
scan == <<argv, optind, first_nonopt, last_nonopt, nextchar, optarg>>
vars == <<input, rotation, scan, pc, c, conf, outcome>>

NULL == <<>>
argc == Len(args) + 1
Word(i) == args[argv[i]]

short_options == {"v", "d", "f", "c", "p", "m", "h", "V"}
TakesArgument == {"c", "p", "m"}

\* Names are compared with what follows the two dashes, and begin with two.
long_options ==
  << [name |-> <<"-", "-", "ver", "bose">>,   has_arg |-> 0, val |-> "v"],
     [name |-> <<"-", "-", "debug">>,         has_arg |-> 0, val |-> "d"],
     [name |-> <<"-", "-", "foreground">>,    has_arg |-> 0, val |-> "f"],
     [name |-> <<"-", "-", "cfgfile">>,       has_arg |-> 1, val |-> "c"],
     [name |-> <<"-", "-", "pidfile">>,       has_arg |-> 1, val |-> "p"],
     [name |-> <<"-", "-", "max-children">>,  has_arg |-> 1, val |-> "m"],
     [name |-> <<"-", "-", "help">>,          has_arg |-> 0, val |-> "h"],
     [name |-> <<"-", "-", "ver", "sion">>,   has_arg |-> 0, val |-> "V"] >>

\* The options as usage() lists them for the user.
documented_options ==
  << [name |-> <<"ver", "bose">>,   has_arg |-> 0, val |-> "v"],
     [name |-> <<"debug">>,         has_arg |-> 0, val |-> "d"],
     [name |-> <<"foreground">>,    has_arg |-> 0, val |-> "f"],
     [name |-> <<"maxthreads">>,    has_arg |-> 1, val |-> "m"],
     [name |-> <<"cfgfile">>,       has_arg |-> 1, val |-> "c"],
     [name |-> <<"pidfile">>,       has_arg |-> 1, val |-> "p"],
     [name |-> <<"help">>,          has_arg |-> 0, val |-> "h"],
     [name |-> <<"ver", "sion">>,   has_arg |-> 0, val |-> "V"] >>

\* The settings main starts from.
defaults == [verbose |-> 0, debug |-> 0, foreground |-> 0,
             cfgpath |-> <<"default">>, pidfile |-> <<"default">>, maxthreads |-> 10]

Init ==
  /\ args \in CommandLines /\ ordering \in Orderings
  /\ argv = [i \in 1..Len(args) |-> i]
  /\ optind = 1 /\ first_nonopt = 1 /\ last_nonopt = 1
  /\ nextchar = NULL /\ optarg = NULL
  /\ bottom = 1 /\ middle = 1 /\ top = 1 /\ before = argv /\ back = "skip"
  /\ pc = "call" /\ c = None
  /\ conf = defaults
  /\ outcome = "none"

-----------------------------------------------------------------------------
(*                    The next element of the command line                 *)

NonOption(w) == w = <<>> \/ w[1] # "-" \/ Len(w) = 1

\* exchange(argv), and then on to place p.
StartExchange(p) ==
  /\ bottom' = first_nonopt /\ middle' = last_nonopt /\ top' = optind'
  /\ before' = argv /\ back' = p
  /\ pc' = "exchange"

\* The options of the last elements go before the words skipped earlier.
Arrange ==
  /\ pc = "call" /\ nextchar = NULL
  /\ optarg' = NULL
  /\ UNCHANGED <<input, argv, optind, last_nonopt, nextchar, c, conf, outcome>>
  /\ \/ /\ ordering = "PERMUTE" /\ first_nonopt # last_nonopt /\ last_nonopt # optind
        /\ StartExchange("skip")
        /\ UNCHANGED first_nonopt
     \/ /\ ordering = "PERMUTE" /\ (first_nonopt = last_nonopt \/ last_nonopt = optind)
        /\ first_nonopt' = IF last_nonopt # optind THEN optind ELSE first_nonopt
        /\ pc' = "skip"
        /\ UNCHANGED rotation
     \/ /\ ordering = "REQUIRE_ORDER"
        /\ pc' = "dashes"
        /\ UNCHANGED <<rotation, first_nonopt>>

\* len elements from a on and from b on change places.
Swapped(a, b, len) ==
  [i \in DOMAIN argv |-> IF i \in a..(a + len - 1) THEN argv[b + (i - a)]
                         ELSE IF i \in b..(b + len - 1) THEN argv[a + (i - b)]
                         ELSE argv[i]]

\* Mutated form of ExchangeTurn: the longer segment shrinks by one.
ExchangeTurnByOne ==
  /\ pc = "exchange"
  /\ top > middle /\ middle > bottom
  /\ IF top - middle > middle - bottom
     THEN /\ argv' = Swapped(bottom, top - (middle - bottom), middle - bottom)
          /\ top' = top - (middle - bottom) /\ bottom' = bottom
     ELSE /\ argv' = Swapped(bottom, middle, top - middle)
          /\ bottom' = bottom + 1 /\ top' = top
  /\ UNCHANGED <<input, optind, first_nonopt, last_nonopt, nextchar, optarg,
                 middle, before, back, pc, c, conf, outcome>>

\* One turn of exchange's loop: the shorter segment is swapped with the far
\* end of the longer one, and is then in its place.
ExchangeTurn ==
  /\ pc = "exchange"
  /\ top > middle /\ middle > bottom
  /\ IF top - middle > middle - bottom
     THEN /\ argv' = Swapped(bottom, top - (middle - bottom), middle - bottom)
          /\ top' = top - (middle - bottom) /\ bottom' = bottom
     ELSE /\ argv' = Swapped(bottom, middle, top - middle)
          /\ bottom' = bottom + (top - middle) /\ top' = top
  /\ UNCHANGED <<input, optind, first_nonopt, last_nonopt, nextchar, optarg,
                 middle, before, back, pc, c, conf, outcome>>

\* Mutated form of ExchangeEnd: the words skipped are taken to be where they were.
ExchangeEndUnmoved ==
  /\ pc = "exchange"
  /\ ~(top > middle /\ middle > bottom)
  /\ last_nonopt' = optind
  /\ pc' = back
  /\ UNCHANGED <<input, rotation, argv, optind, first_nonopt, nextchar, optarg, c, conf, outcome>>

\* The loop has ended: the records follow the words that were moved.
ExchangeEnd ==
  /\ pc = "exchange"
  /\ ~(top > middle /\ middle > bottom)
  /\ first_nonopt' = first_nonopt + (optind - last_nonopt)
  /\ last_nonopt' = optind
  /\ pc' = back
  /\ UNCHANGED <<input, rotation, argv, optind, nextchar, optarg, c, conf, outcome>>

\* Non-options are skipped; the range of those skipped ends behind them.
Skip ==
  /\ pc = "skip"
  /\ \/ /\ optind < argc /\ NonOption(Word(optind))
        /\ optind' = optind + 1
        /\ UNCHANGED <<last_nonopt, pc>>
     \/ /\ optind < argc => ~NonOption(Word(optind))
        /\ last_nonopt' = optind /\ pc' = "dashes"
        /\ UNCHANGED optind
  /\ UNCHANGED <<input, rotation, argv, first_nonopt, nextchar, optarg, c, conf, outcome>>

AtDashes == optind < argc /\ Word(optind) = <<"-", "-">>

\* "--" ends the options: it is moved as one.
Dashes ==
  /\ pc = "dashes" /\ AtDashes
  /\ optind' = optind + 1
  /\ UNCHANGED <<input, argv, last_nonopt, nextchar, optarg, c, conf, outcome>>
  /\ \/ /\ first_nonopt # last_nonopt /\ last_nonopt # optind + 1
        /\ StartExchange("rest")
        /\ UNCHANGED first_nonopt
     \/ /\ first_nonopt = last_nonopt \/ last_nonopt = optind + 1
        /\ first_nonopt' = IF first_nonopt = last_nonopt THEN optind + 1 ELSE first_nonopt
        /\ pc' = "rest"
        /\ UNCHANGED rotation

\* Everything behind "--" is skipped.
Rest ==
  /\ pc = "rest"
  /\ last_nonopt' = argc /\ optind' = argc
  /\ pc' = "end"
  /\ UNCHANGED <<input, rotation, argv, first_nonopt, nextchar, optarg, c, conf, outcome>>

\* The end, or a word that ends the options: getopt_long returns -1.
End ==
  /\ pc = "end" \/ (pc = "dashes" /\ ~AtDashes)
  /\ \/ optind = argc
        /\ optind' = IF first_nonopt # last_nonopt THEN first_nonopt ELSE optind
     \/ optind < argc /\ NonOption(Word(optind)) /\ UNCHANGED optind
  /\ c' = "-1" /\ pc' = "main"
  /\ UNCHANGED <<input, rotation, argv, first_nonopt, last_nonopt, nextchar, optarg, conf, outcome>>

\* An option element: its one or two dashes are passed over.
Element ==
  /\ pc = "dashes" /\ ~AtDashes
  /\ optind < argc /\ ~NonOption(Word(optind))
  /\ nextchar' = SubSeq(Word(optind), IF Word(optind)[2] = "-" THEN 3 ELSE 2, Len(Word(optind)))
  /\ pc' = "decode"
  /\ UNCHANGED <<input, rotation, argv, optind, first_nonopt, last_nonopt, optarg, c, conf, outcome>>

\* The last element has more options in it.
Continue ==
  /\ pc = "call" /\ nextchar # NULL
  /\ optarg' = NULL
  /\ pc' = "decode"
  /\ UNCHANGED <<input, rotation, argv, optind, first_nonopt, last_nonopt, nextchar, c, conf, outcome>>

-----------------------------------------------------------------------------
(*                              The option itself                          *)

\* A string up to its first "=", and what follows that.
NameEnd(s) == IF Contains(s, "=") THEN SelectInSeq(s, LAMBDA x : x = "=") - 1 ELSE Len(s)
Name(s)    == SubSeq(s, 1, NameEnd(s))
Value(s)   == SubSeq(s, NameEnd(s) + 2, Len(s))

\* The entries an option name may stand for: the one it is in full, or those
\* it abbreviates.
Found(table, n) ==
  LET exact == {k \in 1..Len(table) : table[k].name = n} IN
    IF exact # {} THEN exact ELSE {k \in 1..Len(table) : IsPrefix(n, table[k].name)}

Return(x) == c' = x /\ pc' = "main"

\* A long option: unknown, ambiguous, without the argument it needs, with one
\* it does not take, or right.
LongOption ==
  /\ pc = "decode" /\ Word(optind)[2] = "-"
  /\ nextchar' = NULL
  /\ UNCHANGED <<input, rotation, argv, first_nonopt, last_nonopt, conf, outcome>>
  /\ LET found == Found(long_options, Name(nextchar))
         p == long_options[CHOOSE k \in found : TRUE] IN
       \/ /\ Cardinality(found) # 1
          /\ optind' = optind + 1 /\ Return("?") /\ UNCHANGED optarg
       \/ /\ Cardinality(found) = 1 /\ Contains(nextchar, "=")
          /\ optind' = optind + 1
          /\ IF p.has_arg = 1 THEN optarg' = Value(nextchar) /\ Return(p.val)
                              ELSE UNCHANGED optarg /\ Return("?")
       \/ /\ Cardinality(found) = 1 /\ ~Contains(nextchar, "=") /\ p.has_arg = 1
          /\ IF optind + 1 < argc
             THEN optarg' = Word(optind + 1) /\ optind' = optind + 2 /\ Return(p.val)
             ELSE UNCHANGED optarg /\ optind' = optind + 1 /\ Return("?")
       \/ /\ Cardinality(found) = 1 /\ ~Contains(nextchar, "=") /\ p.has_arg = 0
          /\ optind' = optind + 1 /\ Return(p.val) /\ UNCHANGED optarg

\* Mutated form of TakeArgument: the word that is taken is read once more.
TakeArgumentStays(x, more, next) ==
  \/ more # NULL /\ optarg' = more /\ optind' = next + 1 /\ Return(x)
  \/ more = NULL /\ next = argc /\ optind' = next /\ Return("?") /\ UNCHANGED optarg
  \/ more = NULL /\ next < argc /\ optarg' = Word(next) /\ optind' = next /\ Return(x)

\* Mutated form of TakeArgument: what is left of a word counts as another.
TakeArgumentTwice(x, more, next) ==
  \/ more # NULL /\ optarg' = more /\ optind' = next + 2 /\ Return(x)
  \/ more = NULL /\ next = argc /\ optind' = next /\ Return("?") /\ UNCHANGED optarg
  \/ more = NULL /\ next < argc /\ optarg' = Word(next) /\ optind' = next + 1 /\ Return(x)

\* The argument of x: the rest of the element, the next word, or none.
TakeArgument(x, more, next) ==
  \/ more # NULL /\ optarg' = more /\ optind' = next + 1 /\ Return(x)
  \/ more = NULL /\ next = argc /\ optind' = next /\ Return("?") /\ UNCHANGED optarg
  \/ more = NULL /\ next < argc /\ optarg' = Word(next) /\ optind' = next + 1 /\ Return(x)

\* The next option letter of the element.
ShortOption ==
  /\ pc = "decode" /\ Word(optind)[2] # "-"
  /\ UNCHANGED <<input, rotation, argv, first_nonopt, last_nonopt, conf, outcome>>
  /\ LET x    == Head(nextchar)
         more == Tail(nextchar)
         next == IF more = NULL THEN optind + 1 ELSE optind IN
       \/ /\ x \notin TakesArgument
          /\ Return(IF x \in short_options THEN x ELSE "?")
          /\ nextchar' = more /\ optind' = next /\ UNCHANGED optarg
       \/ /\ x \in TakesArgument
          /\ nextchar' = NULL
          /\ TakeArgument(x, more, next)

-----------------------------------------------------------------------------
(*                                   main                                  *)

atoi(w) ==
  IF w # <<>> /\ w[1] \in DOMAIN Numeral THEN Numeral[w[1]]
  ELSE IF Len(w) > 1 /\ w[1] = "-" /\ w[2] \in DOMAIN Numeral THEN -Numeral[w[2]]
  ELSE 0

\* What option x with its argument does to the settings.
Setting(f, x, arg) ==
  CASE x = "v" -> [f EXCEPT !.verbose = @ + 1]
    [] x = "d" -> [f EXCEPT !.debug = @ + 1]
    [] x = "f" -> [f EXCEPT !.foreground = @ + 1]
    [] x = "c" -> [f EXCEPT !.cfgpath = arg]
    [] x = "p" -> [f EXCEPT !.pidfile = arg]
    [] x = "m" -> [f EXCEPT !.maxthreads = atoi(arg)]

\* The switch on what getopt_long returned; -h, -V and usage() exit.
Switch ==
  /\ pc = "main"
  /\ \/ c = "-1" /\ outcome' = (IF argc - optind = 1 THEN "run" ELSE "failure")
     \/ c = "?" /\ outcome' = "failure"
     \/ c \in {"h", "V"} /\ outcome' = "success"
     \/ c \in short_options \ {"h", "V"} /\ UNCHANGED outcome
  /\ conf' = IF c \in short_options \ {"h", "V"} THEN Setting(conf, c, optarg) ELSE conf
  /\ pc' = IF outcome' = "none" THEN "call" ELSE "done"
  /\ UNCHANGED <<input, rotation, scan, c>>

\* main went on to start the daemon, or exited.
Done == pc = "done" /\ UNCHANGED vars

port == IF outcome = "run" THEN Word(optind) ELSE NULL

NextElement == Arrange \/ ExchangeTurn \/ ExchangeEnd \/ Skip \/ Dashes \/ Rest \/ End \/ Element \/ Continue

Next == NextElement \/ LongOption \/ ShortOption \/ Switch \/ Done

Spec == Init /\ [][Next]_vars

FairSpec == Spec /\ WF_vars(Next)

-----------------------------------------------------------------------------
(*                      What the command line means                        *)

\* The entries of a table that a name stands for: its own, or the only one it
\* is the beginning of.
Meant(table, n) ==
  {k \in 1..Len(table) :
     \/ table[k].name = n
     \/ {j \in 1..Len(table) : IsPrefix(n, table[j].name)} = {k}}

Option(x, a) == [val |-> x, arg |-> a]

\* The option that takes an argument at place k: the argument is what is left
\* of the element, or the next element.
WithArgument(x, left, k) ==
  IF left # NULL THEN [opts |-> <<Option(x, left)>>, used |-> 1]
  ELSE IF k < Len(args) THEN [opts |-> <<Option(x, args[k + 1])>>, used |-> 2]
  ELSE [opts |-> <<Option("?", NULL)>>, used |-> 1]

LongMeaning(table, k) ==
  LET w == SubSeq(args[k], 3, Len(args[k]))
      unknown == [opts |-> <<Option("?", NULL)>>, used |-> 1]
  IN CASE Meant(table, Name(w)) = {} -> unknown
       [] \E j \in Meant(table, Name(w)) : table[j].has_arg = 0 ->
            IF Contains(w, "=") THEN unknown
            ELSE [opts |-> <<Option(table[CHOOSE j \in Meant(table, w) : TRUE].val, NULL)>>, used |-> 1]
       [] OTHER ->
            LET x == table[CHOOSE j \in Meant(table, Name(w)) : TRUE].val IN
              IF Contains(w, "=") THEN [opts |-> <<Option(x, Value(w))>>, used |-> 1]
              ELSE WithArgument(x, NULL, k)

\* The letters up to the first that takes an argument are options without.
ShortMeaning(k) ==
  LET w == Tail(args[k])
      Plain(n) == [i \in 1..n |-> Option(IF w[i] \in short_options THEN w[i] ELSE "?", NULL)]
      j == SelectInSeq(w, LAMBDA x : x \in TakesArgument)
  IN IF j = 0 THEN [opts |-> Plain(Len(w)), used |-> 1]
     ELSE LET e == WithArgument(w[j], SubSeq(w, j + 1, Len(w)), k)
          IN [opts |-> Plain(j - 1) \o e.opts, used |-> e.used]

\* The options and the operands of the words from place k on.
Meaning(table) ==
  LET m[k \in 1..(Len(args) + 2)] ==
        IF k > Len(args) THEN [opts |-> <<>>, operands |-> <<>>]
        ELSE IF args[k] = <<"-", "-">>
             THEN [opts |-> <<>>, operands |-> SubSeq(args, k + 1, Len(args))]
        ELSE IF NonOption(args[k]) /\ ordering = "REQUIRE_ORDER"
             THEN [opts |-> <<>>, operands |-> SubSeq(args, k, Len(args))]
        ELSE IF NonOption(args[k])
             THEN [opts |-> m[k + 1].opts, operands |-> <<args[k]>> \o m[k + 1].operands]
        ELSE LET e == IF args[k][2] = "-" THEN LongMeaning(table, k) ELSE ShortMeaning(k)
             IN [opts |-> e.opts \o m[k + e.used].opts, operands |-> m[k + e.used].operands]
  IN m[1]

\* main has what the words mean when each is taken where it stands.
Obeys(table) ==
  LET m == Meaning(table)
      stop == SelectInSeq(m.opts, LAMBDA o : o.val \in {"h", "V", "?"})
      settings == IF stop = 0 THEN m.opts ELSE SubSeq(m.opts, 1, stop - 1)
  IN /\ conf = FoldLeft(LAMBDA f, o : Setting(f, o.val, o.arg), defaults, settings)
     /\ outcome = CASE stop # 0 /\ m.opts[stop].val = "?" -> "failure"
                    [] stop # 0 /\ m.opts[stop].val # "?" -> "success"
                    [] stop = 0 -> IF Len(m.operands) = 1 THEN "run" ELSE "failure"
     /\ outcome = "run" => port = m.operands[1]

\* A word that is one of the long options usage() lists.
IsDocumented(w) ==
  /\ IsPrefix(<<"-", "-">>, w)
  /\ Meant(documented_options, Name(SubSeq(w, 3, Len(w)))) # {}

UsesDocumented == \E k \in 1..Len(args) : IsDocumented(args[k])

-----------------------------------------------------------------------------
(*                               Properties                                *)

(* The indices stay in the command line, and argv has every word once.     *)
TypeOK ==
  /\ args \in CommandLines /\ ordering \in Orderings
  /\ argv \in [1..Len(args) -> 1..Len(args)] /\ before \in [1..Len(args) -> 1..Len(args)]
  /\ optind \in 1..argc
  /\ first_nonopt \in 1..optind /\ last_nonopt \in 1..argc
  /\ pc \notin {"skip", "rest"} => first_nonopt <= last_nonopt
  /\ bottom \in 1..argc /\ middle \in bottom..argc /\ top \in middle..argc
  /\ pc \in {"call", "exchange", "skip", "dashes", "rest", "end", "decode", "main", "done"}
  /\ back \in {"skip", "rest"}
  /\ outcome \in {"none", "run", "success", "failure"}

(* However options, their arguments and other words are mixed, and however *)
(* often argv is permuted under way, every command line is read to an end, *)
(* and main has then the settings, the port and the outcome of a reading   *)
(* of the words from left to right.  The long options are those of main's  *)
(* table, which begin with two more dashes; of a command line with one as  *)
(* usage() lists it, which getopt_long refuses, nothing is said here.      *)
WordsObeyed == <>(pc = "done" /\ (UsesDocumented \/ Obeys(long_options)))

Increasing(S) == \A i, j \in S : i < j => argv[i] < argv[j]

(* No word is lost or doubled by all the exchanges, and when getopt_long   *)
(* has returned -1 the words up to optind are in the order they were given *)
(* in, and so are those from optind on.                                    *)
OrderKept ==
  /\ \A i, j \in 1..Len(args) : argv[i] = argv[j] => i = j
  /\ c = "-1" => Increasing(1..(optind - 1)) /\ Increasing(optind..Len(args))

\* f with its segments b..m-1 and m..t-1 in the other order.
Rotated(f, b, m, t) ==
  [i \in DOMAIN f |-> IF b <= i /\ i < b + (t - m) THEN f[i + (m - b)]
                      ELSE IF b + (t - m) <= i /\ i < t THEN f[i - (t - m)]
                      ELSE f[i]]

(* exchange puts the options before the words skipped, keeps the order in  *)
(* both, and touches nothing else, whatever the lengths of the two.        *)
ExchangeRotates ==
  [][pc = "exchange" /\ pc' # "exchange"
       => argv' = Rotated(before, first_nonopt, last_nonopt, optind)]_vars
=============================================================================
