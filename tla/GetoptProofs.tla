---------------------------- MODULE GetoptProofs ----------------------------
(***************************************************************************)
(* What the permutation of the command line keeps, for every command line: *)
(* exchange is the rotation its comment promises, no word is lost, and     *)
(* both the options and the words behind them stay in the order given.     *)
(***************************************************************************)
EXTENDS Getopt, FiniteSetTheorems, TLAPS

n == Len(args)

LEMMA LengthIsNat == ASSUME TypeOK PROVE n \in Nat /\ argc = n + 1
<1>1. args \in Seq(Seq(STRING))
  BY CommandLinesAssumption DEF TypeOK
<1> QED
  BY <1>1 DEF n, argc

-----------------------------------------------------------------------------
(*                        Swapping and rotating                            *)

\* f with len elements from a on and from b on in each other's places.
Swap(f, a, b, len) ==
  [i \in DOMAIN f |-> IF i \in a..(a + len - 1) THEN f[b + (i - a)]
                      ELSE IF i \in b..(b + len - 1) THEN f[a + (i - b)]
                      ELSE f[i]]

(* A turn that puts the shorter bottom segment in place leaves the same    *)
(* rotation to do, of one segment less.                                    *)
LEMMA TurnAtTop ==
  ASSUME NEW N \in Nat, NEW f \in [1..N -> 1..N],
         NEW b \in 1..(N + 1), NEW m \in 1..(N + 1), NEW t \in 1..(N + 1),
         b < m, m < t, t - m > m - b
  PROVE  Rotated(Swap(f, b, t - (m - b), m - b), b, m, t - (m - b)) = Rotated(f, b, m, t)
<1> DEFINE g == Swap(f, b, t - (m - b), m - b)
           l == Rotated(g, b, m, t - (m - b))
           r == Rotated(f, b, m, t)
<1>1. DOMAIN f = 1..N /\ DOMAIN g = 1..N
  BY DEF Swap
<1>2. \A i \in 1..N :
        g[i] = IF b <= i /\ i < m THEN f[t - (m - b) + (i - b)]
               ELSE IF t - (m - b) <= i /\ i < t THEN f[b + (i - (t - (m - b)))]
               ELSE f[i]
  BY <1>1 DEF Swap
<1> HIDE DEF g
<1>3. \A i \in 1..N :
        l[i] = IF b <= i /\ i < b + (t - (m - b) - m) THEN g[i + (m - b)]
               ELSE IF b + (t - (m - b) - m) <= i /\ i < t - (m - b) THEN g[i - (t - (m - b) - m)]
               ELSE g[i]
  BY <1>1 DEF Rotated
<1>4. \A i \in 1..N :
        r[i] = IF b <= i /\ i < b + (t - m) THEN f[i + (m - b)]
               ELSE IF b + (t - m) <= i /\ i < t THEN f[i - (t - m)]
               ELSE f[i]
  BY <1>1 DEF Rotated
<1>5. DOMAIN l = 1..N /\ DOMAIN r = 1..N
  BY <1>1 DEF Rotated
<1>6. ASSUME NEW i \in 1..N PROVE l[i] = r[i]
  <2> HIDE DEF l, r
  <2>1. CASE i < b \/ t <= i
    BY <1>2, <1>3, <1>4, <2>1
  <2>2. CASE b <= i /\ i < b + (t - (m - b) - m)
    <3>1. i + (m - b) \in 1..N /\ m <= i + (m - b) /\ i + (m - b) < t - (m - b)
      BY <2>2
    <3>2. g[i + (m - b)] = f[i + (m - b)]
      BY <1>2, <3>1
    <3> QED
      BY <1>3, <1>4, <2>2, <3>2
  <2>3. CASE b + (t - (m - b) - m) <= i /\ i < t - (m - b)
    <3> DEFINE k == i - (t - (m - b) - m)
    <3>1. k \in 1..N /\ b <= k /\ k < m
      BY <2>3
    <3>2. l[i] = g[k]
      BY <1>3, <2>3
    <3>3. g[k] = f[t - (m - b) + (k - b)]
      BY <1>2, <3>1
    <3>4. t - (m - b) + (k - b) = i + (m - b)
      BY <2>3
    <3>5. r[i] = f[i + (m - b)]
      BY <1>4, <2>3
    <3> QED
      BY <3>2, <3>3, <3>4, <3>5
  <2>4. CASE t - (m - b) <= i /\ i < t
    <3>1. l[i] = g[i]
      BY <1>3, <2>4
    <3>2. g[i] = f[b + (i - (t - (m - b)))]
      BY <1>2, <2>4
    <3>3. r[i] = f[i - (t - m)] /\ i - (t - m) = b + (i - (t - (m - b)))
      BY <1>4, <2>4
    <3> QED
      BY <3>1, <3>2, <3>3
  <2> QED
    BY <2>1, <2>2, <2>3, <2>4
<1>7. l = r
  <2>1. l = [i \in 1..N |-> l[i]] /\ r = [i \in 1..N |-> r[i]]
    BY <1>1 DEF Rotated
  <2> HIDE DEF l, r
  <2> QED
    BY <1>6, <2>1
<1> QED
  BY <1>7 DEF g

(* And so does a turn that puts the top segment in place.                  *)
LEMMA TurnAtBottom ==
  ASSUME NEW N \in Nat, NEW f \in [1..N -> 1..N],
         NEW b \in 1..(N + 1), NEW m \in 1..(N + 1), NEW t \in 1..(N + 1),
         b < m, m < t, t - m <= m - b
  PROVE  Rotated(Swap(f, b, m, t - m), b + (t - m), m, t) = Rotated(f, b, m, t)
<1> DEFINE g == Swap(f, b, m, t - m)
           l == Rotated(g, b + (t - m), m, t)
           r == Rotated(f, b, m, t)
<1>1. DOMAIN f = 1..N /\ DOMAIN g = 1..N
  BY DEF Swap
<1>2. \A i \in 1..N :
        g[i] = IF b <= i /\ i < b + (t - m) THEN f[m + (i - b)]
               ELSE IF m <= i /\ i < t THEN f[b + (i - m)]
               ELSE f[i]
  BY <1>1 DEF Swap
<1> HIDE DEF g
<1>3. \A i \in 1..N :
        l[i] = IF b + (t - m) <= i /\ i < b + (t - m) + (t - m) THEN g[i + (m - (b + (t - m)))]
               ELSE IF b + (t - m) + (t - m) <= i /\ i < t THEN g[i - (t - m)]
               ELSE g[i]
  BY <1>1 DEF Rotated
<1>4. \A i \in 1..N :
        r[i] = IF b <= i /\ i < b + (t - m) THEN f[i + (m - b)]
               ELSE IF b + (t - m) <= i /\ i < t THEN f[i - (t - m)]
               ELSE f[i]
  BY <1>1 DEF Rotated
<1>5. DOMAIN l = 1..N /\ DOMAIN r = 1..N
  BY <1>1 DEF Rotated
<1>6. ASSUME NEW i \in 1..N PROVE l[i] = r[i]
  <2> HIDE DEF l, r
  <2>1. CASE i < b \/ t <= i
    BY <1>2, <1>3, <1>4, <2>1
  <2>2. CASE b <= i /\ i < b + (t - m)
    <3>1. l[i] = g[i] /\ g[i] = f[m + (i - b)] /\ r[i] = f[i + (m - b)]
      BY <1>2, <1>3, <1>4, <2>2
    <3>2. m + (i - b) = i + (m - b)
      BY <2>2
    <3> QED
      BY <3>1, <3>2
  <2>3. CASE b + (t - m) <= i /\ i < b + (t - m) + (t - m)
    <3> DEFINE k == i + (m - (b + (t - m)))
    <3>1. k \in 1..N /\ m <= k /\ k < t
      BY <2>3
    <3>2. l[i] = g[k]
      BY <1>3, <2>3
    <3>3. g[k] = f[b + (k - m)]
      BY <1>2, <3>1
    <3>4. b + (k - m) = i - (t - m)
      BY <2>3
    <3>5. r[i] = f[i - (t - m)]
      BY <1>4, <2>3
    <3> QED
      BY <3>2, <3>3, <3>4, <3>5
  <2>4. CASE b + (t - m) + (t - m) <= i /\ i < t
    <3> DEFINE k == i - (t - m)
    <3>1. k \in 1..N /\ b + (t - m) <= k /\ k < m
      BY <2>4
    <3>2. l[i] = g[k]
      BY <1>3, <2>4
    <3>3. r[i] = f[k]
      BY <1>4, <2>4
    <3>4. g[k] = f[k]
      BY <1>2, <3>1
    <3> QED
      BY <3>2, <3>3, <3>4
  <2> QED
    BY <2>1, <2>2, <2>3, <2>4
<1>7. l = r
  <2>1. l = [i \in 1..N |-> l[i]] /\ r = [i \in 1..N |-> r[i]]
    BY <1>1 DEF Rotated
  <2> HIDE DEF l, r
  <2> QED
    BY <1>6, <2>1
<1> QED
  BY <1>7 DEF g

(* With one of the segments empty there is nothing left to rotate.         *)
LEMMA RotatedEmpty ==
  ASSUME NEW N \in Nat, NEW f \in [1..N -> 1..N],
         NEW b \in 1..(N + 1), NEW m \in 1..(N + 1), NEW t \in 1..(N + 1),
         b <= m, m <= t, b = m \/ m = t
  PROVE  Rotated(f, b, m, t) = f
<1>1. DOMAIN f = 1..N /\ f = [i \in 1..N |-> f[i]]
  OBVIOUS
<1>2. ASSUME NEW i \in 1..N PROVE Rotated(f, b, m, t)[i] = f[i]
  <2>1. Rotated(f, b, m, t)[i] = IF b <= i /\ i < b + (t - m) THEN f[i + (m - b)]
                                 ELSE IF b + (t - m) <= i /\ i < t THEN f[i - (t - m)]
                                 ELSE f[i]
    BY <1>1 DEF Rotated
  <2>2. CASE b = m
    <3>1. i + (m - b) = i /\ ~(b + (t - m) <= i /\ i < t)
      BY <2>2
    <3> QED
      BY <2>1, <3>1
  <2>3. CASE m = t
    <3>1. i - (t - m) = i /\ ~(b <= i /\ i < b + (t - m))
      BY <2>3
    <3> QED
      BY <2>1, <3>1
  <2> QED
    BY <2>2, <2>3
<1>3. Rotated(f, b, m, t) = [i \in 1..N |-> Rotated(f, b, m, t)[i]]
  BY <1>1 DEF Rotated
<1> QED
  BY <1>1, <1>2, <1>3

OneToOne(f) == \A i, j \in DOMAIN f : f[i] = f[j] => i = j

(* Swapping disjoint pieces keeps f a permutation.                         *)
LEMMA SwapKeeps ==
  ASSUME NEW N \in Nat, NEW f \in [1..N -> 1..N], NEW len \in Nat,
         NEW a \in 1..(N + 1), NEW b \in 1..(N + 1), a + len <= b, b + len <= N + 1,
         OneToOne(f)
  PROVE  Swap(f, a, b, len) \in [1..N -> 1..N] /\ OneToOne(Swap(f, a, b, len))
<1> DEFINE p(i) == IF i \in a..(a + len - 1) THEN b + (i - a)
                   ELSE IF i \in b..(b + len - 1) THEN a + (i - b) ELSE i
<1>1. \A i \in 1..N : p(i) \in 1..N
  OBVIOUS
<1>2. \A i, j \in 1..N : p(i) = p(j) => i = j
  OBVIOUS
<1>3. Swap(f, a, b, len) = [i \in 1..N |-> f[p(i)]]
  BY DEF Swap
<1> HIDE DEF p
<1>4. \A i, j \in 1..N : f[i] = f[j] => i = j
  BY DEF OneToOne
<1> DEFINE g == [i \in 1..N |-> f[p(i)]]
<1>5. g \in [1..N -> 1..N]
  BY <1>1
<1>6. \A i, j \in 1..N : g[i] = g[j] => i = j
  BY <1>1, <1>2, <1>4
<1>7. DOMAIN g = 1..N
  OBVIOUS
<1> HIDE DEF g
<1>8. OneToOne(g)
  BY <1>6, <1>7 DEF OneToOne
<1> QED
  BY <1>3, <1>5, <1>8 DEF g

-----------------------------------------------------------------------------
(*                     The segments of a permuted argv                     *)

\* f with the scan at t and the words skipped at b..m-1: options and their
\* arguments, and the words skipped, are in the order given, all of them come
\* from before t, and from t on nothing has been moved.
Split(f, b, m, t) ==
  /\ \A i, j \in 1..n : i < j /\ j < t /\ (i < b \/ m <= i) /\ (j < b \/ m <= j) => f[i] < f[j]
  /\ \A i, j \in 1..n : b <= i /\ i < j /\ j < m => f[i] < f[j]
  /\ \A i \in 1..n : i < t => f[i] < t
  /\ \A i \in 1..n : t <= i => f[i] = i

(* One more word is skipped.                                               *)
LEMMA SplitSkips ==
  ASSUME n \in Nat, NEW f \in [1..n -> 1..n], NEW b \in 1..(n + 1), NEW t \in 1..n,
         b <= t, Split(f, b, t, t)
  PROVE  Split(f, b, t + 1, t + 1)
BY DEF Split

(* One more word belongs to the options.                                   *)
LEMMA SplitTakes ==
  ASSUME n \in Nat, NEW f \in [1..n -> 1..n], NEW b \in 1..(n + 1), NEW m \in 1..(n + 1),
         NEW t \in 1..n, b <= m, m <= t, Split(f, b, m, t)
  PROVE  Split(f, b, m, t + 1)
BY DEF Split

(* All the words that are left are skipped.                                *)
LEMMA SplitRest ==
  ASSUME n \in Nat, NEW f \in [1..n -> 1..n], NEW b \in 1..(n + 1), NEW t \in 1..(n + 1),
         b <= t, Split(f, b, t, t)
  PROVE  Split(f, b, n + 1, n + 1)
<1>1. \A i, j \in 1..n : b <= i /\ i < j /\ j < n + 1 => f[i] < f[j]
  <2> SUFFICES ASSUME NEW i \in 1..n, NEW j \in 1..n, b <= i, i < j PROVE f[i] < f[j]
    OBVIOUS
  <2>1. i < t => f[i] < t
    BY DEF Split
  <2>2. (t <= i => f[i] = i) /\ (t <= j => f[j] = j)
    BY DEF Split
  <2>3. CASE j < t
    BY <2>3 DEF Split
  <2>4. CASE t <= j
    BY <2>1, <2>2, <2>4
  <2> QED
    BY <2>3, <2>4
<1>2. \A i, j \in 1..n : i < j /\ i < b /\ j < b => f[i] < f[j]
  BY DEF Split
<1>3. \A i \in 1..n : f[i] < n + 1 /\ ~(n + 1 <= i)
  OBVIOUS
<1> QED
  BY <1>1, <1>2, <1>3 DEF Split

(* Nothing is skipped: where the empty segment lies does not matter.       *)
LEMMA SplitEmpty ==
  ASSUME n \in Nat, NEW f \in [1..n -> 1..n], NEW b \in 1..(n + 1), NEW t \in 1..(n + 1),
         b <= t, Split(f, b, b, t)
  PROVE  Split(f, t, t, t)
<1>1. \A i, j \in 1..n : i < j /\ j < t => f[i] < f[j]
  BY DEF Split
<1>2. /\ \A i \in 1..n : i < t => f[i] < t
      /\ \A i \in 1..n : t <= i => f[i] = i
  BY DEF Split
<1> QED
  BY <1>1, <1>2 DEF Split

(* The rotation puts the options before the words skipped.                 *)
LEMMA SplitRotates ==
  ASSUME n \in Nat, NEW f \in [1..n -> 1..n], NEW b \in 1..(n + 1), NEW m \in 1..(n + 1),
         NEW t \in 1..(n + 1), b <= m, m <= t, Split(f, b, m, t)
  PROVE  Split(Rotated(f, b, m, t), b + (t - m), t, t)
<1> DEFINE r == Rotated(f, b, m, t)
<1>1. \A i \in 1..n :
        r[i] = IF b <= i /\ i < b + (t - m) THEN f[i + (m - b)]
               ELSE IF b + (t - m) <= i /\ i < t THEN f[i - (t - m)]
               ELSE f[i]
  BY DEF Rotated
<1> HIDE DEF r
<1>2. ASSUME NEW i \in 1..n, NEW j \in 1..n, i < j, j < b + (t - m)
      PROVE  r[i] < r[j]
  <2>1. CASE j < b
    <3>1. r[i] = f[i] /\ r[j] = f[j]
      BY <1>1, <1>2, <2>1
    <3> QED
      BY <1>2, <2>1, <3>1 DEF Split
  <2>2. CASE i < b /\ b <= j
    <3>1. r[i] = f[i] /\ r[j] = f[j + (m - b)] /\ j + (m - b) \in 1..n
      <4>1. ~(b <= i) /\ ~(b + (t - m) <= i)
        BY <1>2, <2>2
      <4>2. b <= j /\ j + (m - b) \in 1..n
        BY <1>2, <2>2
      <4> QED
        BY <1>1, <1>2, <4>1, <4>2
    <3>2. m <= j + (m - b) /\ j + (m - b) < t /\ i < j + (m - b)
      BY <1>2, <2>2
    <3> QED
      BY <2>2, <3>1, <3>2 DEF Split
  <2>3. CASE b <= i
    <3>0. /\ i < b + (t - m) /\ b <= j
          /\ i + (m - b) \in 1..n /\ j + (m - b) \in 1..n
      BY <1>2, <2>3
    <3>1. r[i] = f[i + (m - b)]
      BY <1>1, <2>3, <3>0
    <3>2. r[j] = f[j + (m - b)]
      BY <1>1, <1>2, <3>0
    <3>3. m <= i + (m - b) /\ i + (m - b) < j + (m - b) /\ j + (m - b) < t
      BY <1>2, <2>3
    <3> QED
      BY <3>0, <3>1, <3>2, <3>3 DEF Split
  <2> QED
    BY <1>2, <2>1, <2>2, <2>3
<1>3. ASSUME NEW i \in 1..n, NEW j \in 1..n, b + (t - m) <= i, i < j, j < t
      PROVE  r[i] < r[j]
  <2>1. r[i] = f[i - (t - m)] /\ i - (t - m) \in 1..n
    BY <1>1, <1>3
  <2>2. r[j] = f[j - (t - m)] /\ j - (t - m) \in 1..n
    BY <1>1, <1>3
  <2>3. b <= i - (t - m) /\ i - (t - m) < j - (t - m) /\ j - (t - m) < m
    BY <1>3
  <2> QED
    BY <2>1, <2>2, <2>3 DEF Split
<1>4. ASSUME NEW i \in 1..n, i < t PROVE r[i] < t
  <2>1. \E k \in 1..n : k < t /\ r[i] = f[k]
    <3>1. CASE i < b
      <4>1. r[i] = f[i]
        BY <1>1, <3>1
      <4> QED
        BY <1>4, <4>1
    <3>2. CASE b <= i /\ i < b + (t - m)
      <4>1. r[i] = f[i + (m - b)] /\ i + (m - b) \in 1..n /\ i + (m - b) < t
        BY <1>1, <3>2
      <4> QED
        BY <4>1
    <3>3. CASE b + (t - m) <= i
      <4>1. r[i] = f[i - (t - m)] /\ i - (t - m) \in 1..n /\ i - (t - m) < t
        BY <1>1, <1>4, <3>3
      <4> QED
        BY <4>1
    <3> QED
      BY <3>1, <3>2, <3>3
  <2>2. \A k \in 1..n : k < t => f[k] < t
    BY DEF Split
  <2> QED
    BY <2>1, <2>2
<1>5. ASSUME NEW i \in 1..n, t <= i PROVE r[i] = i
  <2>0. ~(i < b + (t - m)) /\ ~(i < t)
    BY <1>5
  <2>1. r[i] = f[i]
    BY <1>1, <2>0
  <2>2. \A k \in 1..n : t <= k => f[k] = k
    BY DEF Split
  <2> QED
    BY <1>5, <2>1, <2>2
<1>6. Split(r, b + (t - m), t, t)
  <2>1. \A i, j \in 1..n : i < j /\ j < t /\ (i < b + (t - m) \/ t <= i) /\ (j < b + (t - m) \/ t <= j)
           => r[i] < r[j]
    BY <1>2
  <2>2. \A i, j \in 1..n : b + (t - m) <= i /\ i < j /\ j < t => r[i] < r[j]
    BY <1>3
  <2> QED
    BY <1>4, <1>5, <2>1, <2>2 DEF Split
<1> QED
  BY <1>6 DEF r

-----------------------------------------------------------------------------
(*                         The inductive invariant                         *)

NothingLost == \A i, j \in 1..n : argv[i] = argv[j] => i = j

\* What is known at each place of the scan.
Control ==
  /\ nextchar # NULL => pc \in {"call", "decode", "main", "done"} /\ optind < argc
  /\ pc = "decode" => optind < argc
  /\ IF c = "-1" THEN pc \in {"main", "done"} ELSE last_nonopt <= optind
  /\ pc \in {"skip", "exchange"} => ordering = "PERMUTE"
  /\ ordering = "REQUIRE_ORDER" /\ pc \in {"call", "dashes", "decode", "main"} /\ c # "-1"
       => first_nonopt = last_nonopt
  /\ pc = "dashes" => \/ ordering = "REQUIRE_ORDER"
                      \/ last_nonopt = optind /\ (optind < argc => ~NonOption(Word(optind)))
  /\ pc = "end" => optind = argc /\ last_nonopt = argc

\* exchange's loop has the same rotation ahead of it all along.
Exchanging ==
  pc = "exchange" =>
    /\ first_nonopt < last_nonopt /\ last_nonopt < optind /\ middle = last_nonopt
    /\ Split(before, first_nonopt, last_nonopt, optind)
    /\ Rotated(argv, bottom, middle, top) = Rotated(before, first_nonopt, last_nonopt, optind)

Segments ==
  /\ pc \in {"skip", "rest"} => Split(argv, first_nonopt, optind, optind)
  /\ pc \in {"call", "dashes", "end", "decode", "main"} /\ c # "-1"
       => Split(argv, first_nonopt, last_nonopt, optind)

Sorted == c = "-1" => Increasing(1..(optind - 1)) /\ Increasing(optind..n)

IInv == TypeOK /\ NothingLost /\ Control /\ Exchanging /\ Segments /\ Sorted

LEMMA InitInv == Init => IInv
<1> SUFFICES ASSUME Init PROVE IInv
  OBVIOUS
<1>0. args \in CommandLines /\ ordering \in Orderings
  BY DEF Init
<1>1. n \in Nat /\ argc = n + 1
  <2>1. args \in Seq(Seq(STRING))
    BY <1>0, CommandLinesAssumption
  <2> QED
    BY <2>1 DEF n, argc
<1>2. argv = [i \in 1..n |-> i] /\ before = argv
  BY DEF Init, n
<1>3. argv \in [1..n -> 1..n] /\ \A i \in 1..n : argv[i] = i
  BY <1>2
<1>4. TypeOK
  BY <1>0, <1>1, <1>2, <1>3 DEF Init, TypeOK, n
<1>5. NothingLost
  BY <1>3 DEF NothingLost
<1>6. Split(argv, 1, 1, 1)
  BY <1>1, <1>3 DEF Split
<1>7. c # "-1"
  BY NoneAssumption DEF Init
<1> QED
  BY <1>4, <1>5, <1>6, <1>7 DEF Init, IInv, Control, Exchanging, Segments, Sorted

(* An exchange begins with all of its rotation ahead.                      *)
LEMMA StartKeeps ==
  ASSUME IInv, NEW p \in {"skip", "rest"}, StartExchange(p),
         UNCHANGED <<input, argv, first_nonopt, last_nonopt, nextchar, c, outcome>>,
         c # "-1", nextchar = NULL, ordering = "PERMUTE",
         optind' \in optind..(n + 1), Split(argv, first_nonopt, last_nonopt, optind'),
         first_nonopt < last_nonopt, last_nonopt < optind'
  PROVE  IInv'
<1> USE DEF IInv, StartExchange, input
<1>0. n \in Nat /\ argc = n + 1 /\ n' = n /\ argc' = argc
  BY LengthIsNat DEF n, argc
<1>1. TypeOK'
  BY <1>0 DEF TypeOK, n
<1>2. NothingLost'
  BY <1>0 DEF NothingLost
<1>3. Split(before, first_nonopt, last_nonopt, optind)'
  BY <1>0 DEF Split
<1>4. Exchanging'
  BY <1>0, <1>3 DEF Exchanging
<1>5. last_nonopt' <= optind'
  BY <1>0 DEF TypeOK
<1>6. Control'
  BY <1>5 DEF Control
<1>7. Segments' /\ Sorted'
  BY DEF Segments, Sorted
<1> QED
  BY <1>1, <1>2, <1>4, <1>6, <1>7

(* Arrange starts an exchange, or leaves the words as they are.            *)
LEMMA ArrangeKeeps == ASSUME IInv, Arrange PROVE IInv'
<1> USE DEF IInv, Arrange, input
<1>0. n \in Nat /\ argc = n + 1 /\ n' = n /\ argc' = argc
  BY LengthIsNat DEF n, argc
<1>1. c # "-1" /\ last_nonopt <= optind /\ Split(argv, first_nonopt, last_nonopt, optind)
  BY DEF Control, Segments
<1>2. /\ argv \in [1..n -> 1..n]
      /\ first_nonopt \in 1..(n + 1) /\ last_nonopt \in 1..(n + 1) /\ optind \in 1..(n + 1)
      /\ first_nonopt <= last_nonopt /\ first_nonopt <= optind
  BY <1>0 DEF TypeOK, n
<1>3. CASE ordering = "PERMUTE" /\ first_nonopt # last_nonopt /\ last_nonopt # optind
  <2>1. StartExchange("skip") /\ UNCHANGED first_nonopt
    BY <1>3
  <2>2. first_nonopt < last_nonopt /\ last_nonopt < optind' /\ optind' \in optind..(n + 1)
    BY <1>1, <1>2, <1>3
  <2>3. Split(argv, first_nonopt, last_nonopt, optind')
    BY <1>1
  <2> QED
    BY <1>1, <1>3, <2>1, <2>2, <2>3, StartKeeps
<1>4. CASE ordering = "PERMUTE" /\ (first_nonopt = last_nonopt \/ last_nonopt = optind)
  <2>1. /\ first_nonopt' = IF last_nonopt # optind THEN optind ELSE first_nonopt
        /\ pc' = "skip" /\ UNCHANGED rotation
    BY <1>4
  <2>2. Split(argv, first_nonopt', optind, optind)
    BY <1>0, <1>1, <1>2, <1>4, <2>1, SplitEmpty
  <2>3. Segments'
    BY <1>0, <2>1, <2>2 DEF Segments, Split
  <2>4. TypeOK'
    BY <1>0, <1>2, <1>4, <2>1, SMTT(30) DEF rotation, TypeOK
  <2>5. NothingLost' /\ Exchanging' /\ Sorted'
    <3>1. NothingLost'
      BY <1>0, <2>1 DEF rotation, NothingLost
    <3>2. pc' # "exchange" /\ c' # "-1"
      BY <1>1, <2>1
    <3>3. Exchanging'
      BY <3>2, Zenon DEF Exchanging
    <3>4. Sorted'
      BY <3>2, Zenon DEF Sorted
    <3> QED
      BY <3>1, <3>3, <3>4
  <2>6. Control'
    BY <1>0, <1>1, <1>2, <1>4, <2>1 DEF rotation, Control
  <2> QED
    BY <2>3, <2>4, <2>5, <2>6
<1>5. CASE ordering = "REQUIRE_ORDER"
  <2>1. pc' = "dashes" /\ UNCHANGED <<rotation, first_nonopt>>
    BY <1>5
  <2>2. Segments'
    BY <1>0, <1>1, <2>1 DEF Segments, Split
  <2> QED
    BY <1>0, <1>1, <1>5, <2>1, <2>2 DEF rotation, TypeOK, NothingLost, Control, Exchanging, Sorted
<1> QED
  BY <1>3, <1>4, <1>5
(* A turn of the loop leaves the rest of the same rotation.                *)
LEMMA TurnKeeps == ASSUME IInv, ExchangeTurn PROVE IInv'
<1>0. n \in Nat /\ argc = n + 1 /\ n' = n /\ argc' = argc
  BY LengthIsNat DEF n, argc, IInv, ExchangeTurn, input
<1>a. TypeOK /\ NothingLost /\ Control /\ Exchanging
  BY DEF IInv
<1>1. /\ argv \in [1..n -> 1..n]
      /\ bottom \in 1..(n + 1) /\ middle \in 1..(n + 1) /\ top \in 1..(n + 1)
      /\ top > middle /\ middle > bottom
  BY <1>0, <1>a DEF TypeOK, n, ExchangeTurn
<1>2. Rotated(argv, bottom, middle, top) = Rotated(before, first_nonopt, last_nonopt, optind)
  BY <1>a DEF Exchanging, ExchangeTurn
<1>3. /\ argv' \in [1..n -> 1..n] /\ NothingLost'
      /\ bottom' \in 1..middle /\ top' \in middle..(n + 1)
      /\ Rotated(argv', bottom', middle, top') = Rotated(argv, bottom, middle, top)
  <2>1. CASE top - middle > middle - bottom
    <3>1. /\ argv' = Swap(argv, bottom, top - (middle - bottom), middle - bottom)
          /\ top' = top - (middle - bottom) /\ bottom' = bottom
      BY <2>1 DEF ExchangeTurn, Swapped, Swap
    <3>2. argv' \in [1..n -> 1..n] /\ NothingLost'
      <4>1. /\ middle - bottom \in Nat /\ top - (middle - bottom) \in 1..(n + 1)
            /\ bottom + (middle - bottom) <= top - (middle - bottom)
            /\ top - (middle - bottom) + (middle - bottom) <= n + 1
        BY <1>0, <1>1, <2>1
      <4>2. OneToOne(argv)
        BY <1>1, <1>a DEF NothingLost, OneToOne
      <4> DEFINE len == middle - bottom
                 b   == top - len
                 g   == Swap(argv, bottom, b, len)
      <4>3. /\ len \in Nat /\ b \in 1..(n + 1) /\ bottom \in 1..(n + 1)
            /\ bottom + len <= b /\ b + len <= n + 1
        BY <1>1, <4>1
      <4>4. argv' = g
        BY <3>1
      <4> HIDE DEF len, b
      <4>5. g \in [1..n -> 1..n] /\ OneToOne(g)
        BY <1>0, <1>1, <4>2, <4>3, SwapKeeps
      <4> HIDE DEF g
      <4> QED
        BY <1>0, <4>4, <4>5 DEF NothingLost, OneToOne
    <3>3. Rotated(argv', bottom', middle, top') = Rotated(argv, bottom, middle, top)
      BY <1>0, <1>1, <2>1, <3>1, TurnAtTop
    <3>4. bottom' \in 1..middle /\ top' \in middle..(n + 1)
      <4>1. top - (middle - bottom) \in middle..(n + 1)
        BY <1>0, <1>1, <2>1
      <4> QED
        BY <1>1, <3>1, <4>1
    <3> QED
      BY <3>2, <3>3, <3>4
  <2>2. CASE top - middle <= middle - bottom
    <3>1. /\ argv' = Swap(argv, bottom, middle, top - middle)
          /\ bottom' = bottom + (top - middle) /\ top' = top
      BY <1>1, <2>2 DEF ExchangeTurn, Swapped, Swap
    <3>2. argv' \in [1..n -> 1..n] /\ NothingLost'
      <4>1. /\ top - middle \in Nat
            /\ bottom + (top - middle) <= middle
            /\ middle + (top - middle) <= n + 1
        BY <1>0, <1>1, <2>2
      <4>2. OneToOne(argv)
        BY <1>1, <1>a DEF NothingLost, OneToOne
      <4> DEFINE len == top - middle
                 g   == Swap(argv, bottom, middle, len)
      <4>3. len \in Nat /\ bottom + len <= middle /\ middle + len <= n + 1
        BY <1>1, <4>1
      <4>4. argv' = g
        BY <3>1
      <4> HIDE DEF len
      <4>5. g \in [1..n -> 1..n] /\ OneToOne(g)
        BY <1>0, <1>1, <4>2, <4>3, SwapKeeps
      <4> HIDE DEF g
      <4> QED
        BY <1>0, <4>4, <4>5 DEF NothingLost, OneToOne
    <3>3. Rotated(argv', bottom', middle, top') = Rotated(argv, bottom, middle, top)
      BY <1>0, <1>1, <2>2, <3>1, TurnAtBottom
    <3>4. bottom' \in 1..middle /\ top' \in middle..(n + 1)
      BY <1>1, <2>2, <3>1
    <3> QED
      BY <3>2, <3>3, <3>4
  <2> QED
    BY <1>1, <2>1, <2>2
<1>4. TypeOK'
  BY <1>0, <1>1, <1>3, <1>a DEF TypeOK, n, ExchangeTurn, input
<1>5. Exchanging'
  <2>1. Split(before, first_nonopt, last_nonopt, optind)'
    BY <1>0, <1>a DEF Exchanging, Split, ExchangeTurn
  <2> QED
    BY <1>2, <1>3, <1>a, <2>1 DEF Exchanging, ExchangeTurn
<1>6. Control' /\ Segments' /\ Sorted'
  BY <1>a DEF Control, Segments, Sorted, ExchangeTurn, input
<1> QED
  BY <1>3, <1>4, <1>5, <1>6 DEF IInv

(* When the loop ends the whole rotation has been done.                    *)
LEMMA ExchangeDone ==
  ASSUME IInv, ExchangeEnd
  PROVE  argv = Rotated(before, first_nonopt, last_nonopt, optind)
<1>1. n \in Nat /\ argc = n + 1
  BY LengthIsNat DEF IInv
<1>2. /\ argv \in [1..n -> 1..n]
      /\ bottom \in 1..(n + 1) /\ middle \in bottom..(n + 1) /\ top \in middle..(n + 1)
      /\ bottom = middle \/ middle = top
  BY <1>1 DEF IInv, TypeOK, n, ExchangeEnd
<1>3. Rotated(argv, bottom, middle, top) = argv
  <2>1. middle \in 1..(n + 1) /\ top \in 1..(n + 1) /\ bottom <= middle /\ middle <= top
    BY <1>1, <1>2
  <2> QED
    BY <1>1, <1>2, <2>1, RotatedEmpty
<1> QED
  BY <1>3 DEF IInv, Exchanging, ExchangeEnd

LEMMA ExchangeEndKeeps == ASSUME IInv, ExchangeEnd PROVE IInv'
<1>a. TypeOK /\ NothingLost /\ Control /\ Exchanging
  BY DEF IInv
<1>e. IInv /\ ExchangeEnd
  OBVIOUS
<1>0. n \in Nat /\ argc = n + 1 /\ n' = n /\ argc' = argc
  BY <1>a, LengthIsNat DEF n, argc, ExchangeEnd, input
<1>1. /\ before \in [1..n -> 1..n] /\ optind \in 1..(n + 1)
      /\ first_nonopt \in 1..(n + 1) /\ last_nonopt \in 1..(n + 1)
      /\ first_nonopt < last_nonopt /\ last_nonopt < optind
      /\ Split(before, first_nonopt, last_nonopt, optind)
  BY <1>0, <1>a DEF TypeOK, n, Exchanging, ExchangeEnd
<1>2. Split(argv, first_nonopt + (optind - last_nonopt), optind, optind)
  <2>1. Split(Rotated(before, first_nonopt, last_nonopt, optind),
              first_nonopt + (optind - last_nonopt), optind, optind)
    <3>1. first_nonopt <= last_nonopt /\ last_nonopt <= optind
      BY <1>0, <1>1
    <3> QED
      BY <1>0, <1>1, <3>1, SplitRotates, Zenon
  <2> QED
    BY <2>1, <1>e, ExchangeDone
<1>3. Segments'
  <2>1. Split(argv', first_nonopt', optind', optind')
    BY <1>2 DEF ExchangeEnd
  <2>2. pc' \in {"skip", "rest"}
    BY <1>a DEF TypeOK, ExchangeEnd
  <2> QED
    BY <1>0, <2>1, <2>2 DEF Segments, Split
<1>4. TypeOK'
  BY <1>0, <1>1, <1>a DEF TypeOK, rotation, n, ExchangeEnd, input
<1>5. NothingLost'
  BY <1>0, <1>a DEF NothingLost, ExchangeEnd
<1>6. Control' /\ Exchanging' /\ Sorted'
  <2>1. pc' \in {"skip", "rest"} /\ ordering = "PERMUTE" /\ nextchar = NULL /\ c # "-1"
    BY <1>a DEF TypeOK, Control, ExchangeEnd, input
  <2>2. last_nonopt' <= optind'
    BY <1>1 DEF ExchangeEnd
  <2> QED
    BY <2>1, <2>2 DEF Control, Exchanging, Sorted, ExchangeEnd, input
<1> QED
  BY <1>3, <1>4, <1>5, <1>6 DEF IInv
(* Skipping a word, or coming to the end of those to skip.                 *)
LEMMA SkipKeeps == ASSUME IInv, Skip PROVE IInv'
<1>a. TypeOK /\ NothingLost /\ Control
  BY DEF IInv
<1>0. n \in Nat /\ argc = n + 1 /\ n' = n /\ argc' = argc
  BY <1>a, LengthIsNat DEF n, argc, Skip, input
<1>1. /\ argv \in [1..n -> 1..n] /\ first_nonopt \in 1..(n + 1) /\ optind \in 1..(n + 1)
      /\ first_nonopt <= optind /\ last_nonopt \in 1..(n + 1) /\ last_nonopt <= optind
      /\ Split(argv, first_nonopt, optind, optind)
      /\ c # "-1" /\ nextchar = NULL /\ ordering = "PERMUTE"
  BY <1>0 DEF IInv, TypeOK, n, Control, Segments, Skip
<1>2. NothingLost'
  BY <1>0, <1>a DEF NothingLost, Skip
<1>3. CASE optind < argc /\ NonOption(Word(optind))
  <2>1. optind' = optind + 1 /\ UNCHANGED <<last_nonopt, pc>>
    BY <1>3 DEF Skip
  <2>2. Split(argv, first_nonopt, optind + 1, optind + 1)
    BY <1>0, <1>1, <1>3, SplitSkips
  <2>3. Segments'
    BY <1>0, <2>1, <2>2 DEF Segments, Split, Skip
  <2>4. TypeOK'
    BY <1>0, <1>3, <1>a, <2>1 DEF TypeOK, n, Skip, input, rotation
  <2> QED
    BY <1>1, <1>2, <1>a, <2>1, <2>3, <2>4 DEF IInv, Control, Exchanging, Sorted, Skip, input
<1>4. CASE optind < argc => ~NonOption(Word(optind))
  <2>1. CASE optind < argc /\ NonOption(Word(optind))
    BY <1>4, <2>1
  <2>2. CASE ~(optind < argc /\ NonOption(Word(optind)))
    <3>1. last_nonopt' = optind /\ pc' = "dashes" /\ UNCHANGED optind
      BY <2>2 DEF Skip
    <3>2. Segments'
      BY <1>0, <1>1, <3>1 DEF Segments, Split, Skip
    <3>3. TypeOK'
      BY <1>0, <1>1, <1>a, <3>1 DEF TypeOK, n, Skip, input, rotation
    <3>4. Control'
      <4>1. optind' < argc' => ~NonOption(Word(optind))'
        BY <1>0, <1>4, <3>1 DEF Word, Skip, input
      <4> QED
        BY <1>1, <3>1, <4>1 DEF Control, Skip, input
    <3> QED
      BY <1>1, <1>2, <3>1, <3>2, <3>3, <3>4 DEF IInv, Exchanging, Sorted, Skip, input
  <2> QED
    BY <2>1, <2>2
<1> QED
  BY <1>3, <1>4

(* "--" is one of the options, what follows it is skipped.                 *)
LEMMA DashesKeeps == ASSUME IInv, Dashes PROVE IInv'
<1>a. TypeOK /\ NothingLost /\ Control
  BY DEF IInv
<1>0. n \in Nat /\ argc = n + 1 /\ n' = n /\ argc' = argc
  BY <1>a, LengthIsNat DEF n, argc, Dashes, input
<1>1. /\ argv \in [1..n -> 1..n] /\ first_nonopt \in 1..(n + 1) /\ optind \in 1..n
      /\ first_nonopt <= last_nonopt /\ last_nonopt \in 1..(n + 1) /\ last_nonopt <= optind
      /\ optind' = optind + 1
      /\ c # "-1" /\ nextchar = NULL
  BY <1>0, <1>a DEF TypeOK, n, Control, Dashes, AtDashes
<1>2. Split(argv, first_nonopt, last_nonopt, optind + 1)
  <2>1. Split(argv, first_nonopt, last_nonopt, optind)
    BY <1>1 DEF IInv, Segments, Dashes
  <2> QED
    BY <1>0, <1>1, <2>1, SplitTakes
<1>3. CASE first_nonopt # last_nonopt
  <2>1. StartExchange("rest") /\ UNCHANGED first_nonopt
    BY <1>1, <1>3 DEF Dashes
  <2>2. ordering = "PERMUTE"
    BY <1>1, <1>3, <1>a, OrderingsAssumption DEF Control, Dashes, TypeOK
  <2>3. UNCHANGED <<input, argv, last_nonopt, nextchar, c, outcome>>
    BY DEF Dashes
  <2>4. /\ optind' \in optind..(n + 1) /\ first_nonopt < last_nonopt /\ last_nonopt < optind'
        /\ Split(argv, first_nonopt, last_nonopt, optind')
    BY <1>0, <1>1, <1>2, <1>3
  <2> QED
    BY <1>1, <2>1, <2>2, <2>3, <2>4, StartKeeps
<1>4. CASE first_nonopt = last_nonopt
  <2>1. first_nonopt' = optind + 1 /\ pc' = "rest" /\ UNCHANGED rotation
    BY <1>4 DEF Dashes
  <2>2. Split(argv, optind + 1, optind + 1, optind + 1)
    BY <1>0, <1>1, <1>2, <1>4, SplitEmpty
  <2>3. Segments'
    BY <1>0, <1>1, <2>1, <2>2 DEF Segments, Split, Dashes
  <2>4. TypeOK'
    BY <1>0, <1>1, <1>a, <2>1 DEF TypeOK, n, Dashes, input, rotation
  <2>5. NothingLost'
    BY <1>0, <1>a DEF NothingLost, Dashes
  <2> QED
    BY <1>1, <2>1, <2>3, <2>4, <2>5 DEF IInv, Control, Exchanging, Sorted, Dashes, input
<1> QED
  BY <1>3, <1>4

LEMMA RestKeeps == ASSUME IInv, Rest PROVE IInv'
<1>a. TypeOK /\ NothingLost /\ Control
  BY DEF IInv
<1>0. n \in Nat /\ argc = n + 1 /\ n' = n /\ argc' = argc
  BY <1>a, LengthIsNat DEF n, argc, Rest, input
<1>1. /\ argv \in [1..n -> 1..n] /\ first_nonopt \in 1..(n + 1) /\ optind \in 1..(n + 1)
      /\ first_nonopt <= optind
      /\ Split(argv, first_nonopt, optind, optind)
      /\ c # "-1" /\ nextchar = NULL
  BY <1>0 DEF IInv, TypeOK, n, Control, Segments, Rest
<1>2. Split(argv, first_nonopt, n + 1, n + 1)
  BY <1>0, <1>1, SplitRest
<1>3. Segments'
  BY <1>0, <1>1, <1>2 DEF Segments, Split, Rest
<1>4. TypeOK'
  BY <1>0, <1>1, <1>a DEF TypeOK, n, Rest, input, rotation
<1>5. NothingLost'
  BY <1>0, <1>a DEF NothingLost, Rest
<1>6. Control'
  BY <1>0, <1>1, <1>a DEF Control, Rest, input
<1> QED
  BY <1>1, <1>3, <1>4, <1>5, <1>6 DEF IInv, Exchanging, Sorted, Rest

(* Where the scan stops, options come first, in order, and then the rest.  *)
LEMMA EndKeeps == ASSUME IInv, End PROVE IInv'
<1>a. TypeOK /\ NothingLost /\ Control
  BY DEF IInv
<1>0. n \in Nat /\ argc = n + 1 /\ n' = n /\ argc' = argc
  BY <1>a, LengthIsNat DEF n, argc, End, input
<1>1. /\ argv \in [1..n -> 1..n] /\ first_nonopt \in 1..(n + 1) /\ optind \in 1..(n + 1)
      /\ first_nonopt <= last_nonopt /\ last_nonopt \in 1..(n + 1) /\ last_nonopt <= optind
      /\ Split(argv, first_nonopt, last_nonopt, optind)
      /\ c # "-1" /\ nextchar = NULL
      /\ c' = "-1" /\ pc' = "main"
  BY <1>0 DEF IInv, TypeOK, n, Control, Segments, End, Return
<1>2. /\ optind' \in 1..(n + 1) /\ first_nonopt <= optind'
      /\ \/ first_nonopt = last_nonopt /\ optind' = optind
         \/ last_nonopt = n + 1 /\ optind = n + 1 /\ optind' = first_nonopt
  <2>1. CASE optind = argc
    <3>1. optind' = IF first_nonopt # last_nonopt THEN first_nonopt ELSE optind
      BY <1>0, <2>1 DEF End
    <3>2. first_nonopt # last_nonopt => last_nonopt = n + 1
      <4>1. ordering = "PERMUTE" \/ ordering = "REQUIRE_ORDER"
        BY <1>a, OrderingsAssumption DEF TypeOK
      <4>2. pc = "end" \/ pc = "dashes"
        BY DEF End
      <4> QED
        BY <1>0, <1>1, <1>a, <2>1, <4>1, <4>2 DEF Control
    <3> QED
      BY <1>0, <1>1, <2>1, <3>1, <3>2
  <2>2. CASE optind # argc
    <3>1. optind < argc /\ NonOption(Word(optind)) /\ UNCHANGED optind
      BY <2>2 DEF End
    <3>2. pc = "dashes"
      BY <1>a, <2>2 DEF End, Control
    <3>3. ordering = "REQUIRE_ORDER"
      BY <1>a, <3>1, <3>2, OrderingsAssumption DEF Control, TypeOK
    <3>4. first_nonopt = last_nonopt
      BY <1>1, <1>a, <3>2, <3>3 DEF Control
    <3> QED
      BY <1>1, <3>1, <3>4
  <2> QED
    BY <2>1, <2>2
<1>3. Sorted'
  <2>1. ASSUME NEW i \in 1..n, NEW j \in 1..n, i < j,
               j < optind' \/ optind' <= i
        PROVE  argv[i] < argv[j]
    <3>1. CASE first_nonopt = last_nonopt /\ optind' = optind
      <4>1. CASE j < optind
        BY <1>1, <2>1, <3>1, <4>1 DEF Split
      <4>2. CASE optind <= i
        <5>1. argv[i] = i /\ argv[j] = j
          BY <1>1, <2>1, <4>2 DEF Split
        <5> QED
          BY <2>1, <5>1
      <4> QED
        BY <2>1, <3>1, <4>1, <4>2
    <3>2. CASE last_nonopt = n + 1 /\ optind = n + 1 /\ optind' = first_nonopt
      BY <1>0, <1>1, <2>1, <3>2 DEF Split
    <3> QED
      BY <1>2, <3>1, <3>2
  <2>2. argv' = argv
    BY DEF End
  <2>3. \A i, j \in 1..(optind' - 1) : i < j => argv[i] < argv[j]
    <3>1. ASSUME NEW i \in 1..(optind' - 1) PROVE i \in 1..n /\ i < optind'
      <4> DEFINE t == optind'
      <4>1. t \in 1..(n + 1)
        BY <1>2
      <4> HIDE DEF t
      <4>2. i \in 1..(t - 1)
        BY DEF t
      <4>3. i \in 1..n /\ i < t
        BY <1>0, <4>1, <4>2
      <4> QED
        BY <4>3 DEF t
    <3> QED
      BY <2>1, <3>1
  <2>4. \A i, j \in optind'..n : i < j => argv[i] < argv[j]
    <3>1. ASSUME NEW i \in optind'..n PROVE i \in 1..n /\ optind' <= i
      <4>1. optind' \in Nat /\ 1 <= optind'
        BY <1>2
      <4> QED
        BY <1>0, <4>1
    <3> QED
      BY <2>1, <3>1
  <2> QED
    BY <1>0, <2>2, <2>3, <2>4 DEF Sorted, Increasing
<1>4. TypeOK'
  BY <1>0, <1>1, <1>2, <1>a DEF TypeOK, n, End, input, rotation
<1>5. NothingLost'
  BY <1>0, <1>a DEF NothingLost, End
<1>6. Control' /\ Segments' /\ Exchanging'
  BY <1>0, <1>1 DEF Control, Segments, Exchanging, End, Return
<1> QED
  BY <1>3, <1>4, <1>5, <1>6 DEF IInv
(* An option element is passed, with or without an argument behind it.     *)
LEMMA OptionKeeps ==
  ASSUME IInv, pc \in {"call", "dashes", "decode"}, c # "-1",
         pc' \in {"decode", "main"}, c' = c \/ c' # "-1",
         optind' \in optind..argc, nextchar' # NULL \/ pc' = "decode" => optind' < argc,
         first_nonopt = last_nonopt \/ ordering # "REQUIRE_ORDER",
         UNCHANGED <<input, rotation, argv, first_nonopt, last_nonopt, outcome>>
  PROVE  IInv'
<1>a. TypeOK /\ NothingLost /\ Control
  BY DEF IInv
<1>0. n \in Nat /\ argc = n + 1 /\ n' = n /\ argc' = argc
  BY <1>a, LengthIsNat DEF n, argc, input
<1>1. /\ argv \in [1..n -> 1..n] /\ first_nonopt \in 1..(n + 1) /\ optind \in 1..(n + 1)
      /\ first_nonopt <= last_nonopt /\ last_nonopt \in 1..(n + 1) /\ last_nonopt <= optind
      /\ Split(argv, first_nonopt, last_nonopt, optind)
  BY <1>0 DEF IInv, TypeOK, n, Control, Segments
<1>3. Split(argv, first_nonopt, last_nonopt, optind')
  <2>1. /\ \A i \in 1..n : i < optind' => argv[i] < optind'
        /\ \A i \in 1..n : optind' <= i => argv[i] = i
    BY <1>0, <1>1 DEF Split
  <2>2. ASSUME NEW i \in 1..n, NEW j \in 1..n, i < j, j < optind',
               i < first_nonopt \/ last_nonopt <= i, j < first_nonopt \/ last_nonopt <= j
        PROVE  argv[i] < argv[j]
    <3>1. CASE j < optind
      BY <1>1, <2>2, <3>1 DEF Split
    <3>2. CASE optind <= j
      <4>1. argv[j] = j
        BY <1>1, <2>2, <3>2 DEF Split
      <4>2. CASE i < optind
        <5>1. argv[i] < optind /\ argv[i] \in 1..n
          BY <1>1, <2>2, <4>2 DEF Split
        <5> QED
          BY <1>1, <3>2, <4>1, <5>1
      <4>3. CASE optind <= i
        <5>1. argv[i] = i
          BY <1>1, <2>2, <4>3 DEF Split
        <5> QED
          BY <2>2, <4>1, <5>1
      <4> QED
        BY <1>1, <4>2, <4>3
    <3> QED
      BY <1>1, <3>1, <3>2
  <2>3. \A i, j \in 1..n : first_nonopt <= i /\ i < j /\ j < last_nonopt => argv[i] < argv[j]
    BY <1>1 DEF Split
  <2> QED
    BY <2>1, <2>2, <2>3 DEF Split
<1>4. Segments'
  BY <1>0, <1>3 DEF Segments, Split
<1>5. TypeOK'
  BY <1>0, <1>1, <1>a DEF TypeOK, n, input, rotation
<1>6. NothingLost'
  BY <1>0, <1>a DEF NothingLost
<1>7. Control'
  <2>1. last_nonopt' <= optind'
    BY <1>0, <1>1
  <2>2. c' # "-1" /\ pc' \notin {"skip", "exchange", "dashes", "end"}
    OBVIOUS
  <2> QED
    BY <1>0, <2>1, <2>2 DEF Control, input
<1> QED
  BY <1>4, <1>5, <1>6, <1>7 DEF IInv, Exchanging, Sorted

LEMMA ElementKeeps == ASSUME IInv, Element \/ Continue PROVE IInv'
<1>a. TypeOK /\ Control /\ argc \in Nat
  BY LengthIsNat DEF IInv
<1>1. /\ pc \in {"call", "dashes"} /\ c # "-1" /\ pc' = "decode" /\ c' = c
      /\ optind' = optind /\ optind < argc /\ optind \in 1..argc
      /\ UNCHANGED <<input, rotation, argv, first_nonopt, last_nonopt, outcome>>
  BY <1>a DEF Element, Continue, Control, TypeOK
<1>2. first_nonopt = last_nonopt \/ ordering # "REQUIRE_ORDER"
  BY <1>1, <1>a DEF Control
<1> QED
  BY <1>1, <1>2, <1>a, OptionKeeps

LEMMA LongKeeps == ASSUME IInv, LongOption PROVE IInv'
<1>a. TypeOK /\ Control /\ argc \in Nat
  BY LengthIsNat DEF IInv
<1>1. /\ pc = "decode" /\ c # "-1" /\ optind < argc /\ optind \in 1..argc
      /\ nextchar' = NULL
      /\ UNCHANGED <<input, rotation, argv, first_nonopt, last_nonopt, outcome>>
  BY <1>a DEF LongOption, Control, TypeOK
<1>2. /\ pc' = "main" /\ optind' \in {optind + 1, optind + 2} /\ optind' <= argc
      /\ c' # "-1"
  <2> DEFINE found == Found(long_options, Name(nextchar))
             p == long_options[CHOOSE k \in found : TRUE]
  <2>1. Cardinality(found) = 1 => p.val # "-1"
    <3>1. Len(long_options) = 8 /\ \A k \in 1..8 : long_options[k].val # "-1"
      BY DEF long_options
    <3>2. found \subseteq 1..8
      BY <3>1 DEF Found
    <3>3. Cardinality(found) = 1 => found # {}
      BY FS_EmptySet
    <3> HIDE DEF found
    <3> QED
      BY <3>1, <3>2, <3>3
  <2>2. \/ c' = "?" /\ pc' = "main"
        \/ Cardinality(found) = 1 /\ c' = p.val /\ pc' = "main"
    BY DEF LongOption, Return
  <2>3. optind' = optind + 1 \/ (optind + 1 < argc /\ optind' = optind + 2)
    BY DEF LongOption
  <2> HIDE DEF found, p
  <2> QED
    BY <1>1, <1>a, <2>1, <2>2, <2>3
<1>3. first_nonopt = last_nonopt \/ ordering # "REQUIRE_ORDER"
  BY <1>1, <1>a DEF Control
<1> QED
  BY <1>1, <1>2, <1>3, <1>a, OptionKeeps
LEMMA ShortKeeps == ASSUME IInv, ShortOption PROVE IInv'
<1>a. TypeOK /\ Control /\ argc \in Nat
  BY LengthIsNat DEF IInv
<1>1. /\ pc = "decode" /\ c # "-1" /\ optind < argc /\ optind \in 1..argc
      /\ UNCHANGED <<input, rotation, argv, first_nonopt, last_nonopt, outcome>>
  BY <1>a DEF ShortOption, Control, TypeOK
<1> DEFINE x == Head(nextchar)
           more == Tail(nextchar)
           next == IF more = NULL THEN optind + 1 ELSE optind
<1>2. \/ /\ x \notin TakesArgument
         /\ pc' = "main" /\ c' = (IF x \in short_options THEN x ELSE "?")
         /\ nextchar' = more /\ optind' = next
      \/ /\ x \in TakesArgument /\ nextchar' = NULL /\ pc' = "main"
         /\ \/ more # NULL /\ optind' = next + 1 /\ c' = x
            \/ more = NULL /\ next = argc /\ optind' = next /\ c' = "?"
            \/ more = NULL /\ next < argc /\ optind' = next + 1 /\ c' = x
  BY DEF ShortOption, TakeArgument, Return
<1>3. pc' = "main" /\ c' # "-1"
  BY <1>2 DEF short_options, TakesArgument
<1>4. optind' \in optind..argc /\ (nextchar' # NULL => optind' < argc)
  <2>1. next \in optind..argc /\ (more # NULL => next < argc)
    BY <1>1, <1>a
  <2> HIDE DEF next, more, x
  <2> QED
    BY <1>1, <1>2, <1>a, <2>1
<1>5. first_nonopt = last_nonopt \/ ordering # "REQUIRE_ORDER"
  BY <1>1, <1>a DEF Control
<1> QED
  BY <1>1, <1>3, <1>4, <1>5, OptionKeeps

(* main takes the option, or ends the loop.                                *)
LEMMA SwitchKeeps == ASSUME IInv, Switch PROVE IInv'
<1>a. TypeOK /\ NothingLost /\ Control
  BY DEF IInv
<1>0. n \in Nat /\ argc = n + 1 /\ n' = n /\ argc' = argc
  BY <1>a, LengthIsNat DEF n, argc, Switch, input
<1>1. /\ pc = "main" /\ pc' \in {"call", "done"} /\ c' = c
      /\ UNCHANGED <<input, rotation, scan>>
      /\ outcome' \in {"none", "run", "success", "failure"}
      /\ c = "-1" => pc' = "done"
  BY <1>a DEF Switch, TypeOK, short_options
<1>2. TypeOK'
  BY <1>0, <1>1, <1>a DEF TypeOK, n, input, rotation, scan
<1>3. NothingLost' /\ Sorted'
  BY <1>0, <1>1 DEF IInv, NothingLost, Sorted, Increasing, scan
<1>4. Segments'
  BY <1>0, <1>1 DEF IInv, Segments, Split, scan
<1>5. Control'
  BY <1>0, <1>1, <1>a DEF Control, scan, input
<1> QED
  BY <1>1, <1>2, <1>3, <1>4, <1>5 DEF IInv, Exchanging

LEMMA NextInv == IInv /\ [Next]_vars => IInv'
<1> SUFFICES ASSUME IInv, [Next]_vars PROVE IInv'
  OBVIOUS
<1>1. CASE UNCHANGED vars
  BY <1>1 DEF vars, input, rotation, scan, IInv, TypeOK, NothingLost, Control, Exchanging,
     Segments, Sorted, Split, Increasing, Rotated, Word, argc, n
<1>2. CASE NextElement
  BY <1>2, ArrangeKeeps, TurnKeeps, ExchangeEndKeeps, SkipKeeps, DashesKeeps, RestKeeps,
     EndKeeps, ElementKeeps, Zenon DEF NextElement
<1> QED
  BY <1>1, <1>2, LongKeeps, ShortKeeps, SwitchKeeps, Zenon DEF Next, Done

LEMMA Invariant == Spec => []IInv
BY InitInv, NextInv, PTL DEF Spec

-----------------------------------------------------------------------------
(*                              The theorems                               *)

(* The indices of getopt.c stay in the command line, whatever it is.       *)
THEOREM TypeCorrect == Spec => []TypeOK
<1>1. IInv => TypeOK
  BY DEF IInv
<1> QED
  BY <1>1, Invariant, PTL

(* No word is lost, and options and operands each keep their order, for    *)
(* command lines of every length.                                          *)
THEOREM WordsKeepTheirOrder == Spec => []OrderKept
<1>1. IInv => OrderKept
  BY DEF IInv, NothingLost, Sorted, OrderKept, n
<1> QED
  BY <1>1, Invariant, PTL

(* exchange is a rotation for segments of every length.                    *)
THEOREM ExchangeIsRotation == Spec => ExchangeRotates
<1>1. IInv /\ [Next]_vars => [pc = "exchange" /\ pc' # "exchange"
         => argv' = Rotated(before, first_nonopt, last_nonopt, optind)]_vars
  <2> SUFFICES ASSUME IInv, Next, pc = "exchange", pc' # "exchange"
               PROVE  argv' = Rotated(before, first_nonopt, last_nonopt, optind)
    OBVIOUS
  <2>1. ExchangeEnd
    BY DEF Next, NextElement, Arrange, ExchangeTurn, Skip, Dashes, Rest, End, Element, Continue,
           LongOption, ShortOption, Switch, Done, vars
  <2> QED
    BY <2>1, ExchangeDone DEF ExchangeEnd
<1> QED
  BY <1>1, Invariant, PTL DEF Spec, ExchangeRotates
=============================================================================
