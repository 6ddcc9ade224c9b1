---------------------------- MODULE HistoryProofs ----------------------------
(***************************************************************************)
(* Proofs about the jobs that go over recorded trades: the optimizer, the   *)
(* replay of a token, the backtest and the labels of an entry, for any      *)
(* history, grid, limits, readers, signals and survival model.              *)
(*                                                                          *)
(* What a recursive definition computes is proved by a first-order          *)
(* induction: the numbers up to n that have a property, and the least of    *)
(* those that have not.                                                     *)
(***************************************************************************)
EXTENDS Sweep, ReplayFeed, Backtest, ExitLabels, FiniteSetTheorems, SequenceTheorems,
        WellFoundedInduction, TLAPS

(* Every set of naturals has a least member: the induction of these proofs.  *)
LEMMA LeastNat ==
  ASSUME NEW T, T \subseteq Nat, T # {}
  PROVE  \E x \in T : \A y \in T : x <= y
<1> DEFINE R == OpToRel(<, Nat)
<1>1. IsWellFoundedOn(R, Nat)
  BY NatLessThanWellFounded
<1>2. \A x, y \in Nat : x < y => <<x, y>> \in R
  BY DEF R, OpToRel
<1> HIDE DEF R
<1>3. \E x \in T : \A y \in T : ~ (<<y, x>> \in R)
  BY <1>1, WFMin
<1>4. PICK x \in T : \A y \in T : ~ (<<y, x>> \in R)
  BY <1>3
<1>5. ASSUME NEW y \in T
      PROVE  x <= y
  <2>1. x \in Nat /\ y \in Nat
    OBVIOUS
  <2>2. ~(y < x)
    BY <1>2, <1>4, <2>1
  <2> QED BY <2>1, <2>2
<1> QED BY <1>5

(* Induction up to a bound.                                                  *)
LEMMA Climb ==
  ASSUME NEW n \in Nat, NEW T, 0 \in T,
         \A i \in 0..n : i # n /\ i \in T => i + 1 \in T
  PROVE  \A i \in 0..n : i \in T
<1> DEFINE Bad == {i \in 0..n : i \notin T}
<1>1. SUFFICES ASSUME Bad # {} PROVE FALSE
  OBVIOUS
<1>2. PICK i \in Bad : \A y \in Bad : i <= y
  <2>1. Bad \subseteq Nat
    OBVIOUS
  <2> HIDE DEF Bad
  <2> QED BY <1>1, <2>1, LeastNat
<1>3. i \in 0..n /\ i \notin T /\ i # 0
  OBVIOUS
<1>4. i - 1 \in 0..n /\ i - 1 # n /\ i - 1 \notin Bad /\ (i - 1) + 1 = i
  BY <1>2, <1>3
<1>5. i - 1 \in T
  BY <1>4
<1> QED BY <1>3, <1>4, <1>5

(* The greatest of a bounded set of integers.                                *)
LEMMA GreatestInt ==
  ASSUME NEW S, S # {}, NEW low \in Int, NEW high \in Int, S \subseteq low..high
  PROVE  Max(S) \in S /\ \A y \in S : Max(S) >= y
<1> DEFINE T == {high - x : x \in S}
<1>1. T \subseteq Nat /\ T # {}
  <2>1. \A x \in S : high - x \in Nat
    <3> TAKE x \in S
    <3>1. x \in low..high
      OBVIOUS
    <3>2. x \in Int /\ x <= high
      BY ONLY <3>1, low \in Int, high \in Int
    <3> QED BY ONLY <3>2, high \in Int
  <2>2. PICK x : x \in S
    OBVIOUS
  <2> QED BY ONLY <2>1, <2>2 DEF T
<1>2. PICK t \in T : \A y \in T : t <= y
  <2> HIDE DEF T
  <2> QED BY <1>1, LeastNat
<1>3. PICK x \in S : t = high - x
  OBVIOUS
<1>4. \A y \in S : x >= y
  <2> TAKE y \in S
  <2>1. high - y \in T
    OBVIOUS
  <2>2. x \in Int /\ y \in Int
    OBVIOUS
  <2> QED BY <1>2, <1>3, <2>1, <2>2
<1> QED BY <1>4 DEF Max

LEMMA LeastInt ==
  ASSUME NEW S, S # {}, S \subseteq Nat
  PROVE  Min(S) \in S /\ \A y \in S : Min(S) <= y
<1>1. PICK x \in S : \A y \in S : x <= y
  BY LeastNat
<1> QED BY <1>1 DEF Min

(* The head of the queue goes to the end of what was handed out.              *)
LEMMA MovesOver ==
  ASSUME NEW S, NEW q \in Seq(S), q # <<>>, NEW s \in Seq(S)
  PROVE  /\ Append(s, Head(q)) \o Tail(q) = s \o q
         /\ Append(s, Head(q)) \in Seq(S) /\ Tail(q) \in Seq(S) /\ Head(q) \in S
<1>1. /\ Head(q) \in S /\ Tail(q) \in Seq(S) /\ Append(s, Head(q)) \in Seq(S)
      /\ Len(q) \in Nat \ {0} /\ Len(s) \in Nat
  OBVIOUS
<1> DEFINE l == Append(s, Head(q)) \o Tail(q)
           r == s \o q
<1>3. /\ l \in Seq(S) /\ r \in Seq(S) /\ Len(l) = Len(s) + Len(q) /\ Len(r) = Len(s) + Len(q)
  BY <1>1
<1>4. \A i \in 1..Len(l) : l[i] = r[i]
  <2> TAKE i \in 1..Len(l)
  <2>1. CASE i <= Len(s)
    BY <1>1, <1>3, <2>1
  <2>2. CASE i = Len(s) + 1
    BY <1>1, <1>3, <2>2
  <2>3. CASE i > Len(s) + 1
    BY <1>1, <1>3, <2>3
  <2> QED BY <1>1, <2>1, <2>2, <2>3
<1> HIDE DEF l, r
<1>5. l = r
  BY <1>3, <1>4, SeqEqual
<1> QED BY <1>1, <1>5 DEF l, r

-----------------------------------------------------------------------------
(* What Among computes: kept[i] is what the first i trades contribute.      *)
KeptStep(kept, s, X, i) ==
  IF i = 0 THEN <<>>
  ELSE IF s[i] \in X THEN Append(kept[i - 1], s[i]) ELSE kept[i - 1]

KeptTo(kept, s, X, n) == kept = [i \in 0..n |-> KeptStep(kept, s, X, i)]

LEMMA KeptStepLocal ==
  ASSUME NEW s, NEW X, NEW f, NEW g, NEW i, i = 0 \/ f[i - 1] = g[i - 1]
  PROVE  KeptStep(f, s, X, i) = KeptStep(g, s, X, i)
BY DEF KeptStep

(* The recursion of Among has a solution: one up to n extends to n + 1.     *)
LEMMA KeptExtends ==
  ASSUME NEW s, NEW X, NEW n \in Nat, NEW kept, KeptTo(kept, s, X, n)
  PROVE  \E more : KeptTo(more, s, X, n + 1)
<1> DEFINE more == [i \in 0..n + 1 |->
                      IF i = n + 1 THEN KeptStep(kept, s, X, i) ELSE kept[i]]
<1>1. \A i \in 0..n : more[i] = kept[i]
  OBVIOUS
<1>2. \A i \in 0..n : kept[i] = KeptStep(kept, s, X, i)
  BY DEF KeptTo
<1>3. \A i \in 0..n + 1 : more[i] = KeptStep(kept, s, X, i)
  BY <1>1, <1>2
<1>4. more = [i \in 0..n + 1 |-> more[i]]
  OBVIOUS
<1> HIDE DEF more
<1>5. \A i \in 0..n + 1 : KeptStep(more, s, X, i) = KeptStep(kept, s, X, i)
  <2> TAKE i \in 0..n + 1
  <2>1. i = 0 \/ more[i - 1] = kept[i - 1]
    BY <1>1
  <2> QED BY <2>1, KeptStepLocal
<1>6. more = [i \in 0..n + 1 |-> KeptStep(more, s, X, i)]
  BY <1>3, <1>4, <1>5
<1> QED BY <1>6 DEF KeptTo

LEMMA KeptExists ==
  ASSUME NEW s, Len(s) \in Nat, NEW X
  PROVE  \E kept : KeptTo(kept, s, X, Len(s))
<1> DEFINE Good == {n \in 0..Len(s) : \E kept : KeptTo(kept, s, X, n)}
<1>1. 0 \in Good
  <2> DEFINE kept == [i \in 0..0 |-> <<>>]
  <2>1. \A i \in 0..0 : KeptStep(kept, s, X, i) = <<>>
    BY DEF KeptStep
  <2>2. KeptTo(kept, s, X, 0)
    BY <2>1 DEF KeptTo
  <2> QED BY <2>2
<1>2. ASSUME NEW n \in 0..Len(s), n # Len(s), n \in Good
      PROVE  n + 1 \in Good
  BY <1>2, KeptExtends
<1>3. \A n \in 0..Len(s) : n \in Good
  <2> HIDE DEF Good
  <2> QED BY <1>1, <1>2, Climb
<1> QED BY <1>3

(* The same, value by value.                                                 *)
KeptIn(kept, s, X, n) ==
  /\ kept[0] = <<>>
  /\ \A i \in 1..n : kept[i] = IF s[i] \in X THEN Append(kept[i - 1], s[i])
                               ELSE kept[i - 1]

LEMMA AmongKept ==
  ASSUME NEW s, Len(s) \in Nat, NEW X
  PROVE  \E kept : KeptIn(kept, s, X, Len(s)) /\ Among(s, X) = kept[Len(s)]
<1> DEFINE kept == CHOOSE k : KeptTo(k, s, X, Len(s))
<1>1. KeptTo(kept, s, X, Len(s))
  BY KeptExists
<1>2. Among(s, X) = kept[Len(s)]
  BY DEF Among, KeptTo, KeptStep
<1> HIDE DEF kept
<1>3. \A i \in 0..Len(s) : kept[i] = KeptStep(kept, s, X, i)
  BY <1>1 DEF KeptTo
<1>4. kept[0] = <<>>
  BY <1>3 DEF KeptStep
<1>5. \A i \in 1..Len(s) : i \in 0..Len(s) /\ i # 0
  OBVIOUS
<1>6. KeptIn(kept, s, X, Len(s))
  BY <1>3, <1>4, <1>5 DEF KeptStep, KeptIn
<1> QED BY <1>2, <1>6

LEMMA AllInEmpty ==
  ASSUME NEW S, NEW X
  PROVE  <<>> \in Seq(S) /\ \A i \in DOMAIN <<>> : <<>>[i] \in X
OBVIOUS

LEMMA AllInAppend ==
  ASSUME NEW S, NEW X, NEW q \in Seq(S), NEW x \in S, x \in X,
         \A i \in DOMAIN q : q[i] \in X
  PROVE  /\ Append(q, x) \in Seq(S)
         /\ \A i \in DOMAIN Append(q, x) : Append(q, x)[i] \in X
<1>1. Len(q) \in Nat /\ DOMAIN q = 1..Len(q)
  OBVIOUS
<1>2. Append(q, x) \in Seq(S) /\ DOMAIN Append(q, x) = 1..Len(q) + 1
  OBVIOUS
<1>3. \A i \in 1..Len(q) : Append(q, x)[i] = q[i]
  OBVIOUS
<1>4. Append(q, x)[Len(q) + 1] = x
  OBVIOUS
<1>5. \A i \in 1..Len(q) + 1 : i \in 1..Len(q) \/ i = Len(q) + 1
  BY <1>1
<1> QED BY <1>1, <1>2, <1>3, <1>4, <1>5

LEMMA AppendAdds ==
  ASSUME NEW S, NEW s \in Seq(S), NEW x \in S
  PROVE  ToSet(Append(s, x)) = ToSet(s) \cup {x}
<1>1. PICK r : r = Append(s, x)
  OBVIOUS
<1>2. Len(s) \in Nat /\ DOMAIN s = 1..Len(s) /\ DOMAIN r = 1..Len(s) + 1
  BY <1>1
<1>3. r[Len(s) + 1] = x /\ \A i \in 1..Len(s) : r[i] = s[i]
  BY <1>1
<1>4. \A i \in 1..Len(s) + 1 : i \in 1..Len(s) \/ i = Len(s) + 1
  BY <1>2
<1>5. Len(s) + 1 \in 1..Len(s) + 1 /\ \A i \in 1..Len(s) : i \in 1..Len(s) + 1
  BY <1>2
<1>6. ToSet(r) = {r[i] : i \in 1..Len(s) + 1} /\ ToSet(s) = {s[i] : i \in 1..Len(s)}
  BY <1>2 DEF ToSet
<1>7. \A y \in ToSet(r) : y \in ToSet(s) \cup {x}
  BY <1>3, <1>4, <1>6
<1>8. \A y \in ToSet(s) \cup {x} : y \in ToSet(r)
  BY <1>3, <1>5, <1>6
<1> QED BY <1>1, <1>7, <1>8

(* What is kept of a sequence are members of it, of a time in X.             *)
LEMMA AmongType ==
  ASSUME NEW S, NEW s \in Seq(S), NEW X
  PROVE  /\ Among(s, X) \in Seq(S)
         /\ \A i \in DOMAIN Among(s, X) : Among(s, X)[i] \in X
<1>1. Len(s) \in Nat /\ \A i \in 1..Len(s) : s[i] \in S
  OBVIOUS
<1>2. PICK kept : KeptIn(kept, s, X, Len(s)) /\ Among(s, X) = kept[Len(s)]
  BY <1>1, AmongKept
<1> DEFINE Right(q) == q \in Seq(S) /\ \A i \in DOMAIN q : q[i] \in X
           Good == {n \in 0..Len(s) : Right(kept[n])}
<1>3. /\ kept[0] = <<>>
      /\ \A i \in 1..Len(s) : kept[i] = IF s[i] \in X THEN Append(kept[i - 1], s[i])
                                        ELSE kept[i - 1]
  BY <1>2 DEF KeptIn
<1>4. 0 \in Good
  <2>1. kept[0] = <<>>
    BY <1>3
  <2>2. Right(kept[0])
    BY <2>1, AllInEmpty
  <2> QED BY <1>1, <2>2
<1>5. ASSUME NEW n \in 0..Len(s), n # Len(s), n \in Good
      PROVE  n + 1 \in Good
  <2>1. n + 1 \in 1..Len(s) /\ (n + 1) - 1 = n /\ Right(kept[n])
    BY <1>1, <1>5
  <2>2. CASE s[n + 1] \in X
    <3>1. kept[n + 1] = Append(kept[n], s[n + 1])
      BY <1>3, <2>1, <2>2
    <3>2. s[n + 1] \in S
      BY <1>1, <2>1
    <3>3. Right(kept[n + 1])
      <4>1. /\ kept[n] \in Seq(S) /\ s[n + 1] \in S /\ s[n + 1] \in X
            /\ \A i \in DOMAIN kept[n] : kept[n][i] \in X
        BY <2>1, <2>2, <3>2
      <4>2. Right(Append(kept[n], s[n + 1]))
        BY <4>1, AllInAppend
      <4> QED BY <3>1, <4>2
    <3> QED BY <2>1, <3>3
  <2>3. CASE s[n + 1] \notin X
    <3>1. kept[n + 1] = kept[n]
      BY <1>3, <2>1, <2>3
    <3> QED BY <2>1, <3>1
  <2> QED BY <2>2, <2>3
<1>6. \A n \in 0..Len(s) : n \in Good
  <2> HIDE DEF Good
  <2> QED BY <1>1, <1>4, <1>5, Climb
<1>7. Right(kept[Len(s)])
  BY <1>1, <1>6
<1> QED BY <1>2, <1>7

Agree(s, t, n) == \A i \in 1..n : s[i] = t[i]

LEMMA KeptSame ==
  ASSUME NEW s, NEW t, NEW X, NEW n \in Nat, NEW m \in Nat, n <= m,
         NEW f, KeptIn(f, s, X, n), NEW g, KeptIn(g, t, X, m), Agree(s, t, n)
  PROVE  f[n] = g[n]
<1> DEFINE Good == {i \in 0..n : f[i] = g[i]}
<1>1. /\ f[0] = <<>>
      /\ \A i \in 1..n : f[i] = IF s[i] \in X THEN Append(f[i - 1], s[i]) ELSE f[i - 1]
  BY DEF KeptIn
<1>2. /\ g[0] = <<>>
      /\ \A i \in 1..m : g[i] = IF t[i] \in X THEN Append(g[i - 1], t[i]) ELSE g[i - 1]
  BY DEF KeptIn
<1>3. 0 \in Good
  BY <1>1, <1>2
<1>4. ASSUME NEW i \in 0..n, i # n, i \in Good
      PROVE  i + 1 \in Good
  <2>1. i + 1 \in 1..n /\ i + 1 \in 1..m /\ i + 1 \in 0..n /\ (i + 1) - 1 = i
    BY <1>4
  <2>2. f[i] = g[i] /\ s[i + 1] = t[i + 1]
    BY <1>4, <2>1 DEF Agree
  <2>3. f[i + 1] = g[i + 1]
    <3> HIDE DEF Good
    <3> QED BY <1>1, <1>2, <2>1, <2>2
  <2> QED BY <2>1, <2>3
<1>5. \A i \in 0..n : i \in Good
  <2> HIDE DEF Good
  <2> QED BY <1>3, <1>4, Climb
<1> QED BY <1>5

LEMMA AmongEmpty ==
  ASSUME NEW X
  PROVE  Among(<<>>, X) = <<>>
<1>1. Len(<<>>) \in Nat /\ Len(<<>>) = 0
  OBVIOUS
<1>2. PICK kept : KeptIn(kept, <<>>, X, 0) /\ Among(<<>>, X) = kept[0]
  BY <1>1, AmongKept
<1>3. 0 \in Nat
  OBVIOUS
<1>4. kept[0] = <<>>
  BY <1>2 DEF KeptIn
<1> QED BY <1>2, <1>4

LEMMA AmongAppend ==
  ASSUME NEW S, NEW s \in Seq(S), NEW x \in S, NEW X
  PROVE  /\ x \in X => Among(Append(s, x), X) = Append(Among(s, X), x)
         /\ x \notin X => Among(Append(s, x), X) = Among(s, X)
<1> DEFINE n == Len(s)
           t == Append(s, x)
<1>1. n \in Nat /\ Len(t) = n + 1 /\ t[n + 1] = x /\ \A i \in 1..n : s[i] = t[i]
  OBVIOUS
<1> HIDE DEF t
<1>2. PICK f : KeptIn(f, s, X, n) /\ Among(s, X) = f[n]
  BY <1>1, AmongKept
<1> HIDE DEF n
<1>3. n + 1 \in Nat /\ n <= n + 1 /\ n + 1 \in 1..n + 1 /\ (n + 1) - 1 = n /\ n \in 0..n
  BY <1>1
<1>4. PICK g : KeptIn(g, t, X, n + 1) /\ Among(t, X) = g[n + 1]
  BY <1>1, <1>3, AmongKept
<1>5. f[n] = g[n]
  <2>1. n \in Nat /\ n + 1 \in Nat /\ n <= n + 1
    BY <1>1
  <2>2. KeptIn(f, s, X, n) /\ KeptIn(g, t, X, n + 1)
    BY <1>2, <1>4
  <2>3. Agree(s, t, n)
    BY <1>1 DEF Agree
  <2> QED BY <2>1, <2>2, <2>3, KeptSame
<1>6. g[n + 1] = IF x \in X THEN Append(g[n], x) ELSE g[n]
  <2>1. \A i \in 1..n + 1 :
          g[i] = IF t[i] \in X THEN Append(g[i - 1], t[i]) ELSE g[i - 1]
    BY <1>4 DEF KeptIn
  <2> QED BY <1>1, <1>3, <2>1
<1> QED BY <1>2, <1>4, <1>5, <1>6 DEF t

(* A narrower choice made of a wider one is the narrower one.                *)
LEMMA AmongAgain ==
  ASSUME NEW S, NEW s \in Seq(S), NEW Y, NEW X, X \subseteq Y
  PROVE  Among(Among(s, Y), X) = Among(s, X)
<1> DEFINE n == Len(s)
<1>0. n \in Nat
  OBVIOUS
<1>1. n \in 0..n /\ \A i \in 1..n : s[i] \in S
  OBVIOUS
<1>2. PICK f : KeptIn(f, s, Y, n) /\ Among(s, Y) = f[n]
  BY <1>0, AmongKept
<1>3. PICK h : KeptIn(h, s, X, n) /\ Among(s, X) = h[n]
  BY <1>0, AmongKept
<1> HIDE DEF n
<1>4. /\ f[0] = <<>>
      /\ \A i \in 1..n : f[i] = IF s[i] \in Y THEN Append(f[i - 1], s[i]) ELSE f[i - 1]
  BY <1>2 DEF KeptIn
<1>5. /\ h[0] = <<>>
      /\ \A i \in 1..n : h[i] = IF s[i] \in X THEN Append(h[i - 1], s[i]) ELSE h[i - 1]
  BY <1>3 DEF KeptIn
<1> DEFINE Good == {i \in 0..n : f[i] \in Seq(S) /\ Among(f[i], X) = h[i]}
<1>6. 0 \in Good
  <2>1. <<>> \in Seq(S)
    OBVIOUS
  <2>2. Among(f[0], X) = h[0]
    BY <1>4, <1>5, AmongEmpty
  <2>3. 0 \in 0..n
    BY <1>0
  <2> QED BY <1>4, <2>1, <2>2, <2>3
<1>7. ASSUME NEW i \in 0..n, i # n, i \in Good
      PROVE  i + 1 \in Good
  <2>1. i + 1 \in 1..n /\ i + 1 \in 0..n /\ (i + 1) - 1 = i
    BY <1>0, <1>7
  <2>2. f[i] \in Seq(S) /\ Among(f[i], X) = h[i] /\ s[i + 1] \in S
    BY <1>1, <1>7, <2>1
  <2>3. f[i + 1] = IF s[i + 1] \in Y THEN Append(f[i], s[i + 1]) ELSE f[i]
    <3> HIDE DEF Good
    <3> QED BY <1>4, <2>1
  <2>4. h[i + 1] = IF s[i + 1] \in X THEN Append(h[i], s[i + 1]) ELSE h[i]
    <3> HIDE DEF Good
    <3> QED BY <1>5, <2>1
  <2>5. Append(f[i], s[i + 1]) \in Seq(S)
    BY <2>2
  <2>6. /\ s[i + 1] \in X =>
             Among(Append(f[i], s[i + 1]), X) = Append(Among(f[i], X), s[i + 1])
        /\ s[i + 1] \notin X =>
             Among(Append(f[i], s[i + 1]), X) = Among(f[i], X)
    <3>1. f[i] \in Seq(S)
      BY <2>2
    <3>2. s[i + 1] \in S
      BY <2>2
    <3> HIDE DEF Good
    <3> QED BY <3>1, <3>2, AmongAppend
  <2>7. f[i + 1] \in Seq(S) /\ Among(f[i + 1], X) = h[i + 1]
    <3> HIDE DEF Good
    <3> QED BY <2>2, <2>3, <2>4, <2>5, <2>6
  <2> QED BY <2>1, <2>7
<1>8. \A i \in 0..n : i \in Good
  <2> HIDE DEF Good
  <2> QED BY <1>0, <1>6, <1>7, Climb
<1> QED BY <1>1, <1>2, <1>3, <1>8

-----------------------------------------------------------------------------
(* What Received computes: the sum over a set, one chosen member at a time.  *)
Chosen(t) == CHOOSE x \in t : TRUE
SumStep(sum, t) == IF t = {} THEN 0 ELSE Chosen(t).received + sum[t \ {Chosen(t)}]
SumUpTo(sum, S, n) ==
  /\ sum = [t \in SUBSET S |-> sum[t]]
  /\ \A t \in SUBSET S : Cardinality(t) <= n => sum[t] = SumStep(sum, t)

LEMMA WithoutAny ==
  ASSUME NEW t, IsFiniteSet(t), t # {}
  PROVE  /\ Chosen(t) \in t /\ IsFiniteSet(t \ {Chosen(t)})
         /\ Cardinality(t) \in Nat
         /\ Cardinality(t \ {Chosen(t)}) = Cardinality(t) - 1
<1>1. Chosen(t) \in t
  BY DEF Chosen
<1> QED BY <1>1, FS_RemoveElement, FS_CardinalityType

LEMMA SumExtends ==
  ASSUME NEW S, IsFiniteSet(S), NEW n \in Nat, NEW sum, SumUpTo(sum, S, n)
  PROVE  \E more : SumUpTo(more, S, n + 1)
<1> DEFINE more == [t \in SUBSET S |-> SumStep(sum, t)]
<1>1. \A t \in SUBSET S : Cardinality(t) <= n => more[t] = sum[t]
  BY DEF SumUpTo
<1>2. more = [t \in SUBSET S |-> more[t]]
  OBVIOUS
<1>3. \A t \in SUBSET S : more[t] = SumStep(sum, t)
  OBVIOUS
<1> HIDE DEF more
<1>4. ASSUME NEW t \in SUBSET S, Cardinality(t) <= n + 1
      PROVE  SumStep(more, t) = SumStep(sum, t)
  <2>1. CASE t = {}
    BY <2>1 DEF SumStep
  <2>2. CASE t # {}
    <3>1. IsFiniteSet(t)
      BY FS_Subset
    <3>2. /\ Cardinality(t) \in Nat
          /\ Cardinality(t \ {Chosen(t)}) = Cardinality(t) - 1
      BY <2>2, <3>1, WithoutAny
    <3>3. t \ {Chosen(t)} \in SUBSET S /\ Cardinality(t \ {Chosen(t)}) <= n
      BY <1>4, <3>2
    <3>4. more[t \ {Chosen(t)}] = sum[t \ {Chosen(t)}]
      BY <1>1, <3>3
    <3> QED BY <2>2, <3>4 DEF SumStep
  <2> QED BY <2>1, <2>2
<1>5. SumUpTo(more, S, n + 1)
  BY <1>2, <1>3, <1>4 DEF SumUpTo
<1> QED BY <1>5

LEMMA SumExists ==
  ASSUME NEW S, IsFiniteSet(S)
  PROVE  \E sum : sum = [t \in SUBSET S |-> SumStep(sum, t)]
<1> DEFINE n == Cardinality(S)
           Good == {i \in 0..n : \E sum : SumUpTo(sum, S, i)}
<1>1. n \in Nat
  BY FS_CardinalityType
<1>2. 0 \in Good
  <2> DEFINE zero == [t \in SUBSET S |-> 0]
  <2>1. ASSUME NEW t \in SUBSET S, Cardinality(t) <= 0
        PROVE  zero[t] = SumStep(zero, t)
    <3>1. IsFiniteSet(t)
      BY FS_Subset
    <3>2. Cardinality(t) \in Nat
      BY <3>1, FS_CardinalityType
    <3>3. t = {}
      BY <2>1, <3>1, <3>2, FS_EmptySet
    <3> QED BY <3>3 DEF SumStep
  <2>2. zero = [t \in SUBSET S |-> zero[t]]
    OBVIOUS
  <2>3. SumUpTo(zero, S, 0)
    BY <2>1, <2>2 DEF SumUpTo
  <2> QED BY <1>1, <2>3
<1>3. ASSUME NEW i \in 0..n, i # n, i \in Good
      PROVE  i + 1 \in Good
  <2>1. PICK sum : SumUpTo(sum, S, i)
    BY <1>3
  <2>2. i \in Nat /\ i + 1 \in 0..n
    BY <1>1, <1>3
  <2>3. \E more : SumUpTo(more, S, i + 1)
    BY <2>1, <2>2, SumExtends
  <2> QED BY <2>2, <2>3
<1>4. \A i \in 0..n : i \in Good
  <2> HIDE DEF Good, n
  <2> QED BY <1>1, <1>2, <1>3, Climb
<1>5. PICK sum : SumUpTo(sum, S, n)
  BY <1>1, <1>4
<1>6. \A t \in SUBSET S : Cardinality(t) <= n
  BY FS_Subset
<1>7. \A t \in SUBSET S : sum[t] = SumStep(sum, t)
  BY <1>5, <1>6 DEF SumUpTo
<1>8. sum = [t \in SUBSET S |-> SumStep(sum, t)]
  BY <1>5, <1>7 DEF SumUpTo
<1> QED BY <1>8

LEMMA ReceivedType ==
  ASSUME NEW S, IsFiniteSet(S), \A x \in S : x.received \in Nat
  PROVE  Received(S) \in Nat
<1> DEFINE sum == CHOOSE f : f = [t \in SUBSET S |-> SumStep(f, t)]
<1>1. sum = [t \in SUBSET S |-> SumStep(sum, t)]
  BY SumExists
<1>2. Received(S) = sum[S]
  BY DEF Received, MapThenSumSet, MapThenFoldSet, SumStep, Chosen
<1> HIDE DEF sum
<1> DEFINE n == Cardinality(S)
           Good == {i \in 0..n :
                      \A t \in SUBSET S : Cardinality(t) <= i => sum[t] \in Nat}
<1>3. n \in Nat
  BY FS_CardinalityType
<1>4. \A t \in SUBSET S : sum[t] = SumStep(sum, t)
  BY <1>1
<1>5. 0 \in Good
  <2>1. ASSUME NEW t \in SUBSET S, Cardinality(t) <= 0
        PROVE  sum[t] \in Nat
    <3>1. IsFiniteSet(t)
      BY FS_Subset
    <3>2. Cardinality(t) \in Nat
      BY <3>1, FS_CardinalityType
    <3>3. t = {}
      BY <2>1, <3>1, <3>2, FS_EmptySet
    <3>4. SumStep(sum, t) = 0
      BY <3>3 DEF SumStep
    <3> QED BY <1>4, <3>4
  <2> QED BY <1>3, <2>1
<1>6. ASSUME NEW i \in 0..n, i # n, i \in Good
      PROVE  i + 1 \in Good
  <2>1. i + 1 \in 0..n
    BY <1>3, <1>6
  <2>2. ASSUME NEW t \in SUBSET S, Cardinality(t) <= i + 1, t # {}
        PROVE  sum[t] \in Nat
    <3>1. IsFiniteSet(t)
      BY FS_Subset
    <3>2. /\ Chosen(t) \in t /\ Cardinality(t) \in Nat
          /\ Cardinality(t \ {Chosen(t)}) = Cardinality(t) - 1
      BY <2>2, <3>1, WithoutAny
    <3>3. t \ {Chosen(t)} \in SUBSET S /\ Cardinality(t \ {Chosen(t)}) <= i
      BY <1>3, <2>2, <3>2
    <3>4. sum[t \ {Chosen(t)}] \in Nat
      BY <1>6, <3>3
    <3>5. Chosen(t).received \in Nat
      BY <3>2
    <3> QED BY <1>4, <2>2, <3>4, <3>5 DEF SumStep
  <2>3. sum[{}] \in Nat
    <3>1. SumStep(sum, {}) = 0
      BY DEF SumStep
    <3>2. {} \in SUBSET S
      OBVIOUS
    <3> QED BY <1>4, <3>1, <3>2
  <2>4. \A t \in SUBSET S : Cardinality(t) <= i + 1 => sum[t] \in Nat
    BY <2>2, <2>3
  <2> QED BY <2>1, <2>4
<1>7. \A i \in 0..n : i \in Good
  <2> HIDE DEF Good, n
  <2> QED BY <1>3, <1>5, <1>6, Climb
<1>8. sum[S] \in Nat
  BY <1>3, <1>7
<1> QED BY <1>2, <1>8

-----------------------------------------------------------------------------
SweepSpec == SweepInit /\ [][SweepNext]_sweepVars

Deal == [at : 0..Present, buy : BOOLEAN]

(* Of the trades of a sequence, Within picks those of a time in T.            *)
LEMMA TimesAre ==
  ASSUME NEW T, NEW d \in Deal
  PROVE  d \in [at : T, buy : BOOLEAN] <=> d.at \in T
BY DEF Deal

LEMMA WithinType ==
  ASSUME NEW S, NEW s \in Seq(S), NEW T
  PROVE  /\ Within(s, T) \in Seq(S)
         /\ \A i \in DOMAIN Within(s, T) : Within(s, T)[i].at \in T
<1>1. PICK X : X = [at : T, buy : BOOLEAN]
  OBVIOUS
<1>2. PICK q : q = Among(s, X)
  OBVIOUS
<1>3. q \in Seq(S) /\ \A i \in DOMAIN q : q[i] \in X
  BY <1>2, AmongType
<1>4. \A i \in DOMAIN q : q[i].at \in T
  BY <1>1, <1>3
<1>5. q = Within(s, T)
  BY <1>1, <1>2 DEF Within
<1> QED BY <1>3, <1>4, <1>5

LEMMA WithinAppend ==
  ASSUME NEW s \in Seq(Deal), NEW x \in Deal, NEW T
  PROVE  /\ x.at \in T => Within(Append(s, x), T) = Append(Within(s, T), x)
         /\ x.at \notin T => Within(Append(s, x), T) = Within(s, T)
<1>1. PICK X : X = [at : T, buy : BOOLEAN]
  OBVIOUS
<1>2. /\ x \in X => Among(Append(s, x), X) = Append(Among(s, X), x)
      /\ x \notin X => Among(Append(s, x), X) = Among(s, X)
  BY AmongAppend
<1>3. x \in X <=> x.at \in T
  BY <1>1, TimesAre
<1> QED BY <1>1, <1>2, <1>3 DEF Within

LEMMA WithinAgain ==
  ASSUME NEW s \in Seq(Deal), NEW U, NEW T, T \subseteq U
  PROVE  Within(Within(s, U), T) = Within(s, T)
<1>1. [at : T, buy : BOOLEAN] \subseteq [at : U, buy : BOOLEAN]
  OBVIOUS
<1> QED BY <1>1, AmongAgain DEF Within

TokenRow == [created : 0..Present, trades : Seq(Deal)]
TokenRecord == [created : 0..Present, full : Seq(Deal), monitor : Seq(Deal)]
Candidate == [mint : Tokens, entry : Nat]
Position == [mint : Tokens, entry : Nat, exit : Nat, kind : {0, 1}, received : Nat]
RunResult == [trades : Nat, pnl : Int]
SweepState == [pc : {"start", "load", "run", "done", "raised"},
               subset : {"all", "train", "holdout"},
               split : {NoSplit} \cup 0..Present, parallel : BOOLEAN]
WorkerState == [pc : {"idle", "replay"}, candidates : SUBSET Candidate,
                heap : SUBSET Position, cash : Nat, closed : SUBSET Position]

(* What every variable holds; before the run starts nothing is loaded.       *)
SweepShape ==
  /\ market \in [Tokens -> TokenRow]
  /\ sweep \in SweepState
  /\ sweep.subset # "all" => sweep.split \in 0..Present
  /\ DOMAIN dataset \subseteq Tokens /\ \A m \in DOMAIN dataset : dataset[m] \in TokenRecord
  /\ unread \subseteq Tokens /\ combos \subseteq AllCombos
  /\ DOMAIN saved \subseteq AllCombos /\ \A c \in DOMAIN saved : saved[c] \in RunResult
  /\ ranked \subseteq DOMAIN saved
  /\ sweep.pc = "start" => /\ DOMAIN dataset = {} /\ DOMAIN saved = {}
                           /\ sweep.subset = "all"

(* A replay runs on a dataset that is complete and does not change.          *)
WorkerShape ==
  /\ worker \in WorkerState
  /\ worker.pc = "idle" => worker = NoWorker
  /\ worker.pc = "replay" => sweep.pc = "run"
  /\ worker.heap \subseteq worker.closed /\ IsFiniteSet(worker.closed)
  /\ \A c \in worker.candidates : c.mint \in DOMAIN dataset

NoneFrom(r, split) == \A i \in DOMAIN r.monitor : r.monitor[i].at < split

(* A training token was born so early that its window ends before the split.  *)
Blind ==
  sweep.subset = "train" => \A m \in DOMAIN dataset :
    /\ market[m].created + FullSec < sweep.split
    /\ NoneFrom(dataset[m], sweep.split)
    /\ dataset[m].full = Within(market[m].trades, 0..market[m].created + FullSec)

(* The positions that do not hold a slot any more held none when the next     *)
(* candidate is due.                                                         *)
GoneBy(x, now) == x.exit < now \/ (x.exit = now /\ x.kind = 0)
WorkerInv ==
  /\ Cardinality(worker.heap) <= MaxOpen
  /\ \A x \in worker.closed, d \in worker.candidates : x.entry <= d.entry
  /\ \A x \in worker.closed \ worker.heap, d \in worker.candidates : GoneBy(x, d.entry)
  /\ SlotsOverTime

Ranking ==
  /\ IsFiniteSet(ranked) /\ Cardinality(ranked) <= TopN
  /\ sweep.subset # "holdout" => combos \cap DOMAIN saved = {}
  /\ BestRanked

SweepInv == SweepShape /\ WorkerShape /\ Blind /\ WorkerInv /\ Ranking

LEMMA SplitInRange ==
  ASSUME market \in [Tokens -> TokenRow], Tokens # {}, NEW k \in Nat
  PROVE  SplitAt(k) \in 0..Present
<1> DEFINE Below(m) == {n \in Tokens : market[n].created < market[m].created}
           Made == {market[m].created : m \in Tokens}
           Early == {n \in Tokens : Cardinality(Below(n)) <= k}
           S == {market[m].created : m \in Early}
<1>1. \A m \in Tokens : market[m].created \in 0..Present
  BY DEF TokenRow
<1>2. PICK b \in Made : \A y \in Made : b <= y
  <2>1. Made \subseteq Nat /\ Made # {}
    BY <1>1
  <2> HIDE DEF Made
  <2> QED BY <2>1, LeastNat
<1>3. PICK m \in Tokens : b = market[m].created
  OBVIOUS
<1>4. Below(m) = {}
  <2>1. \A n \in Tokens : market[m].created <= market[n].created
    BY <1>2, <1>3
  <2> QED BY <1>1, <2>1
<1>5. m \in Early
  <2>1. Cardinality(Below(m)) = 0
    BY <1>4, FS_EmptySet
  <2> HIDE DEF Below
  <2> QED BY <2>1
<1>6. S # {} /\ S \subseteq 0..Present
  BY <1>1, <1>5
<1>7. SplitAt(k) = Max(S)
  BY DEF SplitAt
<1> HIDE DEF S
<1>8. Max(S) \in S
  <2>1. 0 \in Int /\ Present \in Int
    BY SweepAssumption
  <2> QED BY <1>6, <2>1, GreatestInt
<1> QED BY <1>6, <1>7, <1>8

LEMMA SweepStarts == SweepInit => SweepInv
<1> SUFFICES ASSUME SweepInit PROVE SweepInv
  OBVIOUS
<1>1. SweepShape
  <2>1. market \in [Tokens -> TokenRow]
    BY SweepAssumption DEF SweepInit, TokenRow, Deal
  <2>2. sweep \in SweepState /\ sweep.pc = "start" /\ sweep.subset = "all"
    BY DEF SweepInit, SweepState
  <2>3. DOMAIN dataset = {} /\ DOMAIN saved = {} /\ unread = {} /\ combos = {} /\ ranked = {}
    BY DEF SweepInit
  <2> QED BY <2>1, <2>2, <2>3 DEF SweepShape
<1>2. WorkerShape
  BY FS_EmptySet, PortfolioAssumption DEF SweepInit, WorkerShape, WorkerState, NoWorker
<1>3. Blind
  BY DEF SweepInit, Blind
<1>4. WorkerInv
  BY FS_EmptySet, PortfolioAssumption DEF SweepInit, WorkerInv, SlotsOverTime, NoWorker
<1>5. Ranking
  BY FS_EmptySet, SweepAssumption DEF SweepInit, Ranking, BestRanked
<1> QED BY <1>1, <1>2, <1>3, <1>4, <1>5 DEF SweepInv

(* SlotsOverTime and the ranking concern variables few actions change.       *)
LEMMA ReplayedKept == WorkerInv /\ UNCHANGED worker => WorkerInv'
BY DEF WorkerInv, SlotsOverTime

LEMMA RankedKept ==
  Ranking /\ UNCHANGED <<combos, saved, ranked>> /\ sweep'.subset = sweep.subset => Ranking'
BY DEF Ranking, BestRanked, Pnl

LEMMA SweepRuns == SweepInv /\ Run => SweepInv'
<1> SUFFICES ASSUME SweepInv, Run PROVE SweepInv'
  OBVIOUS
<1> USE DEF SweepInv
<1>1. PICK k \in 0..Cardinality(Tokens) - 1, split \in BOOLEAN :
        sweep' = [sweep EXCEPT !.pc = "load",
                    !.subset = IF split THEN "train" ELSE "all",
                    !.split = IF split THEN SplitAt(k) ELSE NoSplit]
  BY DEF Run
<1>2. /\ combos' \in Samples /\ unread' = Tokens /\ sweep.pc = "start"
      /\ UNCHANGED <<market, dataset, worker, saved, ranked>>
  BY DEF Run
<1>3. k \in Nat /\ Tokens # {}
  BY FS_CardinalityType, FS_EmptySet, SweepAssumption
<1>4. SplitAt(k) \in 0..Present
  BY <1>3, SplitInRange DEF SweepShape
<1>5. sweep' \in SweepState /\ sweep'.pc = "load"
      /\ (sweep'.subset # "all" => sweep'.split \in 0..Present)
  <2>1. CASE split
    <3>1. sweep' = [sweep EXCEPT !.pc = "load", !.subset = "train", !.split = SplitAt(k)]
      BY <1>1, <2>1
    <3> QED BY <1>4, <3>1 DEF SweepShape, SweepState
  <2>2. CASE ~split
    <3>1. sweep' = [sweep EXCEPT !.pc = "load", !.subset = "all", !.split = NoSplit]
      BY <1>1, <2>2
    <3> QED BY <3>1 DEF SweepShape, SweepState
  <2> QED BY <2>1, <2>2
<1>6. combos' \subseteq AllCombos
  BY <1>2 DEF Samples
<1>7. SweepShape'
  BY <1>2, <1>5, <1>6 DEF SweepShape, AllCombos, Canonical, Valid
<1>8. WorkerShape'
  BY <1>2 DEF WorkerShape, NoWorker
<1>9. Blind'
  BY <1>2 DEF Blind, SweepShape
<1>10. WorkerInv'
  BY <1>2, ReplayedKept
<1>11. Ranking'
  BY <1>2 DEF Ranking, BestRanked, SweepShape, Pnl
<1> QED BY <1>7, <1>8, <1>9, <1>10, <1>11

-----------------------------------------------------------------------------
LEMMA SeqNarrows ==
  ASSUME NEW S, NEW q \in Seq(S), NEW R, \A i \in DOMAIN q : q[i] \in R
  PROVE  q \in Seq(R)
<1>1. Len(q) \in Nat /\ DOMAIN q = 1..Len(q) /\ q = [i \in 1..Len(q) |-> q[i]]
  OBVIOUS
<1> QED BY <1>1

LEMMA KnownType ==
  ASSUME SweepShape, NEW m \in Tokens
  PROVE  /\ Known(m) \in Seq(Deal)
         /\ sweep.subset = "train" =>
              \A i \in DOMAIN Known(m) : Known(m)[i].at < sweep.split
<1>1. market[m].trades \in Seq(Deal)
  BY DEF SweepShape, TokenRow
<1>2. CASE sweep.subset = "train"
  <2>1. sweep.split \in Int
    BY <1>2, SweepAssumption DEF SweepShape
  <2>2. Known(m) = Within(market[m].trades, 0..sweep.split - 1)
    BY <1>2 DEF Known
  <2>3. /\ Known(m) \in Seq(Deal)
        /\ \A i \in DOMAIN Known(m) : Known(m)[i].at \in 0..sweep.split - 1
    BY <1>1, <2>2, WithinType
  <2> QED BY <2>1, <2>3
<1>3. CASE sweep.subset # "train"
  BY <1>1, <1>3 DEF Known
<1> QED BY <1>2, <1>3

LEMMA RecordType ==
  ASSUME SweepShape, NEW m \in Tokens
  PROVE  /\ RecordOf(m) \in TokenRecord
         /\ sweep.subset = "train" => NoneFrom(RecordOf(m), sweep.split)
<1> DEFINE end == market[m].created + FullSec
           Early == {d \in Deal : sweep.subset = "train" => d.at < sweep.split}
           full == Within(Known(m), 0..end)
           monitor == Within(Known(m), end + 1..Present)
<1>1. RecordOf(m) = [created |-> market[m].created, full |-> full, monitor |-> monitor]
  BY DEF RecordOf
<1>2. market[m].created \in 0..Present
  BY DEF SweepShape, TokenRow
<1>3. full \in Seq(Deal)
  BY KnownType, WithinType
<1>4. Known(m) \in Seq(Early)
  <2>1. Known(m) \in Seq(Deal) /\ \A i \in DOMAIN Known(m) : Known(m)[i] \in Deal
    BY KnownType
  <2>2. \A i \in DOMAIN Known(m) : Known(m)[i] \in Early
    BY <2>1, KnownType
  <2> HIDE DEF Early
  <2> QED BY <2>1, <2>2, SeqNarrows
<1>5. monitor \in Seq(Early)
  BY <1>4, WithinType
<1> HIDE DEF full, monitor
<1>6. \A i \in DOMAIN monitor : monitor[i] \in Early
  BY <1>5
<1>7. monitor \in Seq(Deal)
  BY <1>5, <1>6, SeqNarrows
<1>8. RecordOf(m) \in TokenRecord
  BY <1>1, <1>2, <1>3, <1>7 DEF TokenRecord
<1>9. sweep.subset = "train" => NoneFrom(RecordOf(m), sweep.split)
  BY <1>1, <1>6 DEF NoneFrom
<1> QED BY <1>8, <1>9

(* A training token is admitted with its whole window.                       *)
LEMMA AdmittedWhole ==
  ASSUME SweepShape, NEW m \in Tokens, sweep.subset = "train", Admitted(m)
  PROVE  /\ market[m].created + FullSec < sweep.split
         /\ RecordOf(m).full = Within(market[m].trades, 0..market[m].created + FullSec)
<1> DEFINE end == market[m].created + FullSec
<1>1. end < sweep.split
  BY DEF Admitted
<1>2. /\ market[m].created \in Nat /\ end \in Nat /\ sweep.split \in Int
      /\ market[m].trades \in Seq(Deal)
  BY SweepAssumption DEF SweepShape, TokenRow
<1>3. 0..end \subseteq 0..sweep.split - 1
  BY <1>1, <1>2
<1>4. RecordOf(m).full = Within(Within(market[m].trades, 0..sweep.split - 1), 0..end)
  BY DEF RecordOf, Known
<1> HIDE DEF end
<1>5. Within(Within(market[m].trades, 0..sweep.split - 1), 0..end)
        = Within(market[m].trades, 0..end)
  BY <1>2, <1>3, WithinAgain
<1> QED BY <1>1, <1>4, <1>5 DEF end

LEMMA SweepLoads == SweepInv /\ LoadToken => SweepInv'
<1> SUFFICES ASSUME SweepInv, LoadToken PROVE SweepInv'
  OBVIOUS
<1> USE DEF SweepInv
<1>1. PICK m \in unread :
        /\ unread' = unread \ {m}
        /\ dataset' = IF Admitted(m) /\ Known(m) # <<>>
                      THEN [x \in DOMAIN dataset \cup {m} |->
                              IF x = m THEN RecordOf(m) ELSE dataset[x]]
                      ELSE dataset
  BY DEF LoadToken
<1>2. sweep.pc = "load" /\ UNCHANGED <<market, sweep, combos, worker, saved, ranked>>
  BY DEF LoadToken
<1>3. m \in Tokens
  BY DEF SweepShape
<1>4. \A x \in DOMAIN dataset' :
        \/ x \in DOMAIN dataset /\ dataset'[x] = dataset[x]
        \/ x = m /\ Admitted(m) /\ dataset'[x] = RecordOf(m)
  BY <1>1
<1>5. SweepShape'
  <2>1. RecordOf(m) \in TokenRecord
    BY <1>3, RecordType
  <2>2. \A x \in DOMAIN dataset' : x \in Tokens /\ dataset'[x] \in TokenRecord
    BY <1>3, <1>4, <2>1 DEF SweepShape
  <2> QED BY <1>1, <1>2, <2>2 DEF SweepShape, AllCombos, Canonical, Valid
<1>6. WorkerShape'
  <2>1. worker.pc = "idle"
    BY <1>2 DEF WorkerShape, WorkerState
  <2>2. worker = NoWorker /\ worker.candidates = {}
    BY <2>1 DEF WorkerShape, NoWorker
  <2> QED BY <1>2, <2>2 DEF WorkerShape
<1>7. Blind'
  <2> SUFFICES ASSUME sweep.subset = "train", NEW x \in DOMAIN dataset'
               PROVE  /\ market[x].created + FullSec < sweep.split
                      /\ NoneFrom(dataset'[x], sweep.split)
                      /\ dataset'[x].full
                           = Within(market[x].trades, 0..market[x].created + FullSec)
    BY <1>2 DEF Blind, NoneFrom
  <2>1. CASE x \in DOMAIN dataset /\ dataset'[x] = dataset[x]
    BY <2>1 DEF Blind
  <2>2. CASE x = m /\ Admitted(m) /\ dataset'[x] = RecordOf(m)
    BY <1>3, <2>2, AdmittedWhole, RecordType
  <2> QED BY <1>4, <2>1, <2>2
<1>8. WorkerInv'
  BY <1>2, ReplayedKept
<1>9. Ranking'
  BY <1>2, RankedKept
<1> QED BY <1>5, <1>6, <1>7, <1>8, <1>9

LEMMA SweepEndsLoad == SweepInv /\ EndLoad => SweepInv'
<1> SUFFICES ASSUME SweepInv, EndLoad PROVE SweepInv'
  OBVIOUS
<1> USE DEF SweepInv
<1>1. PICK pc \in {"run", "done"} : sweep' = [sweep EXCEPT !.pc = pc]
  BY DEF EndLoad
<1>2. sweep.pc = "load" /\ UNCHANGED <<market, dataset, unread, combos, worker, saved, ranked>>
  BY DEF EndLoad
<1>3. /\ sweep' \in SweepState /\ sweep'.pc # "start"
      /\ sweep'.subset = sweep.subset /\ sweep'.split = sweep.split
  BY <1>1 DEF SweepShape, SweepState
<1>4. SweepShape'
  BY <1>2, <1>3 DEF SweepShape, AllCombos, Canonical, Valid
<1>5. WorkerShape'
  BY <1>2 DEF WorkerShape, NoWorker
<1>6. Blind'
  BY <1>2, <1>3 DEF Blind, NoneFrom
<1> QED BY <1>2, <1>3, <1>4, <1>5, <1>6, ReplayedKept, RankedKept

LEMMA SweepWrites == SweepInv /\ BotWrites => SweepInv'
<1> SUFFICES ASSUME SweepInv, BotWrites PROVE SweepInv'
  OBVIOUS
<1> USE DEF SweepInv
<1> DEFINE new == [at |-> Present, buy |-> TRUE]
<1>1. PICK m \in Tokens : market' = [market EXCEPT ![m].trades = Append(@, new)]
  BY DEF BotWrites
<1>2. UNCHANGED <<sweep, dataset, unread, combos, worker, saved, ranked>>
  BY DEF BotWrites
<1>3. new \in Deal /\ new.at = Present
  BY SweepAssumption DEF Deal
<1> HIDE DEF new
<1>4. \A x \in Tokens : market[x] \in TokenRow /\ market[x].trades \in Seq(Deal)
  BY DEF SweepShape, TokenRow
<1>5. Append(market[m].trades, new) \in Seq(Deal)
  BY <1>3, <1>4
<1>6. /\ market' = [x \in Tokens |-> market'[x]]
      /\ \A x \in Tokens : x # m => market'[x] = market[x]
      /\ market'[m] = [market[m] EXCEPT !.trades = Append(@, new)]
  BY <1>1 DEF SweepShape
<1>7. market'[m] \in TokenRow /\ market'[m].created = market[m].created
      /\ market'[m].trades = Append(market[m].trades, new)
  BY <1>4, <1>5, <1>6 DEF TokenRow
<1>8. market' \in [Tokens -> TokenRow]
  BY <1>4, <1>6, <1>7
<1>9. SweepShape'
  BY <1>2, <1>8 DEF SweepShape, AllCombos, Canonical, Valid
<1>10. WorkerShape'
  BY <1>2 DEF WorkerShape, NoWorker
<1>11. Blind'
  <2> SUFFICES ASSUME sweep.subset = "train", NEW x \in DOMAIN dataset
               PROVE  /\ market'[x].created = market[x].created
                      /\ Within(market'[x].trades, 0..market[x].created + FullSec)
                           = Within(market[x].trades, 0..market[x].created + FullSec)
    BY <1>2 DEF Blind, NoneFrom
  <2>1. x \in Tokens
    BY DEF SweepShape
  <2>2. market[x].created + FullSec < Present
    BY <1>4, <2>1, SweepAssumption DEF Blind, SweepShape, TokenRow
  <2>3. Present \notin 0..market[x].created + FullSec
    BY <1>4, <2>1, <2>2, SweepAssumption DEF TokenRow
  <2>4. Within(Append(market[x].trades, new), 0..market[x].created + FullSec)
          = Within(market[x].trades, 0..market[x].created + FullSec)
    BY <1>3, <1>4, <2>1, <2>3, WithinAppend
  <2> QED BY <1>6, <1>7, <2>1, <2>4
<1> QED BY <1>2, <1>9, <1>10, <1>11, ReplayedKept, RankedKept

-----------------------------------------------------------------------------
LEMMA EntryTimeType ==
  ASSUME NEW r \in TokenRecord
  PROVE  EntryTime(r) \in Nat
<1>1. r.created \in Nat /\ FullSec \in Nat /\ r.full \in Seq(Deal)
  BY SweepAssumption DEF TokenRecord
<1>2. CASE r.full = <<>>
  BY <1>1, <1>2 DEF EntryTime
<1>3. CASE r.full # <<>>
  <2>1. Last(r.full) \in Deal
    BY <1>1, <1>3 DEF Last
  <2>2. Last(r.full).at \in Nat
    BY <2>1, SweepAssumption DEF Deal
  <2> QED BY <1>3, <2>2 DEF EntryTime
<1> QED BY <1>2, <1>3

(* A position ends at a trade of its token, or a silence after one.          *)
LEMMA ExitsType ==
  ASSUME NEW c, c.entry \in Nat, dataset[c.mint] \in TokenRecord, NEW e \in Exits(c)
  PROVE  e.exit \in Nat /\ e.kind \in {0, 1}
<1> DEFINE m == dataset[c.mint].monitor
           before(i) == IF i = 1 THEN c.entry ELSE m[i - 1].at
           gaps == {i \in DOMAIN m : Silence > 0 /\ m[i].at - before(i) > Silence}
           heard == IF gaps = {} THEN Len(m) ELSE Min(gaps) - 1
           last == before(heard + 1)
<1>1. Exits(c) = [exit : {m[i].at : i \in 1..heard}, kind : {0, 1}]
                   \cup {[exit |-> last + Silence, kind |-> 0]}
  BY DEF Exits
<1>2. m \in Seq(Deal) /\ Len(m) \in Nat /\ DOMAIN m = 1..Len(m)
  BY DEF TokenRecord
<1>3. \A i \in 1..Len(m) : m[i].at \in Nat
  <2> HIDE DEF m
  <2> TAKE i \in 1..Len(m)
  <2>1. m[i] \in Deal
    BY <1>2
  <2> QED BY <2>1, SweepAssumption DEF Deal
<1>4. gaps \subseteq 1..Len(m)
  BY <1>2
<1> HIDE DEF m, gaps
<1>5. heard \in 0..Len(m)
  <2>1. CASE gaps = {}
    BY <1>2, <2>1
  <2>2. CASE gaps # {}
    <3>1. gaps \subseteq Nat
      BY <1>4
    <3>2. Min(gaps) \in gaps
      BY <2>2, <3>1, LeastInt
    <3>3. heard = Min(gaps) - 1
      BY <2>2
    <3>4. Min(gaps) \in 1..Len(m)
      BY <1>4, <3>2
    <3> HIDE DEF heard
    <3> QED BY <1>2, <3>3, <3>4
  <2> QED BY <2>1, <2>2
<1> HIDE DEF heard
<1>6. last \in Nat
  BY <1>2, <1>3, <1>5
<1>7. \A i \in 1..heard : m[i].at \in Nat
  BY <1>2, <1>3, <1>5
<1> HIDE DEF last
<1> QED BY <1>1, <1>6, <1>7, SweepAssumption

LEMMA SweepStartsCombo == SweepInv /\ StartCombo => SweepInv'
<1> SUFFICES ASSUME SweepInv, StartCombo PROVE SweepInv'
  OBVIOUS
<1> USE DEF SweepInv
<1>1. PICK wanted \in SUBSET {m \in DOMAIN dataset : Priced(dataset[m])} :
        worker' = [pc |-> "replay", heap |-> {}, cash |-> StartCash,
                   closed |-> {}, candidates |->
                     {[mint |-> m, entry |-> EntryTime(dataset[m])] : m \in wanted}]
  BY DEF StartCombo
<1>2. sweep.pc = "run" /\ UNCHANGED <<market, sweep, dataset, unread, combos, saved, ranked>>
  BY DEF StartCombo
<1>3. \A m \in wanted : m \in DOMAIN dataset /\ m \in Tokens /\ EntryTime(dataset[m]) \in Nat
  BY EntryTimeType DEF SweepShape
<1>4. worker'.candidates \subseteq Candidate /\ \A c \in worker'.candidates : c.mint \in DOMAIN dataset
  BY <1>1, <1>3 DEF Candidate
<1>5. SweepShape'
  BY <1>2 DEF SweepShape, AllCombos, Canonical, Valid
<1>6. /\ worker'.pc = "replay" /\ worker'.heap = {} /\ worker'.closed = {}
      /\ worker'.cash \in Nat
      /\ worker' = [pc |-> worker'.pc, candidates |-> worker'.candidates,
                    heap |-> worker'.heap, cash |-> worker'.cash, closed |-> worker'.closed]
  BY <1>1, PortfolioAssumption
<1>7. worker' \in WorkerState
  BY <1>4, <1>6 DEF WorkerState
<1>8. WorkerShape'
  BY <1>2, <1>4, <1>6, <1>7, FS_EmptySet DEF WorkerShape
<1>9. WorkerInv'
  BY <1>6, FS_EmptySet, PortfolioAssumption DEF WorkerInv, SlotsOverTime
<1>10. Blind'
  BY <1>2 DEF Blind, NoneFrom
<1> QED BY <1>2, <1>5, <1>8, <1>9, <1>10, RankedKept

(* What is left when the slots free at the next candidate have come back.    *)
LEMMA FreedLeaves ==
  ASSUME SweepInv, worker.pc = "replay", NEW c \in worker.candidates,
         \A d \in worker.candidates : c.entry <= d.entry,
         NEW heap, heap = worker.heap \ Freed(worker.heap, c.entry)
  PROVE  /\ heap \subseteq worker.closed /\ heap \subseteq worker.heap
         /\ IsFiniteSet(heap) /\ Cardinality(heap) \in 0..MaxOpen
         /\ \A x \in worker.closed \ heap : GoneBy(x, c.entry)
         /\ \A x \in worker.closed \ heap, d \in worker.candidates : GoneBy(x, d.entry)
<1> USE DEF SweepInv
<1>1. heap \subseteq worker.heap /\ worker.heap \subseteq worker.closed
  BY DEF WorkerShape
<1>2. IsFiniteSet(worker.heap) /\ IsFiniteSet(heap)
  BY <1>1, FS_Subset DEF WorkerShape
<1>3. Cardinality(heap) \in Nat /\ Cardinality(worker.heap) \in Nat
      /\ Cardinality(heap) <= Cardinality(worker.heap)
  BY <1>1, <1>2, FS_Subset, FS_CardinalityType
<1>4. Cardinality(heap) \in 0..MaxOpen
  BY <1>3, PortfolioAssumption DEF WorkerInv
<1>5. /\ \A x \in worker.closed : x.exit \in Nat /\ x.entry \in Nat
      /\ \A d \in worker.candidates : d.entry \in Nat
  BY DEF WorkerShape, WorkerState, Position, Candidate
<1>6. \A x \in worker.closed \ heap : GoneBy(x, c.entry)
  BY DEF Freed, GoneBy, WorkerInv
<1>7. \A x \in worker.closed \ heap, d \in worker.candidates : GoneBy(x, d.entry)
  <2> TAKE x \in worker.closed \ heap, d \in worker.candidates
  <2>1. c.entry <= d.entry /\ c.entry \in Nat /\ d.entry \in Nat /\ x.exit \in Nat
    BY <1>5
  <2>2. x.exit < c.entry \/ (x.exit = c.entry /\ x.kind = 0)
    BY <1>6 DEF GoneBy
  <2> QED BY <2>1, <2>2 DEF GoneBy
<1> QED BY <1>1, <1>2, <1>4, <1>6, <1>7

(* A candidate that finds a slot is entered at the head of the replay: the     *)
(* positions that overlap at its entry are those left on the heap and its own. *)
LEMMA SweepEnters ==
  ASSUME SweepInv, worker.pc = "replay", NEW c \in worker.candidates,
         \A d \in worker.candidates : c.entry <= d.entry,
         NEW heap, heap = worker.heap \ Freed(worker.heap, c.entry),
         NEW new, new \subseteq Position, IsFiniteSet(new),
         new = {} \/ \E t : new = {t} /\ t.entry = c.entry /\ Cardinality(heap) < MaxOpen,
         worker' \in WorkerState, worker'.pc = "replay",
         worker'.candidates = worker.candidates \ {c}, worker'.heap = heap \cup new,
         worker'.closed = worker.closed \cup new,
         UNCHANGED <<market, sweep, dataset, unread, combos, saved, ranked>>
  PROVE  SweepInv'
<1> USE DEF SweepInv
<1>1. /\ heap \subseteq worker.closed /\ heap \subseteq worker.heap
      /\ IsFiniteSet(heap) /\ Cardinality(heap) \in 0..MaxOpen
      /\ \A x \in worker.closed \ heap : GoneBy(x, c.entry)
      /\ \A x \in worker.closed \ heap, d \in worker.candidates : GoneBy(x, d.entry)
  BY FreedLeaves
<1>2. /\ worker'.candidates = worker.candidates \ {c} /\ worker'.heap = heap \cup new
      /\ worker'.closed = worker.closed \cup new /\ worker'.pc = "replay"
  OBVIOUS
<1>3. SweepShape'
  BY DEF SweepShape, AllCombos, Canonical, Valid
<1>4. /\ worker.closed \subseteq Position /\ worker.candidates \subseteq Candidate
      /\ IsFiniteSet(worker.closed) /\ sweep.pc = "run"
  BY DEF WorkerShape, WorkerState
<1>5. WorkerShape'
  <2>2. IsFiniteSet(worker.closed \cup new)
    BY <1>4, FS_Union
  <2> QED BY <1>1, <1>2, <1>4, <2>2 DEF WorkerShape
<1>6. Blind'
  BY DEF Blind, NoneFrom
<1>7. Ranking'
  BY RankedKept
<1>8. IsFiniteSet(heap \cup new) /\ Cardinality(heap \cup new) <= MaxOpen
  <2>1. CASE new = {}
    BY <1>1, <2>1, PortfolioAssumption
  <2>2. CASE new # {}
    <3>1. PICK t : new = {t} /\ Cardinality(heap) < MaxOpen
      BY <2>2
    <3>2. /\ IsFiniteSet(heap \cup {t})
          /\ Cardinality(heap \cup {t}) = IF t \in heap THEN Cardinality(heap)
                                            ELSE Cardinality(heap) + 1
      BY <1>1, FS_AddElement
    <3> QED BY <1>1, <3>1, <3>2, PortfolioAssumption
  <2> QED BY <2>1, <2>2
<1>9. \A x \in new : x.entry = c.entry
  OBVIOUS
<1>10. /\ \A d \in worker.candidates : d.entry \in Nat
       /\ \A x \in worker.closed \cup new :
            x.entry \in Nat /\ x.exit \in Nat /\ x.kind \in {0, 1}
  BY <1>4 DEF Position, Candidate
<1>11. \A x \in worker.closed : x.entry <= c.entry
  BY DEF WorkerInv
<1>12. \A x \in worker.closed \cup new, d \in worker.candidates \ {c} : x.entry <= d.entry
  BY <1>9 DEF WorkerInv
<1>13. \A x \in (worker.closed \cup new) \ (heap \cup new), d \in worker.candidates \ {c} :
         GoneBy(x, d.entry)
  BY <1>1
<1>14. SlotsOverTime'
  <2> DEFINE StillOpen(S, t) == {x \in S : x.entry <= t /\ (t < x.exit \/ (t = x.exit /\ x.kind = 1))}
  <2> SUFFICES ASSUME NEW y \in worker.closed \cup new
               PROVE  Cardinality(StillOpen(worker.closed \cup new, y.entry)) <= MaxOpen
    BY <1>2 DEF SlotsOverTime
  <2>1. CASE y.entry = c.entry
    <3>1. StillOpen(worker.closed \cup new, y.entry) \subseteq heap \cup new
      BY <1>1, <1>10, <2>1 DEF GoneBy
    <3> HIDE DEF StillOpen
    <3>2. /\ Cardinality(StillOpen(worker.closed \cup new, y.entry)) <= Cardinality(heap \cup new)
          /\ IsFiniteSet(StillOpen(worker.closed \cup new, y.entry))
      BY <1>8, <3>1, FS_Subset
    <3>3. /\ Cardinality(StillOpen(worker.closed \cup new, y.entry)) \in Nat
          /\ Cardinality(heap \cup new) \in Nat
      BY <1>8, <3>2, FS_CardinalityType
    <3> QED BY <1>8, <3>2, <3>3, PortfolioAssumption
  <2>2. CASE y.entry # c.entry
    <3>1. y \in worker.closed
      BY <1>9, <2>2
    <3>2. y.entry < c.entry /\ y.entry \in Nat
      BY <1>10, <1>11, <2>2, <3>1
    <3>3. StillOpen(worker.closed \cup new, y.entry) = StillOpen(worker.closed, y.entry)
      BY <1>9, <1>10, <3>2
    <3>4. Cardinality(StillOpen(worker.closed, y.entry)) <= MaxOpen
      <4>1. SlotsOverTime
        BY DEF WorkerInv
      <4>2. y.entry \in {x.entry : x \in worker.closed}
        BY <3>1
      <4> QED BY ONLY <4>1, <4>2 DEF SlotsOverTime, StillOpen
    <3> QED BY <3>3, <3>4
  <2> QED BY <2>1, <2>2
<1>15. WorkerInv'
  BY <1>2, <1>8, <1>12, <1>13, <1>14 DEF WorkerInv, GoneBy
<1> QED BY <1>3, <1>5, <1>6, <1>7, <1>15

LEMMA SweepTakes == SweepInv /\ TakeCandidate => SweepInv'
<1> SUFFICES ASSUME SweepInv, TakeCandidate PROVE SweepInv'
  OBVIOUS
<1> DEFINE freed(c) == Freed(worker.heap, c.entry)
           left(c) == worker.heap \ freed(c)
           cash(c) == worker.cash + Received(freed(c))
           rest(c) == [worker EXCEPT !.candidates = @ \ {c}, !.heap = left(c), !.cash = cash(c)]
<1>1. worker.pc = "replay" /\ UNCHANGED <<market, sweep, dataset, unread, combos, saved, ranked>>
  BY DEF TakeCandidate
<1>2. PICK c \in worker.candidates :
        /\ \A d \in worker.candidates : c.entry <= d.entry
        /\ IF ~CanTake(left(c), cash(c)) THEN worker' = rest(c)
           ELSE \E e \in Exits(c), received \in Proceeds :
                  worker' = [rest(c) EXCEPT !.cash = @ - BuyAmount,
                               !.heap = @ \cup {MakeTradeResult(c, e, received)},
                               !.closed = @ \cup {MakeTradeResult(c, e, received)}]
  BY DEF TakeCandidate
<1>3. /\ worker \in WorkerState /\ IsFiniteSet(worker.heap) /\ worker.heap \subseteq Position
      /\ c.mint \in DOMAIN dataset /\ c \in Candidate /\ dataset[c.mint] \in TokenRecord
  BY <1>1, FS_Subset DEF SweepInv, SweepShape, WorkerShape, WorkerState
<1>4. cash(c) \in Nat
  <2>1. IsFiniteSet(freed(c)) /\ \A x \in freed(c) : x.received \in Nat
    BY <1>3, FS_Subset DEF Freed, Position
  <2>2. Received(freed(c)) \in Nat
    <3> HIDE DEF freed
    <3> QED BY <2>1, ReceivedType
  <2> QED BY <1>3, <2>2 DEF WorkerState
<1>5. left(c) = worker.heap \ Freed(worker.heap, c.entry)
  OBVIOUS
<1> HIDE DEF freed, left, cash
<1>6. /\ rest(c) \in WorkerState /\ rest(c).pc = "replay"
      /\ rest(c).candidates = worker.candidates \ {c} /\ rest(c).heap = left(c)
      /\ rest(c).cash = cash(c) /\ rest(c).closed = worker.closed
  <2>1. left(c) \subseteq Position
    BY <1>3, <1>5
  <2> QED BY <1>1, <1>3, <1>4, <2>1 DEF WorkerState, rest
<1> HIDE DEF rest
<1>7. CASE ~CanTake(left(c), cash(c))
  <2>1. worker' = rest(c)
    BY <1>2, <1>7
  <2>2. worker'.heap = left(c) \cup {} /\ worker'.closed = worker.closed \cup {}
    BY <1>6, <2>1
  <2>3. IsFiniteSet({}) /\ {} \subseteq Position
    BY FS_EmptySet
  <2> QED BY <1>1, <1>2, <1>5, <1>6, <2>1, <2>2, <2>3, SweepEnters
<1>8. CASE CanTake(left(c), cash(c))
  <2>1. PICK e \in Exits(c), received \in Proceeds :
          worker' = [rest(c) EXCEPT !.cash = @ - BuyAmount,
                       !.heap = @ \cup {MakeTradeResult(c, e, received)},
                       !.closed = @ \cup {MakeTradeResult(c, e, received)}]
    BY <1>2, <1>8
  <2>2. e.exit \in Nat /\ e.kind \in {0, 1}
    BY <1>3, ExitsType DEF Candidate
  <2>3. PICK t : t = MakeTradeResult(c, e, received)
    OBVIOUS
  <2>4. t \in Position /\ t.entry = c.entry
    BY <1>3, <2>2, <2>3, SweepAssumption DEF MakeTradeResult, Candidate, Position
  <2>5. Cardinality(left(c)) < MaxOpen /\ cash(c) >= BuyAmount
    BY <1>8 DEF CanTake
  <2>6. cash(c) - BuyAmount \in Nat
    BY <1>4, <2>5, PortfolioAssumption
  <2>7. worker' = [rest(c) EXCEPT !.cash = @ - BuyAmount, !.heap = @ \cup {t},
                                  !.closed = @ \cup {t}]
    BY <2>1, <2>3
  <2>8. /\ worker' \in WorkerState /\ worker'.pc = "replay"
        /\ worker'.candidates = worker.candidates \ {c} /\ worker'.heap = left(c) \cup {t}
        /\ worker'.closed = worker.closed \cup {t}
    BY <1>6, <2>4, <2>6, <2>7 DEF WorkerState
  <2>9. IsFiniteSet({t}) /\ {t} \subseteq Position
    BY <2>4, FS_Singleton
  <2>10. \E x : {t} = {x} /\ x.entry = c.entry /\ Cardinality(left(c)) < MaxOpen
    BY <2>4, <2>5
  <2> QED BY <1>1, <1>2, <1>5, <2>8, <2>9, <2>10, SweepEnters
<1> QED BY <1>7, <1>8

-----------------------------------------------------------------------------
(* A heap that is full holds TopN combinations, each at least as good as any  *)
(* that was ranked out, and stays so when a better one takes a worst place.  *)
LEMMA SweepConsumes == SweepInv /\ Consume => SweepInv'
<1> SUFFICES ASSUME SweepInv, Consume PROVE SweepInv'
  OBVIOUS
<1> USE DEF SweepInv
<1>1. PICK c \in combos :
       /\ combos' = combos \ {c}
       /\ IF sweep.subset = "holdout" THEN UNCHANGED <<saved, ranked>>
          ELSE LET runs == [x \in DOMAIN saved \cup {c} |->
                              IF x = c THEN BuildResult(worker.closed) ELSE saved[x]]
               IN /\ saved' = runs
                  /\ ranked' \in IF runs[c].trades >= MinForRank
                                 THEN Push(ranked, c, runs) ELSE {ranked}
  BY DEF Consume
<1>2. worker.pc = "replay" /\ worker' = NoWorker /\ UNCHANGED <<market, sweep, dataset, unread>>
  BY DEF Consume
<1>3. WorkerShape'
  BY <1>2, FS_EmptySet, PortfolioAssumption DEF WorkerShape, NoWorker, WorkerState
<1>4. Blind'
  BY <1>2 DEF Blind, NoneFrom
<1>5. WorkerInv'
  BY <1>2, FS_EmptySet, PortfolioAssumption DEF WorkerInv, SlotsOverTime, NoWorker
<1>6. c \in AllCombos /\ combos' \subseteq AllCombos /\ sweep.pc = "run"
  BY <1>1, <1>2 DEF SweepShape, WorkerShape
<1>7. AllCombos' = AllCombos
  BY DEF AllCombos, Canonical, Valid
<1>8. CASE sweep.subset = "holdout"
  <2>1. UNCHANGED <<saved, ranked>>
    BY <1>1, <1>8
  <2>2. SweepShape'
    BY <1>2, <1>6, <1>7, <2>1 DEF SweepShape
  <2>3. Ranking'
    BY <1>2, <1>8, <2>1 DEF Ranking, BestRanked, Pnl
  <2> QED BY <1>3, <1>4, <1>5, <2>2, <2>3
<1>9. CASE sweep.subset # "holdout"
  <2> DEFINE new == BuildResult(worker.closed)
             runs == [x \in DOMAIN saved \cup {c} |-> IF x = c THEN new ELSE saved[x]]
  <2>1. saved' = runs /\ ranked' \in IF new.trades >= MinForRank
                                     THEN Push(ranked, c, runs) ELSE {ranked}
    BY <1>1, <1>9
  <2>2. c \notin DOMAIN saved
    BY <1>9 DEF Ranking
  <2>3. new \in RunResult
    <3>1. IsFiniteSet(worker.closed) /\ \A x \in worker.closed : x.received \in Nat
      BY DEF WorkerShape, WorkerState, Position
    <3>2. Received(worker.closed) \in Nat
      BY <3>1, ReceivedType
    <3>3. Cardinality(worker.closed) \in Nat
      BY <3>1, FS_CardinalityType
    <3>4. BuyAmount * Cardinality(worker.closed) \in Int
      BY <3>3, PortfolioAssumption
    <3> QED BY <3>2, <3>3, <3>4 DEF BuildResult, RunResult
  <2> HIDE DEF new
  <2>4. /\ DOMAIN saved' = DOMAIN saved \cup {c} /\ saved'[c] = new
        /\ \A x \in DOMAIN saved : saved'[x] = saved[x]
        /\ runs = saved'
    BY <2>1, <2>2
  <2>5. \A x \in DOMAIN saved' : saved'[x].trades \in Nat /\ saved'[x].pnl \in Int
    BY <2>3, <2>4 DEF SweepShape, RunResult
  <2>6. ranked' \in IF new.trades >= MinForRank THEN Push(ranked, c, saved') ELSE {ranked}
    BY <2>1, <2>4
  <2> HIDE DEF runs
  <2>7. ranked \subseteq DOMAIN saved /\ c \notin ranked
    BY <2>2 DEF SweepShape
  <2>8. IsFiniteSet(ranked) /\ Cardinality(ranked) \in Nat /\ Cardinality(ranked) <= TopN
    BY FS_CardinalityType DEF Ranking
  <2>9. /\ \A x \in ranked : saved'[x].trades >= MinForRank
        /\ \A x \in DOMAIN saved \ ranked : saved'[x].trades >= MinForRank =>
             /\ Cardinality(ranked) = TopN
             /\ \A r \in ranked : saved'[x].pnl <= saved'[r].pnl
    BY <2>4, <2>7 DEF Ranking, BestRanked, Pnl
  <2> DEFINE Kept(R) == /\ R \subseteq DOMAIN saved' /\ IsFiniteSet(R) /\ Cardinality(R) <= TopN
                        /\ \A x \in R : saved'[x].trades >= MinForRank
                        /\ \A x \in DOMAIN saved' \ R : saved'[x].trades >= MinForRank =>
                             /\ Cardinality(R) = TopN
                             /\ \A r \in R : saved'[x].pnl <= saved'[r].pnl
  <2>10. Kept(ranked')
    <3>1. CASE ~(new.trades >= MinForRank)
      <4>1. ranked' = ranked
        BY <2>6, <3>1
      <4> QED BY <2>4, <2>7, <2>8, <2>9, <3>1, <4>1
    <3>2. CASE new.trades >= MinForRank /\ Cardinality(ranked) < TopN
      <4>1. ranked' = ranked \cup {c}
        BY <2>6, <3>2 DEF Push
      <4>2. IsFiniteSet(ranked') /\ Cardinality(ranked') = Cardinality(ranked) + 1
        BY <2>7, <2>8, <4>1, FS_AddElement
      <4>3. \A x \in DOMAIN saved' \ ranked' : x \in DOMAIN saved \ ranked
        BY <2>4, <4>1
      <4>4. \A x \in DOMAIN saved' \ ranked' : ~(saved'[x].trades >= MinForRank)
        BY <2>8, <2>9, <3>2, <4>3, SweepAssumption
      <4> QED BY <2>4, <2>7, <2>8, <2>9, <3>2, <4>1, <4>2, <4>4, SweepAssumption
    <3>3. CASE new.trades >= MinForRank /\ ~(Cardinality(ranked) < TopN)
      <4>1. Cardinality(ranked) = TopN
        BY <2>8, <3>3, SweepAssumption
      <4>2. PICK w \in ranked :
              /\ \A h \in ranked : Pnl(w, saved') <= Pnl(h, saved')
              /\ ranked' = IF Pnl(c, saved') > Pnl(w, saved')
                           THEN (ranked \ {w}) \cup {c} ELSE ranked
        BY <2>6, <3>3 DEF Push
      <4>3. w \in DOMAIN saved' /\ saved'[w].pnl \in Int /\ saved'[c].pnl \in Int
            /\ \A h \in ranked : saved'[h].pnl \in Int /\ saved'[w].pnl <= saved'[h].pnl
        BY <2>4, <2>5, <2>7, <4>2 DEF Pnl
      <4>4. CASE saved'[c].pnl > saved'[w].pnl
        <5>1. ranked' = (ranked \ {w}) \cup {c}
          BY <4>2, <4>4 DEF Pnl
        <5>2. IsFiniteSet(ranked \ {w}) /\ Cardinality(ranked \ {w}) = TopN - 1
          BY <2>8, <4>1, FS_RemoveElement
        <5>3. IsFiniteSet(ranked') /\ Cardinality(ranked') = TopN
          <6>1. c \notin ranked \ {w}
            BY <2>7
          <6>2. /\ IsFiniteSet((ranked \ {w}) \cup {c})
                /\ Cardinality((ranked \ {w}) \cup {c}) = Cardinality(ranked \ {w}) + 1
            BY <5>2, <6>1, FS_AddElement
          <6> QED BY <5>1, <5>2, <6>2, SweepAssumption
        <5>4. ASSUME NEW x \in DOMAIN saved' \ ranked', saved'[x].trades >= MinForRank,
                     NEW r \in ranked'
              PROVE  saved'[x].pnl <= saved'[r].pnl
          <6>1. x # c /\ x \in DOMAIN saved /\ saved'[x].pnl \in Int
            BY <2>4, <2>5, <5>1, <5>4
          <6>2. saved'[x].pnl <= saved'[w].pnl
            <7>1. CASE x = w
              BY <4>3, <7>1
            <7>2. CASE x # w
              BY <2>9, <5>1, <5>4, <6>1, <7>2
            <7> QED BY <7>1, <7>2
          <6>3. saved'[r].pnl \in Int /\ saved'[w].pnl <= saved'[r].pnl
            BY <4>3, <4>4, <5>1, <5>4
          <6> QED BY <4>3, <6>1, <6>2, <6>3
        <5>5. ranked' \subseteq DOMAIN saved'
          BY <2>4, <2>7, <5>1
        <5>6. \A x \in ranked' : saved'[x].trades >= MinForRank
          BY <2>4, <2>9, <3>3, <5>1
        <5> QED BY <5>3, <5>4, <5>5, <5>6, SweepAssumption
      <4>5. CASE ~(saved'[c].pnl > saved'[w].pnl)
        <5>1. ranked' = ranked
          BY <4>2, <4>5 DEF Pnl
        <5>2. \A h \in ranked : saved'[c].pnl <= saved'[h].pnl
          BY <4>3, <4>5
        <5> QED BY <2>4, <2>7, <2>8, <2>9, <4>1, <5>1, <5>2
      <4> QED BY <4>4, <4>5
    <3> QED BY <3>1, <3>2, <3>3
  <2>11. SweepShape'
    <3>1. \A x \in DOMAIN saved' : saved'[x] \in RunResult
      BY <2>3, <2>4 DEF SweepShape
    <3> QED BY <1>2, <1>6, <1>7, <2>4, <2>10, <3>1 DEF SweepShape
  <2>12. combos' \cap DOMAIN saved' = {}
    BY <1>1, <1>9, <2>4 DEF Ranking
  <2>13. Ranking'
    BY <1>2, <2>10, <2>12 DEF Ranking, BestRanked, Pnl
  <2> QED BY <1>3, <1>4, <1>5, <2>11, <2>13
<1> QED BY <1>8, <1>9

LEMMA SweepRaises == SweepInv /\ ComboRaises => SweepInv'
<1> SUFFICES ASSUME SweepInv, ComboRaises PROVE SweepInv'
  OBVIOUS
<1> USE DEF SweepInv
<1>1. /\ worker.pc = "replay" /\ worker' = NoWorker
      /\ UNCHANGED <<market, dataset, unread, saved, ranked>>
      /\ \/ sweep' = [sweep EXCEPT !.pc = "raised"] /\ combos' = combos
         \/ sweep' = sweep /\ \E c \in combos : combos' = combos \ {c}
  BY DEF ComboRaises
<1>2. /\ sweep' \in SweepState /\ sweep'.subset = sweep.subset /\ sweep'.split = sweep.split
      /\ sweep'.pc # "start" /\ combos' \subseteq combos
  BY <1>1 DEF SweepShape, WorkerShape, SweepState
<1>3. SweepShape'
  BY <1>1, <1>2 DEF SweepShape, AllCombos, Canonical, Valid
<1>4. WorkerShape'
  BY <1>1, FS_EmptySet, PortfolioAssumption DEF WorkerShape, NoWorker, WorkerState
<1>5. Blind'
  BY <1>1, <1>2 DEF Blind, NoneFrom
<1>6. WorkerInv'
  BY <1>1, FS_EmptySet, PortfolioAssumption DEF WorkerInv, SlotsOverTime, NoWorker
<1>7. Ranking'
  BY <1>1, <1>2 DEF Ranking, BestRanked, Pnl
<1> QED BY <1>3, <1>4, <1>5, <1>6, <1>7

LEMMA SweepEvaluates == SweepInv /\ EvaluateHoldout => SweepInv'
<1> SUFFICES ASSUME SweepInv, EvaluateHoldout PROVE SweepInv'
  OBVIOUS
<1> USE DEF SweepInv
<1>1. worker.pc = "idle" /\ combos = {} /\ UNCHANGED <<market, worker, saved, ranked>>
      /\ sweep.pc = "run"
  BY DEF EvaluateHoldout
<1>2. worker = NoWorker
  BY <1>1 DEF WorkerShape
<1>3. WorkerShape'
  BY <1>1, <1>2 DEF WorkerShape, NoWorker
<1>4. WorkerInv'
  BY <1>1, ReplayedKept
<1>5. ranked \subseteq AllCombos
  BY DEF SweepShape
<1>6. CASE sweep.subset = "train" /\ ranked # {}
  <2>1. /\ sweep' = [sweep EXCEPT !.pc = "load", !.subset = "holdout"]
        /\ dataset' = << >> /\ unread' = Tokens /\ combos' = ranked
    BY <1>6 DEF EvaluateHoldout
  <2>2. /\ sweep' \in SweepState /\ sweep'.subset = "holdout" /\ sweep'.pc = "load"
        /\ sweep'.split = sweep.split
    BY <2>1 DEF SweepShape, SweepState
  <2>3. SweepShape'
    <3>1. DOMAIN dataset' = {} /\ unread' \subseteq Tokens
      BY <2>1
    <3>2. AllCombos' = AllCombos
      BY DEF AllCombos, Canonical, Valid
    <3>3. sweep'.split \in 0..Present
      BY <1>6, <2>2 DEF SweepShape
    <3> QED BY <1>1, <1>5, <2>1, <2>2, <3>1, <3>2, <3>3 DEF SweepShape
  <2>4. Blind' /\ Ranking'
    BY <1>1, <2>2 DEF Blind, Ranking, BestRanked, Pnl
  <2> QED BY <1>3, <1>4, <2>3, <2>4
<1>7. CASE ~(sweep.subset = "train" /\ ranked # {})
  <2>1. sweep' = [sweep EXCEPT !.pc = "done"] /\ UNCHANGED <<dataset, unread, combos>>
    BY <1>7 DEF EvaluateHoldout
  <2>2. /\ sweep' \in SweepState /\ sweep'.subset = sweep.subset /\ sweep'.pc = "done"
        /\ sweep'.split = sweep.split
    BY <2>1 DEF SweepShape, SweepState
  <2>3. SweepShape'
    BY <1>1, <2>1, <2>2 DEF SweepShape, AllCombos, Canonical, Valid
  <2>4. Blind' /\ Ranking'
    BY <1>1, <2>1, <2>2, RankedKept DEF Blind, NoneFrom
  <2> QED BY <1>3, <1>4, <2>3, <2>4
<1> QED BY <1>6, <1>7

LEMMA SweepSteps == SweepInv /\ [SweepNext]_sweepVars => SweepInv'
<1> SUFFICES ASSUME SweepInv, [SweepNext]_sweepVars PROVE SweepInv'
  OBVIOUS
<1>1. CASE SweepNext
  BY <1>1, SweepRuns, SweepLoads, SweepEndsLoad, SweepWrites, SweepStartsCombo, SweepTakes,
     SweepConsumes, SweepRaises, SweepEvaluates DEF SweepNext
<1>2. CASE UNCHANGED sweepVars
  <2>1. /\ UNCHANGED <<market, sweep, dataset, unread>>
        /\ UNCHANGED <<combos, worker, saved, ranked>>
    BY <1>2 DEF sweepVars
  <2>2. SweepShape' /\ WorkerShape' /\ Blind'
    BY <2>1 DEF SweepInv, SweepShape, WorkerShape, Blind, NoneFrom, AllCombos, Canonical,
                Valid, NoWorker
  <2> QED BY <2>1, <2>2, ReplayedKept, RankedKept DEF SweepInv
<1> QED BY <1>1, <1>2

LEMMA SweepAlways == SweepSpec => []SweepInv
BY SweepStarts, SweepSteps, PTL DEF SweepSpec

(* What a replay reports could have been traded: no moment sees more          *)
(* positions than the portfolio holds (optimizer.py, _pop_freed_slots).       *)
THEOREM SlotsAreOverTime == SweepSpec => []SlotsOverTime
<1>1. SweepInv => SlotsOverTime
  BY DEF SweepInv, WorkerInv
<1> QED BY <1>1, SweepAlways, PTL

LEMMA BlindToHoldout == SweepInv => TrainBlind
<1> SUFFICES ASSUME SweepInv, sweep.subset = "train"
             PROVE  \A m \in DOMAIN dataset :
               /\ market[m].created < sweep.split
               /\ NoneFrom(dataset[m], sweep.split)
               /\ dataset[m].full = Within(market[m].trades, 0..market[m].created + FullSec)
  BY ZenonT(30) DEF NoneFrom, TrainBlind
<1> TAKE m \in DOMAIN dataset
<1>1. m \in Tokens /\ sweep.split \in Nat /\ FullSec \in Nat
  BY SweepAssumption DEF SweepInv, SweepShape
<1>2. market[m].created \in Nat
  BY <1>1, SweepAssumption DEF SweepInv, SweepShape, TokenRow
<1>3. /\ market[m].created + FullSec < sweep.split
      /\ NoneFrom(dataset[m], sweep.split)
      /\ dataset[m].full = Within(market[m].trades, 0..market[m].created + FullSec)
  BY DEF SweepInv, Blind
<1> QED BY <1>1, <1>2, <1>3

(* The training part is blind to the holdout, and not cut short by it, while   *)
(* the bot goes on writing (optimizer.py, the burn-in and the filter).         *)
THEOREM TrainIsBlind == SweepSpec => []TrainBlind
BY BlindToHoldout, SweepAlways, PTL

(* In whatever order the workers finish, no combination with enough trades is  *)
(* left out for a worse one (optimizer.py, the ranked heap).                   *)
THEOREM BestAreRanked == SweepSpec => []BestRanked
<1>1. SweepInv => BestRanked
  BY DEF SweepInv, Ranking
<1> QED BY <1>1, SweepAlways, PTL

-----------------------------------------------------------------------------
ReplaySpec == ReplayInit /\ [][ReplayNext]_replayVars

(* The two halves of a history.                                              *)
LEMMA Halves ==
  ASSUME NEW s \in Seq(Nat), NEW q \in Seq(Nat), NEW h, h = s \o q
  PROVE  /\ Len(h) = Len(s) + Len(q) /\ Len(s) \in Nat /\ Len(q) \in Nat
         /\ \A i \in 1..Len(s) : h[i] = s[i]
         /\ \A i \in 1..Len(q) : h[Len(s) + i] = q[i]
         /\ SubSeq(h, 1, Len(s)) = s
         /\ SubSeq(h, Len(s) + 1, Len(h)) = q
<1>1. /\ h \in Seq(Nat) /\ Len(h) = Len(s) + Len(q) /\ Len(s) \in Nat /\ Len(q) \in Nat
      /\ \A i \in 1..Len(s) : h[i] = s[i]
      /\ \A i \in 1..Len(q) : h[Len(s) + i] = q[i]
  BY ConcatProperties
<1>2. PICK a : a = SubSeq(h, 1, Len(s))
  OBVIOUS
<1>3. PICK b : b = SubSeq(h, Len(s) + 1, Len(h))
  OBVIOUS
<1>4. a \in Seq(Nat) /\ Len(a) = Len(s) /\ \A i \in 1..Len(s) : a[i] = s[i]
  BY <1>1, <1>2
<1>5. b \in Seq(Nat) /\ Len(b) = Len(q) /\ \A i \in 1..Len(q) : b[i] = q[i]
  BY <1>1, <1>3
<1>6. a = s /\ b = q
  BY <1>4, <1>5, SeqEqual
<1> QED BY <1>1, <1>2, <1>3, <1>6

ReplayShape ==
  /\ history \in Seq(Nat)
  /\ \A i, j \in DOMAIN history : i < j => history[i] <= history[j]
  /\ feed \in [pc : {"none", "window", "rest", "dropped"}, queue : Seq(Nat), cursor : Nat]
  /\ seen \in Seq(Nat) /\ drawn \in Seq(Nat)
  /\ reader \in [Readers -> [pc : {"idle", "drains", "ended", "gone"}, last : Seq(Nat)]]

(* Nobody draws before the window is over.                                   *)
Windowed ==
  feed.pc \in {"none", "window"} =>
    /\ \A r \in Readers : reader[r].pc = "idle"
    /\ drawn = <<>> /\ feed.cursor = 0
    /\ \A i \in DOMAIN seen : seen[i] <= WindowSec

ReplayInv ==
  /\ ReplayShape /\ Windowed /\ ReplayRotates
  /\ feed.pc = "none" => seen = <<>>

LEMMA ReplayStarts == ReplayInit => ReplayInv
BY ReplayFeedAssumption DEF ReplayInit, ReplayInv, ReplayShape, Windowed, ReplayRotates, Unread

LEMMA Subscribes == ReplayInv /\ SubscribeReplay => ReplayInv'
<1> SUFFICES ASSUME ReplayInv, SubscribeReplay PROVE ReplayInv'
  OBVIOUS
<1> USE DEF ReplayInv
<1>1. /\ feed.pc = "none" /\ feed' = [pc |-> "window", queue |-> history, cursor |-> 0]
      /\ UNCHANGED <<history, seen, drawn, reader>> /\ seen = <<>>
  BY DEF SubscribeReplay
<1>2. seen \o history = history
  BY <1>1, ConcatEmptySeq DEF ReplayShape
<1> QED BY <1>1, <1>2 DEF ReplayShape, Windowed, ReplayRotates

LEMMA WindowDrains == ReplayInv /\ DrainUntil => ReplayInv'
<1> SUFFICES ASSUME ReplayInv, DrainUntil PROVE ReplayInv'
  OBVIOUS
<1> USE DEF ReplayInv
<1>1. feed.pc = "window" /\ UNCHANGED <<history, drawn, reader>>
  BY DEF DrainUntil
<1>2. PICK q : q = feed.queue
  OBVIOUS
<1>3. /\ q \in Seq(Nat) /\ seen \in Seq(Nat) /\ feed.cursor = 0 /\ drawn = <<>>
      /\ seen \o q = history /\ WindowSec \in Nat
  BY <1>1, <1>2, ReplayFeedAssumption DEF ReplayShape, Windowed, ReplayRotates
<1>4. CASE q # <<>> /\ Head(q) <= WindowSec
  <2>1. feed' = [feed EXCEPT !.queue = Tail(q)] /\ seen' = Append(seen, Head(q))
    BY <1>2, <1>3, <1>4 DEF DrainUntil
  <2>2. /\ seen' \o Tail(q) = history /\ seen' \in Seq(Nat) /\ Tail(q) \in Seq(Nat)
        /\ Head(q) \in Nat
    BY <1>3, <1>4, <2>1, MovesOver
  <2>3. \A i \in DOMAIN seen' : seen'[i] <= WindowSec
    BY <1>1, <1>3, <1>4, <2>1, <2>2 DEF Windowed
  <2>4. /\ feed' \in [pc : {"none", "window", "rest", "dropped"}, queue : Seq(Nat), cursor : Nat]
        /\ feed'.pc = "window" /\ feed'.queue = Tail(q) /\ feed'.cursor = 0
    BY <1>1, <1>3, <2>1, <2>2 DEF ReplayShape
  <2> QED BY <1>1, <2>2, <2>3, <2>4 DEF ReplayShape, Windowed, ReplayRotates
<1>5. CASE ~(q # <<>> /\ Head(q) <= WindowSec)
  <2> DEFINE rest == IF q = <<>> THEN q ELSE Append(Tail(q), Head(q))
  <2>1. feed' = [pc |-> "rest", cursor |-> WindowSec, queue |-> rest] /\ seen' = seen
    BY <1>2, <1>3, <1>5 DEF DrainUntil
  <2>2. rest \in Seq(Nat)
    BY <1>3
  <2>3. /\ Len(history) = Len(seen) + Len(q) /\ Len(seen) \in Nat /\ Len(q) \in Nat
        /\ \A i \in 1..Len(seen) : history[i] = seen[i]
        /\ \A i \in 1..Len(q) : history[Len(seen) + i] = q[i]
        /\ SubSeq(history, 1, Len(seen)) = seen
        /\ SubSeq(history, Len(seen) + 1, Len(history)) = q
    <3>1. PICK h, s : h = history /\ s = seen
      OBVIOUS
    <3>2. s \in Seq(Nat) /\ q \in Seq(Nat) /\ h = s \o q
      BY <1>3, <3>1
    <3>3. /\ Len(h) = Len(s) + Len(q) /\ Len(s) \in Nat /\ Len(q) \in Nat
          /\ \A i \in 1..Len(s) : h[i] = s[i]
          /\ \A i \in 1..Len(q) : h[Len(s) + i] = q[i]
          /\ SubSeq(h, 1, Len(s)) = s
          /\ SubSeq(h, Len(s) + 1, Len(h)) = q
      BY ONLY <3>2, Halves
    <3> QED BY ONLY <3>1, <3>3
  <2>4. \A i \in DOMAIN history : history[i] \in Nat /\ i \in Nat /\ DOMAIN history = 1..Len(history)
    BY DEF ReplayShape
  <2>5. \A i \in DOMAIN history : history[i] <= WindowSec <=> i <= Len(seen)
    <3> TAKE i \in DOMAIN history
    <3>1. CASE i <= Len(seen)
      BY <1>1, <2>3, <2>4, <3>1, <1>3 DEF Windowed
    <3>2. CASE i > Len(seen)
      <4>1. q # <<>> /\ Len(q) >= 1 /\ Len(seen) + 1 \in DOMAIN history
        BY <1>3, <2>3, <2>4, <3>2
      <4>2. history[Len(seen) + 1] = Head(q) /\ Head(q) > WindowSec
        BY <1>3, <1>5, <2>3, <2>4, <4>1
      <4>3. history[Len(seen) + 1] <= history[i]
        <5>1. CASE i = Len(seen) + 1
          BY <2>4, <4>1, <5>1
        <5>2. CASE i # Len(seen) + 1
          <6>1. Len(seen) + 1 < i
            BY <2>3, <2>4, <3>2, <5>2
          <6> QED BY <4>1, <6>1 DEF ReplayShape
        <5> QED BY <5>1, <5>2
      <4> QED BY <1>3, <2>3, <2>4, <3>2, <4>1, <4>2, <4>3
    <3> QED BY <2>3, <2>4, <3>1, <3>2
  <2>6. drawn \o rest = rest
    BY <1>3, <2>2, ConcatEmptySeq
  <2>7. ReplayRotates'
    <3>1. Len(seen) \in 0..Len(history)
      BY <2>3
    <3>2. feed'.pc = "rest" /\ feed'.queue = rest
      BY <2>1
    <3> HIDE DEF rest
    <3>3. rest = IF q = <<>> THEN q ELSE Append(Tail(q), Head(q))
      BY DEF rest
    <3> QED BY <1>1, <2>1, <2>3, <2>5, <2>6, <3>1, <3>2, <3>3 DEF ReplayRotates
  <2>8. ReplayShape' /\ Windowed'
    BY <1>1, <2>1, <2>2, ReplayFeedAssumption DEF ReplayShape, Windowed
  <2> QED BY <2>1, <2>7, <2>8
<1> QED BY <1>4, <1>5

LEMMA DrainStarts == ReplayInv /\ StartDrain => ReplayInv'
<1> SUFFICES ASSUME ReplayInv, StartDrain PROVE ReplayInv'
  OBVIOUS
<1> USE DEF ReplayInv
<1>1. feed.pc \in {"rest", "dropped"} /\ UNCHANGED <<history, feed, seen, drawn>>
  BY DEF StartDrain
<1>2. reader' \in [Readers -> [pc : {"idle", "drains", "ended", "gone"}, last : Seq(Nat)]]
  BY DEF StartDrain, ReplayShape
<1> QED BY <1>1, <1>2 DEF ReplayShape, Windowed, ReplayRotates

(* A draw takes the head of the queue, a silence puts all of it back.         *)
LEMMA Draws == ReplayInv /\ DrainAll => ReplayInv'
<1> SUFFICES ASSUME ReplayInv, DrainAll PROVE ReplayInv'
  OBVIOUS
<1> USE DEF ReplayInv
<1>1. PICK r \in DOMAIN reader :
       /\ reader[r].pc = "drains"
       /\ IF feed.queue = <<>> \/ Gap(r)
          THEN /\ feed' = [feed EXCEPT !.queue = PutBack(feed.queue)]
               /\ reader' = [reader EXCEPT ![r].pc = "ended"]
               /\ UNCHANGED drawn
          ELSE /\ feed' = [feed EXCEPT !.queue = Tail(feed.queue)]
               /\ drawn' = Append(drawn, Head(feed.queue))
               /\ reader' = [reader EXCEPT ![r].last = <<Head(feed.queue)>>]
  BY DEF DrainAll
<1>2. r \in Readers /\ feed.pc \in {"rest", "dropped"} /\ UNCHANGED <<history, seen>>
  BY <1>1 DEF DrainAll, ReplayShape, Windowed
<1>3. CASE feed.queue = <<>> \/ Gap(r)
  <2>1. feed' = feed /\ UNCHANGED drawn /\ reader' = [reader EXCEPT ![r].pc = "ended"]
    BY <1>1, <1>3 DEF PutBack, ReplayShape
  <2>2. reader' \in [Readers -> [pc : {"idle", "drains", "ended", "gone"}, last : Seq(Nat)]]
    BY <1>2, <2>1 DEF ReplayShape
  <2> QED BY <1>2, <2>1, <2>2 DEF ReplayShape, Windowed, ReplayRotates
<1>4. CASE ~(feed.queue = <<>> \/ Gap(r))
  <2>1. /\ feed' = [feed EXCEPT !.queue = Tail(feed.queue)]
        /\ drawn' = Append(drawn, Head(feed.queue))
        /\ reader' = [reader EXCEPT ![r].last = <<Head(feed.queue)>>]
    BY <1>1, <1>4
  <2>2. feed.queue \in Seq(Nat) /\ feed.queue # <<>> /\ drawn \in Seq(Nat)
    BY <1>4 DEF ReplayShape
  <2>3. /\ drawn' \o Tail(feed.queue) = drawn \o feed.queue /\ drawn' \in Seq(Nat)
        /\ Tail(feed.queue) \in Seq(Nat) /\ Head(feed.queue) \in Nat
    BY <2>1, <2>2, MovesOver
  <2>4. /\ feed' \in [pc : {"none", "window", "rest", "dropped"}, queue : Seq(Nat), cursor : Nat]
        /\ feed'.pc = feed.pc /\ feed'.queue = Tail(feed.queue)
    BY <2>1, <2>3 DEF ReplayShape
  <2>5. reader' \in [Readers -> [pc : {"idle", "drains", "ended", "gone"}, last : Seq(Nat)]]
    <3>1. PICK x : x = <<Head(feed.queue)>>
      OBVIOUS
    <3>2. x \in Seq(Nat) /\ reader' = [reader EXCEPT ![r].last = x]
      BY <2>1, <2>3, <3>1
    <3> QED BY <1>2, <3>2 DEF ReplayShape
  <2>6. drawn' \o feed'.queue = drawn \o feed.queue
    BY <2>3, <2>4
  <2>7. ReplayRotates'
    BY <1>2, <2>4, <2>6 DEF ReplayRotates
  <2> QED BY <1>2, <2>3, <2>4, <2>5, <2>7 DEF ReplayShape, Windowed
<1> QED BY <1>3, <1>4

LEMMA OthersDrain == ReplayInv /\ (LeaveDrain \/ UnsubscribeReplay \/ SkipToken) => ReplayInv'
<1> SUFFICES ASSUME ReplayInv, LeaveDrain \/ UnsubscribeReplay \/ SkipToken PROVE ReplayInv'
  OBVIOUS
<1> USE DEF ReplayInv
<1>1. CASE LeaveDrain
  <2>1. PICK r \in DOMAIN reader : reader[r].pc = "drains" /\ reader' = [reader EXCEPT ![r].pc = "ended"]
    BY <1>1 DEF LeaveDrain
  <2>2. UNCHANGED <<history, feed, seen, drawn>> /\ r \in Readers
    BY <1>1, <2>1 DEF LeaveDrain, ReplayShape
  <2>3. reader' \in [Readers -> [pc : {"idle", "drains", "ended", "gone"}, last : Seq(Nat)]]
    BY <2>1, <2>2 DEF ReplayShape
  <2>4. feed.pc \notin {"none", "window"}
    BY <2>1, <2>2 DEF Windowed
  <2> QED BY <2>2, <2>3, <2>4 DEF ReplayShape, Windowed, ReplayRotates
<1>2. CASE UnsubscribeReplay
  <2>1. PICK r \in DOMAIN reader : reader[r].pc = "ended" /\ reader' = [reader EXCEPT ![r].pc = "gone"]
    BY <1>2 DEF UnsubscribeReplay
  <2>2. /\ UNCHANGED <<history, seen, drawn>> /\ r \in Readers
        /\ feed' = [feed EXCEPT !.pc = "dropped"]
    BY <1>2, <2>1 DEF UnsubscribeReplay, ReplayShape
  <2>3. reader' \in [Readers -> [pc : {"idle", "drains", "ended", "gone"}, last : Seq(Nat)]]
    BY <2>1, <2>2 DEF ReplayShape
  <2>4. feed.pc \notin {"none", "window"}
    BY <2>1, <2>2 DEF Windowed
  <2>5. /\ feed' \in [pc : {"none", "window", "rest", "dropped"}, queue : Seq(Nat), cursor : Nat]
        /\ feed'.pc = "dropped" /\ feed'.queue = feed.queue
    BY <2>2 DEF ReplayShape
  <2>6. ReplayRotates'
    BY <2>2, <2>4, <2>5 DEF ReplayRotates, ReplayShape
  <2> QED BY <2>2, <2>3, <2>5, <2>6 DEF ReplayShape, Windowed
<1>3. CASE SkipToken
  <2>1. /\ UNCHANGED <<history, seen, drawn>> /\ feed.pc = "rest"
        /\ feed' = [feed EXCEPT !.pc = "dropped"]
        /\ reader' = [r \in Readers |-> [Unread EXCEPT !.pc = "gone"]]
    BY <1>3 DEF SkipToken
  <2>2. reader' \in [Readers -> [pc : {"idle", "drains", "ended", "gone"}, last : Seq(Nat)]]
    <3>1. PICK x : x = [Unread EXCEPT !.pc = "gone"]
      OBVIOUS
    <3>2. x \in [pc : {"idle", "drains", "ended", "gone"}, last : Seq(Nat)]
      <4>1. Unread \in [pc : {"idle", "drains", "ended", "gone"}, last : Seq(Nat)]
        BY DEF Unread
      <4> QED BY <3>1, <4>1
    <3> QED BY <2>1, <3>1, <3>2
  <2>3. /\ feed' \in [pc : {"none", "window", "rest", "dropped"}, queue : Seq(Nat), cursor : Nat]
        /\ feed'.pc = "dropped" /\ feed'.queue = feed.queue
    BY <2>1 DEF ReplayShape
  <2>4. ReplayRotates'
    BY <2>1, <2>3 DEF ReplayRotates
  <2> QED BY <2>1, <2>2, <2>3, <2>4 DEF ReplayShape, Windowed
<1> QED BY <1>1, <1>2, <1>3

LEMMA ReplaySteps == ReplayInv /\ [ReplayNext]_replayVars => ReplayInv'
<1> SUFFICES ASSUME ReplayInv, [ReplayNext]_replayVars PROVE ReplayInv'
  OBVIOUS
<1>1. CASE ReplayNext
  BY <1>1, Subscribes, WindowDrains, DrainStarts, Draws, OthersDrain DEF ReplayNext
<1>2. CASE UNCHANGED replayVars
  BY <1>2 DEF replayVars, ReplayInv, ReplayShape, Windowed, ReplayRotates
<1> QED BY <1>1, <1>2

(* However many supervisors draw from a token's queue, stop, leave or drop it, *)
(* every trade of the history is in one place, and the supervisors get those  *)
(* past the window in the order of time but for the first of them             *)
(* (sources/replay.py, _drain_until and _drain_all).                          *)
THEOREM TradesRotate == ReplaySpec => []ReplayRotates
<1>1. ReplayInv => ReplayRotates
  BY DEF ReplayInv
<1> QED BY <1>1, ReplayStarts, ReplaySteps, PTL DEF ReplaySpec

(* ------------------- folds ---------------------------------------------- *)
(* What a fold over the set S computes when it takes the members in the      *)
(* order of c and goes from v to g[<<x, v>>] at the member x.                *)
FoldStep(f, c, g, base, s) ==
  IF s = {} THEN base ELSE g[<<c[s], f[s \ {c[s]}]>>]

FoldSolved(S, V, c, g, base) ==
  \E f \in [SUBSET S -> V] : \A s \in SUBSET S : f[s] = FoldStep(f, c, g, base, s)

Picks(c, S) == \A s \in SUBSET S : s # {} => c[s] \in s

LEMMA FoldExists ==
  ASSUME NEW S, IsFiniteSet(S), NEW V, NEW base \in V, NEW g \in [S \X V -> V],
         NEW c, Picks(c, S)
  PROVE  FoldSolved(S, V, c, g, base)
<1>0. \A s \in SUBSET S : s # {} => c[s] \in s
  BY DEF Picks
<1> DEFINE n == Cardinality(S)
           Upto(f, i) == \A s \in SUBSET S :
                           Cardinality(s) <= i => f[s] = FoldStep(f, c, g, base, s)
           Good == {i \in 0..n : \E f \in [SUBSET S -> V] : Upto(f, i)}
<1>1. n \in Nat /\ \A s \in SUBSET S : IsFiniteSet(s) /\ Cardinality(s) \in Nat /\ Cardinality(s) <= n
  BY FS_CardinalityType, FS_Subset
<1>2. 0 \in Good
  <2> DEFINE f == [s \in SUBSET S |-> base]
  <2>1. f \in [SUBSET S -> V]
    OBVIOUS
  <2>2. ASSUME NEW s \in SUBSET S, Cardinality(s) <= 0
        PROVE  f[s] = FoldStep(f, c, g, base, s)
    <3>1. s = {}
      BY <1>1, <2>2, FS_EmptySet
    <3> QED BY <3>1 DEF FoldStep
  <2> HIDE DEF f
  <2>3. Upto(f, 0)
    BY <2>2
  <2> QED BY <1>1, <2>1, <2>3
<1>3. ASSUME NEW i \in 0..n, i # n, i \in Good
      PROVE  i + 1 \in Good
  <2>1. PICK f \in [SUBSET S -> V] : Upto(f, i)
    BY <1>3
  <2> DEFINE more == [s \in SUBSET S |-> FoldStep(f, c, g, base, s)]
  <2>2. \A s \in SUBSET S : FoldStep(f, c, g, base, s) \in V
    <3> TAKE s \in SUBSET S
    <3>1. CASE s = {}
      BY <3>1 DEF FoldStep
    <3>2. CASE s # {}
      <4>1. c[s] \in S /\ s \ {c[s]} \in SUBSET S
        BY <1>0, <3>2
      <4>2. f[s \ {c[s]}] \in V
        BY <4>1
      <4>3. <<c[s], f[s \ {c[s]}]>> \in S \X V
        BY <4>1, <4>2
      <4>4. g[<<c[s], f[s \ {c[s]}]>>] \in V
        BY <4>3
      <4> QED BY <3>2, <4>4 DEF FoldStep
    <3> QED BY <3>1, <3>2
  <2>3. more \in [SUBSET S -> V]
    BY <2>2
  <2>4. \A s \in SUBSET S : more[s] = FoldStep(f, c, g, base, s)
    OBVIOUS
  <2> HIDE DEF more
  <2>5. \A s \in SUBSET S : Cardinality(s) <= i => more[s] = f[s]
    BY <2>1, <2>4
  <2>6. ASSUME NEW s \in SUBSET S, Cardinality(s) <= i + 1
        PROVE  FoldStep(more, c, g, base, s) = FoldStep(f, c, g, base, s)
    <3>1. CASE s = {}
      BY <3>1 DEF FoldStep
    <3>2. CASE s # {}
      <4>1. c[s] \in s /\ s \ {c[s]} \in SUBSET S
        BY <1>0, <3>2
      <4>2. IsFiniteSet(s) /\ Cardinality(s) \in Nat
        BY <1>1
      <4>3. Cardinality(s \ {c[s]}) = Cardinality(s) - 1
        <5>1. PICK x \in s : x = c[s]
          BY <4>1
        <5>2. Cardinality(s \ {x}) = Cardinality(s) - 1
          BY <4>2, FS_RemoveElement
        <5> QED BY <5>1, <5>2
      <4>4. Cardinality(s \ {c[s]}) <= i
        BY <1>1, <2>6, <4>2, <4>3
      <4>5. more[s \ {c[s]}] = f[s \ {c[s]}]
        BY <2>5, <4>1, <4>4
      <4> QED BY <3>2, <4>5 DEF FoldStep
    <3> QED BY <3>1, <3>2
  <2>7. Upto(more, i + 1)
    BY <2>4, <2>6
  <2>8. i + 1 \in 0..n
    BY <1>1, <1>3
  <2> HIDE DEF Upto
  <2> QED BY <2>3, <2>7, <2>8
<1>4. \A i \in 0..n : i \in Good
  <2> HIDE DEF Good, n
  <2> QED BY <1>1, <1>2, <1>3, Climb
<1>5. n \in Good
  <2>1. n \in 0..n
    BY <1>1
  <2> HIDE DEF Good, n
  <2> QED BY <1>4, <2>1
<1>6. PICK f \in [SUBSET S -> V] : Upto(f, n)
  BY <1>5
<1>7. \A s \in SUBSET S : f[s] = FoldStep(f, c, g, base, s)
  <2>1. \A s \in SUBSET S : Cardinality(s) <= n
    BY <1>1
  <2> HIDE DEF n
  <2> QED BY <1>6, <2>1
<1> HIDE DEF n, Upto
<1> QED BY <1>7 DEF FoldSolved

(* What every step keeps, the fold keeps.                                    *)
LEMMA FoldStays ==
  ASSUME NEW S, IsFiniteSet(S), NEW V, NEW f, f[{}] \in V,
         NEW c, Picks(c, S),
         \A s \in SUBSET S : s # {} /\ f[s \ {c[s]}] \in V => f[s] \in V
  PROVE  f[S] \in V
<1>0. \A s \in SUBSET S : s # {} => c[s] \in s
  BY DEF Picks
<1> DEFINE n == Cardinality(S)
           Good == {i \in 0..n : \A s \in SUBSET S : Cardinality(s) <= i => f[s] \in V}
<1>1. n \in Nat /\ \A s \in SUBSET S : IsFiniteSet(s) /\ Cardinality(s) \in Nat /\ Cardinality(s) <= n
  BY FS_CardinalityType, FS_Subset
<1>2. 0 \in Good
  <2>1. ASSUME NEW s \in SUBSET S, Cardinality(s) <= 0 PROVE f[s] \in V
    <3>1. s = {}
      BY <1>1, <2>1, FS_EmptySet
    <3> QED BY <3>1
  <2> QED BY <1>1, <2>1
<1>3. ASSUME NEW i \in 0..n, i # n, i \in Good
      PROVE  i + 1 \in Good
  <2>1. ASSUME NEW s \in SUBSET S, Cardinality(s) <= i + 1, s # {}
        PROVE  f[s] \in V
    <3>1. c[s] \in s /\ s \ {c[s]} \in SUBSET S
      BY <1>0, <2>1
    <3>2. IsFiniteSet(s) /\ Cardinality(s) \in Nat
      BY <1>1
    <3>3. Cardinality(s \ {c[s]}) = Cardinality(s) - 1
      <4>1. PICK x \in s : x = c[s]
        BY <3>1
      <4>2. Cardinality(s \ {x}) = Cardinality(s) - 1
        BY <3>2, FS_RemoveElement
      <4> QED BY <4>1, <4>2
    <3>4. Cardinality(s \ {c[s]}) <= i
      BY <1>1, <2>1, <3>2, <3>3
    <3>5. f[s \ {c[s]}] \in V
      BY <1>3, <3>1, <3>4
    <3> QED BY <2>1, <3>5
  <2>2. i + 1 \in 0..n
    BY <1>1, <1>3
  <2> QED BY <2>1, <2>2
<1>4. \A i \in 0..n : i \in Good
  <2> HIDE DEF Good, n
  <2> QED BY <1>1, <1>2, <1>3, Climb
<1> QED BY <1>1, <1>4

LEMMA LastIn ==
  ASSUME NEW S, NEW q \in Seq(S), q # <<>>
  PROVE  q[Len(q)] \in S
OBVIOUS

(* ------------------- sums ----------------------------------------------- *)
(* Sums over the subsets of D, one chosen member at a time.                  *)
Summed(f, v, D) ==
  /\ f \in [SUBSET D -> Int]
  /\ \A s \in SUBSET D :
       f[s] = IF s = {} THEN 0 ELSE v[Chosen(s)] + f[s \ {Chosen(s)}]

LEMMA SumIs ==
  ASSUME NEW D, IsFiniteSet(D), NEW v \in [D -> Int]
  PROVE  \E f : Summed(f, v, D)
<1> DEFINE c == [s \in SUBSET D |-> Chosen(s)]
           g == [x \in D \X Int |-> v[x[1]] + x[2]]
<1>1. Picks(c, D)
  BY DEF Picks, Chosen
<1>2. g \in [D \X Int -> Int]
  OBVIOUS
<1>3. FoldSolved(D, Int, c, g, 0)
  <2> HIDE DEF c, g
  <2>1. PICK V : V = Int
    OBVIOUS
  <2>2. 0 \in V /\ g \in [D \X V -> V]
    BY <1>2, <2>1
  <2>3. FoldSolved(D, V, c, g, 0)
    BY <1>1, <2>2, FoldExists
  <2> QED BY <2>1, <2>3
<1>4. PICK f \in [SUBSET D -> Int] : \A s \in SUBSET D : f[s] = FoldStep(f, c, g, 0, s)
  BY <1>3 DEF FoldSolved
<1>5. ASSUME NEW s \in SUBSET D, s # {}
      PROVE  f[s] = v[Chosen(s)] + f[s \ {Chosen(s)}]
  <2>1. c[s] = Chosen(s) /\ Chosen(s) \in D
    BY <1>5 DEF Chosen
  <2>2. f[s \ {Chosen(s)}] \in Int
    BY <1>4
  <2>3. f[s] = g[<<Chosen(s), f[s \ {Chosen(s)}]>>]
    <3> HIDE DEF c, g
    <3> QED BY <1>4, <1>5, <2>1 DEF FoldStep
  <2> QED BY <2>1, <2>2, <2>3
<1>6. f[{}] = 0
  BY <1>4 DEF FoldStep
<1> QED BY <1>4, <1>5, <1>6 DEF Summed

(* Any member may be taken first.                                            *)
TakesAny(f, v, D) == \A s \in SUBSET D : \A x \in s : f[s] = v[x] + f[s \ {x}]

LEMMA SumTakes ==
  ASSUME NEW D, IsFiniteSet(D), NEW v \in [D -> Int], NEW f, Summed(f, v, D)
  PROVE  TakesAny(f, v, D)
<1> DEFINE n == Cardinality(D)
           Good == {i \in 0..n : \A s \in SUBSET D : Cardinality(s) <= i =>
                                   \A x \in s : f[s] = v[x] + f[s \ {x}]}
<1>0. n \in Nat
  BY FS_CardinalityType
<1>1. 0 \in Good
  <2>1. ASSUME NEW s \in SUBSET D, Cardinality(s) <= 0 PROVE s = {}
    BY <2>1, FS_Subset, FS_CardinalityType, FS_EmptySet
  <2> QED BY <1>0, <2>1
<1>2. ASSUME NEW i \in 0..n, i # n, i \in Good PROVE i + 1 \in Good
  <2>1. ASSUME NEW s \in SUBSET D, Cardinality(s) <= i + 1, NEW x \in s
        PROVE  f[s] = v[x] + f[s \ {x}]
    <3>1. PICK y \in s : y = Chosen(s)
      BY DEF Chosen
    <3>2. f[s] = v[y] + f[s \ {y}]
      BY <3>1 DEF Summed
    <3>3. CASE x = y
      BY <3>2, <3>3
    <3>4. CASE x # y
      <4>1. IsFiniteSet(s)
        BY FS_Subset
      <4>2. Cardinality(s) \in Nat /\ Cardinality(s \ {y}) = Cardinality(s) - 1
            /\ Cardinality(s \ {x}) = Cardinality(s) - 1
        BY <4>1, FS_RemoveElement, FS_CardinalityType
      <4>3. Cardinality(s \ {y}) <= i /\ Cardinality(s \ {x}) <= i
        BY <1>0, <2>1, <4>2
      <4>4. f[s \ {y}] = v[x] + f[(s \ {y}) \ {x}]
        BY <1>2, <3>4, <4>3
      <4>5. f[s \ {x}] = v[y] + f[(s \ {x}) \ {y}]
        BY <1>2, <3>4, <4>3
      <4>6. (s \ {y}) \ {x} = (s \ {x}) \ {y}
        OBVIOUS
      <4>7. v[x] \in Int /\ v[y] \in Int /\ f[(s \ {x}) \ {y}] \in Int
        BY DEF Summed
      <4>8. PICK p, q, m \in Int : p = v[x] /\ q = v[y] /\ m = f[(s \ {x}) \ {y}]
        BY <4>7
      <4>9. f[s \ {y}] = p + m /\ f[s \ {x}] = q + m
        BY <4>4, <4>5, <4>6, <4>8
      <4>10. f[s] = q + (p + m)
        BY <3>2, <4>8, <4>9
      <4>11. f[s] = p + (q + m)
        BY <4>10
      <4> QED BY <4>8, <4>9, <4>11
    <3> QED BY <3>3, <3>4
  <2>2. i + 1 \in 0..n
    BY <1>0, <1>2
  <2> HIDE DEF n
  <2> QED BY <2>1, <2>2
<1>3. \A i \in 0..n : i \in Good
  <2> HIDE DEF Good, n
  <2> QED BY <1>0, <1>1, <1>2, Climb
<1>4. n \in Good
  BY <1>0, <1>3
<1>5. \A s \in SUBSET D : Cardinality(s) <= n
  BY FS_Subset
<1> QED BY <1>4, <1>5 DEF TakesAny

(* Disjoint sets sum up.                                                     *)
JoinsUp(f, D) == \A a, b \in SUBSET D : a \cap b = {} => f[a \cup b] = f[a] + f[b]

LEMMA SumJoins ==
  ASSUME NEW D, IsFiniteSet(D), NEW v \in [D -> Int], NEW f, Summed(f, v, D)
  PROVE  JoinsUp(f, D)
<1>a. \A u \in SUBSET D : \A z \in u : f[u] = v[z] + f[u \ {z}]
  <2>1. TakesAny(f, v, D)
    BY SumTakes
  <2> QED BY <2>1 DEF TakesAny
<1> DEFINE n == Cardinality(D)
           Good == {i \in 0..n : \A b \in SUBSET D : Cardinality(b) <= i =>
                      \A a \in SUBSET D : a \cap b = {} => f[a \cup b] = f[a] + f[b]}
<1>0. n \in Nat
  BY FS_CardinalityType
<1>1. 0 \in Good
  <2>1. ASSUME NEW b \in SUBSET D, Cardinality(b) <= 0, NEW a \in SUBSET D
        PROVE  f[a \cup b] = f[a] + f[b]
    <3>1. b = {}
      BY <2>1, FS_Subset, FS_CardinalityType, FS_EmptySet
    <3>2. f[b] = 0 /\ f[a] \in Int
      BY <3>1 DEF Summed
    <3>3. f[a \cup b] = f[a]
      <4>1. a \cup b = a
        BY <3>1
      <4> QED BY <4>1
    <3>4. PICK m \in Int : m = f[a]
      BY <3>2
    <3> QED BY <3>2, <3>3, <3>4
  <2> QED BY <1>0, <2>1
<1>2. ASSUME NEW i \in 0..n, i # n, i \in Good PROVE i + 1 \in Good
  <2>1. ASSUME NEW b \in SUBSET D, Cardinality(b) <= i + 1, NEW a \in SUBSET D, a \cap b = {}
        PROVE  f[a \cup b] = f[a] + f[b]
    <3>1. CASE b = {}
      <4>1. f[b] = 0 /\ f[a] \in Int /\ a \cup b = a
        BY <3>1 DEF Summed
      <4> QED BY <4>1
    <3>2. CASE b # {}
      <4>1. PICK x \in b : TRUE
        BY <3>2
      <4>2. IsFiniteSet(b)
        BY FS_Subset
      <4>3. Cardinality(b) \in Nat /\ Cardinality(b \ {x}) = Cardinality(b) - 1
        BY <4>2, FS_RemoveElement, FS_CardinalityType
      <4>4. f[a \cup (b \ {x})] = f[a] + f[b \ {x}]
        BY <1>0, <1>2, <2>1, <4>3
      <4>5. f[b] = v[x] + f[b \ {x}]
        BY <1>a
      <4>6. (a \cup b) \ {x} = a \cup (b \ {x}) /\ x \in a \cup b /\ a \cup b \in SUBSET D
        BY <2>1
      <4>7. f[a \cup b] = v[x] + f[(a \cup b) \ {x}]
        BY <1>a, <4>6
      <4>8. v[x] \in Int /\ f[a] \in Int /\ f[b \ {x}] \in Int
        BY DEF Summed
      <4>9. PICK p, m, k \in Int : p = v[x] /\ m = f[a] /\ k = f[b \ {x}]
        BY <4>8
      <4>10. f[(a \cup b) \ {x}] = m + k
        BY <4>4, <4>6, <4>9
      <4>11. f[a \cup b] = p + (m + k)
        BY <4>7, <4>9, <4>10
      <4>12. f[b] = p + k
        BY <4>5, <4>9
      <4>13. f[a \cup b] = m + (p + k)
        BY <4>11
      <4> QED BY <4>9, <4>12, <4>13
    <3> QED BY <3>1, <3>2
  <2>2. i + 1 \in 0..n
    BY <1>0, <1>2
  <2> HIDE DEF n
  <2> QED BY <2>1, <2>2
<1>3. \A i \in 0..n : i \in Good
  <2> HIDE DEF Good, n
  <2> QED BY <1>0, <1>1, <1>2, Climb
<1>4. n \in Good
  BY <1>0, <1>3
<1>5. \A s \in SUBSET D : Cardinality(s) <= n
  BY FS_Subset
<1> QED BY <1>4, <1>5 DEF JoinsUp

(* There is but one such sum.                                                *)
Adds(h, v, s) == IF s = {} THEN 0 ELSE v[Chosen(s)] + h[s \ {Chosen(s)}]

AddsUp(h, v, D) == \A s \in SUBSET D : h[s] = Adds(h, v, s)

LEMMA SumUnique ==
  ASSUME NEW D, IsFiniteSet(D), NEW v, NEW f, NEW h, NEW B \in SUBSET D,
         AddsUp(f, v, D), AddsUp(h, v, B)
  PROVE  h[B] = f[B]
<1>a. /\ \A s \in SUBSET D : f[s] = Adds(f, v, s)
      /\ \A s \in SUBSET B : h[s] = Adds(h, v, s)
  BY DEF AddsUp
<1> DEFINE n == Cardinality(D)
           Good == {i \in 0..n : \A s \in SUBSET B : Cardinality(s) <= i => h[s] = f[s]}
<1>0. n \in Nat /\ \A s \in SUBSET B : IsFiniteSet(s) /\ Cardinality(s) \in Nat /\ Cardinality(s) <= n
  BY FS_CardinalityType, FS_Subset
<1>1. 0 \in Good
  <2>1. ASSUME NEW s \in SUBSET B, Cardinality(s) <= 0 PROVE h[s] = f[s]
    <3>1. s = {}
      BY <1>0, <2>1, FS_EmptySet
    <3> QED BY <1>a, <3>1 DEF Adds
  <2> HIDE DEF n
  <2> QED BY <1>0, <2>1
<1>2. ASSUME NEW i \in 0..n, i # n, i \in Good PROVE i + 1 \in Good
  <2>1. ASSUME NEW s \in SUBSET B, Cardinality(s) <= i + 1 PROVE h[s] = f[s]
    <3>1. CASE s = {}
      BY <1>a, <3>1 DEF Adds
    <3>2. CASE s # {}
      <4>1. PICK y \in s : y = Chosen(s)
        BY <3>2 DEF Chosen
      <4>2. IsFiniteSet(s) /\ Cardinality(s) \in Nat
        BY <1>0
      <4>3. Cardinality(s \ {y}) = Cardinality(s) - 1
        BY <4>2, FS_RemoveElement
      <4>4. Cardinality(s \ {y}) <= i
        <5> HIDE DEF n, Good
        <5> QED BY <1>0, <2>1, <4>2, <4>3
      <4>5. h[s \ {y}] = f[s \ {y}]
        BY <1>2, <4>4
      <4>6. h[s] = v[y] + h[s \ {y}] /\ f[s] = v[y] + f[s \ {y}]
        BY <1>a, <3>2, <4>1 DEF Adds
      <4> QED BY <4>5, <4>6
    <3> QED BY <3>1, <3>2
  <2>2. i + 1 \in 0..n
    BY <1>0, <1>2
  <2> HIDE DEF n
  <2> QED BY <2>1, <2>2
<1>3. \A i \in 0..n : i \in Good
  <2> HIDE DEF Good, n
  <2> QED BY <1>0, <1>1, <1>2, Climb
<1>4. n \in Good
  BY <1>0, <1>3
<1> QED BY <1>0, <1>4

(* ------------------- the portfolio --------------------------------------- *)
SomeFill == [ok : BOOLEAN, sol : Int]
Opened == [entry : Nat, spent : Int, got : Int, left : Int,
           heard : Seq([at : Nat, priced : BOOLEAN])]
ClosedDeal == [mint : DOMAIN Births, entry : Nat, exit : Int, spent : Int, got : Int]
Ports == [balance : Int, positions : UNION {[D -> Opened] : D \in SUBSET DOMAIN Births},
          closed : SUBSET ClosedDeal]

(* Who reads the closed trades finds these open at t.                        *)
HeldRow(p, m) == [entry |-> p.positions[m].entry, spent |-> p.positions[m].spent,
                  got |-> p.positions[m].got, mint |-> m]
HeldIn(p) == {HeldRow(p, m) : m \in DOMAIN p.positions}
OpenAt(p, t) == {c \in p.closed : t \in c.entry..c.exit} \cup {h \in HeldIn(p) : h.entry <= t}

Bounds(A) == IsFiniteSet(A) /\ Cardinality(A) <= MaxOpen
FitsAt(p, t) == Bounds(OpenAt(p, t))

LEMMA SwapFits ==
  ASSUME NEW A, Bounds(A), NEW B, NEW h, NEW c,
         B \subseteq (A \ {h}) \cup {c}, c \in B => h \in A
  PROVE  Bounds(B)
<1>1. IsFiniteSet(A) /\ Cardinality(A) \in Nat /\ MaxOpen \in Nat
  BY PortfolioAssumption, FS_CardinalityType DEF Bounds
<1>2. CASE h \in A
  <2>1. /\ IsFiniteSet(A \ {h}) /\ Cardinality(A \ {h}) = Cardinality(A) - 1
    BY <1>1, <1>2, FS_RemoveElement
  <2>2. /\ IsFiniteSet((A \ {h}) \cup {c})
        /\ Cardinality((A \ {h}) \cup {c}) <= Cardinality(A)
    BY <1>1, <2>1, FS_AddElement
  <2>3. IsFiniteSet(B) /\ Cardinality(B) <= Cardinality((A \ {h}) \cup {c})
    BY <2>2, FS_Subset
  <2>4. Cardinality(B) \in Nat /\ Cardinality((A \ {h}) \cup {c}) \in Nat
    BY <2>2, <2>3, FS_CardinalityType
  <2> QED BY <1>1, <2>2, <2>3, <2>4 DEF Bounds
<1>3. CASE h \notin A
  <2>1. B \in SUBSET A
    BY <1>3
  <2>2. IsFiniteSet(B) /\ Cardinality(B) <= Cardinality(A)
    BY <1>1, <2>1, FS_Subset
  <2>3. Cardinality(B) \in Nat
    BY <2>2, FS_CardinalityType
  <2> QED BY <1>1, <2>2, <2>3 DEF Bounds
<1> QED BY <1>2, <1>3

LEMMA FewerFit ==
  ASSUME NEW A, Bounds(A), NEW B, B \subseteq A
  PROVE  Bounds(B)
<1>1. IsFiniteSet(A) /\ Cardinality(A) \in Nat /\ MaxOpen \in Nat
  BY PortfolioAssumption, FS_CardinalityType DEF Bounds
<1>2. IsFiniteSet(B) /\ Cardinality(B) <= Cardinality(A)
  BY <1>1, FS_Subset
<1>3. Cardinality(B) \in Nat
  BY <1>2, FS_CardinalityType
<1> QED BY <1>1, <1>2, <1>3 DEF Bounds

LEMMA PortParts ==
  ASSUME NEW p \in Ports
  PROVE  /\ p.balance \in Int /\ p.closed \in SUBSET ClosedDeal
         /\ DOMAIN p.positions \subseteq DOMAIN Births
         /\ p.positions \in [DOMAIN p.positions -> Opened]
         /\ p = [balance |-> p.balance, positions |-> p.positions, closed |-> p.closed]
<1>1. /\ p.balance \in Int /\ p.closed \in SUBSET ClosedDeal
      /\ p.positions \in UNION {[D -> Opened] : D \in SUBSET DOMAIN Births}
      /\ p = [balance |-> p.balance, positions |-> p.positions, closed |-> p.closed]
  BY DEF Ports
<1>2. PICK D \in SUBSET DOMAIN Births : p.positions \in [D -> Opened]
  BY <1>1
<1>3. DOMAIN p.positions = D
  BY <1>2
<1> QED BY <1>1, <1>2, <1>3

LEMMA PortOf ==
  ASSUME NEW b \in Int, NEW D \in SUBSET DOMAIN Births, NEW f \in [D -> Opened],
         NEW C \in SUBSET ClosedDeal
  PROVE  [balance |-> b, positions |-> f, closed |-> C] \in Ports
<1>1. f \in UNION {[E -> Opened] : E \in SUBSET DOMAIN Births}
  OBVIOUS
<1> QED BY <1>1 DEF Ports

(* A closed trade is none of the positions held.                             *)
LEMMA ClosedIsNotHeld ==
  ASSUME NEW p \in Ports, NEW c \in ClosedDeal, NEW m \in DOMAIN p.positions
  PROVE  c # HeldRow(p, m)
<1>1. "exit" \in DOMAIN c
  BY DEF ClosedDeal
<1>2. "exit" \notin DOMAIN HeldRow(p, m)
  BY DEF HeldRow
<1> QED BY <1>1, <1>2

(* Closing puts one closed trade where one position was.                     *)
LEMMA ClosingFits ==
  ASSUME NEW p \in Ports, NEW m \in DOMAIN Births, NEW fill \in SomeFill, NEW exit \in Int
  PROVE  /\ ClosePosition(p, m, fill, exit) \in Ports
         /\ DOMAIN ClosePosition(p, m, fill, exit).positions \subseteq DOMAIN p.positions
         /\ \A t \in Int : FitsAt(p, t) => FitsAt(ClosePosition(p, m, fill, exit), t)
         /\ \A c \in ClosePosition(p, m, fill, exit).closed :
              c \in p.closed \/ (m \in DOMAIN p.positions /\ c.exit = exit)
<1>1. CASE m \notin DOMAIN p.positions
  BY <1>1 DEF ClosePosition
<1>2. CASE m \in DOMAIN p.positions
  <2> DEFINE income == IF fill.ok THEN fill.sol ELSE 0
             pos == p.positions[m]
             deal == [mint |-> m, entry |-> pos.entry, exit |-> exit,
                      spent |-> pos.spent, got |-> pos.got + income]
             left == [x \in DOMAIN p.positions \ {m} |-> p.positions[x]]
             q == [balance |-> p.balance + income, positions |-> left,
                   closed |-> p.closed \cup {deal}]
  <2>1. ClosePosition(p, m, fill, exit) = q
    BY <1>2 DEF ClosePosition
  <2>2. income \in Int
    BY DEF SomeFill
  <2>3. /\ p.balance \in Int /\ p.closed \in SUBSET ClosedDeal
        /\ DOMAIN p.positions \subseteq DOMAIN Births
        /\ p.positions \in [DOMAIN p.positions -> Opened]
    BY PortParts
  <2>4. pos \in Opened
    BY <1>2, <2>3
  <2>5. pos.entry \in Nat /\ pos.spent \in Int /\ pos.got \in Int
    BY <2>4 DEF Opened
  <2>6. deal \in ClosedDeal
    BY <2>2, <2>5 DEF ClosedDeal
  <2>7. left \in [DOMAIN p.positions \ {m} -> Opened]
    BY <2>3
  <2>8. q \in Ports
    <3>1. p.balance + income \in Int /\ p.closed \cup {deal} \in SUBSET ClosedDeal
          /\ DOMAIN p.positions \ {m} \in SUBSET DOMAIN Births
      BY <2>2, <2>3, <2>6
    <3> HIDE DEF left, deal, income
    <3> QED BY <2>7, <3>1, PortOf
  <2>9. /\ DOMAIN q.positions = DOMAIN p.positions \ {m}
        /\ \A x \in DOMAIN q.positions : q.positions[x] = p.positions[x]
        /\ q.closed = p.closed \cup {deal}
    OBVIOUS
  <2>10. deal.exit = exit /\ deal.entry = pos.entry
    OBVIOUS
  <2> HIDE DEF q, left, deal, income, pos
  <2>11. ASSUME NEW t \in Int, FitsAt(p, t)
         PROVE  FitsAt(q, t)
    <3> DEFINE h == HeldRow(p, m)
    <3>1. \A x \in DOMAIN q.positions : x \in DOMAIN p.positions /\ x # m /\ HeldRow(q, x) = HeldRow(p, x)
      BY <2>9 DEF HeldRow
    <3>2. HeldIn(q) \subseteq HeldIn(p)
      BY <3>1 DEF HeldIn
    <3>3. h \notin HeldIn(q)
      <4>1. h.mint = m
        BY DEF HeldRow
      <4>2. \A x \in DOMAIN q.positions : HeldRow(q, x).mint = x
        BY DEF HeldRow
      <4> QED BY <3>1, <4>1, <4>2 DEF HeldIn
    <3>4. h \notin q.closed
      BY <1>2, <2>3, <2>6, <2>9, ClosedIsNotHeld
    <3>5. OpenAt(q, t) \subseteq (OpenAt(p, t) \ {h}) \cup {deal}
      <4> HIDE DEF h
      <4> QED BY <2>9, <3>2, <3>3, <3>4 DEF OpenAt
    <3>6. deal \in OpenAt(q, t) => h \in OpenAt(p, t)
      <4>1. SUFFICES ASSUME deal \in OpenAt(q, t) PROVE h \in OpenAt(p, t)
        OBVIOUS
      <4>2. h \in HeldIn(p) /\ h.entry = pos.entry
        BY <1>2 DEF HeldIn, HeldRow, pos
      <4>3. CASE deal \in HeldIn(q)
        <5>1. PICK x \in DOMAIN p.positions : deal = HeldRow(p, x)
          BY <3>2, <4>3 DEF HeldIn
        <5> QED BY <2>6, <5>1, ClosedIsNotHeld
      <4>4. CASE t \in deal.entry..deal.exit
        <5>1. pos.entry <= t
          BY <2>5, <2>10, <4>4
        <5> QED BY <4>2, <5>1 DEF OpenAt
      <4> QED BY <4>1, <4>3, <4>4 DEF OpenAt
    <3> HIDE DEF h
    <3> QED BY <2>11, <3>5, <3>6, SwapFits DEF FitsAt
  <2>12. \A c \in q.closed : c \in p.closed \/ c.exit = exit
    BY <2>9, <2>10
  <2> QED BY <1>2, <2>1, <2>8, <2>9, <2>11, <2>12
<1> QED BY <1>1, <1>2

(* Of a position that stays held only its row may change.                    *)
LEMMA ChangingFits ==
  ASSUME NEW p \in Ports, NEW q \in Ports, NEW m \in DOMAIN p.positions,
         q.closed = p.closed, DOMAIN q.positions = DOMAIN p.positions,
         \A x \in DOMAIN p.positions \ {m} : q.positions[x] = p.positions[x],
         q.positions[m].entry = p.positions[m].entry
  PROVE  \A t \in Int : FitsAt(p, t) => FitsAt(q, t)
<1> TAKE t \in Int
<1> SUFFICES ASSUME FitsAt(p, t) PROVE FitsAt(q, t)
  OBVIOUS
<1>1. PICK h : h = HeldRow(p, m)
  OBVIOUS
<1>2. PICK k : k = HeldRow(q, m)
  OBVIOUS
<1>3. /\ h.mint = m /\ h.entry = p.positions[m].entry
      /\ k.mint = m /\ k.entry = p.positions[m].entry
  BY <1>1, <1>2 DEF HeldRow
<1>4. \A x \in DOMAIN p.positions \ {m} : HeldRow(q, x) = HeldRow(p, x) /\ HeldRow(p, x).mint = x
  BY DEF HeldRow
<1>5. HeldIn(q) \subseteq (HeldIn(p) \ {h}) \cup {k}
  BY <1>2, <1>3, <1>4 DEF HeldIn
<1>6. h \in HeldIn(p)
  BY <1>1 DEF HeldIn
<1>7. p.closed \in SUBSET ClosedDeal
  BY PortParts
<1>8. h \notin p.closed
  BY <1>1, <1>7, ClosedIsNotHeld
<1>9. k \notin p.closed
  <2>1. m \in DOMAIN q.positions
    OBVIOUS
  <2> QED BY <1>2, <1>7, <2>1, ClosedIsNotHeld
<1>10. OpenAt(q, t) \subseteq (OpenAt(p, t) \ {h}) \cup {k}
  BY <1>5, <1>8 DEF OpenAt
<1>11. k \in OpenAt(q, t) => h \in OpenAt(p, t)
  BY <1>3, <1>6, <1>9 DEF OpenAt
<1> QED BY <1>10, <1>11, SwapFits DEF FitsAt

LEMMA SellingFits ==
  ASSUME NEW p \in Ports, NEW m \in DOMAIN Births, NEW share \in Int, NEW fill \in SomeFill
  PROVE  /\ PartialSell(p, m, share, fill) \in Ports
         /\ DOMAIN PartialSell(p, m, share, fill).positions = DOMAIN p.positions
         /\ \A t \in Int : FitsAt(p, t) => FitsAt(PartialSell(p, m, share, fill), t)
         /\ PartialSell(p, m, share, fill).closed = p.closed
<1>1. CASE m \notin DOMAIN p.positions \/ ~fill.ok
  BY <1>1 DEF PartialSell
<1>2. CASE m \in DOMAIN p.positions /\ fill.ok
  <2>1. PICK q : q = PartialSell(p, m, share, fill)
    OBVIOUS
  <2>2. /\ p.balance \in Int /\ p.closed \in SUBSET ClosedDeal
        /\ DOMAIN p.positions \in SUBSET DOMAIN Births
        /\ p.positions \in [DOMAIN p.positions -> Opened]
        /\ p = [balance |-> p.balance, positions |-> p.positions, closed |-> p.closed]
    BY PortParts
  <2>3. fill.sol \in Int
    BY DEF SomeFill
  <2> DEFINE old == p.positions[m]
             new == [old EXCEPT !.got = @ + fill.sol, !.left = @ - share]
             mine == [p.positions EXCEPT ![m] = new]
  <2>4. q = [balance |-> p.balance + fill.sol, positions |-> mine, closed |-> p.closed]
    <3>1. q = [p EXCEPT !.balance = @ + fill.sol,
                 !.positions[m].got = @ + fill.sol,
                 !.positions[m].left = @ - share]
      BY <1>2, <2>1 DEF PartialSell
    <3> QED BY <1>2, <2>2, <3>1
  <2>5. old \in Opened
    BY <1>2, <2>2
  <2>6. new \in Opened /\ new.entry = old.entry
    <3>1. /\ old = [entry |-> old.entry, spent |-> old.spent, got |-> old.got,
                    left |-> old.left, heard |-> old.heard]
          /\ old.entry \in Nat /\ old.spent \in Int /\ old.got \in Int /\ old.left \in Int
          /\ old.heard \in Seq([at : Nat, priced : BOOLEAN])
      <4> HIDE DEF old
      <4> QED BY <2>5 DEF Opened
    <3>2. PICK n \in Int : n = old.got + fill.sol
      BY <2>3, <3>1
    <3>3. PICK k \in Int : k = old.left - share
      BY <3>1
    <3> HIDE DEF old
    <3>5. PICK x : x = [old EXCEPT !.got = n]
      OBVIOUS
    <3>6. x = [entry |-> old.entry, spent |-> old.spent, got |-> n, left |-> old.left,
               heard |-> old.heard]
      BY <3>1, <3>5
    <3>7. new = [x EXCEPT !.left = k]
      BY <3>2, <3>3, <3>5, <3>6
    <3>4. new = [entry |-> old.entry, spent |-> old.spent, got |-> n, left |-> k,
                 heard |-> old.heard]
      <4> HIDE DEF new
      <4> QED BY <3>6, <3>7
    <3> HIDE DEF new
    <3> QED BY <3>1, <3>4 DEF Opened
  <2> HIDE DEF new
  <2>7. mine \in [DOMAIN p.positions -> Opened]
    BY <2>2, <2>6
  <2>8. q \in Ports
    <3>1. p.balance + fill.sol \in Int
      BY <2>2, <2>3
    <3> HIDE DEF mine
    <3> QED BY <2>2, <2>4, <2>7, <3>1, PortOf
  <2>9. /\ q.closed = p.closed /\ DOMAIN q.positions = DOMAIN p.positions
        /\ q.positions = mine
    BY <2>4
  <2>10. /\ \A x \in DOMAIN p.positions \ {m} : mine[x] = p.positions[x]
         /\ mine[m].entry = p.positions[m].entry
    BY <1>2, <2>6
  <2> HIDE DEF mine, old
  <2>11. /\ \A x \in DOMAIN p.positions \ {m} : q.positions[x] = p.positions[x]
         /\ q.positions[m].entry = p.positions[m].entry
    BY <2>9, <2>10
  <2>12. \A t \in Int : FitsAt(p, t) => FitsAt(q, t)
    <3>1. m \in DOMAIN p.positions
      BY <1>2
    <3> QED BY <2>8, <2>9, <2>11, <3>1, ChangingFits
  <2> QED BY <2>1, <2>8, <2>9, <2>12
<1> QED BY <1>1, <1>2

(* The trade handed to a position.                                           *)
Hears(p, m, heard) == [p EXCEPT !.positions[m].heard = heard]

LEMMA HearingFits ==
  ASSUME NEW p \in Ports, NEW m \in DOMAIN p.positions,
         NEW heard \in Seq([at : Nat, priced : BOOLEAN])
  PROVE  /\ Hears(p, m, heard) \in Ports
         /\ DOMAIN Hears(p, m, heard).positions = DOMAIN p.positions
         /\ \A t \in Int : FitsAt(p, t) => FitsAt(Hears(p, m, heard), t)
         /\ Hears(p, m, heard).closed = p.closed
         /\ Hears(p, m, heard).positions[m].heard = heard
<1>1. PICK q : q = Hears(p, m, heard)
  OBVIOUS
<1>2. /\ p.balance \in Int /\ p.closed \in SUBSET ClosedDeal
      /\ DOMAIN p.positions \in SUBSET DOMAIN Births
      /\ p.positions \in [DOMAIN p.positions -> Opened]
      /\ p = [balance |-> p.balance, positions |-> p.positions, closed |-> p.closed]
  BY PortParts
<1> DEFINE old == p.positions[m]
           new == [old EXCEPT !.heard = heard]
           mine == [p.positions EXCEPT ![m] = new]
<1>3. q = [balance |-> p.balance, positions |-> mine, closed |-> p.closed]
  BY <1>1, <1>2 DEF Hears
<1>4. old \in Opened
  BY <1>2
<1>5. new \in Opened /\ new.entry = old.entry /\ new.heard = heard
  BY <1>4 DEF Opened
<1> HIDE DEF new
<1>6. mine \in [DOMAIN p.positions -> Opened]
  BY <1>2, <1>5
<1>7. q \in Ports
  <2> HIDE DEF mine
  <2> QED BY <1>2, <1>3, <1>6, PortOf
<1>8. /\ q.closed = p.closed /\ DOMAIN q.positions = DOMAIN p.positions
      /\ q.positions = mine
  BY <1>3
<1>9. /\ \A x \in DOMAIN p.positions \ {m} : mine[x] = p.positions[x]
      /\ mine[m].entry = p.positions[m].entry /\ mine[m].heard = heard
  BY <1>5
<1> HIDE DEF mine, old
<1>10. /\ \A x \in DOMAIN p.positions \ {m} : q.positions[x] = p.positions[x]
       /\ q.positions[m].entry = p.positions[m].entry /\ q.positions[m].heard = heard
  BY <1>8, <1>9
<1>11. \A t \in Int : FitsAt(p, t) => FitsAt(q, t)
  BY <1>7, <1>8, <1>10, ChangingFits
<1> QED BY <1>1, <1>7, <1>8, <1>10, <1>11

(* Opening holds one more, from its entry on.                                *)
LEMMA OpeningFits ==
  ASSUME NEW p \in Ports, NEW m \in DOMAIN Births, NEW fill \in SomeFill, NEW since \in Nat
  PROVE  /\ OpenPosition(p, m, fill, since) \in Ports
         /\ Bounds(DOMAIN p.positions) => Bounds(DOMAIN OpenPosition(p, m, fill, since).positions)
         /\ \A t \in Int : FitsAt(p, t) /\ t < since => FitsAt(OpenPosition(p, m, fill, since), t)
         /\ OpenPosition(p, m, fill, since).closed = p.closed
<1>1. CASE ~fill.ok \/ m \in DOMAIN p.positions \/ ~CanBuy(p)
  BY <1>1 DEF OpenPosition
<1>2. CASE fill.ok /\ m \notin DOMAIN p.positions /\ CanBuy(p)
  <2>1. PICK q : q = OpenPosition(p, m, fill, since)
    OBVIOUS
  <2>2. /\ p.balance \in Int /\ p.closed \in SUBSET ClosedDeal
        /\ DOMAIN p.positions \in SUBSET DOMAIN Births
        /\ p.positions \in [DOMAIN p.positions -> Opened]
        /\ p = [balance |-> p.balance, positions |-> p.positions, closed |-> p.closed]
    BY PortParts
  <2>3. fill.sol \in Int
    BY DEF SomeFill
  <2> DEFINE new == [entry |-> since, spent |-> fill.sol, got |-> 0, left |-> Whole, heard |-> <<>>]
             mine == [x \in DOMAIN p.positions \cup {m} |-> IF x = m THEN new ELSE p.positions[x]]
  <2>4. q = [balance |-> p.balance - fill.sol, positions |-> mine, closed |-> p.closed]
    BY <1>2, <2>1, <2>2 DEF OpenPosition
  <2>5. new \in Opened /\ new.entry = since
    BY <2>3 DEF Opened, Whole
  <2> HIDE DEF new
  <2>6. mine \in [DOMAIN p.positions \cup {m} -> Opened]
    BY <2>2, <2>5
  <2>7. q \in Ports
    <3>1. p.balance - fill.sol \in Int /\ DOMAIN p.positions \cup {m} \in SUBSET DOMAIN Births
      BY <2>2, <2>3
    <3> HIDE DEF mine
    <3> QED BY <2>2, <2>4, <2>6, <3>1, PortOf
  <2>8. /\ q.closed = p.closed /\ DOMAIN q.positions = DOMAIN p.positions \cup {m}
        /\ q.positions = mine
    BY <2>4
  <2>9. /\ \A x \in DOMAIN p.positions : mine[x] = p.positions[x]
        /\ mine[m].entry = since
    BY <1>2, <2>5
  <2> HIDE DEF mine
  <2>10. \A x \in DOMAIN p.positions : HeldRow(q, x) = HeldRow(p, x)
    BY <2>8, <2>9 DEF HeldRow
  <2>11. HeldIn(q) = HeldIn(p) \cup {HeldRow(q, m)} /\ HeldRow(q, m).entry = since
    BY <2>8, <2>9, <2>10 DEF HeldIn, HeldRow
  <2>12. ASSUME NEW t \in Int, FitsAt(p, t), t < since PROVE FitsAt(q, t)
    <3>1. ~(HeldRow(q, m).entry <= t)
      BY <2>11, <2>12
    <3>2. \A h \in HeldIn(q) : h.entry <= t => h \in HeldIn(p)
      BY <2>11, <3>1
    <3>3. OpenAt(q, t) \subseteq OpenAt(p, t)
      BY <2>8, <3>2 DEF OpenAt
    <3> QED BY <2>12, <3>3, FewerFit DEF FitsAt
  <2>13. ASSUME Bounds(DOMAIN p.positions) PROVE Bounds(DOMAIN q.positions)
    <3>1. IsFiniteSet(DOMAIN p.positions) /\ Cardinality(DOMAIN p.positions) < MaxOpen
      BY <1>2, <2>13 DEF Bounds, CanBuy
    <3>2. Cardinality(DOMAIN p.positions) \in Nat /\ MaxOpen \in Nat
      BY <3>1, FS_CardinalityType, PortfolioAssumption
    <3>3. /\ IsFiniteSet(DOMAIN p.positions \cup {m})
          /\ Cardinality(DOMAIN p.positions \cup {m}) = Cardinality(DOMAIN p.positions) + 1
      BY <1>2, <3>1, FS_AddElement
    <3>4. Cardinality(DOMAIN p.positions \cup {m}) \in Nat
      BY <3>3, FS_CardinalityType
    <3>5. Cardinality(DOMAIN p.positions \cup {m}) <= MaxOpen
      BY <3>1, <3>2, <3>3, <3>4
    <3> QED BY <2>8, <3>3, <3>5 DEF Bounds
  <2> QED BY <2>1, <2>7, <2>8, <2>12, <2>13
<1> QED BY <1>1, <1>2

(* No more positions are open, now or at any of the times, than allowed.     *)
Bounded(times) == {p \in Ports : Bounds(DOMAIN p.positions) /\ \A t \in times : FitsAt(p, t)}

LEMMA SaleFills ==
  ASSUME NEW heard, NEW left, NEW income \in Int
  PROVE  SimulateSell(heard, left, income) \in SomeFill
BY DEF SimulateSell, SomeFill, NoFill

LEMMA ClosingBounded ==
  ASSUME NEW times \in SUBSET Int, NEW p \in Bounded(times), NEW m \in DOMAIN Births,
         NEW fill \in SomeFill, NEW exit \in Int
  PROVE  /\ ClosePosition(p, m, fill, exit) \in Bounded(times)
         /\ \A c \in ClosePosition(p, m, fill, exit).closed : c \in p.closed \/ c.exit = exit
<1>1. p \in Ports /\ Bounds(DOMAIN p.positions) /\ \A t \in times : FitsAt(p, t)
  BY DEF Bounded
<1>2. /\ ClosePosition(p, m, fill, exit) \in Ports
      /\ DOMAIN ClosePosition(p, m, fill, exit).positions \subseteq DOMAIN p.positions
      /\ \A t \in Int : FitsAt(p, t) => FitsAt(ClosePosition(p, m, fill, exit), t)
      /\ \A c \in ClosePosition(p, m, fill, exit).closed :
           c \in p.closed \/ (m \in DOMAIN p.positions /\ c.exit = exit)
  BY <1>1, ClosingFits
<1>3. Bounds(DOMAIN ClosePosition(p, m, fill, exit).positions)
  BY <1>1, <1>2, FewerFit
<1>4. \A t \in times : FitsAt(ClosePosition(p, m, fill, exit), t)
  BY <1>1, <1>2
<1> QED BY <1>2, <1>3, <1>4 DEF Bounded

LEMMA HeldIsOpened ==
  ASSUME NEW times, NEW p \in Bounded(times), NEW m \in DOMAIN p.positions
  PROVE  /\ p.positions[m] \in Opened /\ p.positions[m].entry \in Nat
         /\ p.positions[m].heard \in Seq([at : Nat, priced : BOOLEAN])
<1>1. p \in Ports
  BY DEF Bounded
<1>2. p.positions[m] \in Opened
  BY <1>1, PortParts
<1> QED BY <1>2 DEF Opened

(* An expired position is closed at a time that is over.                     *)
LEMMA ExpireBounded ==
  ASSUME NEW times \in SUBSET Int, NEW p \in Bounded(times), NEW m \in DOMAIN Births,
         NEW now \in Nat, NEW income \in Int
  PROVE  /\ Expire(p, m, now, income) \in Bounded(times)
         /\ \A c \in Expire(p, m, now, income).closed : c \in p.closed \/ c.exit < now
<1>1. PICK fill \in SomeFill :
        fill = SimulateSell(p.positions[m].heard, p.positions[m].left, income)
  BY SaleFills
<1>2. CASE m \notin DOMAIN p.positions
  <2>1. Expire(p, m, now, income) = p
    BY <1>2 DEF Expire, ClosePosition
  <2> QED BY <2>1
<1>3. CASE m \in DOMAIN p.positions
  <2>1. PICK pos \in Opened : pos = p.positions[m]
    BY <1>3, HeldIsOpened
  <2>2. pos.entry \in Nat /\ pos.heard \in Seq([at : Nat, priced : BOOLEAN])
    BY <2>1 DEF Opened
  <2>3. MaxHold \in Nat /\ Inactivity \in Nat
    BY BacktestAssumption
  <2>4. CASE Late(pos, now)
    <3>1. PICK exit \in Int : exit = pos.entry + MaxHold
      BY <2>2, <2>3
    <3>2. exit < now
      BY <2>2, <2>3, <2>4, <3>1 DEF Late
    <3>3. Expire(p, m, now, income) = ClosePosition(p, m, fill, exit)
      BY <1>1, <2>1, <2>4, <3>1 DEF Expire
    <3>4. /\ ClosePosition(p, m, fill, exit) \in Bounded(times)
          /\ \A c \in ClosePosition(p, m, fill, exit).closed : c \in p.closed \/ c.exit = exit
      BY ONLY <3>1, ClosingBounded, times \in SUBSET Int, p \in Bounded(times),
              m \in DOMAIN Births, fill \in SomeFill
    <3> QED BY ONLY <3>2, <3>3, <3>4
  <2>5. CASE ~Late(pos, now) /\ Quiet(pos, now)
    <3>1. Last(pos.heard).at \in Nat
      <4>1. pos.heard # <<>>
        BY <2>5 DEF Quiet
      <4>2. PICK d \in [at : Nat, priced : BOOLEAN] : d = pos.heard[Len(pos.heard)]
        BY <2>2, <4>1, LastIn
      <4>3. d.at \in Nat
        OBVIOUS
      <4> QED BY <4>2, <4>3 DEF Last
    <3>2. PICK exit \in Int : exit = Last(pos.heard).at + Inactivity
      BY <2>3, <3>1
    <3>3. exit < now
      BY <2>3, <2>5, <3>1, <3>2 DEF Quiet
    <3>4. Expire(p, m, now, income) = ClosePosition(p, m, fill, exit)
      BY <1>1, <2>1, <2>5, <3>2 DEF Expire
    <3>5. /\ ClosePosition(p, m, fill, exit) \in Bounded(times)
          /\ \A c \in ClosePosition(p, m, fill, exit).closed : c \in p.closed \/ c.exit = exit
      BY ONLY <3>2, ClosingBounded, times \in SUBSET Int, p \in Bounded(times),
              m \in DOMAIN Births, fill \in SomeFill
    <3> QED BY ONLY <3>3, <3>4, <3>5
  <2>6. CASE ~Late(pos, now) /\ ~Quiet(pos, now)
    <3>1. Expire(p, m, now, income) = p
      BY <2>1, <2>6 DEF Expire
    <3> QED BY <3>1
  <2> QED BY <2>4, <2>5, <2>6
<1> QED BY <1>2, <1>3

(* ------------------- the folds over a portfolio --------------------------- *)
ExpireStep(f, p, s, now, income) ==
  IF s = {} THEN p
  ELSE Expire(f[s \ {Chosen(s)}], Chosen(s), now, income[Chosen(s)])

LEMMA ExpiredStays ==
  ASSUME NEW V, NEW p \in V, IsFiniteSet(DOMAIN p.positions),
         NEW now, NEW income,
         \A q \in V, m \in DOMAIN p.positions : Expire(q, m, now, income[m]) \in V
  PROVE  CloseExpiredPositions(p, now, income) \in V
<1>1. PICK S : S = DOMAIN p.positions
  OBVIOUS
<1> DEFINE f == CHOOSE h : h = [s \in SUBSET S |-> ExpireStep(h, p, s, now, income)]
           c == [s \in SUBSET S |-> Chosen(s)]
           g == [xv \in S \X V |-> Expire(xv[2], xv[1], now, income[xv[1]])]
<1>2. CloseExpiredPositions(p, now, income) = f[S]
  BY <1>1 DEF CloseExpiredPositions, FoldSet, MapThenFoldSet, ExpireStep, Chosen
<1>3. \A s \in SUBSET S : s # {} => c[s] = Chosen(s) /\ Chosen(s) \in s
  BY DEF Chosen
<1>4. g \in [S \X V -> V]
  BY <1>1
<1>5. \A x \in S, v \in V : g[<<x, v>>] = Expire(v, x, now, income[x])
  OBVIOUS
<1>6. \E h : h = [s \in SUBSET S |-> ExpireStep(h, p, s, now, income)]
  <2> HIDE DEF c, g, f
  <2>1. Picks(c, S) /\ IsFiniteSet(S)
    BY <1>1, <1>3 DEF Picks
  <2>9. FoldSolved(S, V, c, g, p)
    BY <1>4, <2>1, FoldExists
  <2>2. PICK h \in [SUBSET S -> V] : \A s \in SUBSET S : h[s] = FoldStep(h, c, g, p, s)
    BY <2>9 DEF FoldSolved
  <2>3. ASSUME NEW s \in SUBSET S PROVE FoldStep(h, c, g, p, s) = ExpireStep(h, p, s, now, income)
    <3>1. CASE s = {}
      BY <3>1 DEF FoldStep, ExpireStep
    <3>2. CASE s # {}
      <4>1. c[s] = Chosen(s) /\ Chosen(s) \in S /\ s \ {Chosen(s)} \in SUBSET S
        BY <1>3, <3>2
      <4>2. h[s \ {Chosen(s)}] \in V
        BY <4>1
      <4> QED BY <1>5, <3>2, <4>1, <4>2 DEF FoldStep, ExpireStep
    <3> QED BY <3>1, <3>2
  <2>4. h = [s \in SUBSET S |-> h[s]]
    OBVIOUS
  <2>5. h = [s \in SUBSET S |-> ExpireStep(h, p, s, now, income)]
    BY <2>2, <2>3, <2>4
  <2> QED BY <2>5
<1>7. f = [s \in SUBSET S |-> ExpireStep(f, p, s, now, income)]
  BY <1>6
<1> HIDE DEF f
<1>8. \A s \in SUBSET S : f[s] = ExpireStep(f, p, s, now, income)
  BY <1>7
<1>9. f[{}] \in V
  BY <1>8 DEF ExpireStep
<1>10. ASSUME NEW s \in SUBSET S, s # {}, f[s \ {c[s]}] \in V PROVE f[s] \in V
  <2>1. c[s] = Chosen(s) /\ Chosen(s) \in DOMAIN p.positions
    BY <1>1, <1>3, <1>10
  <2>2. f[s \ {Chosen(s)}] \in V
    <3> HIDE DEF c
    <3> QED BY <1>10, <2>1
  <2>3. Expire(f[s \ {Chosen(s)}], Chosen(s), now, income[Chosen(s)]) \in V
    BY <2>1, <2>2
  <2> QED BY <1>8, <1>10, <2>3 DEF ExpireStep
<1>11. f[S] \in V
  <2>1. Picks(c, S)
    BY <1>3 DEF Picks
  <2> HIDE DEF c
  <2> QED BY <1>1, <1>9, <1>10, <2>1, FoldStays
<1> QED BY <1>2, <1>11

OpenStep(f, p, s, order) ==
  IF s = {} THEN p
  ELSE OpenPosition(f[s \ {Max(s)}], order[Max(s)].mint, order[Max(s)].fill, order[Max(s)].entry)

LEMMA OpenedStays ==
  ASSUME NEW V, NEW p \in V, NEW order, NEW n \in Nat, DOMAIN order = 1..n,
         \A q \in V, i \in DOMAIN order :
           OpenPosition(q, order[i].mint, order[i].fill, order[i].entry) \in V
  PROVE  OpenDueCandidates(p, order) \in V
<1>1. PICK S : S = DOMAIN order /\ IsFiniteSet(S)
  BY FS_Interval
<1> DEFINE f == CHOOSE h : h = [s \in SUBSET S |-> OpenStep(h, p, s, order)]
           c == [s \in SUBSET S |-> Max(s)]
           g == [xv \in S \X V |-> OpenPosition(xv[2], order[xv[1]].mint, order[xv[1]].fill,
                                                 order[xv[1]].entry)]
<1>2. OpenDueCandidates(p, order) = f[S]
  BY <1>1 DEF OpenDueCandidates, FoldLeft, MapThenFoldSet, OpenStep
<1>3. \A s \in SUBSET S : s # {} => c[s] = Max(s) /\ Max(s) \in s
  <2> TAKE s \in SUBSET S
  <2> HAVE s # {}
  <2>1. s \subseteq 1..n /\ 1 \in Int /\ n \in Int
    BY <1>1
  <2> QED BY <2>1, GreatestInt
<1>4. g \in [S \X V -> V]
  BY <1>1
<1>5. \A x \in S, v \in V : g[<<x, v>>] =
        OpenPosition(v, order[x].mint, order[x].fill, order[x].entry)
  OBVIOUS
<1>6. \E h : h = [s \in SUBSET S |-> OpenStep(h, p, s, order)]
  <2> HIDE DEF c, g, f
  <2>1. Picks(c, S) /\ IsFiniteSet(S)
    BY <1>1, <1>3 DEF Picks
  <2>9. FoldSolved(S, V, c, g, p)
    BY <1>4, <2>1, FoldExists
  <2>2. PICK h \in [SUBSET S -> V] : \A s \in SUBSET S : h[s] = FoldStep(h, c, g, p, s)
    BY <2>9 DEF FoldSolved
  <2>3. ASSUME NEW s \in SUBSET S PROVE FoldStep(h, c, g, p, s) = OpenStep(h, p, s, order)
    <3>1. CASE s = {}
      BY <3>1 DEF FoldStep, OpenStep
    <3>2. CASE s # {}
      <4>1. c[s] = Max(s) /\ Max(s) \in S /\ s \ {Max(s)} \in SUBSET S
        BY <1>3, <3>2
      <4>2. h[s \ {Max(s)}] \in V
        BY <4>1
      <4> QED BY <1>5, <3>2, <4>1, <4>2 DEF FoldStep, OpenStep
    <3> QED BY <3>1, <3>2
  <2>4. h = [s \in SUBSET S |-> h[s]]
    OBVIOUS
  <2>5. h = [s \in SUBSET S |-> OpenStep(h, p, s, order)]
    BY <2>2, <2>3, <2>4
  <2> QED BY <2>5
<1>7. f = [s \in SUBSET S |-> OpenStep(f, p, s, order)]
  BY <1>6
<1> HIDE DEF f
<1>8. \A s \in SUBSET S : f[s] = OpenStep(f, p, s, order)
  BY <1>7
<1>9. f[{}] \in V
  BY <1>8 DEF OpenStep
<1>10. ASSUME NEW s \in SUBSET S, s # {}, f[s \ {c[s]}] \in V PROVE f[s] \in V
  <2>1. c[s] = Max(s) /\ Max(s) \in DOMAIN order
    BY <1>1, <1>3, <1>10
  <2>2. f[s \ {Max(s)}] \in V
    <3> HIDE DEF c
    <3> QED BY <1>10, <2>1
  <2>3. OpenPosition(f[s \ {Max(s)}], order[Max(s)].mint, order[Max(s)].fill,
                    order[Max(s)].entry) \in V
    BY <2>1, <2>2
  <2> QED BY <1>8, <1>10, <2>3 DEF OpenStep
<1>11. f[S] \in V
  <2>1. Picks(c, S)
    BY <1>3 DEF Picks
  <2> HIDE DEF c
  <2> QED BY <1>1, <1>9, <1>10, <2>1, FoldStays
<1> QED BY <1>2, <1>11

AllClosed(p, sale) == FoldSet(LAMBDA m, q : CloseRemaining(q, m, sale), p, DOMAIN p.positions)

RemainingStep(f, p, s, sale) ==
  IF s = {} THEN p ELSE CloseRemaining(f[s \ {Chosen(s)}], Chosen(s), sale)

LEMMA RemainingStays ==
  ASSUME NEW V, NEW p \in V, IsFiniteSet(DOMAIN p.positions),
         NEW sale,
         \A q \in V, m \in DOMAIN p.positions : CloseRemaining(q, m, sale) \in V
  PROVE  AllClosed(p, sale) \in V
<1>1. PICK S : S = DOMAIN p.positions
  OBVIOUS
<1> DEFINE f == CHOOSE h : h = [s \in SUBSET S |-> RemainingStep(h, p, s, sale)]
           c == [s \in SUBSET S |-> Chosen(s)]
           g == [xv \in S \X V |-> CloseRemaining(xv[2], xv[1], sale)]
<1>2. AllClosed(p, sale) = f[S]
  BY <1>1 DEF AllClosed, FoldSet, MapThenFoldSet, RemainingStep, Chosen
<1>3. \A s \in SUBSET S : s # {} => c[s] = Chosen(s) /\ Chosen(s) \in s
  BY DEF Chosen
<1>4. g \in [S \X V -> V]
  BY <1>1
<1>5. \A x \in S, v \in V : g[<<x, v>>] = CloseRemaining(v, x, sale)
  OBVIOUS
<1>6. \E h : h = [s \in SUBSET S |-> RemainingStep(h, p, s, sale)]
  <2> HIDE DEF c, g, f
  <2>1. Picks(c, S) /\ IsFiniteSet(S)
    BY <1>1, <1>3 DEF Picks
  <2>9. FoldSolved(S, V, c, g, p)
    BY <1>4, <2>1, FoldExists
  <2>2. PICK h \in [SUBSET S -> V] : \A s \in SUBSET S : h[s] = FoldStep(h, c, g, p, s)
    BY <2>9 DEF FoldSolved
  <2>3. ASSUME NEW s \in SUBSET S PROVE FoldStep(h, c, g, p, s) = RemainingStep(h, p, s, sale)
    <3>1. CASE s = {}
      BY <3>1 DEF FoldStep, RemainingStep
    <3>2. CASE s # {}
      <4>1. c[s] = Chosen(s) /\ Chosen(s) \in S /\ s \ {Chosen(s)} \in SUBSET S
        BY <1>3, <3>2
      <4>2. h[s \ {Chosen(s)}] \in V
        BY <4>1
      <4> QED BY <1>5, <3>2, <4>1, <4>2 DEF FoldStep, RemainingStep
    <3> QED BY <3>1, <3>2
  <2>4. h = [s \in SUBSET S |-> h[s]]
    OBVIOUS
  <2>5. h = [s \in SUBSET S |-> RemainingStep(h, p, s, sale)]
    BY <2>2, <2>3, <2>4
  <2> QED BY <2>5
<1>7. f = [s \in SUBSET S |-> RemainingStep(f, p, s, sale)]
  BY <1>6
<1> HIDE DEF f
<1>8. \A s \in SUBSET S : f[s] = RemainingStep(f, p, s, sale)
  BY <1>7
<1>9. f[{}] \in V
  BY <1>8 DEF RemainingStep
<1>10. ASSUME NEW s \in SUBSET S, s # {}, f[s \ {c[s]}] \in V PROVE f[s] \in V
  <2>1. c[s] = Chosen(s) /\ Chosen(s) \in DOMAIN p.positions
    BY <1>1, <1>3, <1>10
  <2>2. f[s \ {Chosen(s)}] \in V
    <3> HIDE DEF c
    <3> QED BY <1>10, <2>1
  <2>3. CloseRemaining(f[s \ {Chosen(s)}], Chosen(s), sale) \in V
    BY <2>1, <2>2
  <2> QED BY <1>8, <1>10, <2>3 DEF RemainingStep
<1>11. f[S] \in V
  <2>1. Picks(c, S)
    BY <1>3 DEF Picks
  <2> HIDE DEF c
  <2> QED BY <1>1, <1>9, <1>10, <2>1, FoldStays
<1> QED BY <1>2, <1>11

(* ------------------- the engine ------------------------------------------ *)
BacktestSpec == BacktestInit /\ [][BacktestNext]_backtestVars

Waiting == [mint : DOMAIN Births, fill : SomeFill, entry : Nat]
TapeTimes == {tape[i].at : i \in DOMAIN tape}

EngineShape ==
  /\ engine \in [pc : {"score", "replay", "tail", "done"}, now : Nat,
                 unscored : SUBSET DOMAIN Births]
  /\ due \in SUBSET Waiting /\ IsFiniteSet(due)
  /\ tape \in Seq(MarketTrades)
  /\ portfolio \in Bounded(TapeTimes)

(* Who is due waits for a trade later than all of the tape: the portfolio is *)
(* never opened as of a trade it was already read at.  While trades are      *)
(* replayed nothing was closed as of a time to come.                         *)
WaitsAhead ==
  /\ \A c \in due, t \in TapeTimes : t < c.entry
  /\ \A t \in TapeTimes : t <= engine.now
  /\ engine.pc = "score" => tape = <<>>
  /\ engine.pc \in {"score", "replay"} =>
       \A c \in portfolio.closed : c.exit <= engine.now /\ engine.now \in TapeTimes

BacktestInv == EngineShape /\ WaitsAhead

LEMMA TapeTimesAreNat == tape \in Seq(MarketTrades) => TapeTimes \in SUBSET Nat
<1> SUFFICES ASSUME tape \in Seq(MarketTrades), NEW i \in DOMAIN tape PROVE tape[i].at \in Nat
  BY DEF TapeTimes
<1>1. PICK d \in MarketTrades : d = tape[i]
  OBVIOUS
<1>2. d.at \in 0..Horizon /\ Horizon \in Nat
  BY BacktestAssumption DEF MarketTrades
<1> QED BY <1>1, <1>2

LEMMA NoneBounded == NewPortfolio \in Bounded({})
<1>1. NewPortfolio.positions = << >> /\ NewPortfolio.closed = {}
  BY DEF NewPortfolio
<1>2. NewPortfolio \in Ports
  <2>1. StartCash \in Int /\ {} \in SUBSET DOMAIN Births /\ {} \in SUBSET ClosedDeal
    BY PortfolioAssumption
  <2>2. << >> \in [{} -> Opened]
    OBVIOUS
  <2> QED BY <2>1, <2>2, PortOf DEF NewPortfolio
<1>3. Bounds({})
  BY FS_EmptySet, PortfolioAssumption DEF Bounds
<1>4. DOMAIN NewPortfolio.positions = {}
  BY <1>1
<1> QED BY <1>2, <1>3, <1>4 DEF Bounded

LEMMA BacktestStarts == BacktestInit => BacktestInv
<1> SUFFICES ASSUME BacktestInit PROVE BacktestInv
  OBVIOUS
<1>1. /\ engine = [pc |-> "score", now |-> 0, unscored |-> DOMAIN Births]
      /\ due = {} /\ portfolio = NewPortfolio /\ tape = <<>>
  BY DEF BacktestInit
<1>2. TapeTimes = {} /\ tape \in Seq(MarketTrades)
  BY <1>1 DEF TapeTimes
<1>3. EngineShape
  BY <1>1, <1>2, NoneBounded, FS_EmptySet DEF EngineShape
<1>4. WaitsAhead
  BY <1>1, <1>2 DEF WaitsAhead, NewPortfolio
<1> QED BY <1>3, <1>4 DEF BacktestInv

LEMMA BacktestScores == BacktestInv /\ ScoreTokenForEntry => BacktestInv'
<1> SUFFICES ASSUME BacktestInv, ScoreTokenForEntry PROVE BacktestInv'
  OBVIOUS
<1>1. EngineShape /\ WaitsAhead /\ engine.pc = "score" /\ UNCHANGED <<portfolio, tape>>
  BY DEF BacktestInv, ScoreTokenForEntry
<1>2. PICK m \in engine.unscored, fast \in BOOLEAN, full \in BOOLEAN, priced \in BOOLEAN :
        /\ due' = IF fast \/ full
                  THEN due \cup {[mint |-> m, fill |-> SimulateBuy(priced),
                         entry |-> Births[m] + IF fast THEN FastSec ELSE ObserveSec]}
                  ELSE due
        /\ engine' = [engine EXCEPT !.unscored = @ \ {m},
                        !.pc = IF engine.unscored = {m} THEN "replay" ELSE @]
  BY DEF ScoreTokenForEntry
<1>3. m \in DOMAIN Births
  BY <1>1 DEF EngineShape
<1>4. tape = <<>> /\ TapeTimes = {} /\ TapeTimes' = {} /\ tape' = <<>>
  BY <1>1 DEF WaitsAhead, TapeTimes
<1>5. /\ engine' \in [pc : {"score", "replay", "tail", "done"}, now : Nat,
                      unscored : SUBSET DOMAIN Births]
      /\ engine'.now = engine.now
  <2>1. PICK rest \in SUBSET DOMAIN Births : rest = engine.unscored \ {m}
    BY <1>1 DEF EngineShape
  <2>2. PICK pc \in {"score", "replay"} : pc = IF engine.unscored = {m} THEN "replay" ELSE engine.pc
    BY <1>1
  <2>3. engine' = [engine EXCEPT !.unscored = rest, !.pc = pc]
    BY <1>2, <2>1, <2>2
  <2> QED BY <1>1, <2>3 DEF EngineShape
<1>6. due' \in SUBSET Waiting /\ IsFiniteSet(due')
  <2>1. PICK since \in Nat : since = Births[m] + IF fast THEN FastSec ELSE ObserveSec
    BY <1>3, BacktestAssumption
  <2>2. PICK fill \in SomeFill : fill = SimulateBuy(priced)
    <3>1. BuyAmount \in Int
      BY PortfolioAssumption
    <3>2. [ok |-> TRUE, sol |-> BuyAmount] \in SomeFill /\ NoFill \in SomeFill
      BY <3>1 DEF SomeFill, NoFill
    <3> QED BY <3>2 DEF SimulateBuy
  <2>3. [mint |-> m, fill |-> fill, entry |-> since] \in Waiting
    BY <1>3 DEF Waiting
  <2>4. due' = due \/ due' = due \cup {[mint |-> m, fill |-> fill, entry |-> since]}
    BY <1>2, <2>1, <2>2
  <2>5. due \in SUBSET Waiting /\ IsFiniteSet(due)
    BY <1>1 DEF EngineShape
  <2>6. IsFiniteSet(due')
    <3>1. PICK c : c = [mint |-> m, fill |-> fill, entry |-> since]
      OBVIOUS
    <3>2. IsFiniteSet(due \cup {c})
      BY <2>5, FS_AddElement
    <3> QED BY <2>4, <2>5, <3>1, <3>2
  <2> QED BY <2>3, <2>4, <2>5, <2>6
<1>7. EngineShape'
  BY <1>1, <1>4, <1>5, <1>6 DEF EngineShape
<1>8. WaitsAhead'
  <2>1. \A c \in portfolio.closed : FALSE
    BY <1>1, <1>4 DEF WaitsAhead
  <2>2. portfolio' = portfolio
    BY <1>1
  <2> QED BY <1>4, <2>1, <2>2 DEF WaitsAhead
<1> QED BY <1>7, <1>8 DEF BacktestInv

LEMMA DueParts ==
  ASSUME EngineShape, NEW now \in Nat, NEW order \in Orders(now)
  PROVE  /\ DueBy(now) \subseteq due /\ \A c \in DueBy(now) : c.entry <= now
         /\ \E n \in Nat : DOMAIN order = 1..n
         /\ \A i \in DOMAIN order : order[i] \in DueBy(now)
<1>1. DueBy(now) \in SUBSET due /\ \A c \in DueBy(now) : c.entry <= now
  BY DEF DueBy
<1>2. IsFiniteSet(DueBy(now))
  BY <1>1, FS_Subset DEF EngineShape
<1>3. Cardinality(DueBy(now)) \in Nat
  BY <1>2, FS_CardinalityType
<1>4. order \in [1..Cardinality(DueBy(now)) -> DueBy(now)]
  BY DEF Orders, SetToSeqs
<1> QED BY <1>1, <1>3, <1>4

(* No trade was closed as of a time after the limit.                         *)
ClosedBy(times, limit) == {p \in Bounded(times) : \A c \in p.closed : c.exit <= limit}

LEMMA ExpiredBounded ==
  ASSUME NEW times \in SUBSET Int, NEW p \in Bounded(times), NEW now \in Nat,
         NEW income \in [DOMAIN Births -> Int]
  PROVE  /\ CloseExpiredPositions(p, now, income) \in Bounded(times)
         /\ \A limit \in Int : now - 1 <= limit /\ p \in ClosedBy(times, limit) =>
              CloseExpiredPositions(p, now, income) \in ClosedBy(times, limit)
<1>1. IsFiniteSet(DOMAIN p.positions) /\ DOMAIN p.positions \subseteq DOMAIN Births
  <2>1. p \in Ports /\ IsFiniteSet(DOMAIN p.positions)
    BY DEF Bounded, Bounds
  <2> QED BY <2>1, PortParts
<1>2. ASSUME NEW q \in Bounded(times), NEW m \in DOMAIN p.positions
      PROVE  /\ Expire(q, m, now, income[m]) \in Bounded(times)
             /\ \A c \in Expire(q, m, now, income[m]).closed : c \in q.closed \/ c.exit < now
  <2>1. m \in DOMAIN Births /\ income[m] \in Int
    BY <1>1
  <2> QED BY <2>1, ExpireBounded
<1>3. CloseExpiredPositions(p, now, income) \in Bounded(times)
  BY <1>1, <1>2, ExpiredStays
<1>4. ASSUME NEW limit \in Int, now - 1 <= limit, p \in ClosedBy(times, limit)
      PROVE  CloseExpiredPositions(p, now, income) \in ClosedBy(times, limit)
  <2>1. ASSUME NEW q \in ClosedBy(times, limit), NEW m \in DOMAIN p.positions
        PROVE  Expire(q, m, now, income[m]) \in ClosedBy(times, limit)
    <3>1. q \in Bounded(times) /\ \A c \in q.closed : c.exit <= limit
      BY DEF ClosedBy
    <3>2. PICK r \in Bounded(times) : r = Expire(q, m, now, income[m])
      BY <1>2, <3>1
    <3>3. \A c \in r.closed : c \in q.closed \/ c.exit < now
      BY <1>2, <3>1, <3>2
    <3>4. \A c \in r.closed : c.exit \in Int
      BY PortParts DEF Bounded, ClosedDeal
    <3>5. \A c \in r.closed : c.exit <= limit
      BY <1>4, <3>1, <3>3, <3>4
    <3> QED BY <3>2, <3>5 DEF ClosedBy
  <2> QED BY <1>1, <1>4, <2>1, ExpiredStays
<1> QED BY <1>3, <1>4

LEMMA OpenedBounded ==
  ASSUME NEW times \in SUBSET Int, NEW p \in Bounded(times), NEW order, NEW n \in Nat,
         DOMAIN order = 1..n,
         \A i \in DOMAIN order : order[i] \in Waiting,
         \A i \in DOMAIN order, t \in times : t < order[i].entry
  PROVE  /\ OpenDueCandidates(p, order) \in Bounded(times)
         /\ \A limit \in Int : p \in ClosedBy(times, limit) =>
              OpenDueCandidates(p, order) \in ClosedBy(times, limit)
<1>1. ASSUME NEW q \in Bounded(times), NEW i \in DOMAIN order
      PROVE  /\ OpenPosition(q, order[i].mint, order[i].fill, order[i].entry) \in Bounded(times)
             /\ OpenPosition(q, order[i].mint, order[i].fill, order[i].entry).closed = q.closed
  <2>1. PICK m \in DOMAIN Births, fill \in SomeFill, since \in Nat :
          m = order[i].mint /\ fill = order[i].fill /\ since = order[i].entry
    BY DEF Waiting
  <2>2. q \in Ports /\ Bounds(DOMAIN q.positions) /\ \A t \in times : FitsAt(q, t)
    BY DEF Bounded
  <2>3. PICK r : r = OpenPosition(q, m, fill, since)
    OBVIOUS
  <2>4. /\ r \in Ports /\ r.closed = q.closed
        /\ Bounds(DOMAIN q.positions) => Bounds(DOMAIN r.positions)
        /\ \A t \in Int : FitsAt(q, t) /\ t < since => FitsAt(r, t)
    BY <2>2, <2>3, OpeningFits
  <2>5. \A t \in times : FitsAt(r, t)
    BY <2>1, <2>2, <2>4
  <2>6. r \in Bounded(times) /\ r.closed = q.closed
    BY <2>2, <2>4, <2>5 DEF Bounded
  <2> QED BY <2>1, <2>3, <2>6
<1>2. OpenDueCandidates(p, order) \in Bounded(times)
  BY <1>1, OpenedStays
<1>3. ASSUME NEW limit \in Int, p \in ClosedBy(times, limit)
      PROVE  OpenDueCandidates(p, order) \in ClosedBy(times, limit)
  <2>1. ASSUME NEW q \in ClosedBy(times, limit), NEW i \in DOMAIN order
        PROVE  OpenPosition(q, order[i].mint, order[i].fill, order[i].entry)
                 \in ClosedBy(times, limit)
    BY <1>1 DEF ClosedBy
  <2> QED BY <1>3, <2>1, OpenedStays
<1> QED BY <1>2, <1>3

LEMMA HandledBounded ==
  ASSUME NEW times \in SUBSET Int, NEW p \in Bounded(times), NEW t \in MarketTrades,
         NEW share, NEW income \in Int
  PROVE  /\ HandlePositionTrade(p, t, share, income) \in Bounded(times)
         /\ \A c \in HandlePositionTrade(p, t, share, income).closed :
              c \in p.closed \/ c.exit = t.at
<1>0. t.mint \in DOMAIN Births /\ t.at \in Nat /\ t.priced \in BOOLEAN
  BY BacktestAssumption DEF MarketTrades
<1>1. CASE t.mint \notin DOMAIN p.positions
  BY <1>1 DEF HandlePositionTrade
<1>2. CASE t.mint \in DOMAIN p.positions
  <2>0. ~(Whole \in 1..Half)
    BY DEF Whole, Half
  <2>1. PICK m \in DOMAIN p.positions : m = t.mint
    BY <1>2
  <2>2. PICK heard \in Seq([at : Nat, priced : BOOLEAN]) :
          heard = Append(p.positions[m].heard, [at |-> t.at, priced |-> t.priced])
    <3>1. PICK before \in Seq([at : Nat, priced : BOOLEAN]) : before = p.positions[m].heard
      BY HeldIsOpened
    <3>2. PICK d \in [at : Nat, priced : BOOLEAN] : d = [at |-> t.at, priced |-> t.priced]
      BY <1>0
    <3>3. Append(before, d) \in Seq([at : Nat, priced : BOOLEAN])
      OBVIOUS
    <3> QED BY <3>1, <3>2, <3>3
  <2>3. PICK q : q = Hears(p, m, heard)
    OBVIOUS
  <2>4. p \in Ports /\ Bounds(DOMAIN p.positions) /\ \A x \in times : FitsAt(p, x)
    BY DEF Bounded
  <2>5. /\ q \in Ports /\ DOMAIN q.positions = DOMAIN p.positions /\ q.closed = p.closed
        /\ \A x \in Int : FitsAt(p, x) => FitsAt(q, x)
        /\ q.positions[m].heard = heard
    BY <2>3, <2>4, HearingFits
  <2>6. q \in Bounded(times)
    BY <2>4, <2>5 DEF Bounded
  <2>7. PICK left : left = q.positions[m].left
    OBVIOUS
  <2>8. HandlePositionTrade(p, t, share, income) =
          CASE share \in 1..Half /\ share < left ->
                 PartialSell(q, m, share, SimulateSell(heard, share, income))
            [] share = Whole ->
                 ClosePosition(q, m, SimulateSell(heard, left, income), t.at)
            [] OTHER -> q
    BY <1>2, <2>1, <2>2, <2>3, <2>7 DEF HandlePositionTrade, Hears
  <2>9. CASE share \in 1..Half /\ share < left
    <3>1. PICK fill \in SomeFill : fill = SimulateSell(heard, share, income)
      BY SaleFills
    <3>2. PICK r : r = PartialSell(q, m, share, fill)
      OBVIOUS
    <3>3. /\ r \in Ports /\ DOMAIN r.positions = DOMAIN q.positions /\ r.closed = q.closed
          /\ \A x \in Int : FitsAt(q, x) => FitsAt(r, x)
      <4>1. m \in DOMAIN Births /\ share \in Int
        BY <1>0, <2>1, <2>9
      <4> QED BY <2>5, <3>2, <4>1, SellingFits
    <3>4. r \in Bounded(times)
      BY <2>6, <3>3 DEF Bounded
    <3>5. HandlePositionTrade(p, t, share, income) = r
      BY <2>0, <2>8, <2>9, <3>1, <3>2
    <3> QED BY <2>5, <3>3, <3>4, <3>5
  <2>10. CASE share = Whole
    <3>1. PICK fill \in SomeFill : fill = SimulateSell(heard, left, income)
      BY SaleFills
    <3>2. PICK exit \in Int : exit = t.at
      BY <1>0
    <3>3. HandlePositionTrade(p, t, share, income) = ClosePosition(q, m, fill, exit)
      BY <2>0, <2>8, <2>10, <3>1, <3>2
    <3>4. m \in DOMAIN Births
      BY <1>0, <2>1
    <3>5. /\ ClosePosition(q, m, fill, exit) \in Bounded(times)
          /\ \A c \in ClosePosition(q, m, fill, exit).closed : c \in q.closed \/ c.exit = exit
      BY <2>6, <3>4, ClosingBounded
    <3> QED BY <2>5, <3>2, <3>3, <3>5
  <2>11. CASE ~(share \in 1..Half /\ share < left) /\ share # Whole
    <3>1. HandlePositionTrade(p, t, share, income) = q
      BY <2>8, <2>11
    <3> QED BY <2>5, <2>6, <3>1
  <2> QED BY <2>9, <2>10, <2>11
<1> QED BY <1>1, <1>2

(* At a trade later than every closing the positions held are all there are. *)
LEMMA NewTimeFits ==
  ASSUME NEW times \in SUBSET Int, NEW at \in Int, NEW p \in ClosedBy(times, at - 1)
  PROVE  p \in Bounded(times \cup {at})
<1>1. /\ p \in Ports /\ Bounds(DOMAIN p.positions) /\ \A t \in times : FitsAt(p, t)
      /\ \A c \in p.closed : c.exit <= at - 1
  BY DEF ClosedBy, Bounded
<1>2. \A c \in p.closed : c.exit \in Int /\ c.entry \in Nat
  BY <1>1, PortParts DEF ClosedDeal
<1>3. \A c \in p.closed : at \notin c.entry..c.exit
  BY <1>1, <1>2
<1>4. OpenAt(p, at) \subseteq HeldIn(p)
  BY <1>3 DEF OpenAt
<1>5. Bounds(HeldIn(p))
  <2> DEFINE f == [h \in HeldIn(p) |-> h.mint]
  <2>1. \A m \in DOMAIN p.positions : HeldRow(p, m).mint = m
    BY DEF HeldRow
  <2>2. f \in [HeldIn(p) -> DOMAIN p.positions]
    BY <2>1 DEF HeldIn
  <2>3. \A h \in HeldIn(p) : h = HeldRow(p, h.mint)
    BY <2>1 DEF HeldIn
  <2>4. f \in Injection(HeldIn(p), DOMAIN p.positions)
    <3>1. \A a, b \in HeldIn(p) : f[a] = f[b] => a = b
      BY <2>3
    <3> QED BY <2>2, <3>1 DEF Injection, IsInjective
  <2> HIDE DEF f
  <2>5. IsFiniteSet(DOMAIN p.positions) /\ Cardinality(DOMAIN p.positions) \in Nat /\ MaxOpen \in Nat
    BY <1>1, FS_CardinalityType, PortfolioAssumption DEF Bounds
  <2>6. IsFiniteSet(HeldIn(p)) /\ Cardinality(HeldIn(p)) <= Cardinality(DOMAIN p.positions)
    BY <2>4, <2>5, FS_Injection
  <2>7. Cardinality(HeldIn(p)) \in Nat
    BY <2>6, FS_CardinalityType
  <2> QED BY <1>1, <2>5, <2>6, <2>7 DEF Bounds
<1>6. FitsAt(p, at)
  BY <1>4, <1>5, FewerFit DEF FitsAt
<1> QED BY <1>1, <1>6 DEF Bounded

LEMMA BacktestReplays == BacktestInv /\ ReplayTrade => BacktestInv'
<1> SUFFICES ASSUME BacktestInv, ReplayTrade PROVE BacktestInv'
  OBVIOUS
<1>1. PICK t \in MarketTrades, share \in 0..Half \cup {Whole}, sale \in Sales :
        \E o \in Orders(t.at) :
          /\ t.at >= engine.now
          /\ portfolio' = HandlePositionTrade(OpenDueCandidates(
               CloseExpiredPositions(portfolio, t.at, [m \in DOMAIN Births |-> sale]), o),
               t, share, sale)
          /\ tape' = Append(tape, t)
          /\ due' = due \ DueBy(t.at)
          /\ engine' = [engine EXCEPT !.now = t.at]
  BY DEF ReplayTrade
<1>0. PICK order \in Orders(t.at) :
        /\ t.at >= engine.now
        /\ portfolio' = HandlePositionTrade(OpenDueCandidates(
             CloseExpiredPositions(portfolio, t.at, [m \in DOMAIN Births |-> sale]), order),
             t, share, sale)
        /\ tape' = Append(tape, t)
        /\ due' = due \ DueBy(t.at)
        /\ engine' = [engine EXCEPT !.now = t.at]
  BY <1>1
<1>2. /\ engine.pc = "replay" /\ engine.now \in Nat /\ due \in SUBSET Waiting /\ IsFiniteSet(due)
      /\ tape \in Seq(MarketTrades) /\ portfolio \in Bounded(TapeTimes)
  BY DEF BacktestInv, EngineShape, ReplayTrade
<1>3. /\ \A c \in due, x \in TapeTimes : x < c.entry
      /\ \A x \in TapeTimes : x <= engine.now
      /\ \A c \in portfolio.closed : c.exit <= engine.now /\ engine.now \in TapeTimes
  BY <1>2 DEF BacktestInv, WaitsAhead
<1>4. PICK at \in Nat : at = t.at
  BY BacktestAssumption DEF MarketTrades
<1>5. TapeTimes \in SUBSET Nat
  BY <1>2, TapeTimesAreNat
<1>6. TapeTimes' = TapeTimes \cup {at}
  <2>1. /\ Len(tape) \in Nat /\ DOMAIN tape = 1..Len(tape)
        /\ DOMAIN tape' = 1..Len(tape) + 1 /\ tape'[Len(tape) + 1] = t
        /\ \A i \in 1..Len(tape) : tape'[i] = tape[i]
    BY <1>0, <1>2
  <2>2. \A i \in 1..Len(tape) + 1 : i \in 1..Len(tape) \/ i = Len(tape) + 1
    BY <2>1
  <2>3. 1..Len(tape) \subseteq 1..Len(tape) + 1 /\ Len(tape) + 1 \in 1..Len(tape) + 1
    BY <2>1
  <2>4. TapeTimes' = {tape'[i].at : i \in 1..Len(tape) + 1} /\ TapeTimes = {tape[i].at : i \in 1..Len(tape)}
    BY <2>1 DEF TapeTimes
  <2>5. \A x \in TapeTimes' : x \in TapeTimes \/ x = at
    BY <1>4, <2>1, <2>2, <2>4
  <2>6. \A x \in TapeTimes : x \in TapeTimes'
    <3>1. \A i \in 1..Len(tape) : tape[i].at = tape'[i].at /\ i \in 1..Len(tape) + 1
      BY <2>1, <2>3
    <3> QED BY <2>4, <3>1
  <2>7. at \in TapeTimes'
    BY <1>4, <2>1, <2>3, <2>4
  <2> QED BY <2>5, <2>6, <2>7
<1>7. PICK income \in [DOMAIN Births -> Int] : income = [m \in DOMAIN Births |-> sale]
  <2>1. sale \in Int
    BY BacktestAssumption
  <2>2. [m \in DOMAIN Births |-> sale] \in [DOMAIN Births -> Int]
    BY <2>1
  <2> QED BY <2>2
<1>8. sale \in Int
  BY BacktestAssumption
<1>9. /\ DueBy(at) \subseteq due /\ \A c \in DueBy(at) : c.entry <= at
      /\ \E n \in Nat : DOMAIN order = 1..n
      /\ \A i \in DOMAIN order : order[i] \in DueBy(at)
  <2>1. EngineShape /\ order \in Orders(at)
    BY <1>0, <1>4 DEF BacktestInv
  <2> QED BY <2>1, DueParts
<1>10. PICK n \in Nat : DOMAIN order = 1..n
  BY <1>9
<1>11. PICK expired : expired = CloseExpiredPositions(portfolio, at, income)
  OBVIOUS
<1>12. PICK filled : filled = OpenDueCandidates(expired, order)
  OBVIOUS
<1>13. portfolio' = HandlePositionTrade(filled, t, share, sale)
  BY <1>0, <1>4, <1>7, <1>11, <1>12
<1>14. \A limit \in Int : at - 1 <= limit /\ portfolio \in ClosedBy(TapeTimes, limit) =>
         expired \in ClosedBy(TapeTimes, limit) /\ filled \in ClosedBy(TapeTimes, limit)
  <2>1. TapeTimes \in SUBSET Int
    BY <1>5
  <2>2. /\ expired \in Bounded(TapeTimes)
        /\ \A limit \in Int : at - 1 <= limit /\ portfolio \in ClosedBy(TapeTimes, limit) =>
             expired \in ClosedBy(TapeTimes, limit)
    BY <1>2, <1>11, <2>1, ExpiredBounded
  <2>3. /\ \A i \in DOMAIN order : order[i] \in Waiting
        /\ \A i \in DOMAIN order, x \in TapeTimes : x < order[i].entry
    BY <1>2, <1>3, <1>9
  <2>4. \A limit \in Int : expired \in ClosedBy(TapeTimes, limit) => filled \in ClosedBy(TapeTimes, limit)
    BY <1>10, <1>12, <2>1, <2>2, <2>3, OpenedBounded
  <2> QED BY <2>2, <2>4
<1>15. /\ filled \in Bounded(TapeTimes \cup {at})
       /\ \A c \in filled.closed : c.exit <= at
  <2>1. CASE at \in TapeTimes
    <3>1. at = engine.now
      BY <1>0, <1>2, <1>3, <1>4, <2>1
    <3>2. portfolio \in ClosedBy(TapeTimes, at)
      BY <1>2, <1>3, <3>1 DEF ClosedBy
    <3>3. at \in Int /\ at - 1 <= at
      OBVIOUS
    <3>4. filled \in ClosedBy(TapeTimes, at)
      BY <1>14, <3>2, <3>3
    <3>5. TapeTimes \cup {at} = TapeTimes
      BY <2>1
    <3> QED BY <3>4, <3>5 DEF ClosedBy
  <2>2. CASE at \notin TapeTimes
    <3>1. PICK limit \in Int : limit = at - 1
      OBVIOUS
    <3>2. \A c \in portfolio.closed : c.exit <= limit
      <4>1. \A c \in portfolio.closed : c.exit \in Int
        BY <1>2, PortParts DEF Bounded, ClosedDeal
      <4>2. engine.now <= at /\ engine.now \in Nat
        BY <1>0, <1>2, <1>4
      <4> TAKE c \in portfolio.closed
      <4>3. c.exit <= engine.now /\ engine.now \in TapeTimes /\ c.exit \in Int
        BY <1>3, <4>1
      <4>4. engine.now # at
        BY ONLY <2>2, <4>3
      <4> QED BY ONLY <3>1, <4>2, <4>3, <4>4, at \in Nat
    <3>3. portfolio \in ClosedBy(TapeTimes, limit)
      BY <1>2, <3>2 DEF ClosedBy
    <3>4. filled \in ClosedBy(TapeTimes, limit)
      BY <1>14, <3>1, <3>3
    <3>5. filled \in Bounded(TapeTimes \cup {at})
      <4>1. TapeTimes \in SUBSET Int /\ at \in Int /\ filled \in ClosedBy(TapeTimes, at - 1)
        BY <1>5, <3>1, <3>4
      <4> QED BY <4>1, NewTimeFits
    <3>6. \A c \in filled.closed : c.exit \in Int /\ c.exit <= limit
      BY <3>4, PortParts DEF ClosedBy, Bounded, ClosedDeal
    <3>7. \A c \in filled.closed : c.exit <= at
      BY <3>1, <3>6
    <3> QED BY <3>5, <3>7
  <2> QED BY <2>1, <2>2
<1>16. /\ portfolio' \in Bounded(TapeTimes \cup {at})
       /\ \A c \in portfolio'.closed : c.exit <= at
  <2>1. TapeTimes \cup {at} \in SUBSET Int
    BY <1>5
  <2>2. /\ portfolio' \in Bounded(TapeTimes \cup {at})
        /\ \A c \in portfolio'.closed : c \in filled.closed \/ c.exit = t.at
    BY <1>8, <1>13, <1>15, <2>1, HandledBounded
  <2>3. at <= at
    OBVIOUS
  <2> QED BY <1>4, <1>15, <2>2, <2>3
<1>17. /\ engine' \in [pc : {"score", "replay", "tail", "done"}, now : Nat,
                       unscored : SUBSET DOMAIN Births]
       /\ engine'.now = at /\ engine'.pc = "replay"
  <2>1. engine \in [pc : {"score", "replay", "tail", "done"}, now : Nat,
                    unscored : SUBSET DOMAIN Births]
    BY DEF BacktestInv, EngineShape
  <2>2. engine' = [engine EXCEPT !.now = at]
    BY <1>0, <1>4
  <2> QED BY <1>2, <2>1, <2>2
<1>18. due' \in SUBSET Waiting /\ IsFiniteSet(due')
  <2>1. due' \in SUBSET due
    BY <1>0
  <2> QED BY <1>2, <2>1, FS_Subset
<1>19. tape' \in Seq(MarketTrades)
  BY <1>0, <1>2
<1>20. EngineShape'
  BY <1>6, <1>16, <1>17, <1>18, <1>19 DEF EngineShape
<1>21. \A c \in due', x \in TapeTimes' : x < c.entry
  <2>1. \A c \in due' : c \in due /\ ~(c.entry <= at) /\ c.entry \in Nat
    BY <1>0, <1>2, <1>4 DEF DueBy, Waiting
  <2>2. \A c \in due' : at < c.entry
    BY <2>1
  <2> QED BY <1>3, <1>6, <2>1, <2>2
<1>22. \A x \in TapeTimes' : x <= engine'.now
  <2>1. \A x \in TapeTimes : x <= at
    BY <1>0, <1>2, <1>3, <1>4, <1>5
  <2> QED BY <1>6, <1>17, <2>1
<1>23. WaitsAhead'
  <2>1. engine'.now \in TapeTimes'
    BY <1>6, <1>17
  <2> QED BY <1>16, <1>17, <1>21, <1>22, <2>1 DEF WaitsAhead
<1> QED BY <1>20, <1>23 DEF BacktestInv

LEMMA BacktestOpensRest == BacktestInv /\ OpenRest => BacktestInv'
<1> SUFFICES ASSUME BacktestInv, OpenRest PROVE BacktestInv'
  OBVIOUS
<1>1. /\ engine \in [pc : {"score", "replay", "tail", "done"}, now : Nat,
                     unscored : SUBSET DOMAIN Births]
      /\ due \in SUBSET Waiting /\ IsFiniteSet(due) /\ due # {}
      /\ tape \in Seq(MarketTrades) /\ portfolio \in Bounded(TapeTimes)
      /\ \A c \in due, x \in TapeTimes : x < c.entry
      /\ tape' = tape
  BY DEF BacktestInv, EngineShape, WaitsAhead, OpenRest
<1>2. Min({c.entry : c \in due}) \in {c.entry : c \in due}
  <2>1. {c.entry : c \in due} \subseteq Nat /\ {c.entry : c \in due} # {}
    BY <1>1 DEF Waiting
  <2> QED BY <2>1, LeastInt
<1>3. PICK now \in Nat : now = Min({c.entry : c \in due})
  BY <1>1, <1>2 DEF Waiting
<1>4. PICK sale \in Sales, order \in Orders(now) :
        /\ portfolio' = OpenDueCandidates(
             CloseExpiredPositions(portfolio, now, [m \in DOMAIN Births |-> sale]), order)
        /\ due' = due \ DueBy(now)
        /\ engine' = [engine EXCEPT !.now = now, !.pc = "tail"]
  BY <1>3 DEF OpenRest
<1>5. PICK income \in [DOMAIN Births -> Int] : income = [m \in DOMAIN Births |-> sale]
  <2>1. sale \in Int
    BY BacktestAssumption
  <2>2. [m \in DOMAIN Births |-> sale] \in [DOMAIN Births -> Int]
    BY <2>1
  <2> QED BY <2>2
<1>6. TapeTimes \in SUBSET Int /\ TapeTimes \in SUBSET Nat /\ TapeTimes' = TapeTimes
  BY <1>1, TapeTimesAreNat DEF TapeTimes
<1>7. PICK expired : expired = CloseExpiredPositions(portfolio, now, income)
  OBVIOUS
<1>8. expired \in Bounded(TapeTimes)
  BY <1>1, <1>6, <1>7, ExpiredBounded
<1>9. /\ DueBy(now) \subseteq due
      /\ \E n \in Nat : DOMAIN order = 1..n
      /\ \A i \in DOMAIN order : order[i] \in DueBy(now)
  <2>1. EngineShape
    BY DEF BacktestInv
  <2> QED BY <2>1, DueParts
<1>10. PICK n \in Nat : DOMAIN order = 1..n
  BY <1>9
<1>11. /\ \A i \in DOMAIN order : order[i] \in Waiting
       /\ \A i \in DOMAIN order, x \in TapeTimes : x < order[i].entry
  BY <1>1, <1>9
<1>12. OpenDueCandidates(expired, order) \in Bounded(TapeTimes)
  BY <1>6, <1>8, <1>10, <1>11, OpenedBounded
<1>13. portfolio' \in Bounded(TapeTimes)
  BY <1>4, <1>5, <1>7, <1>12
<1>14. due' \in SUBSET due /\ IsFiniteSet(due')
  <2>1. due' \in SUBSET due
    BY <1>4
  <2> QED BY <1>1, <2>1, FS_Subset
<1>15. /\ engine' \in [pc : {"score", "replay", "tail", "done"}, now : Nat,
                       unscored : SUBSET DOMAIN Births]
       /\ engine'.now = now /\ engine'.pc = "tail"
  BY <1>1, <1>4
<1>16. EngineShape'
  BY <1>1, <1>6, <1>13, <1>14, <1>15 DEF EngineShape
<1>17. \A x \in TapeTimes : x <= now
  <2>1. PICK c \in due : c.entry = now
    BY <1>2, <1>3
  <2> TAKE x \in TapeTimes
  <2>2. x < now /\ x \in Nat
    BY <1>1, <1>6, <2>1
  <2> QED BY <2>2
<1>18. WaitsAhead'
  BY <1>1, <1>6, <1>14, <1>15, <1>17 DEF WaitsAhead
<1> QED BY <1>16, <1>18 DEF BacktestInv

LEMMA RemainingBounded ==
  ASSUME tape \in Seq(MarketTrades), NEW q \in Bounded(TapeTimes), NEW m \in DOMAIN Births,
         NEW sale \in Int
  PROVE  CloseRemaining(q, m, sale) \in Bounded(TapeTimes)
<1>1. CASE m \notin DOMAIN q.positions
  <2>1. CloseRemaining(q, m, sale) = q
    BY <1>1 DEF CloseRemaining, ClosePosition
  <2> QED BY <2>1
<1>2. CASE m \in DOMAIN q.positions
  <2>1. PICK since \in Nat : since = q.positions[m].entry
    BY <1>2, HeldIsOpened
  <2>2. PICK X : X = {t \in MarketTrades : t.mint = m /\ t.at >= q.positions[m].entry}
    OBVIOUS
  <2>3. PICK after \in Seq(MarketTrades) : after = Among(tape, X)
    BY AmongType
  <2>4. PICK fill \in SomeFill : fill = SimulateSell(after, q.positions[m].left, sale)
    BY SaleFills
  <2>5. \E exit \in Int : exit = IF after = <<>> THEN since + 60 ELSE Last(after).at
    <3>1. ASSUME after # <<>> PROVE Last(after).at \in Int
      <4>1. PICK d \in MarketTrades : d = after[Len(after)]
        BY <3>1, LastIn
      <4>2. d.at \in Int
        BY BacktestAssumption DEF MarketTrades
      <4> QED BY <4>1, <4>2 DEF Last
    <3> QED BY <3>1
  <2>6. PICK exit \in Int : exit = IF after = <<>> THEN since + 60 ELSE Last(after).at
    BY <2>5
  <2>7. CloseRemaining(q, m, sale) = ClosePosition(q, m, fill, exit)
    BY <2>1, <2>2, <2>3, <2>4, <2>6 DEF CloseRemaining
  <2>8. TapeTimes \in SUBSET Int
    BY TapeTimesAreNat
  <2>9. ClosePosition(q, m, fill, exit) \in Bounded(TapeTimes)
    BY <2>8, ClosingBounded
  <2> QED BY <2>7, <2>9
<1> QED BY <1>1, <1>2

LEMMA BacktestCloses == BacktestInv /\ CloseRemainingPositions => BacktestInv'
<1> SUFFICES ASSUME BacktestInv, CloseRemainingPositions PROVE BacktestInv'
  OBVIOUS
<1>1. /\ engine \in [pc : {"score", "replay", "tail", "done"}, now : Nat,
                     unscored : SUBSET DOMAIN Births]
      /\ due \in SUBSET Waiting /\ IsFiniteSet(due)
      /\ tape \in Seq(MarketTrades) /\ portfolio \in Bounded(TapeTimes)
      /\ \A c \in due, x \in TapeTimes : x < c.entry
      /\ \A x \in TapeTimes : x <= engine.now
      /\ tape' = tape /\ due' = due /\ engine' = [engine EXCEPT !.pc = "done"]
  BY DEF BacktestInv, EngineShape, WaitsAhead, CloseRemainingPositions
<1>2. PICK sale \in Sales : portfolio' = AllClosed(portfolio, sale)
  BY DEF CloseRemainingPositions, AllClosed
<1>3. TapeTimes \in SUBSET Int /\ TapeTimes' = TapeTimes /\ sale \in Int
  BY <1>1, TapeTimesAreNat, BacktestAssumption DEF TapeTimes
<1>4. IsFiniteSet(DOMAIN portfolio.positions) /\ DOMAIN portfolio.positions \subseteq DOMAIN Births
  <2>1. portfolio \in Ports /\ IsFiniteSet(DOMAIN portfolio.positions)
    BY <1>1 DEF Bounded, Bounds
  <2> QED BY <2>1, PortParts
<1>5. ASSUME NEW q \in Bounded(TapeTimes), NEW m \in DOMAIN portfolio.positions
      PROVE  CloseRemaining(q, m, sale) \in Bounded(TapeTimes)
  BY <1>1, <1>3, <1>4, RemainingBounded
<1>6. portfolio' \in Bounded(TapeTimes)
  <2>1. AllClosed(portfolio, sale) \in Bounded(TapeTimes)
    BY <1>1, <1>4, <1>5, RemainingStays
  <2> QED BY <1>2, <2>1
<1>7. /\ engine' \in [pc : {"score", "replay", "tail", "done"}, now : Nat,
                      unscored : SUBSET DOMAIN Births]
      /\ engine'.now = engine.now /\ engine'.pc = "done"
  BY <1>1
<1>8. EngineShape'
  BY <1>1, <1>3, <1>6, <1>7 DEF EngineShape
<1>9. WaitsAhead'
  BY <1>1, <1>3, <1>7 DEF WaitsAhead
<1> QED BY <1>8, <1>9 DEF BacktestInv

LEMMA BacktestSteps == BacktestInv /\ [BacktestNext]_backtestVars => BacktestInv'
<1> SUFFICES ASSUME BacktestInv, [BacktestNext]_backtestVars PROVE BacktestInv'
  OBVIOUS
<1>1. CASE BacktestNext
  BY <1>1, BacktestScores, BacktestReplays, BacktestOpensRest, BacktestCloses DEF BacktestNext
<1>2. CASE UNCHANGED backtestVars
  BY <1>2 DEF backtestVars, BacktestInv, EngineShape, WaitsAhead, TapeTimes
<1> QED BY <1>1, <1>2

LEMMA SlotsFromInv == BacktestInv => SlotsAtTrades
<1> SUFFICES ASSUME BacktestInv, NEW i \in DOMAIN tape
             PROVE  Cardinality({c \in portfolio.closed : tape[i].at \in c.entry..c.exit}
                                \cup {h \in Held : h.entry <= tape[i].at}) <= MaxOpen
  BY DEF SlotsAtTrades
<1>1. FitsAt(portfolio, tape[i].at)
  <2>1. tape[i].at \in TapeTimes
    BY DEF TapeTimes
  <2> QED BY <2>1 DEF BacktestInv, EngineShape, Bounded
<1>2. Held = HeldIn(portfolio)
  BY DEF Held, HeldIn, HeldRow
<1> QED BY <1>1, <1>2 DEF FitsAt, Bounds, OpenAt

(* Whoever reads the closed trades finds no more of them open at a trade of  *)
(* the history than the portfolio may hold (backtest.py, _run_timeline):     *)
(* closing, though dated back, only frees slots, and what is opened late is  *)
(* opened as of a time between two trades.                                   *)
THEOREM SlotsKept == BacktestSpec => []SlotsAtTrades
<1> QED BY BacktestStarts, BacktestSteps, SlotsFromInv, PTL DEF BacktestSpec

(* ------------------- types of the engine -------------------------------- *)
(* A portfolio owes nothing, and something is left of each position.         *)
Paid(p) == /\ p.balance \in Nat
           /\ \A m \in DOMAIN p.positions : p.positions[m].left \in 1..Whole
Solvent(times) == {p \in Bounded(times) : Paid(p)}
Income == [ok : BOOLEAN, sol : Nat]
Purchase == {SimulateBuy(priced) : priced \in BOOLEAN}

LEMMA SaleEarns ==
  ASSUME NEW heard, NEW left, NEW income \in Nat
  PROVE  SimulateSell(heard, left, income) \in Income
BY DEF SimulateSell, Income, NoFill

LEMMA ClosingPays ==
  ASSUME NEW p, Paid(p), NEW m, NEW fill \in Income, NEW exit
  PROVE  Paid(ClosePosition(p, m, fill, exit))
<1>1. CASE m \notin DOMAIN p.positions
  BY <1>1 DEF ClosePosition
<1>2. CASE m \in DOMAIN p.positions
  <2>1. PICK income \in Nat : income = IF fill.ok THEN fill.sol ELSE 0
    BY DEF Income
  <2>2. PICK mine : mine = [x \in DOMAIN p.positions \ {m} |-> p.positions[x]]
    OBVIOUS
  <2>3. PICK rest : rest = ClosePosition(p, m, fill, exit).closed
    OBVIOUS
  <2>4. ClosePosition(p, m, fill, exit) =
          [balance |-> p.balance + income, positions |-> mine, closed |-> rest]
    BY <1>2, <2>1, <2>2, <2>3 DEF ClosePosition
  <2>5. p.balance + income \in Nat
    BY <2>1 DEF Paid
  <2>6. \A x \in DOMAIN mine : mine[x].left \in 1..Whole
    BY <2>2 DEF Paid
  <2> QED BY <2>4, <2>5, <2>6 DEF Paid
<1> QED BY <1>1, <1>2

LEMMA OpeningPays ==
  ASSUME NEW p \in Ports, Paid(p), NEW m \in DOMAIN Births, NEW fill \in Purchase, NEW since
  PROVE  Paid(OpenPosition(p, m, fill, since))
<1>1. CASE ~fill.ok \/ m \in DOMAIN p.positions \/ ~CanBuy(p)
  BY <1>1 DEF OpenPosition
<1>2. CASE fill.ok /\ m \notin DOMAIN p.positions /\ CanBuy(p)
  <2>1. fill.sol = BuyAmount /\ BuyAmount \in Nat
    BY <1>2, PortfolioAssumption DEF Purchase, SimulateBuy, NoFill
  <2>2. p.balance >= BuyAmount /\ p.balance \in Nat
    BY <1>2 DEF CanBuy, Paid
  <2>3. PICK new : new = [entry |-> since, spent |-> fill.sol, got |-> 0, left |-> Whole,
                          heard |-> <<>>]
    OBVIOUS
  <2>4. new.left = Whole
    BY <2>3
  <2>5. PICK mine : mine = [x \in DOMAIN p.positions \cup {m} |->
                              IF x = m THEN new ELSE p.positions[x]]
    OBVIOUS
  <2>6. p = [balance |-> p.balance, positions |-> p.positions, closed |-> p.closed]
    BY PortParts
  <2>7. OpenPosition(p, m, fill, since) =
          [balance |-> p.balance - fill.sol, positions |-> mine, closed |-> p.closed]
    BY <1>2, <2>3, <2>5, <2>6 DEF OpenPosition
  <2>8. p.balance - fill.sol \in Nat
    BY <2>1, <2>2
  <2>9. \A x \in DOMAIN mine : mine[x].left \in 1..Whole
    <3>1. Whole \in 1..Whole
      BY DEF Whole
    <3> QED BY <2>4, <2>5, <3>1 DEF Paid
  <2> QED BY <2>7, <2>8, <2>9 DEF Paid
<1> QED BY <1>1, <1>2

LEMMA SellingPays ==
  ASSUME NEW p \in Ports, Paid(p), NEW m \in DOMAIN p.positions, NEW fill \in Income,
         NEW share \in Nat, share < p.positions[m].left
  PROVE  Paid(PartialSell(p, m, share, fill))
<1>1. CASE ~fill.ok
  BY <1>1 DEF PartialSell
<1>2. CASE fill.ok
  <2>1. /\ p = [balance |-> p.balance, positions |-> p.positions, closed |-> p.closed]
        /\ p.positions \in [DOMAIN p.positions -> Opened]
    BY PortParts
  <2>2. PICK pos \in Opened : pos = p.positions[m]
    BY <2>1
  <2>3. PICK new : new = [pos EXCEPT !.got = @ + fill.sol, !.left = @ - share]
    OBVIOUS
  <2>4. new.left \in 1..Whole
    <3>1. pos.left \in 1..Whole /\ share < pos.left
      BY <2>2 DEF Paid
    <3>2. new.left = pos.left - share
      BY <2>2, <2>3 DEF Opened
    <3> QED BY <3>1, <3>2 DEF Whole
  <2>5. PICK mine : mine = [p.positions EXCEPT ![m] = new]
    OBVIOUS
  <2>6. PartialSell(p, m, share, fill) =
          [balance |-> p.balance + fill.sol, positions |-> mine, closed |-> p.closed]
    BY <1>2, <2>1, <2>2, <2>3, <2>5 DEF PartialSell, Opened
  <2>7. p.balance + fill.sol \in Nat
    BY DEF Paid, Income
  <2>8. \A x \in DOMAIN mine : mine[x].left \in 1..Whole
    BY <2>4, <2>5 DEF Paid
  <2> QED BY <2>6, <2>7, <2>8 DEF Paid
<1> QED BY <1>1, <1>2

LEMMA HearingPays ==
  ASSUME NEW p \in Ports, Paid(p), NEW m \in DOMAIN p.positions, NEW heard
  PROVE  Paid(Hears(p, m, heard)) /\ Hears(p, m, heard).positions[m].left = p.positions[m].left
<1>1. /\ p = [balance |-> p.balance, positions |-> p.positions, closed |-> p.closed]
      /\ p.positions \in [DOMAIN p.positions -> Opened]
  BY PortParts
<1>2. PICK pos \in Opened : pos = p.positions[m]
  BY <1>1
<1>3. PICK new : new = [pos EXCEPT !.heard = heard]
  OBVIOUS
<1>4. new.left = pos.left
  BY <1>3 DEF Opened
<1>5. PICK mine : mine = [p.positions EXCEPT ![m] = new]
  OBVIOUS
<1>6. Hears(p, m, heard) =
        [balance |-> p.balance, positions |-> mine, closed |-> p.closed]
  BY <1>1, <1>2, <1>3, <1>5 DEF Hears
<1>7. \A x \in DOMAIN mine : mine[x].left \in 1..Whole
  BY <1>2, <1>4, <1>5 DEF Paid
<1>8. mine[m].left = p.positions[m].left
  BY <1>2, <1>4, <1>5
<1> QED BY <1>6, <1>7, <1>8 DEF Paid

LEMMA ExpirePays ==
  ASSUME NEW p, Paid(p), NEW m, NEW now, NEW income \in Nat
  PROVE  Paid(Expire(p, m, now, income))
<1>1. PICK fill \in Income :
        fill = SimulateSell(p.positions[m].heard, p.positions[m].left, income)
  BY SaleEarns
<1>2. PICK pos : pos = p.positions[m]
  OBVIOUS
<1>3. Expire(p, m, now, income) \in
        {p, ClosePosition(p, m, fill, pos.entry + MaxHold),
         ClosePosition(p, m, fill, Last(pos.heard).at + Inactivity)}
  BY <1>1, <1>2 DEF Expire
<1> QED BY <1>3, ClosingPays

LEMMA HandlingPays ==
  ASSUME NEW times, NEW p \in Bounded(times), Paid(p), NEW t \in MarketTrades,
         NEW share, NEW income \in Nat
  PROVE  Paid(HandlePositionTrade(p, t, share, income))
<1>0. p \in Ports /\ t.at \in Nat /\ t.priced \in BOOLEAN
  BY BacktestAssumption DEF Bounded, MarketTrades
<1>1. CASE t.mint \notin DOMAIN p.positions
  BY <1>1 DEF HandlePositionTrade
<1>2. CASE t.mint \in DOMAIN p.positions
  <2>1. PICK m \in DOMAIN p.positions : m = t.mint
    BY <1>2
  <2>2. PICK heard \in Seq([at : Nat, priced : BOOLEAN]) :
          heard = Append(p.positions[m].heard, [at |-> t.at, priced |-> t.priced])
    <3>1. PICK before \in Seq([at : Nat, priced : BOOLEAN]) : before = p.positions[m].heard
      BY HeldIsOpened
    <3>2. PICK d \in [at : Nat, priced : BOOLEAN] : d = [at |-> t.at, priced |-> t.priced]
      BY <1>0
    <3>3. Append(before, d) \in Seq([at : Nat, priced : BOOLEAN])
      OBVIOUS
    <3> QED BY <3>1, <3>2, <3>3
  <2>3. PICK q : q = Hears(p, m, heard)
    OBVIOUS
  <2>4. Paid(q)
    BY <1>0, <2>3, HearingPays
  <2>5. PICK left : left = q.positions[m].left
    OBVIOUS
  <2>6. PICK part \in Income : part = SimulateSell(heard, share, income)
    BY SaleEarns
  <2>7. PICK all \in Income : all = SimulateSell(heard, left, income)
    BY SaleEarns
  <2>8. HandlePositionTrade(p, t, share, income) =
          CASE share \in 1..Half /\ share < left -> PartialSell(q, m, share, part)
            [] share = Whole -> ClosePosition(q, m, all, t.at)
            [] OTHER -> q
    BY <1>2, <2>1, <2>2, <2>3, <2>5, <2>6, <2>7 DEF HandlePositionTrade, Hears
  <2>9. share \in 1..Half /\ share < left => Paid(PartialSell(q, m, share, part))
    <3>1. q \in Ports /\ DOMAIN q.positions = DOMAIN p.positions
      BY <1>0, <2>3, HearingFits
    <3> QED BY <2>4, <2>5, <3>1, SellingPays
  <2>10. Paid(ClosePosition(q, m, all, t.at))
    BY <2>4, ClosingPays
  <2> QED BY <2>4, <2>8, <2>9, <2>10
<1> QED BY <1>1, <1>2

(* The engine's types: what is due was bought for the buy amount or not at    *)
(* all.                                                                      *)
EngineTyped == BacktestTypeOK /\ \A c \in due : c.fill \in Purchase

LEMMA SolventExpires ==
  ASSUME NEW p \in Solvent({}), NEW now \in Nat, NEW sale \in Nat
  PROVE  CloseExpiredPositions(p, now, [m \in DOMAIN Births |-> sale]) \in Solvent({})
<1>1. PICK income \in [DOMAIN Births -> Nat] : income = [m \in DOMAIN Births |-> sale]
  OBVIOUS
<1>2. p \in Ports /\ IsFiniteSet(DOMAIN p.positions)
  BY DEF Solvent, Bounded, Bounds
<1>3. DOMAIN p.positions \subseteq DOMAIN Births
  BY <1>2, PortParts
<1>4. ASSUME NEW q \in Solvent({}), NEW m \in DOMAIN p.positions
      PROVE  Expire(q, m, now, income[m]) \in Solvent({})
  <2>1. m \in DOMAIN Births /\ income[m] \in Nat /\ income[m] \in Int
    BY <1>3
  <2>2. q \in Bounded({}) /\ Paid(q)
    BY DEF Solvent
  <2>3. Expire(q, m, now, income[m]) \in Bounded({})
    BY <2>1, <2>2, ExpireBounded
  <2>4. Paid(Expire(q, m, now, income[m]))
    BY <2>1, <2>2, ExpirePays
  <2> QED BY <2>3, <2>4 DEF Solvent
<1>5. CloseExpiredPositions(p, now, income) \in Solvent({})
  BY <1>2, <1>4, ExpiredStays
<1> QED BY <1>1, <1>5

LEMMA SolventOpens ==
  ASSUME EngineShape, EngineTyped, NEW p \in Solvent({}), NEW now \in Nat,
         NEW order \in Orders(now)
  PROVE  OpenDueCandidates(p, order) \in Solvent({})
<1>1. PICK n \in Nat : DOMAIN order = 1..n
  BY DueParts
<1>2. \A i \in DOMAIN order : order[i] \in due
  BY DueParts
<1>3. ASSUME NEW q \in Solvent({}), NEW i \in DOMAIN order
      PROVE  OpenPosition(q, order[i].mint, order[i].fill, order[i].entry) \in Solvent({})
  <2>1. order[i] \in Waiting /\ order[i].fill \in Purchase
    BY <1>2 DEF EngineShape, EngineTyped
  <2>2. PICK m \in DOMAIN Births, fill \in SomeFill, since \in Nat :
          m = order[i].mint /\ fill = order[i].fill /\ since = order[i].entry
    BY <2>1 DEF Waiting
  <2>3. q \in Ports /\ Bounds(DOMAIN q.positions) /\ Paid(q)
    BY DEF Solvent, Bounded
  <2>4. PICK r : r = OpenPosition(q, m, fill, since)
    OBVIOUS
  <2>5. r \in Ports /\ Bounds(DOMAIN r.positions)
    BY <2>3, <2>4, OpeningFits
  <2>6. Paid(r)
    BY <2>1, <2>2, <2>3, <2>4, OpeningPays
  <2> QED BY <2>2, <2>4, <2>5, <2>6 DEF Solvent, Bounded
<1> QED BY <1>1, <1>3, OpenedStays

LEMMA EngineStartsTyped == BacktestInit \/ BacktestOff => EngineTyped
<1> SUFFICES ASSUME BacktestInit \/ BacktestOff PROVE EngineTyped
  OBVIOUS
<1>1. portfolio = NewPortfolio /\ tape = <<>> /\ due = {}
  BY DEF BacktestInit, BacktestOff
<1>2. portfolio.balance \in Nat /\ DOMAIN portfolio.positions = {}
  BY <1>1, PortfolioAssumption DEF NewPortfolio
<1>3. engine.pc \in {"off", "score"} /\ engine.unscored \subseteq DOMAIN Births
  BY DEF BacktestInit, BacktestOff
<1>4. Len(tape) <= TapeLength
  BY <1>1, BacktestAssumption
<1> QED BY <1>1, <1>2, <1>3, <1>4 DEF EngineTyped, BacktestTypeOK

LEMMA ScoringTyped ==
  ASSUME BacktestInv, EngineTyped, ScoreTokenForEntry, BacktestInv'
  PROVE  EngineTyped'
<1>1. PICK m \in engine.unscored, fast \in BOOLEAN, full \in BOOLEAN, priced \in BOOLEAN :
        due' = IF fast \/ full
               THEN due \cup {[mint |-> m, fill |-> SimulateBuy(priced),
                      entry |-> Births[m] + IF fast THEN FastSec ELSE ObserveSec]}
               ELSE due
  BY DEF ScoreTokenForEntry
<1>2. SimulateBuy(priced) \in Purchase
  BY DEF Purchase
<1>3. \A c \in due' : c.fill \in Purchase
  BY <1>1, <1>2 DEF EngineTyped
<1>4. portfolio' = portfolio /\ tape' = tape
  BY DEF ScoreTokenForEntry
<1>5. engine'.pc \in {"score", "replay", "tail", "done"} /\ engine'.unscored \subseteq DOMAIN Births
  BY DEF BacktestInv, EngineShape
<1> QED BY <1>3, <1>4, <1>5 DEF EngineTyped, BacktestTypeOK

LEMMA ReplayingTyped ==
  ASSUME BacktestInv, EngineTyped, ReplayTrade, BacktestInv'
  PROVE  EngineTyped'
<1>1. PICK t \in MarketTrades, share \in 0..Half \cup {Whole}, sale \in Sales :
        \E order \in Orders(t.at) :
          /\ portfolio' = HandlePositionTrade(OpenDueCandidates(
               CloseExpiredPositions(portfolio, t.at, [m \in DOMAIN Births |-> sale]), order),
               t, share, sale)
          /\ tape' = Append(tape, t) /\ due' = due \ DueBy(t.at)
  BY DEF ReplayTrade
<1>2. PICK order \in Orders(t.at) :
        /\ portfolio' = HandlePositionTrade(OpenDueCandidates(
             CloseExpiredPositions(portfolio, t.at, [m \in DOMAIN Births |-> sale]), order),
             t, share, sale)
        /\ tape' = Append(tape, t) /\ due' = due \ DueBy(t.at)
  BY <1>1
<1>3. sale \in Nat /\ t.at \in Nat
  BY BacktestAssumption DEF MarketTrades
<1>4. EngineShape
  BY DEF BacktestInv
<1>5. portfolio \in Solvent({})
  BY <1>4 DEF EngineShape, EngineTyped, BacktestTypeOK, Solvent, Bounded, Paid
<1>6. PICK expired \in Solvent({}) :
        expired = CloseExpiredPositions(portfolio, t.at, [m \in DOMAIN Births |-> sale])
  BY <1>3, <1>5, SolventExpires
<1>7. PICK opens \in Solvent({}) : opens = OpenDueCandidates(expired, order)
  BY <1>3, <1>4, SolventOpens
<1>8. Paid(portfolio')
  <2>1. opens \in Bounded({}) /\ Paid(opens)
    BY DEF Solvent
  <2>2. Paid(HandlePositionTrade(opens, t, share, sale))
    BY <1>3, <2>1, HandlingPays
  <2> QED BY <1>2, <1>6, <1>7, <2>2
<1>9. Len(tape') <= TapeLength
  <2>1. Len(tape) < TapeLength /\ tape \in Seq(MarketTrades) /\ TapeLength \in Nat
    BY <1>4, BacktestAssumption DEF EngineShape, ReplayTrade
  <2> QED BY <1>2, <2>1
<1>10. \A c \in due' : c.fill \in Purchase
  BY <1>2 DEF EngineTyped
<1>11. engine'.pc \in {"score", "replay", "tail", "done"} /\ engine'.unscored \subseteq DOMAIN Births
  BY DEF BacktestInv, EngineShape
<1> QED BY <1>8, <1>9, <1>10, <1>11 DEF EngineTyped, BacktestTypeOK, Paid

LEMMA OpeningTyped ==
  ASSUME BacktestInv, EngineTyped, OpenRest, BacktestInv'
  PROVE  EngineTyped'
<1>1. EngineShape /\ due # {} /\ tape' = tape
  BY DEF BacktestInv, OpenRest
<1>2. Min({c.entry : c \in due}) \in {c.entry : c \in due}
  <2>1. {c.entry : c \in due} \subseteq Nat /\ {c.entry : c \in due} # {}
    BY <1>1 DEF EngineShape, Waiting
  <2> QED BY <2>1, LeastInt
<1>3. PICK now \in Nat : now = Min({c.entry : c \in due})
  BY <1>1, <1>2 DEF EngineShape, Waiting
<1>4. PICK sale \in Sales, order \in Orders(now) :
        /\ portfolio' = OpenDueCandidates(
             CloseExpiredPositions(portfolio, now, [m \in DOMAIN Births |-> sale]), order)
        /\ due' = due \ DueBy(now)
  BY <1>3 DEF OpenRest
<1>5. portfolio \in Solvent({}) /\ sale \in Nat
  BY <1>1, BacktestAssumption
     DEF EngineShape, EngineTyped, BacktestTypeOK, Solvent, Bounded, Paid
<1>6. PICK expired \in Solvent({}) :
        expired = CloseExpiredPositions(portfolio, now, [m \in DOMAIN Births |-> sale])
  BY <1>5, SolventExpires
<1>7. OpenDueCandidates(expired, order) \in Solvent({})
  BY <1>1, SolventOpens
<1>8. Paid(portfolio')
  BY <1>4, <1>6, <1>7 DEF Solvent
<1>9. \A c \in due' : c.fill \in Purchase
  BY <1>4 DEF EngineTyped
<1>10. engine'.pc \in {"score", "replay", "tail", "done"} /\ engine'.unscored \subseteq DOMAIN Births
  BY DEF BacktestInv, EngineShape
<1> QED BY <1>1, <1>8, <1>9, <1>10 DEF EngineTyped, BacktestTypeOK, Paid

LEMMA ClosingTyped ==
  ASSUME BacktestInv, EngineTyped, CloseRemainingPositions, BacktestInv'
  PROVE  EngineTyped'
<1>1. /\ tape \in Seq(MarketTrades) /\ portfolio \in Bounded(TapeTimes)
      /\ tape' = tape /\ due' = due
  BY DEF BacktestInv, EngineShape, CloseRemainingPositions
<1>2. PICK sale \in Sales : portfolio' = AllClosed(portfolio, sale)
  BY DEF CloseRemainingPositions, AllClosed
<1>3. sale \in Nat /\ sale \in Int
  BY BacktestAssumption
<1>4. IsFiniteSet(DOMAIN portfolio.positions) /\ DOMAIN portfolio.positions \subseteq DOMAIN Births
  <2>1. portfolio \in Ports /\ IsFiniteSet(DOMAIN portfolio.positions)
    BY <1>1 DEF Bounded, Bounds
  <2> QED BY <2>1, PortParts
<1>5. ASSUME NEW q \in Solvent(TapeTimes), NEW m \in DOMAIN portfolio.positions
      PROVE  CloseRemaining(q, m, sale) \in Solvent(TapeTimes)
  <2>1. q \in Bounded(TapeTimes) /\ Paid(q) /\ m \in DOMAIN Births
    BY <1>4 DEF Solvent
  <2>2. CloseRemaining(q, m, sale) \in Bounded(TapeTimes)
    BY <1>1, <1>3, <2>1, RemainingBounded
  <2>3. Paid(CloseRemaining(q, m, sale))
    <3>1. PICK heard :
            heard = Among(tape, {t \in MarketTrades : t.mint = m /\ t.at >= q.positions[m].entry})
      OBVIOUS
    <3>2. PICK fill \in Income : fill = SimulateSell(heard, q.positions[m].left, sale)
      BY <1>3, SaleEarns
    <3>3. PICK exit : exit = IF heard = <<>> THEN q.positions[m].entry + 60 ELSE Last(heard).at
      OBVIOUS
    <3>4. CloseRemaining(q, m, sale) = ClosePosition(q, m, fill, exit)
      BY <3>1, <3>2, <3>3 DEF CloseRemaining
    <3> QED BY <2>1, <3>4, ClosingPays
  <2> QED BY <2>2, <2>3 DEF Solvent
<1>6. AllClosed(portfolio, sale) \in Solvent(TapeTimes)
  <2>1. portfolio \in Solvent(TapeTimes)
    BY <1>1 DEF EngineTyped, BacktestTypeOK, Solvent, Paid
  <2> QED BY <1>4, <1>5, <2>1, RemainingStays
<1>7. Paid(portfolio')
  BY <1>2, <1>6 DEF Solvent
<1>8. engine'.pc \in {"score", "replay", "tail", "done"} /\ engine'.unscored \subseteq DOMAIN Births
  BY DEF BacktestInv, EngineShape
<1> QED BY <1>1, <1>7, <1>8 DEF EngineTyped, BacktestTypeOK, Paid

LEMMA EngineKeepsTypes ==
  ASSUME BacktestInv, EngineTyped, [BacktestNext]_backtestVars
  PROVE  EngineTyped'
<1>1. BacktestInv'
  BY BacktestSteps
<1>2. CASE BacktestNext
  BY <1>1, <1>2, ScoringTyped, ReplayingTyped, OpeningTyped, ClosingTyped DEF BacktestNext
<1>3. CASE UNCHANGED backtestVars
  BY <1>3 DEF backtestVars, EngineTyped, BacktestTypeOK
<1> QED BY <1>2, <1>3

(* ------------------- the labels of an entry ------------------------------ *)
LabelsSpec == LabelsInit /\ [][LabelsNext]_labelVars

LifeTrade == [at : Nat, price : Nat \ {0}]
Reasons == {"off", "open", "hard_stop", "take_profit", "trailing_stop", "timeout",
            "dead_token", "survival_predict"}
RunnerType == [price : Nat \ {0}, heard : Nat, peak : Int, reason : Reasons,
               at : Int, ended : Int]
Ending == {"take_profit", "trailing_stop", "timeout"}

LEMMA EarnsInt ==
  ASSUME NEW from \in Nat \ {0}, NEW price \in Nat \ {0}
  PROVE  Earns(from, price) \in Int
<1>1. PICK a \in Int : a = 100 * price
  OBVIOUS
<1>2. a \div from \in Int
  OBVIOUS
<1>3. Cost \in Int
  BY ExitLabelsAssumption
<1>4. Earns(from, price) = a \div from - 100 - Cost
  BY <1>1 DEF Earns
<1>5. PICK b \in Int : b = a \div from
  BY <1>2
<1> QED BY <1>3, <1>4, <1>5

LEMMA GreaterOfTwo ==
  ASSUME NEW a \in Int, NEW b \in Int
  PROVE  /\ Max({a, b}) \in Int
         /\ a >= b => Max({a, b}) = a
         /\ b >= a => Max({a, b}) = b
<1>1. PICK m \in {a, b} : \A y \in {a, b} : m >= y
  <2>1. CASE a >= b
    BY <2>1
  <2>2. CASE ~(a >= b)
    BY <2>2
  <2> QED BY <2>1, <2>2
<1>2. /\ Max({a, b}) \in {a, b}
      /\ \A y \in {a, b} : Max({a, b}) >= y
  BY <1>1 DEF Max
<1>3. PICK g \in {a, b} : g = Max({a, b})
  BY <1>2
<1> QED BY <1>2, <1>3

LEMMA LesserOfTwo ==
  ASSUME NEW a \in Int, NEW b \in Int
  PROVE  /\ Min({a, b}) \in Int
         /\ a <= b => Min({a, b}) = a
         /\ b <= a => Min({a, b}) = b
<1>1. PICK m \in {a, b} : \A y \in {a, b} : m <= y
  <2>1. CASE a <= b
    BY <2>1
  <2>2. CASE ~(a <= b)
    BY <2>2
  <2> QED BY <2>1, <2>2
<1>2. /\ Min({a, b}) \in {a, b}
      /\ \A y \in {a, b} : Min({a, b}) <= y
  BY <1>1 DEF Min
<1>3. PICK g \in {a, b} : g = Min({a, b})
  BY <1>2
<1> QED BY <1>2, <1>3

(* After a trade that closed nothing no rule of the price fires: the best so *)
(* far already counts what the position earns at the price it knows.         *)
RulesRest(e, r) ==
  r.heard >= WarmAt =>
    /\ Earns(e.price, r.price) < TakeAt
    /\ r.peak >= Earns(e.price, r.price)
    /\ ~(r.peak >= TrailFrom /\ r.peak - Earns(e.price, r.price) >= TrailBy)

(* The position ended, by a rule at the moment t.                            *)
EndedAt(q, r, t) ==
  /\ q.reason \in Ending
  /\ q.at = t /\ q.ended = t /\ q.heard = r.heard /\ q.price = r.price
Continues(e, q, r, t) ==
  /\ q.reason = "open" /\ RulesRest(e, q)
  /\ q.at = r.at /\ q.ended = r.ended /\ q.heard = r.heard /\ q.price = r.price
  /\ q.heard >= WarmAt => t - e.at <= HoldFor

LEMMA ClosedIs ==
  ASSUME NEW r \in RunnerType, NEW reason \in Reasons, NEW t \in Int
  PROVE  /\ Closed(r, reason, t) \in RunnerType
         /\ Closed(r, reason, t).reason = reason /\ Closed(r, reason, t).at = t
         /\ Closed(r, reason, t).ended = t /\ Closed(r, reason, t).heard = r.heard
         /\ Closed(r, reason, t).price = r.price
BY DEF RunnerType, Closed

LEMMA DecideIs ==
  ASSUME NEW e \in LifeTrade, NEW r \in RunnerType, r.reason = "open", NEW t \in Int
  PROVE  /\ DecideExit(e, r, t) \in RunnerType
         /\ \/ EndedAt(DecideExit(e, r, t), r, t)
            \/ Continues(e, DecideExit(e, r, t), r, t)
<1>1. PICK leg \in Int : leg = Earns(e.price, r.price)
  BY EarnsInt DEF LifeTrade, RunnerType
<1>2. PICK peak \in Int : peak = Max({r.peak, leg}) /\ peak >= leg
  BY GreaterOfTwo DEF RunnerType
<1>3. /\ WarmAt \in Nat \ {0} /\ TakeAt \in Int /\ TrailFrom \in Int /\ TrailBy \in Int
      /\ HoldFor \in Nat /\ e.at \in Nat
  BY ExitLabelsAssumption DEF LifeTrade
<1>8. DecideExit(e, r, t) =
        CASE r.heard < WarmAt -> r
          [] r.heard >= WarmAt /\ leg >= TakeAt -> Closed(r, "take_profit", t)
          [] /\ r.heard >= WarmAt /\ leg < TakeAt
             /\ peak >= TrailFrom /\ peak - leg >= TrailBy -> Closed(r, "trailing_stop", t)
          [] OTHER -> IF t - e.at > HoldFor THEN Closed(r, "timeout", t)
                      ELSE [r EXCEPT !.peak = peak]
  BY <1>1, <1>2 DEF DecideExit
<1>9. r.heard \in Nat
  BY DEF RunnerType
<1>10. PICK q : q = DecideExit(e, r, t)
  OBVIOUS
<1>4. CASE r.heard < WarmAt
  <2>1. q = r
    BY <1>3, <1>4, <1>8, <1>9, <1>10
  <2> QED BY <1>3, <1>4, <1>10, <2>1 DEF RunnerType, Continues, RulesRest
<1>5. CASE r.heard >= WarmAt /\ leg >= TakeAt
  <2>1. q = Closed(r, "take_profit", t)
    BY <1>3, <1>5, <1>8, <1>9, <1>10
  <2>2. "take_profit" \in Reasons
    BY DEF Reasons
  <2> QED BY <1>10, <2>1, <2>2, ClosedIs DEF EndedAt, Ending
<1>6. CASE r.heard >= WarmAt /\ leg < TakeAt /\ peak >= TrailFrom /\ peak - leg >= TrailBy
  <2>1. q = Closed(r, "trailing_stop", t)
    BY <1>3, <1>6, <1>8, <1>9, <1>10
  <2>2. "trailing_stop" \in Reasons
    BY DEF Reasons
  <2> QED BY <1>10, <2>1, <2>2, ClosedIs DEF EndedAt, Ending
<1>7. CASE r.heard >= WarmAt /\ leg < TakeAt /\ ~(peak >= TrailFrom /\ peak - leg >= TrailBy)
  <2>1. q = IF t - e.at > HoldFor THEN Closed(r, "timeout", t) ELSE [r EXCEPT !.peak = peak]
    BY <1>3, <1>7, <1>8, <1>9, <1>10
  <2>2. CASE t - e.at > HoldFor
    <3>1. "timeout" \in Reasons
      BY DEF Reasons
    <3> QED BY <1>10, <2>1, <2>2, <3>1, ClosedIs DEF EndedAt, Ending
  <2>3. CASE ~(t - e.at > HoldFor)
    <3>1. q = [r EXCEPT !.peak = peak]
      BY <2>1, <2>3
    <3>2. q \in RunnerType /\ q.peak = peak /\ q.price = r.price /\ q.heard = r.heard
          /\ q.reason = "open" /\ q.at = r.at /\ q.ended = r.ended
      BY <3>1 DEF RunnerType
    <3>3. RulesRest(e, q)
      BY <1>1, <1>2, <1>7, <3>2 DEF RulesRest
    <3> QED BY <1>3, <1>10, <2>3, <3>2, <3>3 DEF Continues
  <2> QED BY <2>2, <2>3
<1> QED BY <1>1, <1>2, <1>3, <1>4, <1>5, <1>6, <1>7, <1>9

(* A tick of a settled position does nothing until it has been held too long. *)
LEMMA TickSettled ==
  ASSUME NEW e \in LifeTrade, NEW r \in RunnerType, r.reason = "open",
         RulesRest(e, r), NEW t \in Int
  PROVE  DecideExit(e, r, t) = IF r.heard >= WarmAt /\ t - e.at > HoldFor
                               THEN Closed(r, "timeout", t) ELSE r
<1>1. PICK leg \in Int : leg = Earns(e.price, r.price)
  BY EarnsInt DEF LifeTrade, RunnerType
<1>2. PICK peak \in Int : peak = Max({r.peak, leg}) /\ (r.peak >= leg => peak = r.peak)
  BY GreaterOfTwo DEF RunnerType
<1>3. /\ WarmAt \in Nat \ {0} /\ TakeAt \in Int /\ TrailFrom \in Int /\ TrailBy \in Int
      /\ HoldFor \in Nat /\ e.at \in Nat
  BY ExitLabelsAssumption DEF LifeTrade
<1>8. DecideExit(e, r, t) =
        CASE r.heard < WarmAt -> r
          [] r.heard >= WarmAt /\ leg >= TakeAt -> Closed(r, "take_profit", t)
          [] /\ r.heard >= WarmAt /\ leg < TakeAt
             /\ peak >= TrailFrom /\ peak - leg >= TrailBy -> Closed(r, "trailing_stop", t)
          [] OTHER -> IF t - e.at > HoldFor THEN Closed(r, "timeout", t)
                      ELSE [r EXCEPT !.peak = peak]
  BY <1>1, <1>2 DEF DecideExit
<1>9. r.heard \in Nat
  BY DEF RunnerType
<1>10. PICK q : q = DecideExit(e, r, t)
  OBVIOUS
<1>4. CASE r.heard < WarmAt
  BY <1>3, <1>4, <1>8, <1>9, <1>10
<1>5. CASE r.heard >= WarmAt
  <2>1. leg < TakeAt /\ peak = r.peak /\ ~(peak >= TrailFrom /\ peak - leg >= TrailBy)
    BY <1>1, <1>2, <1>5 DEF RulesRest
  <2>2. q = IF t - e.at > HoldFor THEN Closed(r, "timeout", t) ELSE [r EXCEPT !.peak = peak]
    BY <1>3, <1>5, <1>8, <1>9, <1>10, <2>1
  <2>3. [r EXCEPT !.peak = peak] = r
    BY <2>1 DEF RunnerType
  <2> QED BY <1>5, <1>10, <2>2, <2>3
<1> QED BY <1>3, <1>4, <1>5, <1>9

PathRule == {"hard_stop"} \cup Ending
HeardOne(e, q, r, x) ==
  /\ q \in RunnerType /\ q.heard = r.heard + 1 /\ q.price = x.price
  /\ \/ q.reason \in PathRule /\ q.at = x.at /\ q.ended = x.at
     \/ /\ q.reason = "open" /\ RulesRest(e, q) /\ q.at = r.at /\ q.ended = r.ended
        /\ q.heard >= WarmAt => x.at - e.at <= HoldFor

LEMMA ProcessIs ==
  ASSUME NEW e \in LifeTrade, NEW r \in RunnerType, r.reason = "open",
         NEW x \in LifeTrade
  PROVE  HeardOne(e, Process(e, r, x), r, x)
<1> DEFINE q == [r EXCEPT !.price = x.price, !.heard = @ + 1]
<1>1. q \in RunnerType /\ q.reason = "open" /\ q.heard = r.heard + 1 /\ q.price = x.price
      /\ q.at = r.at /\ q.ended = r.ended
  <2>1. PICK price \in Nat \ {0} : price = x.price
    BY DEF LifeTrade
  <2>2. PICK n \in Nat : n = r.heard
    BY DEF RunnerType
  <2>3. q = [r EXCEPT !.price = price, !.heard = n + 1]
    BY <2>1, <2>2
  <2>4. PICK m : m = [r EXCEPT !.price = price]
    OBVIOUS
  <2>5. m \in RunnerType
    BY <2>1, <2>4 DEF RunnerType
  <2>6. [m EXCEPT !.heard = n + 1] \in RunnerType
    BY <2>2, <2>5 DEF RunnerType
  <2>7. q = [m EXCEPT !.heard = n + 1]
    BY <2>1, <2>2, <2>3, <2>4
  <2>8. q.heard = n + 1 /\ q.price = price
        /\ q.reason = r.reason /\ q.at = r.at /\ q.ended = r.ended
    <3> HIDE DEF q
    <3> QED BY <2>1, <2>2, <2>3 DEF RunnerType
  <2> QED BY <2>1, <2>2, <2>6, <2>7, <2>8
<1>2. x.at \in Int
  BY DEF LifeTrade
<1>3. Process(e, r, x) = IF Earns(e.price, x.price) < -StopAt THEN Closed(q, "hard_stop", x.at)
                         ELSE DecideExit(e, q, x.at)
  BY DEF Process
<1> HIDE DEF q
<1>4. CASE Earns(e.price, x.price) < -StopAt
  <2>1. Process(e, r, x) = Closed(q, "hard_stop", x.at)
    BY <1>3, <1>4
  <2>2. "hard_stop" \in Reasons
    BY DEF Reasons
  <2> QED BY <1>1, <1>2, <2>1, <2>2, ClosedIs DEF HeardOne, PathRule
<1>5. CASE ~(Earns(e.price, x.price) < -StopAt)
  <2>1. Process(e, r, x) = DecideExit(e, q, x.at)
    BY <1>3, <1>5
  <2>2. PICK d : d = DecideExit(e, q, x.at)
    OBVIOUS
  <2>3. d \in RunnerType /\ (EndedAt(d, q, x.at) \/ Continues(e, d, q, x.at))
    BY <1>1, <1>2, <2>2, DecideIs
  <2> QED BY <1>1, <2>1, <2>2, <2>3 DEF HeardOne, EndedAt, Continues, PathRule
<1> QED BY <1>4, <1>5

(* A recursion over the numbers up to n, whose steps stay in V.              *)
RunSolved(n, V, base, g) ==
  \E f \in [0..n -> V] : f[0] = base /\ \A i \in 1..n : f[i] = g[<<f[i - 1], i>>]

LEMMA RunExists ==
  ASSUME NEW n \in Nat, NEW V, NEW base \in V, NEW g \in [V \X (1..n) -> V]
  PROVE  RunSolved(n, V, base, g)
<1> DEFINE RunsTo(f, m) == f[0] = base /\ \A i \in 1..m : f[i] = g[<<f[i - 1], i>>]
           Good == {m \in 0..n : \E f \in [0..m -> V] : RunsTo(f, m)}
<1>1. 0 \in Good
  <2> DEFINE f == [i \in 0..0 |-> base]
  <2>1. f \in [0..0 -> V] /\ f[0] = base
    OBVIOUS
  <2>2. 1..0 = {} /\ 0 \in 0..n
    OBVIOUS
  <2>3. RunsTo(f, 0)
    BY <2>1, <2>2
  <2> HIDE DEF RunsTo, f
  <2> QED BY <2>1, <2>2, <2>3
<1>2. ASSUME NEW m \in 0..n, m # n, m \in Good
      PROVE  m + 1 \in Good
  <2>1. PICK f \in [0..m -> V] : RunsTo(f, m)
    BY <1>2
  <2>2. m \in Nat /\ m + 1 \in 1..n /\ m \in 0..m /\ m + 1 \in 0..n
    BY <1>2
  <2>3. PICK v \in V : v = g[<<f[m], m + 1>>]
    BY <2>2
  <2> DEFINE more == [i \in 0..m + 1 |-> IF i = m + 1 THEN v ELSE f[i]]
  <2>4. more \in [0..m + 1 -> V]
    BY <2>2, <2>3
  <2>5. more[m + 1] = v /\ \A i \in 0..m : more[i] = f[i]
    BY <2>2
  <2> HIDE DEF more
  <2>6. ASSUME NEW i \in 1..m + 1 PROVE more[i] = g[<<more[i - 1], i>>]
    <3>1. CASE i = m + 1
      BY <2>2, <2>3, <2>5, <3>1
    <3>2. CASE i # m + 1
      <4>1. i \in 1..m /\ i \in 0..m /\ i - 1 \in 0..m
        BY <2>2, <3>2
      <4> QED BY <2>1, <2>5, <4>1
    <3> QED BY <3>1, <3>2
  <2>7. more[0] = base
    BY <2>1, <2>2, <2>5
  <2>8. RunsTo(more, m + 1)
    BY <2>6, <2>7
  <2> HIDE DEF RunsTo
  <2> QED BY <2>2, <2>4, <2>8
<1>3. \A m \in 0..n : m \in Good
  <2> HIDE DEF Good
  <2> QED BY <1>1, <1>2, Climb
<1>4. n \in Good
  BY <1>3
<1> QED BY <1>4 DEF RunSolved

(* ------------------- the ticks of a simulation --------------------------- *)
TickAt(e, q, t) ==
  IF q.reason = "open" /\ (t - e.at) % TickEvery = 0 THEN DecideExit(e, q, t) ELSE q
TickStep(tick, e, r, since, n) ==
  IF n = 0 THEN r ELSE TickAt(e, tick[n - 1], since + n - 1)
TickRun(f, e, r, since, n) ==
  f[0] = r /\ \A i \in 1..n : f[i] = TickAt(e, f[i - 1], since + i - 1)

LEMMA TickAtType ==
  ASSUME NEW e \in LifeTrade, NEW q \in RunnerType, NEW t \in Int
  PROVE  TickAt(e, q, t) \in RunnerType
BY DecideIs DEF TickAt

LEMMA TicksRun ==
  ASSUME NEW e \in LifeTrade, NEW r \in RunnerType, NEW since \in Int, NEW until \in Int,
         NEW n \in Nat, n = Max({0, until + 1 - since})
  PROVE  \E f : TickRun(f, e, r, since, n) /\ Ticks(e, r, since, until) = f[n]
<1> DEFINE g == [v \in RunnerType \X (1..n) |-> TickAt(e, v[1], since + v[2] - 1)]
           tick == CHOOSE h : h = [i \in 0..n |-> TickStep(h, e, r, since, i)]
<1>1. Ticks(e, r, since, until) = tick[n]
  BY DEF Ticks, TickStep, TickAt
<1>2. g \in [RunnerType \X (1..n) -> RunnerType]
  <2>1. ASSUME NEW v \in RunnerType \X (1..n)
        PROVE  TickAt(e, v[1], since + v[2] - 1) \in RunnerType
    <3>1. v[1] \in RunnerType /\ since + v[2] - 1 \in Int
      BY <2>1
    <3> QED BY <3>1, TickAtType
  <2> QED BY <2>1
<1>3. \A v \in RunnerType, i \in 1..n : g[<<v, i>>] = TickAt(e, v, since + i - 1)
  OBVIOUS
<1>4. PICK f \in [0..n -> RunnerType] : f[0] = r /\ \A i \in 1..n : f[i] = g[<<f[i - 1], i>>]
  <2> HIDE DEF g, tick
  <2>1. PICK V : V = RunnerType
    OBVIOUS
  <2>2. r \in V /\ g \in [V \X (1..n) -> V]
    BY <1>2, <2>1
  <2>3. RunSolved(n, V, r, g)
    BY <2>2, RunExists
  <2> QED BY <2>1, <2>3 DEF RunSolved
<1> HIDE DEF g
<1>5. \A i \in 0..n : f[i] = TickStep(f, e, r, since, i)
  <2> TAKE i \in 0..n
  <2>1. CASE i = 0
    BY <1>4, <2>1 DEF TickStep
  <2>2. CASE i # 0
    <3>1. i \in 1..n /\ i - 1 \in 0..n
      BY <2>2
    <3> QED BY <1>3, <1>4, <2>2, <3>1 DEF TickStep
  <2> QED BY <2>1, <2>2
<1>6. f = [i \in 0..n |-> TickStep(f, e, r, since, i)]
  BY <1>5
<1>7. tick = [i \in 0..n |-> TickStep(tick, e, r, since, i)]
  BY <1>6
<1> HIDE DEF tick
<1>8. tick[0] = r /\ \A i \in 1..n : tick[i] = TickAt(e, tick[i - 1], since + i - 1)
  <2>1. \A i \in 0..n : tick[i] = TickStep(tick, e, r, since, i)
    BY <1>7
  <2>2. 0 \in 0..n /\ \A i \in 1..n : i \in 0..n /\ i # 0
    OBVIOUS
  <2>3. \A i \in 1..n : TickStep(tick, e, r, since, i) = TickAt(e, tick[i - 1], since + i - 1)
    BY <2>2 DEF TickStep
  <2>4. TickStep(tick, e, r, since, 0) = r
    BY DEF TickStep
  <2> QED BY <2>1, <2>2, <2>3, <2>4
<1> QED BY <1>1, <1>8 DEF TickRun

Overdue(e, t) == (t - e.at) % TickEvery = 0 /\ t - e.at > HoldFor
NoneOverdue(e, since, until) == \A t \in since..until : ~Overdue(e, t)
Ticked(e, q, r, since, until) ==
  \/ q = r /\ (r.heard >= WarmAt => NoneOverdue(e, since, until))
  \/ \E t \in since..until :
       /\ q = Closed(r, "timeout", t) /\ r.heard >= WarmAt
       /\ Overdue(e, t) /\ NoneOverdue(e, since, t - 1)

LEMMA TickGoesOn ==
  ASSUME NEW e \in LifeTrade, NEW r \in RunnerType, r.reason = "open", RulesRest(e, r),
         NEW since \in Int, NEW t \in Int, since <= t, NEW q, Ticked(e, q, r, since, t - 1)
  PROVE  Ticked(e, TickAt(e, q, t), r, since, t)
<1>0. "timeout" \in Reasons
  BY DEF Reasons
<1>1. CASE q = r /\ (r.heard >= WarmAt => NoneOverdue(e, since, t - 1))
  <2>1. TickAt(e, q, t) = IF Overdue(e, t) /\ r.heard >= WarmAt
                          THEN Closed(r, "timeout", t) ELSE r
    BY <1>1, TickSettled DEF TickAt, Overdue
  <2>2. CASE Overdue(e, t) /\ r.heard >= WarmAt
    BY <1>1, <2>1, <2>2 DEF Ticked
  <2>3. CASE ~(Overdue(e, t) /\ r.heard >= WarmAt)
    <3>1. TickAt(e, q, t) = r
      BY <2>1, <2>3
    <3>2. r.heard >= WarmAt => NoneOverdue(e, since, t)
      BY <1>1, <2>3 DEF NoneOverdue
    <3> QED BY <3>1, <3>2 DEF Ticked
  <2> QED BY <2>2, <2>3
<1>2. CASE \E u \in since..t - 1 :
             /\ q = Closed(r, "timeout", u) /\ r.heard >= WarmAt
             /\ Overdue(e, u) /\ NoneOverdue(e, since, u - 1)
  <2>1. PICK u \in since..t - 1 :
             /\ q = Closed(r, "timeout", u) /\ r.heard >= WarmAt
             /\ Overdue(e, u) /\ NoneOverdue(e, since, u - 1)
    BY <1>2
  <2>2. q.reason = "timeout"
    BY <1>0, <2>1, ClosedIs
  <2>3. TickAt(e, q, t) = q /\ u \in since..t
    BY <2>2 DEF TickAt
  <2> QED BY <2>1, <2>3 DEF Ticked
<1> QED BY <1>1, <1>2 DEF Ticked

LEMMA TicksAre ==
  ASSUME NEW e \in LifeTrade, NEW r \in RunnerType, r.reason = "open", RulesRest(e, r),
         NEW since \in Int, NEW until \in Int
  PROVE  Ticked(e, Ticks(e, r, since, until), r, since, until)
<1>1. PICK n \in Nat : n = Max({0, until + 1 - since})
  <2>1. PICK d \in Int : d = until + 1 - since
    OBVIOUS
  <2>2. Max({0, d}) \in Nat
    BY GreaterOfTwo
  <2> QED BY <2>1, <2>2
<1>2. (until + 1 - since >= 0 => n = until + 1 - since)
      /\ (until + 1 - since < 0 => n = 0)
  <2>1. PICK d \in Int : d = until + 1 - since
    OBVIOUS
  <2> QED BY <1>1, <2>1, GreaterOfTwo
<1>3. PICK f : TickRun(f, e, r, since, n) /\ Ticks(e, r, since, until) = f[n]
  BY <1>1, TicksRun
<1> DEFINE Good == {i \in 0..n : Ticked(e, f[i], r, since, since + i - 1)}
<1>4. 0 \in Good
  <2>1. f[0] = r /\ since..since + 0 - 1 = {}
    BY <1>3 DEF TickRun
  <2> QED BY <2>1 DEF Ticked, NoneOverdue
<1>5. ASSUME NEW i \in 0..n, i # n, i \in Good
      PROVE  i + 1 \in Good
  <2>1. PICK t \in Int : t = since + i
    OBVIOUS
  <2>2. t - 1 = since + i - 1 /\ since <= t /\ since + (i + 1) - 1 = t
        /\ i + 1 \in 1..n /\ (i + 1) - 1 = i /\ i + 1 \in 0..n
    BY <1>5, <2>1
  <2>3. Ticked(e, f[i], r, since, t - 1)
    BY <1>5, <2>2
  <2>4. f[i + 1] = TickAt(e, f[i], t)
    BY <1>3, <2>2 DEF TickRun
  <2>5. Ticked(e, f[i + 1], r, since, t)
    BY <2>2, <2>3, <2>4, TickGoesOn
  <2> QED BY <2>2, <2>5
<1>6. \A i \in 0..n : i \in Good
  <2> HIDE DEF Good
  <2> QED BY <1>4, <1>5, Climb
<1>7. Ticked(e, f[n], r, since, since + n - 1)
  BY <1>6
<1>8. CASE until + 1 - since >= 0
  BY <1>2, <1>3, <1>7, <1>8
<1>9. CASE until + 1 - since < 0
  <2>1. f[n] = r /\ since..until = {}
    BY <1>2, <1>3, <1>9 DEF TickRun
  <2> QED BY <1>3, <2>1 DEF Ticked, NoneOverdue
<1> QED BY <1>8, <1>9

LEMMA TicksStay ==
  ASSUME NEW e \in LifeTrade, NEW r \in RunnerType, NEW since \in Int, NEW until \in Int
  PROVE  /\ Ticks(e, r, since, until) \in RunnerType
         /\ r.reason # "open" => Ticks(e, r, since, until) = r
<1>1. PICK n \in Nat : n = Max({0, until + 1 - since})
  <2>1. PICK d \in Int : d = until + 1 - since
    OBVIOUS
  <2>2. Max({0, d}) \in Nat
    BY GreaterOfTwo
  <2> QED BY <2>1, <2>2
<1>2. PICK f : TickRun(f, e, r, since, n) /\ Ticks(e, r, since, until) = f[n]
  BY <1>1, TicksRun
<1> DEFINE Good == {i \in 0..n : f[i] \in RunnerType /\ (r.reason # "open" => f[i] = r)}
<1>3. 0 \in Good
  BY <1>2 DEF TickRun
<1>4. ASSUME NEW i \in 0..n, i # n, i \in Good
      PROVE  i + 1 \in Good
  <2>1. PICK t \in Int : t = since + i
    OBVIOUS
  <2>2. i + 1 \in 1..n /\ (i + 1) - 1 = i /\ since + (i + 1) - 1 = t /\ i + 1 \in 0..n
    BY <1>4, <2>1
  <2>3. f[i + 1] = TickAt(e, f[i], t)
    BY <1>2, <2>2 DEF TickRun
  <2>4. f[i] \in RunnerType /\ (r.reason # "open" => f[i] = r)
    BY <1>4
  <2>5. TickAt(e, f[i], t) \in RunnerType
    BY <2>4, TickAtType
  <2>6. r.reason # "open" => TickAt(e, f[i], t) = r
    BY <2>4 DEF TickAt
  <2> QED BY <2>2, <2>3, <2>5, <2>6
<1>5. \A i \in 0..n : i \in Good
  <2> HIDE DEF Good
  <2> QED BY <1>3, <1>4, Climb
<1> QED BY <1>2, <1>5

(* ------------------- the path of a position ------------------------------ *)
(* What a position comes to by its trades alone, as long as nothing ends it.  *)
PathAt(e, r, x) == IF r.reason = "open" THEN Process(e, r, x) ELSE r
PathStep(p, e, trades, i) ==
  IF i = 0 THEN Runner(e.price) ELSE PathAt(e, p[i - 1], trades[i])
Path(e, trades) == CHOOSE p : p = [i \in 0..Len(trades) |-> PathStep(p, e, trades, i)]
IsPath(p, e, trades) ==
  /\ p[0] = Runner(e.price)
  /\ \A i \in 1..Len(trades) : p[i] = PathAt(e, p[i - 1], trades[i])

LEMMA RunnerIs ==
  ASSUME NEW price \in Nat \ {0}
  PROVE  Runner(price) \in RunnerType
BY DEF Runner, RunnerType, Reasons

LEMMA PathAtType ==
  ASSUME NEW e \in LifeTrade, NEW r \in RunnerType, NEW x \in LifeTrade
  PROVE  PathAt(e, r, x) \in RunnerType
BY ProcessIs DEF PathAt, HeardOne

LEMMA PathIs ==
  ASSUME NEW e \in LifeTrade, NEW trades \in Seq(LifeTrade)
  PROVE  IsPath(Path(e, trades), e, trades)
<1>1. PICK n \in Nat : n = Len(trades) /\ \A i \in 1..n : trades[i] \in LifeTrade
  OBVIOUS
<1> DEFINE g == [v \in RunnerType \X (1..n) |-> PathAt(e, v[1], trades[v[2]])]
           p == CHOOSE h : h = [i \in 0..n |-> PathStep(h, e, trades, i)]
<1>2. Path(e, trades) = p
  BY <1>1 DEF Path
<1>3. g \in [RunnerType \X (1..n) -> RunnerType]
  <2>1. ASSUME NEW v \in RunnerType \X (1..n)
        PROVE  PathAt(e, v[1], trades[v[2]]) \in RunnerType
    <3>1. v[1] \in RunnerType /\ trades[v[2]] \in LifeTrade
      BY <1>1, <2>1
    <3> QED BY <3>1, PathAtType
  <2> QED BY <2>1
<1>4. \A v \in RunnerType, i \in 1..n : g[<<v, i>>] = PathAt(e, v, trades[i])
  OBVIOUS
<1>5. PICK f \in [0..n -> RunnerType] :
        f[0] = Runner(e.price) /\ \A i \in 1..n : f[i] = g[<<f[i - 1], i>>]
  <2> HIDE DEF g, p
  <2>1. PICK V : V = RunnerType
    OBVIOUS
  <2>2. PICK b \in V : b = Runner(e.price)
    BY <2>1, RunnerIs DEF LifeTrade
  <2>3. g \in [V \X (1..n) -> V]
    BY <1>3, <2>1
  <2>4. RunSolved(n, V, b, g)
    BY <2>2, <2>3, RunExists
  <2> QED BY <2>1, <2>2, <2>4 DEF RunSolved
<1> HIDE DEF g
<1>6. \A i \in 0..n : f[i] = PathStep(f, e, trades, i)
  <2> TAKE i \in 0..n
  <2>1. CASE i = 0
    BY <1>5, <2>1 DEF PathStep
  <2>2. CASE i # 0
    <3>1. i \in 1..n /\ i - 1 \in 0..n
      BY <2>2
    <3> QED BY <1>4, <1>5, <2>2, <3>1 DEF PathStep
  <2> QED BY <2>1, <2>2
<1>7. f = [i \in 0..n |-> PathStep(f, e, trades, i)]
  BY <1>6
<1>8. p = [i \in 0..n |-> PathStep(p, e, trades, i)]
  BY <1>7
<1> HIDE DEF p
<1>9. \A i \in 0..n : p[i] = PathStep(p, e, trades, i)
  BY <1>8
<1>10. 0 \in 0..n /\ \A i \in 1..n : i \in 0..n /\ i # 0
  OBVIOUS
<1>11. PathStep(p, e, trades, 0) = Runner(e.price)
  BY DEF PathStep
<1>12. \A i \in 1..n : PathStep(p, e, trades, i) = PathAt(e, p[i - 1], trades[i])
  BY <1>10 DEF PathStep
<1> QED BY <1>1, <1>2, <1>9, <1>10, <1>11, <1>12 DEF IsPath

OpenAfter(e, trades, r, i) ==
  /\ r.heard = i /\ r.at = 0 /\ r.ended = 0 /\ RulesRest(e, r)
  /\ r.price = IF i = 0 THEN e.price ELSE trades[i].price
  /\ i >= WarmAt => trades[i].at - e.at <= HoldFor
ClosedAfter(trades, r, i) ==
  /\ r.heard = i /\ r.price = trades[i].price
  /\ r.at = trades[i].at /\ r.ended = trades[i].at /\ r.reason \in PathRule
Along(e, trades, p, i) ==
  /\ p[i] \in RunnerType
  /\ p[i].reason = "open" => OpenAfter(e, trades, p[i], i)
  /\ i > 0 /\ p[i].reason = "open" => p[i - 1].reason = "open"
  /\ i > 0 /\ p[i].reason # "open" /\ p[i - 1].reason = "open" => ClosedAfter(trades, p[i], i)

LEMMA PathAlong ==
  ASSUME NEW e \in LifeTrade, NEW trades \in Seq(LifeTrade), NEW p, IsPath(p, e, trades)
  PROVE  \A i \in 0..Len(trades) : Along(e, trades, p, i)
<1>1. PICK n \in Nat : n = Len(trades) /\ \A i \in 1..n : trades[i] \in LifeTrade
  OBVIOUS
<1>2. WarmAt \in Nat \ {0}
  BY ExitLabelsAssumption
<1> DEFINE Good == {i \in 0..n : Along(e, trades, p, i)}
<1>3. 0 \in Good
  <2>1. p[0] = Runner(e.price) /\ p[0] \in RunnerType
    BY RunnerIs DEF IsPath, LifeTrade
  <2>2. p[0].heard = 0 /\ p[0].at = 0 /\ p[0].ended = 0 /\ p[0].price = e.price
    BY <2>1 DEF Runner
  <2>3. OpenAfter(e, trades, p[0], 0)
    BY <1>2, <2>2 DEF OpenAfter, RulesRest
  <2> QED BY <2>1, <2>3 DEF Along
<1>4. ASSUME NEW i \in 0..n, i # n, i \in Good
      PROVE  i + 1 \in Good
  <2>1. i + 1 \in 1..n /\ (i + 1) - 1 = i /\ i + 1 \in 0..n /\ i + 1 > 0 /\ i + 1 # 0
    BY <1>4
  <2>2. PICK x \in LifeTrade : x = trades[i + 1]
    BY <1>1, <2>1
  <2>3. p[i + 1] = PathAt(e, p[i], x)
    BY <1>1, <2>1, <2>2 DEF IsPath
  <2>4. Along(e, trades, p, i)
    BY <1>4
  <2>5. CASE p[i].reason # "open"
    <3>1. p[i + 1] = p[i]
      BY <2>3, <2>5 DEF PathAt
    <3>2. Along(e, trades, p, i + 1)
      BY <2>1, <2>4, <2>5, <3>1 DEF Along
    <3> QED BY <2>1, <3>2
  <2>6. CASE p[i].reason = "open"
    <3>1. p[i].heard = i /\ p[i].at = 0 /\ p[i].ended = 0 /\ p[i] \in RunnerType
      BY <2>4, <2>6 DEF Along, OpenAfter
    <3>2. p[i + 1] = Process(e, p[i], x)
      BY <2>3, <2>6 DEF PathAt
    <3>3. HeardOne(e, p[i + 1], p[i], x)
      BY <2>6, <3>1, <3>2, ProcessIs
    <3>4. p[i + 1].reason = "open" => OpenAfter(e, trades, p[i + 1], i + 1)
      BY <2>1, <2>2, <3>1, <3>3 DEF HeardOne, OpenAfter, PathRule, Ending
    <3>5. p[i + 1].reason # "open" => ClosedAfter(trades, p[i + 1], i + 1)
      BY <2>2, <3>1, <3>3 DEF HeardOne, ClosedAfter
    <3>6. Along(e, trades, p, i + 1)
      BY <2>1, <2>6, <3>3, <3>4, <3>5 DEF Along, HeardOne
    <3> QED BY <2>1, <3>6
  <2> QED BY <2>5, <2>6
<1>5. \A i \in 0..n : i \in Good
  <2> HIDE DEF Good
  <2> QED BY <1>3, <1>4, Climb
<1> QED BY <1>1, <1>5

(* Before a trade that was heard nothing had ended it.                       *)
LEMMA PathOpenBefore ==
  ASSUME NEW p, NEW n \in Nat, \A i \in 1..n : p[i].reason = "open" => p[i - 1].reason = "open",
         NEW m \in 0..n, p[m].reason = "open"
  PROVE  \A i \in 0..m : p[i].reason = "open"
<1> DEFINE Good == {i \in 0..m : p[m - i].reason = "open"}
<1>1. 0 \in Good
  OBVIOUS
<1>2. ASSUME NEW i \in 0..m, i # m, i \in Good
      PROVE  i + 1 \in Good
  <2>1. m - i \in 1..n /\ (m - i) - 1 = m - (i + 1) /\ p[m - i].reason = "open"
    BY <1>2
  <2>2. p[m - (i + 1)].reason = "open"
    BY <2>1
  <2> QED BY <1>2, <2>2
<1>3. \A i \in 0..m : i \in Good
  <2> HIDE DEF Good
  <2> QED BY <1>1, <1>2, Climb
<1>4. ASSUME NEW i \in 0..m PROVE p[i].reason = "open"
  <2>1. m - i \in 0..m /\ m - (m - i) = i
    OBVIOUS
  <2> QED BY <1>3, <2>1
<1> QED BY <1>4

(* ------------------- the simulation -------------------------------------- *)
ReplayAt(e, trades, r, i) ==
  LET q == Ticks(e, r, TicksFrom(e, trades, i - 1), trades[i].at)
  IN IF q.reason = "open" THEN Process(e, q, trades[i]) ELSE q
SimulatedStep(f, e, trades, i) ==
  IF i = 0 THEN Runner(e.price) ELSE ReplayAt(e, trades, f[i - 1], i)
ReplayRun(f, e, trades) ==
  /\ f[0] = Runner(e.price)
  /\ \A i \in 1..Len(trades) : f[i] = ReplayAt(e, trades, f[i - 1], i)
Deadline(e) == e.at + HoldFor + TickEvery
AtDeadline(e, trades, r) ==
  LET q == Ticks(e, r, TicksFrom(e, trades, Len(trades)), Deadline(e))
  IN IF q.reason = "open" THEN Closed(q, "timeout", Deadline(e)) ELSE q

LEMMA TicksFromInt ==
  ASSUME NEW e \in LifeTrade, NEW trades \in Seq(LifeTrade), NEW i \in 0..Len(trades)
  PROVE  TicksFrom(e, trades, i) \in Int
<1>1. \A k \in 1..Len(trades) : trades[k] \in LifeTrade
  OBVIOUS
<1>2. i # 0 => i \in 1..Len(trades)
  OBVIOUS
<1> QED BY <1>1, <1>2 DEF TicksFrom, LifeTrade

LEMMA ReplayAtType ==
  ASSUME NEW e \in LifeTrade, NEW trades \in Seq(LifeTrade), NEW r \in RunnerType,
         NEW i \in 1..Len(trades)
  PROVE  ReplayAt(e, trades, r, i) \in RunnerType
<1>1. PICK x \in LifeTrade : x = trades[i]
  OBVIOUS
<1>2. PICK since \in Int : since = TicksFrom(e, trades, i - 1)
  <2>1. i - 1 \in 0..Len(trades)
    OBVIOUS
  <2> QED BY <2>1, TicksFromInt
<1>3. PICK q \in RunnerType : q = Ticks(e, r, since, x.at)
  BY TicksStay DEF LifeTrade
<1>4. ReplayAt(e, trades, r, i) = IF q.reason = "open" THEN Process(e, q, x) ELSE q
  BY <1>1, <1>2, <1>3 DEF ReplayAt
<1> QED BY <1>4, ProcessIs DEF HeardOne

LEMMA SimulatedRun ==
  ASSUME NEW e \in LifeTrade, NEW trades \in Seq(LifeTrade)
  PROVE  \E f : /\ ReplayRun(f, e, trades)
                /\ Simulated(e, trades) = AtDeadline(e, trades, f[Len(trades)])
<1>1. PICK n \in Nat : n = Len(trades)
  OBVIOUS
<1> DEFINE g == [v \in RunnerType \X (1..n) |-> ReplayAt(e, trades, v[1], v[2])]
           p == CHOOSE h : h = [i \in 0..n |-> SimulatedStep(h, e, trades, i)]
<1>2. Simulated(e, trades) = AtDeadline(e, trades, p[n])
  BY <1>1 DEF Simulated, SimulatedStep, ReplayAt, AtDeadline, Deadline
<1>3. g \in [RunnerType \X (1..n) -> RunnerType]
  <2>1. ASSUME NEW v \in RunnerType \X (1..n)
        PROVE  ReplayAt(e, trades, v[1], v[2]) \in RunnerType
    <3>1. v[1] \in RunnerType /\ v[2] \in 1..Len(trades)
      BY <1>1, <2>1
    <3> QED BY <3>1, ReplayAtType
  <2> QED BY <2>1
<1>4. \A v \in RunnerType, i \in 1..n : g[<<v, i>>] = ReplayAt(e, trades, v, i)
  OBVIOUS
<1>5. PICK f \in [0..n -> RunnerType] :
        f[0] = Runner(e.price) /\ \A i \in 1..n : f[i] = g[<<f[i - 1], i>>]
  <2> HIDE DEF g, p
  <2>1. PICK V : V = RunnerType
    OBVIOUS
  <2>2. PICK b \in V : b = Runner(e.price)
    BY <2>1, RunnerIs DEF LifeTrade
  <2>3. g \in [V \X (1..n) -> V]
    BY <1>3, <2>1
  <2>4. RunSolved(n, V, b, g)
    BY <2>2, <2>3, RunExists
  <2> QED BY <2>1, <2>2, <2>4 DEF RunSolved
<1> HIDE DEF g
<1>6. \A i \in 0..n : f[i] = SimulatedStep(f, e, trades, i)
  <2> TAKE i \in 0..n
  <2>1. CASE i = 0
    BY <1>5, <2>1 DEF SimulatedStep
  <2>2. CASE i # 0
    <3>1. i \in 1..n /\ i - 1 \in 0..n
      BY <2>2
    <3> QED BY <1>4, <1>5, <2>2, <3>1 DEF SimulatedStep
  <2> QED BY <2>1, <2>2
<1>7. f = [i \in 0..n |-> SimulatedStep(f, e, trades, i)]
  BY <1>6
<1>8. p = [i \in 0..n |-> SimulatedStep(p, e, trades, i)]
  BY <1>7
<1> HIDE DEF p
<1>9. \A i \in 0..n : p[i] = SimulatedStep(p, e, trades, i)
  BY <1>8
<1>10. 0 \in 0..n /\ \A i \in 1..n : i \in 0..n /\ i # 0
  OBVIOUS
<1>11. SimulatedStep(p, e, trades, 0) = Runner(e.price)
  BY DEF SimulatedStep
<1>12. \A i \in 1..n : SimulatedStep(p, e, trades, i) = ReplayAt(e, trades, p[i - 1], i)
  BY <1>10 DEF SimulatedStep
<1> QED BY <1>1, <1>2, <1>9, <1>10, <1>11, <1>12 DEF ReplayRun

(* How a simulation ends with the first j trades heard: with the last of     *)
(* them, or by the tick at t.                                                *)
ByTrade(e, trades, p, s, j) ==
  /\ j > 0 /\ p[j - 1].reason = "open" /\ p[j].reason # "open" /\ s = p[j]
  /\ j - 1 >= WarmAt => NoneOverdue(e, TicksFrom(e, trades, j - 1), trades[j].at)
ByTick(e, trades, p, s, j, t) ==
  /\ p[j].reason = "open" /\ j >= WarmAt
  /\ s = Closed(p[j], "timeout", t)
  /\ Overdue(e, t) /\ NoneOverdue(e, TicksFrom(e, trades, j), t - 1)
Stopped(e, trades, p, s, i) ==
  \E j \in 0..i :
    \/ ByTrade(e, trades, p, s, j)
    \/ j < i /\ \E t \in TicksFrom(e, trades, j)..trades[j + 1].at : ByTick(e, trades, p, s, j, t)

LEMMA ReplayedTo ==
  ASSUME NEW e \in LifeTrade, NEW trades \in Seq(LifeTrade), NEW p, IsPath(p, e, trades),
         NEW f, ReplayRun(f, e, trades)
  PROVE  \A i \in 0..Len(trades) :
           \/ f[i] = p[i] /\ p[i].reason = "open"
           \/ f[i].reason # "open" /\ f[i] \in RunnerType /\ Stopped(e, trades, p, f[i], i)
<1>1. PICK n \in Nat : n = Len(trades) /\ \A i \in 1..n : trades[i] \in LifeTrade
  OBVIOUS
<1>2. \A i \in 0..n : Along(e, trades, p, i)
  BY <1>1, PathAlong
<1> DEFINE Right(i) ==
             \/ f[i] = p[i] /\ p[i].reason = "open"
             \/ f[i].reason # "open" /\ f[i] \in RunnerType /\ Stopped(e, trades, p, f[i], i)
           Good == {i \in 0..n : Right(i)}
<1>3. 0 \in Good
  <2>1. f[0] = p[0] /\ p[0].reason = "open"
    BY DEF ReplayRun, IsPath, Runner
  <2> QED BY <2>1
<1>4. ASSUME NEW i \in 0..n, i # n, i \in Good
      PROVE  i + 1 \in Good
  <2>1. i + 1 \in 1..n /\ (i + 1) - 1 = i /\ i + 1 \in 0..n /\ i + 1 > 0 /\ i < i + 1
    BY <1>4
  <2>2. PICK x \in LifeTrade : x = trades[i + 1]
    BY <1>1, <2>1
  <2>3. PICK since \in Int : since = TicksFrom(e, trades, i)
    BY <1>1, TicksFromInt
  <2>4. f[i + 1] = ReplayAt(e, trades, f[i], i + 1)
    BY <1>1, <2>1 DEF ReplayRun
  <2>5. x.at \in Int
    BY DEF LifeTrade
  <2>6. ASSUME NEW q, q = Ticks(e, f[i], since, x.at)
        PROVE  f[i + 1] = IF q.reason = "open" THEN Process(e, q, x) ELSE q
    BY <2>1, <2>2, <2>3, <2>4, <2>6 DEF ReplayAt
  <2>7. CASE f[i].reason # "open" /\ f[i] \in RunnerType /\ Stopped(e, trades, p, f[i], i)
    <3>1. Ticks(e, f[i], since, x.at) = f[i]
      BY <2>5, <2>7, TicksStay
    <3>2. f[i + 1] = f[i]
      BY <2>6, <2>7, <3>1
    <3>3. Stopped(e, trades, p, f[i + 1], i + 1)
      <4>1. \A j \in 0..i : j \in 0..i + 1 /\ (j < i => j < i + 1)
        OBVIOUS
      <4> QED BY <2>7, <3>2, <4>1 DEF Stopped
    <3>4. Right(i + 1)
      BY <2>7, <3>2, <3>3
    <3> QED BY <2>1, <3>4
  <2>8. CASE f[i] = p[i] /\ p[i].reason = "open"
    <3>1. p[i] \in RunnerType /\ OpenAfter(e, trades, p[i], i)
      BY <1>2, <2>8 DEF Along
    <3>2. RulesRest(e, p[i]) /\ p[i].heard = i
      BY <3>1 DEF OpenAfter
    <3>3. PICK q : q = Ticks(e, p[i], since, x.at)
      OBVIOUS
    <3>4. Ticked(e, q, p[i], since, x.at)
      BY <2>5, <2>8, <3>1, <3>2, <3>3, TicksAre
    <3>5. f[i + 1] = IF q.reason = "open" THEN Process(e, q, x) ELSE q
      BY <2>6, <2>8, <3>3
    <3>6. CASE q = p[i] /\ (p[i].heard >= WarmAt => NoneOverdue(e, since, x.at))
      <4>1. p[i + 1] = Process(e, p[i], x)
        BY <1>1, <2>1, <2>2, <2>8 DEF IsPath, PathAt
      <4>2. f[i + 1] = p[i + 1]
        BY <2>8, <3>5, <3>6, <4>1
      <4>3. p[i + 1].reason # "open" => ByTrade(e, trades, p, f[i + 1], i + 1)
        BY <2>1, <2>2, <2>3, <2>8, <3>2, <3>6, <4>2 DEF ByTrade
      <4>4. i + 1 \in 0..i + 1
        OBVIOUS
      <4>5. p[i + 1].reason # "open" => Stopped(e, trades, p, f[i + 1], i + 1)
        BY <4>3, <4>4 DEF Stopped
      <4>6. p[i + 1] \in RunnerType
        BY <1>2, <2>1 DEF Along
      <4>7. Right(i + 1)
        BY <4>2, <4>5, <4>6
      <4> QED BY <2>1, <4>7
    <3>7. CASE \E t \in since..x.at :
                 /\ q = Closed(p[i], "timeout", t) /\ p[i].heard >= WarmAt
                 /\ Overdue(e, t) /\ NoneOverdue(e, since, t - 1)
      <4>1. PICK t \in since..x.at :
                 /\ q = Closed(p[i], "timeout", t) /\ p[i].heard >= WarmAt
                 /\ Overdue(e, t) /\ NoneOverdue(e, since, t - 1)
        BY <3>7
      <4>2. q \in RunnerType /\ q.reason # "open"
        <5>1. "timeout" \in Reasons
          BY DEF Reasons
        <5>2. t \in Int
          BY <2>3, <2>5
        <5>3. PICK o \in RunnerType : o = p[i]
          BY <3>1
        <5>4. q = Closed(o, "timeout", t)
          BY <4>1, <5>3
        <5> QED BY <5>1, <5>2, <5>4, ClosedIs
      <4>3. f[i + 1] = q
        BY <3>5, <4>2
      <4>4. ByTick(e, trades, p, f[i + 1], i, t)
        BY <2>3, <2>8, <3>2, <4>1, <4>3 DEF ByTick
      <4>5. i \in 0..i + 1 /\ t \in TicksFrom(e, trades, i)..trades[i + 1].at
        BY <2>2, <2>3
      <4>6. Stopped(e, trades, p, f[i + 1], i + 1)
        BY <2>1, <4>4, <4>5 DEF Stopped
      <4>7. Right(i + 1)
        BY <4>2, <4>3, <4>6
      <4> QED BY <2>1, <4>7
    <3> QED BY <3>4, <3>6, <3>7 DEF Ticked
  <2>9. Right(i)
    BY <1>4
  <2> QED BY <2>7, <2>8, <2>9
<1>5. \A i \in 0..n : i \in Good
  <2> HIDE DEF Good
  <2> QED BY <1>3, <1>4, Climb
<1> QED BY <1>1, <1>5

(* How a simulation ends: by a trade, by a tick before the next one or up to *)
(* the limit, or at the limit.                                         *)
LastTick(e, trades, j) == IF j < Len(trades) THEN trades[j + 1].at ELSE Deadline(e)
SimulationEnds(e, trades, p, s) ==
  \/ \E j \in 0..Len(trades) : ByTrade(e, trades, p, s, j)
  \/ \E j \in 0..Len(trades) :
       \E t \in TicksFrom(e, trades, j)..LastTick(e, trades, j) : ByTick(e, trades, p, s, j, t)
  \/ /\ p[Len(trades)].reason = "open"
     /\ s = Closed(p[Len(trades)], "timeout", Deadline(e))

LEMMA SimulatedEnds ==
  ASSUME NEW e \in LifeTrade, NEW trades \in Seq(LifeTrade), NEW p, IsPath(p, e, trades)
  PROVE  SimulationEnds(e, trades, p, Simulated(e, trades))
<1>1. PICK n \in Nat : n = Len(trades) /\ \A i \in 1..n : trades[i] \in LifeTrade
  OBVIOUS
<1>2. PICK f : ReplayRun(f, e, trades) /\ Simulated(e, trades) = AtDeadline(e, trades, f[n])
  BY <1>1, SimulatedRun
<1>3. PICK since \in Int : since = TicksFrom(e, trades, n)
  BY <1>1, TicksFromInt
<1>4. PICK limit \in Int : limit = Deadline(e)
  <2>1. HoldFor \in Int /\ TickEvery \in Int /\ e.at \in Int
    BY ExitLabelsAssumption DEF LifeTrade
  <2> QED BY <2>1 DEF Deadline
<1>5. PICK q : q = Ticks(e, f[n], since, limit)
  OBVIOUS
<1>6. Simulated(e, trades) = IF q.reason = "open" THEN Closed(q, "timeout", limit) ELSE q
  BY <1>1, <1>2, <1>3, <1>4, <1>5 DEF AtDeadline
<1>7. \/ f[n] = p[n] /\ p[n].reason = "open"
      \/ f[n].reason # "open" /\ f[n] \in RunnerType /\ Stopped(e, trades, p, f[n], n)
  BY <1>1, <1>2, ReplayedTo
<1>8. CASE f[n].reason # "open" /\ f[n] \in RunnerType /\ Stopped(e, trades, p, f[n], n)
  <2>1. q = f[n]
    BY <1>3, <1>4, <1>5, <1>8, TicksStay
  <2>2. Stopped(e, trades, p, Simulated(e, trades), n)
    BY <1>6, <1>8, <2>1
  <2>3. \A j \in 0..n : j < n => trades[j + 1].at = LastTick(e, trades, j)
    BY <1>1 DEF LastTick
  <2> QED BY <1>1, <2>2, <2>3 DEF Stopped, SimulationEnds
<1>9. CASE f[n] = p[n] /\ p[n].reason = "open"
  <2>1. p[n] \in RunnerType /\ OpenAfter(e, trades, p[n], n)
    BY <1>1, <1>9, PathAlong DEF Along
  <2>2. RulesRest(e, p[n]) /\ p[n].heard = n
    BY <2>1 DEF OpenAfter
  <2>3. Ticked(e, q, p[n], since, limit)
    BY <1>3, <1>4, <1>5, <1>9, <2>1, <2>2, TicksAre
  <2>4. CASE q = p[n]
    BY <1>1, <1>4, <1>6, <1>9, <2>4 DEF SimulationEnds
  <2>5. CASE \E t \in since..limit :
               /\ q = Closed(p[n], "timeout", t) /\ p[n].heard >= WarmAt
               /\ Overdue(e, t) /\ NoneOverdue(e, since, t - 1)
    <3>1. PICK t \in since..limit :
               /\ q = Closed(p[n], "timeout", t) /\ p[n].heard >= WarmAt
               /\ Overdue(e, t) /\ NoneOverdue(e, since, t - 1)
      BY <2>5
    <3>2. q.reason # "open"
      <4>1. "timeout" \in Reasons
        BY DEF Reasons
      <4>2. t \in Int
        BY <1>3, <1>4
      <4> QED BY <2>1, <3>1, <4>1, <4>2, ClosedIs
    <3>3. Simulated(e, trades) = q
      BY <1>6, <3>2
    <3>4. ByTick(e, trades, p, Simulated(e, trades), n, t)
      BY <1>3, <1>9, <2>2, <3>1, <3>3 DEF ByTick
    <3>5. LastTick(e, trades, n) = limit /\ n \in 0..n
      BY <1>1, <1>4 DEF LastTick
    <3>6. t \in TicksFrom(e, trades, n)..LastTick(e, trades, n)
      BY <1>3, <3>5
    <3> QED BY <1>1, <3>4, <3>5, <3>6 DEF SimulationEnds
  <2> QED BY <2>3, <2>4, <2>5 DEF Ticked
<1> QED BY <1>7, <1>8, <1>9

(* Among as many moments as lie between two ticks there is one.              *)
LEMMA TickComes ==
  ASSUME NEW a \in Nat, NEW k \in Nat \ {0}
  PROVE  \E m \in a + 1..a + k : m % k = 0
<1> DEFINE Good == {i \in 0..a : \E j \in Nat : k * j \in i + 1..i + k}
<1>1. 0 \in Good
  <2>1. k * 1 \in 0 + 1..0 + k /\ 1 \in Nat /\ 0 \in 0..a
    OBVIOUS
  <2> QED BY <2>1
<1>2. ASSUME NEW i \in 0..a, i # a, i \in Good
      PROVE  i + 1 \in Good
  <2>1. PICK j \in Nat : k * j \in i + 1..i + k
    BY <1>2
  <2>2. PICK m \in Int : m = k * j
    OBVIOUS
  <2>3. k * (j + 1) = m + k /\ j + 1 \in Nat
    BY <2>2
  <2>4. i + 1 \in 0..a
    BY <1>2
  <2>5. m \in (i + 1) + 1..(i + 1) + k \/ m + k \in (i + 1) + 1..(i + 1) + k
    BY <2>1, <2>2
  <2> QED BY <2>2, <2>3, <2>4, <2>5
<1>3. \A i \in 0..a : i \in Good
  <2> HIDE DEF Good
  <2> QED BY <1>1, <1>2, Climb
<1>4. PICK j \in Nat : k * j \in a + 1..a + k
  BY <1>3
<1>5. (k * j) % k = 0
  OBVIOUS
<1> QED BY <1>4, <1>5

Rising(trades) ==
  \A i, j \in 1..Len(trades) : i < j => trades[i].at < trades[j].at

LEMMA OverdueComes ==
  ASSUME NEW e \in LifeTrade
  PROVE  \E t \in e.at + HoldFor + 1..Deadline(e) : Overdue(e, t)
<1>1. HoldFor \in Nat /\ TickEvery \in Nat \ {0} /\ e.at \in Nat
  BY ExitLabelsAssumption DEF LifeTrade
<1>2. PICK m \in HoldFor + 1..HoldFor + TickEvery : m % TickEvery = 0
  BY <1>1, TickComes
<1>3. PICK t \in Int : t = e.at + m
  BY <1>1
<1>4. t - e.at = m /\ t \in e.at + HoldFor + 1..e.at + HoldFor + TickEvery
  BY <1>1, <1>2, <1>3
<1>5. Overdue(e, t)
  BY <1>1, <1>2, <1>4 DEF Overdue
<1> QED BY <1>4, <1>5 DEF Deadline

(* What the labels say, with the first j trades heard.                       *)
Outcome(e, trades, p, s, j) ==
  /\ s.price = IF j = 0 THEN e.price ELSE trades[j].price
  /\ j > 0 => p[j - 1].reason = "open"
  /\ p[j].reason = "open" => s.reason = "timeout"
  /\ p[j].reason # "open" => j > 0 /\ s = p[j] /\ s.at = trades[j].at
  /\ j < Len(trades) => s.at <= trades[j + 1].at
  /\ j > 0 /\ Len(trades) >= WarmAt => s.at >= trades[j].at
  /\ Len(trades) >= WarmAt => s.at <= Deadline(e) \/ s.at <= trades[WarmAt].at
HasOutcome(e, trades, p, s) ==
  /\ s \in RunnerType
  /\ \E j \in 0..Len(trades) : Outcome(e, trades, p, s, j)

LEMMA ViewByTrade ==
  ASSUME NEW e \in LifeTrade, NEW trades \in Seq(LifeTrade), Rising(trades),
         NEW p, IsPath(p, e, trades), NEW j \in 0..Len(trades), NEW s,
         ByTrade(e, trades, p, s, j)
  PROVE  s \in RunnerType /\ Outcome(e, trades, p, s, j)
<1>1. PICK n \in Nat : n = Len(trades) /\ \A i \in 1..n : trades[i] \in LifeTrade
  OBVIOUS
<1>2. /\ j > 0 /\ p[j - 1].reason = "open" /\ p[j].reason # "open" /\ s = p[j]
      /\ j - 1 >= WarmAt => NoneOverdue(e, TicksFrom(e, trades, j - 1), trades[j].at)
  BY DEF ByTrade
<1>3. j \in 1..n /\ j - 1 \in 0..n /\ j # 0
  BY <1>1, <1>2
<1>4. Along(e, trades, p, j) /\ Along(e, trades, p, j - 1)
  BY <1>1, <1>3, PathAlong
<1>5. s \in RunnerType /\ s.price = trades[j].price /\ s.at = trades[j].at
  BY <1>2, <1>3, <1>4 DEF Along, ClosedAfter
<1>6. \A i \in 1..n : trades[i].at \in Nat
  BY <1>1 DEF LifeTrade
<1>7. j < n => trades[j].at < trades[j + 1].at
  BY <1>1, <1>3 DEF Rising
<1>8. WarmAt \in Nat \ {0} /\ HoldFor \in Nat /\ TickEvery \in Nat /\ e.at \in Nat
  BY ExitLabelsAssumption DEF LifeTrade
<1>9. n >= WarmAt => s.at <= Deadline(e) \/ s.at <= trades[WarmAt].at
  <2>1. CASE n >= WarmAt /\ j <= WarmAt
    <3>1. j = WarmAt \/ trades[j].at < trades[WarmAt].at
      BY <1>1, <1>3, <1>8, <2>1 DEF Rising
    <3>2. trades[WarmAt].at \in Nat /\ trades[j].at \in Nat
      BY <1>3, <1>6, <1>8, <2>1
    <3> QED BY <1>5, <3>1, <3>2
  <2>2. CASE n >= WarmAt /\ j > WarmAt
    <3>1. OpenAfter(e, trades, p[j - 1], j - 1)
      BY <1>2, <1>4 DEF Along
    <3>2. j - 1 >= WarmAt /\ j - 1 # 0 /\ j - 1 \in 1..n
      BY <1>3, <1>8, <2>2
    <3>3. trades[j - 1].at - e.at <= HoldFor
      BY <3>1, <3>2 DEF OpenAfter
    <3>4. PICK t \in e.at + HoldFor + 1..Deadline(e) : Overdue(e, t)
      BY OverdueComes
    <3>5. TicksFrom(e, trades, j - 1) = trades[j - 1].at + 1
      BY <3>2 DEF TicksFrom
    <3>6. PICK a \in Nat : a = trades[j - 1].at
      BY <1>6, <3>2
    <3>7. PICK b \in Nat : b = trades[j].at
      BY <1>3, <1>6
    <3>8. ~(t \in a + 1..b)
      BY <1>2, <3>2, <3>4, <3>5, <3>6, <3>7 DEF NoneOverdue
    <3>9. PICK d \in Int : d = Deadline(e) /\ d = e.at + HoldFor + TickEvery
      BY <1>8 DEF Deadline
    <3>10. t \in Int /\ t >= e.at + HoldFor + 1 /\ t <= d
      BY <1>8, <3>4, <3>9
    <3>11. a - e.at <= HoldFor
      BY <3>3, <3>6
    <3>13. t >= a + 1
      <4>1. a \in Int /\ t \in Int /\ e.at \in Int /\ HoldFor \in Int
        BY <1>8, <3>6, <3>10
      <4> QED BY ONLY <4>1, <3>10, <3>11
    <3>14. a \in Int /\ b \in Int
      BY <3>6, <3>7
    <3>12. b <= d
      BY ONLY <3>8, <3>9, <3>10, <3>13, <3>14
    <3> QED BY <1>5, <3>7, <3>9, <3>12
  <2> QED BY <1>3, <1>8, <2>1, <2>2
<1>10. /\ s.price = IF j = 0 THEN e.price ELSE trades[j].price
       /\ j < n => s.at <= trades[j + 1].at
       /\ s.at >= trades[j].at
  <2>1. trades[j].at \in Nat /\ (j < n => trades[j + 1].at \in Nat)
    BY <1>3, <1>6
  <2> QED BY <1>3, <1>5, <1>7, <2>1
<1> QED BY <1>1, <1>2, <1>3, <1>5, <1>9, <1>10 DEF Outcome

LEMMA ViewByTick ==
  ASSUME NEW e \in LifeTrade, NEW trades \in Seq(LifeTrade), Rising(trades),
         NEW p, IsPath(p, e, trades), NEW j \in 0..Len(trades), NEW s,
         NEW t \in TicksFrom(e, trades, j)..LastTick(e, trades, j),
         ByTick(e, trades, p, s, j, t)
  PROVE  s \in RunnerType /\ Outcome(e, trades, p, s, j)
<1>1. PICK n \in Nat : n = Len(trades) /\ \A i \in 1..n : trades[i] \in LifeTrade
  OBVIOUS
<1>2. /\ p[j].reason = "open" /\ j >= WarmAt /\ s = Closed(p[j], "timeout", t)
      /\ Overdue(e, t) /\ NoneOverdue(e, TicksFrom(e, trades, j), t - 1)
  BY DEF ByTick
<1>3. WarmAt \in Nat \ {0} /\ HoldFor \in Nat /\ TickEvery \in Nat /\ e.at \in Nat
  BY ExitLabelsAssumption DEF LifeTrade
<1>4. j \in 1..n /\ j - 1 \in 0..n /\ j # 0 /\ j > 0
  BY <1>1, <1>2, <1>3
<1>5. Along(e, trades, p, j)
  BY <1>1, <1>4, PathAlong
<1>6. /\ p[j] \in RunnerType /\ p[j].price = trades[j].price /\ trades[j].at - e.at <= HoldFor
      /\ p[j - 1].reason = "open"
  BY <1>2, <1>4, <1>5 DEF Along, OpenAfter
<1>7. PICK a \in Nat : a = trades[j].at
  BY <1>1, <1>4 DEF LifeTrade
<1>8. TicksFrom(e, trades, j) = a + 1
  BY <1>4, <1>7 DEF TicksFrom
<1>9. PICK b \in Int : b = LastTick(e, trades, j)
  <2>1. j < n => trades[j + 1] \in LifeTrade
    BY <1>1, <1>4
  <2> QED BY <1>1, <1>3, <2>1 DEF LastTick, LifeTrade, Deadline
<1>10. t \in Int /\ a + 1 <= t /\ t <= b
  BY <1>8, <1>9
<1>11. s \in RunnerType /\ s.reason = "timeout" /\ s.at = t /\ s.price = trades[j].price
  <2>1. "timeout" \in Reasons
    BY DEF Reasons
  <2>2. PICK o \in RunnerType : o = p[j]
    BY <1>6
  <2>3. s = Closed(o, "timeout", t)
    BY <1>2, <2>2
  <2>4. s \in RunnerType /\ s.reason = "timeout" /\ s.at = t /\ s.price = o.price
    BY <1>10, <2>1, <2>3, ClosedIs
  <2> QED BY <1>6, <2>2, <2>4
<1>12. t <= Deadline(e)
  <2>1. PICK u \in e.at + HoldFor + 1..Deadline(e) : Overdue(e, u)
    BY OverdueComes
  <2>2. ~(u \in a + 1..t - 1)
    BY <1>2, <1>8, <2>1 DEF NoneOverdue
  <2>3. PICK d \in Int : d = Deadline(e) /\ d = e.at + HoldFor + TickEvery
    BY <1>3 DEF Deadline
  <2>4. u \in Int /\ u >= e.at + HoldFor + 1 /\ u <= d
    BY <1>3, <2>1, <2>3
  <2>5. a - e.at <= HoldFor
    BY <1>6, <1>7
  <2>6. t <= d
    BY <1>3, <1>7, <1>10, <2>2, <2>4, <2>5
  <2> QED BY <2>3, <2>6
<1>13. j < n => t <= trades[j + 1].at
  BY <1>1, <1>9, <1>10 DEF LastTick
<1>14. s.at >= trades[j].at
  BY <1>7, <1>10, <1>11
<1> QED BY <1>1, <1>2, <1>4, <1>6, <1>11, <1>12, <1>13, <1>14 DEF Outcome

LEMMA ViewByDeadline ==
  ASSUME NEW e \in LifeTrade, NEW trades \in Seq(LifeTrade),
         NEW p, IsPath(p, e, trades), NEW s,
         p[Len(trades)].reason = "open",
         s = Closed(p[Len(trades)], "timeout", Deadline(e))
  PROVE  s \in RunnerType /\ Outcome(e, trades, p, s, Len(trades))
<1>1. PICK n \in Nat : n = Len(trades) /\ \A i \in 1..n : trades[i] \in LifeTrade
  OBVIOUS
<1>2. WarmAt \in Nat \ {0} /\ HoldFor \in Nat /\ TickEvery \in Nat /\ e.at \in Nat
  BY ExitLabelsAssumption DEF LifeTrade
<1>3. PICK d \in Int : d = Deadline(e) /\ d = e.at + HoldFor + TickEvery
  BY <1>2 DEF Deadline
<1>4. Along(e, trades, p, n)
  BY <1>1, PathAlong
<1>5. PICK o \in RunnerType : o = p[n]
  BY <1>4 DEF Along
<1>6. s = Closed(o, "timeout", d)
  BY <1>1, <1>3, <1>5
<1>7. s \in RunnerType /\ s.reason = "timeout" /\ s.at = d /\ s.price = o.price
  <2>1. "timeout" \in Reasons
    BY DEF Reasons
  <2> QED BY <1>6, <2>1, ClosedIs
<1>8. OpenAfter(e, trades, p[n], n)
  BY <1>1, <1>4 DEF Along
<1>9. n >= WarmAt => s.at >= trades[n].at
  <2>1. CASE n >= WarmAt
    <3>1. trades[n].at - e.at <= HoldFor /\ trades[n].at \in Nat
      BY <1>1, <1>2, <1>8, <2>1 DEF OpenAfter, LifeTrade
    <3> QED BY <1>2, <1>3, <1>7, <3>1
  <2> QED BY <2>1
<1>10. s.price = IF n = 0 THEN e.price ELSE trades[n].price
  BY <1>5, <1>7, <1>8 DEF OpenAfter
<1>11. n > 0 => p[n - 1].reason = "open"
  BY <1>1, <1>4 DEF Along
<1>12. s.at <= Deadline(e) /\ ~(n < Len(trades))
  BY <1>1, <1>3, <1>7
<1> QED BY <1>1, <1>7, <1>9, <1>10, <1>11, <1>12 DEF Outcome

LEMMA SimulatedViewed ==
  ASSUME NEW e \in LifeTrade, NEW trades \in Seq(LifeTrade), Rising(trades),
         NEW p, IsPath(p, e, trades)
  PROVE  HasOutcome(e, trades, p, Simulated(e, trades))
<1>1. PICK s : s = Simulated(e, trades)
  OBVIOUS
<1>2. SimulationEnds(e, trades, p, s)
  BY <1>1, SimulatedEnds
<1>3. CASE \E j \in 0..Len(trades) : ByTrade(e, trades, p, s, j)
  BY <1>1, <1>3, ViewByTrade DEF HasOutcome
<1>4. CASE \E j \in 0..Len(trades) :
             \E t \in TicksFrom(e, trades, j)..LastTick(e, trades, j) :
               ByTick(e, trades, p, s, j, t)
  BY <1>1, <1>4, ViewByTick DEF HasOutcome
<1>5. CASE /\ p[Len(trades)].reason = "open"
           /\ s = Closed(p[Len(trades)], "timeout", Deadline(e))
  <2>1. s \in RunnerType /\ Outcome(e, trades, p, s, Len(trades))
    BY <1>5, ViewByDeadline
  <2>2. Len(trades) \in 0..Len(trades)
    OBVIOUS
  <2> QED BY <1>1, <2>1, <2>2 DEF HasOutcome
<1> QED BY <1>2, <1>3, <1>4, <1>5 DEF SimulationEnds

LEMMA TimesOf ==
  ASSUME NEW trades \in Seq(LifeTrade)
  PROVE  Len(trades) \in Nat /\ \A i \in 1..Len(trades) : trades[i].at \in Nat
<1>1. \A i \in 1..Len(trades) : trades[i] \in LifeTrade
  OBVIOUS
<1>2. \A x \in LifeTrade : x.at \in Nat
  BY DEF LifeTrade
<1> QED BY <1>1, <1>2

LEMMA RisingByStep ==
  ASSUME NEW trades \in Seq(LifeTrade),
         \A i \in 1..Len(trades) - 1 : trades[i].at < trades[i + 1].at
  PROVE  Rising(trades)
<1>1. PICK n \in Nat : n = Len(trades) /\ \A i \in 1..n : trades[i].at \in Nat
  BY TimesOf
<1>2. ASSUME NEW i \in 1..n
      PROVE  \A m \in 0..n : i < m => trades[i].at < trades[m].at
  <2> DEFINE Good == {m \in 0..n : i < m => trades[i].at < trades[m].at}
  <2>1. 0 \in Good
    OBVIOUS
  <2>2. ASSUME NEW m \in 0..n, m # n, m \in Good
        PROVE  m + 1 \in Good
    <3>1. m + 1 \in 0..n
      BY <2>2
    <3>2. CASE i = m
      <4>1. m \in 1..Len(trades) - 1
        BY <1>1, <2>2, <3>2
      <4>2. trades[i].at < trades[m + 1].at
        BY <3>2, <4>1
      <4> QED BY <3>1, <4>2
    <3>3. CASE i < m
      <4>1. m \in 1..Len(trades) - 1 /\ m \in 1..n /\ m + 1 \in 1..n
        BY <1>1, <2>2, <3>3
      <4>2. trades[i].at < trades[m].at /\ trades[m].at < trades[m + 1].at
        BY <2>2, <3>3, <4>1
      <4>3. trades[i].at < trades[m + 1].at
        BY <1>1, <4>1, <4>2
      <4> QED BY <3>1, <4>3
    <3>4. CASE ~(i <= m)
      BY <3>1, <3>4
    <3> QED BY <3>2, <3>3, <3>4
  <2>3. \A m \in 0..n : m \in Good
    <3> HIDE DEF Good
    <3> QED BY <2>1, <2>2, Climb
  <2> QED BY <2>3
<1>3. \A m \in 1..n : m \in 0..n
  OBVIOUS
<1> QED BY <1>1, <1>2, <1>3 DEF Rising

(* The trades kept of a rising sequence rise, and are before those to come.  *)
RisesBefore(q, trades, m) ==
  /\ q \in Seq(LifeTrade) /\ Rising(q)
  /\ \A i \in 1..Len(q), k \in m + 1..Len(trades) : q[i].at < trades[k].at

LEMMA RisesOn ==
  ASSUME NEW trades \in Seq(LifeTrade), Rising(trades), NEW m \in 0..Len(trades) - 1,
         NEW q, RisesBefore(q, trades, m)
  PROVE  /\ RisesBefore(q, trades, m + 1)
         /\ RisesBefore(Append(q, trades[m + 1]), trades, m + 1)
<1>1. PICK n \in Nat : n = Len(trades) /\ \A i \in 1..n : trades[i] \in LifeTrade
  OBVIOUS
<1>2. PICK x \in LifeTrade : x = trades[m + 1]
  BY <1>1
<1>3. q \in Seq(LifeTrade) /\ Rising(q)
      /\ \A i \in 1..Len(q), k \in m + 1..n : q[i].at < trades[k].at
  BY <1>1 DEF RisesBefore
<1>4. PICK r : r = Append(q, x)
  OBVIOUS
<1>5. PICK l \in Nat : l = Len(q)
  BY <1>3
<1>6. r \in Seq(LifeTrade) /\ Len(r) = l + 1 /\ r[l + 1] = x /\ \A i \in 1..l : r[i] = q[i]
  BY <1>3, <1>4, <1>5
<1>7. m + 1 \in m + 1..n /\ m + 1 \in 1..n /\ \A k \in m + 2..n : k \in m + 1..n /\ k \in 1..n
                                                               /\ m + 1 < k
  BY <1>1
<1>8. Rising(r)
  <2>1. ASSUME NEW i \in 1..l + 1, NEW j \in 1..l + 1, i < j
        PROVE  r[i].at < r[j].at
    <3>1. i \in 1..l
      BY <1>5, <2>1
    <3>2. CASE j = l + 1
      BY <1>2, <1>3, <1>5, <1>6, <1>7, <3>1, <3>2
    <3>3. CASE j # l + 1
      <4>1. j \in 1..l
        BY <1>5, <3>3
      <4> QED BY <1>3, <1>5, <1>6, <2>1, <3>1, <4>1 DEF Rising
    <3> QED BY <3>2, <3>3
  <2> QED BY <1>6, <2>1 DEF Rising
<1>9. \A i \in 1..l, k \in m + 2..n : q[i].at < trades[k].at
  BY <1>3, <1>5, <1>7
<1>10. \A i \in 1..l + 1, k \in m + 2..n : r[i].at < trades[k].at
  <2> TAKE i \in 1..l + 1, k \in m + 2..n
  <2>1. CASE i = l + 1
    <3>1. trades[m + 1].at < trades[k].at
      BY <1>1, <1>7 DEF Rising
    <3> QED BY <1>2, <1>6, <2>1, <3>1
  <2>2. CASE i # l + 1
    <3>1. i \in 1..l
      BY <1>5, <2>2
    <3> QED BY <1>6, <1>9, <3>1
  <2> QED BY <2>1, <2>2
<1>11. (m + 1) + 1 = m + 2
  OBVIOUS
<1>12. RisesBefore(q, trades, m + 1)
  BY <1>1, <1>3, <1>5, <1>9, <1>11 DEF RisesBefore
<1>13. RisesBefore(r, trades, m + 1)
  BY <1>1, <1>6, <1>8, <1>10, <1>11 DEF RisesBefore
<1> QED BY <1>2, <1>4, <1>12, <1>13

LEMMA AmongRises ==
  ASSUME NEW trades \in Seq(LifeTrade), Rising(trades), NEW X
  PROVE  Rising(Among(trades, X))
<1>1. PICK n \in Nat : n = Len(trades)
  OBVIOUS
<1>2. PICK kept : KeptIn(kept, trades, X, n) /\ Among(trades, X) = kept[n]
  BY <1>1, AmongKept
<1>3. /\ kept[0] = <<>>
      /\ \A i \in 1..n : kept[i] = IF trades[i] \in X THEN Append(kept[i - 1], trades[i])
                                   ELSE kept[i - 1]
  BY <1>2 DEF KeptIn
<1> DEFINE Good == {m \in 0..n : RisesBefore(kept[m], trades, m)}
<1>4. 0 \in Good
  <2>1. RisesBefore(<<>>, trades, 0)
    BY DEF RisesBefore, Rising
  <2> QED BY <1>3, <2>1
<1>5. ASSUME NEW m \in 0..n, m # n, m \in Good
      PROVE  m + 1 \in Good
  <2>1. m \in 0..Len(trades) - 1 /\ m + 1 \in 1..n /\ (m + 1) - 1 = m /\ m + 1 \in 0..n
    BY <1>1, <1>5
  <2>2. PICK q : q = kept[m]
    OBVIOUS
  <2>3. RisesBefore(q, trades, m)
    BY <1>5, <2>2
  <2>4. kept[m + 1] = Append(q, trades[m + 1]) \/ kept[m + 1] = q
    BY <1>3, <2>1, <2>2
  <2>5. RisesBefore(kept[m + 1], trades, m + 1)
    BY <2>1, <2>3, <2>4, RisesOn
  <2> QED BY <2>1, <2>5
<1>6. \A m \in 0..n : m \in Good
  <2> HIDE DEF Good
  <2> QED BY <1>4, <1>5, Climb
<1>7. RisesBefore(kept[n], trades, n)
  BY <1>6
<1> QED BY <1>2, <1>7 DEF RisesBefore

(* Where nothing is kept there was nothing to keep.                          *)
LEMMA AmongNone ==
  ASSUME NEW S, NEW s \in Seq(S), NEW X, Among(s, X) = <<>>
  PROVE  \A i \in 1..Len(s) : s[i] \notin X
<1>1. PICK n \in Nat : n = Len(s) /\ \A i \in 1..n : s[i] \in S
  OBVIOUS
<1>2. PICK kept : KeptIn(kept, s, X, n) /\ Among(s, X) = kept[n]
  BY <1>1, AmongKept
<1>3. /\ kept[0] = <<>>
      /\ \A i \in 1..n : kept[i] = IF s[i] \in X THEN Append(kept[i - 1], s[i])
                                   ELSE kept[i - 1]
  BY <1>2 DEF KeptIn
<1> DEFINE Empties(m) ==
             /\ kept[m] \in Seq(S)
             /\ kept[m] = <<>> => \A i \in 1..m : s[i] \notin X
           Good == {m \in 0..n : Empties(m)}
<1>4. 0 \in Good
  <2>1. kept[0] \in Seq(S)
    BY <1>3, AllInEmpty
  <2>2. \A i \in 1..0 : s[i] \notin X
    OBVIOUS
  <2> QED BY <2>1, <2>2
<1>5. ASSUME NEW m \in 0..n, m # n, m \in Good
      PROVE  m + 1 \in Good
  <2>1. m + 1 \in 1..n /\ (m + 1) - 1 = m /\ m + 1 \in 0..n
        /\ \A i \in 1..m + 1 : i \in 1..m \/ i = m + 1
    BY <1>5
  <2>2. PICK q \in Seq(S) : q = kept[m]
    BY <1>5
  <2>3. q = <<>> => \A i \in 1..m : s[i] \notin X
    BY <1>5, <2>2
  <2>4. CASE s[m + 1] \in X
    <3>1. kept[m + 1] = Append(q, s[m + 1])
      BY <1>3, <2>1, <2>2, <2>4
    <3>2. PICK x \in S : x = s[m + 1]
      BY <1>1, <2>1
    <3>3. Append(q, x) \in Seq(S) /\ Append(q, x) # <<>>
      BY <2>2
    <3>4. Empties(m + 1)
      BY <3>1, <3>2, <3>3
    <3> QED BY <2>1, <3>4
  <2>5. CASE s[m + 1] \notin X
    <3>1. kept[m + 1] = q
      BY <1>3, <2>1, <2>2, <2>5
    <3>2. Empties(m + 1)
      BY <2>1, <2>2, <2>3, <2>5, <3>1
    <3> QED BY <2>1, <3>2
  <2> QED BY <2>4, <2>5
<1>6. \A m \in 0..n : m \in Good
  <2> HIDE DEF Good
  <2> QED BY <1>4, <1>5, Climb
<1>7. Empties(n)
  <2>1. n \in Good
    BY <1>6
  <2> QED BY <2>1
<1> QED BY <1>1, <1>2, <1>7

LEMMA AfterIs ==
  ASSUME NEW trades \in Seq(LifeTrade), Rising(trades), NEW t \in Int
  PROVE  /\ After(trades, t) \in Seq(LifeTrade) /\ Rising(After(trades, t))
         /\ \A i \in 1..Len(After(trades, t)) : After(trades, t)[i].at > t
<1>1. PICK X : X = {x \in ToSet(trades) : x.at > t}
  OBVIOUS
<1>2. After(trades, t) = Among(trades, X)
  BY <1>1 DEF After
<1>3. PICK q \in Seq(LifeTrade) : q = Among(trades, X) /\ \A i \in DOMAIN q : q[i] \in X
  BY AmongType
<1>4. DOMAIN q = 1..Len(q)
  OBVIOUS
<1> QED BY <1>1, <1>2, <1>3, <1>4, AmongRises

LEMMA NoneSeenBy ==
  ASSUME NEW trades \in Seq(LifeTrade), NEW t \in Int, SeenBy(trades, t - 1) = <<>>
  PROVE  \A i \in 1..Len(trades) : trades[i].at >= t
<1>1. PICK X : X = {x \in ToSet(trades) : x.at <= t - 1}
  OBVIOUS
<1>2. Among(trades, X) = <<>>
  BY <1>1 DEF SeenBy
<1>3. \A i \in 1..Len(trades) : trades[i] \notin X
  BY <1>2, AmongNone
<1>4. \A i \in 1..Len(trades) : trades[i] \in LifeTrade /\ trades[i] \in ToSet(trades)
  BY DEF ToSet
<1>5. ASSUME NEW i \in 1..Len(trades) PROVE trades[i].at >= t
  <2>1. PICK at \in Nat : at = trades[i].at
    BY <1>4 DEF LifeTrade
  <2>2. ~(at <= t - 1)
    BY <1>1, <1>3, <1>4, <2>1
  <2> QED BY <2>1, <2>2
<1> QED BY <1>5

(* The buckets of a row that lived that long.                                *)
Lived(raw) == Min({Max({0, raw}), Beyond})
BucketsOf(long) == IF long = 0 THEN 0 ELSE Max({1, (long + Bucket - 1) \div Bucket})
Buckets(raw) == BucketsOf(Lived(raw))

LEMMA LivedIs ==
  ASSUME NEW raw \in Int, NEW more \in Int, raw <= more
  PROVE  Lived(raw) \in Nat /\ Lived(more) \in Nat /\ Lived(raw) <= Lived(more)
<1>1. Beyond \in Nat
  BY ExitLabelsAssumption
<1>2. PICK a \in Int : a = Max({0, raw}) /\ (0 >= raw => a = 0) /\ (raw >= 0 => a = raw)
  BY GreaterOfTwo
<1>3. PICK b \in Int : b = Max({0, more}) /\ (0 >= more => b = 0) /\ (more >= 0 => b = more)
  BY GreaterOfTwo
<1>4. PICK c \in Int : c = Min({a, Beyond}) /\ (a <= Beyond => c = a)
                       /\ (Beyond <= a => c = Beyond)
  BY <1>1, LesserOfTwo
<1>5. PICK d \in Int : d = Min({b, Beyond}) /\ (b <= Beyond => d = b)
                       /\ (Beyond <= b => d = Beyond)
  BY <1>1, LesserOfTwo
<1>6. c = Lived(raw) /\ d = Lived(more)
  BY <1>2, <1>3, <1>4, <1>5 DEF Lived
<1> QED BY <1>1, <1>2, <1>3, <1>4, <1>5, <1>6

LEMMA BucketsGrow ==
  ASSUME NEW long \in Nat, NEW more \in Nat, long <= more
  PROVE  BucketsOf(long) \in Nat /\ BucketsOf(more) \in Nat /\ BucketsOf(long) <= BucketsOf(more)
<1>1. Bucket \in Nat \ {0}
  BY ExitLabelsAssumption
<1>2. PICK a \in Nat : a = long + Bucket - 1
  BY <1>1
<1>3. PICK b \in Nat : b = more + Bucket - 1 /\ a <= b
  BY <1>1, <1>2
<1>4. PICK c \in Nat : c = a \div Bucket
  BY <1>1
<1>5. PICK d \in Nat : d = b \div Bucket
  BY <1>1
<1>6. c <= d
  BY <1>1, <1>3, <1>4, <1>5
<1>7. PICK f \in Int : f = Max({1, c}) /\ (1 >= c => f = 1) /\ (c >= 1 => f = c)
  BY GreaterOfTwo
<1>8. PICK g \in Int : g = Max({1, d}) /\ (1 >= d => g = 1) /\ (d >= 1 => g = d)
  BY GreaterOfTwo
<1>9. BucketsOf(long) = (IF long = 0 THEN 0 ELSE f)
      /\ BucketsOf(more) = (IF more = 0 THEN 0 ELSE g)
  BY <1>2, <1>3, <1>4, <1>5, <1>7, <1>8 DEF BucketsOf
<1> QED BY <1>4, <1>5, <1>6, <1>7, <1>8, <1>9

LEMMA BucketsMore ==
  ASSUME NEW raw \in Int, NEW more \in Int, raw <= more
  PROVE  Buckets(raw) \in Nat /\ Buckets(more) \in Nat /\ Buckets(raw) <= Buckets(more)
BY LivedIs, BucketsGrow DEF Buckets

(* A row is cut into the buckets it lived, and dies in the last or not.      *)
Cut0(q, raw) ==
  /\ q \in Seq({0, 1}) /\ Len(q) = Buckets(raw)
  /\ \A i \in 1..Len(q) - 1 : q[i] = 0

LEMMA BuildIs ==
  ASSUME NEW e \in LifeTrade, NEW r \in RunnerType, NEW now \in Int,
         NEW lost, NEW raw, raw = (IF r.reason # "open" THEN r.at ELSE now) - e.at
  PROVE  Cut0(BuildFromRecords(e, r, now, lost), raw)
<1>1. PICK long \in Nat : long = Lived(raw)
  <2>1. raw \in Int
    BY DEF LifeTrade, RunnerType
  <2> QED BY <2>1, LivedIs
<1>2. PICK died : died = /\ r.reason # "open" /\ Max({0, raw}) <= Beyond /\ lost
  OBVIOUS
<1>3. RecordDuration(e, r, now, lost).long = long
      /\ RecordDuration(e, r, now, lost).died = died
  BY <1>1, <1>2 DEF RecordDuration, Lived
<1>4. PICK q : q = BuildFromRecords(e, r, now, lost)
  OBVIOUS
<1>5. CASE long = 0
  <2>1. q = <<>>
    BY <1>3, <1>4, <1>5 DEF BuildFromRecords
  <2>2. <<>> \in Seq({0, 1}) /\ Len(<<>>) = 0
    OBVIOUS
  <2>3. Buckets(raw) = 0
    BY <1>1, <1>5 DEF Buckets, BucketsOf
  <2> QED BY <1>4, <2>1, <2>2, <2>3 DEF Cut0
<1>6. CASE long # 0
  <2>1. PICK n : n = Max({1, (long + Bucket - 1) \div Bucket})
    OBVIOUS
  <2>2. n = Buckets(raw)
    BY <1>1, <1>6, <2>1 DEF Buckets, BucketsOf
  <2>3. n \in Nat
    <3>1. BucketsOf(long) \in Nat
      BY BucketsGrow
    <3> QED BY <1>1, <2>2, <3>1 DEF Buckets
  <2>4. q = [i \in 1..n |-> IF died /\ i = n THEN 1 ELSE 0]
    BY <1>3, <1>4, <1>6, <2>1 DEF BuildFromRecords
  <2>5. q \in Seq({0, 1}) /\ Len(q) = n
    BY <2>3, <2>4
  <2>6. \A i \in 1..n - 1 : q[i] = 0
    BY <2>3, <2>4
  <2> QED BY <1>4, <2>2, <2>5, <2>6 DEF Cut0
<1> QED BY <1>5, <1>6

(* ------------------- the position, live ---------------------------------- *)
LifeInv ==
  /\ life \in Seq(LifeTrade) /\ Rising(life)
  /\ entry \in LifeTrade
  /\ opened \in Nat /\ entry.at <= opened
  /\ Later \in Seq(LifeTrade) /\ Rising(Later)
  /\ \A i \in 1..Len(Later) : Later[i].at > entry.at /\ Later[i].at >= opened
HeardBy(k) ==
  /\ k \in 0..Len(Later)
  /\ \A i \in 1..Len(Later) :
       IF i <= k THEN Later[i].at <= instant /\ Later[i].at < opened + HoldFor
       ELSE Later[i].at >= instant
(* It is what its trades make of it, or ended otherwise after one of them.   *)
OtherEnds == {"timeout", "dead_token", "survival_predict"}
OnPath(p, k) ==
  \/ held = p[k] /\ held.reason = "open"
  \/ k > 0 /\ p[k - 1].reason = "open" /\ held = p[k] /\ held.reason # "open"
  \/ /\ p[k].reason = "open" /\ held.price = p[k].price
     /\ held.reason \in OtherEnds /\ held.ended = instant
EndInv ==
  /\ held.reason # "open" /\ opened = entry.at => held.at >= instant
  /\ held.reason = "open" => instant - Max({LastEvent, opened}) <= QuietFor
CountInv == counted \in Seq({0, 1}) /\ Len(counted) <= Buckets(instant - entry.at)
HeldInv ==
  /\ held \in RunnerType /\ instant \in Int /\ opened <= instant
  /\ held.reason # "off"
LiveInv == /\ LifeInv /\ HeldInv /\ HeardBy(held.heard)
           /\ OnPath(Path(entry, Later), held.heard) /\ EndInv /\ CountInv
LabelsInv == (held.reason = "off" /\ counted = <<>>) \/ LiveInv

(* What was heard by now, and what the position h came to by it.             *)
HeardOf(trades, k, now) ==
  \A i \in 1..Len(trades) :
    IF i <= k THEN trades[i].at <= now ELSE trades[i].at >= now
HeldOf(p, k, h, now) ==
  \/ k > 0 /\ p[k - 1].reason = "open" /\ h = p[k] /\ h.reason # "open"
  \/ /\ p[k].reason = "open" /\ h.price = p[k].price
     /\ h.reason \in OtherEnds /\ h.ended = now
LiesBetween(s, h, x) ==
  \/ s.at <= x.at /\ x.at <= h.ended
  \/ h.ended <= x.at /\ x.at <= s.at
Meets(trades, k, s, h) ==
  /\ s.reason \in ByPrice => h.ended <= s.at
  /\ h.reason \in ByPrice => s.at <= h.ended
  /\ {s.reason, h.reason} \subseteq ByPrice => s = h
  /\ k >= WarmAt => s.price = h.price \/ \E i \in 1..Len(trades) : LiesBetween(s, h, trades[i])

LEMMA MeetsByTrade ==
  ASSUME NEW e \in LifeTrade, NEW trades \in Seq(LifeTrade), Rising(trades),
         NEW p, IsPath(p, e, trades), NEW j \in 0..Len(trades), NEW s \in RunnerType,
         Outcome(e, trades, p, s, j), NEW k \in 1..Len(trades), NEW h \in RunnerType,
         p[k - 1].reason = "open", h = p[k], h.reason # "open"
  PROVE  Meets(trades, k, s, h)
<1>1. PICK n \in Nat : n = Len(trades) /\ \A i \in 1..n : trades[i].at \in Nat
  BY TimesOf
<1>2. \A i \in 0..n : Along(e, trades, p, i)
  BY <1>1, PathAlong
<1>3. \A i \in 1..n : p[i].reason = "open" => p[i - 1].reason = "open"
  <2>1. \A i \in 1..n : i \in 0..n /\ i > 0
    OBVIOUS
  <2> QED BY <1>2, <2>1 DEF Along
<1>4. k \in 0..n /\ k - 1 \in 0..n /\ k > 0
  BY <1>1
<1>5. h.ended = trades[k].at /\ h.price = trades[k].price
  BY <1>2, <1>4 DEF Along, ClosedAfter
<1>6. WarmAt \in Nat \ {0}
  BY ExitLabelsAssumption
<1>7. j <= k
  <2>1. SUFFICES ASSUME j > k PROVE FALSE
    BY <1>1, <1>4
  <2>2. j - 1 \in 0..n /\ k \in 0..j - 1 /\ j > 0
    BY <1>1, <1>4, <2>1
  <2>3. p[j - 1].reason = "open"
    BY <2>2 DEF Outcome
  <2>4. p[k].reason = "open"
    BY <1>3, <2>2, <2>3, PathOpenBefore
  <2> QED BY <2>4
<1>8. CASE j = k
  <2>1. s = h
    BY <1>8 DEF Outcome
  <2>2. s.at = trades[k].at /\ trades[k].at \in Nat
    BY <1>1, <1>4, <1>8 DEF Outcome
  <2>3. h.ended = s.at
    BY <1>5, <2>2
  <2>4. h.ended <= s.at /\ s.at <= h.ended
    BY <2>2, <2>3
  <2> QED BY <2>1, <2>4 DEF Meets
<1>9. CASE j < k
  <2>1. j \in 0..k - 1 /\ j + 1 \in 1..n /\ j < n /\ j + 1 <= k
    BY <1>1, <1>4, <1>9
  <2>2. p[j].reason = "open"
    BY <1>3, <1>4, <2>1, PathOpenBefore
  <2>3. s.reason = "timeout"
    BY <2>2 DEF Outcome
  <2>4. s.at <= trades[j + 1].at
    BY <1>1, <2>1 DEF Outcome
  <2>5. trades[j + 1].at <= trades[k].at
    <3>1. CASE j + 1 = k
      BY <1>1, <2>1, <3>1
    <3>2. CASE j + 1 < k
      <4>1. trades[j + 1].at < trades[k].at
        BY <1>1, <1>4, <2>1, <3>2 DEF Rising
      <4> QED BY <1>1, <1>4, <2>1, <4>1
    <3> QED BY <1>4, <2>1, <3>1, <3>2
  <2>6. s.at \in Int /\ trades[j + 1].at \in Int /\ trades[k].at \in Int
    BY <1>1, <1>4, <2>1 DEF RunnerType
  <2>7. s.at <= h.ended
    BY <1>5, <2>4, <2>5, <2>6
  <2>8. LiesBetween(s, h, trades[j + 1])
    BY <1>5, <2>4, <2>5 DEF LiesBetween
  <2>9. s.reason \notin ByPrice
    BY <2>3 DEF ByPrice
  <2> QED BY <1>1, <2>1, <2>7, <2>8, <2>9 DEF Meets
<1> QED BY <1>4, <1>7, <1>8, <1>9

LEMMA MeetsOtherwise ==
  ASSUME NEW e \in LifeTrade, NEW trades \in Seq(LifeTrade), Rising(trades),
         NEW p, IsPath(p, e, trades), NEW j \in 0..Len(trades), NEW s \in RunnerType,
         Outcome(e, trades, p, s, j), NEW k \in 0..Len(trades), NEW h \in RunnerType,
         NEW now \in Int, HeardOf(trades, k, now),
         p[k].reason = "open", h.price = p[k].price, h.reason \in OtherEnds, h.ended = now
  PROVE  Meets(trades, k, s, h)
<1>1. PICK n \in Nat : n = Len(trades) /\ \A i \in 1..n : trades[i].at \in Nat
  BY TimesOf
<1>2. \A i \in 0..n : Along(e, trades, p, i)
  BY <1>1, PathAlong
<1>3. \A i \in 1..n : p[i].reason = "open" => p[i - 1].reason = "open"
  <2>1. \A i \in 1..n : i \in 0..n /\ i > 0
    OBVIOUS
  <2> QED BY <1>2, <2>1 DEF Along
<1>4. WarmAt \in Nat \ {0} /\ s.at \in Int
  BY ExitLabelsAssumption DEF RunnerType
<1>5. h.reason \notin ByPrice
  BY DEF OtherEnds, ByPrice
<1>6. h.price = IF k = 0 THEN e.price ELSE trades[k].price
  <2>1. Along(e, trades, p, k)
    BY <1>1, <1>2
  <2>2. OpenAfter(e, trades, p[k], k)
    BY <2>1 DEF Along
  <2>3. p[k].price = IF k = 0 THEN e.price ELSE trades[k].price
    BY <2>2 DEF OpenAfter
  <2> QED BY <2>3
<1>7. CASE j = k
  <2>1. s.reason = "timeout" /\ s.price = h.price
    BY <1>6, <1>7 DEF Outcome
  <2>2. s.reason \notin ByPrice
    BY <2>1 DEF ByPrice
  <2> QED BY <1>5, <2>1, <2>2 DEF Meets
<1>8. CASE j < k
  <2>1. j \in 0..k /\ j + 1 \in 1..n /\ j < n /\ j + 1 <= k /\ k \in 0..n
    BY <1>1, <1>8
  <2>2. p[j].reason = "open"
    BY <1>1, <1>3, <2>1, PathOpenBefore
  <2>3. s.reason = "timeout" /\ s.at <= trades[j + 1].at
    BY <1>1, <2>1, <2>2 DEF Outcome
  <2>4. trades[j + 1].at <= now
    BY <1>1, <2>1 DEF HeardOf
  <2>5. LiesBetween(s, h, trades[j + 1])
    BY <2>3, <2>4 DEF LiesBetween
  <2>6. s.reason \notin ByPrice
    BY <2>3 DEF ByPrice
  <2> QED BY <1>1, <1>5, <2>1, <2>5, <2>6 DEF Meets
<1>9. CASE j > k
  <2>1. j \in 1..n /\ k + 1 \in 1..n /\ k + 1 <= j /\ ~(j <= k) /\ ~(k + 1 <= k) /\ j > 0
    BY <1>1, <1>9
  <2>2. trades[j].at >= now /\ trades[k + 1].at >= now
    BY <1>1, <2>1 DEF HeardOf
  <2>3. trades[j].at \in Nat /\ trades[k + 1].at \in Nat
    BY <1>1, <2>1
  <2>4. s.reason \in ByPrice => s.at >= now
    <3>1. ASSUME s.reason \in ByPrice PROVE s.at >= now
      <4>1. s.reason # "timeout"
        BY <3>1 DEF ByPrice
      <4>2. s.at = trades[j].at
        BY <4>1 DEF Outcome
      <4> QED BY <2>2, <4>2
    <3> QED BY <3>1
  <2>5. ASSUME k >= WarmAt PROVE LiesBetween(s, h, trades[k + 1])
    <3>1. s.at >= trades[j].at
      BY <1>1, <1>4, <2>1, <2>5 DEF Outcome
    <3>2. trades[j].at >= trades[k + 1].at
      <4>1. CASE k + 1 = j
        BY <2>3, <4>1
      <4>2. CASE k + 1 < j
        <5>1. trades[k + 1].at < trades[j].at
          BY <1>1, <2>1, <4>2 DEF Rising
        <5> QED BY <2>3, <5>1
      <4> QED BY <2>1, <4>1, <4>2
    <3>3. s.at >= trades[k + 1].at
      BY <1>4, <2>3, <3>1, <3>2
    <3>4. trades[k + 1].at <= s.at /\ h.ended <= trades[k + 1].at
      BY <1>4, <2>2, <2>3, <3>3
    <3> QED BY <3>4 DEF LiesBetween
  <2>6. s.reason \in ByPrice => h.ended <= s.at
    BY <1>4, <2>4
  <2> QED BY <1>1, <1>5, <2>1, <2>5, <2>6 DEF Meets
<1> QED BY <1>7, <1>8, <1>9

LEMMA SidesMeet ==
  ASSUME NEW e \in LifeTrade, NEW trades \in Seq(LifeTrade), Rising(trades),
         NEW p, IsPath(p, e, trades), NEW k \in 0..Len(trades), NEW h \in RunnerType,
         NEW now \in Int, HeardOf(trades, k, now), HeldOf(p, k, h, now),
         NEW s, HasOutcome(e, trades, p, s)
  PROVE  s \in RunnerType /\ Meets(trades, k, s, h)
<1>1. PICK j \in 0..Len(trades) : s \in RunnerType /\ Outcome(e, trades, p, s, j)
  BY DEF HasOutcome
<1>2. CASE k > 0 /\ p[k - 1].reason = "open" /\ h = p[k] /\ h.reason # "open"
  <2>1. k \in 1..Len(trades)
    BY <1>2
  <2> QED BY <1>1, <1>2, <2>1, MeetsByTrade
<1>3. CASE /\ p[k].reason = "open" /\ h.price = p[k].price
           /\ h.reason \in OtherEnds /\ h.ended = now
  BY <1>1, <1>3, MeetsOtherwise
<1> QED BY <1>2, <1>3 DEF HeldOf

(* Where the simulation has a trade to replay, the two sides meet.           *)
LEMMA LiveMeets ==
  ASSUME LiveInv, held.reason # "open", NEW s, s = Simulated(entry, Later)
  PROVE  s \in RunnerType /\ Meets(Later, held.heard, s, held)
<1>1. PICK e \in LifeTrade : e = entry
  BY DEF LiveInv, LifeInv
<1>2. PICK l \in Seq(LifeTrade) : l = Later /\ Rising(l)
  BY DEF LiveInv, LifeInv
<1>3. PICK p : p = Path(e, l) /\ IsPath(p, e, l)
  BY PathIs
<1>4. PICK k \in 0..Len(l) : k = held.heard
  BY <1>2 DEF LiveInv, HeardBy
<1>5. held \in RunnerType /\ instant \in Int
  BY DEF LiveInv, HeldInv
<1>6. HeardOf(l, k, instant)
  BY <1>2, <1>4 DEF LiveInv, HeardBy, HeardOf
<1>7. OnPath(p, k)
  BY <1>1, <1>2, <1>3, <1>4 DEF LiveInv
<1>8. HeldOf(p, k, held, instant)
  BY <1>7 DEF OnPath, HeldOf
<1>9. HasOutcome(e, l, p, s)
  BY <1>1, <1>2, <1>3, SimulatedViewed
<1>10. s \in RunnerType /\ Meets(l, k, s, held)
  BY <1>2, <1>3, <1>5, <1>6, <1>8, <1>9, SidesMeet
<1> QED BY <1>2, <1>4, <1>10

LEMMA HoldsNoLonger ==
  ASSUME LiveInv, held.heard >= WarmAt, NEW s, s = Simulated(entry, Later)
  PROVE  s.at <= Max({entry.at + TickEvery, opened}) + HoldFor
<1>1. PICK e \in LifeTrade : e = entry
  BY DEF LiveInv, LifeInv
<1>2. PICK l \in Seq(LifeTrade) : l = Later /\ Rising(l)
  BY DEF LiveInv, LifeInv
<1>3. PICK p : p = Path(e, l) /\ IsPath(p, e, l)
  BY PathIs
<1>4. PICK k \in 0..Len(l) : k = held.heard
  BY <1>2 DEF LiveInv, HeardBy
<1>5. WarmAt \in Nat \ {0} /\ HoldFor \in Nat /\ TickEvery \in Nat /\ e.at \in Nat /\ opened \in Nat
  BY ExitLabelsAssumption DEF LifeTrade, LiveInv, LifeInv
<1>6. PICK j \in 0..Len(l) : s \in RunnerType /\ Outcome(e, l, p, s, j)
  BY <1>1, <1>2, <1>3, SimulatedViewed DEF HasOutcome
<1>7. Len(l) >= WarmAt /\ WarmAt \in 1..Len(l) /\ WarmAt <= k
  BY <1>4, <1>5
<1>8. PICK warm \in Nat : warm = l[WarmAt].at
  BY <1>7, TimesOf
<1>9. warm < opened + HoldFor
  BY <1>2, <1>4, <1>7, <1>8 DEF LiveInv, HeardBy
<1>14. PICK end \in Int : end = s.at
  BY <1>6 DEF RunnerType
<1>10. end <= e.at + HoldFor + TickEvery \/ end <= warm
  BY <1>6, <1>7, <1>8, <1>14 DEF Outcome, Deadline
<1>11. PICK a \in Int : a = e.at + TickEvery
  BY <1>5
<1>12. PICK m \in Int : m = Max({a, opened}) /\ m >= a /\ m >= opened
  BY <1>5, GreaterOfTwo
<1>15. e.at \in Int /\ HoldFor \in Int /\ TickEvery \in Int /\ opened \in Int
       /\ end \in Int /\ warm \in Int /\ m \in Int
  BY <1>5, <1>8, <1>12, <1>14
<1>16. m >= e.at + TickEvery /\ m >= opened
  BY <1>11, <1>12
<1>13. end <= m + HoldFor
  BY ONLY <1>9, <1>10, <1>15, <1>16
<1> QED BY <1>1, <1>11, <1>12, <1>13, <1>14

(* What a training counted as life stays life.                               *)
LEMMA CountsStay ==
  ASSUME LiveInv, held.reason # "open", NEW lost, NEW final,
         final = BuildFromRecords(entry, held, instant, lost)
  PROVE  /\ opened = entry.at => Len(counted) <= Len(final)
         /\ \A i \in 1..Min({Len(counted), Len(final)}) - 1 : final[i] = 0
<1>1. PICK e \in LifeTrade : e = entry
  BY DEF LiveInv, LifeInv
<1>2. PICK h \in RunnerType : h = held
  BY DEF LiveInv, HeldInv
<1>3. instant \in Int /\ e.at \in Int /\ h.at \in Int
  BY DEF LiveInv, HeldInv, LifeTrade, RunnerType
<1>4. PICK raw \in Int : raw = h.at - e.at
  BY <1>3
<1>5. Cut0(final, raw)
  BY <1>1, <1>2, <1>3, <1>4, BuildIs
<1>6. PICK c \in Nat : c = Len(counted)
  BY DEF LiveInv, CountInv
<1>7. PICK f \in Nat : f = Len(final) /\ f = Buckets(raw)
  BY <1>5 DEF Cut0
<1>8. PICK m \in Int : m = Min({c, f}) /\ m <= f
  BY LesserOfTwo
<1>9. \A i \in 1..m - 1 : final[i] = 0
  <2>1. \A i \in 1..m - 1 : i \in 1..f - 1
    BY <1>8
  <2> QED BY <1>5, <1>7, <2>1 DEF Cut0
<1>10. ASSUME opened = entry.at PROVE c <= f
  <2>1. h.at >= instant
    BY <1>2, <1>10 DEF LiveInv, EndInv
  <2>2. PICK now \in Int : now = instant - e.at
    BY <1>3
  <2>3. now <= raw
    BY <1>3, <1>4, <2>1, <2>2
  <2>4. Buckets(now) \in Nat /\ Buckets(now) <= Buckets(raw)
    BY <2>3, BucketsMore
  <2>5. c <= Buckets(now)
    BY <1>1, <1>6, <2>2 DEF LiveInv, CountInv
  <2> QED BY <1>7, <2>4, <2>5
<1> QED BY <1>6, <1>7, <1>8, <1>9, <1>10

LEMMA LabelsKeepTheirWord == LabelsInv => LabelsAsLived
<1> SUFFICES ASSUME LiveInv, held.reason # "open" PROVE LabelsAsLived
  BY DEF LabelsInv, LabelsAsLived
<1>1. PICK s : s = SimulatedBatch(entry, Later)
  OBVIOUS
<1>3. PICK between : between = {i \in DOMAIN Later :
          /\ Later[i].at >= Min({s.at, held.ended})
          /\ Later[i].at <= Max({s.at, held.ended})}
  OBVIOUS
<1>4. held \in RunnerType /\ entry \in LifeTrade /\ Later \in Seq(LifeTrade)
      /\ held.heard \in 0..Len(Later)
  BY DEF LiveInv, HeldInv, LifeInv, HeardBy
<1>5. WarmAt \in Nat \ {0}
  BY ExitLabelsAssumption
<1> DEFINE Sides ==
      /\ s.reason \in ByPrice => held.ended <= s.at
      /\ held.reason \in ByPrice => s.at <= held.ended
      /\ {s.reason, held.reason} \subseteq ByPrice => Exit(s) = Exit(held)
      /\ held.heard >= WarmAt =>
           /\ s.at <= Max({entry.at + TickEvery, opened}) + HoldFor
           /\ between = {} => s.price = held.price
<1>9. Sides
  <2>6. CASE Later = <<>>
    <3>1. held.heard = 0
      BY <1>4, <2>6
    <3>2. ~(held.heard >= WarmAt)
      BY <1>5, <3>1
    <3>3. s = Closed(Runner(entry.price), "timeout", entry.at)
      BY <1>1, <2>6 DEF SimulatedBatch
    <3>4. s.reason = "timeout"
      <4>1. PICK r \in RunnerType : r = Runner(entry.price)
        BY <1>4, RunnerIs DEF LifeTrade
      <4>2. "timeout" \in Reasons /\ entry.at \in Int
        BY <1>4 DEF Reasons, LifeTrade
      <4> QED BY <3>3, <4>1, <4>2, ClosedIs
    <3>5. held.reason \in OtherEnds
      BY <3>1 DEF LiveInv, OnPath
    <3>6. s.reason \notin ByPrice /\ held.reason \notin ByPrice
      BY <3>4, <3>5 DEF ByPrice, OtherEnds
    <3> QED BY <3>2, <3>6
  <2>7. CASE Later # <<>>
    <3>1. s = Simulated(entry, Later)
      BY <1>1, <2>7 DEF SimulatedBatch
    <3>2. s \in RunnerType /\ Meets(Later, held.heard, s, held)
      BY <3>1, LiveMeets
    <3>3. /\ s.reason \in ByPrice => held.ended <= s.at
          /\ held.reason \in ByPrice => s.at <= held.ended
          /\ {s.reason, held.reason} \subseteq ByPrice => Exit(s) = Exit(held)
      BY <3>2 DEF Meets
    <3>4. ASSUME held.heard >= WarmAt, between = {} PROVE s.price = held.price
      <4>1. SUFFICES ASSUME NEW i \in 1..Len(Later), LiesBetween(s, held, Later[i]) PROVE FALSE
        BY <3>2, <3>4 DEF Meets
      <4>2. PICK a \in Int : a = s.at
        BY <3>2 DEF RunnerType
      <4>3. PICK b \in Int : b = held.ended
        BY <1>4 DEF RunnerType
      <4>4. PICK c \in Nat : c = Later[i].at
        BY <1>4, TimesOf
      <4>5. PICK lo \in Int : lo = Min({a, b}) /\ (a <= b => lo = a) /\ (b <= a => lo = b)
        BY LesserOfTwo
      <4>6. PICK hi \in Int : hi = Max({a, b}) /\ (a >= b => hi = a) /\ (b >= a => hi = b)
        BY GreaterOfTwo
      <4>7. (a <= c /\ c <= b) \/ (b <= c /\ c <= a)
        BY <4>1, <4>2, <4>3, <4>4 DEF LiesBetween
      <4>8. c >= lo /\ c <= hi
        BY <4>5, <4>6, <4>7
      <4>9. i \in DOMAIN Later
        BY <1>4
      <4>10. i \in between
        BY <1>3, <4>2, <4>3, <4>4, <4>5, <4>6, <4>8, <4>9
      <4> QED BY <3>4, <4>10
    <3>6. held.heard >= WarmAt => s.at <= Max({entry.at + TickEvery, opened}) + HoldFor
      BY <3>1, HoldsNoLonger
    <3>8. held.heard >= WarmAt =>
            /\ s.at <= Max({entry.at + TickEvery, opened}) + HoldFor
            /\ between = {} => s.price = held.price
      BY ONLY <3>4, <3>6
    <3> QED BY ONLY <3>3, <3>8
  <2> QED BY <2>6, <2>7
<1>8. ASSUME NEW lost \in BOOLEAN,
             NEW final, final = BuildFromRecords(entry, held, instant, lost)
      PROVE  /\ opened = entry.at => Len(counted) <= Len(final)
             /\ \A i \in 1..Min({Len(counted), Len(final)}) - 1 : final[i] = 0
  BY <1>8, CountsStay
<1> QED BY <1>1, <1>3, <1>8, <1>9 DEF LabelsAsLived

LEMMA OpenIsPath ==
  ASSUME LiveInv, Open
  PROVE  /\ held = Path(entry, Later)[held.heard]
         /\ RulesRest(entry, held)
         /\ IsPath(Path(entry, Later), entry, Later)
<1>1. PICK e \in LifeTrade : e = entry
  BY DEF LiveInv, LifeInv
<1>2. PICK l \in Seq(LifeTrade) : l = Later
  BY DEF LiveInv, LifeInv
<1>3. PICK p : p = Path(e, l) /\ IsPath(p, e, l)
  BY PathIs
<1>4. PICK k \in 0..Len(l) : k = held.heard
  BY <1>2 DEF LiveInv, HeardBy
<1>5. OnPath(p, k) /\ held.reason = "open"
  BY <1>1, <1>2, <1>3, <1>4 DEF LiveInv, Open
<1>6. held = p[k]
  BY <1>5 DEF OnPath, OtherEnds
<1>7. Along(e, l, p, k)
  BY <1>3, PathAlong
<1>8. RulesRest(e, p[k])
  BY <1>5, <1>6, <1>7 DEF Along, OpenAfter
<1> QED BY <1>1, <1>2, <1>3, <1>4, <1>6, <1>8

LEMMA LifeKept ==
  ASSUME LifeInv, UNCHANGED <<life, entry, opened>>
  PROVE  LifeInv' /\ Later' = Later
BY DEF LifeInv, Later, Rising

LEMMA LabelsStart == LabelsInit => LiveInv
<1> SUFFICES ASSUME LabelsInit PROVE LiveInv
  OBVIOUS
<1>1. life \in Seq(LifeTrade) /\ Rising(life)
  <2>1. life \in Seq(LifeTrade) /\ \A i \in 1..Len(life) - 1 : life[i].at < life[i + 1].at
    BY ExitLabelsAssumption DEF LabelsInit, LifeTrade
  <2> QED BY <2>1, RisingByStep
<1>2. entry \in Entries /\ SeenBy(life, entry.at) # <<>>
  BY DEF LabelsInit
<1>3. entry \in LifeTrade
  BY <1>2, ExitLabelsAssumption DEF LifeTrade
<1>4. PICK c \in Nat : c = entry.at
  BY <1>3 DEF LifeTrade
<1>5. PICK price \in Nat \ {0} : price = entry.price
  BY <1>3 DEF LifeTrade
<1>6. entry \in LifeTrade /\ entry.at = c /\ entry.price = price
  BY <1>3, <1>4, <1>5
<1>7. opened \in Nat /\ entry.at <= opened /\ instant = opened
  <2>1. opened \in c..c + MaxLag /\ instant = opened
    BY <1>6 DEF LabelsInit
  <2>5. MaxLag \in Nat
    BY ExitLabelsAssumption
  <2>2. PICK last \in Int : last = c + MaxLag
    BY ONLY <1>4, <2>5
  <2>3. opened \in c..last
    BY <2>1, <2>2
  <2>4. opened \in Nat /\ c <= opened
    BY <2>2, <2>3
  <2> QED BY <1>6, <2>1, <2>4
<1>8. PICK l \in Seq(LifeTrade) : l = Later /\ Rising(l) /\ \A k \in 1..Len(l) : l[k].at > c
  BY <1>1, <1>6, AfterIs DEF Later
<1>9. \A k \in 1..Len(l) : l[k].at >= opened
  BY <1>7, <1>8, NoneSeenBy DEF LabelsInit, Later
<1>10. LifeInv
  BY <1>1, <1>3, <1>6, <1>7, <1>8, <1>9 DEF LifeInv
<1>11. held = Runner(price) /\ held \in RunnerType
  BY <1>6, RunnerIs DEF LabelsInit
<1>12. held.reason = "open" /\ held.heard = 0
  BY <1>11 DEF Runner
<1>13. HeldInv
  BY <1>7, <1>11, <1>12 DEF HeldInv
<1>14. HeardBy(0)
  BY <1>7, <1>8, <1>9 DEF HeardBy
<1>15. OnPath(Path(entry, Later), 0)
  <2>1. IsPath(Path(entry, l), entry, l)
    BY <1>6, PathIs
  <2>2. Path(entry, l)[0] = Runner(price)
    BY <1>6, <2>1 DEF IsPath
  <2> QED BY <1>8, <1>11, <1>12, <2>2 DEF OnPath
<1>16. EndInv
  <2>1. LastEvent = entry.at
    BY <1>12 DEF LastEvent
  <2>2. PICK o \in Int : o = opened /\ c <= o
    BY <1>6, <1>7
  <2>3. Max({c, o}) = o
    BY <2>2, GreaterOfTwo
  <2>4. o - o <= QuietFor
    BY ExitLabelsAssumption
  <2> QED BY <1>6, <1>7, <1>12, <2>1, <2>2, <2>3, <2>4 DEF EndInv
<1>17. CountInv
  <2>1. Buckets(instant - entry.at) \in Nat
    <3>1. PICK d \in Int : d = instant - entry.at
      BY <1>6, <1>7
    <3> QED BY <3>1, BucketsMore
  <2>2. counted = <<>>
    BY DEF LabelsInit
  <2> QED BY <2>1, <2>2 DEF CountInv
<1> QED BY <1>10, <1>12, <1>13, <1>14, <1>15, <1>16, <1>17 DEF LiveInv

LEMMA LiveStays ==
  ASSUME LiveInv, UNCHANGED <<life, entry, opened, instant, held, counted>>
  PROVE  LiveInv'
<1>1. LifeInv' /\ Later' = Later
  BY LifeKept DEF LiveInv
<1>2. HeldInv' /\ CountInv'
  BY DEF LiveInv, HeldInv, CountInv, Buckets, BucketsOf, Lived
<1>3. HeardBy(held.heard)'
  BY <1>1 DEF LiveInv, HeardBy
<1>4. Path(entry, Later)' = Path(entry, Later)
  BY <1>1 DEF Path, PathStep, PathAt
<1>5. OnPath(Path(entry, Later), held.heard)'
  BY <1>4 DEF LiveInv, OnPath
<1>6. LastEvent' = LastEvent
  BY <1>1 DEF LastEvent
<1>7. EndInv'
  BY <1>6 DEF LiveInv, EndInv
<1> QED BY <1>1, <1>2, <1>3, <1>5, <1>7 DEF LiveInv

(* A position closed other than by a trade.                                  *)
LEMMA LiveCloses ==
  ASSUME LiveInv, Open, UNCHANGED <<life, entry, opened, instant, counted>>,
         held' \in RunnerType, held'.reason \in OtherEnds, held'.ended = instant,
         held'.heard = held.heard, held'.price = held.price,
         opened = entry.at => held'.at >= instant
  PROVE  LiveInv'
<1>1. LifeInv' /\ Later' = Later
  BY LifeKept DEF LiveInv
<1>2. CountInv'
  BY DEF LiveInv, CountInv, Buckets, BucketsOf, Lived
<1>3. held'.reason # "off" /\ held'.reason # "open"
  BY DEF OtherEnds
<1>4. HeldInv'
  BY <1>3 DEF LiveInv, HeldInv
<1>5. HeardBy(held.heard)'
  BY <1>1 DEF LiveInv, HeardBy
<1>6. Path(entry, Later)' = Path(entry, Later)
  BY <1>1 DEF Path, PathStep, PathAt
<1>7. held = Path(entry, Later)[held.heard] /\ held.reason = "open"
  BY OpenIsPath DEF Open
<1>8. OnPath(Path(entry, Later), held.heard)'
  <2>1. PICK r : r = Path(entry, Later)[held.heard] /\ r = held
    BY <1>7
  <2>2. r = (Path(entry, Later)[held.heard])'
    BY <1>6, <2>1
  <2> QED BY <1>7, <2>1, <2>2 DEF OnPath
<1>9. EndInv'
  BY <1>3 DEF EndInv
<1> QED BY <1>1, <1>2, <1>4, <1>5, <1>8, <1>9 DEF LiveInv

LEMMA LabelsTick == LiveInv /\ TickPosition => LiveInv'
<1> SUFFICES ASSUME LiveInv, TickPosition PROVE LiveInv'
  OBVIOUS
<1>1. Open /\ UNCHANGED <<life, entry, opened, instant, counted>>
  BY DEF TickPosition
<1>2. PICK h \in RunnerType : h = held /\ h.reason = "open"
  BY <1>1 DEF LiveInv, HeldInv, Open
<1>3. PICK e \in LifeTrade : e = entry
  BY DEF LiveInv, LifeInv
<1>4. PICK now \in Int : now = instant
  BY DEF LiveInv, HeldInv
<1>5. RulesRest(e, h)
  BY <1>1, <1>2, <1>3, OpenIsPath
<1>6. PICK q : q = DecideExit(e, h, now)
  OBVIOUS
<1>7. q = Closed(h, "timeout", now) \/ q = h
  BY <1>2, <1>5, <1>6, TickSettled
<1>8. held' = IF q.reason = "open" /\ SurvivalExit(instant - entry.at)
              THEN Closed(q, "survival_predict", now) ELSE q
  BY <1>2, <1>3, <1>4, <1>6 DEF TickPosition
<1>9. "timeout" \in Reasons /\ "survival_predict" \in Reasons
      /\ "timeout" \in OtherEnds /\ "survival_predict" \in OtherEnds
  BY DEF Reasons, OtherEnds
<1>10. CASE held' = h
  <2>1. UNCHANGED <<life, entry, opened, instant, held, counted>>
    BY <1>1, <1>2, <1>10
  <2> QED BY <2>1, LiveStays
<1>11. ASSUME NEW reason \in Reasons, reason \in OtherEnds, held' = Closed(h, reason, now)
       PROVE  LiveInv'
  <2>1. /\ held' \in RunnerType /\ held'.reason = reason /\ held'.at = now
        /\ held'.ended = now /\ held'.heard = h.heard /\ held'.price = h.price
    BY <1>11, ClosedIs
  <2>2. now >= instant
    BY <1>4
  <2> QED BY <1>1, <1>2, <1>4, <1>11, <2>1, <2>2, LiveCloses
<1>12. CASE q = Closed(h, "timeout", now)
  <2>1. q.reason = "timeout"
    BY <1>9, <1>12, ClosedIs
  <2>2. held' = q
    BY <1>8, <2>1
  <2> QED BY <1>9, <1>11, <1>12, <2>2
<1>13. CASE q = h
  <2>1. held' = Closed(h, "survival_predict", now) \/ held' = h
    BY <1>8, <1>13
  <2> QED BY <1>9, <1>10, <1>11, <2>1
<1> QED BY <1>7, <1>12, <1>13

LEMMA LastEventIs ==
  ASSUME LiveInv
  PROVE  LastEvent \in Int /\ LastEvent >= entry.at
<1>1. PICK l \in Seq(LifeTrade) : l = Later
  BY DEF LiveInv, LifeInv
<1>2. PICK k \in 0..Len(l) : k = held.heard
  BY <1>1 DEF LiveInv, HeardBy
<1>3. PICK c \in Nat : c = entry.at
  BY DEF LiveInv, LifeInv, LifeTrade
<1>4. CASE k = 0
  BY <1>2, <1>3, <1>4 DEF LastEvent
<1>5. CASE k # 0
  <2>1. k \in 1..Len(l)
    BY <1>5
  <2>2. PICK t \in Nat : t = l[k].at
    BY <2>1, TimesOf
  <2>3. LastEvent = t
    BY <1>1, <1>2, <1>5, <2>2 DEF LastEvent
  <2>4. t > c
    BY <1>1, <1>3, <2>1, <2>2 DEF LiveInv, LifeInv
  <2> QED BY <1>3, <2>2, <2>3, <2>4
<1> QED BY <1>4, <1>5

LEMMA LabelsEnd == LiveInv /\ EndStream => LiveInv'
<1> SUFFICES ASSUME LiveInv, EndStream PROVE LiveInv'
  OBVIOUS
<1>1. Open /\ UNCHANGED <<life, entry, opened, instant, counted>>
  BY DEF EndStream
<1>2. PICK h \in RunnerType : h = held
  BY DEF LiveInv, HeldInv
<1>3. PICK last \in Int : last = LastEvent /\ last >= entry.at
  BY LastEventIs
<1>4. QuietFor \in Int
  BY ExitLabelsAssumption
<1>5. PICK t \in Int : t = last + QuietFor
  BY <1>4
<1>6. PICK r : r = Closed(h, "dead_token", t)
  OBVIOUS
<1>7. "dead_token" \in Reasons /\ "dead_token" \in OtherEnds
  BY DEF Reasons, OtherEnds
<1>8. /\ r \in RunnerType /\ r.reason = "dead_token" /\ r.at = t
      /\ r.heard = h.heard /\ r.price = h.price
  BY <1>6, <1>7, ClosedIs
<1>9. held' = [r EXCEPT !.ended = instant]
  BY <1>2, <1>3, <1>5, <1>6 DEF EndStream
<1>10. instant \in Int
  BY DEF LiveInv, HeldInv
<1>11. held' \in RunnerType /\ held'.ended = instant
  BY <1>8, <1>9, <1>10 DEF RunnerType
<1>12. held'.reason = "dead_token" /\ held'.at = t /\ held'.heard = h.heard /\ held'.price = h.price
  BY <1>8, <1>9 DEF RunnerType
<1>13. ASSUME opened = entry.at PROVE t >= instant
  <2>1. instant - Max({last, opened}) <= QuietFor
    BY <1>1, <1>3 DEF LiveInv, EndInv, Open
  <2>2. PICK o \in Int : o = opened
    BY DEF LiveInv, LifeInv
  <2>3. Max({last, o}) = last
    BY <1>3, <1>13, <2>2, GreaterOfTwo
  <2>4. instant - last <= QuietFor
    BY <2>1, <2>2, <2>3
  <2> QED BY <1>4, <1>5, <1>10, <2>4
<1> QED BY <1>1, <1>2, <1>7, <1>11, <1>12, <1>13, LiveCloses

LEMMA LabelsCount == LiveInv /\ CountBuckets => LiveInv'
<1> SUFFICES ASSUME LiveInv, CountBuckets PROVE LiveInv'
  OBVIOUS
<1>1. held.reason = "open" /\ UNCHANGED <<life, entry, opened, instant, held>>
      /\ counted' = BuildFromRecords(entry, held, instant, FALSE)
  BY DEF CountBuckets, Open
<1>2. PICK raw : raw = instant - entry.at
  OBVIOUS
<1>3. Cut0(counted', raw)
  <2>1. entry \in LifeTrade /\ held \in RunnerType /\ instant \in Int
    BY DEF LiveInv, LifeInv, HeldInv
  <2>2. raw = (IF held.reason # "open" THEN held.at ELSE instant) - entry.at
    BY <1>1, <1>2
  <2> QED BY <1>1, <2>1, <2>2, BuildIs
<1>4. PICK n \in Nat : n = Buckets(raw) /\ Len(counted') = n /\ counted' \in Seq({0, 1})
  BY <1>3 DEF Cut0
<1>5. n = Buckets(instant - entry.at)'
  BY <1>1, <1>2, <1>4 DEF Buckets, BucketsOf, Lived
<1>6. CountInv'
  BY <1>4, <1>5 DEF CountInv
<1>7. LifeInv' /\ Later' = Later
  BY <1>1, LifeKept DEF LiveInv
<1>8. HeldInv' /\ HeardBy(held.heard)'
  BY <1>1, <1>7 DEF LiveInv, HeldInv, HeardBy
<1>9. Path(entry, Later)' = Path(entry, Later) /\ LastEvent' = LastEvent
  BY <1>1, <1>7 DEF Path, PathStep, PathAt, LastEvent
<1>10. OnPath(Path(entry, Later), held.heard)' /\ EndInv'
  BY <1>1, <1>9 DEF LiveInv, OnPath, EndInv
<1> QED BY <1>6, <1>7, <1>8, <1>10 DEF LiveInv

LEMMA LabelsPass == LiveInv /\ PassInstant => LiveInv'
<1> SUFFICES ASSUME LiveInv, PassInstant PROVE LiveInv'
  OBVIOUS
<1>1. /\ held.reason = "open" /\ UNCHANGED <<life, entry, opened, held, counted>>
      /\ instant' = instant + 1 /\ ~Silent /\ ~NextDue
  BY DEF PassInstant, Open, StreamOver
<1>2. PICK now \in Int : now = instant
  BY DEF LiveInv, HeldInv
<1>3. LifeInv' /\ Later' = Later
  BY <1>1, LifeKept DEF LiveInv
<1>4. HeldInv'
  <2>1. opened \in Nat /\ opened <= instant
    BY DEF LiveInv, LifeInv, HeldInv
  <2>2. instant' \in Int /\ opened <= instant'
    BY <1>1, <1>2, <2>1
  <2> QED BY <1>1, <2>2 DEF LiveInv, HeldInv
<1>5. PICK l \in Seq(LifeTrade) : l = Later /\ Rising(l)
  BY DEF LiveInv, LifeInv
<1>6. PICK k \in 0..Len(l) : k = held.heard
  BY <1>5 DEF LiveInv, HeardBy
<1>7. PICK n \in Nat : n = Len(l) /\ \A i \in 1..n : l[i].at \in Nat
  BY TimesOf
<1>8. ASSUME NEW i \in 1..n, i <= k
      PROVE  l[i].at <= now + 1 /\ l[i].at < opened + HoldFor
  <2>1. l[i].at <= now /\ l[i].at < opened + HoldFor
    BY <1>2, <1>5, <1>6, <1>7, <1>8 DEF LiveInv, HeardBy
  <2> QED BY <1>2, <1>7, <2>1
<1>9. ASSUME NEW i \in 1..n, ~(i <= k)
      PROVE  l[i].at >= now + 1
  <2>1. k + 1 \in 1..n /\ k < n /\ k + 1 <= i
    BY <1>6, <1>7, <1>9
  <2>2. ~(l[k + 1].at <= now)
    BY <1>1, <1>2, <1>5, <1>6, <1>7, <2>1 DEF NextDue
  <2>3. l[k + 1].at >= now + 1
    BY <1>2, <1>7, <2>1, <2>2
  <2>4. CASE i = k + 1
    BY <2>3, <2>4
  <2>5. CASE k + 1 < i
    <3>1. l[k + 1].at < l[i].at
      BY <1>5, <1>7, <2>1, <2>5 DEF Rising
    <3> QED BY <1>2, <1>7, <2>1, <2>3, <3>1
  <2> QED BY <1>6, <2>1, <2>4, <2>5
<1>10. HeardBy(held.heard)'
  BY <1>1, <1>2, <1>3, <1>5, <1>6, <1>7, <1>8, <1>9 DEF HeardBy
<1>11. Path(entry, Later)' = Path(entry, Later) /\ LastEvent' = LastEvent
  BY <1>1, <1>3 DEF Path, PathStep, PathAt, LastEvent
<1>12. held = Path(entry, Later)[held.heard]
  BY <1>1, OpenIsPath DEF Open
<1>13. OnPath(Path(entry, Later), held.heard)'
  BY <1>1, <1>11, <1>12 DEF OnPath
<1>14. EndInv'
  <2>1. PICK last \in Int : last = LastEvent
    BY LastEventIs
  <2>2. PICK o \in Int : o = opened
    BY DEF LiveInv, LifeInv
  <2>3. PICK m \in Int : m = Max({last, o})
    BY GreaterOfTwo
  <2>4. QuietFor \in Int /\ ~(now - m >= QuietFor)
    BY <1>1, <1>2, <2>1, <2>2, <2>3, ExitLabelsAssumption DEF Silent
  <2>5. now + 1 - m <= QuietFor
    BY <1>2, <2>3, <2>4
  <2> QED BY <1>1, <1>2, <1>11, <2>1, <2>2, <2>3, <2>5 DEF EndInv
<1>15. CountInv'
  <2>1. PICK c \in Int : c = entry.at
    BY DEF LiveInv, LifeInv, LifeTrade
  <2>2. Len(counted) <= Buckets(now - c) /\ counted \in Seq({0, 1})
    BY <1>2, <2>1 DEF LiveInv, CountInv
  <2>3. PICK a \in Int : a = now - c
    OBVIOUS
  <2>4. PICK b \in Int : b = now + 1 - c /\ a <= b
    BY <2>3
  <2>5. Buckets(a) \in Nat /\ Buckets(b) \in Nat /\ Buckets(a) <= Buckets(b)
    BY <2>4, BucketsMore
  <2>6. Len(counted) \in Nat
    BY <2>2
  <2>7. Len(counted) <= Buckets(b)
    BY <2>2, <2>3, <2>5, <2>6
  <2>8. Buckets(instant - entry.at)' = Buckets(b)
    <3>1. instant' - entry'.at = b
      BY <1>1, <1>2, <2>1, <2>4
    <3>2. Buckets(instant - entry.at)' = Buckets(instant' - entry'.at)
      BY DEF Buckets, BucketsOf, Lived
    <3> QED BY <3>1, <3>2
  <2> QED BY <1>1, <2>2, <2>7, <2>8 DEF CountInv
<1> QED BY <1>3, <1>4, <1>10, <1>13, <1>14, <1>15 DEF LiveInv

LEMMA LabelsHear == LiveInv /\ HearTrade => LiveInv'
<1> SUFFICES ASSUME LiveInv, HearTrade PROVE LiveInv'
  OBVIOUS
<1>1. PICK h \in RunnerType : h = held /\ h.reason = "open"
  BY DEF LiveInv, HeldInv, HearTrade, Open
<1>2. PICK e \in LifeTrade : e = entry
  BY DEF LiveInv, LifeInv
<1>3. PICK l \in Seq(LifeTrade) : l = Later /\ Rising(l)
  BY DEF LiveInv, LifeInv
<1>4. PICK n \in Nat : n = Len(l) /\ \A i \in 1..n : l[i].at \in Nat
  BY <1>3, TimesOf
<1>5. PICK k \in 0..n : k = h.heard
  BY <1>1, <1>3, <1>4 DEF LiveInv, HeardBy
<1>6. PICK now \in Int : now = instant
  BY DEF LiveInv, HeldInv
<1>7. k < n /\ l[k + 1].at <= now /\ now - opened < HoldFor
      /\ UNCHANGED <<life, entry, opened, instant, counted>>
  BY <1>1, <1>3, <1>4, <1>5, <1>6 DEF HearTrade, NextDue
<1>8. k + 1 \in 1..n /\ ~(k + 1 <= k) /\ (k + 1) - 1 = k
  BY <1>5, <1>7
<1>9. PICK x \in LifeTrade : x = l[k + 1]
  BY <1>4, <1>8
<1>10. x.at = now
  <2>1. l[k + 1].at >= now
    BY <1>1, <1>3, <1>4, <1>5, <1>6, <1>8 DEF LiveInv, HeardBy
  <2>2. l[k + 1].at \in Nat
    BY <1>4, <1>8
  <2> QED BY <1>6, <1>7, <1>9, <2>1, <2>2
<1>11. PICK g : g = Process(e, h, x)
  OBVIOUS
<1>12. held' = g
  BY <1>1, <1>2, <1>3, <1>5, <1>9, <1>11 DEF HearTrade
<1>13. HeardOne(e, g, h, x)
  BY <1>1, <1>11, ProcessIs
<1>14. g \in RunnerType /\ g.heard = k + 1 /\ g.reason # "off"
       /\ (g.reason # "open" => g.at = now)
  BY <1>5, <1>10, <1>13 DEF HeardOne, PathRule, Ending
<1>15. LifeInv' /\ Later' = Later
  BY <1>7, LifeKept DEF LiveInv
<1>16. HeldInv'
  BY <1>7, <1>12, <1>14 DEF LiveInv, HeldInv
<1>17. ASSUME NEW i \in 1..n
       PROVE  IF i <= k + 1 THEN l[i].at <= now /\ l[i].at < opened + HoldFor
              ELSE l[i].at >= now
  <2>1. IF i <= k THEN l[i].at <= now /\ l[i].at < opened + HoldFor ELSE l[i].at >= now
    BY <1>1, <1>3, <1>4, <1>5, <1>6 DEF LiveInv, HeardBy
  <2>2. CASE i <= k
    <3>1. i <= k + 1
      BY <1>5, <2>2
    <3> QED BY <2>1, <2>2, <3>1
  <2>3. CASE i = k + 1
    <3>1. opened \in Int /\ HoldFor \in Int
      BY ExitLabelsAssumption DEF LiveInv, LifeInv
    <3>2. l[i].at = now /\ now < opened + HoldFor
      BY <1>6, <1>7, <1>9, <1>10, <2>3, <3>1
    <3>3. i <= k + 1 /\ now <= now
      BY <1>5, <1>6, <2>3
    <3> QED BY <3>2, <3>3
  <2>4. CASE i > k + 1
    <3>1. ~(i <= k) /\ ~(i <= k + 1)
      BY <1>5, <2>4
    <3> QED BY <2>1, <3>1
  <2> QED BY <1>5, <2>2, <2>3, <2>4
<1>18. HeardBy(held.heard)'
  <2>1. k + 1 \in 0..n
    BY <1>8
  <2> QED BY <1>3, <1>4, <1>6, <1>7, <1>12, <1>14, <1>15, <1>17, <2>1 DEF HeardBy
<1>19. PICK p : p = Path(e, l) /\ IsPath(p, e, l)
  BY PathIs
<1>20. p[k] = h
  BY <1>1, <1>2, <1>3, <1>5, <1>19, OpenIsPath DEF Open
<1>21. p[k + 1] = g
  <2>1. p[k + 1] = PathAt(e, p[k], x)
    BY <1>4, <1>8, <1>9, <1>19 DEF IsPath
  <2> QED BY <1>1, <1>11, <1>20, <2>1 DEF PathAt
<1>22. Path(entry, Later)' = p
  BY <1>2, <1>3, <1>7, <1>15, <1>19 DEF Path, PathStep, PathAt
<1>23. OnPath(p, k + 1)'
  BY <1>1, <1>8, <1>12, <1>20, <1>21 DEF OnPath
<1>24. OnPath(Path(entry, Later), held.heard)'
  BY <1>12, <1>14, <1>22, <1>23
<1>25. EndInv'
  <2>1. LastEvent' = now
    BY <1>3, <1>5, <1>8, <1>9, <1>10, <1>12, <1>14, <1>15 DEF LastEvent
  <2>2. PICK o \in Int : o = opened /\ o <= now
    BY <1>6 DEF LiveInv, LifeInv, HeldInv
  <2>3. Max({now, o}) = now
    BY <2>2, GreaterOfTwo
  <2>4. now - now <= QuietFor
    BY ExitLabelsAssumption
  <2>5. now >= now
    OBVIOUS
  <2> QED BY <1>6, <1>7, <1>12, <1>14, <2>1, <2>2, <2>3, <2>4, <2>5 DEF EndInv
<1>26. CountInv'
  BY <1>7 DEF LiveInv, CountInv, Buckets, BucketsOf, Lived
<1> QED BY <1>15, <1>16, <1>18, <1>24, <1>25, <1>26 DEF LiveInv

LEMMA LabelsStep == LabelsInv /\ [LabelsNext]_labelVars => LabelsInv'
<1> SUFFICES ASSUME LabelsInv, [LabelsNext]_labelVars PROVE LabelsInv'
  OBVIOUS
<1>1. CASE UNCHANGED labelVars
  <2>1. UNCHANGED <<life, entry, opened, instant, held, counted>>
    BY <1>1 DEF labelVars
  <2> QED BY <2>1, LiveStays DEF LabelsInv
<1>2. CASE LabelsNext
  <2>1. held.reason = "open"
    BY <1>2 DEF LabelsNext, HearTrade, TickPosition, EndStream, CountBuckets, PassInstant, Open
  <2>2. LiveInv
    BY <2>1 DEF LabelsInv
  <2> QED BY <1>2, <2>2, LabelsHear, LabelsTick, LabelsEnd, LabelsCount, LabelsPass
          DEF LabelsNext, LabelsInv
<1> QED BY <1>1, <1>2

LEMMA LabelsBegin == LabelsInit \/ LabelsOff => LabelsInv
BY LabelsStart DEF LabelsInv, LabelsOff, Runner

(* A position ends live as the replay of its trades says it ends: no rule of  *)
(* the price fires on one side after the other has ended, both fire at the    *)
(* same trade, both end at the same price unless a trade lies between them,   *)
(* and what a training counted as life stays life, whatever P&L the row is    *)
(* closed with (simulate_exit.py against paper_trade.py and exit_manager.py;  *)
(* survival.py).                                                              *)
THEOREM LivesAsLabelled == LabelsSpec => []LabelsAsLived
<1>1. LabelsInit => LabelsInv
  BY LabelsBegin
<1>2. LabelsInv /\ [LabelsNext]_labelVars => LabelsInv'
  BY LabelsStep
<1>3. LabelsInv => LabelsAsLived
  BY LabelsKeepTheirWord
<1> QED BY <1>1, <1>2, <1>3, PTL DEF LabelsSpec
=============================================================================
