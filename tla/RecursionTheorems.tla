------------------------- MODULE RecursionTheorems -------------------------
(***************************************************************************)
(* Induction and recursion over the naturals, in the form the proofs of    *)
(* this project use them: a property is a set of naturals and the step of  *)
(* a recursion is a function, so that a prover can instantiate them.       *)
(* With them come sums, concatenations and quotients.                      *)
(***************************************************************************)
EXTENDS Integers, Sequences, NaturalsInduction, WellFoundedInduction,
        SequenceTheorems, TLAPS

\* A nonempty set of naturals has a least element.
LEMMA LeastNatural ==
    ASSUME NEW S \in SUBSET Nat, S # {}
    PROVE  \E m \in S : \A n \in S : m <= n
<1>1. PICK m \in S : \A n \in S : ~(<<n, m>> \in OpToRel(<, Nat))
  BY NatLessThanWellFounded, WFMin
<1>2. \A n \in S : ~(n < m)
  BY <1>1 DEF OpToRel
<1>. QED
  BY <1>2

\* Induction up to n: a set that holds 0 and with every number below n its
\* successor holds all of 0..n.
LEMMA InductionUpto ==
    ASSUME NEW n \in Nat, NEW P, 0 \in P, \A i \in 1..n : i - 1 \in P => i \in P
    PROVE  \A i \in 0..n : i \in P
<1> SUFFICES ASSUME {i \in 0..n : i \notin P} # {}
             PROVE  FALSE
  OBVIOUS
<1>1. PICK m \in {i \in 0..n : i \notin P} : \A k \in {i \in 0..n : i \notin P} : m <= k
  BY LeastNatural, {i \in 0..n : i \notin P} \in SUBSET Nat
<1>2. m \in 1..n /\ m - 1 \in 0..n /\ ~(m <= m - 1)
  BY <1>1
<1>. QED
  BY <1>1, <1>2

\* f is computed from x0 by the steps G[1], ..., G[n].
Recursion(f, n, x0, G) ==
    /\ f[0] = x0
    /\ \A i \in 1..n : f[i] = G[i][f[i - 1]]

\* A recursion with a step for every number defines a function.
LEMMA RecursionExists ==
    ASSUME NEW n \in Nat, NEW S, NEW x0 \in S, NEW G \in [1..n -> [S -> S]]
    PROVE  \E f \in [0..n -> S] : Recursion(f, n, x0, G)
<1> DEFINE P == {m \in 0..n : \E f \in [0..m -> S] : Recursion(f, m, x0, G)}
<1>1. 0 \in P
  <2>1. [i \in 0..0 |-> x0] \in [0..0 -> S]
    OBVIOUS
  <2>2. Recursion([i \in 0..0 |-> x0], 0, x0, G)
    BY DEF Recursion
  <2>. QED
    BY <2>1, <2>2
<1>2. ASSUME NEW m \in 1..n, m - 1 \in P
      PROVE  m \in P
  <2>1. PICK f \in [0..(m - 1) -> S] : Recursion(f, m - 1, x0, G)
    BY <1>2
  <2> DEFINE g == [i \in 0..m |-> IF i = m THEN G[m][f[m - 1]] ELSE f[i]]
  <2>2. m - 1 \in 0..(m - 1) /\ G[m] \in [S -> S] /\ f[m - 1] \in S
    OBVIOUS
  <2>3. \A i \in 0..m : i # m => i \in 0..(m - 1)
    OBVIOUS
  <2>4. g \in [0..m -> S]
    BY <2>2, <2>3
  <2>5. g[0] = x0
    BY <2>1 DEF Recursion
  <2>6. ASSUME NEW i \in 1..m
        PROVE  g[i] = G[i][g[i - 1]]
    <3>1. g[i - 1] = f[i - 1]
      OBVIOUS
    <3>2. CASE i = m
      BY <3>1, <3>2
    <3>3. CASE i # m
      <4>1. i \in 1..(m - 1) /\ g[i] = f[i]
        BY <3>3
      <4>. QED
        BY <2>1, <3>1, <4>1 DEF Recursion
    <3>. QED
      BY <3>2, <3>3
  <2> HIDE DEF g
  <2>7. Recursion(g, m, x0, G)
    BY <2>5, <2>6 DEF Recursion
  <2>8. m \in 0..n
    OBVIOUS
  <2>. QED
    BY <2>4, <2>7, <2>8
<1> HIDE DEF P
<1>3. \A m \in 1..n : m - 1 \in P => m \in P
  BY <1>2
<1>4. \A i \in 0..n : i \in P
  BY <1>1, <1>3, InductionUpto, Zenon
<1>5. n \in P
  BY <1>4
<1>. QED
  BY <1>5 DEF P

-----------------------------------------------------------------------------
(* Running sums, and sequences put one after the other. *)

Sums(f, n, a) == f[0] = 0 /\ \A i \in 1..n : f[i] = f[i - 1] + a[i]
Joins(f, n, a) == f[0] = << >> /\ \A i \in 1..n : f[i] = f[i - 1] \o a[i]

\* There is a function of the running sums.
LEMMA SumsExist ==
    ASSUME NEW n \in Nat, NEW a \in [1..n -> Nat]
    PROVE  \E f \in [0..n -> Nat] : Sums(f, n, a)
<1> DEFINE G == [i \in 1..n |-> [x \in Nat |-> x + a[i]]]
<1>1. G \in [1..n -> [Nat -> Nat]]
  OBVIOUS
<1> HIDE DEF G
<1>2. PICK f \in [0..n -> Nat] : f[0] = 0 /\ \A i \in 1..n : f[i] = G[i][f[i - 1]]
  <2>1. \E f \in [0..n -> Nat] : Recursion(f, n, 0, G)
    BY <1>1, RecursionExists, 0 \in Nat, Zenon
  <2>. QED
    BY <2>1, Zenon DEF Recursion
<1>3. ASSUME NEW i \in 1..n
      PROVE  f[i] = f[i - 1] + a[i]
  <2>1. G[i] = [x \in Nat |-> x + a[i]] /\ f[i - 1] \in Nat
    BY DEF G
  <2>. QED
    BY <1>2, <2>1
<1>. QED
  BY <1>2, <1>3 DEF Sums

\* There is a function of the joined sequences.
LEMMA JoinsExist ==
    ASSUME NEW n \in Nat, NEW S, NEW a \in [1..n -> Seq(S)]
    PROVE  \E f \in [0..n -> Seq(S)] : Joins(f, n, a)
<1> DEFINE G == [i \in 1..n |-> [x \in Seq(S) |-> x \o a[i]]]
<1>1. G \in [1..n -> [Seq(S) -> Seq(S)]] /\ << >> \in Seq(S)
  OBVIOUS
<1> DEFINE e == << >>
<1> HIDE DEF G, e
<1>2. PICK f \in [0..n -> Seq(S)] : f[0] = e /\ \A i \in 1..n : f[i] = G[i][f[i - 1]]
  <2>1. e \in Seq(S)
    BY <1>1 DEF e
  <2>2. \E f \in [0..n -> Seq(S)] : Recursion(f, n, e, G)
    BY <1>1, <2>1, RecursionExists, Zenon
  <2>. QED
    BY <2>2, Zenon DEF Recursion
<1>3. ASSUME NEW i \in 1..n
      PROVE  f[i] = f[i - 1] \o a[i]
  <2>1. G[i] = [x \in Seq(S) |-> x \o a[i]] /\ f[i - 1] \in Seq(S)
    BY DEF G
  <2>. QED
    BY <1>2, <2>1
<1>. QED
  BY <1>2, <1>3, Zenon DEF Joins, e

\* Whatever satisfies the equations of the sums consists of naturals.
LEMMA SumsType ==
    ASSUME NEW n \in Nat, NEW a \in [1..n -> Nat], NEW f, Sums(f, n, a)
    PROVE  \A i \in 0..n : f[i] \in Nat
<1> DEFINE P == {i \in 0..n : f[i] \in Nat}
<1>1. 0 \in P /\ \A i \in 1..n : i - 1 \in P => i \in P
  BY DEF Sums
<1> HIDE DEF P
<1>2. \A i \in 0..n : i \in P
  BY <1>1, InductionUpto, Zenon
<1>. QED
  BY <1>2 DEF P

\* The sums are determined.
LEMMA SumsUnique ==
    ASSUME NEW n \in Nat, NEW m \in 0..n, NEW a, NEW f, NEW g, Sums(f, n, a), Sums(g, m, a)
    PROVE  \A i \in 0..m : f[i] = g[i]
<1> DEFINE P == {i \in 0..m : f[i] = g[i]}
<1>1. m \in Nat /\ 0 \in P /\ \A i \in 1..m : i - 1 \in P => i \in P
  BY DEF Sums
<1> HIDE DEF P
<1>2. \A i \in 0..m : i \in P
  BY <1>1, InductionUpto, Zenon
<1>. QED
  BY <1>2 DEF P

\* So is the joined sequence.
LEMMA JoinsUnique ==
    ASSUME NEW n \in Nat, NEW m \in 0..n, NEW a, NEW f, NEW g, Joins(f, n, a), Joins(g, m, a)
    PROVE  \A i \in 0..m : f[i] = g[i]
<1> DEFINE P == {i \in 0..m : f[i] = g[i]}
<1>1. f[0] = g[0]
  BY Zenon DEF Joins
<1>2. /\ m \in Nat /\ 0 \in 0..m
      /\ \A i \in 1..m : i \in 1..n /\ i \in 0..m /\ i - 1 \in 0..m
  OBVIOUS
<1>3. 0 \in P /\ \A i \in 1..m : i - 1 \in P => i \in P
  BY <1>1, <1>2, Zenon DEF Joins
<1> HIDE DEF P
<1>4. \A i \in 0..m : i \in P
  BY <1>2, <1>3, InductionUpto, Zenon
<1>. QED
  BY <1>4 DEF P
-----------------------------------------------------------------------------
(* Cutting sequences. *)

\* A part of a sequence.
LEMMA CutFacts ==
    ASSUME NEW S, NEW s \in Seq(S), NEW m \in Nat, NEW n \in Nat, 1 <= m, m <= n + 1, n <= Len(s)
    PROVE  /\ SubSeq(s, m, n) \in Seq(S)
           /\ Len(SubSeq(s, m, n)) = n - m + 1
           /\ \A i \in 1..Len(SubSeq(s, m, n)) : SubSeq(s, m, n)[i] = s[m + i - 1]
OBVIOUS

\* Two sequences one after the other.
LEMMA ConcatIs ==
    ASSUME NEW S, NEW u \in Seq(S), NEW v \in Seq(S)
    PROVE  /\ Len(u \o v) = Len(u) + Len(v)
           /\ \A i \in 1..Len(u) : (u \o v)[i] = u[i]
           /\ \A i \in 1..Len(v) : (u \o v)[Len(u) + i] = v[i]
OBVIOUS

\* A cut in the first of two sequences is not changed by the second.
LEMMA CutFirst ==
    ASSUME NEW S, NEW u \in Seq(S), NEW v \in Seq(S),
           NEW m \in Nat, NEW n \in Nat, 1 <= m, m <= n + 1, n <= Len(u)
    PROVE  SubSeq(u \o v, m, n) = SubSeq(u, m, n)
<1> DEFINE w == u \o v
           a == SubSeq(w, m, n)
           b == SubSeq(u, m, n)
<1>1. w \in Seq(S) /\ Len(w) = Len(u) + Len(v) /\ \A i \in 1..Len(u) : w[i] = u[i]
  OBVIOUS
<1> HIDE DEF w
<1>2. n <= Len(w)
  BY <1>1
<1>3. a \in Seq(S) /\ Len(a) = n - m + 1 /\ \A i \in 1..Len(a) : a[i] = w[m + i - 1]
  BY <1>1, <1>2
<1>4. b \in Seq(S) /\ Len(b) = n - m + 1 /\ \A i \in 1..Len(b) : b[i] = u[m + i - 1]
  OBVIOUS
<1> HIDE DEF a, b
<1>5. Len(a) = Len(b) /\ \A i \in 1..Len(a) : a[i] = b[i]
  <2>1. \A i \in 1..(n - m + 1) : m + i - 1 \in 1..Len(u)
    OBVIOUS
  <2>2. \A i \in 1..(n - m + 1) : w[m + i - 1] = u[m + i - 1]
    BY <1>1, <2>1
  <2>3. Len(a) = n - m + 1 /\ Len(b) = n - m + 1
    BY <1>3, <1>4
  <2>. QED
    BY <1>3, <1>4, <2>2, <2>3
<1>6. a = b
  BY <1>3, <1>4, <1>5, SeqEqual
<1>. QED
  BY <1>6 DEF a, b, w

\* The second of two sequences is cut out behind the first.
LEMMA CutSecond ==
    ASSUME NEW S, NEW u \in Seq(S), NEW v \in Seq(S)
    PROVE  SubSeq(u \o v, Len(u) + 1, Len(u) + Len(v)) = v
<1> DEFINE w == u \o v
           a == SubSeq(w, Len(u) + 1, Len(u) + Len(v))
<1>1. w \in Seq(S) /\ Len(w) = Len(u) + Len(v) /\ \A i \in 1..Len(v) : w[Len(u) + i] = v[i]
  OBVIOUS
<1> HIDE DEF w
<1>3. a \in Seq(S) /\ Len(a) = Len(v) /\ \A i \in 1..Len(a) : a[i] = w[Len(u) + i]
  BY <1>1
<1> HIDE DEF a
<1>4. Len(a) = Len(v) /\ \A i \in 1..Len(a) : a[i] = v[i]
  BY <1>1, <1>3
<1>5. a = v
  BY <1>3, <1>4, SeqEqual
<1>. QED
  BY <1>5 DEF a, w

\* A sequence of numbers that never goes down from one place to the next never
\* goes down.
LEMMA Increasing ==
    ASSUME NEW n \in Nat, NEW f, \A i \in 0..n : f[i] \in Nat, \A i \in 1..n : f[i - 1] <= f[i],
           NEW i \in 0..n, NEW j \in 0..n, i <= j
    PROVE  f[i] <= f[j]
<1> DEFINE P == {k \in 0..n : i <= k => f[i] <= f[k]}
<1>1. 0 \in P
  OBVIOUS
<1>2. ASSUME NEW k \in 1..n, k - 1 \in P
      PROVE  k \in P
  <2>1. CASE i = k
    BY <2>1
  <2>2. CASE i # k /\ i <= k
    <3>1. i <= k - 1 /\ k - 1 \in 0..n /\ k \in 0..n
      BY <2>2
    <3>2. f[i] <= f[k - 1] /\ f[k - 1] <= f[k]
      BY <1>2, <3>1
    <3>3. f[i] \in Nat /\ f[k - 1] \in Nat /\ f[k] \in Nat
      BY <3>1
    <3>4. \A a, b, c \in Nat : a <= b /\ b <= c => a <= c
      OBVIOUS
    <3>. QED
      BY <3>1, <3>2, <3>3, <3>4
  <2>. QED
    BY <2>1, <2>2
<1> HIDE DEF P
<1>3. \A k \in 0..n : k \in P
  <2>1. \A k \in 1..n : k - 1 \in P => k \in P
    BY <1>2
  <2>. QED
    BY <1>1, <2>1, InductionUpto, Zenon
<1>. QED
  BY <1>3 DEF P

\* Division with remainder.
LEMMA Quotient ==
    ASSUME NEW d \in Nat \ {0}, NEW x \in Nat
    PROVE  /\ x \div d \in Nat
           /\ (x \div d) * d \in Nat /\ (x \div d) * d <= x /\ x < (x \div d) * d + d
           /\ ((x \div d) + 1) * d = (x \div d) * d + d
<1>1. x \div d \in Nat
  OBVIOUS
<1>2. x = d * (x \div d) + (x % d) /\ 0 <= x % d /\ x % d < d
  OBVIOUS
<1>. QED
  BY <1>1, <1>2

\* The quotient is the number whose multiple and the next one enclose x.
LEMMA QuotientIs ==
    ASSUME NEW d \in Nat \ {0}, NEW x \in Nat, NEW q \in Nat, q * d <= x, x < q * d + d
    PROVE  x \div d = q
<1> DEFINE p == x \div d
<1>1. p \in Nat /\ p * d \in Nat /\ p * d <= x /\ x < p * d + d
  BY Quotient
<1>2. \A j, k \in Nat : j < k => j * d + d <= k * d
  <2> SUFFICES ASSUME NEW j \in Nat, NEW k \in Nat, j < k
               PROVE  j * d + d <= k * d
    OBVIOUS
  <2>1. k - j - 1 \in Nat
    OBVIOUS
  <2>2. k * d = j * d + d + (k - j - 1) * d
    OBVIOUS
  <2>3. (k - j - 1) * d \in Nat /\ j * d \in Nat
    BY <2>1
  <2>. QED
    BY <2>2, <2>3
<1> HIDE DEF p
<1>3. ~(p < q) /\ ~(q < p)
  <2> DEFINE a == p * d
             b == q * d
  <2>1. a \in Nat /\ b \in Nat /\ a <= x /\ x < a + d /\ b <= x /\ x < b + d
    BY <1>1
  <2>2. (p < q => a + d <= b) /\ (q < p => b + d <= a)
    BY <1>1, <1>2
  <2> HIDE DEF a, b
  <2>. QED
    BY <2>1, <2>2
<1>4. p = q
  BY <1>1, <1>3
<1>. QED
  BY <1>4 DEF p

\* The quotient grows with the number.
LEMMA QuotientGrows ==
    ASSUME NEW d \in Nat \ {0}, NEW x \in Nat, NEW y \in Nat, x <= y
    PROVE  x \div d <= y \div d
<1> DEFINE p == x \div d
           q == y \div d
<1>1. p \in Nat /\ p * d \in Nat /\ p * d <= x /\ q \in Nat /\ q * d \in Nat /\ y < q * d + d
  BY Quotient
<1> HIDE DEF p, q
<1>2. q < p => q * d + d <= p * d
  <2> SUFFICES ASSUME q < p
               PROVE  q * d + d <= p * d
    OBVIOUS
  <2>1. p - q - 1 \in Nat
    BY <1>1
  <2>2. p * d = q * d + d + (p - q - 1) * d
    BY <1>1
  <2>3. (p - q - 1) * d \in Nat
    BY <2>1
  <2>. QED
    BY <1>1, <2>2, <2>3
<1>3. ~(q < p)
  <2> DEFINE a == p * d
             b == q * d
  <2>1. a \in Nat /\ a <= x /\ b \in Nat /\ y < b + d /\ (q < p => b + d <= a)
    BY <1>1, <1>2
  <2> HIDE DEF a, b
  <2>. QED
    BY <2>1
<1>4. p <= q
  BY <1>1, <1>3
<1>. QED
  BY <1>4 DEF p, q
=============================================================================
