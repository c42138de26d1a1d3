---------------------------- MODULE BrainProofs ----------------------------
(***************************************************************************)
(* Proofs about the trainer and the search, for every corpus, every old    *)
(* brain, every input and any number of workers.                           *)
(***************************************************************************)
EXTENDS BrainSearch, FiniteSetTheorems, RecursionTheorems

-----------------------------------------------------------------------------
(* The cache of answers.  Since the last Restrict, or for ever, the slots in
   V have been written; a key in the cache that no written slot holds is an
   orphan, which no eviction reaches. *)

Held(r, V) == {r[i] : i \in V}
Since(e, s) == IF s >= e THEN e..(s - 1) ELSE e..CacheSize \cup 1..(s - 1)

Slots(D, r, s, V) == \/ V = 1..CacheSize
                     \/ D \subseteq Held(r, V) /\ \E e \in 1..CacheSize : V = Since(e, s)

\* t pays for the slots whose key is not in the cache, and for the orphans.
Balanced(D, r, V, t) == /\ Cardinality(V) <= Cardinality(Held(r, V) \cap D) + t
                        /\ Cardinality(D \ Held(r, V)) <= t

CacheInv ==
    /\ IsFiniteSet(DOMAIN cache) /\ DOMAIN ring = 1..CacheSize
    /\ slot \in 1..CacheSize /\ twice \in Nat
    /\ \E V \in SUBSET (1..CacheSize) :
          Slots(DOMAIN cache, ring, slot, V) /\ Balanced(DOMAIN cache, ring, V, twice)

\* The sizes of an interval, of a subset, of a set with one element more or less,
\* and of the two parts of a set.
LEMMA IntervalSize ==
    ASSUME NEW n \in Nat
    PROVE  IsFiniteSet(1..n) /\ Cardinality(1..n) = n
<1>1. IsFiniteSet(1..n) /\ Cardinality(1..n) = IF 1 > n THEN 0 ELSE n - 1 + 1
  BY FS_Interval, 1 \in Int, n \in Int
<1>. QED
  BY <1>1

LEMMA SubsetSize ==
    ASSUME NEW S, IsFiniteSet(S), NEW T, T \subseteq S
    PROVE  /\ IsFiniteSet(T) /\ Cardinality(T) \in Nat /\ Cardinality(S) \in Nat
           /\ Cardinality(T) <= Cardinality(S)
           /\ Cardinality(T) = Cardinality(S) => T = S
BY FS_Subset, FS_CardinalityType

LEMMA AddSize ==
    ASSUME NEW S, NEW x, IsFiniteSet(S)
    PROVE  /\ IsFiniteSet(S \cup {x}) /\ Cardinality(S) \in Nat /\ Cardinality(S \cup {x}) \in Nat
           /\ Cardinality(S) <= Cardinality(S \cup {x})
           /\ Cardinality(S \cup {x}) <= Cardinality(S) + 1
           /\ x \notin S => Cardinality(S \cup {x}) = Cardinality(S) + 1
<1>1. Cardinality(S) \in Nat
  BY FS_CardinalityType
<1>2. /\ IsFiniteSet(S \cup {x})
      /\ Cardinality(S \cup {x}) = IF x \in S THEN Cardinality(S) ELSE Cardinality(S) + 1
  BY FS_AddElement
<1>. QED
  BY <1>1, <1>2

LEMMA DropSize ==
    ASSUME NEW S, NEW x, IsFiniteSet(S)
    PROVE  /\ IsFiniteSet(S \ {x}) /\ Cardinality(S) \in Nat /\ Cardinality(S \ {x}) \in Nat
           /\ Cardinality(S) <= Cardinality(S \ {x}) + 1
           /\ x \in S => Cardinality(S) = Cardinality(S \ {x}) + 1
<1>1. Cardinality(S) \in Nat
  BY FS_CardinalityType
<1>2. /\ IsFiniteSet(S \ {x})
      /\ Cardinality(S \ {x}) = IF x \in S THEN Cardinality(S) - 1 ELSE Cardinality(S)
  BY FS_RemoveElement
<1>3. Cardinality(S \ {x}) \in Nat
  BY <1>2, FS_CardinalityType
<1>. QED
  BY <1>1, <1>2, <1>3

LEMMA SplitSize ==
    ASSUME NEW S, NEW T, IsFiniteSet(S)
    PROVE  /\ IsFiniteSet(T \cap S) /\ IsFiniteSet(S \ T)
           /\ Cardinality(T \cap S) \in Nat /\ Cardinality(S \ T) \in Nat /\ Cardinality(S) \in Nat
           /\ Cardinality(S) = Cardinality(T \cap S) + Cardinality(S \ T)
<1>1. S \cap T = T \cap S
  OBVIOUS
<1>2. IsFiniteSet(T \cap S) /\ IsFiniteSet(S \ T)
  BY FS_Difference, FS_Intersection
<1>3. Cardinality(S \ T) = Cardinality(S) - Cardinality(T \cap S)
  <2>1. Cardinality(S \ T) = Cardinality(S) - Cardinality(S \cap T)
    BY ONLY IsFiniteSet(S), FS_Difference, Zenon
  <2>. QED
    BY ONLY <1>1, <2>1, Zenon
<1>4. Cardinality(T \cap S) \in Nat /\ Cardinality(S \ T) \in Nat /\ Cardinality(S) \in Nat
  BY <1>2, FS_CardinalityType
<1>. QED
  BY <1>2, <1>3, <1>4

\* What a function returns for a finite set is no larger than the set.
LEMMA ImageSize ==
    ASSUME NEW f, NEW S, IsFiniteSet(S)
    PROVE  /\ IsFiniteSet({f[i] : i \in S})
           /\ Cardinality({f[i] : i \in S}) <= Cardinality(S)
           /\ Cardinality(S) \in Nat /\ Cardinality({f[i] : i \in S}) \in Nat
<1> DEFINE T == {f[i] : i \in S}
           g == [i \in S |-> f[i]]
<1>1. g \in Surjection(S, T)
  BY DEF Surjection
<1>2. IsFiniteSet(T) /\ Cardinality(T) <= Cardinality(S)
  BY <1>1, FS_Surjection
<1>. QED
  BY <1>2, FS_CardinalityType

\* The slots written since e, one more, are the slots written since e after it,
\* or all.
LEMMA SinceGrows ==
    ASSUME NEW s \in 1..CacheSize, NEW e \in 1..CacheSize
    PROVE  /\ Since(e, s) \subseteq 1..CacheSize /\ s \notin Since(e, s)
           /\ (s % CacheSize) + 1 \in 1..CacheSize
           /\ \/ Since(e, s) \cup {s} = 1..CacheSize
              \/ Since(e, s) \cup {s} = Since(e, (s % CacheSize) + 1)
<1> DEFINE C == CacheSize
           t == (s % C) + 1
<1>0. C \in Nat \ {0}
  BY SearchAssumption
<1>1. t = IF s = C THEN 1 ELSE s + 1
  <2>1. CASE s = C
    BY <1>0, <2>1
  <2>2. CASE s # C
    <3>1. s \in Nat /\ s < C
      BY <1>0, <2>2
    <3>2. s % C = s
      BY <1>0, <3>1
    <3>. QED
      BY <2>2, <3>2
  <2>. QED
    BY <2>1, <2>2
<1> HIDE DEF t
<1>2. /\ Since(e, s) \subseteq 1..C /\ s \notin Since(e, s) /\ t \in 1..C
      /\ Since(e, s) \cup {s} = 1..C \/ Since(e, s) \cup {s} = Since(e, t)
  BY <1>0, <1>1 DEF Since
<1>. QED
  BY <1>2 DEF t

\* What such a store leads to.
AllHeld(D, c, q, W, u) ==
    /\ Cardinality(D) \in Nat /\ Cardinality(D) < CacheSize
    /\ D \cup {c} \subseteq Held(q, W)
    /\ Balanced(D \cup {c}, q, W, u)

\* A store while the slots written so far hold every key of the cache: no key is
\* given up, and the slots hold every key again.
LEMMA FreshStore ==
    ASSUME NEW D, IsFiniteSet(D), NEW r, DOMAIN r = 1..CacheSize, NEW s \in 1..CacheSize, NEW c,
           NEW V \in SUBSET (1..CacheSize), s \notin V, D \subseteq Held(r, V), NEW t \in Nat,
           Balanced(D, r, V, t), NEW u, u = IF c \in D THEN t + 1 ELSE t,
           NEW q, q = [r EXCEPT ![s] = c]
    PROVE  AllHeld(D, c, q, V \cup {s}, u)
<1> DEFINE C == CacheSize
           H == {r[i] : i \in V}
           G == {q[i] : i \in V \cup {s}}
           W == V \cup {s}
<1>0. C \in Nat \ {0} /\ D \subseteq H /\ Cardinality(V) <= Cardinality(H \cap D) + t
  BY SearchAssumption DEF Held, Balanced
<1>1. IsFiniteSet(1..C) /\ Cardinality(1..C) = C
  BY <1>0, IntervalSize
<1>2. IsFiniteSet(V) /\ Cardinality(V) \in Nat
  BY <1>1, FS_Subset, FS_CardinalityType
<1>3. /\ IsFiniteSet(W) /\ Cardinality(W) = Cardinality(V) + 1 /\ Cardinality(W) <= C
  <2>1. W \subseteq 1..C
    OBVIOUS
  <2>2. s \notin V
    OBVIOUS
  <2> HIDE DEF W
  <2>3. IsFiniteSet(W) /\ Cardinality(W) = Cardinality(V) + 1
    BY ONLY <1>2, <2>2, AddSize DEF W
  <2>4. Cardinality(W) <= C
    BY ONLY <1>1, <2>1, SubsetSize
  <2>. QED
    BY <2>3, <2>4
<1>4. IsFiniteSet(H) /\ Cardinality(H) <= Cardinality(V) /\ Cardinality(H) \in Nat
  BY <1>2, ImageSize
<1>5. Cardinality(D) <= Cardinality(H) /\ Cardinality(D) \in Nat
  <2> HIDE DEF H
  <2>1. D \subseteq H /\ IsFiniteSet(H)
    BY <1>0, <1>4
  <2>. QED
    BY ONLY <2>1, SubsetSize
<1>6. q[s] = c /\ \A i \in V : q[i] = r[i]
  OBVIOUS
<1>7. D \cup {c} \subseteq G
  <2>1. c \in G
    BY <1>6
  <2>2. ASSUME NEW d \in D PROVE d \in G
    <3>1. PICK i \in V : d = r[i]
      BY <1>0
    <3>. QED
      BY <1>6, <3>1
  <2>. QED
    BY <2>1, <2>2
<1>8. H \cap D = D /\ G \cap (D \cup {c}) = D \cup {c} /\ (D \cup {c}) \ G = {}
  BY <1>0, <1>7, Zenon
<1>9. Cardinality(D \cup {c}) = IF c \in D THEN Cardinality(D) ELSE Cardinality(D) + 1
  BY FS_AddElement
<1> HIDE DEF H, G, W
<1>10. Cardinality(D) < C
  BY <1>0, <1>2, <1>3, <1>4, <1>5
<1>11. Cardinality(W) <= Cardinality(D \cup {c}) + u
  <2>1. Cardinality(V) <= Cardinality(D) + t
    BY <1>0, <1>8
  <2>. QED
    BY <1>2, <1>3, <1>5, <1>9, <2>1
<1>12. Cardinality((D \cup {c}) \ G) = 0 /\ 0 <= u
  <2>1. Cardinality({}) = 0
    BY FS_EmptySet
  <2>2. Cardinality((D \cup {c}) \ G) = 0
    BY <1>8, <2>1, Zenon
  <2>3. 0 <= u
    OBVIOUS
  <2>. QED
    BY <2>2, <2>3
<1>. QED
  BY <1>5, <1>7, <1>8, <1>10, <1>11, <1>12 DEF G, W, Held, Balanced, AllHeld

\* A store when every slot has been written: a full cache gives up the key of
\* the slot, one that is not full has fewer orphans than keys were stored twice.
LEMMA MatureStore ==
    ASSUME NEW D, IsFiniteSet(D), NEW r, DOMAIN r = 1..CacheSize, NEW s \in 1..CacheSize, NEW c,
           NEW t \in Nat, Balanced(D, r, 1..CacheSize, t),
           NEW E, E = (IF Cardinality(D) >= CacheSize THEN D \ {r[s]} ELSE D) \cup {c},
           NEW u, u = IF c \in D THEN t + 1 ELSE t,
           NEW q, q = [r EXCEPT ![s] = c]
    PROVE  Balanced(E, q, 1..CacheSize, u)
<1> DEFINE C == CacheSize
           H == {r[i] : i \in 1..C}
           G == {q[i] : i \in 1..C}
           x == r[s]
           B == H \cap D
           O == D \ H
<1>0. C \in Nat \ {0} /\ Cardinality(1..C) = C /\ C <= Cardinality(B) + t /\ Cardinality(O) <= t
  BY SearchAssumption, IntervalSize DEF Held, Balanced
<1>1. q[s] = c /\ \A i \in 1..C : i # s => q[i] = r[i]
  OBVIOUS
<1>2. IsFiniteSet(B) /\ IsFiniteSet(O) /\ Cardinality(B) \in Nat /\ Cardinality(O) \in Nat
      /\ Cardinality(D) = Cardinality(B) + Cardinality(O) /\ Cardinality(D) \in Nat
  BY SplitSize
<1>3. IsFiniteSet(E)
  <2>1. IsFiniteSet(D \ {x})
    BY FS_RemoveElement
  <2>. QED
    BY <2>1, FS_AddElement
<1>4. \A h \in H : h = x \/ h \in G
  <2> SUFFICES ASSUME NEW i \in 1..C PROVE r[i] = x \/ r[i] \in G
    OBVIOUS
  <2>1. i = s \/ q[i] = r[i]
    BY <1>1
  <2>. QED
    BY <2>1
<1>5. c \in G
  BY <1>1
<1> DEFINE K == (B \ {x}) \cup {c}
<1>6. K \subseteq G \cap E
  <2>1. \A b \in B \ {x} : b \in G /\ b \in D
    BY <1>4
  <2>2. \A b \in B \ {x} : b \in E
    BY <2>1
  <2>. QED
    BY <1>5, <2>1, <2>2
<1>7. IsFiniteSet(G \cap E) /\ Cardinality(G \cap E) \in Nat
  BY <1>3, FS_Intersection, FS_CardinalityType
<1>8. /\ IsFiniteSet(B \ {x}) /\ Cardinality(B \ {x}) \in Nat
      /\ Cardinality(B) <= Cardinality(B \ {x}) + 1
  BY <1>2, DropSize
<1>9. /\ Cardinality(K) \in Nat /\ Cardinality(B \ {x}) <= Cardinality(K)
      /\ c \notin B \ {x} => Cardinality(K) = Cardinality(B \ {x}) + 1
  BY <1>8, AddSize
<1>10. Cardinality(K) <= Cardinality(G \cap E)
  BY <1>6, <1>7, FS_Subset
<1>11. c \notin D => c \notin B
  OBVIOUS
<1>12. Cardinality(B) <= Cardinality(K) + (u - t) /\ Cardinality(K) \in Nat /\ u \in Nat /\ t <= u
  <2> DEFINE cb == Cardinality(B)
             cd == Cardinality(B \ {x})
             ck == Cardinality(K)
  <2>0. cb \in Nat /\ cd \in Nat /\ ck \in Nat /\ cb <= cd + 1 /\ cd <= ck /\ (c \notin D => ck = cd + 1)
    BY <1>2, <1>8, <1>9, <1>11
  <2> HIDE DEF cb, cd, ck
  <2>1. cb <= ck + (u - t) /\ u \in Nat /\ t <= u
    BY <2>0
  <2>. QED
    BY <2>0, <2>1 DEF cb, ck
<1>13. C <= Cardinality(B) + t /\ Cardinality(O) <= t /\ C \in Nat
  BY <1>0
<1>14. Cardinality(E \ G) <= u
  <2>1. CASE Cardinality(D) >= C
    <3>1. E \ G \subseteq O
      <4> SUFFICES ASSUME NEW d \in E, d \notin G PROVE d \in O
        OBVIOUS
      <4>1. d \in D /\ d # x
        BY <1>5, <2>1
      <4>. QED
        BY <1>4, <4>1
    <3>2. Cardinality(E \ G) <= Cardinality(O) /\ Cardinality(E \ G) \in Nat
      BY <1>2, <3>1, FS_Subset, FS_CardinalityType
    <3> HIDE DEF G, O, B, K
    <3>. QED
      BY <1>2, <1>12, <1>13, <3>2
  <2>2. CASE ~(Cardinality(D) >= C)
    <3>1. E \ G \subseteq O \cup {x}
      <4> SUFFICES ASSUME NEW d \in E, d \notin G PROVE d \in O \/ d = x
        OBVIOUS
      <4>1. d \in D
        BY <1>5, <2>2
      <4>. QED
        BY <1>4, <4>1
    <3>2. /\ IsFiniteSet(O \cup {x}) /\ Cardinality(O \cup {x}) \in Nat
          /\ Cardinality(O \cup {x}) <= Cardinality(O) + 1
      BY <1>2, AddSize
    <3>3. Cardinality(E \ G) <= Cardinality(O \cup {x}) /\ Cardinality(E \ G) \in Nat
      BY <3>1, <3>2, FS_Subset, FS_CardinalityType
    <3> HIDE DEF G, O, B, K
    <3>. QED
      BY <1>2, <1>12, <1>13, <2>2, <3>2, <3>3
  <2>. QED
    BY <2>1, <2>2
<1> HIDE DEF G, O, B, K
<1>15. C <= Cardinality(G \cap E) + u
  <2> DEFINE cb == Cardinality(B)
             ck == Cardinality(K)
             cg == Cardinality(G \cap E)
  <2>1. /\ cb \in Nat /\ ck \in Nat /\ cg \in Nat /\ u \in Nat /\ C \in Nat
        /\ cb <= ck + (u - t) /\ ck <= cg /\ C <= cb + t
    BY <1>2, <1>7, <1>10, <1>12, <1>13
  <2> HIDE DEF cb, ck, cg, C
  <2>2. C <= cg + u
    BY ONLY <2>1, t \in Nat
  <2>. QED
    BY <2>2 DEF cg
<1>. QED
  BY <1>0, <1>14, <1>15 DEF G, Held, Balanced

\* cacheStore keeps the invariant.
LEMMA CacheStoreKeeps ==
    ASSUME CacheInv, NEW c, NEW a, CacheStore(c, a)
    PROVE  CacheInv'
<1> DEFINE D == DOMAIN cache
           E == (IF Cardinality(D) >= CacheSize THEN D \ {ring[slot]} ELSE D) \cup {c}
<1>1. /\ IsFiniteSet(D) /\ DOMAIN ring = 1..CacheSize /\ slot \in 1..CacheSize /\ twice \in Nat
  BY DEF CacheInv
<1>2. PICK V \in SUBSET (1..CacheSize) : Slots(D, ring, slot, V) /\ Balanced(D, ring, V, twice)
  BY DEF CacheInv
<1>3. /\ DOMAIN cache' = E /\ ring' = [ring EXCEPT ![slot] = c] /\ slot' = (slot % CacheSize) + 1
      /\ twice' = IF c \in D THEN twice + 1 ELSE twice
  BY DEF CacheStore
<1>4. IsFiniteSet(E) /\ DOMAIN ring' = 1..CacheSize /\ twice' \in Nat
  <2>1. IsFiniteSet(IF Cardinality(D) >= CacheSize THEN D \ {ring[slot]} ELSE D)
    BY <1>1, FS_RemoveElement
  <2>. QED
    BY <1>1, <1>3, <2>1, FS_AddElement
<1>5. slot' \in 1..CacheSize
  BY <1>1, <1>3, SearchAssumption
<1>6. CASE V = 1..CacheSize
  <2>1. Balanced(D, ring, 1..CacheSize, twice)
    BY <1>2, <1>6
  <2>2. E = (IF Cardinality(D) >= CacheSize THEN D \ {ring[slot]} ELSE D) \cup {c}
    OBVIOUS
  <2> HIDE DEF E, D
  <2>3. Balanced(E, ring', 1..CacheSize, twice')
    BY ONLY <1>1, <1>3, <2>1, <2>2, MatureStore, Zenon
  <2>4. Slots(E, ring', slot', 1..CacheSize)
    BY DEF Slots
  <2>. QED
    BY <1>3, <1>4, <1>5, <2>3, <2>4 DEF CacheInv
<1>7. CASE V # 1..CacheSize
  <2>1. PICK e \in 1..CacheSize : V = Since(e, slot)
    BY <1>2, <1>7 DEF Slots
  <2>2. D \subseteq Held(ring, V)
    BY <1>2, <1>7 DEF Slots
  <2> DEFINE W == V \cup {slot}
  <2>3. slot \notin V /\ (W = 1..CacheSize \/ W = Since(e, slot'))
    BY <1>1, <1>3, <2>1, SinceGrows
  <2>4. /\ Cardinality(D) \in Nat /\ Cardinality(D) < CacheSize
        /\ D \cup {c} \subseteq Held(ring', W)
        /\ Balanced(D \cup {c}, ring', W, twice')
    <3>1. V \in SUBSET (1..CacheSize)
      OBVIOUS
    <3>2. slot \notin V /\ Balanced(D, ring, V, twice)
      BY <1>2, <2>3
    <3>3. ring' = [ring EXCEPT ![slot] = c] /\ twice' = IF c \in D THEN twice + 1 ELSE twice
      BY <1>3
    <3> HIDE DEF D, E
    <3>4. AllHeld(D, c, ring', V \cup {slot}, twice')
      BY ONLY <1>1, <2>2, <3>1, <3>2, <3>3, FreshStore, Zenon
    <3>. QED
      BY <3>4 DEF AllHeld
  <2>5. E = D \cup {c}
    BY <2>4, SearchAssumption
  <2>6. W \in SUBSET (1..CacheSize)
    BY <1>1
  <2> HIDE DEF W, E, D
  <2>7. Slots(E, ring', slot', W) /\ Balanced(E, ring', W, twice')
    BY <2>3, <2>4, <2>5 DEF Slots
  <2>. QED
    BY <1>3, <1>4, <1>5, <2>6, <2>7 DEF CacheInv
<1>. QED
  BY <1>6, <1>7

\* An empty cache owes nothing: the slots count from the one written next.
LEMMA EmptyCache ==
    ASSUME NEW r, NEW s \in 1..CacheSize, NEW t \in Nat
    PROVE  \E V \in SUBSET (1..CacheSize) : Slots({}, r, s, V) /\ Balanced({}, r, V, t)
<1>1. Since(s, s) = {}
  BY SearchAssumption DEF Since
<1>2. Slots({}, r, s, {})
  BY <1>1 DEF Slots
<1>3. Cardinality({}) = 0 /\ Held(r, {}) \cap {} = {} /\ {} \ Held(r, {}) = {}
  BY FS_EmptySet
<1>4. Balanced({}, r, {}, t)
  BY <1>3 DEF Balanced
<1>. QED
  BY <1>2, <1>4

\* Restrict empties the cache and leaves its ring.
LEMMA RestrictKeeps ==
    ASSUME CacheInv, cache' = << >>, UNCHANGED <<ring, slot, twice>>
    PROVE  CacheInv'
<1>1. DOMAIN cache' = {} /\ IsFiniteSet({})
  BY FS_EmptySet
<1>2. slot \in 1..CacheSize /\ twice \in Nat /\ DOMAIN ring = 1..CacheSize
  BY DEF CacheInv
<1>3. \E V \in SUBSET (1..CacheSize) : Slots({}, ring, slot, V) /\ Balanced({}, ring, V, twice)
  BY <1>2, EmptyCache
<1>. QED
  BY <1>1, <1>2, <1>3 DEF CacheInv

\* What does not touch the cache keeps its invariant.
LEMMA CacheUntouched ==
    ASSUME CacheInv, UNCHANGED <<cache, ring, slot, twice>>
    PROVE  CacheInv'
BY DEF CacheInv

LEMMA StoredKeeps ==
    ASSUME CacheInv, NEW c, NEW a, Stored(c, a)
    PROVE  CacheInv'
<1>1. CASE CacheStore(c, a)
  BY <1>1, CacheStoreKeeps
<1>2. CASE UNCHANGED <<cache, ring, slot, twice>>
  BY <1>2, CacheUntouched
<1>. QED
  BY <1>1, <1>2 DEF Stored

\* Every step keeps it.
LEMMA CacheStep ==
    ASSUME CacheInv, [Next]_vars
    PROVE  CacheInv'
<1>1. CASE Train
  BY <1>1, CacheUntouched DEF Train
<1>2. CASE OpenBrain
  BY <1>2, CacheUntouched DEF OpenBrain
<1>3. CASE FirstPass
  <2>1. \/ UNCHANGED <<cache, ring, slot, twice>>
        \/ \E c, a : Stored(c, a)
    BY <1>3 DEF FirstPass, Bus
  <2>. QED
    BY <2>1, CacheUntouched, StoredKeeps
<1>4. CASE EndFirstPass
  BY <1>4, RestrictKeeps DEF EndFirstPass, RestrictTo
<1>5. ASSUME NEW w \in Workers, Find(w)
      PROVE  CacheInv'
  BY <1>5, CacheUntouched DEF Find
<1>6. ASSUME NEW w \in Workers, Store(w)
      PROVE  CacheInv'
  BY <1>6, StoredKeeps DEF Store
<1>7. CASE UNCHANGED vars
  BY <1>7, CacheUntouched DEF vars, searchVars
<1>. QED
  BY <1>1, <1>2, <1>3, <1>4, <1>5, <1>6, <1>7 DEF Next, Search

LEMMA CacheStart ==
    ASSUME Init
    PROVE  CacheInv
<1>1. /\ DOMAIN cache = {} /\ DOMAIN ring = 1..CacheSize /\ slot = 1 /\ twice = 0
  BY DEF Init, SearchInit
<1>2. IsFiniteSet({}) /\ 1 \in 1..CacheSize /\ 0 \in Nat
  BY FS_EmptySet, SearchAssumption
<1>3. \E V \in SUBSET (1..CacheSize) : Slots({}, ring, slot, V) /\ Balanced({}, ring, V, twice)
  BY <1>1, <1>2, EmptyCache
<1>. QED
  BY <1>1, <1>2, <1>3 DEF CacheInv

\* The keys of the cache are those its slots hold, at most one for each, and the
\* orphans.
LEMMA CacheBound ==
    ASSUME CacheInv
    PROVE  CacheNearLimit
<1> DEFINE D == DOMAIN cache
<1>0. CacheSize \in Nat /\ IsFiniteSet(D) /\ twice \in Nat
  BY SearchAssumption DEF CacheInv
<1>1. PICK V \in SUBSET (1..CacheSize) : Balanced(D, ring, V, twice)
  BY DEF CacheInv
<1> DEFINE H == Held(ring, V)
<1>2. IsFiniteSet(1..CacheSize) /\ Cardinality(1..CacheSize) = CacheSize /\ V \subseteq 1..CacheSize
  BY <1>0, IntervalSize
<1>3. IsFiniteSet(V) /\ Cardinality(V) <= CacheSize /\ Cardinality(V) \in Nat
  BY <1>2, SubsetSize
<1>4. IsFiniteSet(H) /\ Cardinality(H) <= Cardinality(V)
  BY <1>3, ImageSize DEF Held
<1>5. /\ Cardinality(D) = Cardinality(H \cap D) + Cardinality(D \ H)
      /\ Cardinality(H \cap D) \in Nat /\ Cardinality(D \ H) \in Nat
  BY <1>0, SplitSize
<1>6. Cardinality(H \cap D) <= Cardinality(H) /\ Cardinality(H) \in Nat
  BY <1>4, SubsetSize
<1>7. Cardinality(D \ H) <= twice
  BY <1>1 DEF Balanced
<1> HIDE DEF D, H
<1>8. Cardinality(D) <= CacheSize + twice
  BY <1>0, <1>3, <1>4, <1>5, <1>6, <1>7
<1>. QED
  BY <1>8 DEF CacheNearLimit, D

\* The cache of the LSHSearcher stays within its limit but for one entry for each
\* store of a key that another worker had stored since the miss.
THEOREM CacheTheorem == Spec => []CacheNearLimit
<1>1. Init => CacheInv
  BY CacheStart
<1>2. CacheInv /\ [Next]_vars => CacheInv'
  BY CacheStep
<1>3. CacheInv => CacheNearLimit
  BY CacheBound
<1>. QED
  BY <1>1, <1>2, <1>3, PTL DEF Spec

-----------------------------------------------------------------------------
(* Sorting and filtering: the element at place k is the one with k - 1 before it. *)

\* B gives, for every element of D, those before it in a total order.
Ranking(D, B) ==
    /\ B \in [D -> SUBSET D]
    /\ \A i \in D : i \notin B[i]
    /\ \A i, j \in D : i # j => i \in B[j] \/ j \in B[i]
    /\ \A i, j \in D : i \in B[j] => B[i] \subseteq B[j]

\* at lists D in that order.
Listing(D, B, at) ==
    /\ at \in [1..Cardinality(D) -> D]
    /\ \A k \in 1..Cardinality(D) : \A i \in D : Cardinality(B[i]) = k - 1 <=> i = at[k]
    /\ \A i \in D : \E k \in 1..Cardinality(D) : at[k] = i
    /\ \A k, l \in 1..Cardinality(D) : k < l => at[k] \in B[at[l]]

LEMMA ListingExists ==
    ASSUME NEW D, IsFiniteSet(D), NEW B, Ranking(D, B)
    PROVE  \E at : Listing(D, B, at)
<1> DEFINE n == Cardinality(D)
           place == [i \in D |-> Cardinality(B[i]) + 1]
           at == [k \in 1..n |-> CHOOSE i \in D : place[i] = k]
<1>1. n \in Nat
  BY FS_CardinalityType
<1>2. \A i \in D : B[i] \subseteq D /\ IsFiniteSet(B[i]) /\ Cardinality(B[i]) \in Nat
  BY FS_Subset, FS_CardinalityType DEF Ranking
<1>3. ASSUME NEW i \in D, NEW j \in D, i \in B[j]
      PROVE  Cardinality(B[i]) < Cardinality(B[j])
  <2>1. B[i] \cup {i} \subseteq B[j] /\ i \notin B[i]
    BY <1>3 DEF Ranking
  <2>2. Cardinality(B[i] \cup {i}) = Cardinality(B[i]) + 1
    BY <1>2, <2>1, AddSize
  <2>3. Cardinality(B[i] \cup {i}) <= Cardinality(B[j])
    BY <1>2, <2>1, SubsetSize
  <2>. QED
    BY <1>2, <2>2, <2>3
<1>4. ASSUME NEW i \in D
      PROVE  place[i] \in 1..n
  <2>1. B[i] \cup {i} \subseteq D /\ i \notin B[i]
    BY <1>2 DEF Ranking
  <2>2. Cardinality(B[i] \cup {i}) = Cardinality(B[i]) + 1
    BY <1>2, <2>1, AddSize
  <2>3. Cardinality(B[i] \cup {i}) <= n
    BY <2>1, SubsetSize
  <2>. QED
    BY <1>1, <1>2, <2>2, <2>3
<1>5. \A i, j \in D : place[i] = place[j] => i = j
  <2> SUFFICES ASSUME NEW i \in D, NEW j \in D, i # j, place[i] = place[j]
               PROVE  FALSE
    OBVIOUS
  <2>1. Cardinality(B[i]) = Cardinality(B[j])
    BY <1>2
  <2>2. i \in B[j] \/ j \in B[i]
    BY DEF Ranking
  <2>. QED
    BY <1>2, <1>3, <2>1, <2>2
<1>6. place \in Injection(D, 1..n)
  BY <1>4, <1>5 DEF Injection, IsInjective
<1>7. place \in Surjection(D, 1..n)
  <2>1. IsFiniteSet(1..n) /\ Cardinality(1..n) = Cardinality(D)
    BY <1>1, IntervalSize
  <2>. QED
    BY <1>6, <2>1, FS_Injection
<1>8. \A k \in 1..n : \E i \in D : place[i] = k
  BY <1>7 DEF Surjection
<1>9. \A k \in 1..n : at[k] \in D /\ place[at[k]] = k
  BY <1>8
<1>10. \A k \in 1..n : \A i \in D : place[i] = k <=> i = at[k]
  <2> SUFFICES ASSUME NEW k \in 1..n, NEW i \in D
               PROVE  place[i] = k <=> i = at[k]
    OBVIOUS
  <2>1. at[k] \in D /\ place[at[k]] = k
    BY <1>9
  <2> HIDE DEF at, place
  <2>. QED
    BY <1>5, <2>1
<1>11. \A i \in D : at[place[i]] = i
  BY <1>4, <1>10
<1>12. at \in [1..n -> D]
  BY <1>9
<1>13. ASSUME NEW k \in 1..n, NEW l \in 1..n, k < l
       PROVE  at[k] \in B[at[l]]
  <2> HIDE DEF at
  <2>1. at[k] \in D /\ at[l] \in D /\ Cardinality(B[at[k]]) + 1 = k /\ Cardinality(B[at[l]]) + 1 = l
    BY <1>9
  <2>2. at[k] \in B[at[l]] \/ at[l] \in B[at[k]]
    <3>1. at[k] # at[l]
      BY <1>13, <2>1
    <3>. QED
      BY <2>1, <3>1 DEF Ranking
  <2>3. at[l] \notin B[at[k]]
    <3> SUFFICES ASSUME at[l] \in B[at[k]] PROVE FALSE
      OBVIOUS
    <3>1. Cardinality(B[at[l]]) < Cardinality(B[at[k]])
      BY <1>3, <2>1
    <3>. QED
      BY <1>1, <1>2, <1>13, <2>1, <3>1
  <2>. QED
    BY <2>2, <2>3
<1>14. \A k \in 1..n : \A i \in D : Cardinality(B[i]) = k - 1 <=> i = at[k]
  <2> SUFFICES ASSUME NEW k \in 1..n, NEW i \in D
               PROVE  Cardinality(B[i]) = k - 1 <=> i = at[k]
    OBVIOUS
  <2>1. place[i] = k <=> i = at[k]
    BY <1>10
  <2>2. place[i] = Cardinality(B[i]) + 1 /\ Cardinality(B[i]) \in Nat
    BY <1>2
  <2> HIDE DEF at, place
  <2>. QED
    BY <2>1, <2>2
<1>15. \A i \in D : \E k \in 1..n : at[k] = i
  BY <1>4, <1>11
<1> HIDE DEF at
<1>16. Listing(D, B, at)
  BY <1>12, <1>13, <1>14, <1>15 DEF Listing
<1>. QED
  BY <1>16

\* The places of Only, in increasing order.
OnlyAt(S, at) ==
    /\ at \in [1..Cardinality(S) -> S]
    /\ \A i \in S : \E k \in 1..Cardinality(S) : at[k] = i
    /\ \A k, l \in 1..Cardinality(S) : k < l => at[k] < at[l]

InOrder(s, S) ==
    \E at : OnlyAt(S, at) /\ Only(s, S) = [k \in 1..Cardinality(S) |-> s[at[k]]]

LEMMA OnlyIs ==
    ASSUME NEW n \in Nat, NEW S \in SUBSET (1..n), NEW s
    PROVE  /\ IsFiniteSet(S) /\ Cardinality(S) \in Nat /\ Cardinality(S) <= n
           /\ InOrder(s, S)
<1> DEFINE B == [i \in S |-> {j \in S : j < i}]
<1>1. IsFiniteSet(S) /\ Cardinality(S) \in Nat /\ Cardinality(S) <= n
  <2>1. IsFiniteSet(1..n) /\ Cardinality(1..n) = n
    BY IntervalSize
  <2>. QED
    BY <2>1, SubsetSize
<1>2. Ranking(S, B)
  <2>0. \A i \in S : i \in Int
    OBVIOUS
  <2>1. B \in [S -> SUBSET S] /\ \A i \in S : B[i] = {j \in S : j < i}
    OBVIOUS
  <2> HIDE DEF B
  <2>2. \A i, j \in S : i # j => i \in B[j] \/ j \in B[i]
    BY <2>0, <2>1
  <2>3. \A i, j \in S : i \in B[j] => B[i] \subseteq B[j]
    <3> SUFFICES ASSUME NEW i \in S, NEW j \in S, i \in B[j], NEW h \in B[i]
                 PROVE  h \in B[j]
      OBVIOUS
    <3>1. i < j /\ h < i /\ h \in S
      BY <2>1
    <3>2. h < j
      BY <2>0, <3>1
    <3>. QED
      BY <2>1, <3>1, <3>2
  <2>4. \A i \in S : i \notin B[i]
    BY <2>0, <2>1
  <2>. QED
    BY <2>1, <2>2, <2>3, <2>4 DEF Ranking
<1>3. PICK at : Listing(S, B, at)
  BY <1>1, <1>2, ListingExists
<1> DEFINE nth(k) == CHOOSE i \in S : Cardinality({j \in S : j < i}) = k - 1
<1>4. \A k \in 1..Cardinality(S) : nth(k) = at[k]
  <2> SUFFICES ASSUME NEW k \in 1..Cardinality(S)
               PROVE  nth(k) = at[k]
    OBVIOUS
  <2>1. at[k] \in S
    BY <1>3 DEF Listing
  <2>2. \A i \in S : Cardinality({j \in S : j < i}) = k - 1 <=> i = at[k]
    BY <1>3 DEF Listing
  <2>. QED
    BY <2>1, <2>2
<1>5. Only(s, S) = [k \in 1..Cardinality(S) |-> s[at[k]]]
  <2>1. Only(s, S) = [k \in 1..Cardinality(S) |-> s[nth(k)]]
    BY DEF Only
  <2> HIDE DEF nth
  <2>. QED
    BY <1>4, <2>1
<1>6. OnlyAt(S, at)
  <2>1. \A k, l \in 1..Cardinality(S) : k < l => at[k] < at[l]
    BY <1>3 DEF Listing
  <2>. QED
    BY <1>3, <2>1 DEF Listing, OnlyAt
<1>. QED
  BY <1>1, <1>5, <1>6 DEF InOrder

\* The order of StableBy: every place once, by increasing key, then as before.
SortedAt(n, key, at) ==
    /\ at \in [1..n -> 1..n]
    /\ \A i \in 1..n : \E k \in 1..n : at[k] = i
    /\ \A k, l \in 1..n : k < l => at[k] # at[l] /\ key[at[k]] <= key[at[l]]
    /\ \A k, l \in 1..n : k < l => key[at[k]] < key[at[l]] \/ at[k] < at[l]

LEMMA StableByIs ==
    ASSUME NEW n \in Nat, NEW s, DOMAIN s = 1..n, NEW key, \A i \in 1..n : key[i] \in Int
    PROVE  \E at : SortedAt(n, key, at) /\ StableBy(s, key) = [k \in 1..n |-> s[at[k]]]
<1> DEFINE D == DOMAIN s
           prior(i) == {j \in D : key[j] < key[i] \/ (key[j] = key[i] /\ j < i)}
           B == [i \in D |-> prior(i)]
<1>0. D = 1..n
  OBVIOUS
<1>1. IsFiniteSet(D) /\ Cardinality(D) = n
  BY <1>0, IntervalSize
<1>2. Ranking(D, B)
  <2>1. B \in [D -> SUBSET D]
    OBVIOUS
  <2>2. \A i \in D : i \notin B[i]
    OBVIOUS
  <2>3. \A i, j \in D : i # j => i \in B[j] \/ j \in B[i]
    OBVIOUS
  <2>4. \A i, j \in D : i \in B[j] => B[i] \subseteq B[j]
    <3> SUFFICES ASSUME NEW i \in D, NEW j \in D, i \in prior(j), NEW h \in prior(i)
                 PROVE  h \in prior(j)
      OBVIOUS
    <3>. QED
      OBVIOUS
  <2>. QED
    BY <2>1, <2>2, <2>3, <2>4 DEF Ranking
<1>3. PICK at : Listing(D, B, at)
  BY <1>1, <1>2, ListingExists
<1> DEFINE nth(k) == CHOOSE i \in D : Cardinality(prior(i)) = k - 1
<1>4. \A k \in D : nth(k) = at[k]
  <2> SUFFICES ASSUME NEW k \in D
               PROVE  nth(k) = at[k]
    OBVIOUS
  <2>1. at[k] \in D
    BY <1>1, <1>3 DEF Listing
  <2>2. \A i \in D : Cardinality(B[i]) = k - 1 <=> i = at[k]
    BY <1>1, <1>3 DEF Listing
  <2>3. \A i \in D : B[i] = prior(i)
    OBVIOUS
  <2>4. \A i \in D : Cardinality(prior(i)) = k - 1 <=> i = at[k]
    BY <2>2, <2>3
  <2> HIDE DEF prior, B
  <2>. QED
    BY <2>1, <2>4
<1>5. StableBy(s, key) = [k \in 1..n |-> s[at[k]]]
  <2>1. StableBy(s, key) = [k \in D |-> s[nth(k)]]
    BY DEF StableBy
  <2> HIDE DEF nth
  <2>. QED
    BY <1>0, <1>4, <2>1
<1>6. SortedAt(n, key, at)
  <2>1. at \in [1..n -> 1..n] /\ \A i \in 1..n : \E k \in 1..n : at[k] = i
    BY <1>1, <1>3 DEF Listing
  <2>2. ASSUME NEW k \in 1..n, NEW l \in 1..n, k < l
        PROVE  /\ at[k] # at[l] /\ key[at[k]] <= key[at[l]]
               /\ key[at[k]] < key[at[l]] \/ at[k] < at[l]
    <3>1. at[k] \in B[at[l]] /\ at[k] \in D /\ at[l] \in D
      BY <1>1, <1>3, <2>2 DEF Listing
    <3>2. key[at[k]] < key[at[l]] \/ (key[at[k]] = key[at[l]] /\ at[k] < at[l])
      BY <3>1
    <3>3. key[at[k]] \in Int /\ key[at[l]] \in Int /\ at[k] \in Int /\ at[l] \in Int
      BY <3>1
    <3>. QED
      BY <3>2, <3>3
  <2>. QED
    BY <2>1, <2>2 DEF SortedAt
<1>. QED
  BY <1>5, <1>6

-----------------------------------------------------------------------------
(* Patterns written one after the other. *)

Words == Seq(Nat)

LEMMA JoinedIs ==
    ASSUME NEW ps \in Seq(Words)
    PROVE  \E f \in [0..Len(ps) -> Words] : Joins(f, Len(ps), ps) /\ Joined(ps) = f[Len(ps)]
<1> DEFINE n == Len(ps)
           g == CHOOSE g : g = [i \in 0..n |-> IF i = 0 THEN << >> ELSE g[i - 1] \o ps[i]]
<1>1. n \in Nat /\ ps \in [1..n -> Seq(Nat)]
  BY DEF Words
<1>2. PICK f \in [0..n -> Seq(Nat)] : Joins(f, n, ps)
  <2> HIDE DEF n
  <2>. QED
    BY <1>1, JoinsExist
<1>3. f[0] = << >> /\ \A i \in 1..n : f[i] = f[i - 1] \o ps[i]
  BY <1>2, Zenon DEF Joins
<1>4. f = [i \in 0..n |-> IF i = 0 THEN << >> ELSE f[i - 1] \o ps[i]]
  <2>1. \A i \in 0..n : i # 0 => i \in 1..n
    BY <1>1
  <2>2. \A i \in 0..n : f[i] = IF i = 0 THEN << >> ELSE f[i - 1] \o ps[i]
    BY <1>3, <2>1, Zenon
  <2>3. f = [i \in 0..n |-> f[i]]
    OBVIOUS
  <2>. QED
    BY <2>2, <2>3, Zenon
<1>5. g = [i \in 0..n |-> IF i = 0 THEN << >> ELSE g[i - 1] \o ps[i]]
  BY <1>4, Zenon
<1>6. Joined(ps) = g[n]
  BY DEF Joined
<1> HIDE DEF g, n
<1>7. Joins(g, n, ps)
  <2>1. 0 \in 0..n /\ \A i \in 1..n : i \in 0..n /\ i # 0
    BY <1>1
  <2>2. g[0] = << >> /\ \A i \in 1..n : g[i] = g[i - 1] \o ps[i]
    BY <1>5, <2>1, Zenon
  <2>. QED
    BY <2>2, Zenon DEF Joins
<1>8. f[n] = g[n]
  <2>1. n \in 0..n
    BY <1>1
  <2>. QED
    BY <1>1, <1>2, <1>7, <2>1, JoinsUnique
<1>. QED
  BY <1>2, <1>6, <1>8 DEF n, Words

\* Joining one more pattern appends it.
LEMMA JoinedNext ==
    ASSUME NEW ps \in Seq(Words), NEW w \in Words
    PROVE  Joined(ps) \in Words /\ Joined(Append(ps, w)) = Joined(ps) \o w
<1> DEFINE n == Len(ps)
           qs == Append(ps, w)
<1>1. n \in Nat /\ qs \in Seq(Words) /\ Len(qs) = n + 1 /\ qs[n + 1] = w /\ \A i \in 1..n : qs[i] = ps[i]
  OBVIOUS
<1>2. PICK f \in [0..n -> Words] : Joins(f, n, ps) /\ Joined(ps) = f[n]
  BY JoinedIs
<1> HIDE DEF n, qs
<1>3. PICK g \in [0..(n + 1) -> Words] : Joins(g, n + 1, qs) /\ Joined(qs) = g[n + 1]
  BY <1>1, JoinedIs
<1>4. Joins(g, n, ps)
  <2>1. \A i \in 1..n : i \in 1..(n + 1)
    BY <1>1
  <2>2. g[0] = << >> /\ \A i \in 1..(n + 1) : g[i] = g[i - 1] \o qs[i]
    BY <1>3, Zenon DEF Joins
  <2>3. \A i \in 1..n : g[i] = g[i - 1] \o ps[i]
    BY <1>1, <2>1, <2>2, Zenon
  <2>. QED
    BY <2>2, <2>3, Zenon DEF Joins
<1>5. f[n] = g[n]
  <2>1. n \in 0..n
    BY <1>1
  <2>. QED
    BY <1>1, <1>2, <1>4, <2>1, JoinsUnique
<1>6. g[n + 1] = g[n] \o w
  <2>1. n + 1 \in 1..(n + 1) /\ n + 1 - 1 = n
    BY <1>1
  <2>2. \A i \in 1..(n + 1) : g[i] = g[i - 1] \o qs[i]
    BY <1>3, Zenon DEF Joins
  <2>3. g[n + 1] = g[(n + 1) - 1] \o qs[n + 1]
    <3>1. n + 1 \in 1..(n + 1)
      BY <2>1
    <3>. QED
      BY ONLY <2>2, <3>1, Zenon
  <2>4. (n + 1) - 1 = n /\ qs[n + 1] = w
    BY <1>1
  <2>. QED
    BY ONLY <2>3, <2>4, Zenon
<1>7. f[n] \in Words
  BY <1>1, <1>2
<1>. QED
  BY <1>2, <1>3, <1>5, <1>6, <1>7 DEF qs

LEMMA JoinedNone == Joined(<< >>) = << >>
<1>1. << >> \in Seq(Words) /\ Len(<< >>) = 0
  OBVIOUS
<1>2. PICK f \in [0..0 -> Words] : Joins(f, 0, << >>) /\ Joined(<< >>) = f[0]
  BY <1>1, JoinedIs
<1>. QED
  BY <1>2, Zenon DEF Joins

-----------------------------------------------------------------------------
(* The shape of the trainer's state. *)

Patterns == {p \in Words : Len(p) = ChunkSize}
Tables == UNION {[D -> Entries] : D \in SUBSET Patterns}
Files == {Gone} \cup Words
WorkerStates == [file : Nat, data : Words, pos : Nat, todo : Seq([at : Nat, data : Patterns]),
                 eof : BOOLEAN]
BrainFiles == [header : BOOLEAN, size : Nat, count : Nat, cells : Words, there : BOOLEAN]

WorkerShape ==
    /\ worker \in [Workers -> WorkerStates]
    /\ \A w \in Workers : worker[w].pos <= Len(worker[w].data)

CorpusShape ==
    /\ corpus \in Seq(Files) /\ next \in 1..(Len(corpus) + 1)
    /\ phase \in {"count", "augment", "merge", "pick", "reread", "create", "header", "write",
                  "done", "failed"}

TableShape ==
    /\ table \in Tables /\ left \subseteq DOMAIN table
    /\ phase \notin {"augment", "pick"} => left = {}

ChoiceShape ==
    /\ base \in Seq(Words)
    /\ picked \in Seq(Words) /\ Len(picked) <= MaxCodewords
    /\ \A i \in 1..Len(picked) : picked[i] \in DOMAIN table
    /\ phase \notin {"pick", "reread"} => picked = << >>
    /\ selected \in Seq(Words) /\ Len(selected) <= MaxCodewords
    /\ phase = "header" => selected # << >>

FileShape ==
    /\ brain \in BrainFiles /\ (brain.header => brain.count >= 1)
    /\ intended \in Seq(Words)

TrainShape == WorkerShape /\ CorpusShape /\ TableShape /\ ChoiceShape /\ FileShape

TableType(T) == /\ T \in [DOMAIN T -> Entries]
                /\ \A p \in DOMAIN T : p \in Words /\ Len(p) = ChunkSize /\ T[p] \in Entries

LEMMA TablesAre ==
    ASSUME NEW T
    PROVE  T \in Tables <=> TableType(T)
<1>1. ASSUME T \in Tables PROVE TableType(T)
  <2>1. PICK D \in SUBSET Patterns : T \in [D -> Entries]
    BY <1>1 DEF Tables
  <2>. QED
    BY <2>1 DEF TableType, Patterns
<1>2. ASSUME TableType(T) PROVE T \in Tables
  <2>1. DOMAIN T \in SUBSET Patterns /\ T \in [DOMAIN T -> Entries]
    BY <1>2 DEF TableType, Patterns
  <2>. QED
    BY <2>1, Zenon DEF Tables
<1>. QED
  BY <1>1, <1>2

\* Setting an entry.
LEMMA WithType ==
    ASSUME NEW T \in Tables, NEW p \in Patterns, NEW e \in Entries
    PROVE  /\ With(T, p, e) \in Tables /\ DOMAIN With(T, p, e) = DOMAIN T \cup {p}
           /\ With(T, p, e)[p] = e
           /\ \A q \in DOMAIN T : q # p => With(T, p, e)[q] = T[q]
<1>1. TableType(T) /\ p \in Words /\ Len(p) = ChunkSize
  BY TablesAre DEF Patterns
<1>2. With(T, p, e) = [q \in DOMAIN T \cup {p} |-> IF q = p THEN e ELSE T[q]]
  BY DEF With
<1>3. TableType(With(T, p, e))
  BY <1>1, <1>2 DEF TableType
<1>. QED
  BY <1>2, <1>3, TablesAre

LEMMA RecordTypes ==
    ASSUME NEW T \in Tables, NEW p \in Patterns, NEW n \in Nat
    PROVE  /\ Record(T, p) \in Tables /\ DOMAIN Record(T, p) = DOMAIN T \cup {p}
           /\ RecordAt(T, p, n) \in Tables /\ DOMAIN RecordAt(T, p, n) = DOMAIN T \cup {p}
           /\ RecordWithCount(T, p, n) \in Tables /\ DOMAIN RecordWithCount(T, p, n) = DOMAIN T \cup {p}
<1>1. ASSUME p \in DOMAIN T
      PROVE  T[p] \in [count : Nat, first : Nat, data : BOOLEAN]
  BY <1>1, TablesAre DEF TableType, Entries
<1>2. (IF p \in DOMAIN T THEN [T[p] EXCEPT !.count = @ + 1]
       ELSE [count |-> 1, first |-> 0, data |-> TRUE]) \in Entries
  BY <1>1 DEF Entries
<1>3. (IF p \in DOMAIN T THEN [T[p] EXCEPT !.count = @ + 1, !.first = Smaller(@, n)]
       ELSE [count |-> 1, first |-> n, data |-> FALSE]) \in Entries
  <2> DEFINE e == T[p]
             m == Smaller(e.first, n)
  <2>1. CASE p \in DOMAIN T
    <3>1. e \in [count : Nat, first : Nat, data : BOOLEAN]
      BY <1>1, <2>1
    <3>2. m \in Nat
      BY <3>1 DEF Smaller
    <3> HIDE DEF e, m
    <3>4. [e EXCEPT !.count = @ + 1] \in [count : Nat, first : Nat, data : BOOLEAN]
      BY <3>1
    <3>5. \A d \in [count : Nat, first : Nat, data : BOOLEAN] :
             [d EXCEPT !.first = m] \in [count : Nat, first : Nat, data : BOOLEAN]
      BY <3>2
    <3>6. [e EXCEPT !.count = @ + 1, !.first = m] = [[e EXCEPT !.count = @ + 1] EXCEPT !.first = m]
      BY <3>1
    <3>3. [e EXCEPT !.count = @ + 1, !.first = m] \in Entries
      BY <3>4, <3>5, <3>6, Zenon DEF Entries
    <3>. QED
      BY <2>1, <3>3 DEF e, m
  <2>2. CASE p \notin DOMAIN T
    BY <2>2 DEF Entries
  <2>. QED
    BY <2>1, <2>2
<1>4. (IF p \in DOMAIN T THEN [T[p] EXCEPT !.count = @ + n]
       ELSE [count |-> n, first |-> 0, data |-> TRUE]) \in Entries
  BY <1>1 DEF Entries
<1>5. Record(T, p) \in Tables /\ DOMAIN Record(T, p) = DOMAIN T \cup {p}
  BY <1>2, WithType DEF Record
<1>6. RecordAt(T, p, n) \in Tables /\ DOMAIN RecordAt(T, p, n) = DOMAIN T \cup {p}
  BY <1>3, WithType DEF RecordAt
<1>7. RecordWithCount(T, p, n) \in Tables /\ DOMAIN RecordWithCount(T, p, n) = DOMAIN T \cup {p}
  BY <1>4, WithType DEF RecordWithCount
<1>. QED
  BY <1>5, <1>6, <1>7

\* n more occurrences of a pattern.
LEMMA CountedType ==
    ASSUME NEW T \in Tables, NEW p \in Patterns, NEW n \in Nat
    PROVE  /\ RecordWithCount(T, p, n) \in Tables
           /\ DOMAIN T \subseteq DOMAIN RecordWithCount(T, p, n)
<1>1. RecordWithCount(T, p, n) \in Tables /\ DOMAIN RecordWithCount(T, p, n) = DOMAIN T \cup {p}
  BY RecordTypes, Zenon
<1>. QED
  BY <1>1

\* The variants of a pattern are patterns.
LEMMA VariantTypes ==
    ASSUME NEW p \in Patterns
    PROVE  ShiftLeft(p) \in Patterns /\ ShiftRight(p) \in Patterns /\ Rotated(p) \in Patterns
<1>0. p \in Seq(Nat) /\ Len(p) = ChunkSize /\ ChunkSize \in Nat \ {0}
  BY TrainingAssumption DEF Patterns, Words
<1>1. Tail(p) \in Seq(Nat) /\ Len(Tail(p)) = ChunkSize - 1 /\ p[1] \in Nat
  BY <1>0
<1>2. SubSeq(p, 1, Len(p) - 1) \in Seq(Nat) /\ Len(SubSeq(p, 1, Len(p) - 1)) = ChunkSize - 1
  BY <1>0
<1>3. \A u \in Seq(Nat), x \in Nat : /\ u \o <<x>> \in Seq(Nat) /\ Len(u \o <<x>>) = Len(u) + 1
                                     /\ <<x>> \o u \in Seq(Nat) /\ Len(<<x>> \o u) = Len(u) + 1
  OBVIOUS
<1>4. 0 \in Nat
  OBVIOUS
<1> DEFINE u == Tail(p)
           v == SubSeq(p, 1, Len(p) - 1)
<1> HIDE DEF u, v
<1>5. u \in Seq(Nat) /\ Len(u) = ChunkSize - 1 /\ v \in Seq(Nat) /\ Len(v) = ChunkSize - 1
  BY <1>1, <1>2 DEF u, v
<1>6. /\ u \o <<0>> \in Seq(Nat) /\ Len(u \o <<0>>) = ChunkSize
      /\ <<0>> \o v \in Seq(Nat) /\ Len(<<0>> \o v) = ChunkSize
      /\ u \o <<p[1]>> \in Seq(Nat) /\ Len(u \o <<p[1]>>) = ChunkSize
  BY <1>0, <1>1, <1>3, <1>4, <1>5
<1>. QED
  BY <1>6 DEF ShiftLeft, ShiftRight, Rotated, Patterns, Words, u, v

LEMMA VariedType ==
    ASSUME NEW T \in Tables, NEW p \in DOMAIN T
    PROVE  Varied(T, p) \in Tables /\ DOMAIN T \subseteq DOMAIN Varied(T, p)
<1> DEFINE n == T[p].count \div 2
           T1 == RecordWithCount(T, ShiftLeft(p), n)
           T2 == RecordWithCount(T1, ShiftRight(p), n)
           T3 == RecordWithCount(T2, Rotated(p), n)
<1>1. p \in Patterns /\ T[p].count \in Nat
  BY TablesAre DEF TableType, Patterns, Entries
<1>2. n \in Nat
  BY <1>1
<1>3. ShiftLeft(p) \in Patterns /\ ShiftRight(p) \in Patterns /\ Rotated(p) \in Patterns
  BY <1>1, VariantTypes
<1> HIDE DEF n, T1, T2, T3
<1>4. T1 \in Tables /\ DOMAIN T \subseteq DOMAIN T1
  BY <1>2, <1>3, CountedType DEF T1
<1>5. T2 \in Tables /\ DOMAIN T1 \subseteq DOMAIN T2
  BY <1>2, <1>3, <1>4, CountedType DEF T2
<1>6. T3 \in Tables /\ DOMAIN T2 \subseteq DOMAIN T3
  BY <1>2, <1>3, <1>5, CountedType DEF T3
<1>7. Varied(T, p) = IF T[p].count <= 1 THEN T ELSE T3
  BY DEF Varied, T3, T2, T1, n
<1>. QED
  BY <1>4, <1>5, <1>6, <1>7

\* Products grow with a factor.
LEMMA ProductGrows ==
    ASSUME NEW a \in Nat, NEW b \in Nat, a <= b, NEW c \in Nat
    PROVE  a * c \in Nat /\ b * c \in Nat /\ a * c <= b * c
<1>1. b - a \in Nat /\ b * c = a * c + (b - a) * c
  OBVIOUS
<1>2. a * c \in Nat /\ (b - a) * c \in Nat
  BY <1>1
<1> DEFINE x == a * c
           y == (b - a) * c
<1> HIDE DEF x, y
<1>3. x \in Nat /\ y \in Nat /\ b * c = x + y
  BY <1>1, <1>2 DEF x, y
<1>. QED
  BY <1>3 DEF x

\* A codeword that lies inside the file.
LEMMA WordAtIs ==
    ASSUME NEW f, f.cells \in Words, NEW size \in Nat, NEW id \in Nat, (id + 1) * size <= Len(f.cells)
    PROVE  /\ id * size \in Nat /\ (id + 1) * size = id * size + size
           /\ WordAt(f, size, id) = SubSeq(f.cells, id * size + 1, id * size + size)
           /\ WordAt(f, size, id) \in Words /\ Len(WordAt(f, size, id)) = size
           /\ \A i \in 1..size : WordAt(f, size, id)[i] = f.cells[id * size + i]
<1> DEFINE a == id * size
           cs == f.cells
<1>1. a \in Nat /\ (id + 1) * size = a + size
  OBVIOUS
<1>2. cs \in Seq(Nat) /\ a + size <= Len(cs) /\ Len(cs) \in Nat
  BY <1>1 DEF Words
<1>3. Smaller((id + 1) * size, Len(cs)) = a + size
  BY <1>1, <1>2 DEF Smaller
<1>4. WordAt(f, size, id) = SubSeq(cs, a + 1, a + size)
  BY <1>3 DEF WordAt
<1> HIDE DEF a, cs
<1>5. /\ SubSeq(cs, a + 1, a + size) \in Seq(Nat) /\ Len(SubSeq(cs, a + 1, a + size)) = size
      /\ \A i \in 1..size : SubSeq(cs, a + 1, a + size)[i] = cs[a + i]
  BY <1>1, <1>2
<1>. QED
  BY <1>1, <1>4, <1>5 DEF a, cs, Words

CellsAt(v, cs, a, n) == a \in Nat /\ v \in Words /\ Len(v) = n /\ \A i \in 1..n : v[i] = cs[a + i]

LEMMA WordAtCells ==
    ASSUME NEW f, f.cells \in Words, NEW size \in Nat, NEW id \in Nat, (id + 1) * size <= Len(f.cells)
    PROVE  CellsAt(WordAt(f, size, id), f.cells, id * size, size)
<1>1. /\ id * size \in Nat
      /\ WordAt(f, size, id) \in Words /\ Len(WordAt(f, size, id)) = size
      /\ \A i \in 1..size : WordAt(f, size, id)[i] = f.cells[id * size + i]
  BY WordAtIs
<1>. QED
  BY ONLY <1>1, Zenon DEF CellsAt

\* The codewords of a file that Open accepts.
LEMMA WordsOfType ==
    ASSUME NEW f \in BrainFiles, Accepts(f)
    PROVE  /\ WordsOf(f) \in Seq(Words) /\ Len(WordsOf(f)) = f.count
           /\ \A id \in 0..(f.count - 1) : (id + 1) * f.size <= Len(f.cells)
<1>1. f.cells \in Words /\ f.size \in Nat /\ f.count \in Nat /\ Len(f.cells) \in Nat
  BY DEF BrainFiles, Words
<1>2. f.count * f.size <= Len(f.cells)
  <2>1. f.count * f.size = f.size * f.count
    BY <1>1
  <2>. QED
    BY <2>1 DEF Accepts
<1>3. ASSUME NEW id \in 0..(f.count - 1)
      PROVE  (id + 1) * f.size <= Len(f.cells)
  <2>1. id + 1 \in Nat /\ id + 1 <= f.count
    BY <1>1
  <2>2. (id + 1) * f.size \in Nat /\ f.count * f.size \in Nat /\ (id + 1) * f.size <= f.count * f.size
    BY <1>1, <2>1, ProductGrows
  <2> DEFINE x == (id + 1) * f.size
             y == f.count * f.size
  <2>3. x \in Nat /\ y \in Nat /\ x <= y /\ y <= Len(f.cells)
    BY <1>2, <2>2
  <2> HIDE DEF x, y
  <2>4. x <= Len(f.cells)
    BY <1>1, <2>3
  <2>. QED
    BY <2>4 DEF x
<1>4. \A i \in 1..f.count : WordAt(f, f.size, i - 1) \in Words
  <2> SUFFICES ASSUME NEW i \in 1..f.count PROVE WordAt(f, f.size, i - 1) \in Words
    OBVIOUS
  <2>1. i - 1 \in Nat /\ i - 1 \in 0..(f.count - 1)
    BY <1>1
  <2>. QED
    BY <1>1, <1>3, <2>1, WordAtIs
<1>5. WordsOf(f) = [i \in 1..f.count |-> WordAt(f, f.size, i - 1)]
  BY DEF WordsOf
<1>6. WordsOf(f) \in Seq(Words) /\ Len(WordsOf(f)) = f.count
  <2> DEFINE h(i) == WordAt(f, f.size, i - 1)
  <2>1. WordsOf(f) = [i \in 1..f.count |-> h(i)] /\ \A i \in 1..f.count : h(i) \in Words
    BY <1>4, <1>5
  <2> HIDE DEF h
  <2>. QED
    BY <1>1, <2>1
<1>. QED
  BY <1>3, <1>6

\* Seeding a table gives a table.
LEMMA SeededType ==
    ASSUME NEW T \in Tables, NEW ps \in Seq(Words)
    PROVE  Seeded(T, ps) \in Tables
<1> DEFINE n == Len(ps)
           Step(i, X) == IF Len(ps[i]) = ChunkSize THEN RecordWithCount(X, ps[i], Boost) ELSE X
           G == [i \in 1..n |-> [X \in Tables |-> Step(i, X)]]
           g == CHOOSE g : g = [i \in 0..n |-> IF i = 0 THEN T
                                 ELSE IF Len(ps[i]) = ChunkSize
                                      THEN RecordWithCount(g[i - 1], ps[i], Boost)
                                 ELSE g[i - 1]]
<1>1. n \in Nat /\ \A i \in 1..n : ps[i] \in Words
  OBVIOUS
<1>2. \A i \in 1..n, X \in Tables : Step(i, X) \in Tables
  <2> SUFFICES ASSUME NEW i \in 1..n, NEW X \in Tables, Len(ps[i]) = ChunkSize
               PROVE  RecordWithCount(X, ps[i], Boost) \in Tables
    OBVIOUS
  <2>1. ps[i] \in Patterns /\ Boost \in Nat
    BY <1>1, TrainingAssumption DEF Patterns
  <2>. QED
    BY <2>1, CountedType
<1>3. G \in [1..n -> [Tables -> Tables]]
  <2> HIDE DEF Step
  <2>. QED
    BY <1>2
<1>4. PICK f \in [0..n -> Tables] : Recursion(f, n, T, G)
  <2> HIDE DEF n, G
  <2>. QED
    BY <1>1, <1>3, RecursionExists, Zenon
<1>5. f[0] = T /\ \A i \in 1..n : f[i] = G[i][f[i - 1]]
  BY <1>4 DEF Recursion
<1>6. \A i \in 1..n : f[i] = Step(i, f[i - 1])
  <2> HIDE DEF Step
  <2>1. \A i \in 1..n : f[i - 1] \in Tables
    BY <1>1
  <2>. QED
    BY <1>5, <2>1
<1>7. f = [i \in 0..n |-> IF i = 0 THEN T
                          ELSE IF Len(ps[i]) = ChunkSize
                               THEN RecordWithCount(f[i - 1], ps[i], Boost)
                          ELSE f[i - 1]]
  <2>1. \A i \in 0..n : i # 0 => i \in 1..n
    BY <1>1
  <2>2. \A i \in 0..n : f[i] = IF i = 0 THEN T
                               ELSE IF Len(ps[i]) = ChunkSize
                                    THEN RecordWithCount(f[i - 1], ps[i], Boost)
                               ELSE f[i - 1]
    BY <1>5, <1>6, <2>1, Zenon
  <2>3. f = [i \in 0..n |-> f[i]]
    OBVIOUS
  <2>. QED
    BY <2>2, <2>3, Zenon
<1>8. g = [i \in 0..n |-> IF i = 0 THEN T
                          ELSE IF Len(ps[i]) = ChunkSize
                               THEN RecordWithCount(g[i - 1], ps[i], Boost)
                          ELSE g[i - 1]]
  BY <1>7, Zenon
<1>9. Seeded(T, ps) = g[n]
  BY DEF Seeded
<1> HIDE DEF g, n, G
<1> DEFINE P == {i \in 0..n : g[i] \in Tables}
<1>10. 0 \in P
  <2>1. 0 \in 0..n
    BY <1>1
  <2>. QED
    BY <1>8, <2>1
<1>11. ASSUME NEW i \in 1..n, i - 1 \in P
       PROVE  i \in P
  <2>1. i \in 0..n /\ i # 0 /\ g[i - 1] \in Tables
    BY <1>11
  <2>2. g[i] = Step(i, g[i - 1])
    BY <1>8, <2>1, Zenon
  <2>. QED
    BY <1>2, <2>1, <2>2
<1> HIDE DEF P
<1>12. \A i \in 0..n : i \in P
  <2>1. \A i \in 1..n : i - 1 \in P => i \in P
    BY <1>11
  <2>. QED
    BY <1>1, <1>10, <2>1, InductionUpto, Zenon
<1>13. n \in 0..n
  BY <1>1
<1>. QED
  BY <1>9, <1>12, <1>13 DEF P

\* The n elements behind the first a.
LEMMA CutAt ==
    ASSUME NEW S, NEW s \in Seq(S), NEW a \in Nat, NEW n \in Nat, a + n <= Len(s)
    PROVE  /\ SubSeq(s, a + 1, a + n) \in Seq(S) /\ Len(SubSeq(s, a + 1, a + n)) = n
           /\ \A j \in 1..n : SubSeq(s, a + 1, a + n)[j] = s[a + j]
OBVIOUS

Rearranged(t, s) ==
    /\ t \in Seq(Words) /\ Len(t) = Len(s)
    /\ \A i \in 1..Len(s) : \E j \in 1..Len(s) : t[i] = s[j]

\* A sorted sequence has the elements of the sequence.
LEMMA StableByType ==
    ASSUME NEW s \in Seq(Words), NEW key, \A i \in 1..Len(s) : key[i] \in Int
    PROVE  Rearranged(StableBy(s, key), s)
<1>1. Len(s) \in Nat /\ DOMAIN s = 1..Len(s)
  OBVIOUS
<1>2. PICK at : SortedAt(Len(s), key, at) /\ StableBy(s, key) = [k \in 1..Len(s) |-> s[at[k]]]
  BY <1>1, StableByIs
<1>3. \A k \in 1..Len(s) : at[k] \in 1..Len(s)
  BY <1>2 DEF SortedAt
<1> DEFINE n == Len(s)
           t == StableBy(s, key)
<1>4. n \in Nat /\ t = [k \in 1..n |-> s[at[k]]] /\ \A k \in 1..n : s[at[k]] \in Words
  BY <1>1, <1>2, <1>3
<1> HIDE DEF n, t
<1>5. t \in Seq(Words) /\ Len(t) = n /\ \A k \in 1..n : t[k] = s[at[k]]
  BY <1>4
<1>. QED
  BY <1>3, <1>5 DEF n, t, Rearranged

\* WriteCodebook sorts by bucket.
LEMMA SortedType ==
    ASSUME NEW ps \in Seq(Words)
    PROVE  Rearranged(Sorted(ps), ps)
<1> DEFINE key == [i \in DOMAIN ps |-> Bucket(ps[i])]
<1>1. \A p \in Words : Bucket(p) \in Nat
  BY DEF Bucket, Words
<1>2. \A i \in 1..Len(ps) : key[i] \in Int
  BY <1>1
<1>3. Sorted(ps) = StableBy(ps, key)
  BY DEF Sorted
<1> HIDE DEF key
<1>. QED
  BY <1>2, <1>3, StableByType

\* A filtered sequence has elements of the sequence.
LEMMA OnlyType ==
    ASSUME NEW U, NEW s \in Seq(U), NEW S \in SUBSET (1..Len(s))
    PROVE  Only(s, S) \in Seq(U) /\ Len(Only(s, S)) = Cardinality(S) /\ Cardinality(S) \in Nat
<1>1. Len(s) \in Nat
  OBVIOUS
<1>2. Cardinality(S) \in Nat /\ InOrder(s, S)
  BY <1>1, OnlyIs
<1>3. PICK at : OnlyAt(S, at) /\ Only(s, S) = [k \in 1..Cardinality(S) |-> s[at[k]]]
  BY <1>2 DEF InOrder
<1> DEFINE n == Cardinality(S)
           t == Only(s, S)
<1>4. \A k \in 1..n : s[at[k]] \in U
  <2>1. \A k \in 1..n : at[k] \in 1..Len(s)
    BY <1>3 DEF OnlyAt
  <2> HIDE DEF n
  <2>. QED
    BY <2>1
<1>5. n \in Nat /\ t = [k \in 1..n |-> s[at[k]]]
  BY <1>2, <1>3
<1> HIDE DEF n, t
<1>6. t \in Seq(U) /\ Len(t) = n
  BY <1>4, <1>5
<1>. QED
  BY <1>5, <1>6 DEF n, t

LEMMA MergeBaseType ==
    ASSUME NEW old \in Seq(Words), NEW new \in Seq(Words)
    PROVE  MergeBase(old, new) \in Seq(Words) /\ Len(MergeBase(old, new)) <= MaxCodewords
<1> DEFINE kept == SubSeq(old, 1, Smaller(Len(old), MaxCodewords))
           fresh == {i \in DOMAIN new : \A j \in DOMAIN old : old[j] # new[i]}
           added == Only(new, fresh)
           rest == SubSeq(added, 1, Smaller(Len(added), MaxCodewords - Len(kept)))
<1>0. MaxCodewords \in Nat
  BY TrainingAssumption
<1>1. kept \in Seq(Words) /\ Len(kept) <= MaxCodewords /\ Len(kept) \in Nat
  BY <1>0 DEF Smaller
<1>2. added \in Seq(Words) /\ Len(added) \in Nat
  <2>1. fresh \in SUBSET (1..Len(new))
    OBVIOUS
  <2> HIDE DEF fresh
  <2>. QED
    BY <2>1, OnlyType
<1>3. MergeBase(old, new) = kept \o rest
  BY DEF MergeBase
<1> HIDE DEF added, kept
<1>4. rest \in Seq(Words) /\ Len(rest) <= MaxCodewords - Len(kept) /\ Len(rest) \in Nat
  BY <1>0, <1>1, <1>2 DEF Smaller
<1> HIDE DEF rest
<1>. QED
  BY <1>0, <1>1, <1>3, <1>4

-----------------------------------------------------------------------------
(* What a worker reads. *)

LEMMA CutCells ==
    ASSUME NEW s \in Words, NEW a \in Nat, NEW n \in Nat, a + n <= Len(s)
    PROVE  CellsAt(SubSeq(s, a + 1, a + n), s, a, n)
BY CutAt DEF CellsAt, Words

Todo(k, n) ==
    [i \in 1..(n \div ChunkSize) |->
        [at |-> (k.file - 1) * Span + k.pos + (i - 1) * ChunkSize,
         data |-> SubSeq(k.data, k.pos + (i - 1) * ChunkSize + 1, k.pos + i * ChunkSize)]]

\* The chunks of a buffer lie one after the other in the file.
LEMMA BufferedIs ==
    ASSUME NEW k \in WorkerStates, NEW n \in Nat, k.pos + n <= Len(k.data), NEW eof
    PROVE  /\ Buffered(k, n, eof) = Settled([k EXCEPT !.pos = @ + n, !.eof = eof, !.todo = Todo(k, n)])
           /\ n \div ChunkSize \in Nat
           /\ \A i \in 1..(n \div ChunkSize) :
                 /\ (i - 1) * ChunkSize \in Nat /\ i * ChunkSize = (i - 1) * ChunkSize + ChunkSize
                 /\ i * ChunkSize <= n
                 /\ Todo(k, n)[i].data \in Patterns
<1> DEFINE C == ChunkSize
           q == n \div C
           buf == SubSeq(k.data, k.pos + 1, k.pos + n)
           all == Split(buf)
           m == (n + C - 1) \div C
           chunks == SubSeq(all, 1, q)
           lo(i) == (i - 1) * C
           word(i) == SubSeq(k.data, k.pos + lo(i) + 1, k.pos + i * C)
<1>0. C \in Nat \ {0}
  BY TrainingAssumption
<1>1. k.data \in Seq(Nat) /\ k.pos \in Nat /\ Len(k.data) \in Nat
  BY DEF WorkerStates, Words
<1>2. /\ buf \in Seq(Nat) /\ Len(buf) = n
      /\ \A j \in 1..n : buf[j] = k.data[k.pos + j]
  <2> DEFINE d == k.data
             a == k.pos
  <2>1. d \in Seq(Nat) /\ a \in Nat /\ a + n <= Len(d) /\ buf = SubSeq(d, a + 1, a + n)
    BY <1>1
  <2> HIDE DEF d, a, buf
  <2>2. buf \in Seq(Nat) /\ Len(buf) = n /\ \A j \in 1..n : buf[j] = d[a + j]
    BY <2>1, CutAt
  <2>. QED
    BY <2>2 DEF d, a
<1>3. q \in Nat /\ q * C \in Nat /\ q * C <= n
  BY <1>0, Quotient
<1>4. m \in Nat /\ q <= m
  <2>1. n + C - 1 \in Nat /\ n <= n + C - 1
    BY <1>0
  <2>. QED
    BY <1>0, <2>1, Quotient, QuotientGrows
<1>5. ASSUME NEW i \in 1..q
      PROVE  lo(i) \in Nat /\ i * C = lo(i) + C /\ i * C <= n
  <2>1. i \in Nat /\ i <= q /\ i - 1 \in Nat
    BY <1>3
  <2>2. lo(i) \in Nat /\ i * C = lo(i) + C
    BY <1>0, <2>1
  <2>3. i * C \in Nat /\ i * C <= q * C
    BY <1>0, <1>3, <2>1, ProductGrows
  <2> DEFINE x == i * C
             y == q * C
  <2>4. x \in Nat /\ y \in Nat /\ x <= y /\ y <= n
    BY <1>3, <2>3
  <2> HIDE DEF x, y
  <2>5. x <= n
    BY <2>4
  <2>. QED
    BY <2>2, <2>5 DEF x
<1> HIDE DEF buf
<1>6. /\ all = [i \in 1..m |-> [at |-> lo(i), data |-> SubSeq(buf, lo(i) + 1, Smaller(i * C, n))]]
  BY <1>2 DEF Split
<1>7. /\ DOMAIN chunks = 1..q /\ \A i \in 1..q : chunks[i] = all[i]
  <2> DEFINE e(i) == [at |-> lo(i), data |-> SubSeq(buf, lo(i) + 1, Smaller(i * C, n))]
  <2>1. all = [i \in 1..m |-> e(i)]
    BY <1>6
  <2> HIDE DEF all, e, q, m
  <2>. QED
    BY <1>3, <1>4, <2>1
<1> HIDE DEF lo, q, m, all
<1>8. ASSUME NEW i \in 1..q
      PROVE  chunks[i] = [at |-> lo(i), data |-> word(i)] /\ word(i) \in Patterns
  <2>1. lo(i) \in Nat /\ i * C = lo(i) + C /\ i * C <= n /\ i \in 1..m
    BY <1>3, <1>4, <1>5
  <2>2. Smaller(i * C, n) = lo(i) + C
    BY <2>1 DEF Smaller
  <2>3. chunks[i] = [at |-> lo(i), data |-> SubSeq(buf, lo(i) + 1, lo(i) + C)]
    BY <1>6, <1>7, <2>1, <2>2
  <2> DEFINE x == lo(i)
             d == k.data
             y == k.pos
             a == y + x
             u == SubSeq(buf, x + 1, x + C)
             v == SubSeq(d, a + 1, a + C)
  <2>4. x \in Nat /\ x + C <= n /\ i * C = x + C
    BY <2>1
  <2>5. word(i) = SubSeq(d, y + x + 1, y + (x + C))
    BY <2>4
  <2>6. d \in Seq(Nat) /\ y \in Nat /\ y + n <= Len(d) /\ \A j \in 1..n : buf[j] = d[y + j]
    BY <1>1, <1>2
  <2> HIDE DEF x, y, d, word, chunks
  <2>7. a \in Nat /\ a + C <= Len(d) /\ y + x + 1 = a + 1 /\ y + (x + C) = a + C
    BY <1>0, <2>4, <2>6
  <2>8. u \in Seq(Nat) /\ Len(u) = C /\ \A j \in 1..C : u[j] = buf[x + j]
    BY <1>0, <1>2, <2>4, CutAt
  <2>9. \A j \in 1..C : x + j \in 1..n /\ y + (x + j) = a + j
    BY <1>0, <2>4, <2>6
  <2>10. word(i) = v
    BY <2>5, <2>7
  <2> HIDE DEF a
  <2>14. C \in Nat /\ d \in Seq(Nat) /\ a \in Nat /\ a + C <= Len(d)
    BY <1>0, <2>6, <2>7
  <2>11. v \in Seq(Nat) /\ Len(v) = C /\ \A j \in 1..C : v[j] = d[a + j]
    BY ONLY <2>14, CutAt, ZenonT(30)
  <2> HIDE DEF u, v
  <2>12. \A j \in 1..C : u[j] = v[j]
    BY <2>6, <2>8, <2>9, <2>11
  <2>13. u = v
    BY <1>0, <2>8, <2>11, <2>12, SeqEqual
  <2>. QED
    BY <2>3, <2>10, <2>11, <2>13 DEF u, x, Patterns, Words
<1>9. Todo(k, n) = [i \in 1..q |-> [at |-> (k.file - 1) * Span + k.pos + lo(i), data |-> word(i)]]
  BY DEF Todo, q, lo
<1> HIDE DEF word, chunks
<1>10. [i \in DOMAIN chunks |-> [at |-> (k.file - 1) * Span + k.pos + chunks[i].at,
                                 data |-> chunks[i].data]] = Todo(k, n)
  BY <1>7, <1>8, <1>9
<1>11. Buffered(k, n, eof) = Settled([k EXCEPT !.pos = @ + n, !.eof = eof, !.todo = Todo(k, n)])
  BY <1>10 DEF Buffered, chunks, all, buf, q
<1>12. \A i \in 1..q : Todo(k, n)[i].data \in Patterns
  <2>1. \A i \in 1..q : word(i) \in Patterns
    BY <1>8
  <2>2. \A i \in 1..q : Todo(k, n)[i].data = word(i)
    BY <1>9
  <2>. QED
    BY <2>1, <2>2
<1>. QED
  BY <1>3, <1>5, <1>11, <1>12 DEF q, lo

-----------------------------------------------------------------------------
(* Every step of the trainer keeps its shape. *)

BrainFile(h, n, c, cs, t) == [header |-> h, size |-> n, count |-> c, cells |-> cs, there |-> t]

SetThere(f, x) == [f EXCEPT !.there = x]
SetCells(f, x) == [f EXCEPT !.cells = x]

LEMMA CreatedFile ==
    \A yes, no : SetThere(BrainFile(no, 0, 0, << >>, no), yes) = BrainFile(no, 0, 0, << >>, yes)
BY SMT DEF BrainFile, SetThere

LEMMA FilledFile ==
    \A yes, n, c, as, bs : SetCells(BrainFile(yes, n, c, as, yes), bs) = BrainFile(yes, n, c, bs, yes)
BY SMT DEF BrainFile, SetCells

\* What 16 bits keep of a number.
LEMMA KeptOf ==
    ASSUME NEW n \in Nat
    PROVE  n % SizeField \in Nat /\ (n < SizeField => n % SizeField = n)
<1>1. PICK k \in Int : k = SizeField /\ k > 0
  BY TrainingAssumption
<1>2. n % k \in Nat
  BY ONLY n \in Nat, <1>1
<1>3. n < k => n % k = n
  BY ONLY n \in Nat, <1>1
<1>. QED
  BY <1>1, <1>2, <1>3

LEMMA HeaderIs ==
    ASSUME NEW ps \in Seq(Words), ps # << >>
    PROVE  /\ Created = BrainFile(FALSE, 0, 0, << >>, TRUE)
           /\ Header(ps) = BrainFile(TRUE, CodewordSize(ps), Len(ps), << >>, TRUE)
           /\ CodewordSize(ps) \in Nat /\ Len(ps) \in Nat /\ Len(ps) >= 1
<1>1. Created = BrainFile(FALSE, 0, 0, << >>, TRUE)
  <2>1. Absent = BrainFile(FALSE, 0, 0, << >>, FALSE)
    BY DEF Absent, BrainFile
  <2>. QED
    <3>1. Created = SetThere(Absent, TRUE)
      BY Zenon DEF Created, SetThere
    <3>2. SetThere(BrainFile(FALSE, 0, 0, << >>, FALSE), TRUE) = BrainFile(FALSE, 0, 0, << >>, TRUE)
      BY CreatedFile, Zenon
    <3>. QED
      BY ONLY <2>1, <3>1, <3>2, Zenon
<1>2. Header(ps) = BrainFile(TRUE, CodewordSize(ps), Len(ps), << >>, TRUE)
  BY DEF Header, BrainFile
<1>3. Len(ps) >= 1 /\ ps[1] \in Words /\ Len(ps) \in Nat
  OBVIOUS
<1>4. CodewordSize(ps) \in Nat
  <2>1. Len(ps[1]) \in Nat
    BY <1>3 DEF Words
  <2>. QED
    BY <2>1, KeptOf DEF CodewordSize
<1>. QED
  BY <1>1, <1>2, <1>3, <1>4

LEMMA BrainFileType ==
    ASSUME NEW h \in BOOLEAN, NEW n \in Nat, NEW c \in Nat, NEW cs \in Words, NEW t \in BOOLEAN
    PROVE  /\ BrainFile(h, n, c, cs, t) \in BrainFiles
           /\ BrainFile(h, n, c, cs, t).header = h /\ BrainFile(h, n, c, cs, t).count = c
           /\ BrainFile(h, n, c, cs, t).cells = cs /\ BrainFile(h, n, c, cs, t).size = n
           /\ BrainFile(h, n, c, cs, t).there = t
BY DEF BrainFile, BrainFiles

LEMMA WrittenFile ==
    ASSUME NEW n \in Nat, NEW c \in Nat, c >= 1, NEW cs \in Words
    PROVE  BrainFile(TRUE, n, c, cs, TRUE) \in BrainFiles /\ BrainFile(TRUE, n, c, cs, TRUE).count >= 1
<1>1. \A h, t \in BOOLEAN : BrainFile(h, n, c, cs, t) \in BrainFiles /\ BrainFile(h, n, c, cs, t).count = c
  BY BrainFileType
<1>2. TRUE \in BOOLEAN
  OBVIOUS
<1>3. BrainFile(TRUE, n, c, cs, TRUE) \in BrainFiles /\ BrainFile(TRUE, n, c, cs, TRUE).count = c
  BY ONLY <1>1, <1>2, Zenon
<1>. QED
  BY <1>3, Zenon

LEMMA FullFile ==
    ASSUME NEW n \in Nat, NEW c \in Nat, NEW cs \in Words
    PROVE  /\ BrainFile(TRUE, n, c, cs, TRUE).header /\ BrainFile(TRUE, n, c, cs, TRUE).there
           /\ BrainFile(TRUE, n, c, cs, TRUE).count = c /\ BrainFile(TRUE, n, c, cs, TRUE).size = n
           /\ BrainFile(TRUE, n, c, cs, TRUE).cells = cs
<1>1. TRUE \in BOOLEAN
  OBVIOUS
<1>2. BrainFile(TRUE, n, c, cs, TRUE).header = TRUE
  BY <1>1, BrainFileType, Zenon
<1>3. BrainFile(TRUE, n, c, cs, TRUE).there = TRUE
  BY <1>1, BrainFileType, Zenon
<1>4. \A yes : /\ BrainFile(yes, n, c, cs, yes).count = c /\ BrainFile(yes, n, c, cs, yes).size = n
               /\ BrainFile(yes, n, c, cs, yes).cells = cs
  BY SMT DEF BrainFile
<1>. QED
  BY <1>2, <1>3, <1>4, Zenon

LEMMA BrainOfIs ==
    ASSUME NEW ps \in Seq(Words)
    PROVE  /\ BrainOf(ps) = IF ps = << >> THEN BrainFile(FALSE, 0, 0, << >>, FALSE)
                            ELSE BrainFile(TRUE, CodewordSize(ps), Len(ps), Joined(ps), TRUE)
           /\ BrainOf(ps) \in BrainFiles /\ (BrainOf(ps).header => BrainOf(ps).count >= 1)
<1>0. << >> \in Words /\ 0 \in Nat
  BY DEF Words
<1>1. CASE ps = << >>
  <2>1. BrainOf(ps) = BrainFile(FALSE, 0, 0, << >>, FALSE)
    BY <1>1 DEF BrainOf, Absent, BrainFile
  <2>. QED
    <3>1. /\ BrainFile(FALSE, 0, 0, << >>, FALSE) \in BrainFiles
          /\ ~BrainFile(FALSE, 0, 0, << >>, FALSE).header
      BY <1>0, BrainFileType, Zenon
    <3>. QED
      BY <1>1, <2>1, <3>1, Zenon
<1>2. CASE ps # << >>
  <2>1. Joined(ps) \in Words
    BY JoinedNext, <1>0
  <2>2. Header(ps) = BrainFile(TRUE, CodewordSize(ps), Len(ps), << >>, TRUE)
        /\ CodewordSize(ps) \in Nat /\ Len(ps) \in Nat /\ Len(ps) >= 1
    BY <1>2, HeaderIs
  <2>3. BrainOf(ps) = BrainFile(TRUE, CodewordSize(ps), Len(ps), Joined(ps), TRUE)
    <3> DEFINE n == CodewordSize(ps)
               c == Len(ps)
               j == Joined(ps)
               H == Header(ps)
    <3>1. H = BrainFile(TRUE, n, c, << >>, TRUE) /\ BrainOf(ps) = SetCells(H, j)
      BY <1>2, <2>2, Zenon DEF BrainOf, SetCells
    <3> HIDE DEF n, c, j, H
    <3>2. SetCells(BrainFile(TRUE, n, c, << >>, TRUE), j) = BrainFile(TRUE, n, c, j, TRUE)
      BY FilledFile, Zenon
    <3>3. BrainOf(ps) = BrainFile(TRUE, n, c, j, TRUE)
      BY ONLY <3>1, <3>2, Zenon
    <3>. QED
      BY <3>3 DEF n, c, j
  <2>. QED
    <3> DEFINE n == CodewordSize(ps)
               c == Len(ps)
               j == Joined(ps)
    <3> HIDE DEF n, c, j
    <3>0. n \in Nat /\ c \in Nat /\ c >= 1 /\ j \in Words
      BY <2>1, <2>2 DEF n, c, j
    <3>1. BrainFile(TRUE, n, c, j, TRUE) \in BrainFiles /\ BrainFile(TRUE, n, c, j, TRUE).count >= 1
      BY ONLY <3>0, WrittenFile
    <3>. QED
      BY <1>2, <2>3, <3>1, Zenon DEF n, c, j
<1>. QED
  BY <1>1, <1>2

LEMMA IdleType == Idle \in WorkerStates /\ Idle.pos = 0 /\ Idle.data = << >> /\ Idle.file = 0
                  /\ Idle.todo = << >> /\ Idle.eof = FALSE
BY DEF Idle, WorkerStates, Words

LEMMA EmptyTable == << >> \in Tables /\ DOMAIN << >> = {}
<1>1. DOMAIN << >> = {}
  OBVIOUS
<1>2. << >> \in [{} -> Entries]
  OBVIOUS
<1>. QED
  BY <1>1, <1>2, TablesAre DEF TableType

LEMMA TrainInit ==
    ASSUME TrainingInit
    PROVE  TrainShape
<1>0. /\ corpus \in Seq(Seq(Nat)) /\ intended \in Seq(Seq(Nat)) /\ MaxCodewords \in Nat
  BY TrainingAssumption DEF TrainingInit
<1>1. WorkerShape
  <2>1. \A w \in Workers : worker[w] = Idle
    BY DEF TrainingInit
  <2>2. worker \in [Workers -> WorkerStates]
    BY IdleType DEF TrainingInit
  <2>3. 0 <= Len(<< >>)
    OBVIOUS
  <2>. QED
    BY <2>1, <2>2, <2>3, IdleType DEF WorkerShape
<1>2. CorpusShape
  <2>1. corpus \in Seq(Files)
    BY <1>0 DEF Files, Words
  <2>. QED
    BY <2>1 DEF TrainingInit, CorpusShape
<1>3. TableShape
  BY EmptyTable DEF TrainingInit, TableShape
<1>4. ChoiceShape
  BY <1>0 DEF TrainingInit, ChoiceShape
<1>5. FileShape
  <2>1. intended \in Seq(Words)
    BY <1>0 DEF Words
  <2>. QED
    BY <2>1, BrainOfIs DEF TrainingInit, FileShape
<1>. QED
  BY <1>1, <1>2, <1>3, <1>4, <1>5 DEF TrainShape

LEMMA ShapeOfChangeFile ==
    ASSUME TrainShape, ChangeFile
    PROVE  TrainShape'
<1>1. CorpusShape'
  <2>1. PICK i \in DOMAIN corpus, c \in Contents : corpus' = [corpus EXCEPT ![i] = c]
    BY DEF ChangeFile
  <2>2. c \in Files
    BY TrainingAssumption DEF Files, Words
  <2>3. corpus \in Seq(Files)
    BY DEF TrainShape, CorpusShape
  <2>4. corpus' \in Seq(Files) /\ Len(corpus') = Len(corpus)
    BY <2>1, <2>2, <2>3
  <2>. QED
    BY <2>4 DEF TrainShape, CorpusShape, ChangeFile, counting
<1>2. WorkerShape' /\ TableShape' /\ ChoiceShape' /\ FileShape'
  BY DEF TrainShape, ChangeFile, counting, choosing, options, WorkerShape, TableShape, ChoiceShape,
         FileShape
<1>. QED
  BY <1>1, <1>2 DEF TrainShape

\* A worker with a new state of its own.
LEMMA WorkerSet ==
    ASSUME WorkerShape, NEW w \in Workers, NEW k \in WorkerStates, k.pos <= Len(k.data),
           worker' = [worker EXCEPT ![w] = k]
    PROVE  WorkerShape'
<1>1. worker' \in [Workers -> WorkerStates]
  BY DEF WorkerShape
<1>2. \A v \in Workers : worker'[v] = IF v = w THEN k ELSE worker[v]
  BY DEF WorkerShape
<1>3. \A v \in Workers : worker'[v].pos <= Len(worker'[v].data)
  BY <1>2 DEF WorkerShape
<1>. QED
  BY <1>1, <1>3 DEF WorkerShape

LEMMA SettledType ==
    ASSUME NEW k \in WorkerStates, k.pos <= Len(k.data)
    PROVE  Settled(k) \in WorkerStates /\ Settled(k).pos <= Len(Settled(k).data)
BY IdleType DEF Settled

LEMMA ShapeOfOpenFile ==
    ASSUME TrainShape, NEW w \in Workers, OpenFile(w)
    PROVE  TrainShape'
<1>1. corpus \in Seq(Files) /\ next \in 1..(Len(corpus) + 1) /\ next <= Len(corpus) /\ next' = next + 1
  BY DEF TrainShape, CorpusShape, OpenFile
<1>2. CorpusShape'
  BY <1>1 DEF TrainShape, CorpusShape, OpenFile
<1>3. WorkerShape'
  <2>1. CASE UNCHANGED worker
    BY <2>1 DEF TrainShape, WorkerShape
  <2>2. CASE corpus[next] # Gone /\ worker' = [worker EXCEPT ![w] = [Idle EXCEPT !.file = next, !.data = corpus[next]]]
    <3> DEFINE k == [Idle EXCEPT !.file = next, !.data = corpus[next]]
    <3>1. corpus[next] \in Words /\ next \in Nat
      BY <1>1, <2>2 DEF Files
    <3>2. k \in WorkerStates /\ k.pos = 0 /\ k.data = corpus[next]
      <4> DEFINE f == corpus[next]
      <4>1. f \in Words
        BY <3>1
      <4> HIDE DEF f
      <4>2. [Idle EXCEPT !.file = next] \in WorkerStates
        BY <3>1, IdleType DEF WorkerStates
      <4>3. [[Idle EXCEPT !.file = next] EXCEPT !.data = f] \in WorkerStates
        BY <4>1, <4>2 DEF WorkerStates
      <4>4. [Idle EXCEPT !.file = next, !.data = f] = [[Idle EXCEPT !.file = next] EXCEPT !.data = f]
        BY IdleType DEF WorkerStates
      <4>5. [Idle EXCEPT !.file = next, !.data = f].pos = 0 /\ [Idle EXCEPT !.file = next, !.data = f].data = f
        BY IdleType DEF WorkerStates
      <4>. QED
        BY <4>3, <4>4, <4>5 DEF f
    <3>3. Len(corpus[next]) \in Nat
      BY <3>1 DEF Words
    <3>4. k.pos <= Len(k.data)
      BY <3>2, <3>3
    <3> HIDE DEF k
    <3>5. worker' = [worker EXCEPT ![w] = k]
      BY <2>2 DEF k
    <3>. QED
      BY <3>2, <3>4, <3>5, WorkerSet DEF TrainShape
  <2>. QED
    BY <2>1, <2>2 DEF OpenFile
<1>4. TableShape' /\ ChoiceShape' /\ FileShape'
  BY DEF TrainShape, OpenFile, choosing, TableShape, ChoiceShape, FileShape
<1>. QED
  BY <1>2, <1>3, <1>4 DEF TrainShape

LEMMA ShapeOfReadBuffer ==
    ASSUME TrainShape, NEW w \in Workers, ReadBuffer(w)
    PROVE  TrainShape'
<1> DEFINE k == worker[w]
<1>1. k \in WorkerStates /\ k.pos <= Len(k.data) /\ k.file # 0
  BY DEF TrainShape, WorkerShape, ReadBuffer
<1>2. k.file \in Nat /\ k.pos \in Nat /\ k.data \in Words /\ Len(k.data) \in Nat /\ BufferSize \in Nat
  BY <1>1, TrainingAssumption DEF WorkerStates, Words
<1>3. PICK m \in Nat, eof \in BOOLEAN :
        k.pos + m <= Len(k.data) /\ worker' = [worker EXCEPT ![w] = Buffered(k, m, eof)]
  <2> DEFINE n == Smaller(BufferSize, Len(k.data) - k.pos)
  <2>1. n \in Nat /\ k.pos + n <= Len(k.data)
    BY <1>1, <1>2 DEF Smaller
  <2>2. \/ worker' = [worker EXCEPT ![w] = Buffered(k, n, n < BufferSize)]
        \/ \E m \in 0..n : worker' = [worker EXCEPT ![w] = Buffered(k, m, TRUE)]
    BY DEF ReadBuffer
  <2> HIDE DEF n
  <2>3. \A m \in 0..n : m \in Nat /\ k.pos + m <= Len(k.data)
    BY <1>2, <2>1
  <2>4. (n < BufferSize) \in BOOLEAN /\ TRUE \in BOOLEAN
    OBVIOUS
  <2> HIDE DEF k
  <2>. QED
    BY <2>1, <2>2, <2>3, <2>4, Zenon
<1> HIDE DEF k
<1> DEFINE j == [k EXCEPT !.pos = @ + m, !.eof = eof, !.todo = Todo(k, m)]
<1>4. Buffered(k, m, eof) = Settled(j)
  BY <1>1, <1>3, BufferedIs
<1>5. Todo(k, m) \in Seq([at : Nat, data : Patterns])
  <2> DEFINE q == m \div ChunkSize
             t == Todo(k, m)
             a == (k.file - 1) * Span + k.pos
  <2>1. q \in Nat /\ \A i \in 1..q : (i - 1) * ChunkSize \in Nat /\ t[i].data \in Patterns
    BY <1>1, <1>3, BufferedIs
  <2>2. a \in Nat
    <3>1. k.file - 1 \in Nat /\ Span \in Nat
      BY <1>1, <1>2, TrainingAssumption
    <3>2. (k.file - 1) * Span \in Nat
      BY <3>1
    <3>. QED
      BY <1>2, <3>2
  <2> DEFINE d(i) == SubSeq(k.data, k.pos + (i - 1) * ChunkSize + 1, k.pos + i * ChunkSize)
             b(i) == (i - 1) * ChunkSize
  <2>3. t = [i \in 1..q |-> [at |-> a + b(i), data |-> d(i)]]
    BY DEF Todo
  <2> HIDE DEF a, d, q, t, b
  <2>4. \A i \in 1..q : t[i].data = d(i)
    BY <2>3
  <2>5. \A i \in 1..q : b(i) \in Nat /\ d(i) \in Patterns
    BY <2>1, <2>4 DEF b
  <2>6. \A i \in 1..q : [at |-> a + b(i), data |-> d(i)] \in [at : Nat, data : Patterns]
    BY <2>2, <2>5
  <2> DEFINE e(i) == [at |-> a + b(i), data |-> d(i)]
  <2>7. t = [i \in 1..q |-> e(i)] /\ \A i \in 1..q : e(i) \in [at : Nat, data : Patterns]
    BY <2>3, <2>6
  <2> HIDE DEF e
  <2>8. t \in Seq([at : Nat, data : Patterns])
    BY <2>1, <2>7
  <2>. QED
    BY <2>8 DEF t
<1>6. j \in WorkerStates /\ j.pos <= Len(j.data)
  <2> DEFINE t == Todo(k, m)
             p == k.pos + m
  <2>1. t \in Seq([at : Nat, data : Patterns]) /\ p \in Nat
    BY <1>2, <1>5
  <2>2. k \in WorkerStates /\ p <= Len(k.data)
    BY <1>1, <1>3
  <2> HIDE DEF t, p
  <2>3. j.pos = p /\ j.data = k.data
    BY <1>1 DEF WorkerStates, p
  <2>4. j = [[[k EXCEPT !.pos = p] EXCEPT !.eof = eof] EXCEPT !.todo = t]
    BY <1>1 DEF WorkerStates, p, t
  <2>5. [k EXCEPT !.pos = p] \in WorkerStates
    BY <2>1, <2>2 DEF WorkerStates
  <2>6. [[k EXCEPT !.pos = p] EXCEPT !.eof = eof] \in WorkerStates
    BY <2>5 DEF WorkerStates
  <2>7. [[[k EXCEPT !.pos = p] EXCEPT !.eof = eof] EXCEPT !.todo = t] \in WorkerStates
    BY <2>1, <2>6 DEF WorkerStates
  <2>. QED
    BY <2>2, <2>3, <2>4, <2>7
<1> HIDE DEF j
<1>7. WorkerShape'
  <2>1. worker' = [worker EXCEPT ![w] = Settled(j)]
    BY <1>3, <1>4
  <2>. QED
    BY <1>6, <2>1, SettledType, WorkerSet DEF TrainShape
<1>8. CorpusShape' /\ TableShape' /\ ChoiceShape' /\ FileShape'
  BY DEF TrainShape, ReadBuffer, choosing, CorpusShape, TableShape, ChoiceShape, FileShape
<1>. QED
  BY <1>7, <1>8 DEF TrainShape

\* The first of a sequence and the rest.
LEMMA HeadTail ==
    ASSUME NEW S, NEW s \in Seq(S), s # << >>
    PROVE  /\ Head(s) \in S /\ Tail(s) \in Seq(S) /\ Len(Tail(s)) = Len(s) - 1 /\ Len(s) >= 1
           /\ Head(s) = s[1] /\ \A i \in 1..(Len(s) - 1) : Tail(s)[i] = s[i + 1]
OBVIOUS

LEMMA ShapeOfCountChunk ==
    ASSUME TrainShape, NEW w \in Workers, CountChunk(w)
    PROVE  TrainShape'
<1> DEFINE k == worker[w]
           c == Head(k.todo)
           j == [k EXCEPT !.todo = Tail(@)]
<1>1. k \in WorkerStates /\ k.pos <= Len(k.data) /\ k.todo # << >>
  BY DEF TrainShape, WorkerShape, CountChunk
<1>2. /\ k.todo \in Seq([at : Nat, data : Patterns])
      /\ worker' = [worker EXCEPT ![w] = Settled(j)]
      /\ table' = IF augment THEN Record(table, c.data) ELSE RecordAt(table, c.data, c.at)
  BY <1>1 DEF CountChunk, WorkerStates
<1>3. c \in [at : Nat, data : Patterns] /\ Tail(k.todo) \in Seq([at : Nat, data : Patterns])
  BY <1>1, <1>2, HeadTail
<1> HIDE DEF k
<1>4. j \in WorkerStates /\ j.pos <= Len(j.data)
  BY <1>1, <1>3 DEF WorkerStates
<1> HIDE DEF j, c
<1>5. WorkerShape'
  BY <1>2, <1>4, SettledType, WorkerSet DEF TrainShape
<1>6. c.at \in Nat /\ c.data \in Patterns
  BY <1>3
<1>7. table' \in Tables /\ DOMAIN table' = DOMAIN table \cup {c.data}
  <2> DEFINE d == c.data
             a == c.at
  <2> HIDE DEF d, a
  <2>1. d \in Patterns /\ a \in Nat /\ table \in Tables
    BY <1>6 DEF d, a, TrainShape, TableShape
  <2>2. /\ Record(table, d) \in Tables /\ DOMAIN Record(table, d) = DOMAIN table \cup {d}
        /\ RecordAt(table, d, a) \in Tables /\ DOMAIN RecordAt(table, d, a) = DOMAIN table \cup {d}
    BY <2>1, RecordTypes
  <2>3. table' = IF augment THEN Record(table, d) ELSE RecordAt(table, d, a)
    BY <1>2 DEF d, a
  <2>. QED
    BY <2>2, <2>3 DEF d
<1>8. TableShape' /\ ChoiceShape'
  BY <1>7 DEF TrainShape, TableShape, ChoiceShape, CountChunk, choosing
<1>9. CorpusShape' /\ FileShape'
  BY DEF TrainShape, CountChunk, CorpusShape, FileShape
<1>. QED
  BY <1>5, <1>8, <1>9 DEF TrainShape

LEMMA ShapeOfAllCounted ==
    ASSUME TrainShape, AllCounted
    PROVE  TrainShape'
BY DEF TrainShape, AllCounted, counting, WorkerShape, CorpusShape, TableShape, ChoiceShape, FileShape

LEMMA ShapeOfAugment ==
    ASSUME TrainShape, AugmentPatterns
    PROVE  TrainShape'
<1>1. table \in Tables /\ left \subseteq DOMAIN table
  BY DEF TrainShape, TableShape
<1>2. CASE limit > 0 /\ left # {}
  <2>1. PICK p \in left : table' = Varied(table, p) /\ left' = left \ {p}
    BY <1>2 DEF AugmentPatterns, Top
  <2>2. table' \in Tables /\ DOMAIN table \subseteq DOMAIN table'
    BY <1>1, <2>1, VariedType
  <2>3. phase' = phase /\ phase = "augment"
    BY <1>2 DEF AugmentPatterns
  <2>. QED
    BY <1>1, <2>1, <2>2, <2>3 DEF TrainShape, AugmentPatterns, counting, WorkerShape, CorpusShape,
                                  TableShape, ChoiceShape, FileShape
<1>3. CASE ~(limit > 0 /\ left # {})
  BY <1>3 DEF TrainShape, AugmentPatterns, counting, WorkerShape, CorpusShape, TableShape,
              ChoiceShape, FileShape
<1>. QED
  BY <1>2, <1>3

LEMMA ShapeOfMerge ==
    ASSUME TrainShape, Merge
    PROVE  TrainShape'
<1>1. /\ table \in Tables /\ brain \in BrainFiles /\ phase = "merge" /\ picked = << >> /\ left = {}
  BY DEF TrainShape, TableShape, FileShape, ChoiceShape, Merge
<1>2. CASE phase' = "failed" /\ UNCHANGED <<table, base, left>>
  BY <1>1, <1>2 DEF TrainShape, Merge, counting, WorkerShape, CorpusShape, TableShape, ChoiceShape,
                    FileShape
<1>3. CASE /\ merge = "standard" \/ Accepts(brain)
           /\ table' = IF merge = "update" THEN Seeded(table, WordsOf(brain)) ELSE table
           /\ base' = IF merge = "base" THEN WordsOf(brain) ELSE << >>
           /\ left' = DOMAIN table' /\ phase' = "pick"
  <2>1. Accepts(brain) => WordsOf(brain) \in Seq(Words)
    BY <1>1, WordsOfType
  <2>2. table' \in Tables
    BY <1>1, <1>3, <2>1, SeededType
  <2>3. base' \in Seq(Words)
    BY <1>3, <2>1
  <2>. QED
    BY <1>1, <1>3, <2>2, <2>3 DEF TrainShape, Merge, counting, WorkerShape, CorpusShape, TableShape,
                                  ChoiceShape, FileShape
<1>. QED
  BY <1>2, <1>3 DEF Merge

\* The positions selectPicked sorts by.
LEMMA PickedKeys ==
    ASSUME TrainShape
    PROVE  \A i \in 1..Len(picked) : [j \in DOMAIN picked |-> table[picked[j]].first][i] \in Nat
<1>1. picked \in Seq(Words) /\ TableType(table)
  BY TablesAre DEF TrainShape, ChoiceShape, TableShape
<1>2. \A i \in 1..Len(picked) : table[picked[i]] \in [count : Nat, first : Nat, data : BOOLEAN]
  BY <1>1 DEF TrainShape, ChoiceShape, TableType, Entries
<1>3. \A i \in 1..Len(picked) : table[picked[i]].first \in Nat
  BY <1>2
<1>. QED
  BY <1>1, <1>3

LEMMA ShapeOfSelectPicked ==
    ASSUME TrainShape, SelectPicked
    PROVE  TrainShape'
<1>1. /\ table \in Tables /\ left \subseteq DOMAIN table /\ phase = "pick" /\ picked \in Seq(Words)
      /\ Len(picked) <= MaxCodewords /\ MaxCodewords \in Nat
      /\ \A i \in 1..Len(picked) : picked[i] \in DOMAIN table
  BY TrainingAssumption DEF TrainShape, TableShape, ChoiceShape, SelectPicked
<1>2. CASE left # {} /\ Len(picked) < MaxCodewords
  <2>1. PICK p \in left : /\ left' = left \ {p}
                          /\ picked' = IF Saturated(p) THEN picked ELSE Append(picked, p)
    BY <1>2 DEF SelectPicked, Top
  <2>2. p \in DOMAIN table /\ p \in Words
    BY <1>1, <2>1, TablesAre DEF TableType
  <2>3. /\ picked' \in Seq(Words) /\ Len(picked') <= MaxCodewords
        /\ \A i \in 1..Len(picked') : picked'[i] \in DOMAIN table
    <3>1. Append(picked, p) \in Seq(Words) /\ Len(Append(picked, p)) = Len(picked) + 1
          /\ \A i \in 1..(Len(picked) + 1) : Append(picked, p)[i] \in DOMAIN table
      BY <1>1, <2>2
    <3>. QED
      BY <1>1, <1>2, <2>1, <3>1
  <2>. QED
    BY <1>1, <1>2, <2>1, <2>3 DEF TrainShape, SelectPicked, counting, WorkerShape, CorpusShape,
                                  TableShape, ChoiceShape, FileShape
<1>3. CASE ~(left # {} /\ Len(picked) < MaxCodewords)
  <2> DEFINE first == [i \in DOMAIN picked |-> table[picked[i]].first]
  <2>1. picked' = StableBy(picked, first) /\ phase' = "reread" /\ left' = {} /\ table' = table
    BY <1>3 DEF SelectPicked
  <2>2. Rearranged(picked', picked)
    <3>1. \A i \in 1..Len(picked) : first[i] \in Int
      BY PickedKeys
    <3> HIDE DEF first
    <3>. QED
      BY <1>1, <2>1, <3>1, StableByType
  <2>3. /\ picked' \in Seq(Words) /\ Len(picked') <= MaxCodewords
        /\ \A i \in 1..Len(picked') : picked'[i] \in DOMAIN table'
    BY <1>1, <2>1, <2>2 DEF Rearranged
  <2>4. CorpusShape' /\ TableShape' /\ WorkerShape' /\ FileShape'
    BY <1>1, <2>1 DEF TrainShape, SelectPicked, counting, WorkerShape, CorpusShape, TableShape, FileShape
  <2>5. ChoiceShape'
    BY <2>1, <2>3 DEF TrainShape, SelectPicked, ChoiceShape
  <2>. QED
    BY <2>4, <2>5 DEF TrainShape
<1>. QED
  BY <1>2, <1>3

LEMMA ShapeOfReadPicked ==
    ASSUME TrainShape, ReadPicked
    PROVE  TrainShape'
<1>1. /\ phase = "reread" /\ picked \in Seq(Words) /\ base \in Seq(Words)
      /\ Len(picked) <= MaxCodewords /\ left = {} /\ left' = left
      /\ table' = << >> /\ base' = << >> /\ picked' = << >>
  BY DEF TrainShape, ReadPicked, ChoiceShape, TableShape, Forget
<1>2. \/ /\ selected' = IF merge = "base" THEN MergeBase(base, picked) ELSE picked
         /\ phase' = "create"
      \/ phase' = "failed" /\ UNCHANGED selected
  BY DEF ReadPicked
<1>3. selected' \in Seq(Words) /\ Len(selected') <= MaxCodewords /\ phase' \in {"create", "failed"}
  BY <1>1, <1>2, MergeBaseType DEF TrainShape, ChoiceShape
<1>4. TableShape'
  BY <1>1, EmptyTable DEF TableShape
<1>5. ChoiceShape'
  <2>1. << >> \in Seq(Words) /\ Len(<< >>) = 0 /\ MaxCodewords \in Nat
    BY TrainingAssumption
  <2>. QED
    BY <1>1, <1>3, <2>1 DEF ChoiceShape
<1>6. CorpusShape' /\ WorkerShape' /\ FileShape'
  BY <1>3 DEF TrainShape, ReadPicked, counting, CorpusShape, WorkerShape, FileShape
<1>. QED
  BY <1>4, <1>5, <1>6 DEF TrainShape

LEMMA ShapeOfCreateBrain ==
    ASSUME TrainShape, CreateBrain
    PROVE  TrainShape'
<1>1. phase = "create" /\ phase' \in {"failed", "header"} /\ selected' = selected
      /\ (phase' = "header" => selected # << >>)
  BY DEF CreateBrain
<1>2. FileShape'
  <2>1. CASE UNCHANGED <<brain, intended>>
    BY <2>1 DEF TrainShape, FileShape
  <2>2. CASE brain' = Created /\ intended' = Sorted(selected) /\ selected # << >>
    <3>1. selected \in Seq(Words)
      BY DEF TrainShape, ChoiceShape
    <3>2. intended' \in Seq(Words)
      BY <2>2, <3>1, SortedType DEF Rearranged
    <3>3. brain' = BrainFile(FALSE, 0, 0, << >>, TRUE)
      BY <2>2, <3>1, HeaderIs
    <3>4. << >> \in Words /\ 0 \in Nat
      BY DEF Words
    <3>5. BrainFile(FALSE, 0, 0, << >>, TRUE) \in BrainFiles /\ ~BrainFile(FALSE, 0, 0, << >>, TRUE).header
      BY <3>4, BrainFileType, Zenon
    <3>. QED
      BY <3>2, <3>3, <3>5 DEF FileShape
  <2>. QED
    BY <2>1, <2>2 DEF CreateBrain
<1>3. WorkerShape' /\ CorpusShape' /\ TableShape' /\ ChoiceShape'
  BY <1>1 DEF TrainShape, CreateBrain, counting, choosing, WorkerShape, CorpusShape, TableShape, ChoiceShape
<1>. QED
  BY <1>2, <1>3 DEF TrainShape

LEMMA ShapeOfWriteHeader ==
    ASSUME TrainShape, WriteHeader
    PROVE  TrainShape'
<1>1. /\ phase = "header" /\ phase' = "write" /\ selected \in Seq(Words) /\ selected # << >>
      /\ selected' = Sorted(selected) /\ brain' = Header(selected)
  BY DEF TrainShape, ChoiceShape, WriteHeader
<1>2. selected' \in Seq(Words) /\ Len(selected') = Len(selected)
  BY <1>1, SortedType DEF Rearranged
<1>3. brain' \in BrainFiles /\ brain'.count >= 1
  <2> DEFINE n == CodewordSize(selected)
             c == Len(selected)
  <2>1. brain' = BrainFile(TRUE, n, c, << >>, TRUE) /\ n \in Nat /\ c \in Nat /\ c >= 1
    BY <1>1, HeaderIs
  <2>2. << >> \in Words
    BY DEF Words
  <2> HIDE DEF n, c
  <2> DEFINE e == << >>
  <2>3. e \in Words /\ n \in Nat /\ c \in Nat /\ c >= 1
    BY <2>1, <2>2
  <2> HIDE DEF e
  <2>4. BrainFile(TRUE, n, c, e, TRUE) \in BrainFiles /\ BrainFile(TRUE, n, c, e, TRUE).count >= 1
    BY ONLY <2>3, WrittenFile
  <2>. QED
    BY <2>1, <2>4, Zenon DEF e
<1>4. FileShape'
  BY <1>3 DEF TrainShape, WriteHeader, FileShape
<1>5. WorkerShape' /\ CorpusShape' /\ TableShape' /\ ChoiceShape'
  BY <1>1, <1>2 DEF TrainShape, WriteHeader, counting, choosing, WorkerShape, CorpusShape, TableShape,
                    ChoiceShape
<1>. QED
  BY <1>4, <1>5 DEF TrainShape

\* Cells added at the end of the brain.
LEMMA MoreCells ==
    ASSUME FileShape, NEW cs \in Words, brain' = [brain EXCEPT !.cells = @ \o cs], UNCHANGED intended
    PROVE  FileShape' /\ brain'.header = brain.header /\ brain'.count = brain.count
           /\ brain'.size = brain.size /\ brain'.cells = brain.cells \o cs /\ brain'.there = brain.there
<1>1. brain \in BrainFiles /\ brain.cells \in Words
  BY DEF FileShape, BrainFiles
<1>2. brain.cells \o cs \in Words
  BY <1>1 DEF Words
<1> DEFINE ds == brain.cells \o cs
<1>3. brain' = [brain EXCEPT !.cells = ds] /\ ds \in Words
  BY <1>2
<1> HIDE DEF ds
<1>4. /\ brain' \in BrainFiles /\ brain'.header = brain.header /\ brain'.count = brain.count
      /\ brain'.size = brain.size /\ brain'.cells = ds /\ brain'.there = brain.there
  BY <1>1, <1>3 DEF BrainFiles
<1>. QED
  BY <1>4 DEF FileShape, ds

LEMMA ShapeOfWritePattern ==
    ASSUME TrainShape, WritePattern
    PROVE  TrainShape'
<1>1. phase = "write" /\ selected \in Seq(Words) /\ Len(selected) <= MaxCodewords
      /\ MaxCodewords \in Nat /\ FileShape
  BY TrainingAssumption DEF TrainShape, ChoiceShape, WritePattern
<1>2. CASE selected = << >>
  BY <1>1, <1>2 DEF TrainShape, WritePattern, counting, choosing, WorkerShape, CorpusShape, TableShape,
                    ChoiceShape, FileShape
<1>3. CASE selected # << >>
  <2>1. /\ brain' = [brain EXCEPT !.cells = @ \o Head(selected)]
        /\ selected' = Tail(selected) /\ phase' = phase /\ intended' = intended
    BY <1>3 DEF WritePattern
  <2>2. Head(selected) \in Words /\ Tail(selected) \in Seq(Words) /\ Len(Tail(selected)) = Len(selected) - 1
    BY <1>1, <1>3
  <2>3. FileShape'
    BY <1>1, <2>1, <2>2, MoreCells
  <2>4. WorkerShape' /\ CorpusShape' /\ TableShape' /\ ChoiceShape'
    BY <1>1, <2>1, <2>2 DEF TrainShape, WritePattern, counting, choosing, WorkerShape, CorpusShape,
                            TableShape, ChoiceShape
  <2>. QED
    BY <2>3, <2>4 DEF TrainShape
<1>. QED
  BY <1>2, <1>3

LEMMA ShapeOfWriteFails ==
    ASSUME TrainShape, WriteFails
    PROVE  TrainShape'
<1>1. /\ phase \in {"header", "write"} /\ phase' = "failed" /\ selected' = << >>
      /\ selected \in Seq(Words) /\ MaxCodewords \in Nat /\ FileShape
  BY TrainingAssumption DEF TrainShape, ChoiceShape, WriteFails
<1>2. FileShape'
  <2>1. CASE UNCHANGED brain
    BY <1>1, <2>1 DEF WriteFails, FileShape
  <2>2. CASE brain' # brain
    <3>1. PICK n \in 0..(IF phase = "write" /\ selected # << >> THEN Len(Head(selected)) - 1 ELSE 0) :
             brain' = IF n = 0 THEN brain ELSE [brain EXCEPT !.cells = @ \o SubSeq(Head(selected), 1, n)]
      BY DEF WriteFails
    <3>2. n # 0 /\ brain' = [brain EXCEPT !.cells = @ \o SubSeq(Head(selected), 1, n)]
      BY <2>2, <3>1
    <3>3. selected # << >> /\ n \in 0..(Len(Head(selected)) - 1)
      BY <3>1, <3>2
    <3>4. Head(selected) \in Words
      BY <1>1, <3>3
    <3>5. SubSeq(Head(selected), 1, n) \in Words
      BY <3>3, <3>4 DEF Words
    <3>. QED
      BY <1>1, <3>2, <3>5, MoreCells DEF WriteFails
  <2>. QED
    BY <2>1, <2>2
<1>3. ChoiceShape'
  <2>1. << >> \in Seq(Words) /\ Len(<< >>) = 0
    OBVIOUS
  <2>. QED
    BY <1>1, <2>1 DEF TrainShape, ChoiceShape, WriteFails, choosing
<1>4. WorkerShape' /\ CorpusShape' /\ TableShape'
  BY <1>1 DEF TrainShape, WriteFails, counting, choosing, WorkerShape, CorpusShape, TableShape
<1>. QED
  BY <1>2, <1>3, <1>4 DEF TrainShape

LEMMA ShapeUntouched ==
    ASSUME TrainShape, UNCHANGED trainingVars
    PROVE  TrainShape'
BY DEF TrainShape, trainingVars, options, counting, choosing, WorkerShape, CorpusShape, TableShape,
       ChoiceShape, FileShape

LEMMA ShapeStep ==
    ASSUME TrainShape, TrainingStep
    PROVE  TrainShape'
BY ShapeOfChangeFile, ShapeOfOpenFile, ShapeOfReadBuffer, ShapeOfCountChunk, ShapeOfAllCounted,
   ShapeOfAugment, ShapeOfMerge, ShapeOfSelectPicked, ShapeOfReadPicked, ShapeOfCreateBrain,
   ShapeOfWriteHeader, ShapeOfWritePattern, ShapeOfWriteFails DEF TrainingStep

-----------------------------------------------------------------------------
(* The brain file holds the patterns it is meant to hold, or the first of them
   and a part of the next. *)

Described(f, ps) == f.there /\ f.count = Len(ps) /\ \E j \in 1..Len(ps) : f.size = Len(ps[j]) % SizeField

CutIn(cs, ps, k) ==
    \E m \in 0..Len(ps[k + 1]) : /\ m = 0 \/ m < Len(ps[k + 1])
                                 /\ cs = Joined(SubSeq(ps, 1, k)) \o SubSeq(ps[k + 1], 1, m)

WrittenOf(cs, ps) == cs = Joined(ps) \/ \E k \in 0..(Len(ps) - 1) : CutIn(cs, ps, k)

Writing(cs, ps, rest) ==
    \E k \in 0..Len(ps) : cs = Joined(SubSeq(ps, 1, k)) /\ rest = SubSeq(ps, k + 1, Len(ps))

FileInv ==
    /\ brain.header => Described(brain, intended)
    /\ (brain.header /\ phase # "write") => WrittenOf(brain.cells, intended)
    /\ phase = "header" => ~brain.header /\ intended = Sorted(selected)
    /\ phase = "write" => brain.header /\ Writing(brain.cells, intended, selected)

LEMMA EmptyWord == << >> \in Words /\ 0 \in Nat
BY DEF Words

\* Sequences of the same elements.
LEMMA SameSeq ==
    ASSUME NEW S, NEW n \in Nat, NEW u \in Seq(S), NEW v \in Seq(S), Len(u) = n, Len(v) = n,
           \A i \in 1..n : u[i] = v[i]
    PROVE  u = v
OBVIOUS

\* Nothing written, and everything written.
LEMMA WritingEnds ==
    ASSUME NEW ps \in Seq(Words)
    PROVE  /\ Writing(<< >>, ps, ps)
           /\ \A cs : Writing(cs, ps, << >>) => cs = Joined(ps)
<1>1. Len(ps) \in Nat /\ SubSeq(ps, 1, Len(ps)) = ps /\ SubSeq(ps, 1, 0) = << >> /\ 0 + 1 = 1
  OBVIOUS
<1>2. Writing(<< >>, ps, ps)
  <2>1. 0 \in 0..Len(ps)
    BY <1>1
  <2>2. << >> = Joined(SubSeq(ps, 1, 0)) /\ ps = SubSeq(ps, 0 + 1, Len(ps))
    BY <1>1, JoinedNone
  <2>. QED
    BY <2>1, <2>2, Zenon DEF Writing
<1>3. ASSUME NEW cs, Writing(cs, ps, << >>)
      PROVE  cs = Joined(ps)
  <2>1. PICK k \in 0..Len(ps) : cs = Joined(SubSeq(ps, 1, k)) /\ << >> = SubSeq(ps, k + 1, Len(ps))
    BY <1>3, Zenon DEF Writing
  <2> DEFINE q == SubSeq(ps, k + 1, Len(ps))
  <2>2. Len(q) = Len(ps) - k /\ q = << >> /\ Len(ps) \in Nat
    BY <2>1
  <2> HIDE DEF q
  <2>3. k = Len(ps)
    BY ONLY <2>2, k \in 0..Len(ps)
  <2>. QED
    BY <1>1, <2>1, <2>3
<1>. QED
  BY <1>2, <1>3

\* The next pattern, or a part of it, is written.
LEMMA WritingNext ==
    ASSUME NEW ps \in Seq(Words), NEW rest \in Seq(Words), rest # << >>,
           NEW cs \in Words, Writing(cs, ps, rest)
    PROVE  /\ Writing(cs \o Head(rest), ps, Tail(rest))
           /\ WrittenOf(cs, ps)
           /\ \A m \in 0..(Len(Head(rest)) - 1) : WrittenOf(cs \o SubSeq(Head(rest), 1, m), ps)
<1>1. PICK k \in 0..Len(ps) : cs = Joined(SubSeq(ps, 1, k)) /\ rest = SubSeq(ps, k + 1, Len(ps))
  BY Zenon DEF Writing
<1>2. Len(rest) = Len(ps) - k /\ Len(rest) >= 1 /\ Len(ps) \in Nat
  BY <1>1
<1>3. k \in 0..(Len(ps) - 1) /\ k + 1 \in 0..Len(ps) /\ k \in Nat
  BY <1>2
<1>4. Head(rest) = ps[k + 1] /\ ps[k + 1] \in Words
  BY <1>1, <1>2, <1>3
<1>5. Tail(rest) = SubSeq(ps, (k + 1) + 1, Len(ps))
  <2> DEFINE u == Tail(rest)
             v == SubSeq(ps, (k + 1) + 1, Len(ps))
  <2>1. u \in Seq(Words) /\ Len(u) = Len(ps) - (k + 1) /\ \A i \in 1..Len(u) : u[i] = rest[i + 1]
    BY <1>2, HeadTail
  <2>2. \A i \in 1..(Len(ps) - k) : rest[i] = ps[k + i]
    BY <1>1, <1>3
  <2>3. v \in Seq(Words) /\ Len(v) = Len(ps) - (k + 1) /\ \A i \in 1..Len(v) : v[i] = ps[(k + 1) + i]
    BY <1>3
  <2>4. \A i \in 1..(Len(ps) - (k + 1)) : u[i] = ps[k + (i + 1)] /\ k + (i + 1) = (k + 1) + i
    BY <1>2, <1>3, <2>1, <2>2
  <2>6. \A i \in 1..(Len(ps) - (k + 1)) : v[i] = ps[(k + 1) + i]
    BY <2>3
  <2>7. Len(ps) - (k + 1) \in Nat
    BY <1>2, <1>3
  <2> HIDE DEF u, v
  <2>8. \A i \in 1..(Len(ps) - (k + 1)) : u[i] = v[i]
    BY <2>4, <2>6
  <2>5. u = v
    BY <2>1, <2>3, <2>7, <2>8, SameSeq
  <2>. QED
    BY <2>5 DEF u, v
<1>6. SubSeq(ps, 1, k + 1) = Append(SubSeq(ps, 1, k), ps[k + 1]) /\ SubSeq(ps, 1, k) \in Seq(Words)
  BY <1>3
<1>7. Joined(SubSeq(ps, 1, k + 1)) = cs \o ps[k + 1]
  BY <1>1, <1>4, <1>6, JoinedNext
<1>8. Writing(cs \o Head(rest), ps, Tail(rest))
  <2>1. cs \o Head(rest) = Joined(SubSeq(ps, 1, k + 1))
    BY <1>4, <1>7
  <2>. QED
    BY <1>3, <1>5, <2>1, Zenon DEF Writing
<1>9. ASSUME NEW m \in 0..Len(ps[k + 1]), m = 0 \/ m < Len(ps[k + 1])
      PROVE  WrittenOf(cs \o SubSeq(ps[k + 1], 1, m), ps)
  <2>1. CutIn(cs \o SubSeq(ps[k + 1], 1, m), ps, k)
    BY <1>1, <1>9, Zenon DEF CutIn
  <2>. QED
    BY <1>3, <2>1, Zenon DEF WrittenOf
<1>10. WrittenOf(cs, ps)
  <2>1. 0 \in 0..Len(ps[k + 1]) /\ SubSeq(ps[k + 1], 1, 0) = << >>
    BY <1>4 DEF Words
  <2>2. cs \o SubSeq(ps[k + 1], 1, 0) = cs
    BY <2>1 DEF Words
  <2>. QED
    BY <1>9, <2>1, <2>2
<1>11. ASSUME NEW m \in 0..(Len(Head(rest)) - 1)
       PROVE  WrittenOf(cs \o SubSeq(Head(rest), 1, m), ps)
  <2> DEFINE l == Len(ps[k + 1])
  <2>1. l \in Nat /\ m \in 0..(l - 1) /\ Head(rest) = ps[k + 1]
    BY <1>4 DEF Words
  <2> HIDE DEF l
  <2>2. m \in 0..l /\ m < l
    BY ONLY <2>1
  <2>3. WrittenOf(cs \o SubSeq(ps[k + 1], 1, m), ps)
    BY <1>9, <2>2 DEF l
  <2>. QED
    BY <2>1, <2>3
<1>. QED
  BY <1>8, <1>10, <1>11

\* What is on disk in any phase.
LEMMA FileHolds ==
    ASSUME TrainShape, FileInv, brain.header
    PROVE  Described(brain, intended) /\ WrittenOf(brain.cells, intended)
<1>1. CASE phase # "write"
  BY <1>1 DEF FileInv
<1>2. CASE phase = "write"
  <2>1. /\ intended \in Seq(Words) /\ selected \in Seq(Words) /\ brain.cells \in Words
        /\ Writing(brain.cells, intended, selected) /\ Described(brain, intended)
    BY <1>2 DEF TrainShape, FileShape, ChoiceShape, BrainFiles, FileInv
  <2>2. CASE selected = << >>
    BY <2>1, <2>2, WritingEnds DEF WrittenOf
  <2>3. CASE selected # << >>
    BY <2>1, <2>3, WritingNext
  <2>. QED
    BY <2>1, <2>2, <2>3
<1>. QED
  BY <1>1, <1>2

LEMMA FileStart ==
    ASSUME TrainingInit
    PROVE  FileInv
<1>1. phase = "count" /\ intended \in Seq(Words) /\ brain = BrainOf(intended)
  BY TrainingAssumption DEF TrainingInit, Words
<1>2. brain.header => Described(brain, intended) /\ brain.cells = Joined(intended)
  <2>1. CASE intended = << >>
    <3>1. brain = BrainFile(FALSE, 0, 0, << >>, FALSE) /\ << >> \in Words /\ 0 \in Nat
      BY <1>1, <2>1, BrainOfIs, EmptyWord
    <3>2. ~brain.header
      BY <3>1, BrainFileType, Zenon
    <3>. QED
      BY <3>2
  <2>2. CASE intended # << >>
    <3> DEFINE n == CodewordSize(intended)
               c == Len(intended)
               j == Joined(intended)
    <3>1. /\ brain = BrainFile(TRUE, n, c, j, TRUE) /\ n \in Nat /\ c \in Nat /\ c >= 1
      BY <1>1, <2>2, BrainOfIs, HeaderIs
    <3>2. j \in Words
      BY <1>1, JoinedNext, << >> \in Words DEF Words
    <3> HIDE DEF n, c, j
    <3>3. brain.there /\ brain.count = c /\ brain.size = n /\ brain.cells = j
      BY <3>1, <3>2, FullFile, Zenon
    <3>4. 1 \in 1..c
      BY <3>1
    <3>. QED
      BY <3>3, <3>4 DEF Described, CodewordSize, n, c, j
  <2>. QED
    BY <2>1, <2>2
<1>. QED
  BY <1>1, <1>2 DEF FileInv, WrittenOf

\* The steps that leave the file and what it is meant to hold alone.
LEMMA FileUntouched ==
    ASSUME FileInv, UNCHANGED <<brain, intended>>,
           phase \notin {"header", "write"}, phase' \notin {"header", "write"}
    PROVE  FileInv'
BY DEF FileInv, WrittenOf, Described

LEMMA FileOfCreateBrain ==
    ASSUME TrainShape, FileInv, CreateBrain
    PROVE  FileInv'
<1>1. CASE phase' = "failed" /\ UNCHANGED <<brain, intended>>
  BY <1>1, FileUntouched DEF CreateBrain
<1>2. CASE phase' = "header" /\ brain' = Created /\ intended' = Sorted(selected) /\ selected # << >>
  <2>1. selected \in Seq(Words) /\ selected' = selected
    BY DEF TrainShape, ChoiceShape, CreateBrain
  <2>2. brain' = BrainFile(FALSE, 0, 0, << >>, TRUE) /\ << >> \in Words /\ 0 \in Nat
    BY <1>2, <2>1, HeaderIs, EmptyWord
  <2>3. ~brain'.header
    BY <2>2, BrainFileType, Zenon
  <2>. QED
    BY <1>2, <2>1, <2>3 DEF FileInv
<1>. QED
  BY <1>1, <1>2 DEF CreateBrain

LEMMA FileOfWriteHeader ==
    ASSUME TrainShape, FileInv, WriteHeader
    PROVE  FileInv'
<1>1. /\ phase = "header" /\ phase' = "write" /\ selected \in Seq(Words) /\ selected # << >>
      /\ selected' = intended /\ intended' = intended /\ brain' = Header(selected)
      /\ intended = Sorted(selected) /\ intended \in Seq(Words)
  BY DEF TrainShape, ChoiceShape, FileShape, WriteHeader, FileInv
<1> DEFINE n == CodewordSize(selected)
           c == Len(selected)
<1>2. brain' = BrainFile(TRUE, n, c, << >>, TRUE) /\ n \in Nat /\ c \in Nat /\ c >= 1
  BY <1>1, HeaderIs
<1>3. << >> \in Words
  BY DEF Words
<1>4. Len(intended) = Len(selected) /\ \E j \in 1..Len(intended) : intended[j] = selected[1]
  <2> DEFINE key == [i \in DOMAIN selected |-> Bucket(selected[i])]
  <2>1. DOMAIN selected = 1..c /\ 1 \in 1..c
    BY <1>1, <1>2
  <2>2. \A i \in 1..c : key[i] \in Int
    BY <1>1, <2>1 DEF Bucket, Words
  <2>3. intended = StableBy(selected, key)
    BY <1>1 DEF Sorted
  <2> HIDE DEF key, c
  <2>4. PICK at : SortedAt(c, key, at) /\ intended = [k \in 1..c |-> selected[at[k]]]
    BY <1>2, <2>1, <2>2, <2>3, StableByIs
  <2>5. PICK k \in 1..c : at[k] = 1
    BY <2>1, <2>4 DEF SortedAt
  <2>6. intended[k] = selected[1] /\ Len(intended) = c
    BY <1>1, <1>2, <2>4, <2>5
  <2>. QED
    BY <2>5, <2>6 DEF c
<1> HIDE DEF n, c
<1>5. brain'.header /\ brain'.there /\ brain'.count = c /\ brain'.size = n /\ brain'.cells = << >>
  BY <1>2, <1>3, FullFile, Zenon
<1>6. Described(brain', intended')
  BY <1>1, <1>4, <1>5 DEF Described, CodewordSize, n, c
<1>7. Writing(brain'.cells, intended', selected')
  BY <1>1, <1>5, WritingEnds
<1>. QED
  BY <1>1, <1>5, <1>6, <1>7 DEF FileInv

LEMMA FileOfWritePattern ==
    ASSUME TrainShape, FileInv, WritePattern
    PROVE  FileInv'
<1>1. /\ phase = "write" /\ selected \in Seq(Words) /\ intended \in Seq(Words) /\ brain.cells \in Words
      /\ intended' = intended /\ FileShape /\ brain.header /\ Described(brain, intended)
      /\ Writing(brain.cells, intended, selected)
  BY DEF TrainShape, ChoiceShape, FileShape, BrainFiles, WritePattern, FileInv
<1>2. CASE selected = << >>
  <2>1. phase' = "done" /\ brain' = brain
    BY <1>2 DEF WritePattern
  <2>2. brain.cells = Joined(intended)
    BY <1>1, <1>2, WritingEnds
  <2>. QED
    BY <1>1, <2>1, <2>2 DEF FileInv, WrittenOf, Described
<1>3. CASE selected # << >>
  <2>1. /\ brain' = [brain EXCEPT !.cells = @ \o Head(selected)]
        /\ selected' = Tail(selected) /\ phase' = phase /\ intended' = intended
    BY <1>3 DEF WritePattern
  <2>2. Head(selected) \in Words
    BY <1>1, <1>3
  <2>3. /\ brain'.header = brain.header /\ brain'.count = brain.count /\ brain'.size = brain.size
        /\ brain'.cells = brain.cells \o Head(selected) /\ brain'.there = brain.there
    BY <1>1, <2>1, <2>2, MoreCells
  <2>4. Writing(brain.cells \o Head(selected), intended, Tail(selected))
    BY <1>1, <1>3, WritingNext
  <2>. QED
    BY <1>1, <2>1, <2>3, <2>4 DEF FileInv, Described
<1>. QED
  BY <1>2, <1>3

LEMMA FileOfWriteFails ==
    ASSUME TrainShape, FileInv, WriteFails
    PROVE  FileInv'
<1>1. /\ phase' = "failed" /\ intended' = intended /\ selected \in Seq(Words) /\ FileShape
      /\ intended \in Seq(Words) /\ brain.cells \in Words
  BY DEF TrainShape, ChoiceShape, FileShape, BrainFiles, WriteFails
<1>2. CASE brain' = brain
  <2>1. brain.header => Described(brain, intended) /\ WrittenOf(brain.cells, intended)
    BY FileHolds
  <2>. QED
    BY <1>1, <1>2, <2>1 DEF FileInv
<1>3. CASE brain' # brain
  <2>1. PICK n \in 0..(IF phase = "write" /\ selected # << >> THEN Len(Head(selected)) - 1 ELSE 0) :
           brain' = IF n = 0 THEN brain ELSE [brain EXCEPT !.cells = @ \o SubSeq(Head(selected), 1, n)]
    BY DEF WriteFails
  <2>2. n # 0 /\ brain' = [brain EXCEPT !.cells = @ \o SubSeq(Head(selected), 1, n)]
    BY <1>3, <2>1
  <2>3. phase = "write" /\ selected # << >> /\ n \in 0..(Len(Head(selected)) - 1)
    BY <2>1, <2>2
  <2>4. SubSeq(Head(selected), 1, n) \in Words
    BY <1>1, <2>3 DEF Words
  <2>5. /\ brain'.header = brain.header /\ brain'.count = brain.count /\ brain'.size = brain.size
        /\ brain'.cells = brain.cells \o SubSeq(Head(selected), 1, n) /\ brain'.there = brain.there
    BY <1>1, <2>2, <2>4, MoreCells
  <2>6. brain.header /\ Described(brain, intended) /\ Writing(brain.cells, intended, selected)
    BY <2>3 DEF FileInv
  <2>7. WrittenOf(brain'.cells, intended)
    BY <1>1, <2>3, <2>5, <2>6, WritingNext
  <2>8. Described(brain', intended')
    BY <1>1, <2>5, <2>6 DEF Described
  <2>. QED
    BY <1>1, <2>7, <2>8 DEF FileInv
<1>. QED
  BY <1>2, <1>3

LEMMA FileStep ==
    ASSUME TrainShape, FileInv, TrainingStep
    PROVE  FileInv'
<1>1. CASE CreateBrain \/ WriteHeader \/ WritePattern \/ WriteFails
  BY <1>1, FileOfCreateBrain, FileOfWriteHeader, FileOfWritePattern, FileOfWriteFails
<1>2. CASE \/ ChangeFile \/ \E w \in Workers : OpenFile(w) \/ ReadBuffer(w) \/ CountChunk(w)
           \/ AllCounted \/ AugmentPatterns \/ Merge \/ SelectPicked \/ ReadPicked
  <2>1. UNCHANGED <<brain, intended>>
    BY <1>2 DEF ChangeFile, OpenFile, ReadBuffer, CountChunk, AllCounted, AugmentPatterns, Merge,
                SelectPicked, ReadPicked
  <2>2. CASE ~\E w \in Workers : CountChunk(w)
    <3>1. phase \notin {"header", "write"} /\ phase' \notin {"header", "write"}
      BY <1>2, <2>2 DEF ChangeFile, OpenFile, ReadBuffer, AllCounted, AugmentPatterns, Merge,
                        SelectPicked, ReadPicked
    <3>. QED
      BY <2>1, <3>1, FileUntouched
  <2>3. CASE \E w \in Workers : CountChunk(w)
    <3>1. phase' = phase /\ selected' = selected
      BY <2>3 DEF CountChunk
    <3>. QED
      BY <2>1, <3>1 DEF FileInv, Described, WrittenOf
  <2>. QED
    BY <2>2, <2>3
<1>. QED
  BY <1>1, <1>2 DEF TrainingStep

\* Patterns of one size, one after the other: where each cell is.
LEMMA JoinedEqual ==
    ASSUME NEW ps \in Seq(Words), NEW size \in Nat, \A i \in 1..Len(ps) : Len(ps[i]) = size
    PROVE  /\ Joined(ps) \in Words /\ Len(Joined(ps)) = Len(ps) * size
           /\ \A i \in 1..Len(ps), x \in 1..size : Joined(ps)[(i - 1) * size + x] = ps[i][x]
<1> DEFINE n == Len(ps)
<1>1. n \in Nat /\ \A i \in 1..n : ps[i] \in Words /\ Len(ps[i]) = size
  OBVIOUS
<1>2. PICK f \in [0..n -> Words] : Joins(f, n, ps) /\ Joined(ps) = f[n]
  BY JoinedIs
<1>3. f[0] = << >> /\ \A i \in 1..n : f[i] = f[i - 1] \o ps[i]
  BY <1>2, Zenon DEF Joins
<1> DEFINE Cell(i, x) == ps[i][x]
           At(i) == (i - 1) * size
           Good(k) == /\ Len(f[k]) = k * size
                      /\ \A i \in 1..k, x \in 1..size : f[k][At(i) + x] = Cell(i, x)
           P == {k \in 0..n : Good(k)}
<1>4. 0 \in P
  <2>1. Len(f[0]) = 0 /\ 0 * size = 0 /\ 0 \in 0..n
    BY <1>1, <1>3
  <2>. QED
    BY <2>1
<1>5. ASSUME NEW k \in 1..n, k - 1 \in P
      PROVE  k \in P
  <2> DEFINE u == f[k - 1]
             v == ps[k]
             a == (k - 1) * size
  <2>0. k - 1 \in 0..n
    BY <1>1
  <2>1. u \in Words /\ v \in Words /\ Len(v) = size /\ f[k] = u \o v
    BY <1>1, <1>3, <2>0, Zenon
  <2>2. a \in Nat /\ k * size = a + size /\ At(k) = a
    BY <1>1
  <2>3. Len(u) = a /\ \A i \in 1..(k - 1), x \in 1..size : u[At(i) + x] = Cell(i, x)
    BY <1>5
  <2>4. \A i \in 1..(k - 1), x \in 1..size : At(i) + x \in 1..a
    <3> SUFFICES ASSUME NEW i \in 1..(k - 1), NEW x \in 1..size PROVE At(i) + x \in 1..a
      OBVIOUS
    <3>1. i \in Nat /\ k - 1 \in Nat /\ i <= k - 1
      BY <1>1
    <3>2. i * size \in Nat /\ i * size <= a
      BY <3>1, ProductGrows
    <3>3. At(i) \in Nat /\ i * size = At(i) + size
      BY <3>1
    <3> HIDE DEF a, At
    <3> DEFINE b == i * size
    <3> HIDE DEF b
    <3>4. b <= a /\ b = At(i) + size /\ a \in Nat /\ At(i) \in Nat
      BY <2>2, <3>2, <3>3 DEF b
    <3>. QED
      BY <3>4
  <2>6. \A x \in 1..size : Cell(k, x) = v[x]
    OBVIOUS
  <2> HIDE DEF u, v, a, At, Cell
  <2>5. /\ Len(u \o v) = Len(u) + Len(v) /\ \A i \in 1..Len(u) : (u \o v)[i] = u[i]
        /\ \A i \in 1..Len(v) : (u \o v)[Len(u) + i] = v[i]
    <3>1. u \in Seq(Nat) /\ v \in Seq(Nat)
      BY <2>1 DEF Words
    <3>. QED
      BY ONLY <3>1
  <2>7. Len(f[k]) = a + size
    BY <2>1, <2>2, <2>3, <2>5
  <2>8. ASSUME NEW i \in 1..k, NEW x \in 1..size
        PROVE  f[k][At(i) + x] = Cell(i, x)
    <3>1. CASE i \in 1..(k - 1)
      BY <2>1, <2>3, <2>4, <2>5, <3>1
    <3>2. CASE i = k
      BY <2>1, <2>2, <2>3, <2>5, <2>6, <3>2
    <3>. QED
      BY <3>1, <3>2
  <2>9. k \in 0..n
    BY <1>1
  <2>. QED
    BY <2>2, <2>7, <2>8, <2>9
<1> HIDE DEF P, Good
<1>6. \A k \in 0..n : k \in P
  <2>1. \A k \in 1..n : k - 1 \in P => k \in P
    BY <1>5
  <2> HIDE DEF n
  <2>. QED
    BY <1>1, <1>4, <2>1, InductionUpto, Zenon
<1>7. n \in 0..n /\ f[n] \in Words
  BY <1>1, <1>2
<1>8. Good(n)
  BY <1>6, <1>7 DEF P
<1>. QED
  BY <1>2, <1>7, <1>8 DEF Good

\* A file of patterns of one size that Open accepts holds them all.
LEMMA AcceptedIsWhole ==
    ASSUME NEW f \in BrainFiles, NEW ps \in Seq(Words), Accepts(f), Uniform(ps),
           Described(f, ps), WrittenOf(f.cells, ps)
    PROVE  /\ f.count = Len(ps)
           /\ \A id \in 0..(f.count - 1) : /\ (id + 1) * f.size <= Len(f.cells)
                                           /\ WordAt(f, f.size, id) = ps[id + 1]
<1> DEFINE n == Len(ps)
           size == f.size
           cs == f.cells
<1>1. /\ n \in Nat /\ size \in Nat /\ size > 0 /\ cs \in Words /\ Len(cs) \in Nat /\ f.count = n
      /\ DOMAIN ps = 1..n
  BY DEF BrainFiles, Accepts, Described, Words
<1>2. PICK j \in 1..n : size = Len(ps[j])
  <2>1. PICK j \in 1..n : size = Len(ps[j]) % SizeField
    BY DEF Described
  <2>2. Len(ps[j]) \in Nat /\ Len(ps[j]) < SizeField
    <3>1. ps[j] \in Words
      BY <1>1
    <3>2. Len(ps[j]) < SizeField
      BY <1>1 DEF Uniform
    <3>. QED
      BY <3>1, <3>2 DEF Words
  <2>3. Len(ps[j]) % SizeField = Len(ps[j])
    BY <2>2, KeptOf
  <2>. QED
    BY <2>1, <2>3
<1>3. \A i \in 1..n : Len(ps[i]) = size /\ ps[i] \in Words
  BY <1>1, <1>2 DEF Uniform
<1>4. n * size <= Len(cs)
  <2>1. size * n = n * size
    BY <1>1
  <2>. QED
    BY <1>1, <2>1 DEF Accepts
<1>5. cs = Joined(ps)
  <2> SUFFICES ASSUME NEW k \in 0..(n - 1), CutIn(cs, ps, k) PROVE FALSE
    BY DEF WrittenOf
  <2> DEFINE qs == SubSeq(ps, 1, k)
             w == ps[k + 1]
  <2>1. k + 1 \in 1..n /\ k \in Nat
    BY <1>1
  <2>2. w \in Words /\ Len(w) = size
    BY <1>3, <2>1
  <2>3. PICK m \in 0..Len(w) : (m = 0 \/ m < Len(w)) /\ cs = Joined(qs) \o SubSeq(w, 1, m)
    BY Zenon DEF CutIn
  <2>4. m \in Nat /\ m < size
    BY <1>1, <2>2, <2>3
  <2>5. /\ qs \in Seq(Words) /\ Len(qs) = k /\ \A i \in 1..k : qs[i] = ps[i]
    BY <1>1, <2>1
  <2>6. \A i \in 1..Len(qs) : Len(qs[i]) = size
    BY <1>1, <1>3, <2>1, <2>5
  <2> HIDE DEF qs, w, size, cs, n
  <2>7. Joined(qs) \in Words /\ Len(Joined(qs)) = k * size
    BY <1>1, <2>5, <2>6, JoinedEqual
  <2>8. SubSeq(w, 1, m) \in Words /\ Len(SubSeq(w, 1, m)) = m
    BY <2>2, <2>4 DEF Words
  <2>9. Len(cs) = k * size + m
    <3> DEFINE u == Joined(qs)
               v == SubSeq(w, 1, m)
    <3> HIDE DEF u, v
    <3>1. u \in Words /\ v \in Words /\ cs = u \o v /\ Len(u) = k * size /\ Len(v) = m
      BY <2>3, <2>7, <2>8 DEF u, v
    <3>2. Len(u \o v) = Len(u) + Len(v)
      BY <3>1, ConcatIs DEF Words
    <3>. QED
      BY <3>1, <3>2
  <2>10. (k + 1) * size <= n * size /\ n * size \in Nat
    BY <1>1, <2>1, ProductGrows
  <2>11. (k + 1) * size = k * size + size /\ k * size \in Nat
    BY <1>1, <2>1
  <2> DEFINE x == k * size
             y == n * size
             z == (k + 1) * size
  <2>12. x \in Nat /\ y \in Nat /\ z <= y /\ z = x + size /\ Len(cs) = x + m /\ y <= Len(cs)
    BY <1>4, <2>9, <2>10, <2>11
  <2> HIDE DEF x, y, z
  <2>. QED
    BY <1>1, <2>4, <2>12
<1>6. ASSUME NEW id \in 0..(f.count - 1)
      PROVE  (id + 1) * size <= Len(cs) /\ WordAt(f, size, id) = ps[id + 1]
  <2>1. (id + 1) * size <= Len(cs)
    BY WordsOfType
  <2>2. id \in Nat /\ id + 1 \in 1..n /\ (id + 1) - 1 = id
    BY <1>1
  <2> DEFINE v == WordAt(f, size, id)
             w == ps[id + 1]
             a == id * size
  <2>0. f.cells = cs
    OBVIOUS
  <2>4. w \in Words /\ Len(w) = size
    BY <1>3, <2>2
  <2> HIDE DEF size, cs, n
  <2>3. /\ a \in Nat /\ v \in Words /\ Len(v) = size
        /\ \A i \in 1..size : v[i] = cs[a + i]
    <3>1. f.cells \in Words /\ size \in Nat /\ id \in Nat /\ (id + 1) * size <= Len(f.cells)
      BY <1>1, <2>0, <2>1, <2>2, Zenon
    <3>2. CellsAt(v, f.cells, a, size)
      BY <3>1, WordAtCells
    <3>. QED
      BY ONLY <2>0, <3>2, Zenon DEF CellsAt
  <2>5. \A i \in 1..size : cs[a + i] = w[i]
    <3>0. \A i \in 1..Len(ps) : Len(ps[i]) = size
      BY <1>3 DEF n
    <3>1. \A i \in 1..n, x \in 1..size : cs[(i - 1) * size + x] = ps[i][x]
      BY <1>1, <1>5, <3>0, JoinedEqual DEF n
    <3>2. \A x \in 1..size : cs[((id + 1) - 1) * size + x] = ps[id + 1][x]
      BY <2>2, <3>1
    <3>. QED
      BY <2>2, <3>2
  <2> HIDE DEF v, w, a
  <2>7. \A i \in 1..size : v[i] = w[i]
    BY <2>3, <2>5
  <2>6. v = w
    BY <1>1, <2>3, <2>4, <2>7, SameSeq DEF Words
  <2>. QED
    BY <2>1, <2>6 DEF v, w
<1>. QED
  BY <1>1, <1>6

-----------------------------------------------------------------------------
(* The search: what a reader of the brain knows, and what its answers are. *)

Maps(S) == UNION {[D -> Nat] : D \in SUBSET S}
Readers == [size : Nat, count : Nat, buckets : Maps(Nat), exact : Maps(Words), stale : BOOLEAN]
Answers == [id : Nat, dist : Nat]
Finds == [chunk : Words, pc : {"ready", "store"}, id : Nat, dist : Nat]

\* The codewords a chunk is compared with, and what makes an answer the nearest.
Pool(c) ==
    LET same == {id \in Allowed : reader.buckets[id] = c[1]}
    IN  IF same = {} THEN Allowed ELSE same

Right(f, size, buckets, A, c, id, dist) ==
    LET same == {x \in A : buckets[x] = c[1]}
        pool == IF same = {} THEN A ELSE same
    IN  \/ id = 0 /\ dist = Len(c) /\ (c \in HighEntropy \/ size >= AlignedMin)
        \/ /\ id \in A /\ dist = Distance(c, WordAt(f, size, id))
           /\ \A x \in pool : dist <= Distance(c, WordAt(f, size, x))

AnswerOK(c, id, dist) == Right(brain, reader.size, reader.buckets, Allowed, c, id, dist)

CacheOK == \A c \in DOMAIN cache : AnswerOK(c, cache[c].id, cache[c].dist)
FindsOK == \A w \in Workers : (find[w].pc = "store" \/ find[w].chunk # << >>) =>
                                  AnswerOK(find[w].chunk, find[w].id, find[w].dist)

ReaderShape ==
    /\ pack \in {"closed", "first", "search", "dead"} /\ seen \in 0..Len(Input)
    /\ reader \in Readers /\ allowed \in Seq(Ids(reader))
    /\ \A p \in DOMAIN reader.exact : reader.exact[p] \in Allowed
    /\ DOMAIN freq \subseteq Ids(reader)
    /\ pack # "closed" => reader.count >= 1

AnswerShape ==
    /\ \A c \in DOMAIN cache : cache[c] \in Answers /\ cache[c].id \in Ids(reader)
    /\ find \in [Workers -> Finds]
    /\ \A w \in Workers : find[w].pc = "store" => find[w].id \in Ids(reader)

Passes ==
    /\ pack = "closed" => DOMAIN cache = {} /\ DOMAIN freq = {} /\ seen = 0
    /\ pack \in {"closed", "first"} => \A w \in Workers : find[w] = Ready
    /\ pack = "first" => allowed # << >> /\ (seen > 0 => DOMAIN freq # {})
    /\ pack = "search" => allowed # << >> \/ Len(Input) = 0

SearchShape == ReaderShape /\ AnswerShape /\ Passes

\* As long as the brain is the one that was opened.
OpenedAs == (pack # "closed" /\ ~reader.stale) =>
                Accepts(brain) /\ brain.size = reader.size /\ brain.count = reader.count

AnswersOK == (pack \in {"first", "search"} /\ ~reader.stale) => CacheOK /\ FindsOK

LEMMA MapsAre ==
    ASSUME NEW S, NEW g
    PROVE  g \in Maps(S) <=> DOMAIN g \subseteq S /\ g \in [DOMAIN g -> Nat]
<1>1. ASSUME g \in Maps(S) PROVE DOMAIN g \subseteq S /\ g \in [DOMAIN g -> Nat]
  <2>1. PICK D \in SUBSET S : g \in [D -> Nat]
    BY <1>1 DEF Maps
  <2>. QED
    BY <2>1
<1>2. ASSUME DOMAIN g \subseteq S, g \in [DOMAIN g -> Nat] PROVE g \in Maps(S)
  <2>1. DOMAIN g \in SUBSET S
    BY <1>2
  <2>. QED
    BY <1>2, <2>1, Zenon DEF Maps
<1>. QED
  BY <1>1, <1>2

LEMMA DistanceType ==
    ASSUME NEW a \in Words, NEW b \in Words
    PROVE  Distance(a, b) \in Nat /\ Distance(a, a) = 0
<1>1. Len(a) \in Nat /\ Len(b) \in Nat
  BY DEF Words
<1>2. ASSUME NEW m \in Nat, NEW T, T \subseteq 1..m
      PROVE  Cardinality(T) \in Nat
  BY <1>2, IntervalSize, SubsetSize
<1> DEFINE common == Smaller(Len(a), Len(b))
           D == {i \in 1..common : a[i] # b[i]}
<1>3. common \in Nat /\ Len(a) + Len(b) - 2 * common \in Nat
  BY <1>1 DEF Smaller
<1>4. Cardinality(D) \in Nat
  <2>1. D \subseteq 1..common
    OBVIOUS
  <2> HIDE DEF D, common
  <2>. QED
    BY <1>2, <1>3, <2>1
<1>5. Distance(a, b) \in Nat
  <2>1. Distance(a, b) = Cardinality(D) + (Len(a) + Len(b) - 2 * common)
    BY DEF Distance
  <2> HIDE DEF D, common
  <2>. QED
    BY <1>3, <1>4, <2>1
<1>6. Distance(a, a) = 0
  <2>1. Smaller(Len(a), Len(a)) = Len(a)
    BY <1>1 DEF Smaller
  <2> DEFINE E == {i \in 1..Len(a) : a[i] # a[i]}
  <2>3. Distance(a, a) = Cardinality(E) + (Len(a) + Len(a) - 2 * Len(a))
    BY <2>1 DEF Distance
  <2>4. Len(a) + Len(a) - 2 * Len(a) = 0
    BY <1>1
  <2>5. E = {}
    OBVIOUS
  <2> HIDE DEF E
  <2>2. Cardinality(E) = 0
    BY <2>5, FS_EmptySet
  <2>. QED
    BY <2>2, <2>3, <2>4
<1>. QED
  BY <1>5, <1>6

\* A codeword inside the file.
LEMMA WordType ==
    ASSUME TrainShape, ReaderShape, NEW id \in Nat, Mapped(id)
    PROVE  Word(id) \in Words
<1>1. brain.cells \in Words /\ reader.size \in Nat /\ (id + 1) * reader.size <= Len(brain.cells)
  BY DEF TrainShape, FileShape, BrainFiles, ReaderShape, Readers, Mapped
<1>. QED
  BY <1>1, WordAtIs DEF Word

\* As long as the brain is the one that was opened, all its codewords are there.
LEMMA AllMapped ==
    ASSUME TrainShape, ReaderShape, OpenedAs, pack # "closed", ~reader.stale, NEW id \in Ids(reader)
    PROVE  Mapped(id) /\ Word(id) \in Words /\ id \in Nat
<1>1. /\ brain \in BrainFiles /\ Accepts(brain) /\ brain.size = reader.size
      /\ brain.count = reader.count /\ reader.count \in Nat
  BY DEF TrainShape, FileShape, OpenedAs, ReaderShape, Readers
<1>2. id \in 0..(brain.count - 1) /\ id \in Nat
  BY <1>1 DEF Ids
<1>3. (id + 1) * brain.size <= Len(brain.cells)
  BY <1>1, <1>2, WordsOfType
<1>4. Mapped(id)
  BY <1>1, <1>3 DEF Mapped
<1>. QED
  BY <1>2, <1>4, WordType

RangeIs(s, P) == (\A i \in 1..Len(s) : s[i] \in P) /\ \A x \in P : \E i \in 1..Len(s) : s[i] = x

LEMMA AllowedIs ==
    ASSUME ReaderShape
    PROVE  RangeIs(allowed, Allowed) /\ Allowed \subseteq Ids(reader) /\ Ids(reader) \subseteq Nat
<1>1. allowed \in Seq(Ids(reader)) /\ reader.count \in Nat
  BY DEF ReaderShape, Readers
<1>. QED
  BY <1>1 DEF RangeIs, Allowed, Ids

LEMMA CandidatesAre ==
    ASSUME ReaderShape, NEW c
    PROVE  /\ Candidates(c) \in Seq(Ids(reader)) /\ RangeIs(Candidates(c), Pool(c))
           /\ (allowed # << >> => Candidates(c) # << >>)
           /\ Pool(c) \subseteq Allowed
<1> DEFINE n == reader.count
           same == {i \in 1..n : reader.buckets[i - 1] = c[1] /\ i - 1 \in Allowed}
           mine == {id \in Allowed : reader.buckets[id] = c[1]}
           s == [i \in 1..n |-> i - 1]
<1>1. n \in Nat /\ allowed \in Seq(Ids(reader)) /\ Ids(reader) = 0..(n - 1)
  BY DEF ReaderShape, Readers, Ids
<1>2. RangeIs(allowed, Allowed) /\ Allowed \subseteq 0..(n - 1)
  BY <1>1, AllowedIs
<1>3. Candidates(c) = IF same = {} THEN allowed ELSE Only(s, same)
  BY DEF Candidates
<1>4. Pool(c) = IF mine = {} THEN Allowed ELSE mine
  BY DEF Pool
<1>5. \A id \in mine : id + 1 \in same /\ s[id + 1] = id
  BY <1>1, <1>2
<1>6. \A i \in same : i - 1 \in mine /\ s[i] = i - 1
  BY <1>1
<1>7. CASE same = {}
  <2>1. mine = {}
    BY <1>5, <1>7
  <2>. QED
    BY <1>1, <1>2, <1>3, <1>4, <1>7, <2>1
<1>8. CASE same # {}
  <2>1. mine # {}
    BY <1>6, <1>8
  <2>2. s \in Seq(Ids(reader)) /\ Len(s) = n /\ same \in SUBSET (1..n)
    BY <1>1
  <2>3. mine \subseteq Allowed /\ Pool(c) = mine /\ Candidates(c) = Only(s, same)
    BY <1>3, <1>4, <1>8, <2>1
  <2> HIDE DEF s, same, mine, n
  <2>4. /\ Only(s, same) \in Seq(Ids(reader)) /\ Len(Only(s, same)) = Cardinality(same)
        /\ Cardinality(same) \in Nat
    BY <1>1, <2>2, OnlyType
  <2>5. InOrder(s, same)
    BY <1>1, <2>2, OnlyIs
  <2>6. PICK at : OnlyAt(same, at) /\ Only(s, same) = [k \in 1..Cardinality(same) |-> s[at[k]]]
    BY <2>5 DEF InOrder
  <2>7. \A k \in 1..Cardinality(same) : Only(s, same)[k] \in mine
    BY <1>6, <2>6 DEF OnlyAt
  <2>8. ASSUME NEW id \in mine PROVE \E k \in 1..Cardinality(same) : Only(s, same)[k] = id
    <3>1. PICK k \in 1..Cardinality(same) : at[k] = id + 1
      BY <1>5, <2>6 DEF OnlyAt
    <3>. QED
      BY <1>5, <2>6, <3>1
  <2>9. RangeIs(Only(s, same), mine)
    BY <2>4, <2>7, <2>8 DEF RangeIs
  <2>10. Only(s, same) # << >>
    <3>1. PICK id : id \in mine
      BY <2>1
    <3>2. PICK k \in 1..Cardinality(same) : TRUE
      BY <2>8, <3>1
    <3>. QED
      BY <2>4, <3>2
  <2>. QED
    BY <2>3, <2>4, <2>9, <2>10
<1>. QED
  BY <1>7, <1>8

\* The first of the nearest exists.
LEMMA NearestExists ==
    ASSUME NEW n \in Nat \ {0}, NEW dist \in [1..n -> Nat]
    PROVE  \E i \in 1..n : (\A j \in 1..n : dist[i] <= dist[j]) /\ \A j \in 1..(i - 1) : dist[i] < dist[j]
<1> DEFINE S == {dist[i] : i \in 1..n}
<1>1. S \in SUBSET Nat /\ S # {}
  <2>1. dist[1] \in S
    OBVIOUS
  <2>. QED
    BY <2>1
<1>2. PICK m \in S : \A x \in S : m <= x
  BY <1>1, LeastNatural
<1> DEFINE T == {i \in 1..n : dist[i] = m}
<1>3. T \in SUBSET Nat /\ T # {}
  BY <1>2
<1>4. PICK i \in T : \A j \in T : i <= j
  BY <1>3, LeastNatural
<1>5. \A j \in 1..n : dist[i] <= dist[j]
  BY <1>2, <1>4
<1>6. ASSUME NEW j \in 1..(i - 1) PROVE dist[i] < dist[j]
  <2>1. j \in 1..n /\ ~(i <= j) /\ dist[i] \in Nat /\ dist[j] \in Nat
    BY <1>4
  <2>2. j \notin T
    BY <1>4, <2>1
  <2>. QED
    BY <1>4, <1>5, <2>1, <2>2
<1>. QED
  BY <1>4, <1>5, <1>6

LEMMA NearestIs ==
    ASSUME TrainShape, ReaderShape, allowed # << >>, NEW c \in Words,
           \A i \in DOMAIN Candidates(c) : Mapped(Candidates(c)[i])
    PROVE  /\ Nearest(c) \in Answers /\ Nearest(c).id \in Ids(reader)
           /\ AnswerOK(c, Nearest(c).id, Nearest(c).dist)
<1> DEFINE s == Candidates(c)
           n == Len(s)
           dist == [i \in DOMAIN s |-> Distance(c, Word(s[i]))]
           Best(i) == /\ \A j \in DOMAIN s : dist[i] <= dist[j]
                      /\ \A j \in 1..(i - 1) : dist[i] < dist[j]
           k == CHOOSE i \in DOMAIN s : Best(i)
<1>1. s \in Seq(Ids(reader)) /\ RangeIs(s, Pool(c)) /\ s # << >> /\ Pool(c) \subseteq Allowed
  BY CandidatesAre
<1>2. Ids(reader) \subseteq Nat /\ n \in Nat \ {0} /\ DOMAIN s = 1..n
  BY <1>1, AllowedIs
<1>3. Nearest(c) = [id |-> s[k], dist |-> dist[k]]
  BY DEF Nearest
<1> HIDE DEF s
<1>4. \A i \in 1..n : s[i] \in Ids(reader) /\ s[i] \in Nat /\ Mapped(s[i])
  BY <1>1, <1>2 DEF s
<1>5. \A i \in 1..n : Distance(c, Word(s[i])) \in Nat
  BY <1>4, WordType, DistanceType
<1>6. dist \in [1..n -> Nat] /\ \A i \in 1..n : dist[i] = Distance(c, Word(s[i]))
  BY <1>2, <1>5
<1> HIDE DEF dist, n
<1>7. \E i \in 1..n : (\A j \in 1..n : dist[i] <= dist[j]) /\ \A j \in 1..(i - 1) : dist[i] < dist[j]
  BY <1>2, <1>6, NearestExists
<1>8. \E i \in DOMAIN s : Best(i)
  BY <1>2, <1>7
<1>9. k \in DOMAIN s /\ Best(k)
  <2> HIDE DEF Best
  <2>. QED
    BY <1>8
<1> HIDE DEF k
<1>10. k \in 1..n /\ s[k] \in Ids(reader) /\ s[k] \in Nat /\ dist[k] \in Nat
  BY <1>2, <1>4, <1>6, <1>9
<1> DEFINE a == Nearest(c)
<1>11. a.id = s[k] /\ a.dist = dist[k] /\ a \in Answers
  BY <1>3, <1>10 DEF Answers
<1>12. s[k] \in Allowed
  BY <1>1, <1>10 DEF RangeIs, n
<1>13. ASSUME NEW x \in Pool(c) PROVE dist[k] <= Distance(c, Word(x))
  <2>1. PICK i \in 1..n : s[i] = x
    BY <1>1 DEF RangeIs, n
  <2>2. dist[k] <= dist[i]
    BY <1>2, <1>9, <2>1
  <2>. QED
    BY <1>6, <2>1, <2>2
<1>14. dist[k] = Distance(c, Word(s[k]))
  BY <1>6, <1>10
<1>15. AnswerOK(c, s[k], dist[k])
  <2>1. s[k] \in Allowed /\ dist[k] = Distance(c, WordAt(brain, reader.size, s[k]))
    BY <1>12, <1>14 DEF Word
  <2>2. \A x \in Pool(c) : dist[k] <= Distance(c, WordAt(brain, reader.size, x))
    BY <1>13 DEF Word
  <2>. QED
    BY ONLY <2>1, <2>2, Zenon DEF AnswerOK, Right, Pool
<1>. QED
  BY <1>10, <1>11, <1>15

\* What a search finds is right for the file as it is.
LEMMA FoundIs ==
    ASSUME TrainShape, ReaderShape, reader.count >= 1, allowed # << >>, NEW c \in Words,
           \A id \in Touched(c) : Mapped(id)
    PROVE  /\ Found(c) \in Answers /\ Found(c).id \in Ids(reader)
           /\ AnswerOK(c, Found(c).id, Found(c).dist)
<1>1. CASE NoScan(c)
  <2>1. Found(c) = [id |-> 0, dist |-> Len(c)] /\ Len(c) \in Nat
    BY <1>1 DEF Found, Worst, Words
  <2>2. 0 \in Ids(reader)
    BY DEF Ids, ReaderShape, Readers
  <2>3. c \in HighEntropy \/ reader.size >= AlignedMin
    BY <1>1 DEF NoScan, Large
  <2>4. AnswerOK(c, 0, Len(c))
    BY <2>3, Zenon DEF AnswerOK, Right
  <2>5. Found(c) \in Answers /\ Found(c).id = 0 /\ Found(c).dist = Len(c)
    BY <2>1 DEF Answers
  <2>. QED
    BY <2>2, <2>4, <2>5
<1>2. CASE ~NoScan(c)
  <2>1. Found(c) = Nearest(c)
    BY <1>2 DEF Found
  <2>2. \A i \in DOMAIN Candidates(c) : Mapped(Candidates(c)[i])
    BY <1>2 DEF Touched
  <2>. QED
    BY <2>1, <2>2, NearestIs
<1>. QED
  BY <1>1, <1>2

\* The index of a brain that Open accepts.
LEMMA IndexIs ==
    ASSUME NEW f \in BrainFiles, Accepts(f), f.count >= 1
    PROVE  /\ Index(f) \in Readers /\ Index(f).size = f.size /\ Index(f).count = f.count
           /\ \A p \in DOMAIN Index(f).exact : Index(f).exact[p] \in 0..(f.count - 1)
<1> DEFINE n == f.count
           word == [id \in 0..(n - 1) |-> WordAt(f, f.size, id)]
           D == {word[id] : id \in DOMAIN word}
           Last(p, id) == word[id] = p /\ \A j \in DOMAIN word : word[j] = p => j <= id
           B == [id \in DOMAIN word |-> Bucket(word[id])]
           E == [p \in D |-> CHOOSE id \in DOMAIN word : Last(p, id)]
<1>1. n \in Nat /\ f.size \in Nat /\ f.cells \in Words /\ DOMAIN word = 0..(n - 1)
  BY DEF BrainFiles
<1>2. \A id \in 0..(n - 1) : word[id] \in Words
  <2> SUFFICES ASSUME NEW id \in 0..(n - 1) PROVE WordAt(f, f.size, id) \in Words
    OBVIOUS
  <2>1. id \in Nat /\ (id + 1) * f.size <= Len(f.cells)
    BY <1>1, WordsOfType
  <2>. QED
    BY <1>1, <2>1, WordAtIs
<1>3. Index(f) = [size |-> f.size, count |-> n, stale |-> FALSE, buckets |-> B, exact |-> E]
  BY DEF Index
<1> HIDE DEF word
<1>4. B \in Maps(Nat)
  <2>1. \A id \in 0..(n - 1) : Bucket(word[id]) \in Nat
    BY <1>2 DEF Bucket, Words
  <2>2. DOMAIN B \subseteq Nat /\ B \in [DOMAIN B -> Nat]
    BY <1>1, <2>1
  <2>. QED
    BY <2>2, MapsAre
<1>5. ASSUME NEW p \in D PROVE \E id \in DOMAIN word : Last(p, id)
  <2> DEFINE S == {n - id : id \in {j \in 0..(n - 1) : word[j] = p}}
  <2>1. PICK j \in 0..(n - 1) : word[j] = p
    BY <1>1, <1>5
  <2>2. n - j \in S /\ S \in SUBSET Nat
    BY <1>1, <2>1
  <2>3. PICK m \in S : \A x \in S : m <= x
    BY <2>2, LeastNatural
  <2>4. PICK id \in 0..(n - 1) : word[id] = p /\ m = n - id
    BY <2>3
  <2>5. ASSUME NEW i \in 0..(n - 1), word[i] = p PROVE i <= id
    <3>1. n - i \in S
      BY <2>5
    <3>2. m <= n - i
      BY <2>3, <3>1
    <3> HIDE DEF n
    <3>. QED
      BY <1>1, <2>4, <3>2
  <2>. QED
    BY <1>1, <2>4, <2>5
<1>6. \A p \in D : E[p] \in 0..(n - 1)
  <2> SUFFICES ASSUME NEW p \in D PROVE (CHOOSE id \in DOMAIN word : Last(p, id)) \in 0..(n - 1)
    OBVIOUS
  <2>1. \E id \in DOMAIN word : Last(p, id)
    BY <1>5
  <2> HIDE DEF Last
  <2>2. (CHOOSE id \in DOMAIN word : Last(p, id)) \in DOMAIN word
    BY <2>1
  <2>. QED
    BY <1>1, <2>2
<1>7. DOMAIN E = D /\ D \subseteq Words
  BY <1>1, <1>2
<1> HIDE DEF E, D, B
<1>8. E \in Maps(Words)
  <2>1. \A i \in 0..(n - 1) : i \in Nat
    BY <1>1
  <2>2. E = [p \in D |-> E[p]]
    BY DEF E
  <2>3. E \in [DOMAIN E -> Nat]
    BY <1>6, <1>7, <2>1, <2>2
  <2>. QED
    BY <1>7, <2>3, MapsAre
<1>9. Index(f) \in Readers
  <2>1. FALSE \in BOOLEAN
    OBVIOUS
  <2>. QED
    BY <1>1, <1>3, <1>4, <1>8, <2>1 DEF Readers
<1>10. Index(f).size = f.size /\ Index(f).count = f.count /\ Index(f).exact = E
  BY <1>3
<1>. QED
  BY <1>6, <1>7, <1>9, <1>10

SearchInv == SearchShape /\ OpenedAs /\ AnswersOK

LEMMA SearchStart ==
    ASSUME Init
    PROVE  SearchInv
<1>1. /\ pack = "closed" /\ reader = Closed /\ seen = 0 /\ freq = << >> /\ allowed = << >>
      /\ cache = << >> /\ find = [w \in Workers |-> Ready]
  BY DEF Init, SearchInit
<1>2. reader \in Readers /\ DOMAIN reader.exact = {}
  <2>1. DOMAIN << >> = {} /\ << >> \in [DOMAIN << >> -> Nat]
    OBVIOUS
  <2>2. << >> \in Maps(Nat) /\ << >> \in Maps(Words)
    BY <2>1, MapsAre
  <2>3. Closed \in Readers /\ Closed.exact = << >>
    BY <2>2 DEF Closed, Readers
  <2>. QED
    BY <1>1, <2>1, <2>3
<1>3. Ready \in Finds /\ Ready.pc = "ready"
  BY EmptyWord DEF Ready, Finds
<1>4. << >> \in Seq(Ids(reader)) /\ DOMAIN << >> = {} /\ 0 \in 0..Len(Input)
  BY SearchAssumption
<1>5. ReaderShape
  BY <1>1, <1>2, <1>4 DEF ReaderShape
<1>6. AnswerShape
  BY <1>1, <1>3, <1>4 DEF AnswerShape
<1>7. Passes
  BY <1>1, <1>4 DEF Passes
<1>. QED
  BY <1>1, <1>5, <1>6, <1>7 DEF SearchInv, SearchShape, OpenedAs, AnswersOK

LEMMA SearchOfTrain ==
    ASSUME TrainShape, SearchInv, Train
    PROVE  SearchInv'
<1>1. /\ UNCHANGED <<pack, seen, freq, allowed, cache, find>>
      /\ reader' = [reader EXCEPT !.stale = @ \/ (pack # "closed" /\ brain' # brain)]
      /\ reader \in Readers
  BY DEF Train, SearchInv, SearchShape, ReaderShape
<1> DEFINE b == reader.stale \/ (pack # "closed" /\ brain' # brain)
<1>2. b \in BOOLEAN /\ reader' = [reader EXCEPT !.stale = b]
  BY <1>1
<1> HIDE DEF b
<1>3. /\ reader' \in Readers /\ reader'.size = reader.size /\ reader'.count = reader.count
      /\ reader'.buckets = reader.buckets /\ reader'.exact = reader.exact /\ reader'.stale = b
  BY <1>1, <1>2 DEF Readers
<1>4. SearchShape'
  <2>1. Ids(reader)' = Ids(reader) /\ Allowed' = Allowed
    BY <1>1, <1>3 DEF Ids, Allowed
  <2>. QED
    BY <1>1, <1>3, <2>1 DEF SearchInv, SearchShape, ReaderShape, AnswerShape, Passes
<1>5. ASSUME pack # "closed", ~reader'.stale PROVE ~reader.stale /\ brain' = brain
  BY <1>3, <1>5 DEF b
<1>6. OpenedAs'
  BY <1>1, <1>3, <1>5 DEF SearchInv, OpenedAs
<1>7. AnswersOK'
  <2>1. Allowed' = Allowed
    BY <1>1 DEF Allowed
  <2>. QED
    BY <1>1, <1>3, <1>5, <2>1 DEF SearchInv, AnswersOK, CacheOK, FindsOK, AnswerOK
<1>. QED
  BY <1>4, <1>6, <1>7 DEF SearchInv

LEMMA SearchOfOpenBrain ==
    ASSUME TrainShape, SearchInv, OpenBrain, UNCHANGED trainingVars
    PROVE  SearchInv'
<1>1. /\ pack = "closed" /\ Accepts(brain) /\ reader' = Index(brain)
      /\ allowed' = [i \in 1..brain.count |-> i - 1] /\ pack' \in {"first", "search"}
      /\ UNCHANGED <<seen, freq, cache, find, brain>>
      /\ DOMAIN cache = {} /\ DOMAIN freq = {} /\ seen = 0 /\ \A w \in Workers : find[w] = Ready
  BY DEF OpenBrain, SearchInv, SearchShape, Passes, trainingVars
<1>2. brain \in BrainFiles /\ brain.count >= 1 /\ brain.count \in Nat
  BY <1>1 DEF TrainShape, FileShape, BrainFiles, Accepts
<1>3. /\ reader' \in Readers /\ reader'.size = brain.size /\ reader'.count = brain.count
      /\ \A p \in DOMAIN reader'.exact : reader'.exact[p] \in 0..(brain.count - 1)
  BY <1>1, <1>2, IndexIs
<1>4. /\ allowed' \in Seq(Ids(reader)') /\ allowed' # << >>
      /\ Allowed' = 0..(brain.count - 1) /\ Ids(reader)' = 0..(brain.count - 1)
  <2>1. Ids(reader)' = 0..(brain.count - 1)
    BY <1>3 DEF Ids
  <2>2. allowed' \in Seq(0..(brain.count - 1)) /\ Len(allowed') = brain.count
    BY <1>1, <1>2
  <2>3. \A x \in 0..(brain.count - 1) : x + 1 \in DOMAIN allowed' /\ allowed'[x + 1] = x
    BY <1>1, <1>2
  <2>4. \A i \in DOMAIN allowed' : allowed'[i] \in 0..(brain.count - 1)
    BY <1>1, <1>2
  <2>5. Allowed' = 0..(brain.count - 1)
    BY <2>3, <2>4 DEF Allowed
  <2>. QED
    BY <1>2, <2>1, <2>2, <2>5
<1>5. ReaderShape'
  BY <1>1, <1>2, <1>3, <1>4 DEF SearchInv, SearchShape, ReaderShape
<1>6. Ready.pc = "ready" /\ Ready.chunk = << >>
  BY DEF Ready
<1>7. AnswerShape' /\ Passes'
  BY <1>1, <1>4, <1>6 DEF SearchInv, SearchShape, AnswerShape, Passes
<1>8. OpenedAs'
  BY <1>1, <1>3 DEF OpenedAs
<1>9. AnswersOK'
  BY <1>1, <1>6 DEF AnswersOK, CacheOK, FindsOK
<1>. QED
  BY <1>5, <1>7, <1>8, <1>9 DEF SearchInv, SearchShape

\* A store of a right answer.
LEMMA StoredIs ==
    ASSUME NEW c, NEW a, Stored(c, a)
    PROVE  /\ \A d \in DOMAIN cache' : \/ d = c /\ cache'[d] = a
                                       \/ d \in DOMAIN cache /\ cache'[d] = cache[d]
<1>1. CASE UNCHANGED cache
  BY <1>1
<1>2. CASE CacheStore(c, a)
  <2> DEFINE kept == IF Cardinality(DOMAIN cache) >= CacheSize THEN DOMAIN cache \ {ring[slot]}
                     ELSE DOMAIN cache
  <2>1. cache' = [k \in kept \cup {c} |-> IF k = c THEN a ELSE cache[k]] /\ kept \subseteq DOMAIN cache
    BY <1>2 DEF CacheStore
  <2> HIDE DEF kept
  <2>. QED
    BY <2>1
<1>. QED
  BY <1>1, <1>2 DEF Stored

LEMMA CacheKeeps ==
    ASSUME AnswerShape, UNCHANGED <<reader, allowed, brain>>, NEW c, NEW a \in Answers,
           a.id \in Ids(reader), Stored(c, a)
    PROVE  /\ \A d \in DOMAIN cache' : cache'[d] \in Answers /\ cache'[d].id \in Ids(reader)
           /\ (AnswerOK(c, a.id, a.dist) /\ CacheOK) => CacheOK'
<1>1. \A d \in DOMAIN cache' : \/ d = c /\ cache'[d] = a
                               \/ d \in DOMAIN cache /\ cache'[d] = cache[d]
  BY StoredIs
<1>2. \A d \in DOMAIN cache : cache[d] \in Answers /\ cache[d].id \in Ids(reader)
  BY DEF AnswerShape
<1>3. \A d \in DOMAIN cache' : cache'[d] \in Answers /\ cache'[d].id \in Ids(reader)
  BY <1>1, <1>2
<1>4. Allowed' = Allowed
  BY DEF Allowed
<1>5. (AnswerOK(c, a.id, a.dist) /\ CacheOK) => CacheOK'
  BY <1>1, <1>4 DEF CacheOK, AnswerOK
<1>. QED
  BY <1>3, <1>5

\* A chunk of the input.
LEMMA InputType ==
    ASSUME seen \in 0..Len(Input), seen < Len(Input)
    PROVE  Input[seen + 1] \in Words /\ seen + 1 \in 0..Len(Input) /\ Len(Input) # 0
BY SearchAssumption DEF Words

LEMMA SearchOfFirstPass ==
    ASSUME TrainShape, SearchInv, FirstPass, UNCHANGED trainingVars
    PROVE  SearchInv'
<1> DEFINE c == Input[seen + 1]
           used(a) == freq' = With(freq, a.id, IF a.id \in DOMAIN freq THEN freq[a.id] + 1 ELSE 1)
<1>1. /\ ReaderShape /\ AnswerShape /\ Passes /\ OpenedAs /\ AnswersOK
      /\ pack = "first" /\ seen < Len(Input) /\ seen \in 0..Len(Input) /\ UNCHANGED brain
      /\ allowed # << >> /\ reader.count >= 1 /\ \A w \in Workers : find[w] = Ready
  BY DEF SearchInv, SearchShape, ReaderShape, Passes, FirstPass, trainingVars
<1>2. c \in Words /\ seen + 1 \in 0..Len(Input)
  BY <1>1, InputType
<1>3. ASSUME NEW a, a.id \in Ids(reader), used(a)
      PROVE  DOMAIN freq' \subseteq Ids(reader) /\ DOMAIN freq' # {}
  BY <1>1, <1>3 DEF With, ReaderShape
<1>4. Ready.pc = "ready" /\ Ready.chunk = << >>
  BY DEF Ready
<1> HIDE DEF used
<1>5. ASSUME NEW a, a.id \in Ids(reader), used(a), seen' = seen + 1,
             UNCHANGED <<pack, reader, allowed, find>>,
             \A d \in DOMAIN cache' : cache'[d] \in Answers /\ cache'[d].id \in Ids(reader),
             CacheOK => CacheOK'
      PROVE  SearchInv'
  <2>1. DOMAIN freq' \subseteq Ids(reader) /\ DOMAIN freq' # {}
    BY <1>3, <1>5
  <2>2. Allowed' = Allowed
    BY <1>5 DEF Allowed
  <2>3. ReaderShape'
    BY <1>1, <1>2, <1>5, <2>1, <2>2 DEF ReaderShape
  <2>4. AnswerShape' /\ Passes'
    BY <1>1, <1>2, <1>5, <2>1 DEF AnswerShape, Passes
  <2>5. OpenedAs'
    BY <1>1, <1>5 DEF OpenedAs
  <2>6. AnswersOK'
    <3>1. FindsOK'
      BY <1>1, <1>4, <1>5 DEF FindsOK
    <3>. QED
      BY <1>1, <1>5, <3>1 DEF AnswersOK
  <2>. QED
    BY <2>3, <2>4, <2>5, <2>6 DEF SearchInv, SearchShape
<1>6. CASE /\ c \in DOMAIN cache /\ used(cache[c]) /\ seen' = seen + 1
           /\ UNCHANGED <<pack, reader, allowed, cache, ring, slot, find, twice>>
  <2>1. cache[c].id \in Ids(reader)
    BY <1>1, <1>6 DEF AnswerShape
  <2>2. CacheOK => CacheOK'
    BY <1>1, <1>6 DEF CacheOK, AnswerOK, Allowed
  <2>3. \A d \in DOMAIN cache' : cache'[d] \in Answers /\ cache'[d].id \in Ids(reader)
    BY <1>1, <1>6 DEF AnswerShape
  <2>. QED
    BY <1>5, <1>6, <2>1, <2>2, <2>3
<1>7. CASE /\ c \notin DOMAIN cache /\ \A id \in Touched(c) : Mapped(id)
           /\ used(Found(c)) /\ Stored(c, Found(c))
           /\ seen' = seen + 1 /\ UNCHANGED <<pack, reader, allowed, find>>
  <2>1. Found(c) \in Answers /\ Found(c).id \in Ids(reader) /\ AnswerOK(c, Found(c).id, Found(c).dist)
    BY <1>1, <1>2, <1>7, FoundIs
  <2> DEFINE a == Found(c)
  <2> HIDE DEF a, c
  <2>2. a \in Answers /\ a.id \in Ids(reader) /\ AnswerOK(c, a.id, a.dist) /\ used(a) /\ Stored(c, a)
    BY <1>7, <2>1 DEF a
  <2>3. /\ \A d \in DOMAIN cache' : cache'[d] \in Answers /\ cache'[d].id \in Ids(reader)
        /\ CacheOK => CacheOK'
    BY <1>1, <1>7, <2>2, CacheKeeps
  <2>. QED
    BY <1>5, <1>7, <2>2, <2>3
<1>8. CASE Bus
  <2>1. /\ pack' = "dead" /\ UNCHANGED <<reader, seen, freq, allowed, cache, find>>
    BY <1>8 DEF Bus
  <2>. QED
    BY <1>1, <2>1 DEF SearchInv, SearchShape, ReaderShape, AnswerShape, Passes, OpenedAs, AnswersOK,
                      Allowed, Ids
<1>. QED
  BY <1>6, <1>7, <1>8 DEF FirstPass, used

\* The codewords Restrict keeps.
LEMMA TopUsedType ==
    ASSUME ReaderShape, NEW s \in TopUsed
    PROVE  s \in Seq(Ids(reader)) /\ (DOMAIN freq # {} => s # << >>)
<1> DEFINE D == DOMAIN freq
           n == Smaller(TopLimit, Cardinality(D))
<1>1. reader.count \in Nat /\ D \subseteq 0..(reader.count - 1)
  BY DEF ReaderShape, Readers, Ids
<1>2. IsFiniteSet(D) /\ Cardinality(D) \in Nat
  <2>1. IsFiniteSet(0..(reader.count - 1))
    BY <1>1, FS_Interval
  <2>. QED
    BY <1>1, <2>1, SubsetSize
<1>3. s \in [1..n -> D]
  BY DEF TopUsed
<1>4. D # {} => Cardinality(D) # 0
  BY <1>2, FS_EmptySet
<1> HIDE DEF D
<1>5. n \in Nat /\ (D # {} => n # 0)
  BY <1>2, <1>4, SearchAssumption DEF Smaller
<1> HIDE DEF n
<1>6. s \in [1..n -> Ids(reader)]
  BY <1>1, <1>3 DEF Ids
<1>7. s \in Seq(Ids(reader)) /\ Len(s) = n
  BY <1>5, <1>6
<1>. QED
  BY <1>5, <1>7 DEF D

LEMMA SearchOfEndFirstPass ==
    ASSUME TrainShape, SearchInv, EndFirstPass, UNCHANGED trainingVars
    PROVE  SearchInv'
<1>1. /\ ReaderShape /\ AnswerShape /\ Passes /\ OpenedAs
      /\ pack = "first" /\ seen = Len(Input) /\ UNCHANGED <<brain, find>>
      /\ pack' = "search" /\ seen' = 0 /\ freq' = << >>
      /\ reader.count >= 1 /\ \A w \in Workers : find[w] = Ready
  BY DEF SearchInv, SearchShape, ReaderShape, Passes, EndFirstPass, trainingVars
<1>2. PICK s \in TopUsed : RestrictTo(s)
  BY DEF EndFirstPass
<1>3. s \in Seq(Ids(reader)) /\ (Len(Input) # 0 => s # << >>)
  <2>1. Len(Input) # 0 => seen > 0
    BY <1>1, SearchAssumption
  <2>. QED
    BY <1>1, <2>1, TopUsedType DEF Passes
<1> DEFINE X == reader.exact
           Y == [p \in {q \in DOMAIN X : \E i \in DOMAIN s : s[i] = X[q]} |-> X[p]]
<1>4. allowed' = s /\ cache' = << >> /\ reader' = [reader EXCEPT !.exact = Y] /\ reader \in Readers
  BY <1>1, <1>2 DEF RestrictTo, ReaderShape
<1>5. X \in Maps(Words)
  BY <1>4 DEF Readers
<1>6. DOMAIN X \subseteq Words /\ X \in [DOMAIN X -> Nat]
  BY <1>5, MapsAre
<1> HIDE DEF X
<1>7. DOMAIN Y \subseteq Words /\ Y \in [DOMAIN Y -> Nat]
  BY <1>6
<1>8. \A p \in DOMAIN Y : \E i \in DOMAIN s : s[i] = Y[p]
  OBVIOUS
<1>9. Y \in Maps(Words)
  BY <1>7, MapsAre
<1> HIDE DEF Y
<1>10. /\ reader' \in Readers /\ reader'.size = reader.size /\ reader'.count = reader.count
       /\ reader'.exact = Y /\ reader'.stale = reader.stale
  BY <1>4, <1>9 DEF Readers
<1>11. Ids(reader)' = Ids(reader)
  BY <1>10 DEF Ids
<1>12. ReaderShape'
  <2>1. \A p \in DOMAIN Y : Y[p] \in Allowed'
    BY <1>4, <1>8 DEF Allowed
  <2>2. 0 \in 0..Len(Input)
    BY SearchAssumption
  <2>. QED
    BY <1>1, <1>3, <1>4, <1>10, <1>11, <2>1, <2>2 DEF ReaderShape
<1>13. Ready.pc = "ready" /\ Ready.chunk = << >>
  BY DEF Ready
<1>14. DOMAIN cache' = {}
  BY <1>4
<1>15. AnswerShape' /\ Passes'
  BY <1>1, <1>3, <1>4, <1>13, <1>14 DEF AnswerShape, Passes
<1>16. OpenedAs'
  BY <1>1, <1>10 DEF OpenedAs
<1>17. AnswersOK'
  BY <1>1, <1>13, <1>14 DEF AnswersOK, CacheOK, FindsOK
<1>. QED
  BY <1>12, <1>15, <1>16, <1>17 DEF SearchInv, SearchShape

\* An exact word is an answer.
LEMMA ExactIs ==
    ASSUME TrainShape, ReaderShape, OpenedAs, pack # "closed", ~reader.stale,
           NEW c \in Words, NEW id \in Allowed, Word(id) = c
    PROVE  AnswerOK(c, id, 0)
<1>1. Allowed \subseteq Ids(reader)
  BY AllowedIs
<1>2. Pool(c) \subseteq Allowed
  BY CandidatesAre
<1>3. Distance(c, Word(id)) = 0
  BY DistanceType
<1>4. ASSUME NEW x \in Pool(c) PROVE 0 <= Distance(c, Word(x))
  <2>1. Word(x) \in Words
    BY <1>1, <1>2, AllMapped
  <2>2. Distance(c, Word(x)) \in Nat
    BY <2>1, DistanceType
  <2>. QED
    BY <2>2
<1>5. 0 = Distance(c, WordAt(brain, reader.size, id))
  BY <1>3 DEF Word
<1>6. \A x \in Pool(c) : 0 <= Distance(c, WordAt(brain, reader.size, x))
  BY <1>4 DEF Word
<1>. QED
  BY ONLY <1>5, <1>6, id \in Allowed, Zenon DEF AnswerOK, Right, Pool

LEMMA SearchOfFind ==
    ASSUME TrainShape, SearchInv, NEW w \in Workers, Find(w), UNCHANGED trainingVars
    PROVE  SearchInv'
<1> DEFINE c == Input[seen + 1]
           Set(pc, a) == find' = [find EXCEPT ![w] = [chunk |-> c, pc |-> pc, id |-> a.id,
                                                      dist |-> a.dist]]
<1>1. /\ ReaderShape /\ AnswerShape /\ Passes /\ OpenedAs /\ AnswersOK
      /\ pack = "search" /\ seen < Len(Input) /\ seen \in 0..Len(Input) /\ UNCHANGED brain
      /\ reader.count >= 1 /\ seen' = seen + 1
      /\ UNCHANGED <<reader, freq, allowed, cache, ring, slot, twice>>
  BY DEF SearchInv, SearchShape, ReaderShape, Passes, Find, trainingVars
<1>2. c \in Words /\ seen + 1 \in 0..Len(Input) /\ Len(Input) # 0
  BY <1>1, InputType
<1>3. allowed # << >>
  BY <1>1, <1>2 DEF Passes
<1>4. find \in [Workers -> Finds]
  BY <1>1 DEF AnswerShape
<1>5. Allowed' = Allowed /\ Ids(reader)' = Ids(reader)
  BY <1>1 DEF Allowed, Ids
<1>6. CacheOK => CacheOK'
  BY <1>1, <1>5 DEF CacheOK, AnswerOK
<1> HIDE DEF c
<1>7. ASSUME UNCHANGED pack, NEW pc \in {"ready", "store"}, NEW a \in Answers, a.id \in Ids(reader),
             ~reader.stale => AnswerOK(c, a.id, a.dist), Set(pc, a)
      PROVE  SearchInv'
  <2> DEFINE f == [chunk |-> c, pc |-> pc, id |-> a.id, dist |-> a.dist]
  <2>1. f \in Finds /\ f.chunk = c /\ f.pc = pc /\ f.id = a.id /\ f.dist = a.dist
    BY <1>2, <1>7 DEF Finds, Answers
  <2>2. find' = [find EXCEPT ![w] = f]
    BY <1>7
  <2> HIDE DEF f
  <2>3. find' \in [Workers -> Finds] /\ find'[w] = f /\ \A v \in Workers : v # w => find'[v] = find[v]
    BY <1>4, <2>1, <2>2
  <2>4. ReaderShape' /\ Passes'
    BY <1>1, <1>2, <1>3, <1>5, <1>7 DEF ReaderShape, Passes
  <2>5. AnswerShape'
    <3>1. \A v \in Workers : find'[v].pc = "store" => find'[v].id \in Ids(reader)
      BY <1>1, <1>7, <2>1, <2>3 DEF AnswerShape
    <3>. QED
      BY <1>1, <1>5, <2>3, <3>1 DEF AnswerShape
  <2>6. OpenedAs'
    BY <1>1, <1>7 DEF OpenedAs
  <2>7. ASSUME ~reader.stale PROVE FindsOK'
    <3>1. FindsOK
      BY <1>1, <2>7 DEF AnswersOK
    <3> SUFFICES ASSUME NEW v \in Workers, find'[v].pc = "store" \/ find'[v].chunk # << >>
                 PROVE  Right(brain, reader.size, reader.buckets, Allowed,
                              find'[v].chunk, find'[v].id, find'[v].dist)
      BY <1>1, <1>5 DEF FindsOK, AnswerOK
    <3>2. CASE v = w
      BY <1>7, <2>1, <2>3, <2>7, <3>2 DEF AnswerOK
    <3>3. CASE v # w
      BY <2>3, <3>1, <3>3 DEF FindsOK, AnswerOK
    <3>. QED
      BY <3>2, <3>3
  <2>8. AnswersOK'
    BY <1>1, <1>6, <1>7, <2>7 DEF AnswersOK
  <2>. QED
    BY <2>4, <2>5, <2>6, <2>8 DEF SearchInv, SearchShape
<1>8. CASE pack' = "dead" /\ UNCHANGED find
  BY <1>1, <1>2, <1>5, <1>8 DEF SearchInv, SearchShape, ReaderShape, AnswerShape, Passes, OpenedAs,
                                AnswersOK
<1>9. CASE /\ Exactly(c) /\ Mapped(reader.exact[c]) /\ Word(reader.exact[c]) = c
           /\ Set("ready", [id |-> reader.exact[c], dist |-> 0]) /\ UNCHANGED pack
  <2> DEFINE x == reader.exact[c]
             a == [id |-> x, dist |-> 0]
  <2>1. x \in Allowed
    BY <1>1, <1>9 DEF Exactly, ReaderShape
  <2>2. x \in Ids(reader) /\ x \in Nat
    BY <1>1, <2>1, AllowedIs
  <2>3. Word(x) = c /\ Set("ready", a)
    BY <1>9
  <2> HIDE DEF x, Set
  <2>4. a \in Answers /\ a.id = x /\ a.dist = 0
    BY <2>2 DEF Answers
  <2> HIDE DEF a
  <2>5. ~reader.stale => AnswerOK(c, x, 0)
    BY <1>1, <1>2, <2>1, <2>3, ExactIs
  <2>. QED
    BY <1>7, <1>9, <2>2, <2>3, <2>4, <2>5
<1>10. CASE c \in DOMAIN cache /\ Set("ready", cache[c]) /\ UNCHANGED pack
  <2>1. cache[c] \in Answers /\ cache[c].id \in Ids(reader)
    BY <1>1, <1>10 DEF AnswerShape
  <2>2. ~reader.stale => AnswerOK(c, cache[c].id, cache[c].dist)
    BY <1>1, <1>10 DEF AnswersOK, CacheOK
  <2> HIDE DEF Set
  <2>. QED
    BY <1>7, <1>10, <2>1, <2>2
<1>11. CASE /\ c \notin DOMAIN cache /\ \A id \in Touched(c) : Mapped(id)
            /\ Set("store", Found(c)) /\ UNCHANGED pack
  <2>1. Found(c) \in Answers /\ Found(c).id \in Ids(reader) /\ AnswerOK(c, Found(c).id, Found(c).dist)
    BY <1>1, <1>2, <1>3, <1>11, FoundIs
  <2> HIDE DEF Set
  <2>. QED
    BY <1>7, <1>11, <2>1
<1>. QED
  BY <1>8, <1>9, <1>10, <1>11 DEF Find, c

LEMMA SearchOfStore ==
    ASSUME TrainShape, SearchInv, NEW w \in Workers, Store(w), UNCHANGED trainingVars
    PROVE  SearchInv'
<1> DEFINE f == find[w]
           a == [id |-> f.id, dist |-> f.dist]
<1>1. /\ ReaderShape /\ AnswerShape /\ Passes /\ OpenedAs /\ AnswersOK
      /\ pack = "search" /\ UNCHANGED brain /\ UNCHANGED <<pack, reader, seen, freq, allowed>>
      /\ f.pc = "store" /\ Stored(f.chunk, a) /\ find \in [Workers -> Finds] /\ f.id \in Ids(reader)
      /\ find' = [find EXCEPT ![w].pc = "ready"]
  BY DEF SearchInv, SearchShape, AnswerShape, Store, trainingVars
<1>2. f \in Finds /\ a \in Answers /\ a.id = f.id /\ a.dist = f.dist
  BY <1>1 DEF Finds, Answers
<1>3. Allowed' = Allowed /\ Ids(reader)' = Ids(reader)
  BY <1>1 DEF Allowed, Ids
<1> DEFINE g == [f EXCEPT !.pc = "ready"]
<1>4. find' = [find EXCEPT ![w] = g]
  BY <1>1
<1> HIDE DEF f, a
<1>5. g \in Finds /\ g.chunk = f.chunk /\ g.pc = "ready" /\ g.id = f.id /\ g.dist = f.dist
  BY <1>2 DEF Finds
<1> HIDE DEF g
<1>6. find' \in [Workers -> Finds] /\ find'[w] = g /\ \A v \in Workers : v # w => find'[v] = find[v]
  BY <1>1, <1>4, <1>5
<1>7. /\ \A d \in DOMAIN cache' : cache'[d] \in Answers /\ cache'[d].id \in Ids(reader)
      /\ (AnswerOK(f.chunk, a.id, a.dist) /\ CacheOK) => CacheOK'
  BY <1>1, <1>2, CacheKeeps
<1>8. ReaderShape' /\ Passes' /\ OpenedAs'
  BY <1>1, <1>3 DEF ReaderShape, Passes, OpenedAs
<1>9. AnswerShape'
  <2>1. \A v \in Workers : find'[v].pc = "store" => find'[v].id \in Ids(reader)
    BY <1>1, <1>5, <1>6 DEF AnswerShape
  <2>. QED
    BY <1>3, <1>6, <1>7, <2>1 DEF AnswerShape
<1>10. ASSUME ~reader.stale PROVE CacheOK' /\ FindsOK'
  <2>1. CacheOK /\ FindsOK
    BY <1>1, <1>10 DEF AnswersOK
  <2>2. AnswerOK(f.chunk, f.id, f.dist)
    BY <1>1, <2>1 DEF FindsOK, f
  <2>3. FindsOK'
    <3> SUFFICES ASSUME NEW v \in Workers, find'[v].pc = "store" \/ find'[v].chunk # << >>
                 PROVE  Right(brain, reader.size, reader.buckets, Allowed,
                              find'[v].chunk, find'[v].id, find'[v].dist)
      BY <1>1, <1>3 DEF FindsOK, AnswerOK
    <3>1. CASE v = w
      BY <1>5, <1>6, <2>2, <3>1 DEF AnswerOK
    <3>2. CASE v # w
      BY <1>6, <2>1, <3>2 DEF FindsOK, AnswerOK
    <3>. QED
      BY <3>1, <3>2
  <2>. QED
    BY <1>2, <1>7, <2>1, <2>2, <2>3
<1>11. AnswersOK'
  BY <1>1, <1>10 DEF AnswersOK
<1>. QED
  BY <1>8, <1>9, <1>11 DEF SearchInv, SearchShape

BrainInv == TrainShape /\ FileInv /\ CacheInv /\ SearchInv

LEMMA BrainStart ==
    ASSUME Init
    PROVE  BrainInv
BY TrainInit, FileStart, CacheStart, SearchStart DEF Init, BrainInv

LEMMA BrainStep ==
    ASSUME BrainInv, [Next]_vars
    PROVE  BrainInv'
<1>1. TrainShape /\ FileInv /\ CacheInv /\ SearchInv
  BY DEF BrainInv
<1>2. CacheInv'
  BY <1>1, CacheStep
<1>3. ASSUME UNCHANGED trainingVars PROVE TrainShape' /\ FileInv'
  <2>1. TrainShape'
    BY <1>1, <1>3, ShapeUntouched
  <2>2. UNCHANGED <<phase, selected, brain, intended>>
    BY <1>3 DEF trainingVars
  <2>. QED
    BY <1>1, <2>1, <2>2 DEF FileInv, Described, WrittenOf, Writing
<1>4. CASE Train
  <2>1. TrainingStep
    BY <1>4 DEF Train
  <2>. QED
    BY <1>1, <1>2, <1>4, <2>1, ShapeStep, FileStep, SearchOfTrain DEF BrainInv
<1>5. CASE Search
  <2>1. UNCHANGED trainingVars
    BY <1>5 DEF Search
  <2>2. SearchInv'
    BY <1>1, <1>5, <2>1, SearchOfOpenBrain, SearchOfFirstPass, SearchOfEndFirstPass, SearchOfFind,
       SearchOfStore DEF Search
  <2>. QED
    BY <1>2, <1>3, <2>1, <2>2 DEF BrainInv
<1>6. CASE UNCHANGED vars
  <2>1. UNCHANGED trainingVars /\ UNCHANGED searchVars /\ UNCHANGED brain
    BY <1>6 DEF vars, trainingVars
  <2>2. SearchInv'
    BY <1>1, <2>1 DEF searchVars, SearchInv, SearchShape, ReaderShape, AnswerShape, Passes, OpenedAs,
                      AnswersOK, CacheOK, FindsOK, AnswerOK, Allowed, Ids
  <2>. QED
    BY <1>2, <1>3, <2>1, <2>2 DEF BrainInv
<1>. QED
  BY <1>4, <1>5, <1>6 DEF Next

LEMMA BrainAlways == Spec => []BrainInv
<1>1. Init => BrainInv
  BY BrainStart
<1>2. BrainInv /\ [Next]_vars => BrainInv'
  BY BrainStep
<1>. QED
  BY <1>1, <1>2, PTL DEF Spec

LEMMA TypesHold == BrainInv => TypeOK
<1> SUFFICES ASSUME BrainInv PROVE TypeOK
  OBVIOUS
<1>1. /\ WorkerShape /\ CorpusShape /\ TableShape /\ ChoiceShape /\ ReaderShape /\ AnswerShape
      /\ slot \in 1..CacheSize
  BY DEF BrainInv, TrainShape, SearchInv, SearchShape, CacheInv
<1>2. \A p \in DOMAIN table : table[p] \in Entries /\ Len(p) = ChunkSize
  BY <1>1, TablesAre DEF TableShape, TableType
<1>3. \A id \in DOMAIN freq \cup Allowed : id \in Ids(reader)
  BY <1>1, AllowedIs DEF ReaderShape
<1>4. \A c \in DOMAIN cache : cache[c].id \in Ids(reader)
  BY <1>1 DEF AnswerShape
<1>5. left \subseteq DOMAIN table /\ Len(picked) <= MaxCodewords /\ Len(selected) <= MaxCodewords
  BY <1>1 DEF TableShape, ChoiceShape
<1>. QED
  BY <1>1, <1>2, <1>3, <1>4, <1>5 DEF TypeOK, CorpusShape, ReaderShape

(* The types of the trainer and the search: however many workers count, whatever
   brain was there and whatever Merge, Restrict and the workers of a pack do, the
   selection stays within MaxCodewords and every ID the search holds, in its
   frequencies, its allowed codewords and its cache, is one of the opened brain. *)
THEOREM BrainTypes == Spec => []TypeOK
BY BrainAlways, TypesHold, PTL

LEMMA WholeHolds == BrainInv => OpenedIsWhole
<1> SUFFICES ASSUME BrainInv, pack # "closed", ~reader.stale, Uniform(intended)
             PROVE  /\ reader.count = Len(intended)
                    /\ \A id \in Ids(reader) : Mapped(id) /\ Word(id) = intended[id + 1]
  BY DEF OpenedIsWhole
<1>1. /\ TrainShape /\ FileInv /\ Accepts(brain) /\ brain.size = reader.size
      /\ brain.count = reader.count
  BY DEF BrainInv, SearchInv, OpenedAs
<1>2. brain \in BrainFiles /\ intended \in Seq(Words) /\ brain.header
  BY <1>1 DEF TrainShape, FileShape, Accepts
<1>3. Described(brain, intended) /\ WrittenOf(brain.cells, intended)
  BY <1>1, <1>2, FileHolds
<1>4. /\ brain.count = Len(intended)
      /\ \A id \in 0..(brain.count - 1) : /\ (id + 1) * brain.size <= Len(brain.cells)
                                          /\ WordAt(brain, brain.size, id) = intended[id + 1]
  BY <1>1, <1>2, <1>3, AcceptedIsWhole
<1>. QED
  BY <1>1, <1>4 DEF Ids, Mapped, Word

(* Open and WriteCodebook: a brain that Open accepts, written by any trainer that
   ran, runs or failed at any byte, holds under each ID the pattern it is meant
   to hold, as long as the patterns have one size that fits the header's 16 bits
   and nothing wrote to it since. *)
THEOREM WholeBrain == Spec => []OpenedIsWhole
BY BrainAlways, WholeHolds, PTL

\* The codewords a search compares are IDs of the opened brain.
LEMMA TouchedAre ==
    ASSUME ReaderShape, pack # "closed", NEW c
    PROVE  Touched(c) \subseteq Ids(reader)
<1>1. 0 \in Ids(reader)
  BY DEF ReaderShape, Readers, Ids
<1>2. Candidates(c) \in Seq(Ids(reader))
  BY CandidatesAre
<1>. QED
  BY <1>1, <1>2 DEF Touched

\* No step but one on a rewritten brain ends the pack.
LEMMA DeathStep ==
    ASSUME BrainInv, DiesOnlyIfRewritten, [Next]_vars
    PROVE  DiesOnlyIfRewritten'
<1>1. TrainShape /\ ReaderShape /\ OpenedAs /\ reader \in Readers
  BY DEF BrainInv, SearchInv, SearchShape, ReaderShape
<1>2. CASE Train
  <2>1. pack' = pack /\ (reader.stale => reader'.stale)
    <3>1. pack' = pack /\ reader' = [reader EXCEPT !.stale = @ \/ (pack # "closed" /\ brain' # brain)]
      BY <1>2 DEF Train
    <3>. QED
      BY <1>1, <3>1 DEF Readers
  <2>. QED
    BY <2>1 DEF DiesOnlyIfRewritten
<1>3. CASE OpenBrain \/ EndFirstPass
  <2>1. pack' \in {"first", "search"}
    BY <1>3 DEF OpenBrain, EndFirstPass
  <2>. QED
    BY <2>1 DEF DiesOnlyIfRewritten
<1>4. CASE FirstPass
  <2>1. reader' = reader /\ pack = "first"
    BY <1>4 DEF FirstPass, Bus
  <2>2. pack' = pack \/ \E id \in Touched(Input[seen + 1]) : ~Mapped(id)
    BY <1>4 DEF FirstPass
  <2>3. CASE pack' = pack
    BY <2>1, <2>3 DEF DiesOnlyIfRewritten
  <2>4. CASE \E id \in Touched(Input[seen + 1]) : ~Mapped(id)
    <3>1. PICK id \in Ids(reader) : ~Mapped(id)
      BY <1>1, <2>1, <2>4, TouchedAre
    <3>2. reader.stale
      BY <1>1, <2>1, <3>1, AllMapped
    <3>. QED
      BY <2>1, <3>2 DEF DiesOnlyIfRewritten
  <2>. QED
    BY <2>2, <2>3, <2>4
<1>5. ASSUME NEW w \in Workers, Find(w)
      PROVE  DiesOnlyIfRewritten'
  <2> DEFINE c == Input[seen + 1]
  <2>1. reader' = reader /\ pack = "search"
    BY <1>5 DEF Find
  <2>2. \/ pack' = pack
        \/ \E id \in Touched(c) : ~Mapped(id)
        \/ Exactly(c) /\ ~Mapped(reader.exact[c])
    BY <1>5 DEF Find
  <2> HIDE DEF c
  <2>3. CASE pack' = pack
    BY <2>1, <2>3 DEF DiesOnlyIfRewritten
  <2>4. CASE pack' # pack
    <3>1. PICK id \in Ids(reader) : ~Mapped(id)
      <4>1. CASE \E id \in Touched(c) : ~Mapped(id)
        BY <1>1, <2>1, <4>1, TouchedAre
      <4>2. CASE Exactly(c) /\ ~Mapped(reader.exact[c])
        <5>1. reader.exact[c] \in Ids(reader)
          BY <1>1, <4>2, AllowedIs DEF Exactly, ReaderShape
        <5>. QED
          BY <4>2, <5>1
      <4>. QED
        BY <2>2, <2>4, <4>1, <4>2
    <3>2. reader.stale
      BY <1>1, <2>1, <3>1, AllMapped
    <3>. QED
      BY <2>1, <3>2 DEF DiesOnlyIfRewritten
  <2>. QED
    BY <2>3, <2>4
<1>6. ASSUME NEW w \in Workers, Store(w)
      PROVE  DiesOnlyIfRewritten'
  BY <1>6 DEF Store, DiesOnlyIfRewritten
<1>7. CASE UNCHANGED vars
  BY <1>7 DEF vars, searchVars, DiesOnlyIfRewritten
<1>. QED
  BY <1>2, <1>3, <1>4, <1>5, <1>6, <1>7 DEF Next, Search

(* Lookup after Open: for every brain that Open accepts, of whatever sizes and however
   its writing ended, a search asks only for codewords that are in the file, until a
   trainer writes to it again. *)
THEOREM SafeLookups == Spec => []DiesOnlyIfRewritten
<1>1. Init => DiesOnlyIfRewritten
  BY DEF Init, SearchInit, DiesOnlyIfRewritten
<1>2. BrainInv /\ DiesOnlyIfRewritten /\ [Next]_vars => DiesOnlyIfRewritten'
  BY DeathStep
<1>. QED
  BY <1>1, <1>2, BrainAlways, PTL DEF Spec

LEMMA NearestHolds == BrainInv => AnswersAreNearest
<1> SUFFICES ASSUME BrainInv, pack = "search", ~reader.stale, NEW w \in Workers, find[w].chunk # << >>
             PROVE  LET f == find[w] c == f.chunk
                        same == {id \in Allowed : reader.buckets[id] = c[1]}
                        pool == IF same = {} THEN Allowed ELSE same
                    IN  \/ f.id = 0 /\ f.dist = Len(c) /\ (c \in HighEntropy \/ reader.size >= AlignedMin)
                        \/ /\ f.id \in Allowed /\ f.dist = Distance(c, Word(f.id))
                           /\ \A id \in pool : f.dist <= Distance(c, Word(id))
  BY DEF AnswersAreNearest
<1>1. AnswerOK(find[w].chunk, find[w].id, find[w].dist)
  BY DEF BrainInv, SearchInv, AnswersOK, FindsOK
<1>. QED
  BY <1>1, Zenon DEF AnswerOK, Right, Word

(* FindBestMatch: every answer of a pack is the nearest of the codewords that may be
   used, for every brain, every input and every interleaving of the workers, the
   first pass and the restriction, also when it comes from the cache. *)
THEOREM NearestAnswers == Spec => []AnswersAreNearest
BY BrainAlways, NearestHolds, PTL

-----------------------------------------------------------------------------
(* selectPicked takes the most frequent patterns first. *)

InBucket(ps, b) == {i \in 1..Len(ps) : Bucket(ps[i]) = b}
Rivals(ps, T, p) == {i \in 1..Len(ps) : T[ps[i]].count >= T[p].count /\ Bucket(ps[i]) = Bucket(p)}
Chosen(ps, p) == \E i \in 1..Len(ps) : ps[i] = p
Filled(ps, T, p) == Cardinality(Rivals(ps, T, p)) = PerBucket

\* What has been chosen when only L of T is left.
Elite(ps, T, L) ==
    /\ \A i \in 1..Len(ps), q \in L : T[q].count <= T[ps[i]].count
    /\ \A b \in Nat : Cardinality(InBucket(ps, b)) <= PerBucket
    /\ \A p \in DOMAIN T \ L : Chosen(ps, p) \/ Filled(ps, T, p)

\* The chosen patterns ps of a table T, in reading order.
Best(ps, T) ==
    /\ \A p \in DOMAIN T \ {ps[i] : i \in DOMAIN ps} :
          LET better == {i \in DOMAIN ps : T[ps[i]].count >= T[p].count}
              rivals == {i \in better : Bucket(ps[i]) = Bucket(p)}
          IN  \/ Cardinality(rivals) = PerBucket
              \/ Len(ps) = MaxCodewords /\ better = DOMAIN ps
    /\ \A b \in {Bucket(ps[i]) : i \in DOMAIN ps} :
          Cardinality({i \in DOMAIN ps : Bucket(ps[i]) = b}) <= PerBucket
    /\ \A i, j \in DOMAIN ps : i < j => T[ps[i]].first <= T[ps[j]].first

\* The order of the brain: by bucket, then in reading order.
Numbered(qs, n, T) ==
    \A i, j \in 1..n :
        i < j => \/ Bucket(qs[i]) < Bucket(qs[j])
                 \/ Bucket(qs[i]) = Bucket(qs[j]) /\ T[qs[i]].first <= T[qs[j]].first

LEMMA BestIs ==
    ASSUME phase = "reread" => Best(picked, table) /\ Numbered(Sorted(picked), Len(picked), table),
           DOMAIN picked = 1..Len(picked)
    PROVE  EliteIsBest
BY DEF EliteIsBest, Best, Numbered

\* No worker counts any more.
Quiet == phase # "count" => \A w \in Workers : worker[w].todo = << >>

EliteInv == /\ Quiet /\ (phase = "pick" => Elite(picked, table, left))
            /\ (phase = "reread" => Best(picked, table))

\* The places of a rearranged sequence whose elements are in a set are as many.
Permutes(n, at) == /\ at \in [1..n -> 1..n]
                   /\ \A k, l \in 1..n : k # l => at[k] # at[l]
                   /\ \A i \in 1..n : \E k \in 1..n : at[k] = i

MovedTo(n, at, S) == {k \in 1..n : at[k] \in S}

LEMMA PermutedSize ==
    ASSUME NEW n \in Nat, NEW at, Permutes(n, at), NEW S, S \subseteq 1..n
    PROVE  Cardinality(MovedTo(n, at, S)) = Cardinality(S)
<1> DEFINE T == {k \in 1..n : at[k] \in S}
           g == [k \in T |-> at[k]]
<1>1. IsFiniteSet(S) /\ IsFiniteSet(T)
  <2>1. T \subseteq 1..n
    OBVIOUS
  <2> HIDE DEF T
  <2>. QED
    BY <2>1, IntervalSize, SubsetSize
<1>2. g \in [T -> S] /\ (\A k, l \in T : k # l => g[k] # g[l]) /\ \A i \in S : \E k \in T : g[k] = i
  BY DEF Permutes
<1> HIDE DEF T, g
<1>3. g \in Bijection(T, S)
  BY <1>2 DEF Bijection, Injection, Surjection, IsInjective
<1>4. ExistsBijection(T, S)
  BY <1>3 DEF ExistsBijection
<1>5. Cardinality(T) = Cardinality(S)
  BY <1>1, <1>4, FS_Bijection
<1>. QED
  BY <1>5 DEF T, MovedTo

LEMMA BucketType ==
    ASSUME NEW p \in Words
    PROVE  Bucket(p) \in Nat
BY DEF Bucket, Words

LEMMA PlacesSize ==
    ASSUME NEW n \in Nat, NEW S, S \subseteq 1..n
    PROVE  IsFiniteSet(S) /\ Cardinality(S) \in Nat
BY IntervalSize, SubsetSize

\* One more pattern is looked at.
LEMMA EliteNext ==
    ASSUME TrainShape, Elite(picked, table, left), NEW p \in Top(left, CountsOf(table))
    PROVE  Elite(IF Saturated(p) THEN picked ELSE Append(picked, p), table, left \ {p})
<1>1. /\ picked \in Seq(Words) /\ TableType(table) /\ left \subseteq DOMAIN table
      /\ \A i \in 1..Len(picked) : picked[i] \in DOMAIN table
  BY TablesAre DEF TrainShape, ChoiceShape, TableShape
<1>2. /\ p \in left /\ p \in DOMAIN table /\ p \in Words
      /\ \A q \in left : table[q].count <= table[p].count
  BY <1>1 DEF Top, CountsOf, TableType
<1>3. /\ \A q \in DOMAIN table : table[q].count \in Nat
      /\ Len(picked) \in Nat /\ Bucket(p) \in Nat /\ PerBucket \in Nat
  <2>1. \A q \in DOMAIN table : table[q] \in [count : Nat, first : Nat, data : BOOLEAN]
    BY <1>1 DEF TableType, Entries
  <2>2. PerBucket \in Nat
    BY TrainingAssumption DEF PerBucket
  <2>. QED
    BY <1>1, <1>2, <2>1, <2>2, BucketType
<1>4. Saturated(p) <=> Cardinality(InBucket(picked, Bucket(p))) >= PerBucket
  <2>1. DOMAIN picked = 1..Len(picked)
    BY <1>1
  <2>. QED
    BY <2>1 DEF Saturated, InBucket
<1>5. CASE Saturated(p)
  <2>1. Cardinality(InBucket(picked, Bucket(p))) = PerBucket
    <3>1. Cardinality(InBucket(picked, Bucket(p))) \in Nat
      BY <1>3, PlacesSize DEF InBucket
    <3>2. Cardinality(InBucket(picked, Bucket(p))) <= PerBucket
      BY <1>3 DEF Elite
    <3>. QED
      BY <1>3, <1>4, <1>5, <3>1, <3>2
  <2>2. Rivals(picked, table, p) = InBucket(picked, Bucket(p))
    BY <1>1, <1>2, <1>3 DEF Elite, Rivals, InBucket
  <2>3. Filled(picked, table, p)
    BY <2>1, <2>2 DEF Filled
  <2>4. Elite(picked, table, left \ {p})
    BY <2>3 DEF Elite
  <2>. QED
    BY <1>5, <2>4
<1>6. CASE ~Saturated(p)
  <2> DEFINE ps == Append(picked, p)
             n == Len(picked)
  <2>1. ps \in Seq(Words) /\ Len(ps) = n + 1 /\ ps[n + 1] = p /\ \A i \in 1..n : ps[i] = picked[i]
    BY <1>1, <1>2
  <2> HIDE DEF ps
  <2>2. ASSUME NEW i \in 1..(n + 1), NEW q \in left \ {p}
        PROVE  table[q].count <= table[ps[i]].count
    <3>1. CASE i = n + 1
      BY <1>2, <2>1, <3>1
    <3>2. CASE i \in 1..n
      BY <2>1, <3>2 DEF Elite
    <3>. QED
      BY <1>3, <3>1, <3>2
  <2>3. ASSUME NEW b \in Nat
        PROVE  Cardinality(InBucket(ps, b)) <= PerBucket
    <3>1. CASE b # Bucket(p)
      <4>1. InBucket(ps, b) = InBucket(picked, b)
        BY <1>3, <2>1, <3>1 DEF InBucket
      <4>. QED
        BY <4>1 DEF Elite
    <3>2. CASE b = Bucket(p)
      <4>1. InBucket(ps, b) = InBucket(picked, b) \cup {n + 1}
        BY <1>3, <2>1, <3>2 DEF InBucket
      <4>2. IsFiniteSet(InBucket(picked, b)) /\ Cardinality(InBucket(picked, b)) \in Nat
        BY <1>3, PlacesSize DEF InBucket
      <4>3. /\ Cardinality(InBucket(ps, b)) \in Nat
            /\ Cardinality(InBucket(ps, b)) <= Cardinality(InBucket(picked, b)) + 1
        BY <4>1, <4>2, AddSize
      <4>. QED
        BY <1>3, <1>4, <1>6, <3>2, <4>2, <4>3
    <3>. QED
      BY <3>1, <3>2
  <2>4. ASSUME NEW q \in DOMAIN table \ (left \ {p})
        PROVE  Chosen(ps, q) \/ Filled(ps, table, q)
    <3>0. n + 1 \in 1..(n + 1)
      BY <1>3
    <3>1. CASE q = p
      BY <2>1, <3>0, <3>1 DEF Chosen
    <3>2. CASE q # p /\ Chosen(picked, q)
      <4>1. PICK i \in 1..n : picked[i] = q
        BY <3>2 DEF Chosen
      <4>2. i \in 1..(n + 1) /\ ps[i] = q
        BY <1>3, <2>1, <4>1
      <4>. QED
        BY <2>1, <4>2 DEF Chosen
    <3>3. CASE Filled(picked, table, q)
      <4> DEFINE R == Rivals(picked, table, q)
                 S == Rivals(ps, table, q)
                 B == InBucket(ps, Bucket(q))
      <4>1. R \subseteq S /\ S \subseteq B /\ B \subseteq 1..(n + 1)
        BY <1>3, <2>1 DEF Rivals, InBucket
      <4>2. q \in Words
        BY <1>1 DEF TableType
      <4>3. Cardinality(B) <= PerBucket
        BY <2>3, <4>2, BucketType
      <4>4. Cardinality(R) = PerBucket
        BY <3>3 DEF Filled
      <4> HIDE DEF R, S, B
      <4>5. n + 1 \in Nat
        BY <1>3
      <4>6. IsFiniteSet(B)
        BY <4>1, <4>5, PlacesSize
      <4>7. IsFiniteSet(S) /\ Cardinality(S) \in Nat /\ Cardinality(B) \in Nat /\ Cardinality(S) <= Cardinality(B)
        BY <4>1, <4>6, SubsetSize
      <4>8. Cardinality(R) <= Cardinality(S)
        BY <4>1, <4>7, SubsetSize
      <4>9. Cardinality(S) = PerBucket
        BY <1>3, <4>3, <4>4, <4>7, <4>8
      <4>. QED
        BY <4>9 DEF Filled, S
    <3>. QED
      BY <3>1, <3>2, <3>3 DEF Elite
  <2>5. Elite(ps, table, left \ {p})
    BY <2>1, <2>2, <2>3, <2>4 DEF Elite
  <2>. QED
    BY <1>6, <2>5 DEF ps
<1>. QED
  BY <1>5, <1>6

\* A complete selection, in the order of first occurrence.
Selection(n, ps, T, L) ==
    /\ ps \in Seq(Words) /\ Len(ps) = n /\ n <= MaxCodewords /\ TableType(T)
    /\ \A i \in 1..n : ps[i] \in DOMAIN T
    /\ Elite(ps, T, L) /\ (L = {} \/ n = MaxCodewords)
ByFirst(n, ps, T, key, at, t) ==
    /\ \A i \in 1..n : key[i] = T[ps[i]].first
    /\ SortedAt(n, key, at)
    /\ DOMAIN t = 1..n /\ Len(t) = n /\ \A k \in 1..n : t[k] = ps[at[k]]

LEMMA BestSorted ==
    ASSUME NEW n \in Nat, NEW ps, NEW T, NEW L, Selection(n, ps, T, L),
           NEW key, NEW at, NEW t, ByFirst(n, ps, T, key, at, t)
    PROVE  Best(t, T)
<1>a. /\ ps \in Seq(Words) /\ Len(ps) = n /\ n <= MaxCodewords /\ TableType(T)
      /\ \A i \in 1..n : ps[i] \in DOMAIN T
      /\ Elite(ps, T, L) /\ (L = {} \/ n = MaxCodewords)
  BY DEF Selection
<1>b. /\ \A i \in 1..n : key[i] = T[ps[i]].first
      /\ SortedAt(n, key, at)
      /\ DOMAIN t = 1..n /\ Len(t) = n /\ \A k \in 1..n : t[k] = ps[at[k]]
  BY DEF ByFirst
<1> USE <1>a, <1>b
<1>1. /\ at \in [1..n -> 1..n] /\ \A i \in 1..n : \E k \in 1..n : at[k] = i
      /\ \A k, l \in 1..n : k < l => at[k] # at[l] /\ key[at[k]] <= key[at[l]]
  BY DEF SortedAt
<1>2. \A k, l \in 1..n : k # l => at[k] # at[l]
  <2> SUFFICES ASSUME NEW k \in 1..n, NEW l \in 1..n, k # l PROVE at[k] # at[l]
    OBVIOUS
  <2>1. k < l \/ l < k
    OBVIOUS
  <2>. QED
    BY <1>1, <2>1
<1>3. Permutes(n, at)
  BY <1>1, <1>2 DEF Permutes
<1>4. \A k \in 1..n : at[k] \in 1..n /\ t[k] = ps[at[k]] /\ ps[at[k]] \in DOMAIN T /\ ps[at[k]] \in Words
  BY <1>1
<1>5. \A q \in DOMAIN T : T[q].count \in Nat /\ T[q].first \in Nat
  <2>1. \A q \in DOMAIN T : T[q] \in [count : Nat, first : Nat, data : BOOLEAN]
    BY DEF TableType, Entries
  <2>. QED
    BY <2>1
<1>6. ASSUME NEW p \in DOMAIN T \ {t[i] : i \in DOMAIN t}
      PROVE  LET better == {i \in DOMAIN t : T[t[i]].count >= T[p].count}
                 rivals == {i \in better : Bucket(t[i]) = Bucket(p)}
             IN  \/ Cardinality(rivals) = PerBucket
                 \/ Len(t) = MaxCodewords /\ better = DOMAIN t
  <2> DEFINE better == {i \in DOMAIN t : T[t[i]].count >= T[p].count}
             rivals == {i \in better : Bucket(t[i]) = Bucket(p)}
             R == Rivals(ps, T, p)
  <2>1. ~Chosen(ps, p)
    <3> SUFFICES ASSUME NEW i \in 1..n, ps[i] = p PROVE FALSE
      BY DEF Chosen
    <3>1. PICK k \in 1..n : at[k] = i
      BY <1>1
    <3>2. t[k] = p /\ k \in DOMAIN t
      BY <3>1
    <3>. QED
      BY <3>2
  <2>2. CASE p \notin L
    <3>1. Filled(ps, T, p)
      BY <2>1, <2>2 DEF Elite
    <3>2. rivals = MovedTo(n, at, R)
      BY <1>4 DEF Rivals, MovedTo
    <3>3. R \subseteq 1..n
      BY DEF Rivals
    <3> HIDE DEF R, rivals
    <3>4. Cardinality(rivals) = Cardinality(R)
      BY ONLY <1>3, <3>2, <3>3, n \in Nat, PermutedSize
    <3>5. Cardinality(rivals) = PerBucket
      BY <3>1, <3>4 DEF Filled, R
    <3>. QED
      BY <3>5 DEF rivals
  <2>3. CASE p \in L
    <3>1. n = MaxCodewords
      BY ONLY <2>3, L = {} \/ n = MaxCodewords
    <3>2. \A i \in 1..n : T[p].count <= T[ps[i]].count
      BY <2>3 DEF Elite
    <3>3. \A k \in 1..n : T[t[k]].count >= T[p].count
      <4> SUFFICES ASSUME NEW k \in 1..n PROVE T[ps[at[k]]].count >= T[p].count
        BY <1>4
      <4>1. T[p].count <= T[ps[at[k]]].count /\ ps[at[k]] \in DOMAIN T
        BY <1>4, <3>2
      <4>. QED
        BY <1>5, <4>1
    <3>4. better = DOMAIN t
      BY <3>3
    <3>. QED
      BY <3>1, <3>4
  <2>. QED
    BY <2>2, <2>3
<1>7. ASSUME NEW b \in {Bucket(t[i]) : i \in DOMAIN t}
      PROVE  Cardinality({i \in DOMAIN t : Bucket(t[i]) = b}) <= PerBucket
  <2> DEFINE B == InBucket(ps, b)
             C == {i \in DOMAIN t : Bucket(t[i]) = b}
  <2>1. PICK k \in 1..n : b = Bucket(ps[at[k]])
    BY <1>4
  <2>2. b \in Nat
    BY <1>4, <2>1, BucketType
  <2>3. Cardinality(B) <= PerBucket
    BY <2>2 DEF Elite
  <2>4. C = MovedTo(n, at, B)
    BY <1>4 DEF InBucket, MovedTo
  <2>5. B \subseteq 1..n
    BY DEF InBucket
  <2> HIDE DEF B, C
  <2>6. Cardinality(C) = Cardinality(B)
    BY ONLY <1>3, <2>4, <2>5, n \in Nat, PermutedSize
  <2>7. Cardinality(C) <= PerBucket
    BY <2>3, <2>6
  <2>. QED
    BY <2>7 DEF C
<1>8. ASSUME NEW i \in DOMAIN t, NEW j \in DOMAIN t, i < j
      PROVE  T[t[i]].first <= T[t[j]].first
  <2>1. i \in 1..n /\ j \in 1..n
    OBVIOUS
  <2>2. key[at[i]] <= key[at[j]] /\ at[i] \in 1..n /\ at[j] \in 1..n
    BY <1>1, <1>8, <2>1
  <2>3. key[at[i]] = T[t[i]].first /\ key[at[j]] = T[t[j]].first
    BY <2>1, <2>2
  <2>. QED
    BY <2>2, <2>3
<1>. QED
  BY <1>6, <1>7, <1>8 DEF Best

OrderOf(n, s, key) == \E at : SortedAt(n, key, at) /\ StableBy(s, key) = [k \in 1..n |-> s[at[k]]]

LEMMA StableByOrder ==
    ASSUME NEW n \in Nat, NEW s, DOMAIN s = 1..n, NEW key, \A i \in 1..n : key[i] \in Int
    PROVE  OrderOf(n, s, key)
BY StableByIs DEF OrderOf

\* The end of the selection, and the sort by first occurrence.
LEMMA EliteEnds ==
    ASSUME TrainShape, Elite(picked, table, left), left = {} \/ Len(picked) = MaxCodewords
    PROVE  Best(StableBy(picked, [i \in DOMAIN picked |-> table[picked[i]].first]), table)
<1> DEFINE key == [i \in DOMAIN picked |-> table[picked[i]].first]
<1>1. PICK n \in Nat : n = Len(picked)
  BY DEF TrainShape, ChoiceShape
<1>2. /\ picked \in Seq(Words) /\ TableType(table)
      /\ \A i \in 1..n : picked[i] \in DOMAIN table
      /\ DOMAIN picked = 1..n /\ n <= MaxCodewords
  BY <1>1, TablesAre DEF TrainShape, ChoiceShape, TableShape
<1>3. \A i \in 1..n : key[i] \in Int /\ key[i] = table[picked[i]].first
  BY <1>1, <1>2, PickedKeys
<1> HIDE DEF key
<1>a. (\A i \in 1..n : key[i] \in Int) /\ (\A i \in 1..n : key[i] = table[picked[i]].first)
  BY <1>3
<1>4. PICK at : SortedAt(n, key, at) /\ StableBy(picked, key) = [k \in 1..n |-> picked[at[k]]]
  <2>1. DOMAIN picked = 1..n
    BY <1>2
  <2>2. OrderOf(n, picked, key)
    BY ONLY <1>a, <2>1, n \in Nat, StableByOrder
  <2>. QED
    BY ONLY <2>2 DEF OrderOf
<1>5. DOMAIN StableBy(picked, key) = 1..n /\ Len(StableBy(picked, key)) = n
      /\ \A k \in 1..n : StableBy(picked, key)[k] = picked[at[k]]
  BY <1>4
<1>6. Best(StableBy(picked, key), table)
  <2>1. Selection(n, picked, table, left)
    BY <1>1, <1>2 DEF Selection
  <2>2. ByFirst(n, picked, table, key, at, StableBy(picked, key))
    BY <1>a, <1>4, <1>5 DEF ByFirst
  <2>. QED
    BY ONLY <2>1, <2>2, n \in Nat, BestSorted
<1>. QED
  BY <1>6 DEF key

LEMMA EliteStep ==
    ASSUME TrainShape, EliteInv, TrainingStep
    PROVE  EliteInv'
<1>1. /\ Quiet /\ (phase = "pick" => Elite(picked, table, left))
      /\ (phase = "reread" => Best(picked, table))
  BY DEF EliteInv
<1>2. CASE ChangeFile
  BY <1>1, <1>2 DEF ChangeFile, counting, choosing, EliteInv, Quiet
<1>3. ASSUME NEW w \in Workers, OpenFile(w) \/ ReadBuffer(w) PROVE EliteInv'
  BY <1>3 DEF OpenFile, ReadBuffer, EliteInv, Quiet
<1>4. ASSUME NEW w \in Workers, CountChunk(w) PROVE EliteInv'
  <2>1. phase = "count" /\ phase' = phase
    BY <1>1, <1>4 DEF Quiet, CountChunk
  <2>. QED
    BY <2>1 DEF EliteInv, Quiet
<1>5. CASE AllCounted
  <2>1. phase' \in {"augment", "merge"} /\ worker' = worker /\ \A w \in Workers : worker[w] = Idle
    BY <1>5 DEF AllCounted, Counted, counting
  <2>2. Idle.todo = << >>
    BY DEF Idle
  <2>. QED
    BY <2>1, <2>2 DEF EliteInv, Quiet
<1>6. CASE AugmentPatterns
  <2>1. phase = "augment" /\ phase' \in {"augment", "merge"} /\ worker' = worker
    BY <1>6 DEF AugmentPatterns, counting
  <2>. QED
    BY <1>1, <2>1 DEF EliteInv, Quiet
<1>7. CASE Merge
  <2>1. /\ phase = "merge" /\ phase' \in {"pick", "failed"} /\ worker' = worker
        /\ picked' = picked /\ (phase' = "pick" => left' = DOMAIN table')
    BY <1>7 DEF Merge, counting
  <2>2. picked = << >>
    BY <2>1 DEF TrainShape, ChoiceShape
  <2>3. Elite(picked', table', DOMAIN table')
    <3>1. Len(picked') = 0
      BY <2>1, <2>2
    <3>2. PerBucket \in Nat /\ Cardinality({}) = 0
      BY TrainingAssumption, FS_EmptySet DEF PerBucket
    <3>3. ASSUME NEW b \in Nat PROVE Cardinality(InBucket(picked', b)) <= PerBucket
      <4>1. InBucket(picked', b) = {}
        BY <3>1 DEF InBucket
      <4>. QED
        BY <3>2, <4>1
    <3>. QED
      BY <3>1, <3>3 DEF Elite
  <2>. QED
    BY <1>1, <2>1, <2>3 DEF EliteInv, Quiet
<1>8. CASE SelectPicked
  <2>1. phase = "pick" /\ worker' = worker /\ table' = table /\ Elite(picked, table, left)
    BY <1>1, <1>8 DEF SelectPicked, counting
  <2>2. CASE left # {} /\ Len(picked) < MaxCodewords
    <3>1. PICK p \in Top(left, CountsOf(table)) :
             /\ left' = left \ {p}
             /\ picked' = IF Saturated(p) THEN picked ELSE Append(picked, p)
      BY <1>8, <2>2 DEF SelectPicked
    <3>2. phase' = "pick"
      BY <1>8, <2>1, <2>2 DEF SelectPicked
    <3>3. Elite(picked', table', left')
      BY <2>1, <3>1, EliteNext
    <3>. QED
      BY <1>1, <2>1, <3>2, <3>3 DEF EliteInv, Quiet
  <2>3. CASE ~(left # {} /\ Len(picked) < MaxCodewords)
    <3>1. /\ picked' = StableBy(picked, [i \in DOMAIN picked |-> table[picked[i]].first])
          /\ phase' = "reread"
      BY <1>8, <2>3 DEF SelectPicked
    <3>2. left = {} \/ Len(picked) = MaxCodewords
      <4>1. Len(picked) \in Nat /\ MaxCodewords \in Nat /\ Len(picked) <= MaxCodewords
        BY TrainingAssumption DEF TrainShape, ChoiceShape
      <4>. QED
        BY <2>3, <4>1
    <3>3. Best(picked', table')
      BY <2>1, <3>1, <3>2, EliteEnds
    <3>. QED
      BY <1>1, <2>1, <3>1, <3>3 DEF EliteInv, Quiet
  <2>. QED
    BY <2>2, <2>3
<1>9. CASE ReadPicked \/ CreateBrain \/ WriteHeader \/ WritePattern \/ WriteFails
  <2>1. worker' = worker /\ phase # "count"
    BY <1>9 DEF ReadPicked, CreateBrain, WriteHeader, WritePattern, WriteFails, counting
  <2>2. phase' \in {"create", "failed", "header", "write", "done"}
    BY <1>9 DEF ReadPicked, CreateBrain, WriteHeader, WritePattern, WriteFails
  <2>. QED
    BY <1>1, <2>1, <2>2 DEF EliteInv, Quiet
<1>. QED
  BY <1>2, <1>3, <1>4, <1>5, <1>6, <1>7, <1>8, <1>9 DEF TrainingStep

LEMMA EliteAlways == Spec => []EliteInv
<1>1. Init => EliteInv
  BY DEF Init, TrainingInit, EliteInv, Quiet
<1>2. BrainInv /\ EliteInv /\ [Next]_vars => EliteInv'
  <2> SUFFICES ASSUME BrainInv, EliteInv, [Next]_vars PROVE EliteInv'
    OBVIOUS
  <2>1. TrainShape
    BY DEF BrainInv
  <2>2. CASE TrainingStep
    BY <2>1, <2>2, EliteStep
  <2>3. CASE UNCHANGED trainingVars
    BY <2>3 DEF trainingVars, counting, choosing, EliteInv, Quiet
  <2>. QED
    BY <2>2, <2>3 DEF Next, Train, Search, vars
<1>. QED
  BY <1>1, <1>2, BrainAlways, PTL DEF Spec

\* The sort by bucket keeps the reading order inside a bucket.
LEMMA SortedNumbers ==
    ASSUME NEW ps \in Seq(Words), NEW T, \A i \in 1..Len(ps) : T[ps[i]].first \in Nat,
           \A i, j \in DOMAIN ps : i < j => T[ps[i]].first <= T[ps[j]].first
    PROVE  Numbered(Sorted(ps), Len(ps), T)
<1> DEFINE key == [i \in DOMAIN ps |-> Bucket(ps[i])]
<1>1. PICK n \in Nat : n = Len(ps)
  OBVIOUS
<1>2. /\ DOMAIN ps = 1..n /\ Sorted(ps) = StableBy(ps, key)
      /\ \A i \in 1..n : key[i] = Bucket(ps[i]) /\ ps[i] \in Words
  BY <1>1 DEF Sorted
<1>3. \A i \in 1..n : key[i] \in Nat
  BY <1>2, BucketType
<1> HIDE DEF key
<1>4. \A i \in 1..n : key[i] \in Int
  BY <1>3
<1>5. PICK at : SortedAt(n, key, at) /\ StableBy(ps, key) = [k \in 1..n |-> ps[at[k]]]
  <2>1. OrderOf(n, ps, key)
    BY ONLY <1>2, <1>4, n \in Nat, StableByOrder
  <2>. QED
    BY <2>1 DEF OrderOf
<1>6. SUFFICES ASSUME NEW i \in 1..n, NEW j \in 1..n, i < j
               PROVE  \/ Bucket(Sorted(ps)[i]) < Bucket(Sorted(ps)[j])
                      \/ /\ Bucket(Sorted(ps)[i]) = Bucket(Sorted(ps)[j])
                         /\ T[Sorted(ps)[i]].first <= T[Sorted(ps)[j]].first
  BY <1>1 DEF Numbered
<1>7. Sorted(ps)[i] = ps[at[i]] /\ Sorted(ps)[j] = ps[at[j]]
  BY <1>2, <1>5
<1>8. /\ at[i] \in 1..n /\ at[j] \in 1..n /\ key[at[i]] <= key[at[j]]
      /\ key[at[i]] < key[at[j]] \/ at[i] < at[j]
  BY <1>5, <1>6 DEF SortedAt
<1>9. /\ key[at[i]] = Bucket(ps[at[i]]) /\ key[at[j]] = Bucket(ps[at[j]])
      /\ key[at[i]] \in Nat /\ key[at[j]] \in Nat
  BY <1>2, <1>3, <1>8
<1>10. at[i] < at[j] => T[ps[at[i]]].first <= T[ps[at[j]]].first
  BY <1>2, <1>8
<1>. QED
  BY <1>7, <1>8, <1>9, <1>10

(* selectPicked and WriteCodebook: whatever the corpus and the ties, a pattern is left
   out of the brain only for others at least as frequent, enough to fill its bucket
   or the whole brain; no bucket is overfull; and the brain that is written of the
   chosen ones is numbered by bucket, in reading order only inside a bucket. *)
THEOREM BestElite == Spec => []EliteIsBest
<1>1. BrainInv /\ EliteInv => EliteIsBest
  <2> SUFFICES ASSUME BrainInv, EliteInv PROVE EliteIsBest
    OBVIOUS
  <2>1. /\ picked \in Seq(Words) /\ TableType(table)
        /\ \A i \in 1..Len(picked) : picked[i] \in DOMAIN table
    BY TablesAre DEF BrainInv, TrainShape, ChoiceShape, TableShape
  <2>2. \A i \in 1..Len(picked) : table[picked[i]].first \in Nat
    <3>1. \A q \in DOMAIN table : table[q] \in [count : Nat, first : Nat, data : BOOLEAN]
      BY <2>1 DEF TableType, Entries
    <3>. QED
      BY <2>1, <3>1
  <2>3. phase = "reread" => Best(picked, table)
    BY DEF EliteInv
  <2>4. phase = "reread" => Numbered(Sorted(picked), Len(picked), table)
    <3> SUFFICES ASSUME phase = "reread" PROVE Numbered(Sorted(picked), Len(picked), table)
      OBVIOUS
    <3>1. \A i, j \in DOMAIN picked : i < j => table[picked[i]].first <= table[picked[j]].first
      BY <2>3 DEF Best
    <3>. QED
      BY <2>1, <2>2, <3>1, SortedNumbers
  <2>5. DOMAIN picked = 1..Len(picked)
    BY <2>1
  <2>. QED
    BY <2>3, <2>4, <2>5, BestIs
<1>. QED
  BY <1>1, EliteAlways, BrainAlways, PTL

-----------------------------------------------------------------------------
(* The workers count every place of the corpus once. *)

\* Where file i begins in the numbering of the positions.
StartOf(i) == (i - 1) * Span
\* A chunk of full length begins at o in the file f.
Place(f, o) == /\ o \in Nat
               /\ (o % BufferSize) % ChunkSize = 0 /\ (o % BufferSize) + ChunkSize <= BufferSize
               /\ o + ChunkSize <= Len(f)
WordFrom(f, o) == SubSeq(f, o + 1, o + ChunkSize)
Places(cp) == {x \in (DOMAIN cp) \X (0..Span) : Place(cp[x[1]], x[2])}
WordOf(cp, x) == WordFrom(cp[x[1]], x[2])

\* The places of the file f that a worker reading it has still to count.
Unread(f, k) == {o \in Nat : /\ Place(f, o)
                             /\ \/ o >= k.pos
                                \/ \E j \in 1..Len(k.todo) : k.todo[j].at = StartOf(k.file) + o}
Free(f, i, k, o) == k.file = i => o \notin Unread(f, k)
Done(cp, nx, wk) == {x \in Places(cp) : /\ x[1] < nx
                                        /\ \A w \in Workers : Free(cp[x[1]], x[1], wk[w], x[2])}

LEMMA RemainderIs ==
    ASSUME NEW d \in Nat \ {0}, NEW a \in Nat, NEW b \in Nat, a = b * d, NEW r \in Nat, r < d
    PROVE  (a + r) \div d = b /\ (a + r) % d = r
<1> DEFINE x == a + r
           q == x \div d
           s == x % d
<1>1. x \in Nat /\ b * d <= x /\ x < b * d + d
  OBVIOUS
<1>2. q = b
  BY <1>1, QuotientIs
<1>3. x = d * q + s /\ s \in Nat
  BY <1>1
<1>4. d * b = a
  OBVIOUS
<1>5. x = a + s
  BY <1>2, <1>3, <1>4
<1> HIDE DEF s
<1>6. s = r
  BY <1>3, <1>5
<1>. QED
  BY <1>2, <1>6 DEF s

LEMMA MultiplesUpto ==
    ASSUME NEW d \in Nat \ {0}, NEW n \in Nat, NEW i \in 1..(n \div d)
    PROVE  (i - 1) * d \in Nat /\ i * d = (i - 1) * d + d /\ i * d <= n
<1> DEFINE q == n \div d
<1>1. q \in Nat /\ q * d \in Nat /\ q * d <= n
  BY Quotient
<1>2. i \in Nat /\ i <= q /\ i - 1 \in Nat
  BY <1>1
<1> HIDE DEF q
<1>3. i * d \in Nat /\ i * d <= q * d
  BY <1>1, <1>2, ProductGrows
<1>4. (i - 1) * d \in Nat /\ i * d = (i - 1) * d + d
  BY <1>2
<1> DEFINE x == i * d
           y == q * d
<1>5. x \in Nat /\ y \in Nat /\ x <= y /\ y <= n
  BY <1>1, <1>3
<1> HIDE DEF x, y
<1>6. x <= n
  BY <1>5
<1>. QED
  BY <1>4, <1>6 DEF x

\* The chunks of full length of a buffer begin at places.
LEMMA ChunkIsPlace ==
    ASSUME NEW f \in Words, NEW a \in Nat, NEW b \in Nat, a = b * BufferSize,
           NEW n \in Nat, n <= BufferSize, a + n <= Len(f),
           NEW c \in Nat, NEW j \in Nat, c = j * ChunkSize, c + ChunkSize <= n
    PROVE  Place(f, a + c)
<1> DEFINE B == BufferSize
           C == ChunkSize
<1>1. B \in Nat \ {0} /\ C \in Nat \ {0} /\ Len(f) \in Nat
  BY TrainingAssumption DEF Words
<1> HIDE DEF B, C
<1>2. c < B /\ c + C <= B /\ (a + c) + C <= Len(f) /\ a + c \in Nat
  BY <1>1 DEF B, C
<1>3. (a + c) % B = c
  BY <1>1, <1>2, RemainderIs DEF B
<1>4. c % C = 0
  <2>1. 0 \in Nat /\ 0 < C /\ c = j * C
    BY <1>1 DEF C
  <2>2. (c + 0) % C = 0
    BY ONLY <1>1, <2>1, c \in Nat, j \in Nat, RemainderIs
  <2>. QED
    BY <2>2
<1>. QED
  BY <1>2, <1>3, <1>4 DEF Place, B, C

\* And every place in the part of the file that the buffer holds begins one.
LEMMA PlaceIsChunk ==
    ASSUME NEW f \in Words, NEW a \in Nat, NEW b \in Nat, a = b * BufferSize,
           NEW n \in Nat, n = BufferSize \/ a + n = Len(f), n <= BufferSize,
           NEW o, Place(f, o), a <= o, o < a + n
    PROVE  \E i \in 1..(n \div ChunkSize) : o = a + (i - 1) * ChunkSize
<1> DEFINE B == BufferSize
           C == ChunkSize
           r == o - a
           j == r \div C
<1>1. B \in Nat \ {0} /\ C \in Nat \ {0} /\ Len(f) \in Nat
  BY TrainingAssumption DEF Words
<1>2. o \in Nat /\ (o % B) % C = 0 /\ (o % B) + C <= B /\ o + C <= Len(f)
  BY DEF Place
<1> HIDE DEF B, C
<1>3. r \in Nat /\ r < B /\ a + r = o
  BY <1>1, <1>2 DEF B
<1>4. o % B = r
  <2>1. (a + r) % B = r
    BY <1>1, <1>3, RemainderIs, ZenonT(30) DEF B
  <2>. QED
    BY <1>3, <2>1
<1>5. r % C = 0 /\ r + C <= n
  BY <1>1, <1>2, <1>3, <1>4 DEF B
<1> HIDE DEF r
<1>6. j \in Nat /\ j * C = r
  BY <1>1, <1>3, <1>5
<1> HIDE DEF j
<1>7. j + 1 <= n \div C
  <2> DEFINE m == r + C
             q == n \div C
  <2>1. m \in Nat /\ m <= n /\ j + 1 \in Nat
    BY <1>1, <1>3, <1>5, <1>6
  <2>2. (j + 1) * C = r + C
    BY <1>1, <1>6
  <2>3. m \div C = j + 1
    <3>1. (j + 1) * C <= m /\ m < (j + 1) * C + C
      <4> DEFINE p == (j + 1) * C
      <4>1. p = m
        BY <2>2
      <4> HIDE DEF p, m
      <4>2. p <= m /\ m < p + C
        BY ONLY <1>1, <2>1, <4>1
      <4>. QED
        BY <4>2 DEF p
    <3> HIDE DEF m
    <3>. QED
      BY <1>1, <2>1, <3>1, QuotientIs
  <2> HIDE DEF m
  <2>4. m \div C <= n \div C
    BY <1>1, <2>1, QuotientGrows
  <2>. QED
    BY <2>3, <2>4
<1>8. n \div C \in Nat
  BY <1>1, Quotient
<1>9. j + 1 \in 1..(n \div C) /\ o = a + ((j + 1) - 1) * C
  <2>1. (j + 1) - 1 = j
    BY <1>6
  <2>. QED
    BY <1>3, <1>6, <1>7, <1>8, <2>1
<1>. QED
  BY <1>9 DEF C

\* What is left in a worker's buffer.
TodoOK(f, k) ==
    /\ \A j \in 1..Len(k.todo) : \E o \in Nat : /\ Place(f, o) /\ o < k.pos
                                                /\ k.todo[j].at = StartOf(k.file) + o
                                                /\ k.todo[j].data = WordFrom(f, o)
    /\ \A i, j \in 1..Len(k.todo) : i < j => k.todo[i].at < k.todo[j].at

LEMMA StartType ==
    ASSUME NEW i \in Nat \ {0}
    PROVE  StartOf(i) \in Nat
<1>1. i - 1 \in Nat /\ Span \in Nat
  BY TrainingAssumption
<1>. QED
  BY <1>1 DEF StartOf

\* A buffer is read: what was to come is in the buffer or still to come.
LEMMA UnreadBuffered ==
    ASSUME NEW k \in WorkerStates, k.file # 0, k.todo = << >>, k.pos <= Len(k.data),
           NEW b \in Nat, k.pos = b * BufferSize,
           NEW n \in Nat, n <= BufferSize, k.pos + n <= Len(k.data),
           n = BufferSize \/ k.pos + n = Len(k.data),
           NEW j, j.file = k.file, j.pos = k.pos + n, j.todo = Todo(k, n)
    PROVE  Unread(k.data, j) = Unread(k.data, k) /\ TodoOK(k.data, j)
<1> DEFINE f == k.data
           a == k.pos
           C == ChunkSize
           q == n \div C
           s == StartOf(k.file)
           lo(i) == (i - 1) * C
           t == Todo(k, n)
<1>1. f \in Words /\ a \in Nat /\ Len(f) \in Nat /\ C \in Nat \ {0} /\ BufferSize \in Nat \ {0}
  BY TrainingAssumption DEF WorkerStates, Words
<1>2. s \in Nat
  BY StartType DEF WorkerStates
<1>3. q \in Nat
  BY <1>1, Quotient
<1>4. \A i \in 1..q : lo(i) \in Nat /\ i * C = lo(i) + C /\ lo(i) + C <= n
  BY <1>1, MultiplesUpto
<1>5. Len(t) = q /\ \A i \in 1..q : t[i].at = s + a + lo(i) /\ t[i].data = SubSeq(f, a + lo(i) + 1, a + i * C)
  <2> DEFINE e(i) == [at |-> (k.file - 1) * Span + k.pos + (i - 1) * ChunkSize,
                      data |-> SubSeq(k.data, k.pos + (i - 1) * ChunkSize + 1, k.pos + i * ChunkSize)]
  <2>1. t = [i \in 1..q |-> e(i)]
    BY DEF Todo
  <2>2. \A i \in 1..q : e(i).at = s + a + lo(i) /\ e(i).data = SubSeq(f, a + lo(i) + 1, a + i * C)
    BY DEF StartOf
  <2> HIDE DEF e, t, q
  <2>. QED
    BY <1>3, <2>1, <2>2
<1>6. \A i \in 1..q : a + lo(i) \in Nat /\ t[i].at = s + (a + lo(i)) /\ t[i].data = WordFrom(f, a + lo(i))
  <2> SUFFICES ASSUME NEW i \in 1..q
               PROVE  a + lo(i) \in Nat /\ t[i].at = s + (a + lo(i)) /\ t[i].data = WordFrom(f, a + lo(i))
    OBVIOUS
  <2>1. lo(i) \in Nat /\ i * C = lo(i) + C
    BY <1>4
  <2>2. t[i].at = s + a + lo(i) /\ t[i].data = SubSeq(f, a + lo(i) + 1, a + (lo(i) + C))
    BY <1>5, <2>1
  <2> HIDE DEF lo, t, s, a, f
  <2>3. a + lo(i) \in Nat /\ s + a + lo(i) = s + (a + lo(i)) /\ a + (lo(i) + C) = (a + lo(i)) + C
    <3> DEFINE p == lo(i)
    <3>1. p \in Nat /\ a \in Nat /\ s \in Nat /\ C \in Nat
      BY <1>1, <1>2, <2>1
    <3> HIDE DEF p, C
    <3>2. a + p \in Nat /\ s + a + p = s + (a + p) /\ a + (p + C) = (a + p) + C
      BY ONLY <3>1
    <3>. QED
      BY <3>2 DEF p
  <2>4. t[i].data = SubSeq(f, (a + lo(i)) + 1, (a + lo(i)) + C)
    BY <2>2, <2>3
  <2>. QED
    BY <2>2, <2>3, <2>4 DEF WordFrom
<1>7. \A i \in 1..q : Place(f, a + lo(i))
  <2> SUFFICES ASSUME NEW i \in 1..q PROVE Place(f, a + lo(i))
    OBVIOUS
  <2> DEFINE c == lo(i)
             m == i - 1
  <2>1. m \in Nat /\ c = m * ChunkSize /\ c \in Nat /\ c + ChunkSize <= n
    BY <1>3, <1>4
  <2>2. /\ f \in Words /\ a \in Nat /\ a = b * BufferSize /\ n <= BufferSize /\ a + n <= Len(f)
    BY <1>1
  <2> HIDE DEF c, m, f, a
  <2>3. Place(f, a + c)
    BY ONLY <2>1, <2>2, b \in Nat, n \in Nat, ChunkIsPlace
  <2>. QED
    BY <2>3 DEF c
<1>8. \A o : Place(f, o) /\ a <= o /\ o < a + n => \E i \in 1..q : o = a + lo(i)
  <2> SUFFICES ASSUME NEW o, Place(f, o), a <= o, o < a + n PROVE \E i \in 1..q : o = a + lo(i)
    OBVIOUS
  <2>1. /\ f \in Words /\ a \in Nat /\ a = b * BufferSize /\ n <= BufferSize
        /\ (n = BufferSize \/ a + n = Len(f)) /\ Place(f, o) /\ a <= o /\ o < a + n
    BY <1>1
  <2> HIDE DEF f, a
  <2>2. \E i \in 1..(n \div ChunkSize) : o = a + (i - 1) * ChunkSize
    BY ONLY <2>1, b \in Nat, n \in Nat, PlaceIsChunk
  <2>. QED
    BY <2>2
<1>9. \A i, l \in 1..q : i < l => lo(i) < lo(l)
  <2> SUFFICES ASSUME NEW i \in 1..q, NEW l \in 1..q, i < l PROVE lo(i) < lo(l)
    OBVIOUS
  <2>1. i \in Nat /\ l - 1 \in Nat /\ i <= l - 1
    BY <1>3
  <2>2. i * C <= (l - 1) * C
    BY <1>1, <2>1, ProductGrows
  <2>3. i * C = lo(i) + C /\ lo(i) \in Nat /\ lo(l) \in Nat /\ lo(l) = (l - 1) * C
    BY <1>4
  <2>4. lo(i) + C <= lo(l)
    BY <2>2, <2>3
  <2> HIDE DEF lo
  <2>. QED
    BY <1>1, <2>3, <2>4
<1>10. j.file = k.file /\ j.pos = a + n /\ j.todo = t /\ k.todo = << >> /\ Len(k.todo) = 0
  OBVIOUS
<1>11. \A i \in 1..q : lo(i) \in Nat /\ a + lo(i) < a + n
  BY <1>1, <1>4
<1> HIDE DEF f, a, q, s, lo, t, C
<1>12. Unread(f, j) = Unread(f, k)
  <2>1. ASSUME NEW o \in Unread(f, j) PROVE o \in Unread(f, k)
    <3>1. o \in Nat /\ Place(f, o) /\ (o >= a + n \/ \E i \in 1..q : t[i].at = s + o)
      BY <1>5, <1>10, <2>1 DEF Unread, s
    <3>2. o >= a
      BY <1>1, <1>2, <1>6, <1>11, <3>1, SMTT(20)
    <3>. QED
      BY <3>1, <3>2 DEF Unread, a
  <2>2. ASSUME NEW o \in Unread(f, k) PROVE o \in Unread(f, j)
    <3>1. o \in Nat /\ Place(f, o) /\ o >= a
      BY <1>10, <2>2 DEF Unread, a
    <3>2. o >= a + n \/ \E i \in 1..q : t[i].at = s + o
      <4>1. o >= a + n \/ (a <= o /\ o < a + n)
        BY ONLY <1>1, <3>1, n \in Nat
      <4>2. a <= o /\ o < a + n => \E i \in 1..q : o = a + lo(i)
        BY ONLY <1>8, <3>1
      <4>. QED
        BY ONLY <1>6, <4>1, <4>2, Zenon
    <3>. QED
      BY <1>5, <1>10, <3>1, <3>2 DEF Unread, s
  <2>. QED
    BY <2>1, <2>2
<1>13. TodoOK(f, j)
  <2>1. ASSUME NEW i \in 1..q
        PROVE  \E o \in Nat : Place(f, o) /\ o < a + n /\ t[i].at = s + o /\ t[i].data = WordFrom(f, o)
    BY <1>6, <1>7, <1>11
  <2>2. ASSUME NEW i \in 1..q, NEW l \in 1..q, i < l
        PROVE  t[i].at < t[l].at
    <3>1. lo(i) < lo(l) /\ lo(i) \in Nat /\ lo(l) \in Nat
      BY <1>9, <1>11, <2>2
    <3>2. t[i].at = s + (a + lo(i)) /\ t[l].at = s + (a + lo(l))
      BY <1>6
    <3>. QED
      BY <1>1, <1>2, <3>1, <3>2
  <2>. QED
    BY <1>5, <1>10, <2>1, <2>2 DEF TodoOK, s
<1>. QED
  BY <1>12, <1>13 DEF f

Counts(f, k, j, o) ==
    /\ Place(f, o) /\ Head(k.todo).at = StartOf(k.file) + o /\ Head(k.todo).data = WordFrom(f, o)
    /\ o \in Unread(f, k) /\ Unread(f, j) = Unread(f, k) \ {o} /\ TodoOK(f, j)

\* A chunk is counted: its place and no other is no longer to come.
LEMMA UnreadCounted ==
    ASSUME NEW f, NEW k \in WorkerStates, k.file # 0, TodoOK(f, k), k.todo # << >>,
           NEW j, j.file = k.file, j.pos = k.pos, j.todo = Tail(k.todo)
    PROVE  \E o \in Nat : Counts(f, k, j, o)
<1> DEFINE s == StartOf(k.file)
           t == k.todo
           u == Tail(t)
           n == Len(t)
           a == k.pos
<1>1. s \in Nat /\ t \in Seq([at : Nat, data : Patterns]) /\ a \in Nat
  BY StartType DEF WorkerStates
<1> HIDE DEF s, t
<1>2. /\ n \in Nat /\ n >= 1 /\ Len(u) = n - 1 /\ Head(t) = t[1]
      /\ \A i \in 1..(n - 1) : u[i] = t[i + 1]
  BY <1>1, HeadTail DEF t
<1>3. /\ \A i \in 1..n : \E o \in Nat : /\ Place(f, o) /\ o < a /\ t[i].at = s + o
                                        /\ t[i].data = WordFrom(f, o)
      /\ \A i, l \in 1..n : i < l => t[i].at < t[l].at
  BY DEF TodoOK, s, t
<1>4. j.file = k.file /\ j.pos = a /\ j.todo = u
  BY DEF t
<1> HIDE DEF u, n, a
<1>5. 1 \in 1..n
  BY <1>2
<1>6. PICK o \in Nat : Place(f, o) /\ o < a /\ t[1].at = s + o /\ t[1].data = WordFrom(f, o)
  BY <1>3, <1>5
<1>7. \A i \in 1..(n - 1) : i + 1 \in 1..n /\ u[i] = t[i + 1] /\ t[1].at < t[i + 1].at
  <2> SUFFICES ASSUME NEW i \in 1..(n - 1)
               PROVE  i + 1 \in 1..n /\ u[i] = t[i + 1] /\ t[1].at < t[i + 1].at
    OBVIOUS
  <2>1. i + 1 \in 1..n /\ 1 < i + 1
    BY <1>2
  <2>. QED
    BY <1>2, <1>3, <1>5, <2>1
<1>8. TodoOK(f, j)
  <2>1. ASSUME NEW i \in 1..(n - 1)
        PROVE  \E p \in Nat : Place(f, p) /\ p < a /\ u[i].at = s + p /\ u[i].data = WordFrom(f, p)
    BY <1>3, <1>7
  <2>2. ASSUME NEW i \in 1..(n - 1), NEW l \in 1..(n - 1), i < l PROVE u[i].at < u[l].at
    <3>1. i + 1 \in 1..n /\ l + 1 \in 1..n /\ i + 1 < l + 1
      BY <1>2, <1>7, <2>2
    <3>. QED
      BY <1>3, <1>7, <3>1
  <2>. QED
    BY <1>2, <1>4, <2>1, <2>2 DEF TodoOK, s
<1>9. ASSUME NEW p \in Nat
      PROVE  /\ p \in Unread(f, k) <=> Place(f, p) /\ (p >= a \/ \E i \in 1..n : t[i].at = s + p)
             /\ p \in Unread(f, j) <=> Place(f, p) /\ (p >= a \/ \E i \in 1..(n - 1) : u[i].at = s + p)
  BY <1>2, <1>4 DEF Unread, a, n, t, s
<1>10. o \in Unread(f, k)
  BY <1>5, <1>6, <1>9
<1>11. ASSUME NEW p \in Nat
       PROVE  (\E i \in 1..(n - 1) : u[i].at = s + p) <=> p # o /\ \E i \in 1..n : t[i].at = s + p
  <2>1. ASSUME NEW i \in 1..(n - 1), u[i].at = s + p PROVE p # o /\ \E l \in 1..n : t[l].at = s + p
    <3>1. i + 1 \in 1..n /\ t[i + 1].at = s + p /\ s + o < s + p
      BY <1>6, <1>7, <2>1
    <3>. QED
      BY <1>1, <3>1
  <2>2. ASSUME p # o, NEW i \in 1..n, t[i].at = s + p PROVE \E l \in 1..(n - 1) : u[l].at = s + p
    <3>1. i # 1
      BY <1>1, <1>6, <2>2
    <3>2. i - 1 \in 1..(n - 1) /\ (i - 1) + 1 = i
      BY <1>2, <3>1
    <3>3. u[i - 1].at = s + p
      BY <1>7, <2>2, <3>2
    <3>. QED
      BY <3>2, <3>3
  <2>. QED
    BY <2>1, <2>2
<1>12. Unread(f, j) = Unread(f, k) \ {o}
  <2>1. \A p \in Nat : p \in Unread(f, j) <=> p \in Unread(f, k) /\ p # o
    <3> SUFFICES ASSUME NEW p \in Nat
                 PROVE  p \in Unread(f, j) <=> p \in Unread(f, k) /\ p # o
      OBVIOUS
    <3> DEFINE X == \E i \in 1..(n - 1) : u[i].at = s + p
               Y == \E i \in 1..n : t[i].at = s + p
    <3>1. /\ p \in Unread(f, k) <=> Place(f, p) /\ (p >= a \/ Y)
          /\ p \in Unread(f, j) <=> Place(f, p) /\ (p >= a \/ X)
      BY <1>9
    <3>2. X <=> p # o /\ Y
      BY <1>11
    <3>3. p >= a => p # o
      BY <1>1, <1>6 DEF a
    <3> HIDE DEF X, Y
    <3>. QED
      BY <3>1, <3>2, <3>3
  <2>2. Unread(f, j) \subseteq Nat /\ Unread(f, k) \subseteq Nat
    BY DEF Unread
  <2>. QED
    BY <2>1, <2>2
<1>. QED
  BY <1>2, <1>6, <1>8, <1>10, <1>12 DEF Counts, t, s

\* A worker that has counted a whole file is as good as one without a file.
LEMMA SettledFree ==
    ASSUME NEW f \in Words, NEW k, NEW i, i # 0, NEW o,
           k.file = i => (k.eof => k.pos = Len(f))
    PROVE  Free(f, i, Settled(k), o) <=> Free(f, i, k, o)
<1>1. CASE k.eof /\ k.todo = << >>
  <2>1. Free(f, i, Settled(k), o)
    BY <1>1, IdleType DEF Free, Settled
  <2>2. ASSUME k.file = i PROVE o \notin Unread(f, k)
    <3>1. k.pos = Len(f) /\ Len(k.todo) = 0 /\ Len(f) \in Nat /\ ChunkSize \in Nat \ {0}
      BY <1>1, <2>2, TrainingAssumption DEF Words
    <3>. QED
      BY <3>1 DEF Unread, Place
  <2>. QED
    BY <2>1, <2>2 DEF Free
<1>2. CASE ~(k.eof /\ k.todo = << >>)
  BY <1>2 DEF Settled
<1>. QED
  BY <1>1, <1>2

PositionOf(x) == (x[1] - 1) * Span + x[2]
PlacesOf(D, cp, p) == {x \in D : WordOf(cp, x) = p}
Tally(e, o, aug) ==
    /\ e.count = Cardinality(o)
    /\ ~aug => (\E x \in o : e.first = PositionOf(x)) /\ (\A x \in o : e.first <= PositionOf(x))

\* The table T is what the places D of the corpus make.
Tallied(T, D, cp, aug) ==
    /\ \A x \in D : WordOf(cp, x) \in DOMAIN T
    /\ \A p \in DOMAIN T : Tally(T[p], PlacesOf(D, cp, p), aug)

\* The entry of a pattern that was met once more.
MetAgain(T, p, R) ==
    /\ DOMAIN R = DOMAIN T \cup {p}
    /\ \A q \in DOMAIN T : q # p => R[q] = T[q]
    /\ R[p].count = IF p \in DOMAIN T THEN T[p].count + 1 ELSE 1

LEMMA RecordMeets ==
    ASSUME NEW T \in Tables, NEW p \in Patterns, NEW n \in Nat
    PROVE  /\ MetAgain(T, p, Record(T, p)) /\ MetAgain(T, p, RecordAt(T, p, n))
           /\ RecordAt(T, p, n)[p].first = IF p \in DOMAIN T THEN Smaller(T[p].first, n) ELSE n
<1>1. p \in DOMAIN T => T[p] \in [count : Nat, first : Nat, data : BOOLEAN]
  BY TablesAre DEF TableType, Entries
<1> DEFINE e == T[p]
           m == Smaller(e.first, n)
           a == IF p \in DOMAIN T THEN [e EXCEPT !.count = @ + 1]
                ELSE [count |-> 1, first |-> 0, data |-> TRUE]
           b == IF p \in DOMAIN T THEN [e EXCEPT !.count = @ + 1, !.first = m]
                ELSE [count |-> 1, first |-> n, data |-> FALSE]
<1>2. Record(T, p) = With(T, p, a) /\ RecordAt(T, p, n) = With(T, p, b)
  BY DEF Record, RecordAt
<1>3. a.count = IF p \in DOMAIN T THEN e.count + 1 ELSE 1
  <2> HIDE DEF e
  <2>. QED
    BY <1>1 DEF e
<1>4. /\ b.count = IF p \in DOMAIN T THEN e.count + 1 ELSE 1
      /\ b.first = IF p \in DOMAIN T THEN m ELSE n
  <2>1. CASE p \in DOMAIN T
    <3>1. e \in [count : Nat, first : Nat, data : BOOLEAN] /\ b = [e EXCEPT !.count = @ + 1, !.first = m]
      BY <1>1, <2>1
    <3> HIDE DEF e, m, b
    <3>. QED
      BY <2>1, <3>1
  <2>2. CASE p \notin DOMAIN T
    BY <2>2
  <2>. QED
    BY <2>1, <2>2
<1> HIDE DEF a, b, m
<1>5. \A x : /\ DOMAIN With(T, p, x) = DOMAIN T \cup {p} /\ With(T, p, x)[p] = x
             /\ \A q \in DOMAIN T : q # p => With(T, p, x)[q] = T[q]
  BY DEF With
<1>. QED
  BY <1>2, <1>3, <1>4, <1>5 DEF MetAgain, m

\* One more place is counted.
LEMMA TalliedNext ==
    ASSUME NEW T \in Tables, NEW D, IsFiniteSet(D), NEW cp, NEW aug, Tallied(T, D, cp, aug),
           NEW y, y \notin D, NEW p \in Patterns, WordOf(cp, y) = p,
           \A x \in D : PositionOf(x) \in Nat, PositionOf(y) \in Nat,
           NEW R, R = IF aug THEN Record(T, p) ELSE RecordAt(T, p, PositionOf(y))
    PROVE  Tallied(R, D \cup {y}, cp, aug)
<1> DEFINE E == D \cup {y}
           o == PlacesOf(D, cp, p)
           s == PlacesOf(E, cp, p)
           n == PositionOf(y)
<1>1. MetAgain(T, p, R)
  BY RecordMeets
<1>2. ~aug => R[p].first = IF p \in DOMAIN T THEN Smaller(T[p].first, n) ELSE n
  BY RecordMeets
<1>3. \A x \in E : WordOf(cp, x) \in DOMAIN R
  BY <1>1 DEF Tallied, MetAgain
<1>4. ASSUME NEW q \in DOMAIN R, q # p PROVE Tally(R[q], PlacesOf(E, cp, q), aug)
  <2>1. q \in DOMAIN T /\ R[q] = T[q]
    BY <1>1, <1>4 DEF MetAgain
  <2>2. PlacesOf(E, cp, q) = PlacesOf(D, cp, q)
    BY <1>4 DEF PlacesOf
  <2>. QED
    BY <2>1, <2>2 DEF Tallied
<1>5. s = o \cup {y} /\ y \notin o /\ IsFiniteSet(o) /\ Cardinality(o) \in Nat
  <2>1. o \subseteq D /\ s = o \cup {y}
    BY DEF PlacesOf
  <2>2. IsFiniteSet(o) /\ Cardinality(o) \in Nat
    BY <2>1, FS_Subset, FS_CardinalityType
  <2>. QED
    BY <2>1, <2>2
<1>6. Cardinality(s) = Cardinality(o) + 1
  <2> HIDE DEF s, o
  <2>. QED
    BY <1>5, FS_AddElement
<1>7. CASE p \notin DOMAIN T
  <2>1. o = {}
    BY <1>7 DEF Tallied, PlacesOf
  <2>2. Cardinality(s) = 1 /\ s = {y}
    <3> HIDE DEF s, o
    <3>1. Cardinality(o) = 0
      BY <2>1, FS_EmptySet
    <3>. QED
      BY <1>5, <1>6, <2>1, <3>1
  <2>3. R[p].count = 1 /\ (~aug => R[p].first = n)
    BY <1>1, <1>2, <1>7 DEF MetAgain
  <2>. QED
    <3> HIDE DEF s, n
    <3>1. Tally(R[p], s, aug)
      BY <2>2, <2>3 DEF Tally, n
    <3>. QED
      BY <1>3, <1>4, <3>1 DEF Tallied, s
<1>8. CASE p \in DOMAIN T
  <2>1. Tally(T[p], o, aug)
    BY <1>8 DEF Tallied
  <2>2. R[p].count = Cardinality(s)
    BY <1>1, <1>6, <1>8, <2>1 DEF MetAgain, Tally
  <2>3. ASSUME ~aug
        PROVE  (\E x \in s : R[p].first = PositionOf(x)) /\ (\A x \in s : R[p].first <= PositionOf(x))
    <3> DEFINE a == T[p].first
    <3>1. PICK x \in o : a = PositionOf(x)
      BY <2>1, <2>3 DEF Tally
    <3>2. \A z \in o : a <= PositionOf(z) /\ PositionOf(z) \in Nat
      BY <2>1, <2>3 DEF Tally, PlacesOf
    <3>3. R[p].first = Smaller(a, n) /\ a \in Nat /\ n \in Nat
      BY <1>2, <1>8, <2>3, <3>1, <3>2
    <3> HIDE DEF a, n, o, s
    <3>4. CASE a <= n
      <4>1. R[p].first = a
        BY <3>3, <3>4 DEF Smaller
      <4>. QED
        BY <1>5, <3>1, <3>2, <3>4, <4>1 DEF n
    <3>5. CASE ~(a <= n)
      <4>1. R[p].first = n /\ n <= a /\ n <= n
        BY <3>3, <3>5 DEF Smaller
      <4>2. \A z \in o : n <= PositionOf(z)
        BY <3>2, <3>3, <4>1
      <4>. QED
        BY <1>5, <4>1, <4>2 DEF n
    <3>. QED
      BY <3>4, <3>5
  <2>4. Tally(R[p], s, aug)
    BY <2>2, <2>3 DEF Tally
  <2> HIDE DEF s
  <2>. QED
    BY <1>3, <1>4, <2>4 DEF Tallied, s
<1>. QED
  BY <1>7, <1>8

\* A worker that reads the file k.file of the corpus.
Reads(cp, nx, k) ==
    /\ k.file \in DOMAIN cp /\ k.file < nx /\ k.data = cp[k.file]
    /\ k.eof => k.pos = Len(k.data)
    /\ ~k.eof => \E b \in Nat : k.pos = b * BufferSize
    /\ TodoOK(k.data, k)
WorkerOK(cp, nx, k) == k = Idle \/ (Reads(cp, nx, k) /\ (k.eof => k.todo # << >>))
Readable(cp) == \A i \in DOMAIN cp : cp[i] \in Words /\ cp[i] # Gone /\ Len(cp[i]) < Span
Apart(wk) == \A v, w \in Workers : wk[v].file = wk[w].file /\ wk[v].file # 0 => v = w

\* The count so far: the table is what the places that were counted make.
Exact(cp, nx, wk, T, aug) ==
    /\ Readable(cp) /\ (\A w \in Workers : WorkerOK(cp, nx, wk[w])) /\ Apart(wk)
    /\ Tallied(T, Done(cp, nx, wk), cp, aug)

CountsInv ==
    /\ faults \in Nat /\ changes \in Nat
    /\ (phase = "count" /\ faults = 0 /\ changes = 0) => Exact(corpus, next, worker, table, augment)

LEMMA WorkerLater ==
    ASSUME NEW cp, NEW nx \in Nat, NEW k, WorkerOK(cp, nx, k), DOMAIN cp \subseteq Nat
    PROVE  WorkerOK(cp, nx + 1, k)
BY DEF WorkerOK, Reads

LEMMA SettledOK ==
    ASSUME NEW cp, NEW nx, NEW k, Reads(cp, nx, k)
    PROVE  WorkerOK(cp, nx, Settled(k)) /\ Settled(k).file \in {0, k.file}
BY IdleType DEF WorkerOK, Settled

LEMMA PlacesAre ==
    ASSUME NEW cp \in Seq(Files), Readable(cp), NEW D, D \subseteq Places(cp)
    PROVE  /\ IsFiniteSet(D) /\ \A x \in D : PositionOf(x) \in Nat
           /\ \A x \in D : x[1] \in Nat \ {0} /\ x[1] \in DOMAIN cp /\ cp[x[1]] \in Words /\ x[2] \in Nat
                           /\ WordOf(cp, x) \in Patterns
<1>1. DOMAIN cp = 1..Len(cp) /\ Len(cp) \in Nat /\ Span \in Nat /\ ChunkSize \in Nat
  BY TrainingAssumption
<1>2. IsFiniteSet(D)
  <2>1. IsFiniteSet(1..Len(cp)) /\ IsFiniteSet(0..Span)
    BY <1>1, FS_Interval
  <2>2. IsFiniteSet((DOMAIN cp) \X (0..Span))
    BY <1>1, <2>1, FS_Product
  <2>3. D \subseteq (DOMAIN cp) \X (0..Span)
    BY DEF Places
  <2>. QED
    BY <2>2, <2>3, FS_Subset
<1>3. ASSUME NEW x \in D
      PROVE  /\ x[1] \in Nat \ {0} /\ x[1] \in DOMAIN cp /\ cp[x[1]] \in Words /\ x[2] \in Nat
             /\ WordOf(cp, x) \in Patterns /\ PositionOf(x) \in Nat
  <2>1. x \in Places(cp)
    OBVIOUS
  <2>2. x[1] \in 1..Len(cp) /\ x[1] \in DOMAIN cp /\ x[2] \in 0..Span /\ Place(cp[x[1]], x[2])
    BY <1>1, <2>1 DEF Places
  <2> DEFINE f == cp[x[1]]
             o == x[2]
             i == x[1]
  <2>3. i \in Nat \ {0} /\ f \in Words /\ o \in Nat /\ o + ChunkSize <= Len(f)
    BY <1>1, <2>2 DEF Readable, Place
  <2> HIDE DEF f, o, i
  <2>4. WordFrom(f, o) \in Patterns
    <3>1. f \in Seq(Nat) /\ ChunkSize \in Nat
      BY <1>1, <2>3 DEF Words
    <3>2. SubSeq(f, o + 1, o + ChunkSize) \in Seq(Nat) /\ Len(SubSeq(f, o + 1, o + ChunkSize)) = ChunkSize
      <4> DEFINE d == ChunkSize
      <4>1. f \in Words /\ o \in Nat /\ d \in Nat /\ o + d <= Len(f)
        BY <2>3, <3>1
      <4> HIDE DEF d
      <4>2. CellsAt(SubSeq(f, o + 1, o + d), f, o, d)
        BY ONLY <4>1, CutCells
      <4>. QED
        BY ONLY <4>2 DEF CellsAt, Words, d
    <3>. QED
      BY ONLY <3>2 DEF WordFrom, Patterns, Words
  <2>5. StartOf(i) \in Nat
    BY <2>3, StartType
  <2>6. StartOf(i) + o \in Nat
    BY <2>3, <2>5
  <2>. QED
    BY <2>2, <2>3, <2>4, <2>6 DEF i, o, f, WordOf, PositionOf, StartOf
<1>. QED
  BY <1>2, <1>3

LEMMA ApartNext ==
    ASSUME NEW wk, Apart(wk), NEW w \in Workers, NEW j, j.file \in {0, wk[w].file},
           NEW wj, \A v \in Workers : wj[v] = IF v = w THEN j ELSE wk[v]
    PROVE  Apart(wj)
<1> SUFFICES ASSUME NEW u \in Workers, NEW v \in Workers, wj[u].file = wj[v].file, wj[u].file # 0
             PROVE  u = v
  BY DEF Apart
<1>1. wk[u].file = wk[v].file /\ wk[u].file # 0
  OBVIOUS
<1>. QED
  BY <1>1 DEF Apart

\* A file is opened: all its places are to come.
LEMMA CountsOfOpen ==
    ASSUME TrainShape, NEW w \in Workers, worker[w].file = 0, next <= Len(corpus),
           Exact(corpus, next, worker, table, augment),
           NEW wk, wk = [worker EXCEPT ![w] = [Idle EXCEPT !.file = next, !.data = corpus[next]]]
    PROVE  Exact(corpus, next + 1, wk, table, augment)
<1> DEFINE j == [Idle EXCEPT !.file = next, !.data = corpus[next]]
<1>1. /\ corpus \in Seq(Files) /\ next \in DOMAIN corpus /\ next \in Nat \ {0} /\ DOMAIN corpus \subseteq Nat
      /\ worker \in [Workers -> WorkerStates] /\ 0 \notin DOMAIN corpus
      /\ \A i \in DOMAIN corpus : i < next + 1 <=> i < next \/ i = next
  BY DEF TrainShape, CorpusShape, WorkerShape
<1>2. /\ Readable(corpus) /\ Apart(worker) /\ Tallied(table, Done(corpus, next, worker), corpus, augment)
      /\ \A v \in Workers : WorkerOK(corpus, next, worker[v])
  BY DEF Exact
<1>3. j.file = next /\ j.data = corpus[next] /\ j.pos = 0 /\ j.todo = << >> /\ ~j.eof
  BY DEF Idle
<1> HIDE DEF j
<1>4. \A v \in Workers : wk[v] = IF v = w THEN j ELSE worker[v]
  BY <1>1 DEF j
<1>5. Reads(corpus, next + 1, j) /\ WorkerOK(corpus, next + 1, j)
  <2>1. 0 \in Nat /\ 0 = 0 * BufferSize
    BY TrainingAssumption
  <2>2. Len(j.todo) = 0 /\ next < next + 1
    BY <1>1, <1>3
  <2>3. TodoOK(j.data, j)
    BY <2>2 DEF TodoOK
  <2>. QED
    BY <1>1, <1>3, <2>1, <2>2, <2>3 DEF Reads, WorkerOK
<1>6. \A v \in Workers : WorkerOK(corpus, next + 1, wk[v])
  BY <1>1, <1>2, <1>4, <1>5, WorkerLater
<1>7. \A v \in Workers : worker[v].file = 0 \/ (worker[v].file \in DOMAIN corpus /\ worker[v].file < next)
  BY <1>2, IdleType DEF WorkerOK, Reads
<1>8. Apart(wk)
  <2>1. \A v \in Workers : worker[v].file # next
    BY <1>1, <1>7
  <2>. QED
    BY <1>2, <1>3, <1>4, <2>1 DEF Apart
<1>9. ASSUME NEW x \in Places(corpus)
      PROVE  x \in Done(corpus, next + 1, wk) <=> x \in Done(corpus, next, worker)
  <2> DEFINE i == x[1]
             o == x[2]
             f == corpus[i]
  <2>1. i \in DOMAIN corpus /\ o \in Nat /\ Place(f, o)
    BY <1>2, <1>1, PlacesAre DEF Places
  <2>2. /\ x \in Done(corpus, next + 1, wk) <=> i < next + 1 /\ \A v \in Workers : Free(f, i, wk[v], o)
        /\ x \in Done(corpus, next, worker) <=> i < next /\ \A v \in Workers : Free(f, i, worker[v], o)
    BY DEF Done
  <2> HIDE DEF i, o, f
  <2>3. CASE i = next
    <3>1. o \in Unread(f, j)
      BY <1>3, <2>1 DEF Unread
    <3>2. ~Free(f, i, wk[w], o) /\ ~(i < next)
      BY <1>1, <1>3, <1>4, <2>3, <3>1 DEF Free
    <3>. QED
      BY <2>2, <3>2
  <2>4. CASE i # next
    <3>1. Free(f, i, j, o) /\ Free(f, i, worker[w], o)
      BY <1>1, <1>3, <2>1, <2>4 DEF Free
    <3>2. \A v \in Workers : Free(f, i, wk[v], o) <=> Free(f, i, worker[v], o)
      BY <1>4, <3>1
    <3>. QED
      BY <1>1, <2>1, <2>2, <2>4, <3>2
  <2>. QED
    BY <2>3, <2>4
<1>10. Done(corpus, next + 1, wk) = Done(corpus, next, worker)
  <2>1. Done(corpus, next + 1, wk) \subseteq Places(corpus) /\ Done(corpus, next, worker) \subseteq Places(corpus)
    BY DEF Done
  <2>. QED
    BY <1>9, <2>1
<1>. QED
  BY <1>2, <1>6, <1>8, <1>10 DEF Exact

\* A buffer of whole length, or the last one, is read.
LEMMA CountsOfRead ==
    ASSUME TrainShape, NEW w \in Workers, worker[w].file # 0, worker[w].todo = << >>,
           Exact(corpus, next, worker, table, augment),
           NEW n, n = Smaller(BufferSize, Len(worker[w].data) - worker[w].pos),
           NEW wk, wk = [worker EXCEPT ![w] = Buffered(worker[w], n, n < BufferSize)]
    PROVE  Exact(corpus, next, wk, table, augment)
<1> DEFINE k == worker[w]
           eof == n < BufferSize
           j == [k EXCEPT !.pos = @ + n, !.eof = eof, !.todo = Todo(k, n)]
<1>1. /\ corpus \in Seq(Files) /\ worker \in [Workers -> WorkerStates] /\ k \in WorkerStates
      /\ k.pos <= Len(k.data)
  BY DEF TrainShape, CorpusShape, WorkerShape
<1>2. /\ Readable(corpus) /\ Apart(worker) /\ Tallied(table, Done(corpus, next, worker), corpus, augment)
      /\ \A v \in Workers : WorkerOK(corpus, next, worker[v])
  BY DEF Exact
<1>3. Reads(corpus, next, k) /\ ~k.eof
  BY <1>2, IdleType DEF WorkerOK
<1>4. PICK b \in Nat : k.pos = b * BufferSize
  BY <1>3 DEF Reads
<1>5. k.pos \in Nat /\ Len(k.data) \in Nat /\ BufferSize \in Nat
  BY <1>1, TrainingAssumption DEF WorkerStates, Words
<1>6. /\ n \in Nat /\ n <= BufferSize /\ k.pos + n <= Len(k.data)
      /\ n = BufferSize \/ k.pos + n = Len(k.data)
      /\ eof => k.pos + n = Len(k.data)
      /\ ~eof => n = BufferSize
  BY <1>1, <1>5 DEF Smaller
<1>7. Buffered(k, n, eof) = Settled(j)
  BY <1>1, <1>6, BufferedIs
<1>8. j.file = k.file /\ j.data = k.data /\ j.pos = k.pos + n /\ j.todo = Todo(k, n) /\ j.eof = eof
  <2> DEFINE t == Todo(k, n)
  <2> HIDE DEF t, k, eof
  <2>. QED
    BY <1>1 DEF WorkerStates, t
<1>9. k.file # 0 /\ k.todo = << >> /\ wk = [worker EXCEPT ![w] = Settled(j)]
  BY <1>7
<1> HIDE DEF k, j, eof
<1>10. Unread(k.data, j) = Unread(k.data, k) /\ TodoOK(k.data, j)
  BY ONLY <1>1, <1>4, <1>6, <1>8, <1>9, b \in Nat, UnreadBuffered
<1>11. Reads(corpus, next, j)
  <2>1. k.file \in DOMAIN corpus /\ k.file < next /\ k.data = corpus[k.file]
    BY <1>3 DEF Reads
  <2>2. j.eof => j.pos = Len(j.data)
    BY <1>6, <1>8
  <2>3. ~j.eof => \E d \in Nat : j.pos = d * BufferSize
    <3> SUFFICES ASSUME ~j.eof PROVE \E d \in Nat : j.pos = d * BufferSize
      OBVIOUS
    <3>1. j.pos = k.pos + BufferSize /\ BufferSize \in Nat
      BY <1>5, <1>6, <1>8
    <3>2. (b + 1) * BufferSize = b * BufferSize + BufferSize /\ b + 1 \in Nat
      BY ONLY <3>1, b \in Nat
    <3>. QED
      BY <1>4, <3>1, <3>2
  <2>. QED
    BY <1>8, <1>10, <2>1, <2>2, <2>3 DEF Reads
<1>12. \A v \in Workers : wk[v] = IF v = w THEN Settled(j) ELSE worker[v]
  BY <1>1, <1>9
<1>13. WorkerOK(corpus, next, Settled(j)) /\ Settled(j).file \in {0, k.file}
  BY <1>8, <1>11, SettledOK
<1>14. \A v \in Workers : WorkerOK(corpus, next, wk[v])
  BY <1>2, <1>12, <1>13
<1>15. Apart(wk)
  BY ONLY <1>2, <1>12, <1>13, w \in Workers, ApartNext DEF k
<1>16. ASSUME NEW x \in Places(corpus)
       PROVE  Free(corpus[x[1]], x[1], Settled(j), x[2]) <=> Free(corpus[x[1]], x[1], k, x[2])
  <2> DEFINE i == x[1]
             o == x[2]
             f == corpus[i]
  <2>1. i # 0 /\ f \in Words
    BY <1>1, <1>2, PlacesAre
  <2>2. k.file = i => k.data = f /\ (j.eof => j.pos = Len(f))
    BY <1>3, <1>8, <1>11 DEF Reads
  <2> HIDE DEF i, o, f
  <2>4. Free(f, i, Settled(j), o) <=> Free(f, i, j, o)
    BY <1>8, <2>1, <2>2, SettledFree
  <2>5. Free(f, i, j, o) <=> Free(f, i, k, o)
    BY <1>8, <1>10, <2>2 DEF Free
  <2>. QED
    BY <2>4, <2>5 DEF f, i, o
<1>17. Done(corpus, next, wk) = Done(corpus, next, worker)
  <2>1. \A x \in Places(corpus) : \A v \in Workers :
           Free(corpus[x[1]], x[1], wk[v], x[2]) <=> Free(corpus[x[1]], x[1], worker[v], x[2])
    BY <1>12, <1>16 DEF k
  <2>. QED
    BY <2>1 DEF Done
<1>. QED
  BY <1>2, <1>14, <1>15, <1>17 DEF Exact

\* A chunk is counted: one more place is done, and the table has one more of its pattern.
LEMMA CountsOfCount ==
    ASSUME TrainShape, NEW w \in Workers, worker[w].todo # << >>,
           Exact(corpus, next, worker, table, augment),
           NEW wk, wk = [worker EXCEPT ![w] = Settled([worker[w] EXCEPT !.todo = Tail(@)])],
           NEW T, T = IF augment THEN Record(table, Head(worker[w].todo).data)
                      ELSE RecordAt(table, Head(worker[w].todo).data, Head(worker[w].todo).at)
    PROVE  Exact(corpus, next, wk, T, augment)
<1> DEFINE k == worker[w]
           j == [k EXCEPT !.todo = Tail(@)]
           D == Done(corpus, next, worker)
           f == k.data
           i == k.file
           h == Head(k.todo)
<1>1. /\ corpus \in Seq(Files) /\ worker \in [Workers -> WorkerStates] /\ k \in WorkerStates
      /\ k.pos <= Len(k.data) /\ table \in Tables /\ DOMAIN corpus = 1..Len(corpus)
  BY DEF TrainShape, CorpusShape, WorkerShape, TableShape
<1>2. /\ Readable(corpus) /\ Apart(worker) /\ Tallied(table, D, corpus, augment)
      /\ \A v \in Workers : WorkerOK(corpus, next, worker[v])
  BY DEF Exact
<1>3. Reads(corpus, next, k)
  BY <1>2 DEF WorkerOK, Idle
<1>4. /\ j.file = i /\ j.data = f /\ j.pos = k.pos /\ j.todo = Tail(k.todo) /\ j.eof = k.eof
  <2> HIDE DEF k
  <2>. QED
    BY <1>1 DEF WorkerStates
<1>5. /\ k.todo # << >> /\ wk = [worker EXCEPT ![w] = Settled(j)]
      /\ T = IF augment THEN Record(table, h.data) ELSE RecordAt(table, h.data, h.at)
  OBVIOUS
<1>6. /\ i \in DOMAIN corpus /\ i < next /\ f = corpus[i] /\ TodoOK(f, k) /\ i # 0
      /\ f \in Words /\ Len(f) < Span /\ Span \in Nat /\ Len(f) \in Nat
  BY <1>1, <1>2, <1>3, TrainingAssumption DEF Reads, Readable, Words
<1> HIDE DEF k, j, f, i, h
<1>7. PICK o \in Nat : Counts(f, k, j, o)
  BY <1>1, <1>4, <1>5, <1>6, UnreadCounted DEF i
<1>8. /\ Place(f, o) /\ h.at = StartOf(i) + o /\ h.data = WordFrom(f, o)
      /\ o \in Unread(f, k) /\ Unread(f, j) = Unread(f, k) \ {o} /\ TodoOK(f, j)
  BY <1>7 DEF Counts, h, i
<1> DEFINE y == <<i, o>>
<1>9. y \in Places(corpus) /\ WordOf(corpus, y) = h.data /\ PositionOf(y) = h.at
  <2>1. o \in 0..Span
    <3>1. o + ChunkSize <= Len(f) /\ ChunkSize \in Nat
      BY <1>8, TrainingAssumption DEF Place
    <3>. QED
      BY <1>6, <3>1
  <2>2. y[1] = i /\ y[2] = o
    OBVIOUS
  <2>3. y \in (DOMAIN corpus) \X (0..Span)
    BY <1>6, <2>1
  <2> HIDE DEF y
  <2>. QED
    BY <1>6, <1>8, <2>2, <2>3 DEF Places, WordOf, PositionOf, StartOf
<1>10. Reads(corpus, next, j)
  BY <1>3, <1>4, <1>8 DEF Reads, f, i
<1>11. \A v \in Workers : wk[v] = IF v = w THEN Settled(j) ELSE worker[v]
  BY <1>1, <1>5
<1>12. WorkerOK(corpus, next, Settled(j)) /\ Settled(j).file \in {0, i}
  BY <1>4, <1>10, SettledOK
<1>13. \A v \in Workers : WorkerOK(corpus, next, wk[v])
  BY <1>2, <1>11, <1>12
<1>14. Apart(wk)
  BY ONLY <1>2, <1>11, <1>12, w \in Workers, ApartNext DEF k, i
<1>15. ASSUME NEW x \in Places(corpus)
       PROVE  x \in Done(corpus, next, wk) <=> x \in D \/ x = y
  <2> DEFINE m == x[1]
             p == x[2]
             g == corpus[m]
  <2>0. m # 0 /\ g \in Words
    BY <1>1, <1>2, PlacesAre
  <2>1. m # 0 /\ g \in Words /\ x = <<m, p>>
    BY <2>0 DEF Places
  <2>2. /\ x \in Done(corpus, next, wk) <=> m < next /\ \A v \in Workers : Free(g, m, wk[v], p)
        /\ x \in D <=> m < next /\ \A v \in Workers : Free(g, m, worker[v], p)
    BY DEF Done
  <2>3. x = y <=> m = i /\ p = o
    BY <2>1
  <2>4. j.file = m => (j.eof => j.pos = Len(g))
    BY <1>10 DEF Reads
  <2> HIDE DEF m, p, g
  <2>5. Free(g, m, Settled(j), p) <=> Free(g, m, j, p)
    BY <2>1, <2>4, SettledFree
  <2>6. CASE m # i
    <3>1. Free(g, m, j, p) /\ Free(g, m, k, p)
      BY <1>4, <2>6 DEF Free, i
    <3>2. \A v \in Workers : Free(g, m, wk[v], p) <=> Free(g, m, worker[v], p)
      BY <1>11, <2>5, <3>1 DEF k
    <3>. QED
      BY <2>2, <2>3, <2>6, <3>2
  <2>7. CASE m = i
    <3>1. g = f /\ m < next
      BY <1>6, <2>7 DEF g
    <3>2. \A v \in Workers : v # w => worker[v].file # m /\ Free(g, m, worker[v], p) /\ wk[v] = worker[v]
      BY <1>2, <1>6, <1>11, <2>7 DEF Apart, Free, k, i
    <3>3. /\ (\A v \in Workers : Free(g, m, wk[v], p)) <=> Free(g, m, j, p)
          /\ (\A v \in Workers : Free(g, m, worker[v], p)) <=> Free(g, m, k, p)
      BY <1>11, <2>5, <3>2 DEF k
    <3>4. /\ Free(g, m, j, p) <=> p \notin Unread(f, j)
          /\ Free(g, m, k, p) <=> p \notin Unread(f, k)
      BY <1>4, <2>7, <3>1 DEF Free, i
    <3>. QED
      BY <1>8, <2>2, <2>3, <2>7, <3>1, <3>3, <3>4
  <2>. QED
    BY <2>6, <2>7
<1>16. Done(corpus, next, wk) = D \cup {y} /\ D \subseteq Places(corpus)
  <2>1. Done(corpus, next, wk) \subseteq Places(corpus) /\ D \subseteq Places(corpus)
    BY DEF Done
  <2> HIDE DEF D, y
  <2>. QED
    BY <1>9, <1>15, <2>1
<1>17. y \notin D
  <2>1. y[1] = i /\ y[2] = o
    OBVIOUS
  <2>2. ~Free(f, i, k, o)
    BY <1>8 DEF Free, i
  <2> HIDE DEF y
  <2>. QED
    BY <1>6, <2>1, <2>2 DEF Done, k
<1>18. Tallied(T, D \cup {y}, corpus, augment)
  <2> DEFINE p == h.data
  <2> HIDE DEF y, D, p
  <2>1. IsFiniteSet(D) /\ \A x \in D : PositionOf(x) \in Nat
    BY <1>1, <1>2, <1>16, PlacesAre
  <2>2. {y} \subseteq Places(corpus)
    BY <1>9
  <2>3. PositionOf(y) \in Nat /\ WordOf(corpus, y) \in Patterns
    BY <1>1, <1>2, <2>2, PlacesAre
  <2>4. p \in Patterns /\ WordOf(corpus, y) = p
    BY <1>9, <2>3 DEF p
  <2>5. T = IF augment THEN Record(table, p) ELSE RecordAt(table, p, PositionOf(y))
    BY <1>5, <1>9 DEF p
  <2>. QED
    BY ONLY <1>1, <1>2, <1>17, <2>1, <2>3, <2>4, <2>5, TalliedNext
<1>. QED
  BY <1>2, <1>13, <1>14, <1>16, <1>18 DEF Exact

\* The rest of a sequence is what remains of its length.
LEMMA RestLen ==
    ASSUME NEW s \in Seq(Nat), NEW lo \in Nat, lo < Len(s)
    PROVE  Len(SubSeq(s, lo + 1, Len(s))) = Len(s) - lo
OBVIOUS

LEMMA NoRest ==
    ASSUME NEW s \in Seq(Nat), NEW lo \in Nat, lo >= Len(s)
    PROVE  Len(SubSeq(s, lo + 1, Len(s))) = 0
OBVIOUS

\* A chunk of full length of a buffer is a cut of the file.
CutAgain(f, a, m, lo, d, c) == lo + d <= m /\ c = SubSeq(f, (a + lo) + 1, (a + lo) + d)
CutLonger(buf, lo, d, m) == SubSeq(buf, lo + 1, Smaller(lo + d, m))

LEMMA CutOfCut ==
    ASSUME NEW f \in Seq(Nat), NEW a \in Nat, NEW m \in Nat, a + m <= Len(f),
           NEW buf, buf = SubSeq(f, a + 1, a + m),
           NEW lo \in Nat, NEW d \in Nat \ {0},
           NEW c, c = CutLonger(buf, lo, d, m), Len(c) = d
    PROVE  CutAgain(f, a, m, lo, d, c)
<1>1. buf \in Seq(Nat) /\ Len(buf) = m /\ \A l \in 1..m : buf[l] = f[a + l]
  <2>1. f \in Words
    BY DEF Words
  <2>2. CellsAt(buf, f, a, m)
    BY ONLY <2>1, a \in Nat, m \in Nat, a + m <= Len(f), buf = SubSeq(f, a + 1, a + m), CutCells
  <2>. QED
    BY ONLY <2>2 DEF CellsAt, Words
<1>2. lo + d <= m
  <2> SUFFICES ASSUME m < lo + d PROVE FALSE
    OBVIOUS
  <2>1. c = SubSeq(buf, lo + 1, m)
    BY DEF Smaller, CutLonger
  <2>2. CASE lo < m
    <3>1. Len(c) = m - lo
      BY ONLY <1>1, <2>1, <2>2, lo \in Nat, RestLen
    <3>. QED
      BY ONLY <2>2, <3>1, m < lo + d, Len(c) = d, lo \in Nat, m \in Nat, d \in Nat \ {0}
  <2>3. CASE lo >= m
    <3>1. Len(c) = 0
      BY ONLY <1>1, <2>1, <2>3, lo \in Nat, NoRest
    <3>. QED
      BY ONLY <3>1, Len(c) = d, d \in Nat \ {0}
  <2>. QED
    BY ONLY <2>2, <2>3, lo \in Nat, m \in Nat
<1>3. c = SubSeq(buf, lo + 1, lo + d)
  BY <1>2 DEF Smaller, CutLonger
<1> DEFINE o == a + lo
           v == SubSeq(f, o + 1, o + d)
<1>4. o \in Nat /\ o + d <= Len(f) /\ \A l \in 1..d : lo + l \in 1..m /\ a + (lo + l) = o + l
  BY <1>2
<1>5. c \in Seq(Nat) /\ Len(c) = d /\ \A l \in 1..d : c[l] = buf[lo + l]
  <2>1. buf \in Words /\ lo + d <= Len(buf) /\ d \in Nat
    BY <1>1, <1>2 DEF Words
  <2>2. CellsAt(c, buf, lo, d)
    BY ONLY <1>3, <2>1, lo \in Nat, CutCells
  <2>. QED
    BY ONLY <2>2 DEF CellsAt, Words
<1> HIDE DEF o
<1>6. v \in Seq(Nat) /\ Len(v) = d /\ \A l \in 1..d : v[l] = f[o + l]
  <2>1. f \in Words /\ d \in Nat /\ o \in Nat /\ o + d <= Len(f)
    BY <1>4 DEF Words
  <2>2. CellsAt(v, f, o, d)
    BY ONLY <2>1, CutCells
  <2>. QED
    BY ONLY <2>2 DEF CellsAt, Words
<1> HIDE DEF v
<1>7. c = v
  <2>1. ASSUME NEW l \in 1..d PROVE c[l] = v[l]
    <3>1. c[l] = buf[lo + l] /\ lo + l \in 1..m /\ v[l] = f[o + l] /\ a + (lo + l) = o + l
      BY ONLY <1>4, <1>5, <1>6, l \in 1..d
    <3>. QED
      BY ONLY <1>1, <3>1
  <2>. QED
    BY <1>5, <1>6, <2>1, SeqEqual
<1>. QED
  BY <1>2, <1>7 DEF v, o, CutAgain

\* The chunks of full length that a second reading meets are at the places.
LEMMA ChunksAtPlaces ==
    ASSUME NEW f \in Words, NEW c \in ChunksOf(f), Len(c) = ChunkSize
    PROVE  \E o \in Nat : Place(f, o) /\ c = WordFrom(f, o)
<1> DEFINE B == BufferSize
           C == ChunkSize
           buffer(n) == SubSeq(f, n * B + 1, Smaller((n + 1) * B, Len(f)))
<1>1. B \in Nat \ {0} /\ C \in Nat \ {0} /\ Len(f) \in Nat /\ f \in Seq(Nat)
  BY TrainingAssumption DEF Words
<1>2. PICK n \in 0..(Len(f) \div B) : \E i \in DOMAIN Split(buffer(n)) : c = Split(buffer(n))[i].data
  BY DEF ChunksOf
<1> DEFINE a == n * B
           m == Smaller(a + B, Len(f)) - a
           buf == buffer(n)
<1>3. n \in Nat /\ a \in Nat /\ a <= Len(f) /\ (n + 1) * B = a + B
  <2> DEFINE q == Len(f) \div B
  <2>1. q \in Nat /\ q * B \in Nat /\ q * B <= Len(f)
    BY <1>1, Quotient
  <2>2. n \in Nat /\ n <= q
    BY <1>2, <2>1
  <2> HIDE DEF q, B
  <2>3. n * B \in Nat /\ n * B <= q * B
    BY <1>1, <2>1, <2>2, ProductGrows
  <2>4. (n + 1) * B = n * B + B
    BY <1>1, <2>2
  <2> HIDE DEF a
  <2>5. a \in Nat /\ a <= q * B /\ (n + 1) * B = a + B
    BY <2>3, <2>4 DEF a
  <2> DEFINE z == q * B
  <2>6. z \in Nat /\ z <= Len(f) /\ a <= z
    BY <2>1, <2>5
  <2> HIDE DEF z
  <2>a. a \in Nat
    BY <2>5
  <2>b. \A p, r, t \in Nat : p <= r /\ r <= t => p <= t
    OBVIOUS
  <2>7. a <= Len(f)
    BY ONLY <1>1, <2>a, <2>b, <2>6, Zenon
  <2>. QED
    BY <2>2, <2>5, <2>7
<1> HIDE DEF B, C
<1>4. buf = SubSeq(f, a + 1, Smaller(a + B, Len(f)))
  BY <1>3
<1> HIDE DEF a, buf, buffer
<1>a. n \in Nat /\ a \in Nat /\ a <= Len(f)
  BY <1>3
<1>5. m \in Nat /\ m <= B /\ a + m <= Len(f) /\ a + m = Smaller(a + B, Len(f))
  BY ONLY <1>1, <1>a DEF Smaller, m
<1>6. buf = SubSeq(f, a + 1, a + m)
  BY <1>4, <1>5
<1> HIDE DEF m
<1>b. /\ f \in Seq(Nat) /\ a \in Nat /\ m \in Nat /\ a + m <= Len(f) /\ C \in Nat \ {0}
      /\ buf = SubSeq(f, a + 1, a + m)
  BY ONLY <1>1, <1>a, <1>5, <1>6
<1>7. Len(buf) = m
  BY ONLY <1>b, CutAt
<1>8. PICK i \in DOMAIN Split(buf) : c = Split(buf)[i].data
  BY <1>2 DEF buf
<1> DEFINE lo == (i - 1) * C
<1>9. /\ i \in Nat \ {0} /\ lo \in Nat /\ i * C = lo + C
      /\ c = SubSeq(buf, lo + 1, Smaller(i * C, m))
  <2> DEFINE e(l) == [at |-> (l - 1) * C, data |-> SubSeq(buf, (l - 1) * C + 1, Smaller(l * C, m))]
             r == (m + C - 1) \div C
  <2>1. Split(buf) = [l \in 1..r |-> e(l)]
    BY <1>7 DEF Split, C
  <2>2. m + C - 1 \in Nat
    BY <1>1, <1>5
  <2>3. r \in Nat
    BY <1>1, <2>2, Quotient
  <2>4. \A l : e(l).data = SubSeq(buf, (l - 1) * C + 1, Smaller(l * C, m))
    OBVIOUS
  <2> HIDE DEF e, r
  <2>5. i \in 1..r /\ c = e(i).data
    BY <1>8, <2>1
  <2>6. i \in Nat \ {0} /\ i - 1 \in Nat
    BY <2>3, <2>5
  <2>7. (i - 1) * C \in Nat /\ i * C = (i - 1) * C + C
    BY <1>1, <2>6
  <2>. QED
    BY <2>4, <2>5, <2>6, <2>7
<1>10. \E j \in Nat : lo = j * ChunkSize
  BY <1>9 DEF C
<1>11. c = SubSeq(buf, lo + 1, Smaller(lo + C, m))
  BY <1>9
<1> HIDE DEF lo
<1>12. lo + C <= m /\ c = SubSeq(f, (a + lo) + 1, (a + lo) + C)
  <2>1. Len(c) = C /\ lo \in Nat
    BY <1>9 DEF C
  <2>2. c = CutLonger(buf, lo, C, m)
    BY <1>11 DEF CutLonger
  <2>3. CutAgain(f, a, m, lo, C, c)
    BY ONLY <1>b, <2>1, <2>2, CutOfCut
  <2>. QED
    BY <2>3 DEF CutAgain
<1>13. Place(f, a + lo)
  <2>1. PICK j \in Nat : lo = j * ChunkSize
    BY <1>10
  <2>2. /\ a = n * BufferSize /\ m <= BufferSize /\ a + m <= Len(f) /\ lo + ChunkSize <= m
        /\ f \in Words /\ a \in Nat /\ n \in Nat /\ m \in Nat /\ lo \in Nat
    BY <1>3, <1>5, <1>9, <1>12 DEF a, B, C
  <2>. QED
    BY ONLY <2>1, <2>2, j \in Nat, ChunkIsPlace
<1>14. a + lo \in Nat
  BY ONLY <1>a, <1>9
<1>. QED
  BY <1>12, <1>13, <1>14 DEF C, WordFrom

LEMMA CountsStart ==
    ASSUME Init
    PROVE  CountsInv
<1>1. /\ corpus \in Corpora /\ next = 1 /\ worker = [w \in Workers |-> Idle] /\ table = << >>
      /\ faults = 0 /\ changes = 0
  BY DEF Init, TrainingInit
<1>2. Readable(corpus)
  BY <1>1, TrainingAssumption DEF Readable, Words
<1>3. (\A w \in Workers : worker[w] = Idle) /\ Idle.file = 0
  BY <1>1, IdleType
<1>4. Done(corpus, next, worker) = {}
  <2>1. DOMAIN corpus = 1..Len(corpus)
    BY <1>1, TrainingAssumption
  <2>. QED
    BY <1>1, <2>1 DEF Done, Places
<1>5. DOMAIN table = {}
  BY <1>1
<1>6. Exact(corpus, next, worker, table, augment)
  BY <1>2, <1>3, <1>4, <1>5 DEF Exact, WorkerOK, Apart, Tallied
<1>. QED
  BY <1>1, <1>6 DEF CountsInv

LEMMA CountsStep ==
    ASSUME TrainShape, Quiet, CountsInv, TrainingStep
    PROVE  CountsInv'
<1>1. /\ faults \in Nat /\ changes \in Nat
      /\ (phase = "count" /\ faults = 0 /\ changes = 0) => Exact(corpus, next, worker, table, augment)
  BY DEF CountsInv
<1>2. CASE ChangeFile
  <2>1. faults' = faults /\ changes' = changes + 1
    BY <1>2 DEF ChangeFile
  <2>. QED
    BY <1>1, <2>1 DEF CountsInv
<1>3. ASSUME NEW w \in Workers, OpenFile(w) PROVE CountsInv'
  <2>1. /\ phase = "count" /\ worker[w].file = 0 /\ next <= Len(corpus) /\ next' = next + 1
        /\ corpus' = corpus /\ augment' = augment /\ table' = table /\ changes' = changes /\ phase' = phase
    BY <1>3 DEF OpenFile, options
  <2>2. CASE corpus[next] # Gone /\ faults' = faults
              /\ worker' = [worker EXCEPT ![w] = [Idle EXCEPT !.file = next, !.data = corpus[next]]]
    <3>1. Exact(corpus, next, worker, table, augment) => Exact(corpus, next + 1, worker', table, augment)
      BY <2>1, <2>2, CountsOfOpen
    <3>. QED
      BY <1>1, <2>1, <2>2, <3>1 DEF CountsInv
  <2>3. CASE corpus[next] = Gone /\ faults' = faults
    <3>1. next \in DOMAIN corpus
      BY <2>1 DEF TrainShape, CorpusShape
    <3>2. ~Exact(corpus, next, worker, table, augment)
      BY <2>3, <3>1 DEF Exact, Readable
    <3>. QED
      BY <1>1, <2>1, <2>3, <3>2 DEF CountsInv
  <2>4. CASE faults' = faults + 1
    BY <1>1, <2>1, <2>4 DEF CountsInv
  <2>. QED
    BY <1>3, <2>2, <2>3, <2>4 DEF OpenFile, Fault
<1>4. ASSUME NEW w \in Workers, ReadBuffer(w) PROVE CountsInv'
  <2> DEFINE n == Smaller(BufferSize, Len(worker[w].data) - worker[w].pos)
  <2>1. /\ worker[w].file # 0 /\ worker[w].todo = << >> /\ next' = next /\ phase' = phase
        /\ corpus' = corpus /\ augment' = augment /\ table' = table /\ changes' = changes
    BY <1>4 DEF ReadBuffer, options
  <2>2. \/ worker' = [worker EXCEPT ![w] = Buffered(worker[w], n, n < BufferSize)] /\ faults' = faults
        \/ faults' = faults + 1
    BY <1>4 DEF ReadBuffer, Fault
  <2> HIDE DEF n
  <2>3. CASE worker' = [worker EXCEPT ![w] = Buffered(worker[w], n, n < BufferSize)] /\ faults' = faults
    <3>1. Exact(corpus, next, worker, table, augment) => Exact(corpus, next, worker', table, augment)
      BY <2>1, <2>3, CountsOfRead DEF n
    <3>. QED
      BY <1>1, <2>1, <2>3, <3>1 DEF CountsInv
  <2>4. CASE faults' = faults + 1
    BY <1>1, <2>1, <2>4 DEF CountsInv
  <2>. QED
    BY <2>2, <2>3, <2>4
<1>5. ASSUME NEW w \in Workers, CountChunk(w) PROVE CountsInv'
  <2>1. /\ worker[w].todo # << >> /\ next' = next /\ phase' = phase /\ faults' = faults
        /\ corpus' = corpus /\ augment' = augment /\ changes' = changes
        /\ worker' = [worker EXCEPT ![w] = Settled([worker[w] EXCEPT !.todo = Tail(@)])]
        /\ table' = IF augment THEN Record(table, Head(worker[w].todo).data)
                    ELSE RecordAt(table, Head(worker[w].todo).data, Head(worker[w].todo).at)
    BY <1>5 DEF CountChunk, options
  <2>2. Exact(corpus, next, worker, table, augment) => Exact(corpus, next, worker', table', augment)
    BY <2>1, CountsOfCount
  <2>. QED
    BY <1>1, <2>1, <2>2 DEF CountsInv
<1>6. CASE AllCounted \/ AugmentPatterns \/ Merge \/ SelectPicked
  <2>1. phase' # "count" /\ faults' = faults /\ changes' = changes
    BY <1>6 DEF AllCounted, AugmentPatterns, Merge, SelectPicked
  <2>. QED
    BY <1>1, <2>1 DEF CountsInv
<1>7. CASE ReadPicked \/ CreateBrain \/ WriteHeader \/ WritePattern \/ WriteFails
  <2>1. phase' # "count" /\ changes' = changes
    BY <1>7 DEF ReadPicked, CreateBrain, WriteHeader, WritePattern, WriteFails
  <2>2. faults' = faults \/ faults' = faults + 1
    BY <1>7 DEF ReadPicked, CreateBrain, WriteHeader, WritePattern, WriteFails, Fault
  <2>. QED
    BY <1>1, <2>1, <2>2 DEF CountsInv
<1>. QED
  BY <1>2, <1>3, <1>4, <1>5, <1>6, <1>7 DEF TrainingStep

LEMMA CountsHold ==
    ASSUME TrainShape, CountsInv
    PROVE  CountsAreExact
<1> SUFFICES ASSUME phase = "count", Counted, faults = 0, changes = 0
             PROVE  /\ \A p \in DOMAIN table :
                          LET o == Occurrences(p)
                          IN  /\ Cardinality(o) = table[p].count
                              /\ ~augment => /\ \E x \in o : table[p].first = (x[1] - 1) * Span + x[2]
                                             /\ \A x \in o : table[p].first <= (x[1] - 1) * Span + x[2]
                    /\ \A i \in DOMAIN corpus : \A c \in ChunksOf(corpus[i]) :
                          Len(c) = ChunkSize => c \in DOMAIN table
  BY DEF CountsAreExact
<1> DEFINE D == Done(corpus, next, worker)
<1>1. Readable(corpus) /\ Tallied(table, D, corpus, augment)
  BY DEF CountsInv, Exact
<1>2. corpus \in Seq(Files) /\ next \in Nat /\ DOMAIN corpus = 1..Len(corpus) /\ Len(corpus) \in Nat
  BY DEF TrainShape, CorpusShape
<1>3. D = Places(corpus)
  <2>1. ASSUME NEW x \in Places(corpus) PROVE x \in D
    <3>1. x[1] \in 1..Len(corpus)
      BY <1>2 DEF Places
    <3>2. x[1] < next /\ x[1] # 0
      BY <1>2, <3>1 DEF Counted
    <3>3. \A w \in Workers : worker[w].file = 0
      BY IdleType DEF Counted
    <3>. QED
      BY <3>2, <3>3 DEF Done, Free
  <2>. QED
    BY <2>1 DEF Done
<1> HIDE DEF D
<1>4. \A i \in DOMAIN corpus : corpus[i] \in Words /\ Len(corpus[i]) \in Nat /\ Len(corpus[i]) < Span
  BY <1>1 DEF Readable, Words
<1>5. ASSUME NEW p \in DOMAIN table
      PROVE  LET o == Occurrences(p)
             IN  /\ Cardinality(o) = table[p].count
                 /\ ~augment => /\ \E x \in o : table[p].first = (x[1] - 1) * Span + x[2]
                                /\ \A x \in o : table[p].first <= (x[1] - 1) * Span + x[2]
  <2>1. Occurrences(p) = PlacesOf(D, corpus, p)
    BY <1>3 DEF Occurrences, PlacesOf, Places, Place, WordOf, WordFrom
  <2>2. Tally(table[p], PlacesOf(D, corpus, p), augment)
    BY <1>1 DEF Tallied
  <2>. QED
    BY <2>1, <2>2 DEF Tally, PositionOf
<1>6. ASSUME NEW i \in DOMAIN corpus, NEW c \in ChunksOf(corpus[i]), Len(c) = ChunkSize
      PROVE  c \in DOMAIN table
  <2> DEFINE f == corpus[i]
  <2>1. f \in Words /\ Len(f) \in Nat /\ Len(f) < Span
    BY <1>4
  <2>2. PICK o \in Nat : Place(f, o) /\ c = WordFrom(f, o)
    BY <1>6, <2>1, ChunksAtPlaces
  <2>3. o \in 0..Span
    <3>1. o + ChunkSize <= Len(f) /\ ChunkSize \in Nat /\ Span \in Nat
      BY <2>2, TrainingAssumption DEF Place
    <3>. QED
      BY <2>1, <3>1
  <2> DEFINE x == <<i, o>>
  <2>4. x \in (DOMAIN corpus) \X (0..Span) /\ x[1] = i /\ x[2] = o
    BY <2>3
  <2> HIDE DEF x
  <2>5. x \in Places(corpus) /\ WordOf(corpus, x) = c
    BY <2>2, <2>4 DEF Places, WordOf
  <2>. QED
    BY <1>1, <1>3, <2>5 DEF Tallied
<1>. QED
  BY <1>5, <1>6

LEMMA CountsAlways == Spec => []CountsInv
<1>1. Init => CountsInv
  BY CountsStart
<1>2. BrainInv /\ EliteInv /\ CountsInv /\ [Next]_vars => CountsInv'
  <2> SUFFICES ASSUME BrainInv, EliteInv, CountsInv, [Next]_vars PROVE CountsInv'
    OBVIOUS
  <2>1. TrainShape /\ Quiet
    BY DEF BrainInv, EliteInv
  <2>2. CASE TrainingStep
    BY <2>1, <2>2, CountsStep
  <2>3. CASE UNCHANGED trainingVars
    BY <2>3 DEF trainingVars, counting, options, CountsInv
  <2>. QED
    BY <2>2, <2>3 DEF Next, Train, Search, vars
<1>. QED
  BY <1>1, <1>2, BrainAlways, EliteAlways, PTL DEF Spec

(* The frequency table: for every corpus, buffer and chunk size, and however the
   workers take the files and the mutex, the table of a training that read every
   file holds exactly the patterns of the corpus, each with its number of
   occurrences and, without augmentation, the position of its first one. *)
THEOREM ExactCounts == Spec => []CountsAreExact
<1>1. BrainInv /\ CountsInv => CountsAreExact
  BY CountsHold DEF BrainInv
<1>. QED
  BY <1>1, BrainAlways, CountsAlways, PTL

=============================================================================
