-------------------------- MODULE RoundTripProofs --------------------------
(***************************************************************************)
(* Artifacts and what they mean: the encoder's bytes can be read in one    *)
(* way only, values that mean the same have the same bytes, Decode takes   *)
(* every artifact back that is not too large for it, and damage is found.  *)
(***************************************************************************)
EXTENDS RoundTrip, ReencodeProofs
-----------------------------------------------------------------------------
(***************************************************************************)
(* The encoder puts the pairs of a map in order.                           *)
(***************************************************************************)
\* Of two different keys, one is before the other.
LEMMA BytesLessTotal ==
  ASSUME NEW x \in Bytes, NEW y \in Bytes, x # y
  PROVE  BytesLess(x, y) \/ BytesLess(y, x)
<1>1. /\ Len(x) \in Nat /\ Len(y) \in Nat /\ x \in Seq(Byte) /\ y \in Seq(Byte)
      /\ \A i \in 1..Len(x) : x[i] \in Int
      /\ \A i \in 1..Len(y) : y[i] \in Int
  <2>1. x \in Seq(Byte) /\ y \in Seq(Byte)
    BY DEF Bytes
  <2> QED
    BY <2>1, LenProperties, ByteType
<1> DEFINE S == {k \in 1..Len(x) : k <= Len(y) /\ x[k] # y[k]}
<1>2. CASE S = {}
  <2>1. \A k \in 1..Len(x) : k <= Len(y) => x[k] = y[k]
    BY <1>2
  <2>2. CASE Len(x) < Len(y)
    BY <1>1, <2>1, <2>2 DEF BytesLess, Agree
  <2>3. CASE Len(y) < Len(x)
    BY <1>1, <2>1, <2>3 DEF BytesLess, Agree
  <2>4. CASE Len(x) = Len(y)
    BY <1>1, <2>1, <2>4, SeqEqual
  <2> QED
    BY <1>1, <2>2, <2>3, <2>4
<1>3. CASE S # {}
  <2>1. PICK m \in S : \A k \in S : m <= k
    <3>1. S \in SUBSET Nat
      OBVIOUS
    <3> HIDE DEF S
    <3> QED
      BY <1>3, <3>1, LeastMember
  <2>2. m \in 1..Len(x) /\ m \in 1..Len(y) /\ x[m] # y[m]
    BY <1>1
  <2>3. \A i \in 1 .. m - 1 : x[i] = y[i]
    <3> TAKE i \in 1 .. m - 1
    <3>1. i \notin S /\ i \in 1..Len(x) /\ i <= Len(y)
      BY <1>1, <2>1, <2>2
    <3> QED
      BY <3>1
  <2>4. x[m] < y[m] \/ y[m] < x[m]
    BY <1>1, <2>2
  <2> HIDE DEF S
  <2> QED
    BY <2>2, <2>3, <2>4 DEF BytesLess, Agree
<1> QED
  BY <1>2, <1>3

\* The pairs of a map, by key and then by place, are in a strict linear order.
LEMMA PrecedesOrder ==
  ASSUME NEW n \in Nat, NEW pairs, \A i \in 1..n : pairs[i].key \in Bytes
  PROVE  /\ \A i \in 1..n : ~Precedes(pairs, i, i)
         /\ \A i, j, k \in 1..n :
              Precedes(pairs, i, j) /\ Precedes(pairs, j, k) => Precedes(pairs, i, k)
         /\ \A i, j \in 1..n : i # j => Precedes(pairs, i, j) \/ Precedes(pairs, j, i)
<1>1. \A i \in 1..n : ~Precedes(pairs, i, i)
  BY NeverBeforeItself DEF Precedes, KeyLess
<1>2. ASSUME NEW i \in 1..n, NEW j \in 1..n, NEW k \in 1..n,
             Precedes(pairs, i, j), Precedes(pairs, j, k)
      PROVE  Precedes(pairs, i, k)
  <2> DEFINE x == pairs[i].key
             y == pairs[j].key
             z == pairs[k].key
  <2>1. x \in Bytes /\ y \in Bytes /\ z \in Bytes
    OBVIOUS
  <2>2. /\ BytesLess(x, y) \/ (x = y /\ i < j)
        /\ BytesLess(y, z) \/ (y = z /\ j < k)
    BY <1>2 DEF Precedes, KeyLess
  <2>3. BytesLess(x, y) /\ BytesLess(y, z) => BytesLess(x, z)
    BY <2>1, BytesLessTransitive
  <2> HIDE DEF x, y, z
  <2>4. BytesLess(x, z) \/ (x = z /\ i < k)
    BY <2>2, <2>3
  <2> QED
    BY <2>4 DEF Precedes, KeyLess, x, z
<1>3. ASSUME NEW i \in 1..n, NEW j \in 1..n, i # j
      PROVE  Precedes(pairs, i, j) \/ Precedes(pairs, j, i)
  <2>1. pairs[i].key # pairs[j].key =>
          BytesLess(pairs[i].key, pairs[j].key) \/ BytesLess(pairs[j].key, pairs[i].key)
    BY BytesLessTotal
  <2>2. i < j \/ j < i
    BY <1>3
  <2> QED
    BY <2>1, <2>2 DEF Precedes, KeyLess
<1> QED
  BY <1>1, <1>2, <1>3

\* So each has a place of its own, and the later one the higher.
LEMMA PlacesApart ==
  ASSUME NEW n \in Nat, NEW pairs, DOMAIN pairs = 1..n, \A i \in 1..n : pairs[i].key \in Bytes
  PROVE  /\ \A i \in 1..n : Place(pairs, i) \in 1..n
         /\ \A i, j \in 1..n : Precedes(pairs, j, i) => Place(pairs, j) < Place(pairs, i)
<1> DEFINE before(i) == {j \in 1..n : Precedes(pairs, j, i)}
<1>1. \A i \in 1..n : Place(pairs, i) = Cardinality(before(i)) + 1
  BY DEF Place
<1>2. IsFiniteSet(1..n) /\ Cardinality(1..n) = n
  BY FS_Interval
<1>3. \A i \in 1..n : IsFiniteSet(before(i)) /\ Cardinality(before(i)) \in Nat
  <2> TAKE i \in 1..n
  <2>1. before(i) \in SUBSET (1..n)
    OBVIOUS
  <2> HIDE DEF before
  <2> QED
    BY <1>2, <2>1, FS_Subset, FS_CardinalityType
<1>4. ASSUME NEW i \in 1..n PROVE Cardinality(before(i)) < n
  <2>1. before(i) \in SUBSET (1..n) /\ i \notin before(i)
    BY PrecedesOrder
  <2> HIDE DEF before
  <2>2. before(i) # 1..n
    BY <2>1
  <2>3. Cardinality(before(i)) <= n /\ Cardinality(before(i)) # n
    BY <1>2, <2>1, <2>2, FS_Subset
  <2> QED
    BY <1>3, <2>3
<1>5. ASSUME NEW i \in 1..n, NEW j \in 1..n, Precedes(pairs, j, i)
      PROVE  Cardinality(before(j)) < Cardinality(before(i))
  <2>1. \A k \in 1..n : Precedes(pairs, k, j) => Precedes(pairs, k, i)
    BY <1>5, PrecedesOrder
  <2>2. before(j) \in SUBSET before(i)
    BY <2>1
  <2>3. j \in before(i) /\ j \notin before(j)
    BY <1>5, PrecedesOrder
  <2> HIDE DEF before
  <2>4. before(i) # before(j)
    BY <2>3
  <2>5. /\ Cardinality(before(j)) <= Cardinality(before(i))
        /\ Cardinality(before(i)) # Cardinality(before(j))
    BY <1>3, <2>2, <2>4, FS_Subset
  <2> QED
    BY <1>3, <2>5
<1> HIDE DEF before
<1>6. \A i \in 1..n : Place(pairs, i) \in 1..n
  <2> TAKE i \in 1..n
  <2>1. Place(pairs, i) = Cardinality(before(i)) + 1
    BY ONLY <1>1
  <2>2. Cardinality(before(i)) \in Nat /\ Cardinality(before(i)) < n
    BY ONLY <1>3, <1>4
  <2>3. n \in Nat
    OBVIOUS
  <2> QED
    BY ONLY <2>1, <2>2, <2>3
<1>7. ASSUME NEW i \in 1..n, NEW j \in 1..n, Precedes(pairs, j, i)
      PROVE  Place(pairs, j) < Place(pairs, i)
  <2>1. Cardinality(before(j)) < Cardinality(before(i))
    BY <1>5, <1>7
  <2>2. Cardinality(before(j)) \in Nat /\ Cardinality(before(i)) \in Nat
    BY <1>3
  <2>3. /\ Place(pairs, j) = Cardinality(before(j)) + 1
        /\ Place(pairs, i) = Cardinality(before(i)) + 1
    BY <1>1
  <2> QED
    BY <2>1, <2>2, <2>3
<1> QED
  BY <1>6, <1>7

\* Sorting only moves the pairs, and puts them in that order.
LEMMA Sorting ==
  ASSUME NEW n \in Nat, NEW pairs, DOMAIN pairs = 1..n, \A i \in 1..n : pairs[i].key \in Bytes
  PROVE  \E f \in [1..n -> 1..n] :
           /\ \A i \in 1..n : \E k \in 1..n : f[k] = i
           /\ SortPairs(pairs) = [k \in 1..n |-> pairs[f[k]]]
           /\ \A k, l \in 1..n : k < l => Precedes(pairs, f[k], f[l])
<1> DEFINE g == [i \in 1..n |-> Place(pairs, i)]
           f == [k \in 1..n |-> CHOOSE i \in 1..n : Place(pairs, i) = k]
<1>1. g \in [1..n -> 1..n]
  BY PlacesApart
<1>2. \A i, j \in 1..n : g[i] = g[j] => i = j
  <2> TAKE i, j \in 1..n
  <2>1. i # j => Precedes(pairs, i, j) \/ Precedes(pairs, j, i)
    BY PrecedesOrder
  <2>2. Place(pairs, i) \in 1..n /\ Place(pairs, j) \in 1..n
    BY PlacesApart
  <2>3. /\ Precedes(pairs, i, j) => Place(pairs, i) < Place(pairs, j)
        /\ Precedes(pairs, j, i) => Place(pairs, j) < Place(pairs, i)
    BY PlacesApart
  <2> QED
    BY <2>1, <2>2, <2>3
<1>3. \A k \in 1..n : \E i \in 1..n : g[i] = k
  <2>1. g \in Injection(1..n, 1..n)
    <3> HIDE DEF g
    <3> QED
      BY <1>1, <1>2 DEF Injection, IsInjective
  <2>2. IsFiniteSet(1..n)
    BY FS_Interval
  <2> HIDE DEF g
  <2>3. g \in Surjection(1..n, 1..n)
    BY <2>1, <2>2, FS_Injection
  <2> QED
    BY <2>3 DEF Surjection
<1>4. \A k \in 1..n : f[k] \in 1..n /\ Place(pairs, f[k]) = k
  <2> TAKE k \in 1..n
  <2>1. \E i \in 1..n : Place(pairs, i) = k
    BY <1>3
  <2> QED
    BY <2>1
<1>5. SortPairs(pairs) = [k \in 1..n |-> pairs[f[k]]]
  BY DEF SortPairs
<1>6. \A i \in 1..n : \E k \in 1..n : f[k] = i
  <2> TAKE i \in 1..n
  <2>1. Place(pairs, i) \in 1..n
    BY PlacesApart
  <2>2. f[Place(pairs, i)] \in 1..n /\ Place(pairs, f[Place(pairs, i)]) = Place(pairs, i)
    BY <1>4, <2>1
  <2> HIDE DEF f
  <2>3. g[f[Place(pairs, i)]] = g[i]
    BY <2>2
  <2> HIDE DEF g
  <2> QED
    BY <1>2, <2>1, <2>2, <2>3
<1>7. \A k, l \in 1..n : k < l => Precedes(pairs, f[k], f[l])
  <2> SUFFICES ASSUME NEW k \in 1..n, NEW l \in 1..n, k < l
               PROVE  Precedes(pairs, f[k], f[l])
    OBVIOUS
  <2> HIDE DEF f, g
  <2>1. /\ f[k] \in 1..n /\ Place(pairs, f[k]) = k
        /\ f[l] \in 1..n /\ Place(pairs, f[l]) = l
    BY <1>4
  <2>2. f[k] # f[l]
    BY <2>1
  <2>3. Precedes(pairs, f[l], f[k]) => l < k
    BY <2>1, PlacesApart
  <2>4. ~Precedes(pairs, f[l], f[k])
    BY <2>3
  <2>5. Precedes(pairs, f[k], f[l]) \/ Precedes(pairs, f[l], f[k])
    BY <2>1, <2>2, PrecedesOrder
  <2> QED
    BY <2>4, <2>5
<1>8. f \in [1..n -> 1..n]
  BY <1>4
<1> HIDE DEF f, g
<1> QED
  BY <1>5, <1>6, <1>7, <1>8

\* When no two neighbours have the same key, the keys ascend.
LEMMA SortedKeysAscend ==
  ASSUME NEW n \in Nat, NEW pairs, DOMAIN pairs = 1..n, \A i \in 1..n : pairs[i].key \in Bytes,
         NEW f \in [1..n -> 1..n],
         \A k, l \in 1..n : k < l => Precedes(pairs, f[k], f[l]),
         \A k \in 1 .. n - 1 : pairs[f[k]].key # pairs[f[k + 1]].key
  PROVE  \A k, l \in 1..n : k < l => BytesLess(pairs[f[k]].key, pairs[f[l]].key)
<1> SUFFICES ASSUME NEW k \in 1..n, NEW l \in 1..n, k < l
             PROVE  BytesLess(pairs[f[k]].key, pairs[f[l]].key)
  OBVIOUS
<1> DEFINE key(i) == pairs[f[i]].key
<1>1. \A i \in 1..n : key(i) \in Bytes
  OBVIOUS
<1>2. \A i, j \in 1..n : i < j => BytesLess(key(i), key(j)) \/ key(i) = key(j)
  BY DEF Precedes, KeyLess
<1>3. k + 1 \in 1..n /\ k \in 1 .. n - 1 /\ k < k + 1
  OBVIOUS
<1>4. BytesLess(key(k), key(k + 1))
  BY <1>2, <1>3
<1>5. CASE k + 1 = l
  BY <1>4, <1>5
<1>6. CASE k + 1 < l
  <2>1. BytesLess(key(k + 1), key(l)) \/ key(k + 1) = key(l)
    BY <1>2, <1>3, <1>6
  <2> QED
    BY <1>1, <1>3, <1>4, <2>1, BytesLessTransitive
<1> QED
  BY <1>5, <1>6

-----------------------------------------------------------------------------
(***************************************************************************)
(* What the encoder writes, one level at a time.                           *)
(***************************************************************************)
\* The bytes of two neighbours, and of a part of a part.
LEMMA PartOfConcat ==
  ASSUME NEW s \in Bytes, NEW t \in Bytes
  PROVE  /\ s \o t \in Bytes /\ Len(s \o t) = Len(s) + Len(t)
         /\ Part(s \o t, Len(s), Len(s) + Len(t)) = t
         /\ \A x, y \in Nat : x <= y /\ y <= Len(s) => Part(s \o t, x, y) = Part(s, x, y)
<1>1. /\ s \in Seq(Byte) /\ t \in Seq(Byte) /\ Len(s) \in Nat /\ Len(t) \in Nat
      /\ s \o t \in Bytes /\ Len(s \o t) = Len(s) + Len(t)
      /\ \A i \in 1 .. Len(s) + Len(t) :
           (s \o t)[i] = IF i <= Len(s) THEN s[i] ELSE t[i - Len(s)]
  BY LenProperties, ConcatProperties DEF Bytes
<1>2. Part(s \o t, Len(s), Len(s) + Len(t)) = t
  <2> DEFINE r == Part(s \o t, Len(s), Len(s) + Len(t))
  <2>1. /\ r \in Bytes /\ Len(r) = (Len(s) + Len(t)) - Len(s)
        /\ \A k \in 1 .. (Len(s) + Len(t)) - Len(s) : r[k] = (s \o t)[Len(s) + k]
    <3>1. Len(s) \in Nat /\ Len(s) + Len(t) \in Nat /\ Len(s) <= Len(s) + Len(t)
          /\ Len(s) + Len(t) <= Len(s \o t)
      BY <1>1
    <3> QED
      BY <1>1, <3>1, PartFacts
  <2>2. \A k \in 1..Len(t) : (s \o t)[Len(s) + k] = t[k]
    <3> TAKE k \in 1..Len(t)
    <3>1. Len(s) + k \in 1 .. Len(s) + Len(t) /\ ~(Len(s) + k <= Len(s)) /\ (Len(s) + k) - Len(s) = k
      BY <1>1
    <3> QED
      BY <1>1, <3>1
  <2>3. Len(r) = Len(t) /\ \A k \in 1..Len(t) : r[k] = t[k]
    <3>1. (Len(s) + Len(t)) - Len(s) = Len(t)
      BY <1>1
    <3> HIDE DEF r
    <3> QED
      BY <2>1, <2>2, <3>1
  <2> HIDE DEF r
  <2>4. r \in Seq(Byte)
    BY <2>1 DEF Bytes
  <2>5. r = t
    BY ONLY <1>1, <2>3, <2>4, SeqEqual
  <2> QED
    BY <2>5 DEF r
<1>3. ASSUME NEW x \in Nat, NEW y \in Nat, x <= y, y <= Len(s)
      PROVE  Part(s \o t, x, y) = Part(s, x, y)
  <2> DEFINE r == Part(s \o t, x, y)
             q == Part(s, x, y)
  <2>1. y <= Len(s \o t)
    BY <1>1, <1>3
  <2>2. /\ r \in Bytes /\ Len(r) = y - x
        /\ \A k \in 1 .. y - x : r[k] = (s \o t)[x + k]
    BY <1>1, <1>3, <2>1, PartFacts
  <2>3. /\ q \in Bytes /\ Len(q) = y - x
        /\ \A k \in 1 .. y - x : q[k] = s[x + k]
    BY <1>3, PartFacts
  <2>4. \A k \in 1 .. y - x : (s \o t)[x + k] = s[x + k]
    <3> TAKE k \in 1 .. y - x
    <3>1. x + k \in 1 .. Len(s) + Len(t) /\ x + k <= Len(s)
      BY <1>1, <1>3
    <3> QED
      BY <1>1, <3>1
  <2> HIDE DEF r, q
  <2>5. r \in Seq(Byte) /\ q \in Seq(Byte) /\ Len(r) = Len(q) /\ \A k \in 1..Len(r) : r[k] = q[k]
    BY <2>2, <2>3, <2>4 DEF Bytes
  <2>6. r = q
    BY ONLY <2>5, SeqEqual
  <2> QED
    BY <2>6 DEF r, q
<1> QED
  BY <1>1, <1>2, <1>3

\* A part of a part is a part of the whole.
LEMMA PartOfPart ==
  ASSUME NEW d \in Bytes, NEW p \in Nat, NEW e \in Nat, p <= e, e <= Len(d),
         NEW x \in Nat, NEW y \in Nat, x <= y, y <= e - p
  PROVE  Part(Part(d, p, e), x, y) = Part(d, p + x, p + y)
<1> DEFINE s == Part(d, p, e)
           r == Part(s, x, y)
           q == Part(d, p + x, p + y)
<1>0. Len(d) \in Nat
  BY LenProperties DEF Bytes
<1>1. /\ s \in Bytes /\ Len(s) = e - p
      /\ \A k \in 1 .. e - p : s[k] = d[p + k]
  BY PartFacts
<1>2. /\ r \in Bytes /\ Len(r) = y - x
      /\ \A k \in 1 .. y - x : r[k] = s[x + k]
  <2>1. s \in Bytes /\ y <= Len(s)
    BY <1>1
  <2> HIDE DEF s
  <2> QED
    BY <2>1, PartFacts
<1>3. /\ q \in Bytes /\ Len(q) = y - x
      /\ \A k \in 1 .. y - x : q[k] = d[(p + x) + k]
  <2>1. /\ p + x \in Nat /\ p + y \in Nat /\ p + x <= p + y /\ p + y <= Len(d)
        /\ (p + y) - (p + x) = y - x /\ d \in Bytes
    BY <1>0
  <2> HIDE DEF q, s, r
  <2>2. /\ Part(d, p + x, p + y) \in Bytes /\ Len(Part(d, p + x, p + y)) = (p + y) - (p + x)
        /\ \A k \in 1 .. (p + y) - (p + x) : Part(d, p + x, p + y)[k] = d[(p + x) + k]
    BY ONLY <2>1, PartFacts
  <2> QED
    BY ONLY <2>1, <2>2 DEF q
<1> HIDE DEF s, r, q
<1>4. \A k \in 1 .. y - x : r[k] = q[k]
  <2> TAKE k \in 1 .. y - x
  <2>1. x + k \in 1 .. e - p /\ p + (x + k) = (p + x) + k
    OBVIOUS
  <2>2. s[x + k] = d[p + (x + k)]
    BY <1>1, <2>1
  <2> QED
    BY <1>2, <1>3, <2>1, <2>2
<1>5. r \in Seq(Byte) /\ q \in Seq(Byte) /\ Len(r) = Len(q) /\ \A k \in 1..Len(r) : r[k] = q[k]
  BY <1>2, <1>3, <1>4 DEF Bytes
<1>6. r = q
  BY ONLY <1>5, SeqEqual
<1> QED
  BY <1>6 DEF r, q, s

\* FlattenSeq goes through the parts one by one.
Unrolls(f, t, n) == f[1] = t[1] /\ \A i \in 2..n : f[i] = f[i - 1] \o t[i]

\* It does so one after another.
LEMMA FlattenUnrolls ==
  ASSUME NEW n \in Nat, NEW t, Len(t) = n, n # 0
  PROVE  \E f : FlattenSeq(t) = f[n] /\ Unrolls(f, t, n)
<1> DEFINE next(f, i) == IF i = 1 THEN t[i] ELSE f[i - 1] \o t[i]
           steps(f, k) == f = [i \in 1..k |-> next(f, i)]
           good(k) == \E f : steps(f, k)
           S == {k \in 1..n : ~good(k)}
           flat == CHOOSE f : f = [i \in 1..n |-> next(f, i)]
<1>1. good(1)
  <2> DEFINE g == [i \in 1..1 |-> t[i]]
  <2>1. g = [i \in 1..1 |-> next(g, i)]
    OBVIOUS
  <2> HIDE DEF g, next
  <2> QED
    BY <2>1
<1>2. ASSUME NEW k \in 2..n, good(k - 1) PROVE good(k)
  <2>1. PICK f : steps(f, k - 1)
    BY <1>2
  <2> DEFINE g == [i \in 1..k |-> IF i = k THEN f[k - 1] \o t[k] ELSE f[i]]
  <2>2. \A i \in 1 .. k - 1 : g[i] = f[i] /\ f[i] = next(f, i)
    <3> TAKE i \in 1 .. k - 1
    <3>1. i \in 1..k /\ i # k
      OBVIOUS
    <3>2. g[i] = f[i]
      BY <3>1
    <3> HIDE DEF g
    <3>3. f[i] = [j \in 1 .. k - 1 |-> next(f, j)][i]
      BY <2>1
    <3> QED
      BY <3>2, <3>3
  <2>3. \A i \in 1..k : g[i] = next(g, i)
    <3> TAKE i \in 1..k
    <3>1. CASE i = k
      <4>1. k - 1 \in 1 .. k - 1 /\ k \in 1..k /\ k # 1
        OBVIOUS
      <4>2. g[k] = f[k - 1] \o t[k]
        BY <4>1
      <4>3. g[k - 1] = f[k - 1]
        BY <2>2, <4>1
      <4> HIDE DEF g
      <4> QED
        BY <3>1, <4>1, <4>2, <4>3
    <3>2. CASE i = 1
      <4>1. 1 \in 1 .. k - 1
        OBVIOUS
      <4> HIDE DEF g
      <4> QED
        BY <2>2, <3>2, <4>1
    <3>3. CASE i # k /\ i # 1
      <4>1. i \in 1 .. k - 1 /\ i - 1 \in 1 .. k - 1
        BY <3>3
      <4> HIDE DEF g
      <4> QED
        BY <2>2, <3>3, <4>1
    <3> QED
      BY <3>1, <3>2, <3>3
  <2>4. g = [i \in 1..k |-> g[i]]
    OBVIOUS
  <2> HIDE DEF g
  <2>5. g = [i \in 1..k |-> next(g, i)]
    BY <2>3, <2>4
  <2> HIDE DEF next
  <2> QED
    BY <2>5
<1> HIDE DEF good
<1>3. S = {}
  <2> SUFFICES ASSUME S # {} PROVE FALSE
    OBVIOUS
  <2>1. PICK m \in S : \A k \in S : m <= k
    <3>1. S \in SUBSET Nat
      OBVIOUS
    <3> HIDE DEF S
    <3> QED
      BY <3>1, LeastMember
  <2>2. m \in 1..n /\ ~good(m)
    OBVIOUS
  <2>3. m \in 2..n
    BY <1>1, <2>2
  <2>4. m - 1 \in 1..n /\ m - 1 \notin S
    BY <2>1, <2>3
  <2> QED
    BY <1>2, <2>2, <2>3, <2>4
<1>4. flat = [i \in 1..n |-> next(flat, i)]
  <2>1. n \in 1..n /\ n \notin S
    BY <1>3
  <2>2. good(n)
    BY <2>1
  <2> HIDE DEF next, S
  <2> QED
    BY <2>2 DEF good
<1>5. FlattenSeq(t) = flat[n]
  BY DEF FlattenSeq
<1> HIDE DEF flat, S
<1>6. \A i \in 1..n : flat[i] = next(flat, i)
  <2> TAKE i \in 1..n
  <2>1. flat[i] = [j \in 1..n |-> next(flat, j)][i]
    BY <1>4
  <2> QED
    BY <2>1
<1>7. flat[1] = t[1]
  <2>1. 1 \in 1..n
    OBVIOUS
  <2> QED
    BY <1>6, <2>1
<1>8. \A i \in 2..n : flat[i] = flat[i - 1] \o t[i]
  <2> TAKE i \in 2..n
  <2>1. i \in 1..n /\ i # 1
    OBVIOUS
  <2> QED
    BY <1>6, <2>1
<1> QED
  BY <1>5, <1>7, <1>8 DEF Unrolls

\* t[1], ... t[n] lie side by side in d, between the cuts.
Tiles(d, t, n, cut) ==
  /\ cut \in [1 .. n + 1 -> Nat]
  /\ \A j \in 1..n : /\ cut[j + 1] = cut[j] + Len(t[j]) /\ cut[j + 1] <= Len(d)
                     /\ Part(d, cut[j], cut[j + 1]) = t[j]

\* They fill it.
Spread(d, t, n, cut) == Tiles(d, t, n, cut) /\ cut[1] = 0 /\ cut[n + 1] = Len(d)

\* One more.
LEMMA TilesGrow ==
  ASSUME NEW n \in Nat, NEW t, \A j \in 1 .. n + 1 : t[j] \in Bytes,
         NEW d \in Bytes, NEW cut, Spread(d, t, n, cut),
         NEW k, k = n + 1, NEW whole, whole = d \o t[k]
  PROVE  \E more : Spread(whole, t, k, more)
<1>0. Tiles(d, t, n, cut) /\ cut[1] = 0 /\ cut[n + 1] = Len(d)
  BY DEF Spread
<1> DEFINE last == t[n + 1]
           more == [j \in 1 .. n + 2 |-> IF j = n + 2 THEN Len(whole) ELSE cut[j]]
<1>1. last \in Bytes /\ Len(last) \in Nat /\ Len(d) \in Nat
  <2>1. n + 1 \in 1 .. n + 1
    OBVIOUS
  <2>2. last \in Bytes
    BY <2>1
  <2> HIDE DEF last
  <2> QED
    BY <2>2, LenProperties DEF Bytes
<1>2. /\ whole \in Bytes /\ Len(whole) = Len(d) + Len(last)
      /\ Part(whole, Len(d), Len(d) + Len(last)) = last
      /\ \A x, y \in Nat : x <= y /\ y <= Len(d) => Part(whole, x, y) = Part(d, x, y)
  <2>1. whole = d \o last
    OBVIOUS
  <2> HIDE DEF last
  <2> QED
    BY <1>1, <2>1, PartOfConcat
<1>3. /\ \A j \in 1 .. n + 1 : more[j] = cut[j] /\ cut[j] \in Nat
      /\ more[n + 2] = Len(whole)
  <2>1. \A j \in 1 .. n + 1 : j \in 1 .. n + 2 /\ j # n + 2
    OBVIOUS
  <2>2. \A j \in 1 .. n + 1 : cut[j] \in Nat
    BY <1>0 DEF Tiles
  <2> QED
    BY <2>1, <2>2
<1>4. more \in [1 .. n + 2 -> Nat]
  <2>1. Len(whole) \in Nat
    BY <1>1, <1>2
  <2>2. \A j \in 1 .. n + 2 : j = n + 2 \/ j \in 1 .. n + 1
    OBVIOUS
  <2> QED
    BY <1>3, <2>1, <2>2
<1> HIDE DEF more, last
<1>5. ASSUME NEW j \in 1 .. n + 1
      PROVE  /\ more[j + 1] = more[j] + Len(t[j]) /\ more[j + 1] <= Len(whole)
             /\ Part(whole, more[j], more[j + 1]) = t[j]
  <2>1. CASE j \in 1..n
    <3>1. /\ cut[j + 1] = cut[j] + Len(t[j]) /\ cut[j + 1] <= Len(d)
          /\ Part(d, cut[j], cut[j + 1]) = t[j]
      BY <1>0, <2>1 DEF Tiles
    <3>2. /\ more[j] = cut[j] /\ more[j + 1] = cut[j + 1] /\ cut[j] \in Nat /\ cut[j + 1] \in Nat
          /\ Len(t[j]) \in Nat
      <4>1. j \in 1 .. n + 1 /\ j + 1 \in 1 .. n + 1
        BY <2>1
      <4>2. t[j] \in Bytes
        BY <4>1
      <4> QED
        BY <1>3, <4>1, <4>2, LenProperties DEF Bytes
    <3>3. cut[j] <= cut[j + 1] /\ cut[j + 1] <= Len(whole)
      BY <1>1, <1>2, <3>1, <3>2, SMTT(40)
    <3> QED
      BY <1>2, <3>1, <3>2, <3>3
  <2>2. CASE j = n + 1
    <3>1. more[j] = Len(d) /\ more[j + 1] = Len(whole) /\ t[j] = last
      BY <1>0, <1>3, <2>2 DEF last
    <3> QED
      BY <1>1, <1>2, <3>1
  <2> QED
    BY <2>1, <2>2
<1>6. Tiles(whole, t, n + 1, more)
  <2>1. (n + 1) + 1 = n + 2
    OBVIOUS
  <2> QED
    BY <1>4, <1>5, <2>1 DEF Tiles
<1>7. more[1] = 0
  <2>1. 1 \in 1 .. n + 1
    OBVIOUS
  <2> QED
    BY <1>0, <1>3, <2>1
<1>8. Spread(whole, t, n + 1, more)
  BY <1>3, <1>6, <1>7 DEF Spread
<1> QED
  BY <1>8

\* What FlattenSeq returns has its parts side by side, from one end to the other.
LEMMA FlattenTiles ==
  ASSUME NEW n \in Nat, NEW t \in [1..n -> Bytes]
  PROVE  FlattenSeq(t) \in Bytes /\ \E cut : Spread(FlattenSeq(t), t, n, cut)
<1>0. Len(t) = n /\ t \in Seq(Bytes) /\ \A j \in 1..n : t[j] \in Bytes
  BY IsSequence
<1>1. CASE n = 0
  <2>1. t = <<>>
    BY <1>0, <1>1, EmptySeq
  <2>2. FlattenSeq(t) = <<>> /\ Len(<<>>) = 0 /\ <<>> \in Bytes
    BY <2>1 DEF FlattenSeq, Bytes
  <2> DEFINE cut == [j \in 1..1 |-> 0]
  <2>3. cut \in [1 .. n + 1 -> Nat] /\ cut[1] = 0 /\ cut[n + 1] = 0
    BY <1>1
  <2> HIDE DEF cut
  <2>4. Tiles(<<>>, t, n, cut)
    BY <1>1, <2>3 DEF Tiles
  <2>5. Spread(FlattenSeq(t), t, n, cut)
    BY <1>1, <2>2, <2>3, <2>4 DEF Spread
  <2> QED
    BY <2>2, <2>5
<1>2. CASE n # 0
  <2>0. PICK f : FlattenSeq(t) = f[n] /\ Unrolls(f, t, n)
    <3>1. n \in Nat /\ Len(t) = n /\ n # 0
      BY <1>0, <1>2
    <3> QED
      BY ONLY <3>1, FlattenUnrolls
  <2>1. /\ FlattenSeq(t) = f[n] /\ f[1] = t[1]
        /\ \A i \in 2..n : f[i] = f[i - 1] \o t[i]
    BY <2>0 DEF Unrolls
  <2> DEFINE good(i) == f[i] \in Bytes /\ \E cut : Spread(f[i], t, i, cut)
             S == {i \in 1..n : ~good(i)}
  <2>2. good(1)
    <3> DEFINE cut == [j \in 1..2 |-> IF j = 1 THEN 0 ELSE Len(t[1])]
    <3>1. t[1] \in Bytes /\ Len(t[1]) \in Nat /\ t[1] \in Seq(Byte)
      <4>1. t[1] \in Bytes
        BY <1>0, <1>2
      <4> QED
        BY <4>1, LenProperties DEF Bytes
    <3>2. cut \in [1..2 -> Nat] /\ cut[1] = 0 /\ cut[2] = Len(t[1])
      BY <3>1
    <3> HIDE DEF cut
    <3>3. Part(t[1], 0, Len(t[1])) = t[1]
      <4> DEFINE r == Part(t[1], 0, Len(t[1]))
      <4>1. /\ r \in Bytes /\ Len(r) = Len(t[1]) - 0
            /\ \A k \in 1 .. Len(t[1]) - 0 : r[k] = t[1][0 + k]
        <5>1. t[1] \in Bytes /\ 0 \in Nat /\ Len(t[1]) \in Nat /\ 0 <= Len(t[1]) /\ Len(t[1]) <= Len(t[1])
          BY <3>1
        <5> QED
          BY ONLY <5>1, PartFacts
      <4> HIDE DEF r
      <4>2. r \in Seq(Byte) /\ Len(r) = Len(t[1]) /\ \A k \in 1..Len(r) : r[k] = t[1][k]
        BY <3>1, <4>1 DEF Bytes
      <4>3. r = t[1]
        BY ONLY <3>1, <4>2, SeqEqual
      <4> QED
        BY <4>3 DEF r
    <3>4. Tiles(t[1], t, 1, cut)
      <4>1. \A j \in 1..1 : j = 1
        OBVIOUS
      <4> QED
        BY <3>1, <3>2, <3>3, <4>1 DEF Tiles
    <3>5. Spread(t[1], t, 1, cut)
      BY <3>2, <3>4 DEF Spread
    <3> QED
      BY <2>1, <3>1, <3>5
  <2>3. ASSUME NEW i \in 2..n, good(i - 1) PROVE good(i)
    <3>1. PICK cut : Spread(f[i - 1], t, i - 1, cut)
      BY <2>3
    <3>2. f[i - 1] \in Bytes /\ f[i] = f[i - 1] \o t[i] /\ t[i] \in Bytes
      <4>1. i \in 1..n
        OBVIOUS
      <4> QED
        BY <1>0, <2>1, <2>3, <4>1
    <3>3. f[i] \in Bytes
      <4>1. f[i - 1] \o t[i] \in Bytes
        BY ONLY <3>2, PartOfConcat
      <4> QED
        BY <3>2, <4>1
    <3> DEFINE m == i - 1
    <3>4. m \in Nat /\ i = m + 1 /\ \A j \in 1 .. m + 1 : t[j] \in Bytes
      BY <1>0
    <3>5. f[m] \in Bytes /\ f[i] = f[m] \o t[i] /\ Spread(f[m], t, m, cut)
      BY <3>1, <3>2
    <3> DEFINE x == f[m]
               y == f[i]
    <3>6. x \in Bytes /\ y = x \o t[i] /\ Spread(x, t, m, cut)
      BY <3>5
    <3> HIDE DEF m, x, y
    <3>7. \E more : Spread(y, t, i, more)
      BY ONLY <3>4, <3>6, TilesGrow
    <3> QED
      BY <3>3, <3>7 DEF y
  <2> HIDE DEF good
  <2>4. S = {}
    <3> SUFFICES ASSUME S # {} PROVE FALSE
      OBVIOUS
    <3>1. PICK m \in S : \A k \in S : m <= k
      <4>1. S \in SUBSET Nat
        OBVIOUS
      <4> HIDE DEF S
      <4> QED
        BY <4>1, LeastMember
    <3>2. m \in 1..n /\ ~good(m)
      OBVIOUS
    <3>3. m \in 2..n
      BY <2>2, <3>2
    <3>4. m - 1 \in 1..n /\ m - 1 \notin S
      BY <3>1, <3>3
    <3> QED
      BY <2>3, <3>2, <3>3, <3>4
  <2>5. good(n)
    BY <1>2, <2>4
  <2> QED
    BY <2>1, <2>5 DEF good
<1> QED
  BY <1>1, <1>2

-----------------------------------------------------------------------------
\* Every value of the forest is made in one of the ways Go makes them: of
\* native content, of other values of the forest, or of no type the switch knows.
GoTrees(forest) ==
  \A v \in forest :
    \/ \E n \in Int : v = [int |-> n]
    \/ \E s \in Bytes : v = [bytes |-> s]
    \/ \E s \in Bytes : v = [text |-> s]
    \/ \E x \in BOOLEAN : v = [bool |-> x]
    \/ \E s \in Seq(forest) : v = [items |-> s]
    \/ \E s \in Seq([key : forest, val : forest]) : v = [entries |-> s]
    \/ \E x, y \in Int : v = [scale |-> x, mantissa |-> y]
    \/ \E x, y \in Int : v = [num |-> x, den |-> y]
    \/ DOMAIN v \cap {"int", "bytes", "text", "bool", "items", "entries", "mantissa", "den"} = {}

\* A head is a byte, and its digits, whatever its argument.
LEMMA HeadBytes ==
  ASSUME NEW major \in 0..7, NEW a \in Nat
  PROVE  EncHead(major, a) \in Bytes /\ Len(EncHead(major, a)) >= 1
<1> DEFINE form == EncForm(a)
           w == Width(form)
           s == Digits(a, w)
           f == <<HeadByte(major, form)>>
<1>1. form \in 0 .. Imm + 3
  <2>1. Imm \in Nat /\ Imm >= 4
    BY ImmAssumption
  <2>2. CASE a < Imm
    <3>1. Imm \in Nat /\ ~(Imm <= a)
      BY <2>1, <2>2
    <3>2. form = a
      <4>1. /\ ~(Radix ^ Widths[1] <= a)
            /\ ~(Radix ^ Widths[2] <= a)
        <5>1. Over(a) <= Least(Imm + 1) /\ Over(a) = Imm
          <6>1. a \in 0 .. Imm + 3 /\ Imm + 1 \in Imm .. Imm + 3 /\ a < Imm + 1
            BY <2>1, <2>2
          <6> QED
            BY <2>2, <6>1, FormsAscend DEF Over
        <5>2. Over(a) <= Least(Imm + 2) /\ Over(a) = Imm
          <6>1. a \in 0 .. Imm + 3 /\ Imm + 2 \in Imm .. Imm + 3 /\ a < Imm + 2
            BY <2>1, <2>2
          <6> QED
            BY <2>2, <6>1, FormsAscend DEF Over
        <5>3. Least(Imm + 1) = Radix ^ Widths[1] /\ Least(Imm + 2) = Radix ^ Widths[2]
          BY <2>1 DEF Least
        <5>4. Least(Imm + 1) \in Nat /\ Least(Imm + 2) \in Nat
          BY LeastType
        <5> QED
          BY <2>1, <2>2, <5>1, <5>2, <5>3, <5>4
      <4> QED
        BY <2>2, <3>1, <4>1 DEF EncForm
    <3> QED
      BY <2>1, <2>2, <3>2
  <2>3. CASE ~(a < Imm)
    <3>1. form \in {Imm, Imm + 1, Imm + 2, Imm + 3}
      BY <2>3 DEF EncForm
    <3> QED
      BY <2>1, <3>1
  <2> QED
    BY <2>2, <2>3
<1>2. HeadByte(major, form) \in Byte
  BY <1>1, HeadSplit
<1>3. w \in 0..8
  BY WidthType
<1>4. Radix \in Nat \ {0} /\ \A i \in 1..w : Radix ^ (w - i) \in Nat \ {0}
  <2>1. w <= Widths[4]
    <3>1. CASE form < Imm
      BY <1>1, <3>1, ImmAssumption, WidthsAssumption DEF Width
    <3>2. CASE ~(form < Imm)
      <4>1. form \in Imm .. Imm + 3 /\ form - Imm + 1 \in 1..4
        BY <1>1, <3>2, ImmAssumption
      <4> QED
        BY <4>1, WidthsAssumption DEF Width
    <3> QED
      BY <3>1, <3>2
  <2>2. \A i \in 1..w : w - i \in 0..Widths[4]
    BY <1>3, <2>1, WidthsAssumption
  <2> HIDE DEF w
  <2> QED
    BY <2>2, PowerType, RadixType
<1> HIDE DEF form, w
<1>5. s \in [1..w -> Byte]
  <2>1. \A i \in 1..w : (a \div Radix ^ (w - i)) % Radix \in Byte
    <3> TAKE i \in 1..w
    <3>1. a \div Radix ^ (w - i) \in Nat
      BY <1>4, Division
    <3>2. (a \div Radix ^ (w - i)) % Radix \in 0 .. Radix - 1
      BY <1>4, <3>1, Division
    <3> QED
      BY <3>2 DEF Byte
  <2> QED
    BY <2>1 DEF Digits
<1>6. s \in Seq(Byte) /\ Len(s) = w
  <2> HIDE DEF s
  <2> QED
    BY <1>3, <1>5, IsSequence
<1>7. f \in Seq(Byte) /\ Len(f) = 1
  BY <1>2
<1>8. EncHead(major, a) = f \o s
  BY DEF EncHead, form, w
<1> HIDE DEF f, s
<1> QED
  BY <1>3, <1>6, <1>7, <1>8, ConcatProperties DEF Bytes

\* Join fails when one of the parts failed.
LEMMA JoinMade ==
  ASSUME NEW n \in Nat, NEW parts, DOMAIN parts = 1..n, NEW head, Join(head, parts).err = "none"
  PROVE  /\ \A j \in 1..n : parts[j].err = "none"
         /\ Join(head, parts) = Done(head \o FlattenSeq([j \in 1..n |-> parts[j].buf]))
<1> DEFINE bad == {i \in DOMAIN parts : parts[i].err # "none"}
<1>1. bad = {}
  <2> SUFFICES ASSUME bad # {} PROVE FALSE
    OBVIOUS
  <2>1. PICK m \in bad : \A k \in bad : m <= k
    <3>1. bad \in SUBSET Nat
      OBVIOUS
    <3> HIDE DEF bad
    <3> QED
      BY <3>1, LeastMember
  <2>2. Min(bad) \in bad
    <3> HIDE DEF bad
    <3> QED
      BY <2>1 DEF Min
  <2>3. Join(head, parts) = Fail(parts[Min(bad)].err)
    BY DEF Join
  <2>4. Join(head, parts).err = parts[Min(bad)].err
    <3> HIDE DEF bad
    <3> QED
      BY <2>3 DEF Fail
  <2> QED
    BY <2>2, <2>4
<1>2. \A j \in 1..n : parts[j].err = "none"
  BY <1>1
<1>3. Join(head, parts) = Done(head \o FlattenSeq([j \in DOMAIN parts |-> parts[j].buf]))
  BY <1>1 DEF Join
<1> QED
  BY <1>2, <1>3

\* Nothing is written below MaxDepth.
LEMMA MadeShallow ==
  ASSUME NEW v, NEW depth \in Nat, EncValue(v, depth).err = "none"
  PROVE  depth <= MaxDepth
<1> SUFFICES ASSUME ~(depth <= MaxDepth) PROVE FALSE
  OBVIOUS
<1>1. EncValue(v, depth) = Fail("depth")
  BY DEF EncValue
<1> QED
  BY <1>1 DEF Fail

\* Integers.
LEMMA MadeInt ==
  ASSUME NEW n \in Int, EncInteger(n).err = "none"
  PROVE  LET major == IF n >= 0 THEN 0 ELSE 1
             arg == IF n >= 0 THEN n ELSE -1 - n
         IN  arg \in Nat /\ arg < Word /\ EncInteger(n) = Done(EncHead(major, arg))
<1>1. Word \in Nat
  BY OverWord, ImmAssumption
<1>2. ~(n >= Word)
  <2> SUFFICES ASSUME n >= Word PROVE FALSE
    OBVIOUS
  <2>1. ~(-1 - n >= Word)
    BY <1>1
  <2>2. EncInteger(n) = Fail("above-range")
    BY <2>1 DEF EncInteger
  <2> QED
    BY <2>2 DEF Fail
<1>3. ~(-1 - n >= Word)
  <2> SUFFICES ASSUME -1 - n >= Word PROVE FALSE
    OBVIOUS
  <2>1. EncInteger(n) = Fail("below-range")
    BY <1>2 DEF EncInteger
  <2> QED
    BY <2>1 DEF Fail
<1>4. EncInteger(n) = Done(IF n >= 0 THEN EncHead(0, n) ELSE EncHead(1, -1 - n))
  BY <1>2, <1>3 DEF EncInteger
<1> QED
  BY <1>1, <1>2, <1>3, <1>4

\* Texts.
LEMMA MadeText ==
  ASSUME NEW s, NEW depth, depth <= MaxDepth, EncValue([text |-> s], depth).err = "none"
  PROVE  TextReason(s) = "none"
<1> SUFFICES ASSUME TextReason(s) # "none" PROVE FALSE
  OBVIOUS
<1> DEFINE v == [text |-> s]
<1>1. DOMAIN v = {"text"} /\ v.text = s
  OBVIOUS
<1> HIDE DEF v
<1>2. EncValue(v, depth) = Fail(TextReason(s))
  BY <1>1 DEF EncValue, Is
<1>3. EncValue(v, depth).err = TextReason(s)
  BY <1>2 DEF Fail
<1> QED
  BY <1>3 DEF v

\* Values of no type.
LEMMA MadeTyped ==
  ASSUME NEW v, NEW depth, EncValue(v, depth).err = "none", depth <= MaxDepth
  PROVE  DOMAIN v \cap {"int", "bytes", "text", "bool", "items", "entries", "mantissa", "den"} # {}
<1> SUFFICES ASSUME DOMAIN v \cap {"int", "bytes", "text", "bool", "items", "entries", "mantissa", "den"} = {}
             PROVE  FALSE
  OBVIOUS
<1>1. /\ ~Is(v, "int") /\ ~Is(v, "bytes") /\ ~Is(v, "text") /\ ~Is(v, "bool")
      /\ ~Is(v, "items") /\ ~Is(v, "entries") /\ ~Is(v, "mantissa") /\ ~Is(v, "den")
  BY DEF Is
<1>2. EncValue(v, depth) = Fail("unknown-type")
  BY <1>1 DEF EncValue
<1> QED
  BY <1>2 DEF Fail

\* Arrays: all the elements are written.
LEMMA MadeItems ==
  ASSUME NEW forest, Recurses(forest), NEW s \in Seq(forest), NEW depth \in Nat,
         EncValue([items |-> s], depth).err = "none"
  PROVE  LET n == Len(s)
         IN  /\ \A j \in 1..n : EncValue(s[j], depth + 1).err = "none"
             /\ EncValue([items |-> s], depth)
                  = Done(EncHead(4, n) \o FlattenSeq([j \in 1..n |-> EncValue(s[j], depth + 1).buf]))
<1> DEFINE n == Len(s)
           parts == [j \in 1..n |-> EncValue(s[j], depth + 1)]
<1>1. n \in Nat /\ DOMAIN s = 1..n /\ \A j \in 1..n : s[j] \in forest
  BY LenProperties, ElementOfSeq
<1>2. [j \in DOMAIN s |-> NestedEncode(s[j], depth + 1)] = parts
  <2>1. depth + 1 \in Nat
    OBVIOUS
  <2>2. \A j \in 1..n : NestedEncode(s[j], depth + 1) = EncValue(s[j], depth + 1)
    BY <1>1, <2>1 DEF Recurses
  <2> QED
    BY <1>1, <2>2
<1>3. EncValue([items |-> s], depth) = Join(EncHead(4, n), parts)
  <2>1. depth <= MaxDepth
    BY MadeShallow
  <2>2. EncValue([items |-> s], depth)
          = Join(EncHead(4, n), [j \in DOMAIN s |-> NestedEncode(s[j], depth + 1)])
    BY <2>1, SwitchItems
  <2> QED
    BY <1>2, <2>2
<1>4. DOMAIN parts = 1..n /\ \A j \in 1..n : parts[j] = EncValue(s[j], depth + 1)
  OBVIOUS
<1> HIDE DEF parts
<1>5. Join(EncHead(4, n), parts).err = "none"
  BY <1>3
<1> HIDE DEF n
<1>6. /\ \A j \in 1..n : parts[j].err = "none"
      /\ Join(EncHead(4, n), parts) = Done(EncHead(4, n) \o FlattenSeq([j \in 1..n |-> parts[j].buf]))
  BY ONLY <1>1, <1>4, <1>5, JoinMade
<1>7. [j \in 1..n |-> parts[j].buf] = [j \in 1..n |-> EncValue(s[j], depth + 1).buf]
  BY <1>4
<1> QED
  BY <1>3, <1>4, <1>6, <1>7 DEF n

-----------------------------------------------------------------------------
\* The two integers a decimal or a rational is written as.
TwoInts(x, y) == <<[int |-> x], [int |-> y]>>

\* They are values of the forest.
LEMMA TwoIntsFacts ==
  ASSUME NEW forest, Forest(forest), NEW x \in Int, NEW y \in Int
  PROVE  /\ TwoInts(x, y) \in Seq(forest) /\ Len(TwoInts(x, y)) = 2
         /\ TwoInts(x, y)[1] = [int |-> x] /\ TwoInts(x, y)[2] = [int |-> y]
         /\ DOMAIN TwoInts(x, y) = 1..2
<1>1. [int |-> x] \in forest /\ [int |-> y] \in forest
  BY DEF Forest
<1> DEFINE a == [int |-> x]
           c == [int |-> y]
<1>2. a \in forest /\ c \in forest
  BY <1>1
<1> HIDE DEF a, c
<1>3. <<a, c>> \in Seq(forest) /\ Len(<<a, c>>) = 2 /\ <<a, c>>[1] = a /\ <<a, c>>[2] = c
      /\ DOMAIN <<a, c>> = 1..2
  BY <1>2
<1> QED
  BY <1>3 DEF TwoInts, a, c

\* Decimals and rationals that are written are written as the array of the two.
LEMMA MadePair ==
  ASSUME NEW forest, Forest(forest), Recurses(forest), NEW x \in Int, NEW y \in Int,
         NEW v, v = [scale |-> x, mantissa |-> y] \/ v = [num |-> x, den |-> y],
         NEW depth \in Nat, EncValue(v, depth).err = "none"
  PROVE  EncValue(v, depth) = EncValue([items |-> TwoInts(x, y)], depth)
<1> DEFINE s == TwoInts(x, y)
           parts == [j \in DOMAIN s |-> NestedEncode(s[j], depth + 1)]
<1>1. depth <= MaxDepth
  BY MadeShallow
<1>2. EncValue(v, depth) = EncIntPair(x, y, depth)
  <2>1. CASE v = [scale |-> x, mantissa |-> y]
    <3>1. DOMAIN v = {"scale", "mantissa"} /\ v.scale = x /\ v.mantissa = y
      BY <2>1
    <3>2. EncValue(v, depth) = IF DecimalReason(x, y) # "none" THEN Fail(DecimalReason(x, y))
                               ELSE EncIntPair(x, y, depth)
      BY <1>1, <3>1 DEF EncValue, Is
    <3>3. DecimalReason(x, y) = "none"
      BY <3>2 DEF Fail
    <3> QED
      BY <3>2, <3>3
  <2>2. CASE v = [num |-> x, den |-> y]
    <3>1. DOMAIN v = {"num", "den"} /\ v.num = x /\ v.den = y
      BY <2>2
    <3>2. EncValue(v, depth) = IF RationalReason(x, y) # "none" THEN Fail(RationalReason(x, y))
                               ELSE EncIntPair(x, y, depth)
      BY <1>1, <3>1 DEF EncValue, Is
    <3>3. RationalReason(x, y) = "none"
      BY <3>2 DEF Fail
    <3> QED
      BY <3>2, <3>3
  <2> QED
    BY <2>1, <2>2
<1>3. depth + 1 <= MaxDepth
  <2> SUFFICES ASSUME ~(depth + 1 <= MaxDepth) PROVE FALSE
    OBVIOUS
  <2>1. depth + 1 > MaxDepth
    BY LimitsAssumption
  <2>2. EncIntPair(x, y, depth) = Fail("depth")
    BY <2>1 DEF EncIntPair
  <2> QED
    BY <1>2, <2>2 DEF Fail
<1>4. EncIntPair(x, y, depth) = Join(EncHead(4, 2), <<EncInteger(x), EncInteger(y)>>)
  <2>1. ~(depth + 1 > MaxDepth)
    BY <1>3, LimitsAssumption
  <2> QED
    BY <2>1 DEF EncIntPair
<1>5. parts = <<EncInteger(x), EncInteger(y)>>
  <2>1. /\ s[1] = [int |-> x] /\ s[2] = [int |-> y] /\ DOMAIN s = 1..2
        /\ [int |-> x] \in forest /\ [int |-> y] \in forest
    <3>1. s[1] = [int |-> x] /\ s[2] = [int |-> y] /\ DOMAIN s = 1..2
      BY TwoIntsFacts
    <3> HIDE DEF s, parts
    <3>2. [int |-> x] \in forest /\ [int |-> y] \in forest
      BY DEF Forest
    <3> QED
      BY ONLY <3>1, <3>2
  <2>2. depth + 1 \in Nat
    OBVIOUS
  <2>3. NestedEncode(s[1], depth + 1) = EncInteger(x)
    BY <1>3, <2>1, <2>2, SwitchInt DEF Recurses
  <2>4. NestedEncode(s[2], depth + 1) = EncInteger(y)
    BY <1>3, <2>1, <2>2, SwitchInt DEF Recurses
  <2>5. \A j \in 1..2 : j = 1 \/ j = 2
    OBVIOUS
  <2>6. parts[1] = EncInteger(x) /\ parts[2] = EncInteger(y) /\ DOMAIN parts = 1..2
    BY <2>1, <2>3, <2>4
  <2>7. parts = [j \in 1..2 |-> parts[j]]
    BY <2>6
  <2> DEFINE a == EncInteger(x)
             c == EncInteger(y)
  <2>8. <<a, c>> = [j \in 1..2 |-> IF j = 1 THEN a ELSE c]
    <3> HIDE DEF a, c
    <3> QED
      OBVIOUS
  <2> HIDE DEF parts, a, c
  <2>9. parts[1] = a /\ parts[2] = c
    BY <2>6 DEF a, c
  <2>10. parts = [j \in 1..2 |-> IF j = 1 THEN a ELSE c]
    BY <2>5, <2>7, <2>9
  <2> QED
    BY <2>8, <2>10 DEF a, c
<1>6. EncValue([items |-> s], depth) = Join(EncHead(4, 2), parts)
  <2>1. Len(s) = 2
    BY TwoIntsFacts
  <2> HIDE DEF s
  <2> QED
    BY <1>1, <2>1, SwitchItems
<1> QED
  BY <1>2, <1>4, <1>5, <1>6

\* What is written at this depth is bytes, and at least one.
Bytely(forest, depth) ==
  \A v \in forest :
    EncValue(v, depth).err = "none" =>
      EncValue(v, depth).buf \in Bytes /\ Len(EncValue(v, depth).buf) >= 1

\* The key and the value of the f[j]-th entry of s.
KeyOf(s, f, j) == s[f[j]].key
ValOf(s, f, j) == s[f[j]].val
KeyBuf(s, f, depth, j) == EncValue(KeyOf(s, f, j), depth).buf
EntryBuf(s, f, depth, j) == KeyBuf(s, f, depth, j) \o EncValue(ValOf(s, f, j), depth).buf

\* f puts the entries of a map into the order in which they are written.
InWriteOrder(s, n, f, depth) ==
  /\ f \in [1..n -> 1..n]
  /\ \A i \in 1..n : \E j \in 1..n : f[j] = i
  /\ \A j, k \in 1..n : j < k => BytesLess(KeyBuf(s, f, depth, j), KeyBuf(s, f, depth, k))

\* The keys of a map are integers, or they are texts.
OneKind(s, n) ==
  \A i \in 1..n : /\ Is(s[i].key, "int") \/ Is(s[i].key, "text")
                  /\ IsTextKey(s[i].key) = IsTextKey(s[1].key)

\* The entries are written without an error, one after another.
LEMMA EntriesMade ==
  ASSUME NEW forest, Recurses(forest), NEW s \in Seq([key : forest, val : forest]),
         NEW depth \in Nat, EncMap(s, depth).err = "none",
         NEW i \in 1..Len(s), EncEntry(s, i, depth).err = "none"
  PROVE  /\ EncValue(s[i].key, depth + 1).err = "none"
         /\ EncValue(s[i].val, depth + 1).err = "none"
         /\ EncEntry(s, i, depth).key = EncValue(s[i].key, depth + 1).buf
         /\ EncEntry(s, i, depth).buf
              = EncValue(s[i].key, depth + 1).buf \o EncValue(s[i].val, depth + 1).buf
         /\ KeyTypeError(s, i) = "none"
<1> DEFINE key == EncValue(s[i].key, depth + 1)
           val == EncValue(s[i].val, depth + 1)
           err == IF KeyTypeError(s, i) # "none" THEN KeyTypeError(s, i)
                  ELSE IF key.err # "none" THEN key.err ELSE val.err
<1>1. s[i].key \in forest /\ s[i].val \in forest /\ depth + 1 \in Nat
  <2>1. s[i] \in [key : forest, val : forest]
    BY ElementOfSeq
  <2> QED
    BY <2>1
<1>2. NestedEncode(s[i].key, depth + 1) = key /\ NestedEncode(s[i].val, depth + 1) = val
  BY <1>1 DEF Recurses
<1>3. EncEntry(s, i, depth) = [err |-> err, key |-> key.buf, buf |-> key.buf \o val.buf]
  BY <1>2 DEF EncEntry
<1> HIDE DEF key, val
<1>4. err = "none"
  BY <1>3
<1> DEFINE a == KeyTypeError(s, i)
           bo == key.err
           c == val.err
<1>5. KeyTypeError(s, i) = "none" /\ key.err = "none" /\ val.err = "none"
  <2>1. (IF a # "none" THEN a ELSE IF bo # "none" THEN bo ELSE c) = "none"
    BY ONLY <1>4
  <2> HIDE DEF a, bo, c
  <2>2. a = "none" /\ bo = "none" /\ c = "none"
    BY ONLY <2>1, Zenon
  <2> QED
    BY <2>2 DEF a, bo, c
<1> HIDE DEF a, bo, c, err
<1>6. EncEntry(s, i, depth).key = key.buf /\ EncEntry(s, i, depth).buf = key.buf \o val.buf
  <2> DEFINE both == key.buf \o val.buf
             first == key.buf
  <2>1. EncEntry(s, i, depth) = [err |-> err, key |-> first, buf |-> both]
    BY ONLY <1>3
  <2> HIDE DEF both, first
  <2>2. EncEntry(s, i, depth).key = first /\ EncEntry(s, i, depth).buf = both
    BY ONLY <2>1
  <2> QED
    BY <2>2 DEF both, first
<1> QED
  BY <1>5, <1>6 DEF key, val

\* No key was of the wrong type.
LEMMA KeysOfOneKind ==
  ASSUME NEW s, NEW n \in Nat, \A i \in 1..n : KeyTypeError(s, i) = "none"
  PROVE  OneKind(s, n)
<1> SUFFICES ASSUME NEW i \in 1..n
             PROVE  /\ Is(s[i].key, "int") \/ Is(s[i].key, "text")
                    /\ IsTextKey(s[i].key) = IsTextKey(s[1].key)
  BY DEF OneKind
<1>1. KeyTypeError(s, i) = "none"
  OBVIOUS
<1>2. Is(s[i].key, "int") \/ Is(s[i].key, "text")
  BY <1>1 DEF KeyTypeError
<1>3. IsTextKey(s[i].key) = IsTextKey(s[1].key)
  BY <1>1, <1>2 DEF KeyTypeError
<1> QED
  BY <1>2, <1>3

-----------------------------------------------------------------------------
\* What is written of a map: all its keys and values, sorted by f.
MapMade(s, f, depth) ==
  /\ InWriteOrder(s, Len(s), f, depth + 1)
  /\ OneKind(s, Len(s))
  /\ \A i \in 1..Len(s) : /\ EncValue(s[i].key, depth + 1).err = "none"
                          /\ EncValue(s[i].val, depth + 1).err = "none"
  /\ EncValue([entries |-> s], depth)
       = Done(EncHead(5, Len(s)) \o FlattenSeq([j \in 1..Len(s) |-> EntryBuf(s, f, depth + 1, j)]))

\* Maps that are written.
LEMMA MadeEntries ==
  ASSUME NEW forest, Recurses(forest), NEW s \in Seq([key : forest, val : forest]),
         NEW depth \in Nat, EncValue([entries |-> s], depth).err = "none",
         Bytely(forest, depth + 1)
  PROVE  \E f : MapMade(s, f, depth)
<1> DEFINE n == Len(s)
           pairs == [i \in DOMAIN s |-> EncEntry(s, i, depth)]
           sorted == SortPairs(pairs)
           failed == \E i \in DOMAIN pairs : pairs[i].err # "none"
           twice == \E i \in 1..Len(sorted) - 1 : sorted[i].key = sorted[i + 1].key
<1>1. n \in Nat /\ DOMAIN s = 1..n /\ \A i \in 1..n : s[i].key \in forest /\ s[i].val \in forest
  <2>1. n \in Nat /\ DOMAIN s = 1..n
    BY LenProperties
  <2>2. \A i \in 1..n : s[i] \in [key : forest, val : forest]
    BY ElementOfSeq
  <2> QED
    BY <2>1, <2>2
<1>2. EncValue([entries |-> s], depth) = EncMap(s, depth)
  BY MadeShallow, SwitchEntries
<1>3. EncMap(s, depth).err = "none"
  BY <1>2
<1>4. EncMap(s, depth) = IF ~failed /\ twice THEN Fail("duplicate-key")
                         ELSE Join(EncHead(5, Len(pairs)), IF failed THEN pairs ELSE sorted)
  BY DEF EncMap
<1>5. DOMAIN pairs = 1..n /\ \A i \in 1..n : pairs[i] = EncEntry(s, i, depth)
  BY <1>1
<1>6. pairs = [i \in 1..n |-> pairs[i]]
  BY <1>1
<1>7. Len(pairs) = n
  <2> HIDE DEF pairs
  <2>1. pairs \in [1..n -> {pairs[i] : i \in 1..n}]
    BY <1>6
  <2> QED
    BY <1>1, <2>1, IsSequence
<1> HIDE DEF pairs, n
<1>8. ~failed
  <2> SUFFICES ASSUME failed PROVE FALSE
    OBVIOUS
  <2>1. EncMap(s, depth) = Join(EncHead(5, Len(pairs)), pairs)
    <3> HIDE DEF failed, twice, sorted
    <3> QED
      BY <1>4
  <2>2. Join(EncHead(5, Len(pairs)), pairs).err = "none"
    BY <1>3, <2>1
  <2>3. \A i \in 1..n : pairs[i].err = "none"
    BY ONLY <1>1, <1>5, <2>2, JoinMade
  <2> QED
    BY <1>5, <2>3
<1>9. \A i \in 1..n : pairs[i].err = "none"
  BY <1>5, <1>8
<1>10. \A i \in 1..n :
         /\ EncValue(s[i].key, depth + 1).err = "none"
         /\ EncValue(s[i].val, depth + 1).err = "none"
         /\ pairs[i].key = EncValue(s[i].key, depth + 1).buf
         /\ pairs[i].buf = EncValue(s[i].key, depth + 1).buf \o EncValue(s[i].val, depth + 1).buf
         /\ KeyTypeError(s, i) = "none"
  <2> TAKE i \in 1..n
  <2>1. EncEntry(s, i, depth).err = "none" /\ pairs[i] = EncEntry(s, i, depth)
    BY <1>5, <1>9
  <2>2. i \in 1..Len(s)
    BY DEF n
  <2> QED
    <3>1. /\ EncEntry(s, i, depth).err = "none" /\ EncMap(s, depth).err = "none"
          /\ Recurses(forest) /\ s \in Seq([key : forest, val : forest]) /\ depth \in Nat
      BY <1>3, <2>1
    <3>2. /\ EncValue(s[i].key, depth + 1).err = "none"
          /\ EncValue(s[i].val, depth + 1).err = "none"
          /\ EncEntry(s, i, depth).key = EncValue(s[i].key, depth + 1).buf
          /\ EncEntry(s, i, depth).buf
               = EncValue(s[i].key, depth + 1).buf \o EncValue(s[i].val, depth + 1).buf
          /\ KeyTypeError(s, i) = "none"
      BY ONLY <2>2, <3>1, EntriesMade
    <3> HIDE DEF pairs
    <3> QED
      BY ONLY <2>1, <3>2
<1>11. \A i \in 1..n : pairs[i].key \in Bytes
  BY <1>1, <1>10 DEF Bytely
<1>12. PICK f \in [1..n -> 1..n] :
           /\ \A i \in 1..n : \E k \in 1..n : f[k] = i
           /\ sorted = [k \in 1..n |-> pairs[f[k]]]
           /\ \A k, l \in 1..n : k < l => Precedes(pairs, f[k], f[l])
  <2>1. n \in Nat /\ DOMAIN pairs = 1..n
    BY <1>1, <1>5
  <2> QED
    BY ONLY <2>1, <1>11, Sorting
<1>13. Len(sorted) = n /\ DOMAIN sorted = 1..n /\ \A k \in 1..n : sorted[k] = pairs[f[k]]
  <2>1. \A k \in 1..n : f[k] \in 1..n
    OBVIOUS
  <2> HIDE DEF sorted
  <2>2. sorted \in [1..n -> {pairs[i] : i \in 1..n}]
    BY <1>12, <2>1
  <2> QED
    BY <1>1, <1>12, <2>2, IsSequence
<1>14. ~twice
  <2> SUFFICES ASSUME twice PROVE FALSE
    OBVIOUS
  <2>1. EncMap(s, depth) = Fail("duplicate-key")
    <3> HIDE DEF failed, twice, sorted
    <3> QED
      BY <1>4, <1>8
  <2> QED
    BY <1>3, <2>1 DEF Fail
<1>15. EncMap(s, depth) = Join(EncHead(5, n), sorted)
  <2> HIDE DEF failed, twice, sorted
  <2> QED
    BY <1>4, <1>7, <1>8, <1>14
<1>16. \A k \in 1 .. n - 1 : pairs[f[k]].key # pairs[f[k + 1]].key
  <2> TAKE k \in 1 .. n - 1
  <2> HIDE DEF sorted, failed, twice
  <2>1. k \in 1..n /\ k + 1 \in 1..n /\ k \in 1..Len(sorted) - 1
    BY ONLY <1>1, <1>13
  <2>2. sorted[k].key # sorted[k + 1].key
    BY <1>14, <2>1 DEF twice
  <2> QED
    BY <1>13, <2>1, <2>2
<1> HIDE DEF sorted, twice, failed
<1>17. \A k, l \in 1..n : k < l => BytesLess(pairs[f[k]].key, pairs[f[l]].key)
  <2>1. n \in Nat /\ DOMAIN pairs = 1..n /\ f \in [1..n -> 1..n]
        /\ \A k, l \in 1..n : k < l => Precedes(pairs, f[k], f[l])
    BY <1>1, <1>5, <1>12
  <2> QED
    BY ONLY <1>11, <1>16, <2>1, SortedKeysAscend
<1>18. \A k \in 1..n : /\ f[k] \in 1..n
                       /\ KeyBuf(s, f, depth + 1, k) = pairs[f[k]].key
                       /\ EntryBuf(s, f, depth + 1, k) = pairs[f[k]].buf
  BY <1>10 DEF KeyBuf, EntryBuf, KeyOf, ValOf
<1>19. InWriteOrder(s, n, f, depth + 1)
  <2>1. \A k, l \in 1..n : k < l => BytesLess(KeyBuf(s, f, depth + 1, k), KeyBuf(s, f, depth + 1, l))
    BY <1>17, <1>18
  <2> QED
    BY <1>12, <2>1 DEF InWriteOrder
<1>20. OneKind(s, n)
  BY <1>1, <1>10, KeysOfOneKind
<1>21. EncMap(s, depth) = Done(EncHead(5, n) \o FlattenSeq([j \in 1..n |-> EntryBuf(s, f, depth + 1, j)]))
  <2>1. Join(EncHead(5, n), sorted).err = "none"
    BY <1>3, <1>15
  <2>2. Join(EncHead(5, n), sorted) = Done(EncHead(5, n) \o FlattenSeq([j \in 1..n |-> sorted[j].buf]))
    BY ONLY <1>1, <1>13, <2>1, JoinMade
  <2>3. \A j \in 1..n : sorted[j].buf = EntryBuf(s, f, depth + 1, j)
    BY ONLY <1>13, <1>18, SMTT(40)
  <2>4. [j \in 1..n |-> sorted[j].buf] = [j \in 1..n |-> EntryBuf(s, f, depth + 1, j)]
    BY <2>3
  <2> QED
    BY <1>15, <2>2, <2>4
<1>22. /\ \A i \in 1..n : /\ EncValue(s[i].key, depth + 1).err = "none"
                          /\ EncValue(s[i].val, depth + 1).err = "none"
       /\ EncValue([entries |-> s], depth)
            = Done(EncHead(5, n) \o FlattenSeq([j \in 1..n |-> EntryBuf(s, f, depth + 1, j)]))
  BY <1>2, <1>10, <1>21
<1> QED
  BY <1>19, <1>20, <1>22 DEF MapMade, n

-----------------------------------------------------------------------------
\* A head and what follows it.
LEMMA HeadThen ==
  ASSUME NEW major \in 0..7, NEW a \in Nat, NEW s \in Bytes
  PROVE  /\ EncHead(major, a) \o s \in Bytes
         /\ Len(EncHead(major, a) \o s) = Len(EncHead(major, a)) + Len(s)
         /\ Len(EncHead(major, a) \o s) >= 1
<1> DEFINE h == EncHead(major, a)
<1>1. h \in Bytes /\ Len(h) >= 1
  BY HeadBytes
<1> HIDE DEF h
<1>2. h \o s \in Bytes /\ Len(h \o s) = Len(h) + Len(s) /\ Len(h) \in Nat /\ Len(s) \in Nat
  BY <1>1, PartOfConcat, LenProperties DEF Bytes
<1> QED
  BY <1>1, <1>2 DEF h

\* A head and the parts that follow it.
LEMMA HeadThenParts ==
  ASSUME NEW major \in 0..7, NEW a \in Nat, NEW n \in Nat, NEW t, t \in [1..n -> Bytes]
  PROVE  /\ EncHead(major, a) \o FlattenSeq(t) \in Bytes
         /\ Len(EncHead(major, a) \o FlattenSeq(t)) >= 1
BY FlattenTiles, HeadThen

\* One depth up.
LEMMA BytesUp ==
  ASSUME NEW forest, Forest(forest), Recurses(forest), GoTrees(forest),
         NEW depth \in Nat, Bytely(forest, depth + 1),
         NEW v \in forest, EncValue(v, depth).err = "none"
  PROVE  EncValue(v, depth).buf \in Bytes /\ Len(EncValue(v, depth).buf) >= 1
<1>0. depth <= MaxDepth
  BY MadeShallow
<1>1. ASSUME NEW n \in Int, v = [int |-> n]
      PROVE  EncValue(v, depth).buf \in Bytes /\ Len(EncValue(v, depth).buf) >= 1
  <2>1. EncValue(v, depth) = EncInteger(n)
    BY <1>0, <1>1, SwitchInt
  <2>2. PICK major \in 0..7, arg \in Nat : EncInteger(n) = Done(EncHead(major, arg))
    <3>1. EncInteger(n).err = "none"
      BY <2>1
    <3>2. CASE n >= 0
      <4>1. n \in Nat /\ EncInteger(n) = Done(EncHead(0, n))
        BY <3>1, <3>2, MadeInt
      <4> QED
        BY <4>1
    <3>3. CASE ~(n >= 0)
      <4>1. -1 - n \in Nat /\ EncInteger(n) = Done(EncHead(1, -1 - n))
        BY <3>1, <3>3, MadeInt
      <4> QED
        BY <4>1
    <3> QED
      BY <3>2, <3>3
  <2>3. EncHead(major, arg) \in Bytes /\ Len(EncHead(major, arg)) >= 1
    BY HeadBytes
  <2> QED
    BY <2>1, <2>2, <2>3, DoneFields
<1>2. ASSUME NEW s \in Bytes, v = [bytes |-> s]
      PROVE  EncValue(v, depth).buf \in Bytes /\ Len(EncValue(v, depth).buf) >= 1
  <2>1. EncValue(v, depth) = Done(EncHead(2, Len(s)) \o s)
    BY <1>0, <1>2, SwitchBytes
  <2>2. Len(s) \in Nat
    BY LenProperties DEF Bytes
  <2>3. EncHead(2, Len(s)) \o s \in Bytes /\ Len(EncHead(2, Len(s)) \o s) >= 1
    BY <2>2, HeadThen
  <2> QED
    BY <2>1, <2>3, DoneFields
<1>3. ASSUME NEW s \in Bytes, v = [text |-> s]
      PROVE  EncValue(v, depth).buf \in Bytes /\ Len(EncValue(v, depth).buf) >= 1
  <2>0. TextReason(s) = "none"
    BY <1>0, <1>3, MadeText
  <2>1. EncValue(v, depth) = Done(EncHead(3, Len(s)) \o s)
    BY <1>0, <1>3, <2>0, SwitchText
  <2>2. Len(s) \in Nat
    BY LenProperties DEF Bytes
  <2>3. EncHead(3, Len(s)) \o s \in Bytes /\ Len(EncHead(3, Len(s)) \o s) >= 1
    BY <2>2, HeadThen
  <2> QED
    BY <2>1, <2>3, DoneFields
<1>4. ASSUME NEW x \in BOOLEAN, v = [bool |-> x]
      PROVE  EncValue(v, depth).buf \in Bytes /\ Len(EncValue(v, depth).buf) >= 1
  <2> DEFINE c == HeadByte(7, IF x THEN SimpleTrue ELSE SimpleFalse)
  <2>1. EncValue(v, depth) = Done(<<c>>)
    BY <1>0, <1>4, SwitchBool
  <2>2. c \in Byte
    <3> DEFINE a == IF x THEN SimpleTrue ELSE SimpleFalse
    <3>1. a \in 0 .. Imm + 3
      BY ImmAssumption DEF SimpleTrue, SimpleFalse
    <3> HIDE DEF a
    <3>2. HeadByte(7, a) \in Byte
      BY <3>1, HeadSplit
    <3> QED
      BY <3>2 DEF a
  <2> HIDE DEF c
  <2>3. <<c>> \in Bytes /\ Len(<<c>>) >= 1
    BY <2>2 DEF Bytes
  <2> QED
    BY <2>1, <2>3, DoneFields
<1>5. ASSUME NEW s \in Seq(forest), EncValue([items |-> s], depth).err = "none"
      PROVE  /\ EncValue([items |-> s], depth).buf \in Bytes
             /\ Len(EncValue([items |-> s], depth).buf) >= 1
  <2> DEFINE n == Len(s)
             t == [j \in 1..n |-> EncValue(s[j], depth + 1).buf]
  <2>1. /\ \A j \in 1..n : EncValue(s[j], depth + 1).err = "none"
        /\ EncValue([items |-> s], depth) = Done(EncHead(4, n) \o FlattenSeq(t))
    BY <1>5, MadeItems
  <2>2. n \in Nat /\ \A j \in 1..n : s[j] \in forest
    BY LenProperties, ElementOfSeq
  <2>3. t \in [1..n -> Bytes]
    BY <2>1, <2>2 DEF Bytely
  <2> HIDE DEF n, t
  <2>4. EncHead(4, n) \o FlattenSeq(t) \in Bytes /\ Len(EncHead(4, n) \o FlattenSeq(t)) >= 1
    BY <2>2, <2>3, HeadThenParts
  <2> QED
    BY <2>1, <2>4, DoneFields
<1>6. ASSUME NEW s \in Seq([key : forest, val : forest]), v = [entries |-> s]
      PROVE  EncValue(v, depth).buf \in Bytes /\ Len(EncValue(v, depth).buf) >= 1
  <2>1. PICK f : MapMade(s, f, depth)
    BY <1>6, MadeEntries
  <2> DEFINE n == Len(s)
             t == [j \in 1..n |-> EntryBuf(s, f, depth + 1, j)]
  <2>2. n \in Nat /\ \A i \in 1..n : s[i].key \in forest /\ s[i].val \in forest
    <3>1. \A i \in 1..n : s[i] \in [key : forest, val : forest]
      BY ElementOfSeq
    <3> QED
      BY <3>1, LenProperties
  <2>3. /\ \A j \in 1..n : f[j] \in 1..n
        /\ \A i \in 1..n : /\ EncValue(s[i].key, depth + 1).err = "none"
                           /\ EncValue(s[i].val, depth + 1).err = "none"
        /\ EncValue(v, depth) = Done(EncHead(5, n) \o FlattenSeq(t))
    BY <1>6, <2>1 DEF MapMade, InWriteOrder
  <2>4. t \in [1..n -> Bytes]
    <3>1. \A j \in 1..n : EntryBuf(s, f, depth + 1, j) \in Bytes
      <4> TAKE j \in 1..n
      <4>1. KeyBuf(s, f, depth + 1, j) \in Bytes /\ EncValue(ValOf(s, f, j), depth + 1).buf \in Bytes
        BY <2>2, <2>3 DEF Bytely, KeyBuf, KeyOf, ValOf
      <4> QED
        BY <4>1, PartOfConcat DEF EntryBuf
    <3> QED
      BY <3>1
  <2> HIDE DEF n, t
  <2>5. EncHead(5, n) \o FlattenSeq(t) \in Bytes /\ Len(EncHead(5, n) \o FlattenSeq(t)) >= 1
    BY <2>2, <2>4, HeadThenParts
  <2> QED
    BY <2>3, <2>5, DoneFields
<1>7. ASSUME NEW x \in Int, NEW y \in Int, v = [scale |-> x, mantissa |-> y] \/ v = [num |-> x, den |-> y]
      PROVE  EncValue(v, depth).buf \in Bytes /\ Len(EncValue(v, depth).buf) >= 1
  <2>1. EncValue(v, depth) = EncValue([items |-> TwoInts(x, y)], depth)
    BY <1>7, MadePair
  <2>2. TwoInts(x, y) \in Seq(forest)
    BY TwoIntsFacts
  <2> QED
    BY <1>5, <2>1, <2>2
<1>8. DOMAIN v \cap {"int", "bytes", "text", "bool", "items", "entries", "mantissa", "den"} # {}
  BY <1>0, MadeTyped
<1> QED
  BY <1>1, <1>2, <1>3, <1>4, <1>5, <1>6, <1>7, <1>8 DEF GoTrees

\* What is written is bytes.
LEMMA BytesWritten ==
  ASSUME NEW forest, Forest(forest), Recurses(forest), GoTrees(forest)
  PROVE  \A depth \in Nat : Bytely(forest, depth)
<1>0. MaxDepth \in Nat
  BY LimitsAssumption
<1>1. ASSUME NEW depth \in Nat, MaxDepth < depth
      PROVE  Bytely(forest, depth)
  <2> SUFFICES ASSUME NEW v \in forest, EncValue(v, depth).err = "none"
               PROVE  FALSE
    BY DEF Bytely
  <2>1. depth <= MaxDepth
    BY MadeShallow
  <2> QED
    BY <1>0, <1>1, <2>1
<1>2. ASSUME NEW depth \in Nat, Bytely(forest, depth + 1)
      PROVE  Bytely(forest, depth)
  BY <1>2, BytesUp DEF Bytely
<1> DEFINE S == {k \in Nat : k <= MaxDepth /\ ~Bytely(forest, MaxDepth - k)}
<1>3. S = {}
  <2> SUFFICES ASSUME S # {} PROVE FALSE
    OBVIOUS
  <2>1. PICK m \in S : \A k \in S : m <= k
    <3>1. S \in SUBSET Nat
      OBVIOUS
    <3> HIDE DEF S
    <3> QED
      BY <3>1, LeastMember
  <2>2. m \in Nat /\ m <= MaxDepth /\ ~Bytely(forest, MaxDepth - m) /\ MaxDepth - m \in Nat
    BY <1>0
  <2>3. ~Bytely(forest, (MaxDepth - m) + 1)
    BY <1>2, <2>2
  <2>4. (MaxDepth - m) + 1 \in Nat
    BY <1>0, <2>2
  <2>5. ~(MaxDepth < (MaxDepth - m) + 1)
    BY <1>1, <2>3, <2>4
  <2>6. m # 0 /\ m - 1 \in Nat /\ m - 1 <= MaxDepth /\ MaxDepth - (m - 1) = (MaxDepth - m) + 1
    BY <1>0, <2>2, <2>5
  <2>7. m - 1 \in S
    BY <2>3, <2>6
  <2> QED
    BY <2>1, <2>2, <2>6, <2>7
<1> SUFFICES ASSUME NEW depth \in Nat PROVE Bytely(forest, depth)
  OBVIOUS
<1>4. CASE MaxDepth < depth
  BY <1>1, <1>4
<1>5. CASE ~(MaxDepth < depth)
  <2>1. MaxDepth - depth \in Nat /\ MaxDepth - depth <= MaxDepth
        /\ MaxDepth - (MaxDepth - depth) = depth
    BY <1>0, <1>5
  <2>2. MaxDepth - depth \notin S
    BY <1>3
  <2> QED
    BY <2>1, <2>2
<1> QED
  BY <1>4, <1>5

-----------------------------------------------------------------------------
(***************************************************************************)
(* What is found where a value was written.                                *)
(***************************************************************************)
\* All of it.
LEMMA WholePart ==
  ASSUME NEW s \in Bytes
  PROVE  Part(s, 0, Len(s)) = s
<1> DEFINE r == Part(s, 0, Len(s))
<1>1. Len(s) \in Nat /\ s \in Seq(Byte) /\ s \in Bytes /\ 0 \in Nat /\ 0 <= Len(s) /\ Len(s) <= Len(s)
  BY LenProperties DEF Bytes
<1>2. /\ r \in Bytes /\ Len(r) = Len(s) - 0
      /\ \A k \in 1 .. Len(s) - 0 : r[k] = s[0 + k]
  BY ONLY <1>1, PartFacts
<1> HIDE DEF r
<1>3. r \in Seq(Byte) /\ Len(r) = Len(s) /\ \A k \in 1..Len(r) : r[k] = s[k]
  BY <1>1, <1>2 DEF Bytes
<1>4. r = s
  BY ONLY <1>1, <1>3, SeqEqual
<1> QED
  BY <1>4 DEF r

\* A head that was written at p, with s behind it.
HeadFound(B, p, e, major, a, s) ==
  LET bo == BodyOf(B, p)
  IN  /\ MajorOf(B, p) = major /\ ArgOf(B, p) = a /\ ShortestHead(B, p)
      /\ bo \in Nat /\ p < bo /\ bo <= e /\ e = bo + Len(s)
      /\ Part(B, p, bo) = EncHead(major, a) /\ Part(B, bo, e) = s

\* The decoder's reading of what head wrote.
LEMMA FindsHead ==
  ASSUME NEW B \in Bytes, NEW p \in Nat, NEW e \in Nat, p <= e, e <= Len(B),
         NEW major \in 0..5, NEW a \in Nat, a < Word, NEW s \in Bytes,
         Part(B, p, e) = EncHead(major, a) \o s
  PROVE  HeadFound(B, p, e, major, a, s)
<1> DEFINE h == EncHead(major, a)
           bo == p + Len(h)
           w == Width(AiOf(h, 0))
<1>0. Len(B) \in Nat
  BY LenProperties DEF Bytes
<1>1. /\ h \in Bytes /\ Len(h) = BodyOf(h, 0)
      /\ MajorOf(h, 0) = major /\ AiOf(h, 0) \in 0 .. Imm + 3
      /\ ArgOf(h, 0) = a /\ Least(AiOf(h, 0)) <= ArgOf(h, 0)
  <2>1. major \in 0..7
    OBVIOUS
  <2> QED
    BY <2>1, HeadsReadBack
<1>2. w \in 0..8 /\ BodyOf(h, 0) = 0 + 1 + w
  BY WidthType DEF BodyOf
<1>3. Part(B, p, e) = h \o s
  OBVIOUS
<1> HIDE DEF h, w
<1>4. Len(h) = 1 + w /\ Len(h) \in Nat /\ Len(h) >= 1
  BY <1>1, <1>2
<1>5. /\ h \o s \in Bytes /\ Len(h \o s) = Len(h) + Len(s) /\ Len(s) \in Nat
      /\ Part(h \o s, Len(h), Len(h) + Len(s)) = s
      /\ \A x, y \in Nat : x <= y /\ y <= Len(h) => Part(h \o s, x, y) = Part(h, x, y)
  <2>1. h \in Bytes /\ s \in Bytes
    BY <1>1
  <2>2. /\ h \o s \in Bytes /\ Len(h \o s) = Len(h) + Len(s)
        /\ Part(h \o s, Len(h), Len(h) + Len(s)) = s
        /\ \A x, y \in Nat : x <= y /\ y <= Len(h) => Part(h \o s, x, y) = Part(h, x, y)
    BY ONLY <2>1, PartOfConcat
  <2>3. Len(s) \in Nat
    BY <2>1, LenProperties DEF Bytes
  <2> QED
    BY <2>2, <2>3
<1>6. e - p = Len(h) + Len(s)
  <2>1. Len(Part(B, p, e)) = e - p
    BY PartFacts
  <2> QED
    BY <1>3, <1>5, <2>1
<1>7. bo \in Nat /\ p < bo /\ bo <= e /\ e = bo + Len(s) /\ p + 0 = p /\ e = p + (Len(h) + Len(s))
      /\ bo <= Len(B) /\ bo - p = Len(h)
  <2>1. p \in Nat /\ e \in Nat /\ e <= Len(B)
    OBVIOUS
  <2>2. Len(s) \in Nat
    BY <1>5
  <2> QED
    BY ONLY <1>0, <1>4, <1>6, <2>1, <2>2
<1>8. Part(B, p, bo) = h
  <2>1. 0 \in Nat /\ Len(h) \in Nat /\ 0 <= Len(h) /\ Len(h) <= e - p /\ B \in Bytes
        /\ p \in Nat /\ e \in Nat /\ p <= e /\ e <= Len(B)
    BY <1>4, <1>5, <1>6
  <2>2. Part(Part(B, p, e), 0, Len(h)) = Part(B, p + 0, p + Len(h))
    BY ONLY <2>1, PartOfPart
  <2>3. Part(h \o s, 0, Len(h)) = Part(h, 0, Len(h))
    BY <1>4, <1>5
  <2>4. Part(h, 0, Len(h)) = h
    BY <1>1, WholePart
  <2> QED
    BY <1>3, <1>7, <2>2, <2>3, <2>4
<1>9. Part(B, bo, e) = s
  <2>1. Len(h) \in Nat /\ Len(h) + Len(s) \in Nat /\ Len(h) <= Len(h) + Len(s)
        /\ Len(h) + Len(s) <= e - p /\ B \in Bytes
        /\ p \in Nat /\ e \in Nat /\ p <= e /\ e <= Len(B)
    BY <1>4, <1>5, <1>6
  <2>2. Part(Part(B, p, e), Len(h), Len(h) + Len(s)) = Part(B, p + Len(h), p + (Len(h) + Len(s)))
    BY ONLY <2>1, PartOfPart
  <2> QED
    BY <1>3, <1>5, <1>7, <2>2
<1>10. h[1] = B[p + 1]
  <2>1. \A k \in 1 .. bo - p : Part(B, p, bo)[k] = B[p + k]
    <3>1. B \in Bytes /\ p \in Nat /\ bo \in Nat /\ p <= bo /\ bo <= Len(B)
      BY <1>7
    <3> HIDE DEF bo
    <3> QED
      BY ONLY <3>1, PartFacts
  <2>2. 1 \in 1 .. bo - p
    BY <1>4, <1>7
  <2> HIDE DEF bo
  <2> QED
    BY <1>8, <2>1, <2>2
<1>11. MajorOf(B, p) = major /\ AiOf(B, p) = AiOf(h, 0)
  BY <1>1, <1>10 DEF MajorOf, AiOf
<1>12. BodyOf(B, p) = bo
  <2>1. BodyOf(B, p) = p + 1 + w
    BY <1>11 DEF BodyOf, w
  <2> QED
    BY <1>2, <1>4, <2>1
<1>13. Part(B, p + 1, bo) = Part(h, 0 + 1, BodyOf(h, 0))
  <2>1. 1 \in Nat /\ Len(h) \in Nat /\ 1 <= Len(h) /\ Len(h) <= bo - p /\ B \in Bytes
        /\ p \in Nat /\ bo \in Nat /\ p <= bo /\ bo <= Len(B)
    BY <1>4, <1>7, SMTT(40)
  <2> HIDE DEF bo
  <2>2. Part(Part(B, p, bo), 1, Len(h)) = Part(B, p + 1, p + Len(h))
    BY ONLY <2>1, PartOfPart
  <2> QED
    BY <1>1, <1>8, <2>2 DEF bo
<1>14. ArgOf(B, p) = a
  <2>1. ArgOf(B, p) = IF w = 0 THEN AiOf(B, p) ELSE Uint(Part(B, p + 1, bo))
    BY <1>11, <1>12 DEF ArgOf, w
  <2>2. ArgOf(h, 0) = IF w = 0 THEN AiOf(h, 0) ELSE Uint(Part(h, 0 + 1, BodyOf(h, 0)))
    BY DEF ArgOf, w
  <2> HIDE DEF bo
  <2> QED
    BY <1>1, <1>11, <1>13, <2>1, <2>2
<1>15. ShortestHead(B, p)
  <2>1. MajorOf(B, p) # 7 /\ MajorOf(B, p) # 6 /\ AiOf(B, p) \in 0 .. Imm + 3 /\ BodyOf(B, p) <= Len(B)
    <3> HIDE DEF bo, w
    <3>1. bo <= Len(B)
      BY <1>7
    <3>2. major # 7 /\ major # 6
      OBVIOUS
    <3> QED
      BY ONLY <1>1, <1>11, <1>12, <3>1, <3>2
  <2>2. Least(AiOf(B, p)) \in Nat
    BY LeastType
  <2>3. ArgOf(B, p) >= Least(AiOf(B, p))
    BY <1>1, <1>11, <1>14, <2>2
  <2> QED
    BY <2>1, <2>3 DEF ShortestHead
<1> QED
  BY <1>7, <1>8, <1>9, <1>11, <1>12, <1>14, <1>15 DEF HeadFound, h

-----------------------------------------------------------------------------
\* t[1], ... t[n] fill B from one place to another, between the cuts.
SpreadIn(B, bo, e, t, n, cut) ==
  /\ cut \in [1 .. n + 1 -> Nat] /\ cut[1] = bo /\ cut[n + 1] = e
  /\ \A j \in 1..n : /\ cut[j + 1] = cut[j] + Len(t[j]) /\ cut[j + 1] <= Len(B)
                     /\ Part(B, cut[j], cut[j + 1]) = t[j]

\* Parts side by side in a part of B.
LEMMA SpreadMoved ==
  ASSUME NEW B \in Bytes, NEW bo \in Nat, NEW e \in Nat, bo <= e, e <= Len(B),
         NEW n \in Nat, NEW t, \A j \in 1..n : t[j] \in Bytes,
         NEW cut, Spread(Part(B, bo, e), t, n, cut)
  PROVE  \E c : SpreadIn(B, bo, e, t, n, c)
<1> DEFINE d == Part(B, bo, e)
           c == [j \in 1 .. n + 1 |-> bo + cut[j]]
<1>0. Len(B) \in Nat
  BY LenProperties DEF Bytes
<1>1. d \in Bytes /\ Len(d) = e - bo
  BY PartFacts
<1>2. /\ cut \in [1 .. n + 1 -> Nat] /\ cut[1] = 0 /\ cut[n + 1] = e - bo
      /\ \A j \in 1..n : /\ cut[j + 1] = cut[j] + Len(t[j]) /\ cut[j + 1] <= e - bo
                         /\ Part(d, cut[j], cut[j + 1]) = t[j]
  BY <1>1 DEF Spread, Tiles
<1>3. c \in [1 .. n + 1 -> Nat] /\ \A j \in 1 .. n + 1 : c[j] = bo + cut[j] /\ cut[j] \in Nat
  BY <1>2
<1> HIDE DEF c, d
<1>4. c[1] = bo /\ c[n + 1] = e
  <2>1. 1 \in 1 .. n + 1 /\ n + 1 \in 1 .. n + 1
    OBVIOUS
  <2> QED
    BY <1>2, <1>3, <2>1
<1>5. ASSUME NEW j \in 1..n
      PROVE  /\ c[j + 1] = c[j] + Len(t[j]) /\ c[j + 1] <= Len(B)
             /\ Part(B, c[j], c[j + 1]) = t[j]
  <2>1. j \in 1 .. n + 1 /\ j + 1 \in 1 .. n + 1
    OBVIOUS
  <2>2. /\ c[j] = bo + cut[j] /\ c[j + 1] = bo + cut[j + 1] /\ cut[j] \in Nat /\ cut[j + 1] \in Nat
        /\ cut[j + 1] = cut[j] + Len(t[j]) /\ cut[j + 1] <= e - bo /\ Len(t[j]) \in Nat
    BY <1>2, <1>3, <2>1, LenProperties DEF Bytes
  <2>3. cut[j] <= cut[j + 1] /\ bo \in Nat /\ e \in Nat /\ bo <= e /\ e <= Len(B) /\ B \in Bytes
    BY <2>2
  <2>4. Part(Part(B, bo, e), cut[j], cut[j + 1]) = Part(B, bo + cut[j], bo + cut[j + 1])
    BY ONLY <2>2, <2>3, PartOfPart
  <2>5. Part(B, c[j], c[j + 1]) = t[j]
    BY <1>2, <2>2, <2>4 DEF d
  <2>6. c[j + 1] = c[j] + Len(t[j]) /\ c[j + 1] <= Len(B)
    <3>1. c[j + 1] = c[j] + Len(t[j])
      BY ONLY <2>2, <2>3, SMTT(40)
    <3>2. bo + cut[j + 1] <= Len(B)
      BY ONLY <1>0, <2>2, <2>3
    <3> QED
      BY <2>2, <3>1, <3>2
  <2> QED
    BY <2>5, <2>6
<1>6. SpreadIn(B, bo, e, t, n, c)
  BY <1>3, <1>4, <1>5 DEF SpreadIn
<1> QED
  BY <1>6

\* There are no more parts than bytes, when none is empty.
LEMMA FewParts ==
  ASSUME NEW B, NEW bo \in Nat, NEW e \in Nat, NEW n \in Nat, NEW t, NEW cut,
         SpreadIn(B, bo, e, t, n, cut), \A j \in 1..n : Len(t[j]) \in Nat /\ Len(t[j]) >= 1
  PROVE  bo + n <= e
<1> DEFINE S == {k \in Nat : k <= n /\ ~(bo + k <= cut[k + 1])}
<1>1. /\ cut[1] = bo /\ cut[n + 1] = e /\ \A j \in 1 .. n + 1 : cut[j] \in Nat
      /\ \A j \in 1..n : cut[j + 1] = cut[j] + Len(t[j])
  BY DEF SpreadIn
<1>2. S = {}
  <2> SUFFICES ASSUME S # {} PROVE FALSE
    OBVIOUS
  <2>1. PICK m \in S : \A k \in S : m <= k
    <3>1. S \in SUBSET Nat
      OBVIOUS
    <3> HIDE DEF S
    <3> QED
      BY <3>1, LeastMember
  <2>2. m \in Nat /\ m <= n /\ ~(bo + m <= cut[m + 1])
    OBVIOUS
  <2>3. m # 0
    <3> SUFFICES ASSUME m = 0 PROVE FALSE
      OBVIOUS
    <3>1. m + 1 = 1
      OBVIOUS
    <3> QED
      BY <1>1, <2>2, <3>1
  <2>4. m \in 1..n /\ m - 1 \in Nat /\ m - 1 <= n /\ m - 1 \notin S /\ (m - 1) + 1 = m /\ m \in 1 .. n + 1
    <3> HIDE DEF S
    <3>1. n \in Nat
      OBVIOUS
    <3>2. m \in 1..n /\ m - 1 \in Nat /\ m - 1 <= n /\ (m - 1) + 1 = m /\ m \in 1 .. n + 1 /\ ~(m <= m - 1)
      BY ONLY <2>2, <2>3, <3>1
    <3> QED
      BY ONLY <2>1, <3>2
  <2>5. bo + (m - 1) <= cut[m]
    BY <2>4
  <2>6. cut[m + 1] = cut[m] + Len(t[m]) /\ Len(t[m]) \in Nat /\ Len(t[m]) >= 1 /\ cut[m] \in Nat
    BY <1>1, <2>4
  <2> HIDE DEF S
  <2> QED
    BY <2>2, <2>5, <2>6
<1>3. n \notin S
  BY <1>2
<1>4. bo + n <= cut[n + 1]
  BY <1>3
<1> QED
  BY <1>1, <1>4

-----------------------------------------------------------------------------
\* Meaning and count ask themselves about inner values, as the encoder does.
Reflects(forest) ==
  \A v \in forest : NestedLogical(v) = Logical(v) /\ NestedCount(v) = ItemCount(v)

\* The values that Go can make, and what is said of them.
Family(forest) ==
  Forest(forest) /\ Recurses(forest) /\ GoTrees(forest) /\ Reflects(forest)

\* The lengths that a Go slice can have.
Fine(B) == B \in Bytes /\ Len(B) < IntHalf

\* v, encoded at this depth, is what B has between p and e.
Lies(forest, B, v, depth, p, e) ==
  /\ v \in forest /\ depth \in Nat /\ p \in Nat /\ e \in Nat
  /\ p < e /\ e <= Len(B)
  /\ EncValue(v, depth).err = "none" /\ EncValue(v, depth).buf = Part(B, p, e)

\* ks[1], ... ks[n] lie side by side.
Laid(forest, B, depth, n, ks, cut) ==
  /\ cut \in [1 .. n + 1 -> Nat]
  /\ \A j \in 1..n : Lies(forest, B, ks[j], depth, cut[j], cut[j + 1])

\* v has one item more than ks[1], ... ks[n] have together.
Totals(v, n, ks) ==
  \A D, x :
    (\A j \in 1..n : /\ IsFiniteSet(D[j]) /\ ItemCount(ks[j]) \in Nat
                     /\ Cardinality(D[j]) <= ItemCount(ks[j]))
    => LET U == {x} \cup UNION {D[j] : j \in 1..n}
       IN  IsFiniteSet(U) /\ ItemCount(v) \in Nat /\ Cardinality(U) <= ItemCount(v)

\* A value without elements, as its head and its content tell it.
LeafShape(B, v, p, e) ==
  LET m == MajorOf(B, p)
      a == ArgOf(B, p)
      bo == BodyOf(B, p)
      s == Part(B, bo, e)
  IN  /\ ItemCount(v) = 1
      /\ \/ m = 0 /\ e = bo /\ Logical(v) = [int |-> a]
         \/ m = 1 /\ e = bo /\ Logical(v) = [int |-> -1 - a]
         \/ m = 2 /\ e = bo + a /\ Logical(v) = [bytes |-> s]
         \/ m = 3 /\ e = bo + a /\ Logical(v) = [text |-> s] /\ TextReason(s) = "none"
         \/ m = 7 /\ e = bo /\ bo = p + 1 /\ Logical(v) = [bool |-> AiOf(B, p) = SimpleTrue]

\* The elements of a container fill it.
KidsShape(forest, B, v, depth, p, e, ks, cut) ==
  LET n == SlotsOf(B, p)
  IN  /\ n \in Nat /\ Laid(forest, B, depth + 1, n, ks, cut)
      /\ cut[1] = BodyOf(B, p) /\ cut[n + 1] = e
      /\ Totals(v, n, ks)

ItemsShape(forest, B, v, depth, p, e, ks, cut) ==
  /\ MajorOf(B, p) = 4 /\ KidsShape(forest, B, v, depth, p, e, ks, cut)
  /\ Logical(v) = [seq |-> [j \in 1..ArgOf(B, p) |-> Logical(ks[j])]]

\* The bytes of the j-th key, and the pair that the j-th entry is.
KeyPart(B, cut, j) == Part(B, cut[2 * j - 1], cut[2 * j])
EntryMeans(ks, j) == <<Logical(ks[2 * j - 1]), Logical(ks[2 * j])>>

EntriesShape(forest, B, v, depth, p, e, ks, cut) ==
  LET n == ArgOf(B, p)
  IN  /\ MajorOf(B, p) = 5 /\ KidsShape(forest, B, v, depth, p, e, ks, cut)
      /\ Logical(v) = [map |-> {EntryMeans(ks, j) : j \in 1..n}]
      /\ \A j \in 1..n : /\ MajorOf(B, cut[2 * j - 1]) \in {0, 1, 3}
                         /\ MajorOf(B, cut[2 * j - 1]) = 3 <=> MajorOf(B, cut[1]) = 3
      /\ \A j, k \in 1..n : j < k => BytesLess(KeyPart(B, cut, j), KeyPart(B, cut, k))

\* The head of a value, and the rest of it.
HeadShape(B, p, e) ==
  /\ ShortestHead(B, p) /\ BodyOf(B, p) \in Nat /\ p < BodyOf(B, p) /\ BodyOf(B, p) <= e
  /\ MajorOf(B, p) # 7 =>
       /\ ArgOf(B, p) \in Nat
       /\ Part(B, p, BodyOf(B, p)) = EncHead(MajorOf(B, p), ArgOf(B, p))

Shaped(forest, B, v, depth, p, e) ==
  /\ HeadShape(B, p, e)
  /\ \/ LeafShape(B, v, p, e)
     \/ \E ks, cut : ItemsShape(forest, B, v, depth, p, e, ks, cut)
     \/ \E ks, cut : EntriesShape(forest, B, v, depth, p, e, ks, cut)

\* Lengths and counts are arguments that a head holds.
LEMMA SmallArgs ==
  ASSUME NEW B, Fine(B), NEW a \in Nat, a <= Len(B)
  PROVE  a < Word
<1>1. Len(B) \in Nat /\ Len(B) < IntHalf
  BY LenProperties DEF Fine, Bytes
<1>2. IntHalf \in Nat /\ Word \in Nat /\ IntHalf + IntHalf <= Word
  <2>1. Word \in Nat
    BY OverWord, ImmAssumption
  <2> QED
    BY <2>1, IntAssumption
<1> QED
  BY <1>1, <1>2

\* A head that was found has the right shape.
LEMMA FoundShape ==
  ASSUME NEW B, NEW p, NEW e, NEW major \in 0..5, NEW a \in Nat, NEW s,
         HeadFound(B, p, e, major, a, s)
  PROVE  HeadShape(B, p, e)
BY DEF HeadFound, HeadShape

\* Where an integer lies.
LEMMA IntShape ==
  ASSUME NEW forest, NEW B, Fine(B), NEW n \in Int, NEW depth, NEW p, NEW e,
         Lies(forest, B, [int |-> n], depth, p, e)
  PROVE  /\ HeadShape(B, p, e) /\ LeafShape(B, [int |-> n], p, e)
         /\ MajorOf(B, p) \in {0, 1}
<1> DEFINE v == [int |-> n]
           major == IF n >= 0 THEN 0 ELSE 1
           arg == IF n >= 0 THEN n ELSE -1 - n
<1>1. /\ depth \in Nat /\ p \in Nat /\ e \in Nat /\ p < e /\ e <= Len(B)
      /\ EncValue(v, depth).err = "none" /\ EncValue(v, depth).buf = Part(B, p, e) /\ B \in Bytes
  BY DEF Lies, Fine
<1>2. EncInteger(n).err = "none" /\ EncInteger(n).buf = Part(B, p, e)
  <2>1. EncValue(v, depth) = EncInteger(n)
    BY <1>1, MadeShallow, SwitchInt
  <2> QED
    BY <1>1, <2>1
<1>3. arg \in Nat /\ arg < Word /\ EncInteger(n) = Done(EncHead(major, arg))
  BY <1>2, MadeInt
<1>4. Part(B, p, e) = EncHead(major, arg)
  BY <1>2, <1>3, DoneFields
<1>5. major \in {0, 1} /\ (major = 0 => arg = n) /\ (major = 1 => n = -1 - arg)
  OBVIOUS
<1>6. DOMAIN v = {"int"}
  OBVIOUS
<1>7. Logical(v) = v /\ ItemCount(v) = 1
  <2> HIDE DEF v
  <2> QED
    BY <1>6 DEF Logical, ItemCount, Is
<1> HIDE DEF major, arg
<1>8. EncHead(major, arg) = EncHead(major, arg) \o <<>> /\ <<>> \in Bytes /\ Len(<<>>) = 0
  <2>1. EncHead(major, arg) \in Seq(Byte)
    <3>1. major \in 0..7
      BY <1>5
    <3>2. EncHead(major, arg) \in Bytes
      BY ONLY <1>3, <3>1, HeadBytes
    <3> QED
      BY <3>2 DEF Bytes
  <2> DEFINE h == EncHead(major, arg)
  <2> HIDE DEF h
  <2>2. h \in Seq(Byte)
    BY <2>1 DEF h
  <2>3. h = h \o <<>> /\ <<>> \in Seq(Byte) /\ Len(<<>>) = 0
    BY ONLY <2>2, ConcatEmptySeq
  <2> QED
    BY <2>3 DEF Bytes, h
<1>9. HeadFound(B, p, e, major, arg, <<>>)
  <2>1. p <= e /\ major \in 0..5 /\ Part(B, p, e) = EncHead(major, arg) \o <<>>
    BY <1>1, <1>4, <1>5, <1>8
  <2> QED
    BY <1>1, <1>3, <1>8, <2>1, FindsHead
<1>10. HeadShape(B, p, e)
  BY <1>3, <1>5, <1>9, FoundShape
<1>11. e = BodyOf(B, p) /\ MajorOf(B, p) = major /\ ArgOf(B, p) = arg
  BY <1>8, <1>9 DEF HeadFound
<1>12. LeafShape(B, v, p, e)
  <2>1. CASE major = 0
    <3>1. Logical(v) = [int |-> ArgOf(B, p)]
      BY <1>5, <1>7, <1>11, <2>1
    <3> QED
      BY <1>7, <1>11, <2>1, <3>1 DEF LeafShape
  <2>2. CASE major = 1
    <3>1. Logical(v) = [int |-> -1 - ArgOf(B, p)]
      BY <1>5, <1>7, <1>11, <2>2
    <3> QED
      BY <1>7, <1>11, <2>2, <3>1 DEF LeafShape
  <2> QED
    BY <1>5, <2>1, <2>2
<1> QED
  BY <1>5, <1>10, <1>11, <1>12

-----------------------------------------------------------------------------
\* What a value lies on.
LEMMA LiesFacts ==
  ASSUME NEW forest, NEW B, Fine(B), NEW v, NEW depth, NEW p, NEW e, Lies(forest, B, v, depth, p, e)
  PROVE  /\ v \in forest /\ depth \in Nat /\ p \in Nat /\ e \in Nat
         /\ p < e /\ p <= e /\ e <= Len(B) /\ Len(B) \in Nat /\ B \in Bytes
         /\ EncValue(v, depth).err = "none" /\ EncValue(v, depth).buf = Part(B, p, e)
         /\ depth <= MaxDepth
<1>1. /\ v \in forest /\ depth \in Nat /\ p \in Nat /\ e \in Nat
      /\ p < e /\ e <= Len(B) /\ B \in Bytes
      /\ EncValue(v, depth).err = "none" /\ EncValue(v, depth).buf = Part(B, p, e)
  BY DEF Lies, Fine
<1>2. depth <= MaxDepth
  BY <1>1, MadeShallow
<1> QED
  BY <1>1, <1>2, LenProperties DEF Bytes

\* Where a string lies.
LEMMA StringFound ==
  ASSUME NEW B, Fine(B), NEW p \in Nat, NEW e \in Nat, p < e, e <= Len(B),
         NEW s \in Bytes, NEW major \in {2, 3}, Part(B, p, e) = EncHead(major, Len(s)) \o s
  PROVE  HeadFound(B, p, e, major, Len(s), s)
<1>1. Len(B) \in Nat /\ Len(s) \in Nat /\ B \in Bytes /\ major \in 0..7 /\ major \in 0..5 /\ p <= e
  BY LenProperties DEF Fine, Bytes
<1>2. Len(s) < Word
  <2>1. Len(Part(B, p, e)) = e - p
    BY <1>1, PartFacts
  <2>2. /\ Len(EncHead(major, Len(s)) \o s) = Len(EncHead(major, Len(s))) + Len(s)
        /\ Len(EncHead(major, Len(s))) \in Nat
    BY <1>1, HeadThen, HeadBytes, LenProperties DEF Bytes
  <2>3. Len(s) <= Len(B)
    BY <1>1, <2>1, <2>2
  <2> QED
    BY <1>1, <2>3, SmallArgs
<1> QED
  BY <1>1, <1>2, FindsHead

\* Byte strings.
LEMMA BytesShape ==
  ASSUME NEW forest, NEW B, Fine(B), NEW s \in Bytes, NEW depth, NEW p, NEW e,
         Lies(forest, B, [bytes |-> s], depth, p, e)
  PROVE  HeadShape(B, p, e) /\ LeafShape(B, [bytes |-> s], p, e)
<1> DEFINE v == [bytes |-> s]
<1>1. /\ p \in Nat /\ e \in Nat /\ p < e /\ e <= Len(B) /\ depth <= MaxDepth
      /\ EncValue(v, depth).buf = Part(B, p, e)
  BY LiesFacts
<1>2. Part(B, p, e) = EncHead(2, Len(s)) \o s
  BY <1>1, SwitchBytes, DoneFields
<1>3. /\ HeadShape(B, p, e) /\ MajorOf(B, p) = 2 /\ ArgOf(B, p) = Len(s)
      /\ e = BodyOf(B, p) + ArgOf(B, p) /\ Part(B, BodyOf(B, p), e) = s
  <2>0. p \in Nat /\ e \in Nat /\ p < e /\ e <= Len(B)
    BY <1>1
  <2> DEFINE m == 2
  <2>1. m \in {2, 3} /\ Fine(B) /\ s \in Bytes /\ Part(B, p, e) = EncHead(m, Len(s)) \o s
    BY <1>2
  <2> HIDE DEF m
  <2>2. HeadFound(B, p, e, m, Len(s), s)
    BY ONLY <2>0, <2>1, StringFound
  <2>3. m \in 0..5 /\ Len(s) \in Nat
    BY <2>1, LenProperties DEF Bytes
  <2>4. HeadShape(B, p, e)
    BY ONLY <2>2, <2>3, FoundShape
  <2> QED
    BY <2>2, <2>4 DEF m, HeadFound
<1>4. DOMAIN v = {"bytes"}
  OBVIOUS
<1>5. Logical(v) = v /\ ItemCount(v) = 1
  <2> HIDE DEF v
  <2> QED
    BY <1>4 DEF Logical, ItemCount, Is
<1>6. Logical(v) = [bytes |-> Part(B, BodyOf(B, p), e)]
  BY <1>3, <1>5
<1> HIDE DEF v
<1>7. LeafShape(B, v, p, e)
  BY <1>3, <1>5, <1>6 DEF LeafShape
<1> QED
  BY <1>3, <1>7 DEF v

\* Texts.
LEMMA TextShape ==
  ASSUME NEW forest, NEW B, Fine(B), NEW s \in Bytes, NEW depth, NEW p, NEW e,
         Lies(forest, B, [text |-> s], depth, p, e)
  PROVE  HeadShape(B, p, e) /\ LeafShape(B, [text |-> s], p, e) /\ MajorOf(B, p) = 3
<1> DEFINE v == [text |-> s]
<1>1. /\ p \in Nat /\ e \in Nat /\ p < e /\ e <= Len(B) /\ depth <= MaxDepth
      /\ EncValue(v, depth).buf = Part(B, p, e) /\ EncValue(v, depth).err = "none"
  BY LiesFacts
<1>2. TextReason(s) = "none"
  BY <1>1, MadeText
<1>3. Part(B, p, e) = EncHead(3, Len(s)) \o s
  BY <1>1, <1>2, SwitchText, DoneFields
<1>4. /\ HeadShape(B, p, e) /\ MajorOf(B, p) = 3 /\ ArgOf(B, p) = Len(s)
      /\ e = BodyOf(B, p) + ArgOf(B, p) /\ Part(B, BodyOf(B, p), e) = s
  <2>0. p \in Nat /\ e \in Nat /\ p < e /\ e <= Len(B)
    BY <1>1
  <2> DEFINE m == 3
  <2>1. m \in {2, 3} /\ Fine(B) /\ s \in Bytes /\ Part(B, p, e) = EncHead(m, Len(s)) \o s
    BY <1>3
  <2> HIDE DEF m
  <2>2. HeadFound(B, p, e, m, Len(s), s)
    BY ONLY <2>0, <2>1, StringFound
  <2>3. m \in 0..5 /\ Len(s) \in Nat
    BY <2>1, LenProperties DEF Bytes
  <2>4. HeadShape(B, p, e)
    BY ONLY <2>2, <2>3, FoundShape
  <2> QED
    BY <2>2, <2>4 DEF m, HeadFound
<1>5. DOMAIN v = {"text"}
  OBVIOUS
<1>6. Logical(v) = v /\ ItemCount(v) = 1
  <2> HIDE DEF v
  <2> QED
    BY <1>5 DEF Logical, ItemCount, Is
<1>7. Logical(v) = [text |-> Part(B, BodyOf(B, p), e)]
  BY <1>4, <1>6
<1> HIDE DEF v
<1>8. LeafShape(B, v, p, e)
  BY <1>2, <1>4, <1>6, <1>7 DEF LeafShape
<1> QED
  BY <1>4, <1>8 DEF v

\* Booleans.
LEMMA BoolShape ==
  ASSUME NEW forest, NEW B, Fine(B), NEW x \in BOOLEAN, NEW depth, NEW p, NEW e,
         Lies(forest, B, [bool |-> x], depth, p, e)
  PROVE  HeadShape(B, p, e) /\ LeafShape(B, [bool |-> x], p, e)
<1> DEFINE v == [bool |-> x]
           a == IF x THEN SimpleTrue ELSE SimpleFalse
           c == HeadByte(7, a)
<1>1. /\ p \in Nat /\ e \in Nat /\ p < e /\ p <= e /\ e <= Len(B) /\ depth <= MaxDepth /\ B \in Bytes
      /\ EncValue(v, depth).buf = Part(B, p, e)
  BY LiesFacts
<1>2. Part(B, p, e) = <<c>>
  BY <1>1, SwitchBool, DoneFields
<1>3. a \in 0 .. Imm + 3 /\ a < Imm /\ a \in {SimpleFalse, SimpleTrue} /\ (a = SimpleTrue) = x
  BY ImmAssumption DEF SimpleTrue, SimpleFalse
<1>4. DOMAIN v = {"bool"} /\ v = [bool |-> x]
  OBVIOUS
<1>5. Logical(v) = v /\ ItemCount(v) = 1
  <2> HIDE DEF v
  <2> QED
    BY <1>4 DEF Logical, ItemCount, Is
<1> HIDE DEF a, v
<1>6. Major(c) = 7 /\ Ai(c) = a
  BY <1>3, HeadSplit
<1> HIDE DEF c
<1>7. e = p + 1 /\ B[p + 1] = c
  <2>1. /\ Len(Part(B, p, e)) = e - p
        /\ \A k \in 1 .. e - p : Part(B, p, e)[k] = B[p + k]
    BY <1>1, PartFacts
  <2>2. Len(<<c>>) = 1 /\ <<c>>[1] = c
    OBVIOUS
  <2>3. e - p = 1 /\ 1 \in 1 .. e - p
    BY <1>1, <1>2, <2>1, <2>2
  <2>4. B[p + 1] = c
    BY <1>2, <2>1, <2>2, <2>3
  <2> QED
    BY <1>1, <2>3, <2>4
<1>8. MajorOf(B, p) = 7 /\ AiOf(B, p) = a
  BY <1>6, <1>7 DEF MajorOf, AiOf
<1>9. BodyOf(B, p) = p + 1
  <2>1. Width(a) = 0
    BY <1>3, ImmAssumption DEF Width
  <2> QED
    BY <1>1, <1>8, <2>1 DEF BodyOf
<1>10. HeadShape(B, p, e)
  <2>1. ShortestHead(B, p)
    BY <1>3, <1>8 DEF ShortestHead
  <2> QED
    BY <1>1, <1>7, <1>8, <1>9, <2>1 DEF HeadShape
<1>11. Logical(v) = [bool |-> AiOf(B, p) = SimpleTrue]
  BY <1>3, <1>4, <1>5, <1>8
<1>12. LeafShape(B, v, p, e)
  BY <1>5, <1>7, <1>8, <1>9, <1>11 DEF LeafShape
<1> QED
  BY <1>10, <1>12 DEF v

-----------------------------------------------------------------------------
(***************************************************************************)
(* The items of a container: one, and those of its elements.               *)
(***************************************************************************)
\* OneAnd adds the counts one by one.
Sums(sum, counts, n) == sum[0] = 1 /\ \A i \in 1..n : sum[i] = sum[i - 1] + counts[i]

\* What it returns is the last of the sums.
LEMMA OneAndSums ==
  ASSUME NEW n \in Nat, NEW counts, Len(counts) = n
  PROVE  \E sum : OneAnd(counts) = sum[n] /\ Sums(sum, counts, n)
<1> DEFINE next(f, i) == IF i = 0 THEN 1 ELSE f[i - 1] + counts[i]
           steps(f, k) == f = [i \in 0..k |-> next(f, i)]
           good(k) == \E f : steps(f, k)
           S == {k \in 0..n : ~good(k)}
           sum == CHOOSE f : f = [i \in 0..n |-> next(f, i)]
<1>1. good(0)
  <2> DEFINE g == [i \in 0..0 |-> 1]
  <2>1. g = [i \in 0..0 |-> next(g, i)]
    OBVIOUS
  <2> HIDE DEF g, next
  <2> QED
    BY <2>1
<1>2. ASSUME NEW k \in 1..n, good(k - 1) PROVE good(k)
  <2>1. PICK f : steps(f, k - 1)
    BY <1>2
  <2> DEFINE g == [i \in 0..k |-> IF i = k THEN f[k - 1] + counts[k] ELSE f[i]]
  <2>2. \A i \in 0 .. k - 1 : g[i] = f[i] /\ f[i] = next(f, i)
    <3> TAKE i \in 0 .. k - 1
    <3>1. i \in 0..k /\ i # k
      OBVIOUS
    <3>2. g[i] = f[i]
      BY <3>1
    <3> HIDE DEF g
    <3>3. f[i] = [j \in 0 .. k - 1 |-> next(f, j)][i]
      BY <2>1
    <3> QED
      BY <3>2, <3>3
  <2>3. \A i \in 0..k : g[i] = next(g, i)
    <3> TAKE i \in 0..k
    <3>1. CASE i = k
      <4>1. k - 1 \in 0 .. k - 1 /\ k \in 0..k /\ k # 0
        OBVIOUS
      <4>2. g[k] = f[k - 1] + counts[k]
        BY <4>1
      <4>3. g[k - 1] = f[k - 1]
        BY <2>2, <4>1
      <4> HIDE DEF g
      <4> QED
        BY <3>1, <4>1, <4>2, <4>3
    <3>2. CASE i = 0
      <4>1. 0 \in 0 .. k - 1
        OBVIOUS
      <4> HIDE DEF g
      <4> QED
        BY <2>2, <3>2, <4>1
    <3>3. CASE i # k /\ i # 0
      <4>1. i \in 0 .. k - 1 /\ i - 1 \in 0 .. k - 1
        BY <3>3
      <4> HIDE DEF g
      <4> QED
        BY <2>2, <3>3, <4>1
    <3> QED
      BY <3>1, <3>2, <3>3
  <2>4. g = [i \in 0..k |-> g[i]]
    OBVIOUS
  <2> HIDE DEF g
  <2>5. g = [i \in 0..k |-> next(g, i)]
    BY <2>3, <2>4
  <2> HIDE DEF next
  <2> QED
    BY <2>5
<1> HIDE DEF good
<1>3. S = {}
  <2> SUFFICES ASSUME S # {} PROVE FALSE
    OBVIOUS
  <2>1. PICK m \in S : \A k \in S : m <= k
    <3>1. S \in SUBSET Nat
      OBVIOUS
    <3> HIDE DEF S
    <3> QED
      BY <3>1, LeastMember
  <2>2. m \in 0..n /\ ~good(m)
    OBVIOUS
  <2>3. m \in 1..n
    BY <1>1, <2>2
  <2>4. m - 1 \in 0..n /\ m - 1 \notin S
    BY <2>1, <2>3
  <2> QED
    BY <1>2, <2>2, <2>3, <2>4
<1>4. sum = [i \in 0..n |-> next(sum, i)]
  <2>1. n \in 0..n /\ n \notin S
    BY <1>3
  <2>2. good(n)
    BY <2>1
  <2> HIDE DEF next, S
  <2> QED
    BY <2>2 DEF good
<1>5. OneAnd(counts) = sum[n]
  BY DEF OneAnd
<1> HIDE DEF sum, S
<1>6. \A i \in 0..n : sum[i] = next(sum, i)
  <2> TAKE i \in 0..n
  <2>1. sum[i] = [j \in 0..n |-> next(sum, j)][i]
    BY <1>4
  <2> QED
    BY <2>1
<1>7. sum[0] = 1
  <2>1. 0 \in 0..n
    OBVIOUS
  <2> QED
    BY <1>6, <2>1
<1>8. \A i \in 1..n : sum[i] = sum[i - 1] + counts[i]
  <2> TAKE i \in 1..n
  <2>1. i \in 0..n /\ i # 0
    OBVIOUS
  <2> QED
    BY <1>6, <2>1
<1> QED
  BY <1>5, <1>7, <1>8 DEF Sums

\* x, and n sets that are no larger than the counts, together.
Together(x, E, k) == {x} \cup UNION {E[i] : i \in 1..k}
AtMost(U, c) == IsFiniteSet(U) /\ c \in Nat /\ Cardinality(U) <= c

\* Two sets have no more members together than their counts allow.
LEMMA AtMostBoth ==
  ASSUME NEW U, NEW c, AtMost(U, c), NEW V, NEW bo, AtMost(V, bo)
  PROVE  AtMost(U \cup V, c + bo)
<1>1. /\ IsFiniteSet(U) /\ IsFiniteSet(V) /\ c \in Nat /\ bo \in Nat
      /\ Cardinality(U) <= c /\ Cardinality(V) <= bo
  BY DEF AtMost
<1>2. /\ IsFiniteSet(U \cup V)
      /\ Cardinality(U \cup V) = Cardinality(U) + Cardinality(V) - Cardinality(U \cap V)
  BY <1>1, FS_Union
<1>3. IsFiniteSet(U \cap V)
  <2>1. U \cap V \in SUBSET U
    OBVIOUS
  <2> QED
    BY <1>1, <2>1, FS_Subset
<1>4. Cardinality(U) \in Nat /\ Cardinality(V) \in Nat /\ Cardinality(U \cap V) \in Nat
  BY <1>1, <1>3, FS_CardinalityType
<1>5. Cardinality(U \cup V) <= c + bo /\ c + bo \in Nat
  BY ONLY <1>1, <1>2, <1>4
<1> QED
  BY <1>2, <1>5 DEF AtMost

\* So many sets together.
LEMMA TotalOf ==
  ASSUME NEW n \in Nat, NEW counts, Len(counts) = n, NEW E, NEW x,
         \A i \in 1..n : AtMost(E[i], counts[i])
  PROVE  AtMost(Together(x, E, n), OneAnd(counts))
<1>1. PICK sum : OneAnd(counts) = sum[n] /\ Sums(sum, counts, n)
  BY OneAndSums
<1>2. sum[0] = 1 /\ \A i \in 1..n : sum[i] = sum[i - 1] + counts[i]
  BY <1>1 DEF Sums
<1> DEFINE good(k) == AtMost(Together(x, E, k), sum[k])
           S == {k \in 0..n : ~good(k)}
<1>3. good(0)
  <2>1. Together(x, E, 0) = {x}
    BY DEF Together
  <2>2. IsFiniteSet({x}) /\ Cardinality({x}) = 1
    BY FS_Singleton
  <2>3. AtMost({x}, 1)
    BY <2>2 DEF AtMost
  <2>4. AtMost(Together(x, E, 0), sum[0])
    BY <1>2, <2>1, <2>3
  <2> QED
    BY <2>4
<1>4. ASSUME NEW k \in 1..n, good(k - 1) PROVE good(k)
  <2>1. Together(x, E, k) = Together(x, E, k - 1) \cup E[k]
    <3>1. \A i \in 1..k : i = k \/ i \in 1 .. k - 1
      OBVIOUS
    <3>2. \A i \in 1 .. k - 1 : i \in 1..k
      OBVIOUS
    <3>3. k \in 1..k
      OBVIOUS
    <3> QED
      BY <3>1, <3>2, <3>3 DEF Together
  <2>2. AtMost(Together(x, E, k - 1) \cup E[k], sum[k - 1] + counts[k])
    BY <1>4, AtMostBoth
  <2> QED
    BY <1>2, <2>1, <2>2
<1> HIDE DEF good
<1>5. S = {}
  <2> SUFFICES ASSUME S # {} PROVE FALSE
    OBVIOUS
  <2>1. PICK m \in S : \A k \in S : m <= k
    <3>1. S \in SUBSET Nat
      OBVIOUS
    <3> HIDE DEF S
    <3> QED
      BY <3>1, LeastMember
  <2>2. m \in 0..n /\ ~good(m)
    OBVIOUS
  <2>3. m \in 1..n
    BY <1>3, <2>2
  <2>4. m - 1 \in 0..n /\ m - 1 \notin S
    BY <2>1, <2>3
  <2> QED
    BY <1>4, <2>2, <2>3, <2>4
<1>6. n \in 0..n /\ n \notin S
  BY <1>5
<1> QED
  BY <1>1, <1>6 DEF good

\* The items of an array.
LEMMA ItemsTotal ==
  ASSUME NEW forest, Reflects(forest), NEW s \in Seq(forest)
  PROVE  Totals([items |-> s], Len(s), s)
<1> DEFINE v == [items |-> s]
           n == Len(s)
           counts == [i \in DOMAIN s |-> NestedCount(s[i])]
<1>1. n \in Nat /\ DOMAIN s = 1..n /\ \A i \in 1..n : s[i] \in forest
  BY LenProperties, ElementOfSeq
<1>2. ItemCount(v) = OneAnd(counts)
  <2>1. DOMAIN v = {"items"} /\ v.items = s
    OBVIOUS
  <2> HIDE DEF v
  <2>2. ItemCount(v) = OneAnd([i \in DOMAIN v.items |-> NestedCount(v.items[i])])
    BY <2>1 DEF ItemCount, Is
  <2> QED
    BY <2>1, <2>2
<1>3. \A i \in 1..n : counts[i] = ItemCount(s[i])
  BY <1>1 DEF Reflects
<1>4. Len(counts) = n
  <2>1. counts \in [1..n -> {NestedCount(s[i]) : i \in 1..n}]
    BY <1>1
  <2> HIDE DEF counts
  <2> QED
    BY <1>1, <2>1, IsSequence
<1> HIDE DEF counts, v
<1>5. ASSUME NEW D, NEW x,
             \A j \in 1..n : /\ IsFiniteSet(D[j]) /\ ItemCount(s[j]) \in Nat
                             /\ Cardinality(D[j]) <= ItemCount(s[j])
      PROVE  LET U == {x} \cup UNION {D[j] : j \in 1..n}
             IN  IsFiniteSet(U) /\ ItemCount(v) \in Nat /\ Cardinality(U) <= ItemCount(v)
  <2>1. \A j \in 1..n : AtMost(D[j], counts[j])
    BY <1>3, <1>5 DEF AtMost
  <2> HIDE DEF n
  <2>2. AtMost(Together(x, D, n), OneAnd(counts))
    BY ONLY <1>1, <1>4, <2>1, TotalOf
  <2> QED
    BY <1>2, <2>2 DEF AtMost, Together
<1> QED
  BY <1>5 DEF Totals, n, v

-----------------------------------------------------------------------------
\* Parts behind a head, where they lie in B.
PartsFound(B, p, e, major, n, t, cut) ==
  /\ HeadFound(B, p, e, major, n, FlattenSeq(t))
  /\ SpreadIn(B, BodyOf(B, p), e, t, n, cut)

\* The parts that were written behind a head are found there.
LEMMA FindsParts ==
  ASSUME NEW B, Fine(B), NEW p \in Nat, NEW e \in Nat, p < e, e <= Len(B),
         NEW major \in {4, 5}, NEW n \in Nat, NEW t \in [1..n -> Bytes],
         \A j \in 1..n : Len(t[j]) >= 1,
         Part(B, p, e) = EncHead(major, n) \o FlattenSeq(t)
  PROVE  \E cut : PartsFound(B, p, e, major, n, t, cut)
<1> DEFINE F == FlattenSeq(t)
<1>0. Len(B) \in Nat /\ B \in Bytes /\ major \in 0..7 /\ major \in 0..5 /\ p <= e
  BY LenProperties DEF Fine, Bytes
<1>1. F \in Bytes /\ \E c : Spread(F, t, n, c)
  BY FlattenTiles
<1>2. PICK c : Spread(F, t, n, c)
  BY <1>1
<1>3. \A j \in 1..n : t[j] \in Bytes /\ Len(t[j]) \in Nat /\ Len(t[j]) >= 1
  BY LenProperties DEF Bytes
<1>4. Part(B, p, e) = EncHead(major, n) \o F
  OBVIOUS
<1> HIDE DEF F
<1>5. Len(F) \in Nat
  BY <1>1, LenProperties DEF Bytes
<1>6. n <= Len(F)
  <2>1. SpreadIn(F, 0, Len(F), t, n, c)
    BY <1>2 DEF Spread, Tiles, SpreadIn
  <2>2. 0 + n <= Len(F)
    <3>1. 0 \in Nat /\ n \in Nat /\ \A j \in 1..n : Len(t[j]) \in Nat /\ Len(t[j]) >= 1
      BY <1>3
    <3> QED
      BY ONLY <1>5, <2>1, <3>1, FewParts
  <2> QED
    BY <1>5, <2>2
<1>7. n < Word
  <2>1. Len(Part(B, p, e)) = e - p
    BY <1>0, PartFacts
  <2>2. /\ Len(EncHead(major, n) \o F) = Len(EncHead(major, n)) + Len(F)
        /\ Len(EncHead(major, n)) \in Nat
    BY <1>0, <1>1, HeadThen, HeadBytes, LenProperties DEF Bytes
  <2>3. n <= Len(B)
    BY <1>0, <1>4, <1>5, <1>6, <2>1, <2>2
  <2> QED
    BY <2>3, SmallArgs
<1>8. HeadFound(B, p, e, major, n, F)
  BY <1>0, <1>1, <1>4, <1>7, FindsHead
<1> DEFINE bo == BodyOf(B, p)
<1>9. bo \in Nat /\ bo <= e /\ Part(B, bo, e) = F
  BY <1>8 DEF HeadFound
<1> HIDE DEF bo
<1>10. \E cut : SpreadIn(B, bo, e, t, n, cut)
  <2>1. Spread(Part(B, bo, e), t, n, c)
    BY <1>2, <1>9
  <2> QED
    BY <1>0, <1>3, <1>9, <2>1, SpreadMoved
<1> QED
  BY <1>8, <1>10 DEF PartsFound, F, bo

\* Arrays.
LEMMA ItemsLie ==
  ASSUME NEW forest, Family(forest), NEW B, Fine(B), NEW s \in Seq(forest),
         NEW depth, NEW p, NEW e, Lies(forest, B, [items |-> s], depth, p, e)
  PROVE  /\ HeadShape(B, p, e)
         /\ \E cut : ItemsShape(forest, B, [items |-> s], depth, p, e, s, cut)
<1> DEFINE v == [items |-> s]
           n == Len(s)
           t == [j \in 1..n |-> EncValue(s[j], depth + 1).buf]
<1>0. Forest(forest) /\ Recurses(forest) /\ GoTrees(forest) /\ Reflects(forest)
  BY DEF Family
<1>1. /\ p \in Nat /\ e \in Nat /\ p < e /\ p <= e /\ e <= Len(B) /\ depth \in Nat /\ depth + 1 \in Nat
      /\ EncValue(v, depth).err = "none" /\ EncValue(v, depth).buf = Part(B, p, e)
  BY LiesFacts
<1>2. /\ \A j \in 1..n : EncValue(s[j], depth + 1).err = "none"
      /\ EncValue(v, depth) = Done(EncHead(4, n) \o FlattenSeq(t))
  BY <1>0, <1>1, MadeItems
<1>3. n \in Nat /\ DOMAIN s = 1..n /\ \A j \in 1..n : s[j] \in forest
  BY LenProperties, ElementOfSeq
<1>4. \A j \in 1..n : /\ EncValue(s[j], depth + 1).buf \in Bytes
                      /\ Len(EncValue(s[j], depth + 1).buf) >= 1
  <2>1. Bytely(forest, depth + 1)
    BY ONLY <1>0, <1>1, BytesWritten
  <2> QED
    BY <1>2, <1>3, <2>1 DEF Bytely
<1>5. /\ t \in [1..n -> Bytes] /\ \A j \in 1..n : Len(t[j]) >= 1
      /\ \A j \in 1..n : t[j] = EncValue(s[j], depth + 1).buf
  BY <1>4
<1>6. Part(B, p, e) = EncHead(4, n) \o FlattenSeq(t)
  BY <1>1, <1>2, DoneFields
<1> HIDE DEF t
<1>7. \E cut : PartsFound(B, p, e, 4, n, t, cut)
  <2> DEFINE m == 4
  <2>1. m \in {4, 5} /\ Part(B, p, e) = EncHead(m, n) \o FlattenSeq(t) /\ Fine(B)
    BY <1>6
  <2> HIDE DEF m, n
  <2>2. \E cut : PartsFound(B, p, e, m, n, t, cut)
    BY ONLY <1>1, <1>3, <1>5, <2>1, FindsParts
  <2> QED
    BY <2>2 DEF m
<1>8. PICK cut : PartsFound(B, p, e, 4, n, t, cut)
  BY <1>7
<1>9. HeadFound(B, p, e, 4, n, FlattenSeq(t)) /\ SpreadIn(B, BodyOf(B, p), e, t, n, cut)
  BY <1>8 DEF PartsFound
<1>10. HeadShape(B, p, e)
  BY <1>3, <1>9, FoundShape
<1>11. MajorOf(B, p) = 4 /\ ArgOf(B, p) = n /\ SlotsOf(B, p) = n
  BY <1>9 DEF HeadFound, SlotsOf
<1>12. /\ cut \in [1 .. n + 1 -> Nat] /\ cut[1] = BodyOf(B, p) /\ cut[n + 1] = e
       /\ \A j \in 1..n : /\ cut[j + 1] = cut[j] + Len(t[j]) /\ cut[j + 1] <= Len(B)
                          /\ Part(B, cut[j], cut[j + 1]) = t[j]
  BY <1>9 DEF SpreadIn
<1>13. Laid(forest, B, depth + 1, n, s, cut)
  <2>1. ASSUME NEW j \in 1..n
        PROVE  Lies(forest, B, s[j], depth + 1, cut[j], cut[j + 1])
    <3>1. j \in 1 .. n + 1 /\ j + 1 \in 1 .. n + 1
      OBVIOUS
    <3>2. cut[j] \in Nat /\ cut[j + 1] \in Nat
      BY <1>12, <3>1
    <3>3. Len(t[j]) \in Nat
      <4>1. t[j] \in Bytes
        BY <1>5
      <4> QED
        BY <4>1, LenProperties DEF Bytes
    <3>4. cut[j + 1] = cut[j] + Len(t[j]) /\ Len(t[j]) >= 1 /\ cut[j + 1] <= Len(B)
          /\ EncValue(s[j], depth + 1).buf = Part(B, cut[j], cut[j + 1])
      BY <1>5, <1>12
    <3>5. cut[j] < cut[j + 1]
      BY ONLY <3>2, <3>3, <3>4
    <3> QED
      BY <1>1, <1>2, <1>3, <3>2, <3>4, <3>5 DEF Lies
  <2> QED
    BY <1>12, <2>1 DEF Laid
<1>14. Totals(v, n, s)
  BY <1>0, ItemsTotal
<1>15. Logical(v) = [seq |-> [j \in 1..n |-> Logical(s[j])]]
  <2>1. DOMAIN v = {"items"} /\ v.items = s
    OBVIOUS
  <2> HIDE DEF v
  <2>2. Logical(v) = [seq |-> [j \in DOMAIN v.items |-> NestedLogical(v.items[j])]]
    BY <2>1 DEF Logical, Is
  <2>3. [j \in DOMAIN v.items |-> NestedLogical(v.items[j])] = [j \in 1..n |-> Logical(s[j])]
    BY <1>0, <1>3, <2>1 DEF Reflects
  <2> QED
    BY <2>2, <2>3
<1>16. ItemsShape(forest, B, v, depth, p, e, s, cut)
  <2> HIDE DEF v, n
  <2>1. KidsShape(forest, B, v, depth, p, e, s, cut)
    BY <1>3, <1>11, <1>12, <1>13, <1>14 DEF KidsShape
  <2> QED
    BY <1>11, <1>15, <2>1 DEF ItemsShape
<1> QED
  BY <1>10, <1>16

\* Decimals and rationals: they are the array of their two integers.
LEMMA PairLies ==
  ASSUME NEW forest, Family(forest), NEW B, Fine(B), NEW x \in Int, NEW y \in Int,
         NEW v, v = [scale |-> x, mantissa |-> y] \/ v = [num |-> x, den |-> y],
         NEW depth, NEW p, NEW e, Lies(forest, B, v, depth, p, e)
  PROVE  /\ HeadShape(B, p, e)
         /\ \E ks, cut : ItemsShape(forest, B, v, depth, p, e, ks, cut)
<1> DEFINE s == TwoInts(x, y)
           u == [items |-> s]
<1>0. Forest(forest) /\ Recurses(forest) /\ GoTrees(forest) /\ Reflects(forest)
  BY DEF Family
<1>1. s \in Seq(forest) /\ Len(s) = 2 /\ DOMAIN s = 1..2 /\ s[1] = [int |-> x] /\ s[2] = [int |-> y]
  BY <1>0, TwoIntsFacts
<1> HIDE DEF s
<1>2. u \in forest
  BY <1>0, <1>1 DEF Forest
<1>3. Lies(forest, B, u, depth, p, e)
  <2>1. /\ p \in Nat /\ e \in Nat /\ p < e /\ e <= Len(B) /\ depth \in Nat
        /\ EncValue(v, depth).err = "none" /\ EncValue(v, depth).buf = Part(B, p, e)
    BY LiesFacts
  <2>2. EncValue(v, depth) = EncValue(u, depth)
    BY <1>0, <2>1, MadePair DEF s
  <2> HIDE DEF u
  <2> QED
    BY <1>2, <2>1, <2>2 DEF Lies
<1>4. HeadShape(B, p, e) /\ \E cut : ItemsShape(forest, B, u, depth, p, e, s, cut)
  BY <1>1, <1>3, ItemsLie
<1>5. PICK cut : ItemsShape(forest, B, u, depth, p, e, s, cut)
  BY <1>4
<1>6. /\ DOMAIN [int |-> x] = {"int"} /\ DOMAIN [int |-> y] = {"int"}
  OBVIOUS
<1>7. Logical([int |-> x]) = [int |-> x] /\ Logical([int |-> y]) = [int |-> y]
      /\ ItemCount([int |-> x]) = 1 /\ ItemCount([int |-> y]) = 1
  <2> DEFINE a == [int |-> x]
             c == [int |-> y]
  <2>1. DOMAIN a = {"int"} /\ DOMAIN c = {"int"}
    OBVIOUS
  <2> HIDE DEF a, c
  <2>2. Logical(a) = a /\ Logical(c) = c /\ ItemCount(a) = 1 /\ ItemCount(c) = 1
    BY <2>1 DEF Logical, ItemCount, Is
  <2> QED
    BY <2>2 DEF a, c
<1>8. ItemCount(v) = 3
  <2>1. Is(v, "mantissa") \/ Is(v, "den")
    BY DEF Is
  <2>2. ~Is(v, "items") /\ ~Is(v, "entries")
    BY DEF Is
  <2> QED
    BY <2>1, <2>2 DEF ItemCount
<1>9. Logical(v) = [seq |-> s]
  <2>1. CASE v = [scale |-> x, mantissa |-> y]
    <3>1. DOMAIN v = {"scale", "mantissa"} /\ v.scale = x /\ v.mantissa = y
      BY <2>1
    <3>2. Logical(v) = [seq |-> <<[int |-> v.scale], [int |-> v.mantissa]>>]
      BY <3>1 DEF Logical, Is
    <3> QED
      BY <3>1, <3>2 DEF s, TwoInts
  <2>2. CASE v = [num |-> x, den |-> y]
    <3>1. DOMAIN v = {"num", "den"} /\ v.num = x /\ v.den = y
      BY <2>2
    <3>2. Logical(v) = [seq |-> <<[int |-> v.num], [int |-> v.den]>>]
      BY <3>1 DEF Logical, Is
    <3> QED
      BY <3>1, <3>2 DEF s, TwoInts
  <2> QED
    BY <2>1, <2>2
<1>10. \A j \in 1..2 : Logical(s[j]) = s[j] /\ ItemCount(s[j]) = 1
  <2>1. \A j \in 1..2 : j = 1 \/ j = 2
    OBVIOUS
  <2> QED
    BY <1>1, <1>7, <2>1
<1>11. /\ MajorOf(B, p) = 4 /\ KidsShape(forest, B, u, depth, p, e, s, cut)
       /\ Logical(u) = [seq |-> [j \in 1..ArgOf(B, p) |-> Logical(s[j])]]
  BY <1>5 DEF ItemsShape
<1>12. ArgOf(B, p) = 2 /\ SlotsOf(B, p) = 2
  <2>1. Logical(u) = [seq |-> [j \in DOMAIN s |-> NestedLogical(s[j])]]
    <3>1. DOMAIN u = {"items"} /\ u.items = s
      OBVIOUS
    <3> HIDE DEF u
    <3>2. Logical(u) = [seq |-> [j \in DOMAIN u.items |-> NestedLogical(u.items[j])]]
      BY <3>1 DEF Logical, Is
    <3> QED
      BY <3>1, <3>2
  <2> DEFINE f == [j \in DOMAIN s |-> NestedLogical(s[j])]
             g == [j \in 1..ArgOf(B, p) |-> Logical(s[j])]
  <2>2. [seq |-> f] = [seq |-> g]
    BY <1>11, <2>1
  <2>3. f = g
    <3> HIDE DEF f, g
    <3>1. [seq |-> f].seq = [seq |-> g].seq
      BY <2>2
    <3> QED
      BY <3>1
  <2>4. DOMAIN f = 1..2 /\ DOMAIN g = 1..ArgOf(B, p)
    BY <1>1
  <2>5. 1..2 = 1..ArgOf(B, p)
    BY <2>3, <2>4
  <2>6. ArgOf(B, p) \in Nat
    BY <1>4, <1>11 DEF HeadShape
  <2>7. ArgOf(B, p) = 2
    BY ONLY <2>5, <2>6
  <2> QED
    BY <1>11, <2>7 DEF SlotsOf
<1>13. Totals(v, 2, s)
  <2>1. Totals(u, 2, s)
    BY <1>11, <1>12 DEF KidsShape
  <2>2. ItemCount(u) = 3
    <3>1. DOMAIN u = {"items"} /\ u.items = s
      OBVIOUS
    <3> HIDE DEF u
    <3> DEFINE counts == [j \in 1..2 |-> NestedCount(s[j])]
    <3>2. ItemCount(u) = OneAnd(counts)
      BY <1>1, <3>1 DEF ItemCount, Is
    <3>3. \A j \in 1..2 : s[j] \in forest
      BY <1>1, ElementOfSeq
    <3>4. counts[1] = 1 /\ counts[2] = 1
      BY <1>0, <1>10, <3>3 DEF Reflects
    <3>5. Len(counts) = 2
      <4>1. counts \in [1..2 -> {NestedCount(s[j]) : j \in 1..2}]
        OBVIOUS
      <4> HIDE DEF counts
      <4> QED
        BY <4>1, IsSequence
    <3> HIDE DEF counts
    <3>6. PICK sum : OneAnd(counts) = sum[2] /\ Sums(sum, counts, 2)
      <4> DEFINE k == 2
      <4>1. k \in Nat /\ Len(counts) = k
        BY <3>5
      <4> HIDE DEF k
      <4>2. \E sum : OneAnd(counts) = sum[k] /\ Sums(sum, counts, k)
        BY ONLY <4>1, OneAndSums
      <4> QED
        BY <4>2 DEF k
    <3>7. sum[0] = 1 /\ sum[1] = sum[0] + counts[1] /\ sum[2] = sum[1] + counts[2]
      <4>1. 1 \in 1..2 /\ 2 \in 1..2 /\ 1 - 1 = 0 /\ 2 - 1 = 1
        OBVIOUS
      <4> QED
        BY <3>6, <4>1 DEF Sums
    <3> QED
      BY <3>2, <3>4, <3>6, <3>7
  <2> QED
    BY <1>8, <2>1, <2>2 DEF Totals
<1>14. KidsShape(forest, B, v, depth, p, e, s, cut)
  BY <1>11, <1>12, <1>13 DEF KidsShape
<1>15. Logical(v) = [seq |-> [j \in 1..ArgOf(B, p) |-> Logical(s[j])]]
  <2>1. s = [j \in 1..2 |-> s[j]]
    <3>1. s \in Seq(forest) /\ Len(s) = 2
      BY <1>1
    <3> QED
      BY <3>1
  <2>2. s = [j \in 1..2 |-> Logical(s[j])]
    BY <1>10, <2>1
  <2> QED
    BY <1>9, <1>12, <2>2
<1>16. ItemsShape(forest, B, v, depth, p, e, s, cut)
  BY <1>11, <1>14, <1>15 DEF ItemsShape
<1> QED
  BY <1>4, <1>16

-----------------------------------------------------------------------------
\* The major type of a key.
LEMMA KeyLies ==
  ASSUME NEW forest, Family(forest), NEW B, Fine(B), NEW key \in forest,
         Is(key, "int") \/ Is(key, "text"),
         NEW depth, NEW p, NEW e, Lies(forest, B, key, depth, p, e)
  PROVE  MajorOf(B, p) \in {0, 1, 3} /\ (MajorOf(B, p) = 3 <=> IsTextKey(key))
<1>1. ASSUME NEW n \in Int, key = [int |-> n]
      PROVE  MajorOf(B, p) \in {0, 1, 3} /\ (MajorOf(B, p) = 3 <=> IsTextKey(key))
  <2>1. MajorOf(B, p) \in {0, 1}
    BY <1>1, IntShape
  <2>2. DOMAIN key = {"int"}
    BY <1>1
  <2> QED
    BY <2>1, <2>2 DEF IsTextKey, Is
<1>2. ASSUME NEW s \in Bytes, key = [text |-> s]
      PROVE  MajorOf(B, p) \in {0, 1, 3} /\ (MajorOf(B, p) = 3 <=> IsTextKey(key))
  <2>1. MajorOf(B, p) = 3
    BY <1>2, TextShape
  <2>2. DOMAIN key = {"text"}
    BY <1>2
  <2> QED
    BY <2>1, <2>2 DEF IsTextKey, Is
<1>3. \/ \E n \in Int : key = [int |-> n]
      \/ \E s \in Bytes : key = [text |-> s]
  <2>1. "int" \in DOMAIN key \/ "text" \in DOMAIN key
    BY DEF Is
  <2>2. \/ \E n \in Int : key = [int |-> n]
        \/ \E s \in Bytes : key = [bytes |-> s]
        \/ \E s \in Bytes : key = [text |-> s]
        \/ \E x \in BOOLEAN : key = [bool |-> x]
        \/ \E s \in Seq(forest) : key = [items |-> s]
        \/ \E s \in Seq([key : forest, val : forest]) : key = [entries |-> s]
        \/ \E x, y \in Int : key = [scale |-> x, mantissa |-> y]
        \/ \E x, y \in Int : key = [num |-> x, den |-> y]
        \/ DOMAIN key \cap {"int", "bytes", "text", "bool", "items", "entries", "mantissa", "den"} = {}
    BY DEF Family, GoTrees
  <2>3. /\ \A s : DOMAIN [bytes |-> s] = {"bytes"}
        /\ \A s : DOMAIN [bool |-> s] = {"bool"}
        /\ \A s : DOMAIN [items |-> s] = {"items"}
        /\ \A s : DOMAIN [entries |-> s] = {"entries"}
        /\ \A x, y : DOMAIN [scale |-> x, mantissa |-> y] = {"scale", "mantissa"}
        /\ \A x, y : DOMAIN [num |-> x, den |-> y] = {"num", "den"}
    OBVIOUS
  <2>4. /\ ~ \E s \in Bytes : key = [bytes |-> s]
        /\ ~ \E x \in BOOLEAN : key = [bool |-> x]
        /\ ~ \E s \in Seq(forest) : key = [items |-> s]
    BY ONLY <2>1, <2>3
  <2>5. /\ ~ \E s \in Seq([key : forest, val : forest]) : key = [entries |-> s]
        /\ ~ \E x, y \in Int : key = [scale |-> x, mantissa |-> y]
        /\ ~ \E x, y \in Int : key = [num |-> x, den |-> y]
    BY ONLY <2>1, <2>3
  <2> QED
    BY ONLY <2>1, <2>2, <2>4, <2>5
<1> QED
  BY <1>1, <1>2, <1>3

\* The place of an entry, from that of its key or of its value.
Half(i) == CHOOSE j \in Nat : i = 2 * j - 1 \/ i = 2 * j

\* Keys have the odd places, values the even ones.
LEMMA HalfFacts ==
  /\ \A j \in Nat : Half(2 * j - 1) = j /\ Half(2 * j) = j
  /\ \A i \in Nat \ {0} : Half(i) \in Nat \ {0} /\ (i = 2 * Half(i) - 1 \/ i = 2 * Half(i))
<1>1. ASSUME NEW j \in Nat, NEW i, i = 2 * j - 1 \/ i = 2 * j
      PROVE  Half(i) = j
  <2>1. Half(i) \in Nat /\ (i = 2 * Half(i) - 1 \/ i = 2 * Half(i))
    BY <1>1 DEF Half
  <2> DEFINE h == Half(i)
  <2>2. h \in Nat /\ (i = 2 * h - 1 \/ i = 2 * h)
    BY <2>1
  <2> HIDE DEF h
  <2>3. h = j
    BY <1>1, <2>2
  <2> QED
    BY <2>3 DEF h
<1>2. ASSUME NEW i \in Nat \ {0} PROVE \E j \in Nat \ {0} : i = 2 * j - 1 \/ i = 2 * j
  <2> DEFINE q == (i + 1) \div 2
             r == (i + 1) % 2
  <2>1. i + 1 = 2 * q + r /\ q \in Nat /\ r \in 0..1
    BY Division
  <2> HIDE DEF q, r
  <2>2. q \in Nat \ {0} /\ (i = 2 * q - 1 \/ i = 2 * q)
    BY <2>1
  <2> QED
    BY <2>2
<1>3. \A j \in Nat : Half(2 * j - 1) = j /\ Half(2 * j) = j
  BY <1>1
<1>4. ASSUME NEW i \in Nat \ {0}
      PROVE  Half(i) \in Nat \ {0} /\ (i = 2 * Half(i) - 1 \/ i = 2 * Half(i))
  <2>1. PICK j \in Nat \ {0} : i = 2 * j - 1 \/ i = 2 * j
    BY <1>2
  <2>2. Half(i) = j
    BY <1>1, <2>1
  <2> QED
    BY <2>1, <2>2
<1> QED
  BY <1>3, <1>4

\* The keys and the values by turns, and where each begins.
Turns(s, f, n) == [i \in 1 .. 2 * n |-> IF i = 2 * Half(i) - 1 THEN KeyOf(s, f, Half(i))
                                        ELSE ValOf(s, f, Half(i))]
TurnCut(s, f, depth, n, c) ==
  [i \in 1 .. 2 * n + 1 |-> IF i = 2 * Half(i) - 1 THEN c[Half(i)]
                            ELSE c[Half(i)] + Len(KeyBuf(s, f, depth, Half(i)))]

TurnShape(s, f, depth, n, c) ==
  LET ks == Turns(s, f, n)
        cut == TurnCut(s, f, depth, n, c)
    IN  /\ \A j \in 1..n : /\ 2 * j - 1 \in 1 .. 2 * n /\ 2 * j \in 1 .. 2 * n
                           /\ ks[2 * j - 1] = KeyOf(s, f, j) /\ ks[2 * j] = ValOf(s, f, j)
                           /\ cut[2 * j] = c[j] + Len(KeyBuf(s, f, depth, j))
                           /\ cut[2 * j + 1] = c[j + 1]
        /\ \A j \in 1 .. n + 1 : cut[2 * j - 1] = c[j]
        /\ \A i \in 1 .. 2 * n : \E j \in 1..n : i = 2 * j - 1 \/ i = 2 * j
        /\ DOMAIN cut = 1 .. 2 * n + 1
        /\ \A i \in 1 .. 2 * n + 1 : (\E j \in 1 .. n + 1 : i = 2 * j - 1) \/ (\E j \in 1..n : i = 2 * j)

\* The places of the keys and of the values.
LEMMA TurnFacts ==
  ASSUME NEW n \in Nat, NEW s, NEW f, NEW depth, NEW c
  PROVE  TurnShape(s, f, depth, n, c)
<1> DEFINE ks == Turns(s, f, n)
           cut == TurnCut(s, f, depth, n, c)
<1>1. \A j \in 1..n : ks[2 * j - 1] = KeyOf(s, f, j) /\ ks[2 * j] = ValOf(s, f, j)
  <2> TAKE j \in 1..n
  <2>1. 2 * j - 1 \in 1 .. 2 * n /\ 2 * j \in 1 .. 2 * n /\ Half(2 * j - 1) = j /\ Half(2 * j) = j
        /\ 2 * j # 2 * j - 1
    BY HalfFacts
  <2> QED
    BY <2>1 DEF Turns
<1>2. \A j \in 1 .. n + 1 : cut[2 * j - 1] = c[j]
  <2> TAKE j \in 1 .. n + 1
  <2>1. 2 * j - 1 \in 1 .. 2 * n + 1 /\ Half(2 * j - 1) = j
    BY HalfFacts
  <2> QED
    BY <2>1 DEF TurnCut
<1>3. \A j \in 1..n : cut[2 * j] = c[j] + Len(KeyBuf(s, f, depth, j))
  <2> TAKE j \in 1..n
  <2>1. 2 * j \in 1 .. 2 * n + 1 /\ Half(2 * j) = j /\ 2 * j # 2 * j - 1
    BY HalfFacts
  <2> QED
    BY <2>1 DEF TurnCut
<1>4. \A j \in 1..n : cut[2 * j + 1] = c[j + 1]
  <2> TAKE j \in 1..n
  <2>1. j + 1 \in 1 .. n + 1 /\ 2 * (j + 1) - 1 = 2 * j + 1
    OBVIOUS
  <2> HIDE DEF cut
  <2>2. cut[2 * (j + 1) - 1] = c[j + 1]
    BY <1>2, <2>1
  <2> QED
    BY <2>1, <2>2
<1>5. \A j \in 1..n : 2 * j - 1 \in 1 .. 2 * n /\ 2 * j \in 1 .. 2 * n
  OBVIOUS
<1>6. \A i \in 1 .. 2 * n : \E j \in 1..n : i = 2 * j - 1 \/ i = 2 * j
  <2> TAKE i \in 1 .. 2 * n
  <2> DEFINE h == Half(i)
  <2>1. h \in Nat \ {0} /\ (i = 2 * h - 1 \/ i = 2 * h)
    BY HalfFacts
  <2> HIDE DEF h
  <2>2. h \in 1..n
    BY <2>1
  <2> QED
    BY <2>1, <2>2
<1>7. \A i \in 1 .. 2 * n + 1 : (\E j \in 1 .. n + 1 : i = 2 * j - 1) \/ (\E j \in 1..n : i = 2 * j)
  <2> TAKE i \in 1 .. 2 * n + 1
  <2> DEFINE h == Half(i)
  <2>1. h \in Nat \ {0} /\ (i = 2 * h - 1 \/ i = 2 * h)
    BY HalfFacts
  <2> HIDE DEF h
  <2>2. (i = 2 * h - 1 => h \in 1 .. n + 1) /\ (i = 2 * h => h \in 1..n)
    BY <2>1
  <2> QED
    BY <2>1, <2>2
<1>8. DOMAIN cut = 1 .. 2 * n + 1
  BY DEF TurnCut
<1> HIDE DEF ks, cut
<1>9. /\ \A j \in 1..n : /\ 2 * j - 1 \in 1 .. 2 * n /\ 2 * j \in 1 .. 2 * n
                         /\ ks[2 * j - 1] = KeyOf(s, f, j) /\ ks[2 * j] = ValOf(s, f, j)
                         /\ cut[2 * j] = c[j] + Len(KeyBuf(s, f, depth, j))
                         /\ cut[2 * j + 1] = c[j + 1]
      /\ \A j \in 1 .. n + 1 : cut[2 * j - 1] = c[j]
  BY <1>1, <1>2, <1>3, <1>4, <1>5
<1> QED
  BY <1>6, <1>7, <1>8, <1>9 DEF ks, cut, TurnShape

-----------------------------------------------------------------------------
\* The entries of a map are values of the forest.
LEMMA EntryFacts ==
  ASSUME NEW forest, NEW s \in Seq([key : forest, val : forest])
  PROVE  /\ Len(s) \in Nat /\ DOMAIN s = 1..Len(s)
         /\ \A i \in 1..Len(s) : s[i].key \in forest /\ s[i].val \in forest
<1>1. \A i \in 1..Len(s) : s[i] \in [key : forest, val : forest]
  BY ElementOfSeq
<1> QED
  BY <1>1, LenProperties

\* No entry is written twice.
LEMMA OrderedOnce ==
  ASSUME NEW n \in Nat, NEW s, NEW f, NEW depth, InWriteOrder(s, n, f, depth),
         \A j \in 1..n : KeyBuf(s, f, depth, j) \in Bytes
  PROVE  /\ \A j, k \in 1..n : f[j] = f[k] => j = k
         /\ \A j \in 1..n : f[j] \in 1..n
         /\ \A i \in 1..n : \E j \in 1..n : f[j] = i
<1>1. /\ \A j \in 1..n : f[j] \in 1..n
      /\ \A i \in 1..n : \E j \in 1..n : f[j] = i
      /\ \A j, k \in 1..n : j < k => BytesLess(KeyBuf(s, f, depth, j), KeyBuf(s, f, depth, k))
  BY DEF InWriteOrder
<1>2. ASSUME NEW j \in 1..n, NEW k \in 1..n, f[j] = f[k], j < k PROVE FALSE
  <2>1. KeyBuf(s, f, depth, j) = KeyBuf(s, f, depth, k)
    BY <1>2 DEF KeyBuf, KeyOf
  <2>2. BytesLess(KeyBuf(s, f, depth, j), KeyBuf(s, f, depth, j))
    BY <1>1, <1>2, <2>1
  <2> QED
    BY <2>2, NeverBeforeItself
<1>3. ASSUME NEW j \in 1..n, NEW k \in 1..n, f[j] = f[k] PROVE j = k
  <2>1. ~(j < k) /\ ~(k < j)
    BY <1>2, <1>3
  <2> QED
    BY <2>1
<1> QED
  BY <1>1, <1>3

\* The items of a map.
LEMMA EntriesTotal ==
  ASSUME NEW forest, Reflects(forest), NEW s \in Seq([key : forest, val : forest]),
         NEW f, NEW n, n = Len(s),
         \A j, k \in 1..n : f[j] = f[k] => j = k,
         \A j \in 1..n : f[j] \in 1..n,
         \A i \in 1..n : \E j \in 1..n : f[j] = i
  PROVE  Totals([entries |-> s], 2 * n, Turns(s, f, n))
<1> DEFINE v == [entries |-> s]
           ks == Turns(s, f, n)
           counts == [i \in DOMAIN s |-> NestedCount(s[i].key) + NestedCount(s[i].val)]
           g(i) == CHOOSE j \in 1..n : f[j] = i
<1>1. n \in Nat /\ DOMAIN s = 1..n /\ \A i \in 1..n : s[i].key \in forest /\ s[i].val \in forest
  BY EntryFacts
<1>2. ItemCount(v) = OneAnd(counts)
  <2>1. DOMAIN v = {"entries"} /\ v.entries = s
    OBVIOUS
  <2> HIDE DEF v
  <2>2. ItemCount(v) = OneAnd([i \in DOMAIN v.entries |-> NestedCount(v.entries[i].key)
                                                          + NestedCount(v.entries[i].val)])
    BY <2>1 DEF ItemCount, Is
  <2> QED
    BY <2>1, <2>2
<1>3. \A i \in 1..n : counts[i] = ItemCount(s[i].key) + ItemCount(s[i].val)
  <2>1. \A i \in 1..n : /\ NestedCount(s[i].key) = ItemCount(s[i].key)
                        /\ NestedCount(s[i].val) = ItemCount(s[i].val)
    BY <1>1 DEF Reflects
  <2> QED
    BY <1>1, <2>1
<1>4. Len(counts) = n
  <2>1. counts \in [1..n -> {counts[i] : i \in 1..n}]
    BY <1>1
  <2> HIDE DEF counts
  <2> QED
    BY <1>1, <2>1, IsSequence
<1>5. \A j \in 1..n : g(f[j]) = j
  OBVIOUS
<1>6. \A i \in 1..n : g(i) \in 1..n /\ f[g(i)] = i
  OBVIOUS
<1>7. /\ \A j \in 1..n : /\ 2 * j - 1 \in 1 .. 2 * n /\ 2 * j \in 1 .. 2 * n
                         /\ ks[2 * j - 1] = s[f[j]].key /\ ks[2 * j] = s[f[j]].val
      /\ \A i \in 1 .. 2 * n : \E j \in 1..n : i = 2 * j - 1 \/ i = 2 * j
  <2> DEFINE zero == 0
             c == <<>>
  <2>1. n \in Nat
    BY <1>1
  <2> HIDE DEF zero, c
  <2>2. /\ \A j \in 1..n : /\ 2 * j - 1 \in 1 .. 2 * n /\ 2 * j \in 1 .. 2 * n
                           /\ ks[2 * j - 1] = KeyOf(s, f, j) /\ ks[2 * j] = ValOf(s, f, j)
        /\ \A i \in 1 .. 2 * n : \E j \in 1..n : i = 2 * j - 1 \/ i = 2 * j
    <3>1. TurnShape(s, f, zero, n, c)
      BY ONLY <2>1, TurnFacts
    <3> QED
      BY <3>1 DEF TurnShape
  <2> QED
    BY <2>2 DEF KeyOf, ValOf
<1> HIDE DEF counts, v, g, ks
<1>8. ASSUME NEW D, NEW x,
             \A j \in 1 .. 2 * n : /\ IsFiniteSet(D[j]) /\ ItemCount(ks[j]) \in Nat
                                   /\ Cardinality(D[j]) <= ItemCount(ks[j])
      PROVE  LET U == {x} \cup UNION {D[j] : j \in 1 .. 2 * n}
             IN  IsFiniteSet(U) /\ ItemCount(v) \in Nat /\ Cardinality(U) <= ItemCount(v)
  <2> DEFINE E == [i \in 1..n |-> D[2 * g(i) - 1] \cup D[2 * g(i)]]
  <2>1. \A j \in 1 .. 2 * n : AtMost(D[j], ItemCount(ks[j]))
    BY <1>8 DEF AtMost
  <2>2. \A i \in 1..n : AtMost(E[i], counts[i])
    <3> TAKE i \in 1..n
    <3> DEFINE j == g(i)
    <3>1. j \in 1..n /\ f[j] = i
      BY <1>6
    <3>2. E[i] = D[2 * j - 1] \cup D[2 * j]
      OBVIOUS
    <3> HIDE DEF E, j
    <3>3. AtMost(D[2 * j - 1], ItemCount(s[i].key)) /\ AtMost(D[2 * j], ItemCount(s[i].val))
      BY <1>7, <2>1, <3>1
    <3>4. AtMost(D[2 * j - 1] \cup D[2 * j], ItemCount(s[i].key) + ItemCount(s[i].val))
      <4> DEFINE U == D[2 * j - 1]
                 V == D[2 * j]
                 a == ItemCount(s[i].key)
                 bo == ItemCount(s[i].val)
      <4>1. AtMost(U, a) /\ AtMost(V, bo)
        BY <3>3
      <4> HIDE DEF U, V, a, bo
      <4>2. AtMost(U \cup V, a + bo)
        BY ONLY <4>1, AtMostBoth
      <4> QED
        BY <4>2 DEF U, V, a, bo
    <3> QED
      BY <1>3, <3>2, <3>4
  <2>3. \A i \in 1..n : E[i] = D[2 * g(i) - 1] \cup D[2 * g(i)]
    OBVIOUS
  <2> HIDE DEF E
  <2>4. AtMost(Together(x, E, n), OneAnd(counts))
    BY ONLY <1>1, <1>4, <2>2, TotalOf
  <2>5. UNION {D[j] : j \in 1 .. 2 * n} = UNION {E[i] : i \in 1..n}
    <3>1. ASSUME NEW j \in 1 .. 2 * n PROVE \E i \in 1..n : D[j] \subseteq E[i]
      <4>1. PICK k \in 1..n : j = 2 * k - 1 \/ j = 2 * k
        BY <1>7
      <4>2. f[k] \in 1..n /\ g(f[k]) = k
        BY <1>5
      <4>3. E[f[k]] = D[2 * k - 1] \cup D[2 * k]
        BY <2>3, <4>2
      <4>4. D[j] \subseteq E[f[k]]
        BY <4>1, <4>3
      <4> QED
        BY <4>2, <4>4
    <3>2. ASSUME NEW i \in 1..n
          PROVE  \E j, k \in 1 .. 2 * n : E[i] \subseteq D[j] \cup D[k]
      <4>1. g(i) \in 1..n
        BY <1>6
      <4> DEFINE a == 2 * g(i) - 1
                 bo == 2 * g(i)
      <4>2. a \in 1 .. 2 * n /\ bo \in 1 .. 2 * n
        BY <1>7, <4>1
      <4>3. E[i] = D[a] \cup D[bo]
        BY <2>3
      <4> HIDE DEF a, bo
      <4> QED
        BY ONLY <4>2, <4>3
    <3>3. ASSUME NEW y, NEW j \in 1 .. 2 * n, y \in D[j] PROVE y \in UNION {E[i] : i \in 1..n}
      <4>1. PICK i \in 1..n : D[j] \subseteq E[i]
        BY <3>1
      <4> QED
        BY ONLY <3>3, <4>1
    <3>4. ASSUME NEW y, NEW i \in 1..n, y \in E[i] PROVE y \in UNION {D[j] : j \in 1 .. 2 * n}
      <4> DEFINE m == 2 * n
      <4>0. \E j, k \in 1..m : E[i] \subseteq D[j] \cup D[k]
        BY <3>2
      <4> HIDE DEF m
      <4>1. PICK j \in 1..m, k \in 1..m : E[i] \subseteq D[j] \cup D[k]
        BY ONLY <4>0
      <4>2. y \in UNION {D[l] : l \in 1..m}
        BY ONLY <3>4, <4>1
      <4> QED
        BY <4>2 DEF m
    <3> QED
      BY <3>3, <3>4
  <2> QED
    BY <1>2, <2>4, <2>5 DEF AtMost, Together
<1> QED
  BY <1>8 DEF Totals, v, ks

-----------------------------------------------------------------------------
\* A part that is made of two.
SplitAt(B, bo, m, e, k, x) ==
  /\ m \in Nat /\ m = bo + Len(k) /\ e = m + Len(x) /\ Len(k) \in Nat /\ Len(x) \in Nat
  /\ Part(B, bo, m) = k /\ Part(B, m, e) = x

\* Where the second of two begins.
LEMMA SplitPart ==
  ASSUME NEW B \in Bytes, NEW bo \in Nat, NEW e \in Nat, bo <= e, e <= Len(B),
         NEW k \in Bytes, NEW x \in Bytes, Part(B, bo, e) = k \o x
  PROVE  SplitAt(B, bo, bo + Len(k), e, k, x)
<1> DEFINE i == Len(k)
           l == Len(x)
           zero == 0
           whole == i + l
<1>1. i \in Nat /\ l \in Nat /\ Len(B) \in Nat /\ zero \in Nat /\ whole \in Nat
  BY LenProperties DEF Bytes
<1>2. Len(Part(B, bo, e)) = e - bo
  BY PartFacts
<1>3. /\ Len(k \o x) = Len(k) + Len(x) /\ Part(k \o x, Len(k), Len(k) + Len(x)) = x
      /\ \A p, q \in Nat : p <= q /\ q <= Len(k) => Part(k \o x, p, q) = Part(k, p, q)
  BY PartOfConcat
<1>4. e - bo = i + l
  BY <1>2, <1>3
<1>5. Part(k \o x, zero, i) = k
  BY <1>1, <1>3, WholePart
<1>6. zero <= i /\ i <= e - bo /\ i <= whole /\ whole <= e - bo
  BY <1>1, <1>4
<1>7. bo \in Nat /\ e \in Nat /\ bo <= e /\ e <= Len(B) /\ B \in Bytes
  OBVIOUS
<1>8. Part(k \o x, i, whole) = x
  BY <1>3
<1>9. bo + zero = bo /\ bo + whole = e /\ e = bo + i + l
  <2>1. zero = 0 /\ whole = i + l
    OBVIOUS
  <2> HIDE DEF i, l, zero, whole
  <2> QED
    BY ONLY <1>1, <1>4, <1>7, <2>1
<1> HIDE DEF i, l, zero, whole
<1>10. Part(Part(B, bo, e), zero, i) = Part(B, bo + zero, bo + i)
  BY ONLY <1>1, <1>6, <1>7, PartOfPart
<1>11. Part(Part(B, bo, e), i, whole) = Part(B, bo + i, bo + whole)
  BY ONLY <1>1, <1>6, <1>7, PartOfPart
<1>12. Part(B, bo, bo + i) = k /\ Part(B, bo + i, e) = x
  BY <1>5, <1>8, <1>9, <1>10, <1>11
<1>13. bo + i \in Nat
  BY <1>1
<1> QED
  BY <1>1, <1>9, <1>12, <1>13 DEF SplitAt, i, l

\* The entries that f puts in order are written without an error.
WrittenEntries(forest, s, n, f, depth) ==
  \A j \in 1..n :
    /\ KeyOf(s, f, j) \in forest /\ ValOf(s, f, j) \in forest
    /\ EncValue(KeyOf(s, f, j), depth).err = "none"
    /\ EncValue(ValOf(s, f, j), depth).err = "none"
    /\ KeyBuf(s, f, depth, j) \in Bytes /\ Len(KeyBuf(s, f, depth, j)) >= 1
    /\ EncValue(ValOf(s, f, j), depth).buf \in Bytes
    /\ Len(EncValue(ValOf(s, f, j), depth).buf) >= 1
    /\ EntryBuf(s, f, depth, j) \in Bytes /\ Len(EntryBuf(s, f, depth, j)) >= 1

\* What is known of the entries of a map that was made.
LEMMA EntriesWritten ==
  ASSUME NEW forest, NEW s \in Seq([key : forest, val : forest]), NEW n, n = Len(s),
         NEW f, NEW depth, Bytely(forest, depth), InWriteOrder(s, n, f, depth),
         \A i \in 1..n : /\ EncValue(s[i].key, depth).err = "none"
                         /\ EncValue(s[i].val, depth).err = "none"
  PROVE  WrittenEntries(forest, s, n, f, depth)
<1> SUFFICES ASSUME NEW j \in 1..n
             PROVE  /\ KeyOf(s, f, j) \in forest /\ ValOf(s, f, j) \in forest
                    /\ EncValue(KeyOf(s, f, j), depth).err = "none"
                    /\ EncValue(ValOf(s, f, j), depth).err = "none"
                    /\ KeyBuf(s, f, depth, j) \in Bytes /\ Len(KeyBuf(s, f, depth, j)) >= 1
                    /\ EncValue(ValOf(s, f, j), depth).buf \in Bytes
                    /\ Len(EncValue(ValOf(s, f, j), depth).buf) >= 1
                    /\ EntryBuf(s, f, depth, j) \in Bytes /\ Len(EntryBuf(s, f, depth, j)) >= 1
  BY DEF WrittenEntries
<1>1. n \in Nat /\ \A i \in 1..n : s[i].key \in forest /\ s[i].val \in forest
  BY EntryFacts
<1>2. f[j] \in 1..n
  BY DEF InWriteOrder
<1>3. /\ KeyOf(s, f, j) \in forest /\ ValOf(s, f, j) \in forest
      /\ EncValue(KeyOf(s, f, j), depth).err = "none"
      /\ EncValue(ValOf(s, f, j), depth).err = "none"
  BY <1>1, <1>2 DEF KeyOf, ValOf
<1>4. /\ EncValue(KeyOf(s, f, j), depth).buf \in Bytes
      /\ Len(EncValue(KeyOf(s, f, j), depth).buf) >= 1
  BY <1>3 DEF Bytely
<1>5. /\ EncValue(ValOf(s, f, j), depth).buf \in Bytes
      /\ Len(EncValue(ValOf(s, f, j), depth).buf) >= 1
  BY <1>3 DEF Bytely
<1>6. KeyBuf(s, f, depth, j) \in Bytes /\ Len(KeyBuf(s, f, depth, j)) >= 1
  BY <1>4 DEF KeyBuf
<1> DEFINE k == KeyBuf(s, f, depth, j)
           x == EncValue(ValOf(s, f, j), depth).buf
<1>7. k \in Bytes /\ Len(k) >= 1 /\ x \in Bytes /\ Len(x) >= 1
  BY <1>5, <1>6
<1>8. EntryBuf(s, f, depth, j) = k \o x
  BY DEF EntryBuf
<1> HIDE DEF k, x
<1>9. k \o x \in Bytes /\ Len(k \o x) = Len(k) + Len(x) /\ Len(k) \in Nat /\ Len(x) \in Nat
  BY <1>7, PartOfConcat, LenProperties DEF Bytes
<1>10. k \o x \in Bytes /\ Len(k \o x) >= 1
  BY <1>7, <1>9
<1> QED
  BY <1>3, <1>5, <1>6, <1>8, <1>10

\* Where the key and the value of the j-th entry lie.
EntryLies(forest, B, s, f, depth, c, j) ==
  LET m == c[j] + Len(KeyBuf(s, f, depth, j))
  IN  /\ Lies(forest, B, KeyOf(s, f, j), depth, c[j], m)
      /\ Lies(forest, B, ValOf(s, f, j), depth, m, c[j + 1])
      /\ Part(B, c[j], m) = KeyBuf(s, f, depth, j)

\* The entries lie between the cuts.
LEMMA EntriesSplit ==
  ASSUME NEW forest, NEW B, Fine(B), NEW n \in Nat, NEW s, NEW f, NEW depth \in Nat,
         WrittenEntries(forest, s, n, f, depth),
         NEW bo, NEW e, NEW t, \A j \in 1..n : t[j] = EntryBuf(s, f, depth, j),
         NEW c, SpreadIn(B, bo, e, t, n, c),
         NEW j \in 1..n
  PROVE  EntryLies(forest, B, s, f, depth, c, j)
<1> DEFINE k == KeyBuf(s, f, depth, j)
           x == EncValue(ValOf(s, f, j), depth).buf
           lo == c[j]
           hi == c[j + 1]
           m == lo + Len(k)
<1>1. /\ KeyOf(s, f, j) \in forest /\ ValOf(s, f, j) \in forest
      /\ EncValue(KeyOf(s, f, j), depth).err = "none"
      /\ EncValue(ValOf(s, f, j), depth).err = "none"
      /\ k \in Bytes /\ Len(k) >= 1 /\ x \in Bytes /\ Len(x) >= 1
  BY DEF WrittenEntries
<1>2. t[j] = k \o x
  BY DEF EntryBuf
<1>3. j \in 1 .. n + 1 /\ j + 1 \in 1 .. n + 1
  OBVIOUS
<1>4. /\ lo \in Nat /\ hi \in Nat /\ hi = lo + Len(t[j]) /\ hi <= Len(B)
      /\ Part(B, lo, hi) = t[j] /\ B \in Bytes
  BY <1>3 DEF SpreadIn, Fine
<1>5. Len(t[j]) \in Nat /\ Len(k) \in Nat /\ Len(x) \in Nat
  <2>1. k \o x \in Bytes
    BY <1>1, PartOfConcat
  <2> QED
    BY <1>1, <1>2, <2>1, LenProperties DEF Bytes
<1>6. lo <= hi /\ Part(B, lo, hi) = k \o x
  <2>1. Part(B, lo, hi) = k \o x
    BY <1>2, <1>4
  <2> HIDE DEF k, x, lo, hi
  <2> QED
    BY ONLY <1>4, <1>5, <2>1
<1>7. EncValue(KeyOf(s, f, j), depth).buf = k
  BY DEF KeyBuf
<1> HIDE DEF k, x, lo, hi
<1>8. SplitAt(B, lo, lo + Len(k), hi, k, x)
  BY ONLY <1>1, <1>4, <1>6, SplitPart
<1>9. /\ m \in Nat /\ hi = m + Len(x) /\ Part(B, lo, m) = k /\ Part(B, m, hi) = x
  BY <1>8 DEF SplitAt
<1>10. lo < m /\ m < hi /\ m <= Len(B)
  <2>1. Len(B) \in Nat
    BY <1>4, LenProperties DEF Bytes
  <2> QED
    BY ONLY <1>1, <1>4, <1>5, <1>9, <2>1 DEF m
<1>11. Lies(forest, B, KeyOf(s, f, j), depth, lo, m)
  BY <1>1, <1>4, <1>7, <1>9, <1>10 DEF Lies
<1>12. Lies(forest, B, ValOf(s, f, j), depth, m, hi)
  BY <1>1, <1>4, <1>9, <1>10 DEF Lies, x
<1> QED
  BY <1>9, <1>11, <1>12 DEF EntryLies, lo, hi, m, k

-----------------------------------------------------------------------------
\* The keys and the values lie by turns.
LEMMA TurnsLaid ==
  ASSUME NEW forest, NEW B, NEW n \in Nat, NEW s, NEW f, NEW depth, NEW c,
         \A j \in 1 .. n + 1 : c[j] \in Nat,
         \A j \in 1..n : EntryLies(forest, B, s, f, depth, c, j)
  PROVE  Laid(forest, B, depth, 2 * n, Turns(s, f, n), TurnCut(s, f, depth, n, c))
<1> DEFINE ks == Turns(s, f, n)
           cut == TurnCut(s, f, depth, n, c)
<1>1. /\ \A j \in 1..n : /\ 2 * j - 1 \in 1 .. 2 * n /\ 2 * j \in 1 .. 2 * n
                         /\ ks[2 * j - 1] = KeyOf(s, f, j) /\ ks[2 * j] = ValOf(s, f, j)
                         /\ cut[2 * j] = c[j] + Len(KeyBuf(s, f, depth, j))
                         /\ cut[2 * j + 1] = c[j + 1]
      /\ \A j \in 1 .. n + 1 : cut[2 * j - 1] = c[j]
      /\ \A i \in 1 .. 2 * n : \E j \in 1..n : i = 2 * j - 1 \/ i = 2 * j
      /\ \A i \in 1 .. 2 * n + 1 : (\E j \in 1 .. n + 1 : i = 2 * j - 1) \/ (\E j \in 1..n : i = 2 * j)
  <2>1. n \in Nat
    OBVIOUS
  <2>2. TurnShape(s, f, depth, n, c)
    BY ONLY <2>1, TurnFacts
  <2> QED
    BY <2>2 DEF TurnShape
<1>2. cut = [i \in 1 .. 2 * n + 1 |-> cut[i]]
  BY DEF TurnCut
<1> HIDE DEF ks, cut
<1>3. \A j \in 1..n : /\ Lies(forest, B, KeyOf(s, f, j), depth, cut[2 * j - 1], cut[2 * j])
                      /\ Lies(forest, B, ValOf(s, f, j), depth, cut[2 * j], cut[2 * j + 1])
  BY <1>1 DEF EntryLies
<1>4. \A i \in 1 .. 2 * n + 1 : cut[i] \in Nat
  <2> TAKE i \in 1 .. 2 * n + 1
  <2>1. CASE \E j \in 1 .. n + 1 : i = 2 * j - 1
    BY <1>1, <2>1
  <2>2. CASE \E j \in 1..n : i = 2 * j
    BY <1>3, <2>2 DEF Lies
  <2> QED
    BY <1>1, <2>1, <2>2
<1>5. cut \in [1 .. 2 * n + 1 -> Nat]
  BY <1>2, <1>4
<1>6. \A i \in 1 .. 2 * n : Lies(forest, B, ks[i], depth, cut[i], cut[i + 1])
  <2> TAKE i \in 1 .. 2 * n
  <2>1. PICK j \in 1..n : i = 2 * j - 1 \/ i = 2 * j
    BY <1>1
  <2>2. CASE i = 2 * j - 1
    <3>1. i + 1 = 2 * j /\ ks[i] = KeyOf(s, f, j)
      BY <1>1, <2>2
    <3> QED
      BY <1>3, <2>2, <3>1
  <2>3. CASE i = 2 * j
    <3>1. ks[i] = ValOf(s, f, j) /\ i + 1 = 2 * j + 1
      BY <1>1, <2>3
    <3> QED
      BY <1>3, <2>3, <3>1
  <2> QED
    BY <2>1, <2>2, <2>3
<1> QED
  BY <1>5, <1>6 DEF Laid, ks, cut

\* The meaning of a map whose entries f goes through.
MeansPairs(s, f, n) ==
  Logical([entries |-> s]) = [map |-> {EntryMeans(Turns(s, f, n), j) : j \in 1..n}]

\* A map is the set of its pairs, in whatever order f goes through them.
LEMMA EntriesMean ==
  ASSUME NEW forest, Reflects(forest), NEW s \in Seq([key : forest, val : forest]),
         NEW n, n = Len(s), NEW f,
         \A j \in 1..n : f[j] \in 1..n, \A i \in 1..n : \E j \in 1..n : f[j] = i
  PROVE  MeansPairs(s, f, n)
<1> DEFINE v == [entries |-> s]
           ks == Turns(s, f, n)
           pair(i) == <<Logical(s[i].key), Logical(s[i].val)>>
<1>1. n \in Nat /\ DOMAIN s = 1..n /\ \A i \in 1..n : s[i].key \in forest /\ s[i].val \in forest
  BY EntryFacts
<1>2. Logical(v) = [map |-> {<<NestedLogical(s[i].key), NestedLogical(s[i].val)>> : i \in DOMAIN s}]
  <2>1. DOMAIN v = {"entries"} /\ v.entries = s
    OBVIOUS
  <2> HIDE DEF v
  <2>3. Logical(v) = [map |-> {<<NestedLogical(v.entries[i].key), NestedLogical(v.entries[i].val)>> :
                                 i \in DOMAIN v.entries}]
    BY <2>1 DEF Logical, Is
  <2> QED
    BY <2>1, <2>3
<1>3. \A i \in 1..n : /\ NestedLogical(s[i].key) = Logical(s[i].key)
                      /\ NestedLogical(s[i].val) = Logical(s[i].val)
  BY <1>1 DEF Reflects
<1>4. Logical(v) = [map |-> {pair(i) : i \in 1..n}]
  <2>1. {<<NestedLogical(s[i].key), NestedLogical(s[i].val)>> : i \in DOMAIN s} = {pair(i) : i \in 1..n}
    BY <1>1, <1>3
  <2> QED
    BY <1>2, <2>1
<1>5. \A j \in 1..n : EntryMeans(ks, j) = pair(f[j])
  <2> DEFINE zero == 0
             c == <<>>
  <2>1. n \in Nat
    BY <1>1
  <2> HIDE DEF zero, c
  <2>2. TurnShape(s, f, zero, n, c)
    BY ONLY <2>1, TurnFacts
  <2>3. \A j \in 1..n : ks[2 * j - 1] = KeyOf(s, f, j) /\ ks[2 * j] = ValOf(s, f, j)
    BY <2>2 DEF TurnShape
  <2> QED
    BY <2>3 DEF EntryMeans, KeyOf, ValOf
<1> HIDE DEF v, ks, pair
<1>6. {EntryMeans(ks, j) : j \in 1..n} = {pair(i) : i \in 1..n}
  <2>1. ASSUME NEW j \in 1..n PROVE EntryMeans(ks, j) \in {pair(i) : i \in 1..n}
    BY <1>5, <2>1
  <2>2. ASSUME NEW i \in 1..n PROVE pair(i) \in {EntryMeans(ks, j) : j \in 1..n}
    <3>1. PICK j \in 1..n : f[j] = i
      BY <2>2
    <3>2. EntryMeans(ks, j) = pair(i)
      BY <1>5, <3>1
    <3> QED
      BY <3>2
  <2> QED
    BY <2>1, <2>2
<1> QED
  BY <1>4, <1>6 DEF v, ks, MeansPairs

-----------------------------------------------------------------------------
\* The keys of a map, by their bytes.
LEMMA KeysLie ==
  ASSUME NEW forest, Family(forest), NEW B, Fine(B), NEW s, NEW n \in Nat, OneKind(s, n),
         NEW f, NEW depth, InWriteOrder(s, n, f, depth), NEW c,
         \A j \in 1..n : EntryLies(forest, B, s, f, depth, c, j),
         NEW cut, cut = TurnCut(s, f, depth, n, c)
  PROVE  /\ \A j \in 1..n : /\ MajorOf(B, cut[2 * j - 1]) \in {0, 1, 3}
                            /\ MajorOf(B, cut[2 * j - 1]) = 3 <=> MajorOf(B, cut[1]) = 3
         /\ \A j, k \in 1..n : j < k => BytesLess(KeyPart(B, cut, j), KeyPart(B, cut, k))
<1>1. \A j \in 1..n : cut[2 * j - 1] = c[j] /\ cut[2 * j] = c[j] + Len(KeyBuf(s, f, depth, j))
  <2>1. n \in Nat
    OBVIOUS
  <2>2. TurnShape(s, f, depth, n, c)
    BY ONLY <2>1, TurnFacts
  <2> QED
    BY <2>1, <2>2 DEF TurnShape
<1>2. \A j \in 1..n : /\ Lies(forest, B, KeyOf(s, f, j), depth, cut[2 * j - 1], cut[2 * j])
                      /\ KeyPart(B, cut, j) = KeyBuf(s, f, depth, j)
  BY <1>1 DEF EntryLies, KeyPart
<1>3. \A j, k \in 1..n : j < k => BytesLess(KeyPart(B, cut, j), KeyPart(B, cut, k))
  BY <1>2 DEF InWriteOrder
<1>4. ASSUME NEW j \in 1..n
      PROVE  /\ MajorOf(B, cut[2 * j - 1]) \in {0, 1, 3}
             /\ MajorOf(B, cut[2 * j - 1]) = 3 <=> IsTextKey(s[1].key)
  <2> DEFINE key == KeyOf(s, f, j)
             lo == cut[2 * j - 1]
             hi == cut[2 * j]
  <2>1. f[j] \in 1..n
    BY <1>4 DEF InWriteOrder
  <2>2. (Is(key, "int") \/ Is(key, "text")) /\ IsTextKey(key) = IsTextKey(s[1].key)
    BY <2>1 DEF OneKind, KeyOf
  <2>3. Lies(forest, B, key, depth, lo, hi) /\ Family(forest) /\ Fine(B)
    BY <1>2, <1>4
  <2> HIDE DEF key, lo, hi
  <2>4. key \in forest
    BY <2>3 DEF Lies
  <2>5. MajorOf(B, lo) \in {0, 1, 3} /\ (MajorOf(B, lo) = 3 <=> IsTextKey(key))
    BY ONLY <2>2, <2>3, <2>4, KeyLies
  <2>6. MajorOf(B, lo) = 3 <=> IsTextKey(s[1].key)
    BY ONLY <2>2, <2>5
  <2> QED
    BY <2>5, <2>6 DEF lo
<1>5. ASSUME NEW j \in 1..n PROVE MajorOf(B, cut[2 * j - 1]) = 3 <=> MajorOf(B, cut[1]) = 3
  <2>1. 1 \in 1..n /\ 2 * 1 - 1 = 1
    BY <1>5
  <2>2. MajorOf(B, cut[1]) = 3 <=> IsTextKey(s[1].key)
    BY <1>4, <2>1
  <2> QED
    BY <1>4, <1>5, <2>2
<1> QED
  BY <1>3, <1>4, <1>5

\* Maps.
LEMMA EntriesLie ==
  ASSUME NEW forest, Family(forest), NEW B, Fine(B), NEW s \in Seq([key : forest, val : forest]),
         NEW depth, NEW p, NEW e, Lies(forest, B, [entries |-> s], depth, p, e)
  PROVE  /\ HeadShape(B, p, e)
         /\ \E ks, cut : EntriesShape(forest, B, [entries |-> s], depth, p, e, ks, cut)
<1> DEFINE v == [entries |-> s]
           n == Len(s)
           inner == depth + 1
<1>0. Forest(forest) /\ Recurses(forest) /\ GoTrees(forest) /\ Reflects(forest)
  BY DEF Family
<1>1. /\ p \in Nat /\ e \in Nat /\ p < e /\ p <= e /\ e <= Len(B) /\ depth \in Nat /\ depth + 1 \in Nat
      /\ EncValue(v, depth).err = "none" /\ EncValue(v, depth).buf = Part(B, p, e)
  BY LiesFacts
<1>2. Bytely(forest, depth + 1)
  BY ONLY <1>0, <1>1, BytesWritten
<1>3. \E f : MapMade(s, f, depth)
  BY <1>0, <1>1, <1>2, MadeEntries
<1>4. PICK f : MapMade(s, f, depth)
  BY <1>3
<1>5. n \in Nat /\ DOMAIN s = 1..n
  BY EntryFacts
<1>6. /\ InWriteOrder(s, n, f, inner) /\ OneKind(s, n)
      /\ \A i \in 1..n : /\ EncValue(s[i].key, inner).err = "none"
                         /\ EncValue(s[i].val, inner).err = "none"
  BY <1>4 DEF MapMade
<1> DEFINE t == [j \in 1..n |-> EntryBuf(s, f, inner, j)]
<1>7. EncValue(v, depth) = Done(EncHead(5, n) \o FlattenSeq(t))
  BY <1>4 DEF MapMade
<1>8. Part(B, p, e) = EncHead(5, n) \o FlattenSeq(t)
  BY <1>1, <1>7, DoneFields
<1>9. inner \in Nat /\ Bytely(forest, inner) /\ s \in Seq([key : forest, val : forest]) /\ n = Len(s)
  BY <1>1, <1>2
<1> HIDE DEF v, n, inner
<1>10. WrittenEntries(forest, s, n, f, inner)
  BY ONLY <1>6, <1>9, EntriesWritten
<1>11. /\ t \in [1..n -> Bytes] /\ \A j \in 1..n : Len(t[j]) >= 1
       /\ \A j \in 1..n : t[j] = EntryBuf(s, f, inner, j)
  BY <1>10 DEF WrittenEntries
<1> HIDE DEF t
<1>12. \E c : PartsFound(B, p, e, 5, n, t, c)
  <2> DEFINE m == 5
  <2>1. m \in {4, 5} /\ Part(B, p, e) = EncHead(m, n) \o FlattenSeq(t) /\ Fine(B)
    BY <1>8
  <2> HIDE DEF m
  <2>2. \E c : PartsFound(B, p, e, m, n, t, c)
    BY ONLY <1>1, <1>5, <1>11, <2>1, FindsParts
  <2> QED
    BY <2>2 DEF m
<1>13. PICK c : PartsFound(B, p, e, 5, n, t, c)
  BY <1>12
<1>14. HeadFound(B, p, e, 5, n, FlattenSeq(t)) /\ SpreadIn(B, BodyOf(B, p), e, t, n, c)
  BY <1>13 DEF PartsFound
<1>15. HeadShape(B, p, e)
  BY <1>5, <1>14, FoundShape
<1>16. MajorOf(B, p) = 5 /\ ArgOf(B, p) = n /\ SlotsOf(B, p) = 2 * n
  BY <1>14 DEF HeadFound, SlotsOf
<1>17. /\ \A j \in 1 .. n + 1 : c[j] \in Nat
       /\ c[1] = BodyOf(B, p) /\ c[n + 1] = e
  BY <1>14 DEF SpreadIn
<1>18. \A j \in 1..n : EntryLies(forest, B, s, f, inner, c, j)
  <2> TAKE j \in 1..n
  <2>1. Fine(B) /\ j \in 1..n
    OBVIOUS
  <2> QED
    BY ONLY <1>5, <1>9, <1>10, <1>11, <1>14, <2>1, EntriesSplit
<1> DEFINE ks == Turns(s, f, n)
           cut == TurnCut(s, f, inner, n, c)
<1>19. Laid(forest, B, inner, 2 * n, ks, cut)
  BY ONLY <1>5, <1>17, <1>18, TurnsLaid
<1>20. cut[1] = BodyOf(B, p) /\ cut[2 * n + 1] = e
  <2>1. TurnShape(s, f, inner, n, c)
    BY ONLY <1>5, TurnFacts
  <2>2. \A j \in 1 .. n + 1 : cut[2 * j - 1] = c[j]
    BY <2>1 DEF TurnShape
  <2>3. 1 \in 1 .. n + 1 /\ n + 1 \in 1 .. n + 1 /\ 2 * 1 - 1 = 1 /\ 2 * (n + 1) - 1 = 2 * n + 1
    BY <1>5
  <2> HIDE DEF cut
  <2>4. cut[1] = c[1]
    BY <2>2, <2>3
  <2>5. cut[2 * n + 1] = c[n + 1]
    BY <2>2, <2>3
  <2> QED
    BY <1>17, <2>4, <2>5
<1>21. /\ \A j \in 1..n : KeyBuf(s, f, inner, j) \in Bytes
  BY <1>10 DEF WrittenEntries
<1>22. /\ \A j, k \in 1..n : f[j] = f[k] => j = k
       /\ \A j \in 1..n : f[j] \in 1..n
       /\ \A i \in 1..n : \E j \in 1..n : f[j] = i
  BY ONLY <1>5, <1>6, <1>21, OrderedOnce
<1>23. Totals(v, 2 * n, ks)
  BY ONLY <1>0, <1>9, <1>22, EntriesTotal DEF v, ks
<1>24. Logical(v) = [map |-> {EntryMeans(ks, j) : j \in 1..n}]
  <2>1. MeansPairs(s, f, n)
    BY ONLY <1>0, <1>9, <1>22, EntriesMean
  <2> QED
    BY <2>1 DEF v, ks, MeansPairs
<1>25. cut = TurnCut(s, f, inner, n, c) /\ Family(forest) /\ Fine(B)
  OBVIOUS
<1> HIDE DEF ks, cut
<1>26. /\ \A j \in 1..n : /\ MajorOf(B, cut[2 * j - 1]) \in {0, 1, 3}
                          /\ MajorOf(B, cut[2 * j - 1]) = 3 <=> MajorOf(B, cut[1]) = 3
       /\ \A j, k \in 1..n : j < k => BytesLess(KeyPart(B, cut, j), KeyPart(B, cut, k))
  BY ONLY <1>5, <1>6, <1>18, <1>25, KeysLie
<1>27. KidsShape(forest, B, v, depth, p, e, ks, cut)
  <2>1. SlotsOf(B, p) \in Nat /\ inner = depth + 1
    BY <1>5, <1>16 DEF inner
  <2> QED
    BY <1>16, <1>19, <1>20, <1>23, <2>1 DEF KidsShape
<1>28. EntriesShape(forest, B, v, depth, p, e, ks, cut)
  BY <1>16, <1>24, <1>26, <1>27 DEF EntriesShape
<1> QED
  BY <1>15, <1>28 DEF v

-----------------------------------------------------------------------------
(***************************************************************************)
(* What has been encoded can be read in one way only.                      *)
(***************************************************************************)
\* Whatever lies in B has one of the shapes.
LEMMA AllShaped ==
  ASSUME NEW forest, Family(forest), NEW B, Fine(B), NEW v, NEW depth, NEW p, NEW e,
         Lies(forest, B, v, depth, p, e)
  PROVE  Shaped(forest, B, v, depth, p, e)
<1>1. v \in forest /\ EncValue(v, depth).err = "none" /\ depth <= MaxDepth
  BY LiesFacts
<1>2. \/ \E n \in Int : v = [int |-> n]
      \/ \E s \in Bytes : v = [bytes |-> s]
      \/ \E s \in Bytes : v = [text |-> s]
      \/ \E x \in BOOLEAN : v = [bool |-> x]
      \/ \E s \in Seq(forest) : v = [items |-> s]
      \/ \E s \in Seq([key : forest, val : forest]) : v = [entries |-> s]
      \/ \E x, y \in Int : v = [scale |-> x, mantissa |-> y]
      \/ \E x, y \in Int : v = [num |-> x, den |-> y]
      \/ DOMAIN v \cap {"int", "bytes", "text", "bool", "items", "entries", "mantissa", "den"} = {}
  BY <1>1 DEF Family, GoTrees
<1>3. DOMAIN v \cap {"int", "bytes", "text", "bool", "items", "entries", "mantissa", "den"} # {}
  BY <1>1, MadeTyped
<1>4. ASSUME NEW n \in Int, v = [int |-> n] PROVE Shaped(forest, B, v, depth, p, e)
  BY <1>4, IntShape DEF Shaped
<1>5. ASSUME NEW s \in Bytes, v = [bytes |-> s] PROVE Shaped(forest, B, v, depth, p, e)
  BY <1>5, BytesShape DEF Shaped
<1>6. ASSUME NEW s \in Bytes, v = [text |-> s] PROVE Shaped(forest, B, v, depth, p, e)
  BY <1>6, TextShape DEF Shaped
<1>7. ASSUME NEW x \in BOOLEAN, v = [bool |-> x] PROVE Shaped(forest, B, v, depth, p, e)
  BY <1>7, BoolShape DEF Shaped
<1>8. ASSUME NEW s \in Seq(forest), v = [items |-> s] PROVE Shaped(forest, B, v, depth, p, e)
  BY <1>8, ItemsLie DEF Shaped
<1>9. ASSUME NEW s \in Seq([key : forest, val : forest]), v = [entries |-> s]
      PROVE  Shaped(forest, B, v, depth, p, e)
  BY <1>9, EntriesLie DEF Shaped
<1>10. ASSUME NEW x \in Int, NEW y \in Int,
              v = [scale |-> x, mantissa |-> y] \/ v = [num |-> x, den |-> y]
       PROVE  Shaped(forest, B, v, depth, p, e)
  BY <1>10, PairLies DEF Shaped
<1> QED
  BY ONLY <1>2, <1>3, <1>4, <1>5, <1>6, <1>7, <1>8, <1>9, <1>10

\* From p on, B can be read in one way only.
Unique(forest, B, p) ==
  \A u, v, d, g, e, h :
    Lies(forest, B, u, d, p, e) /\ Lies(forest, B, v, g, p, h)
    => e = h /\ Logical(u) = Logical(v)

UniqueBehind(forest, B, p) == \A q \in Nat : p < q => Unique(forest, B, q)

\* n elements end where n others do, and mean the same.
SameReading(n, ks, cut, ls, dut) ==
  cut[n + 1] = dut[n + 1] /\ \A j \in 1..n : Logical(ks[j]) = Logical(ls[j])

\* Elements that begin at one place have the same places and the same meanings.
LEMMA SameCuts ==
  ASSUME NEW forest, NEW B, NEW d, NEW g, NEW n \in Nat, NEW ks, NEW cut, NEW ls, NEW dut,
         Laid(forest, B, d, n, ks, cut), Laid(forest, B, g, n, ls, dut),
         NEW p \in Nat, cut[1] = dut[1], p < cut[1],
         UniqueBehind(forest, B, p)
  PROVE  SameReading(n, ks, cut, ls, dut)
<1> DEFINE good(j) == cut[j] = dut[j] /\ p < cut[j]
           S == {j \in 1 .. n + 1 : ~good(j)}
<1>1. /\ \A j \in 1 .. n + 1 : cut[j] \in Nat /\ dut[j] \in Nat
      /\ \A j \in 1..n : /\ Lies(forest, B, ks[j], d, cut[j], cut[j + 1])
                         /\ Lies(forest, B, ls[j], g, dut[j], dut[j + 1])
  BY DEF Laid
<1>2. ASSUME NEW j \in 1..n, good(j)
      PROVE  good(j + 1) /\ Logical(ks[j]) = Logical(ls[j])
  <2> DEFINE q == cut[j]
             e == cut[j + 1]
             h == dut[j + 1]
  <2>1. Lies(forest, B, ks[j], d, q, e) /\ Lies(forest, B, ls[j], g, q, h)
    BY <1>1, <1>2
  <2>2. q \in Nat /\ p < q /\ e \in Nat /\ q < e
    BY <1>1, <1>2, <2>1 DEF Lies
  <2>3. Unique(forest, B, q)
    BY <2>2 DEF UniqueBehind
  <2>4. e = h /\ Logical(ks[j]) = Logical(ls[j])
    BY ONLY <2>1, <2>3 DEF Unique
  <2>5. p < e
    BY ONLY <2>2 , p \in Nat
  <2> QED
    BY <2>4, <2>5
<1>3. good(1)
  OBVIOUS
<1> HIDE DEF good
<1>4. S = {}
  <2> SUFFICES ASSUME S # {} PROVE FALSE
    OBVIOUS
  <2>1. PICK j \in S : \A k \in S : j <= k
    <3>1. S \subseteq Nat
      OBVIOUS
    <3> QED
      BY <3>1, LeastMember
  <2>2. j \in 1 .. n + 1 /\ ~good(j)
    OBVIOUS
  <2>3. j # 1
    BY <1>3, <2>2
  <2>4. j - 1 \in 1..n /\ (j - 1) + 1 = j /\ j - 1 \notin S
    BY <2>1, <2>2, <2>3
  <2>5. good(j - 1)
    BY <2>4
  <2>6. good(j)
    BY <1>2, <2>4, <2>5
  <2> QED
    BY <2>2, <2>6
<1>5. \A j \in 1 .. n + 1 : good(j)
  BY <1>4
<1>6. good(n + 1)
  BY <1>5
<1> QED
  BY <1>2, <1>5, <1>6 DEF good, SameReading

\* The inductive step: B is read in one way from p on, as it is from any later place.
LEMMA ReadOnce ==
  ASSUME NEW forest, Family(forest), NEW B, Fine(B), NEW p \in Nat,
         UniqueBehind(forest, B, p)
  PROVE  Unique(forest, B, p)
<1> SUFFICES ASSUME NEW u, NEW v, NEW d, NEW g, NEW e, NEW h,
                    Lies(forest, B, u, d, p, e), Lies(forest, B, v, g, p, h)
             PROVE  e = h /\ Logical(u) = Logical(v)
  BY DEF Unique
<1>1. Shaped(forest, B, u, d, p, e) /\ Shaped(forest, B, v, g, p, h)
  BY AllShaped
<1> DEFINE bo == BodyOf(B, p)
<1>2. bo \in Nat /\ p < bo
  BY <1>1 DEF Shaped, HeadShape
<1>3. ASSUME NEW ks, NEW cut, NEW ls, NEW dut,
             KidsShape(forest, B, u, d, p, e, ks, cut), KidsShape(forest, B, v, g, p, h, ls, dut)
      PROVE  e = h /\ \A j \in 1..SlotsOf(B, p) : Logical(ks[j]) = Logical(ls[j])
  <2> DEFINE n == SlotsOf(B, p)
             di == d + 1
             gi == g + 1
  <2>1. /\ n \in Nat /\ Laid(forest, B, di, n, ks, cut) /\ Laid(forest, B, gi, n, ls, dut)
        /\ cut[1] = bo /\ dut[1] = bo /\ cut[n + 1] = e /\ dut[n + 1] = h
    BY <1>3 DEF KidsShape
  <2>2. cut[1] = dut[1] /\ p < cut[1] /\ p \in Nat /\ UniqueBehind(forest, B, p)
    BY <1>2, <2>1
  <2> HIDE DEF n, di, gi
  <2>3. SameReading(n, ks, cut, ls, dut)
    BY ONLY <2>1, <2>2, SameCuts
  <2> QED
    BY <2>1, <2>3 DEF n, SameReading
<1>4. CASE MajorOf(B, p) = 4
  <2>1. /\ \E ks, cut : ItemsShape(forest, B, u, d, p, e, ks, cut)
        /\ \E ks, cut : ItemsShape(forest, B, v, g, p, h, ks, cut)
    BY <1>1, <1>4 DEF Shaped, LeafShape, EntriesShape
  <2>2. PICK ks, cut : ItemsShape(forest, B, u, d, p, e, ks, cut)
    BY <2>1
  <2>3. PICK ls, dut : ItemsShape(forest, B, v, g, p, h, ls, dut)
    BY <2>1
  <2>4. e = h /\ \A j \in 1..ArgOf(B, p) : Logical(ks[j]) = Logical(ls[j])
    BY <1>3, <1>4, <2>2, <2>3 DEF ItemsShape, SlotsOf
  <2>5. [j \in 1..ArgOf(B, p) |-> Logical(ks[j])] = [j \in 1..ArgOf(B, p) |-> Logical(ls[j])]
    BY <2>4
  <2> QED
    BY <2>2, <2>3, <2>4, <2>5 DEF ItemsShape
<1>5. CASE MajorOf(B, p) = 5
  <2>1. /\ \E ks, cut : EntriesShape(forest, B, u, d, p, e, ks, cut)
        /\ \E ks, cut : EntriesShape(forest, B, v, g, p, h, ks, cut)
    BY <1>1, <1>5 DEF Shaped, LeafShape, ItemsShape
  <2>2. PICK ks, cut : EntriesShape(forest, B, u, d, p, e, ks, cut)
    BY <2>1
  <2>3. PICK ls, dut : EntriesShape(forest, B, v, g, p, h, ls, dut)
    BY <2>1
  <2> DEFINE n == ArgOf(B, p)
  <2>4. SlotsOf(B, p) = 2 * n /\ n \in Nat
    BY <1>1, <1>5 DEF SlotsOf, Shaped, HeadShape
  <2>5. e = h /\ \A j \in 1 .. 2 * n : Logical(ks[j]) = Logical(ls[j])
    BY <1>3, <2>2, <2>3, <2>4 DEF EntriesShape
  <2>6. \A j \in 1..n : EntryMeans(ks, j) = EntryMeans(ls, j)
    <3> TAKE j \in 1..n
    <3>1. 2 * j - 1 \in 1 .. 2 * n /\ 2 * j \in 1 .. 2 * n
      BY <2>4
    <3> QED
      BY <2>5, <3>1 DEF EntryMeans
  <2>7. {EntryMeans(ks, j) : j \in 1..n} = {EntryMeans(ls, j) : j \in 1..n}
    BY <2>6
  <2>8. /\ Logical(u) = [map |-> {EntryMeans(ks, j) : j \in 1..n}]
        /\ Logical(v) = [map |-> {EntryMeans(ls, j) : j \in 1..n}]
    BY <2>2, <2>3 DEF EntriesShape
  <2> QED
    BY <2>5, <2>7, <2>8
<1>6. CASE MajorOf(B, p) \notin {4, 5}
  <2>1. LeafShape(B, u, p, e) /\ LeafShape(B, v, p, h)
    BY <1>1, <1>6 DEF Shaped, EntriesShape, ItemsShape
  <2> QED
    BY <2>1 DEF LeafShape
<1> QED
  BY <1>4, <1>5, <1>6

-----------------------------------------------------------------------------
\* Nothing lies behind the last byte.
LEMMA NoneBehind ==
  ASSUME NEW forest, NEW B, Fine(B), NEW p \in Nat, Len(B) <= p
  PROVE  Unique(forest, B, p)
<1>1. ASSUME NEW u, NEW d, NEW e, Lies(forest, B, u, d, p, e) PROVE FALSE
  BY <1>1, LiesFacts
<1> QED
  BY <1>1 DEF Unique

\* One reading: where a value begins in B, its end and its meaning are settled.
LEMMA ReadOneWay ==
  ASSUME NEW forest, Family(forest), NEW B, Fine(B), NEW p \in Nat
  PROVE  Unique(forest, B, p)
<1> DEFINE l == Len(B)
           good(k) == Unique(forest, B, l - k)
           S == {k \in 0..l : ~good(k)}
<1>1. l \in Nat
  BY LenProperties DEF Fine, Bytes
<1>2. \A q \in Nat : l <= q => Unique(forest, B, q)
  BY NoneBehind
<1>3. ASSUME NEW k \in 0..l, \A i \in 0..l : i < k => good(i) PROVE good(k)
  <2> DEFINE q == l - k
  <2>1. q \in Nat
    BY <1>1
  <2>2. ASSUME NEW r \in Nat, q < r PROVE Unique(forest, B, r)
    <3>1. CASE l <= r
      BY <1>2, <3>1
    <3>2. CASE r < l
      <4>1. l - r \in 0..l /\ l - r < k /\ l - (l - r) = r
        BY <1>1, <2>2, <3>2
      <4>2. good(l - r)
        BY <1>3, <4>1
      <4> QED
        BY <4>1, <4>2
    <3> QED
      BY <1>1, <3>1, <3>2
  <2>3. Family(forest) /\ Fine(B)
    OBVIOUS
  <2> HIDE DEF q
  <2>4. UniqueBehind(forest, B, q)
    BY <2>2 DEF UniqueBehind
  <2>5. Unique(forest, B, q)
    BY ONLY <2>1, <2>3, <2>4, ReadOnce
  <2> QED
    BY <2>5 DEF q
<1> HIDE DEF good, l
<1>4. S = {}
  <2> SUFFICES ASSUME S # {} PROVE FALSE
    OBVIOUS
  <2>1. PICK k \in S : \A i \in S : k <= i
    <3>1. S \subseteq Nat
      BY <1>1
    <3> QED
      BY <3>1, LeastMember
  <2>2. k \in 0..l /\ ~good(k) /\ \A i \in 0..l : i < k => good(i)
    BY <1>1, <2>1
  <2> QED
    BY <1>3, <2>2
<1>5. CASE p <= l
  <2>1. l - p \in 0..l /\ l - (l - p) = p
    BY <1>1, <1>5
  <2>2. good(l - p)
    BY <1>4, <2>1
  <2> QED
    BY <2>1, <2>2 DEF good
<1> QED
  BY <1>1, <1>2, <1>5

-----------------------------------------------------------------------------
(***************************************************************************)
(* What means the same is written in the same bytes.                       *)
(***************************************************************************)
\* Parts of two byte strings that are one after another, each the same.
InStep(B, C, n, cut, dut) ==
  /\ \A j \in 1 .. n + 1 : cut[j] \in Nat /\ dut[j] \in Nat
  /\ \A j \in 1..n : /\ cut[j] <= cut[j + 1] /\ cut[j + 1] <= Len(B)
                     /\ dut[j] <= dut[j + 1] /\ dut[j + 1] <= Len(C)
                     /\ Part(B, cut[j], cut[j + 1]) = Part(C, dut[j], dut[j + 1])

\* Together they are the same.
LEMMA SameParts ==
  ASSUME NEW B \in Bytes, NEW C \in Bytes, NEW n \in Nat, NEW cut, NEW dut,
         InStep(B, C, n, cut, dut), cut[1] <= Len(B), dut[1] <= Len(C)
  PROVE  Part(B, cut[1], cut[n + 1]) = Part(C, dut[1], dut[n + 1])
<1> DEFINE bo == cut[1]
           c == dut[1]
           good(j) == /\ bo <= cut[j] /\ c <= dut[j] /\ cut[j] <= Len(B) /\ dut[j] <= Len(C)
                      /\ Part(B, bo, cut[j]) = Part(C, c, dut[j])
           S == {j \in 1 .. n + 1 : ~good(j)}
<1>0. Len(B) \in Nat /\ Len(C) \in Nat /\ bo \in Nat /\ c \in Nat
  BY LenProperties DEF Bytes, InStep
<1>1. good(1)
  <2>1. /\ Part(B, bo, bo) \in Bytes /\ Len(Part(B, bo, bo)) = bo - bo
        /\ Part(C, c, c) \in Bytes /\ Len(Part(C, c, c)) = c - c
    <3>1. bo \in Nat /\ bo <= bo /\ bo <= Len(B) /\ B \in Bytes
      BY <1>0
    <3>2. c \in Nat /\ c <= c /\ c <= Len(C) /\ C \in Bytes
      BY <1>0
    <3> HIDE DEF bo, c
    <3>3. Part(B, bo, bo) \in Bytes /\ Len(Part(B, bo, bo)) = bo - bo
      BY ONLY <3>1, PartFacts
    <3>4. Part(C, c, c) \in Bytes /\ Len(Part(C, c, c)) = c - c
      BY ONLY <3>2, PartFacts
    <3> QED
      BY <3>3, <3>4
  <2>2. bo - bo = 0 /\ c - c = 0
    BY <1>0
  <2>3. Part(B, bo, bo) = <<>> /\ Part(C, c, c) = <<>>
    BY <2>1, <2>2, EmptySeq DEF Bytes
  <2> QED
    BY <1>0, <2>3
<1>2. ASSUME NEW j \in 1..n, good(j) PROVE good(j + 1)
  <2> DEFINE m == cut[j]
             e == cut[j + 1]
             o == dut[j]
             h == dut[j + 1]
  <2>1. /\ m \in Nat /\ e \in Nat /\ o \in Nat /\ h \in Nat /\ m <= e /\ o <= h
        /\ e <= Len(B) /\ h <= Len(C) /\ bo <= m /\ c <= o
        /\ Part(B, bo, m) = Part(C, c, o) /\ Part(B, m, e) = Part(C, o, h)
    BY <1>2 DEF InStep
  <2> HIDE DEF m, e, o, h, bo, c
  <2>2. bo <= e /\ c <= h /\ m <= Len(B) /\ o <= Len(C)
    BY ONLY <1>0, <2>1
  <2>a. B \in Bytes /\ C \in Bytes
    OBVIOUS
  <2>bo. /\ bo <= m /\ m <= e /\ e <= Len(B) /\ bo \in Nat /\ m \in Nat /\ e \in Nat
        /\ c <= o /\ o <= h /\ h <= Len(C) /\ c \in Nat /\ o \in Nat /\ h \in Nat
    BY ONLY <1>0, <2>1
  <2>3. Part(B, bo, m) \o Part(B, m, e) = Part(B, bo, e)
    BY ONLY <2>a, <2>bo, PartsJoin
  <2>4. Part(C, c, o) \o Part(C, o, h) = Part(C, c, h)
    BY ONLY <2>a, <2>bo, PartsJoin
  <2> QED
    BY <2>1, <2>2, <2>3, <2>4 DEF e, h
<1> HIDE DEF good
<1>3. S = {}
  <2> SUFFICES ASSUME S # {} PROVE FALSE
    OBVIOUS
  <2>1. PICK j \in S : \A k \in S : j <= k
    <3>1. S \subseteq Nat
      OBVIOUS
    <3> QED
      BY <3>1, LeastMember
  <2>2. j \in 1 .. n + 1 /\ ~good(j)
    OBVIOUS
  <2>3. j # 1
    BY <1>1, <2>2
  <2>4. j - 1 \in 1..n /\ (j - 1) + 1 = j /\ j - 1 \notin S
    BY <2>1, <2>2, <2>3
  <2> QED
    BY <1>2, <2>2, <2>4
<1>4. good(n + 1)
  BY <1>3
<1> QED
  BY <1>4 DEF good

-----------------------------------------------------------------------------
\* The cuts of a row of elements ascend.
LEMMA LaidAscends ==
  ASSUME NEW forest, NEW B, NEW d, NEW n \in Nat, NEW ks, NEW cut, Laid(forest, B, d, n, ks, cut)
  PROVE  \A j \in 1 .. n + 1 : cut[j] \in Nat /\ cut[1] <= cut[j] /\ cut[j] <= cut[n + 1]
<1>1. /\ \A j \in 1 .. n + 1 : cut[j] \in Nat
      /\ \A j \in 1..n : cut[j] < cut[j + 1]
  BY DEF Laid, Lies
<1>2. \A j \in 1 .. n + 1 : cut[1] <= cut[j]
  <2> DEFINE S == {j \in 1 .. n + 1 : ~(cut[1] <= cut[j])}
  <2> SUFFICES ASSUME S # {} PROVE FALSE
    OBVIOUS
  <2>1. PICK j \in S : \A k \in S : j <= k
    <3>1. S \subseteq Nat
      OBVIOUS
    <3> QED
      BY <3>1, LeastMember
  <2>2. j \in 1 .. n + 1 /\ ~(cut[1] <= cut[j])
    OBVIOUS
  <2>3. j # 1
    BY <1>1, <2>2
  <2>4. j - 1 \in 1..n /\ j - 1 \in 1 .. n + 1 /\ (j - 1) + 1 = j /\ j - 1 \notin S
    BY <2>1, <2>2, <2>3
  <2>5. cut[1] <= cut[j - 1] /\ cut[j - 1] < cut[j]
    BY <1>1, <2>4
  <2>6. 1 \in 1 .. n + 1
    OBVIOUS
  <2> QED
    BY <1>1, <2>2, <2>4, <2>5, <2>6
<1>3. \A j \in 1 .. n + 1 : cut[j] <= cut[n + 1]
  <2> DEFINE S == {k \in 0..n : ~(cut[n + 1 - k] <= cut[n + 1])}
  <2>0. S = {}
    <3> SUFFICES ASSUME S # {} PROVE FALSE
      OBVIOUS
    <3>1. PICK k \in S : \A i \in S : k <= i
      <4>1. S \subseteq Nat
        OBVIOUS
      <4> QED
        BY <4>1, LeastMember
    <3>2. k \in 0..n /\ ~(cut[n + 1 - k] <= cut[n + 1])
      OBVIOUS
    <3>3. k # 0
      BY <1>1, <3>2
    <3>4. k - 1 \in 0..n /\ k - 1 \notin S
      BY <3>1, <3>2, <3>3
    <3> DEFINE j == n + 1 - k
    <3>5. j \in 1..n /\ j + 1 \in 1 .. n + 1 /\ j \in 1 .. n + 1 /\ n + 1 - (k - 1) = j + 1
      BY <3>2, <3>3
    <3>6. cut[j + 1] <= cut[n + 1]
      BY <3>4, <3>5
    <3>7. ~(cut[j] <= cut[n + 1])
      BY <3>2
    <3>8. n + 1 \in 1 .. n + 1
      OBVIOUS
    <3> HIDE DEF j
    <3> QED
      BY <1>1, <3>5, <3>6, <3>7, <3>8
  <2> TAKE j \in 1 .. n + 1
  <2>1. n + 1 - j \in 0..n /\ n + 1 - (n + 1 - j) = j
    OBVIOUS
  <2> QED
    BY <2>0, <2>1
<1> QED
  BY <1>1, <1>2, <1>3

\* Two stretches, and what they are made of.
LEMMA SameWhole ==
  ASSUME NEW B \in Bytes, NEW p \in Nat, NEW bo \in Nat, NEW e \in Nat, p <= bo, bo <= e, e <= Len(B),
         NEW C \in Bytes, NEW q \in Nat, NEW c \in Nat, NEW h \in Nat, q <= c, c <= h, h <= Len(C),
         Part(B, p, bo) = Part(C, q, c), Part(B, bo, e) = Part(C, c, h)
  PROVE  Part(B, p, e) = Part(C, q, h)
<1>1. Part(B, p, bo) \o Part(B, bo, e) = Part(B, p, e)
  <2>1. /\ B \in Bytes /\ p \in Nat /\ bo \in Nat /\ e \in Nat
        /\ p <= bo /\ bo <= e /\ e <= Len(B)
    OBVIOUS
  <2> QED
    BY ONLY <2>1, PartsJoin
<1>2. Part(C, q, c) \o Part(C, c, h) = Part(C, q, h)
  <2>1. /\ C \in Bytes /\ q \in Nat /\ c \in Nat /\ h \in Nat
        /\ q <= c /\ c <= h /\ h <= Len(C)
    OBVIOUS
  <2> QED
    BY ONLY <2>1, PartsJoin
<1> QED
  BY <1>1, <1>2

\* u in B and v in C have the same bytes when they mean the same.
SpeltAlike(forest, B, C, k) ==
  \A u, v, d, g, p, e, q, h :
    /\ Lies(forest, B, u, d, p, e) /\ Lies(forest, C, v, g, q, h)
    /\ e - p = k /\ Logical(u) = Logical(v)
    => Part(B, p, e) = Part(C, q, h)
SpeltAlikeBelow(forest, B, C, k) == \A i \in Nat : i < k => SpeltAlike(forest, B, C, i)

\* Heads that announce the same, but for the booleans, have the same bytes.
LEMMA HeadsAlike ==
  ASSUME NEW B, NEW p, NEW e, HeadShape(B, p, e), NEW C, NEW q, NEW h, HeadShape(C, q, h),
         MajorOf(B, p) = MajorOf(C, q), MajorOf(B, p) # 7, ArgOf(B, p) = ArgOf(C, q)
  PROVE  Part(B, p, BodyOf(B, p)) = Part(C, q, BodyOf(C, q))
BY DEF HeadShape

\* A value without elements is written as it means.
LEMMA LeafAlike ==
  ASSUME NEW forest, NEW B, Fine(B), NEW C, Fine(C),
         NEW u, NEW d, NEW p, NEW e, Lies(forest, B, u, d, p, e),
         NEW v, NEW g, NEW q, NEW h, Lies(forest, C, v, g, q, h),
         HeadShape(B, p, e), LeafShape(B, u, p, e), HeadShape(C, q, h), LeafShape(C, v, q, h),
         Logical(u) = Logical(v)
  PROVE  Part(B, p, e) = Part(C, q, h)
<1> DEFINE m == MajorOf(B, p)
           a == ArgOf(B, p)
           bo == BodyOf(B, p)
           s == Part(B, bo, e)
           o == MajorOf(C, q)
           i == ArgOf(C, q)
           c == BodyOf(C, q)
           t == Part(C, c, h)
           x == AiOf(B, p)
           y == AiOf(C, q)
<1>1. /\ B \in Bytes /\ p \in Nat /\ e \in Nat /\ p < e /\ e <= Len(B) /\ Len(B) \in Nat
      /\ C \in Bytes /\ q \in Nat /\ h \in Nat /\ q < h /\ h <= Len(C) /\ Len(C) \in Nat
  BY LiesFacts
<1>2. /\ bo \in Nat /\ p < bo /\ bo <= e /\ (m # 7 => a \in Nat) /\ ShortestHead(B, p)
      /\ c \in Nat /\ q < c /\ c <= h /\ (o # 7 => i \in Nat) /\ ShortestHead(C, q)
  BY DEF HeadShape
<1>3. \/ m = 0 /\ e = bo /\ Logical(u) = [int |-> a]
      \/ m = 1 /\ e = bo /\ Logical(u) = [int |-> -1 - a]
      \/ m = 2 /\ e = bo + a /\ Logical(u) = [bytes |-> s]
      \/ m = 3 /\ e = bo + a /\ Logical(u) = [text |-> s]
      \/ m = 7 /\ e = bo /\ bo = p + 1 /\ Logical(u) = [bool |-> x = SimpleTrue]
  BY DEF LeafShape
<1>4. \/ o = 0 /\ h = c /\ Logical(v) = [int |-> i]
      \/ o = 1 /\ h = c /\ Logical(v) = [int |-> -1 - i]
      \/ o = 2 /\ h = c + i /\ Logical(v) = [bytes |-> t]
      \/ o = 3 /\ h = c + i /\ Logical(v) = [text |-> t]
      \/ o = 7 /\ h = c /\ c = q + 1 /\ Logical(v) = [bool |-> y = SimpleTrue]
  BY DEF LeafShape
<1>5. Len(s) = e - bo /\ Len(t) = h - c
  BY <1>1, <1>2, PartFacts
<1>6. /\ \A z : DOMAIN [int |-> z] = {"int"} /\ [int |-> z].int = z
      /\ \A z : DOMAIN [bytes |-> z] = {"bytes"} /\ [bytes |-> z].bytes = z
      /\ \A z : DOMAIN [text |-> z] = {"text"} /\ [text |-> z].text = z
      /\ \A z : DOMAIN [bool |-> z] = {"bool"} /\ [bool |-> z].bool = z
  OBVIOUS
<1>7. Logical(u) = Logical(v)
  OBVIOUS
<1>8. m = o /\ m # 7 /\ a = i => Part(B, p, bo) = Part(C, q, c)
  BY HeadsAlike
<1>x. m = 7 => x \in {SimpleFalse, SimpleTrue}
  BY <1>2 DEF ShortestHead
<1>y. o = 7 => y \in {SimpleFalse, SimpleTrue}
  BY <1>2 DEF ShortestHead
<1> HIDE DEF m, a, bo, s, o, i, c, t
<1>9. CASE m \in {0, 1}
  <2>1. o \in {0, 1}
    BY ONLY <1>3, <1>4, <1>6, <1>7, <1>9
  <2>2. \/ m = 0 /\ o = 0 /\ [int |-> a] = [int |-> i]
        \/ m = 1 /\ o = 1 /\ [int |-> -1 - a] = [int |-> -1 - i]
        \/ m = 0 /\ o = 1 /\ [int |-> a] = [int |-> -1 - i]
        \/ m = 1 /\ o = 0 /\ [int |-> -1 - a] = [int |-> i]
    BY ONLY <1>3, <1>4, <1>7, <1>9, <2>1
  <2>3. \/ m = 0 /\ o = 0 /\ a = i
        \/ m = 1 /\ o = 1 /\ -1 - a = -1 - i
        \/ m = 0 /\ o = 1 /\ a = -1 - i
        \/ m = 1 /\ o = 0 /\ -1 - a = i
    BY ONLY <1>6, <2>2
  <2>4. a \in Nat /\ i \in Nat /\ e = bo /\ h = c
    BY <1>2, <1>3, <1>4, <1>9, <2>1
  <2>5. m = o /\ a = i /\ m # 7
    BY ONLY <1>9, <2>3, <2>4
  <2> QED
    BY <1>8, <2>4, <2>5
<1>10. CASE m \in {2, 3}
  <2>1. \/ m = 2 /\ o = 2 /\ [bytes |-> s] = [bytes |-> t]
        \/ m = 3 /\ o = 3 /\ [text |-> s] = [text |-> t]
    BY ONLY <1>3, <1>4, <1>6, <1>7, <1>10
  <2>2. m = o /\ s = t /\ m # 7
    BY ONLY <1>6, <1>10, <2>1
  <2>3. e = bo + a /\ h = c + i /\ a \in Nat /\ i \in Nat
    BY <1>2, <1>3, <1>4, <1>10, <2>2
  <2>4. a = i
    BY <1>1, <1>2, <1>5, <2>2, <2>3
  <2>5. Part(B, p, bo) = Part(C, q, c) /\ Part(B, bo, e) = Part(C, c, h)
    BY <1>8, <2>2, <2>4 DEF s, t
  <2>6. p <= bo /\ q <= c
    BY <1>1, <1>2
  <2> QED
    BY ONLY <1>1, <1>2, <2>5, <2>6, SameWhole
<1>11. CASE m = 7
  <2>1. /\ o = 7 /\ e = bo /\ bo = p + 1 /\ h = c /\ c = q + 1
        /\ [bool |-> x = SimpleTrue] = [bool |-> y = SimpleTrue]
    BY ONLY <1>3, <1>4, <1>6, <1>7, <1>11
  <2>2. (x = SimpleTrue) = (y = SimpleTrue)
    BY ONLY <1>6, <2>1
  <2>3. x = y
    BY <1>x, <1>y, <1>11, <2>1, <2>2
  <2>4. B[p + 1] \in Byte /\ C[q + 1] \in Byte
    BY <1>1, ByteType
  <2>5. B[p + 1] = C[q + 1]
    BY <1>11, <2>1, <2>3, <2>4, HeadJoin DEF m, o, MajorOf, AiOf
  <2>6. /\ Part(B, p, e) \in Bytes /\ Len(Part(B, p, e)) = e - p
        /\ \A k \in 1 .. e - p : Part(B, p, e)[k] = B[p + k]
    BY <1>1, PartFacts
  <2>7. /\ Part(C, q, h) \in Bytes /\ Len(Part(C, q, h)) = h - q
        /\ \A k \in 1 .. h - q : Part(C, q, h)[k] = C[q + k]
    BY <1>1, PartFacts
  <2>8. e - p = 1 /\ h - q = 1
    BY <1>1, <2>1
  <2>9. /\ Part(B, p, e) \in Seq(Byte) /\ Part(C, q, h) \in Seq(Byte)
        /\ Len(Part(B, p, e)) = Len(Part(C, q, h))
        /\ \A k \in 1..Len(Part(B, p, e)) : Part(B, p, e)[k] = Part(C, q, h)[k]
    BY <2>5, <2>6, <2>7, <2>8 DEF Bytes
  <2> QED
    BY ONLY <2>9, SeqEqual
<1> QED
  BY <1>3, <1>9, <1>10, <1>11

-----------------------------------------------------------------------------
\* Two containers, and what is known of them.
Twins(forest, B, C, u, d, p, e, v, g, q, h) ==
  /\ Family(forest) /\ Fine(B) /\ Fine(C)
  /\ Lies(forest, B, u, d, p, e) /\ Lies(forest, C, v, g, q, h)
  /\ HeadShape(B, p, e) /\ HeadShape(C, q, h)
  /\ SpeltAlikeBelow(forest, B, C, e - p)

\* Elements that mean the same have the same bytes.
LEMMA KidAlike ==
  ASSUME NEW forest, NEW B, NEW C, NEW u, NEW d, NEW p, NEW e, NEW v, NEW g, NEW q, NEW h,
         Twins(forest, B, C, u, d, p, e, v, g, q, h),
         NEW ks, NEW cut, KidsShape(forest, B, u, d, p, e, ks, cut),
         NEW ls, NEW dut, KidsShape(forest, C, v, g, q, h, ls, dut),
         NEW j \in 1..SlotsOf(B, p), NEW i \in 1..SlotsOf(C, q),
         Logical(ks[j]) = Logical(ls[i])
  PROVE  Part(B, cut[j], cut[j + 1]) = Part(C, dut[i], dut[i + 1])
<1> DEFINE n == SlotsOf(B, p)
           o == SlotsOf(C, q)
           di == d + 1
           gi == g + 1
<1>1. /\ n \in Nat /\ Laid(forest, B, di, n, ks, cut) /\ cut[1] = BodyOf(B, p) /\ cut[n + 1] = e
      /\ o \in Nat /\ Laid(forest, C, gi, o, ls, dut)
  BY DEF KidsShape
<1>2. /\ p \in Nat /\ e \in Nat /\ BodyOf(B, p) \in Nat /\ p < BodyOf(B, p)
      /\ SpeltAlikeBelow(forest, B, C, e - p)
  BY DEF Twins, HeadShape, Lies
<1>3. Lies(forest, B, ks[j], di, cut[j], cut[j + 1]) /\ Lies(forest, C, ls[i], gi, dut[i], dut[i + 1])
  BY <1>1 DEF Laid
<1>4. j \in 1 .. n + 1 /\ j + 1 \in 1 .. n + 1
  BY <1>1
<1> HIDE DEF n, di
<1>5. \A k \in 1 .. n + 1 : cut[k] \in Nat /\ cut[1] <= cut[k] /\ cut[k] <= cut[n + 1]
  BY ONLY <1>1, LaidAscends
<1> DEFINE lo == cut[j]
           hi == cut[j + 1]
<1>6. lo \in Nat /\ hi \in Nat /\ cut[1] <= lo /\ hi <= e /\ lo < hi
  BY <1>1, <1>3, <1>4, <1>5 DEF Lies
<1> HIDE DEF lo, hi
<1>7. hi - lo \in Nat /\ hi - lo < e - p
  BY <1>1, <1>2, <1>6
<1>8. SpeltAlike(forest, B, C, hi - lo)
  BY <1>2, <1>7 DEF SpeltAlikeBelow
<1> QED
  BY <1>3, <1>8 DEF SpeltAlike, lo, hi

\* Elements that are the same in the same order fill the same bytes.
LEMMA KidsAlike ==
  ASSUME NEW forest, NEW B, NEW C, NEW u, NEW d, NEW p, NEW e, NEW v, NEW g, NEW q, NEW h,
         Twins(forest, B, C, u, d, p, e, v, g, q, h),
         NEW ks, NEW cut, KidsShape(forest, B, u, d, p, e, ks, cut),
         NEW ls, NEW dut, KidsShape(forest, C, v, g, q, h, ls, dut),
         NEW n, SlotsOf(B, p) = n, SlotsOf(C, q) = n,
         \A j \in 1..n : Logical(ks[j]) = Logical(ls[j])
  PROVE  Part(B, BodyOf(B, p), e) = Part(C, BodyOf(C, q), h)
<1> DEFINE di == d + 1
           gi == g + 1
<1>1. /\ n \in Nat /\ Laid(forest, B, di, n, ks, cut) /\ cut[1] = BodyOf(B, p) /\ cut[n + 1] = e
      /\ Laid(forest, C, gi, n, ls, dut) /\ dut[1] = BodyOf(C, q) /\ dut[n + 1] = h
  BY DEF KidsShape
<1>2. \A j \in 1..n : Part(B, cut[j], cut[j + 1]) = Part(C, dut[j], dut[j + 1])
  BY KidAlike
<1> HIDE DEF di, gi
<1>3. /\ \A k \in 1 .. n + 1 : cut[k] \in Nat
      /\ \A k \in 1 .. n + 1 : dut[k] \in Nat
  BY <1>1 DEF Laid
<1>4. \A j \in 1..n : /\ cut[j] <= cut[j + 1] /\ cut[j + 1] <= Len(B)
                      /\ dut[j] <= dut[j + 1] /\ dut[j + 1] <= Len(C)
  <2>1. \A j \in 1..n : /\ Lies(forest, B, ks[j], di, cut[j], cut[j + 1])
                         /\ Lies(forest, C, ls[j], gi, dut[j], dut[j + 1])
    BY ONLY <1>1 DEF Laid
  <2> TAKE j \in 1..n
  <2>2. /\ Lies(forest, B, ks[j], di, cut[j], cut[j + 1])
        /\ Lies(forest, C, ls[j], gi, dut[j], dut[j + 1])
    BY <2>1
  <2> QED
    BY ONLY <2>2 DEF Lies
<1>5. B \in Bytes /\ C \in Bytes /\ cut[1] <= Len(B) /\ dut[1] <= Len(C)
  <2>1. /\ B \in Bytes /\ C \in Bytes /\ Len(B) \in Nat /\ Len(C) \in Nat
        /\ e \in Nat /\ e <= Len(B) /\ h \in Nat /\ h <= Len(C)
        /\ BodyOf(B, p) \in Nat /\ BodyOf(B, p) <= e /\ BodyOf(C, q) \in Nat /\ BodyOf(C, q) <= h
    BY LiesFacts DEF Twins, HeadShape
  <2> QED
    BY <1>1, <2>1
<1>6. Part(B, cut[1], cut[n + 1]) = Part(C, dut[1], dut[n + 1])
  <2>1. n \in Nat /\ \A j \in 1 .. n + 1 : cut[j] \in Nat /\ dut[j] \in Nat
    BY <1>1, <1>3
  <2>2. \A j \in 1..n : /\ cut[j] <= cut[j + 1] /\ cut[j + 1] <= Len(B)
                        /\ dut[j] <= dut[j + 1] /\ dut[j + 1] <= Len(C)
                        /\ Part(B, cut[j], cut[j + 1]) = Part(C, dut[j], dut[j + 1])
    BY <1>2, <1>4
  <2>3. InStep(B, C, n, cut, dut)
    BY <2>1, <2>2 DEF InStep
  <2> QED
    BY ONLY <1>5, <2>1, <2>3, SameParts
<1> QED
  BY <1>1, <1>6

\* Arrays that mean the same have the same bytes.
LEMMA ItemsAlike ==
  ASSUME NEW forest, NEW B, NEW C, NEW u, NEW d, NEW p, NEW e, NEW v, NEW g, NEW q, NEW h,
         Twins(forest, B, C, u, d, p, e, v, g, q, h),
         NEW ks, NEW cut, ItemsShape(forest, B, u, d, p, e, ks, cut),
         NEW ls, NEW dut, ItemsShape(forest, C, v, g, q, h, ls, dut),
         Logical(u) = Logical(v)
  PROVE  Part(B, p, e) = Part(C, q, h)
<1> DEFINE n == ArgOf(B, p)
           o == ArgOf(C, q)
           bo == BodyOf(B, p)
           c == BodyOf(C, q)
<1>1. /\ SlotsOf(B, p) = n /\ SlotsOf(C, q) = o /\ n \in Nat /\ o \in Nat
      /\ MajorOf(B, p) = 4 /\ MajorOf(C, q) = 4
      /\ KidsShape(forest, B, u, d, p, e, ks, cut) /\ KidsShape(forest, C, v, g, q, h, ls, dut)
  BY DEF ItemsShape, KidsShape, SlotsOf
<1>2. n = o /\ \A j \in 1..n : Logical(ks[j]) = Logical(ls[j])
  <2> DEFINE f == [j \in 1..n |-> Logical(ks[j])]
             r == [j \in 1..o |-> Logical(ls[j])]
  <2>1. Logical(u) = [seq |-> f] /\ Logical(v) = [seq |-> r]
    BY DEF ItemsShape
  <2>2. f = r
    <3>1. [seq |-> f].seq = f /\ [seq |-> r].seq = r
      OBVIOUS
    <3> HIDE DEF f, r
    <3> QED
      BY <2>1, <3>1
  <2>3. /\ DOMAIN f = 1..n /\ DOMAIN r = 1..o
        /\ \A j \in 1..n : f[j] = Logical(ks[j])
        /\ \A j \in 1..o : r[j] = Logical(ls[j])
    OBVIOUS
  <2> HIDE DEF f, r
  <2>4. 1..n = 1..o
    BY <2>2, <2>3
  <2>5. n = o
    BY <1>1, <2>4
  <2> QED
    BY <2>2, <2>3, <2>5
<1>3. /\ B \in Bytes /\ p \in Nat /\ e \in Nat /\ e <= Len(B) /\ Len(B) \in Nat
      /\ C \in Bytes /\ q \in Nat /\ h \in Nat /\ h <= Len(C) /\ Len(C) \in Nat
      /\ bo \in Nat /\ p <= bo /\ bo <= e /\ c \in Nat /\ q <= c /\ c <= h
  BY LiesFacts DEF Twins, HeadShape
<1>4. Part(B, p, bo) = Part(C, q, c)
  <2>1. HeadShape(B, p, e) /\ HeadShape(C, q, h)
    BY DEF Twins
  <2> QED
    BY <1>1, <1>2, <2>1, HeadsAlike
<1>5. Part(B, bo, e) = Part(C, c, h)
  BY <1>1, <1>2, <1>3, KidsAlike
<1> HIDE DEF bo, c
<1> QED
  BY ONLY <1>3, <1>4, <1>5, SameWhole

-----------------------------------------------------------------------------
\* The slots of a map, and the bytes of its keys.
KeyRow(B, p, cut, n) ==
  /\ SlotsOf(B, p) = 2 * n
  /\ \A j \in 1..n : /\ KeyPart(B, cut, j) \in Bytes
                     /\ 2 * j - 1 \in 1 .. 2 * n /\ 2 * j \in 1 .. 2 * n

\* The keys of an entry lie in their container.
LEMMA MapKeyRow ==
  ASSUME NEW forest, NEW B, Fine(B), NEW v, NEW d, NEW p, NEW e, NEW ks, NEW cut,
         EntriesShape(forest, B, v, d, p, e, ks, cut), NEW n, n = ArgOf(B, p), n \in Nat
  PROVE  KeyRow(B, p, cut, n)
<1>1. MajorOf(B, p) = 5 /\ KidsShape(forest, B, v, d, p, e, ks, cut)
  BY DEF EntriesShape
<1>2. SlotsOf(B, p) = 2 * n
  BY <1>1 DEF SlotsOf
<1>3. \A j \in 1..n : 2 * j - 1 \in 1 .. 2 * n /\ 2 * j \in 1 .. 2 * n /\ (2 * j - 1) + 1 = 2 * j
  OBVIOUS
<1>4. ASSUME NEW j \in 1..n PROVE KeyPart(B, cut, j) \in Bytes
  <2> DEFINE lo == cut[2 * j - 1]
             hi == cut[2 * j]
  <2>1. Lies(forest, B, ks[2 * j - 1], d + 1, lo, hi)
    BY <1>1, <1>2, <1>3, <1>4 DEF KidsShape, Laid
  <2>2. /\ lo \in Nat /\ hi \in Nat /\ lo <= hi /\ hi <= Len(B) /\ B \in Bytes
    BY <2>1 DEF Lies, Fine
  <2> HIDE DEF lo, hi
  <2>3. Part(B, lo, hi) \in Bytes
    BY ONLY <2>2, PartFacts
  <2> QED
    BY <2>3 DEF KeyPart, lo, hi
<1> QED
  BY ONLY <1>2, <1>3, <1>4 DEF KeyRow

\* Every key of the one map is a key of the other, with the same value.
Mirrors(B, ks, cut, n, C, ls, dut, o) ==
  \A j \in 1..n : \E i \in 1..o : /\ KeyPart(B, cut, j) = KeyPart(C, dut, i)
                                  /\ Logical(ks[2 * j]) = Logical(ls[2 * i])
                                  /\ Logical(ks[2 * j - 1]) = Logical(ls[2 * i - 1])

\* Maps with the same pairs mirror each other.
LEMMA MapsMirror ==
  ASSUME NEW forest, NEW B, NEW C, NEW u, NEW d, NEW p, NEW e, NEW v, NEW g, NEW q, NEW h,
         Twins(forest, B, C, u, d, p, e, v, g, q, h),
         NEW ks, NEW cut, EntriesShape(forest, B, u, d, p, e, ks, cut),
         NEW ls, NEW dut, EntriesShape(forest, C, v, g, q, h, ls, dut),
         NEW n \in Nat, n = ArgOf(B, p), NEW o \in Nat, o = ArgOf(C, q),
         Logical(u) = Logical(v)
  PROVE  Mirrors(B, ks, cut, n, C, ls, dut, o) /\ Mirrors(C, ls, dut, o, B, ks, cut, n)
<1> DEFINE S == {EntryMeans(ks, j) : j \in 1..n}
           T == {EntryMeans(ls, i) : i \in 1..o}
<1>1. Logical(u) = [map |-> S] /\ Logical(v) = [map |-> T]
  BY DEF EntriesShape
<1>2. S = T
  <2>1. [map |-> S].map = S /\ [map |-> T].map = T
    OBVIOUS
  <2> HIDE DEF S, T
  <2> QED
    BY <1>1, <2>1
<1>3. /\ \A j \in 1..n : \E i \in 1..o : EntryMeans(ks, j) = EntryMeans(ls, i)
      /\ \A i \in 1..o : \E j \in 1..n : EntryMeans(ks, j) = EntryMeans(ls, i)
  BY <1>2
<1>4. ASSUME NEW j \in 1..n, NEW i \in 1..o, EntryMeans(ks, j) = EntryMeans(ls, i)
      PROVE  /\ KeyPart(B, cut, j) = KeyPart(C, dut, i)
             /\ Logical(ks[2 * j]) = Logical(ls[2 * i])
             /\ Logical(ks[2 * j - 1]) = Logical(ls[2 * i - 1])
  <2>1. /\ Logical(ks[2 * j]) = Logical(ls[2 * i])
        /\ Logical(ks[2 * j - 1]) = Logical(ls[2 * i - 1])
    BY <1>4 DEF EntryMeans
  <2>2. Fine(B) /\ Fine(C)
    BY DEF Twins
  <2> DEFINE x == 2 * j - 1
             y == 2 * i - 1
  <2>3. x \in 1..SlotsOf(B, p) /\ x + 1 = 2 * j
    <3>1. KeyRow(B, p, cut, n)
      BY <2>2, MapKeyRow
    <3>2. x + 1 = 2 * j
      BY <1>4
    <3> QED
      BY <1>4, <3>1, <3>2 DEF KeyRow
  <2>4. y \in 1..SlotsOf(C, q) /\ y + 1 = 2 * i
    <3>1. KeyRow(C, q, dut, o)
      BY <2>2, MapKeyRow
    <3>2. y + 1 = 2 * i
      BY <1>4
    <3> QED
      BY <1>4, <3>1, <3>2 DEF KeyRow
  <2>5. /\ KidsShape(forest, B, u, d, p, e, ks, cut) /\ KidsShape(forest, C, v, g, q, h, ls, dut)
        /\ Twins(forest, B, C, u, d, p, e, v, g, q, h)
    BY DEF EntriesShape
  <2>6. Logical(ks[x]) = Logical(ls[y])
    BY <2>1
  <2>7. cut[2 * j - 1] = cut[x] /\ dut[2 * i - 1] = dut[y]
    OBVIOUS
  <2> HIDE DEF x, y
  <2>8. Part(B, cut[x], cut[x + 1]) = Part(C, dut[y], dut[y + 1])
    BY ONLY <2>3, <2>4, <2>5, <2>6, KidAlike
  <2>9. Part(B, cut[x], cut[2 * j]) = Part(C, dut[y], dut[2 * i])
    BY <2>3, <2>4, <2>8
  <2>10. KeyPart(B, cut, j) = KeyPart(C, dut, i)
    BY <2>7, <2>9 DEF KeyPart
  <2> QED
    BY <2>1, <2>10
<1>5. Mirrors(B, ks, cut, n, C, ls, dut, o)
  BY <1>3, <1>4 DEF Mirrors
<1>6. Mirrors(C, ls, dut, o, B, ks, cut, n)
  <2> SUFFICES ASSUME NEW i \in 1..o
               PROVE  \E j \in 1..n : /\ KeyPart(C, dut, i) = KeyPart(B, cut, j)
                                      /\ Logical(ls[2 * i]) = Logical(ks[2 * j])
                                      /\ Logical(ls[2 * i - 1]) = Logical(ks[2 * j - 1])
    BY DEF Mirrors
  <2>1. PICK j \in 1..n : EntryMeans(ks, j) = EntryMeans(ls, i)
    BY <1>3
  <2> QED
    BY <1>4, <2>1
<1> QED
  BY <1>5, <1>6

\* Keys in ascending order, that are also those of another row.
RowOfKeys(B, cut, n) ==
  /\ \A j \in 1..n : KeyPart(B, cut, j) \in Bytes
  /\ \A j, k \in 1..n : j < k => BytesLess(KeyPart(B, cut, j), KeyPart(B, cut, k))

\* Rows that mirror each other have the same keys at the same places.
LEMMA RowsMatch ==
  ASSUME NEW B, NEW ks, NEW cut, NEW n \in Nat, NEW C, NEW ls, NEW dut, NEW o \in Nat,
         RowOfKeys(B, cut, n), RowOfKeys(C, dut, o),
         Mirrors(B, ks, cut, n, C, ls, dut, o), Mirrors(C, ls, dut, o, B, ks, cut, n)
  PROVE  /\ n = o
         /\ \A j \in 1..n : /\ Logical(ks[2 * j]) = Logical(ls[2 * j])
                            /\ Logical(ks[2 * j - 1]) = Logical(ls[2 * j - 1])
<1> DEFINE I == 1..n
           J == 1..o
           K == [j \in I |-> KeyPart(B, cut, j)]
           L == [i \in J |-> KeyPart(C, dut, i)]
<1>1. /\ I \in SUBSET Nat /\ J \in SUBSET Nat
      /\ \A i \in I, j \in J : i <= j => i \in J
      /\ \A i \in J, j \in I : i <= j => i \in I
  OBVIOUS
<1>2. /\ \A j \in I : K[j] \in Bytes
      /\ \A j, k \in I : j < k => BytesLess(K[j], K[k])
  BY DEF RowOfKeys
<1>3. /\ \A i \in J : L[i] \in Bytes
      /\ \A i, k \in J : i < k => BytesLess(L[i], L[k])
  BY DEF RowOfKeys
<1>4. \A j \in I : \E i \in J : /\ K[j] = L[i] /\ Logical(ks[2 * j]) = Logical(ls[2 * i])
                                /\ Logical(ks[2 * j - 1]) = Logical(ls[2 * i - 1])
  BY DEF Mirrors
<1>5. \A i \in J : \E j \in I : L[i] = K[j]
  BY DEF Mirrors
<1>6. \A i \in J : i \in Nat
  OBVIOUS
<1>7. n \in Nat /\ o \in Nat /\ (I = J => n = o)
  <2>1. 1..n = 1..o => n = o
    OBVIOUS
  <2> QED
    BY <2>1
<1> HIDE DEF I, J, K, L
<1>8. Climbs(I, K) /\ Climbs(J, L)
  BY <1>2, <1>3 DEF Climbs
<1>9. Within(I, K, J, L)
  BY <1>1, <1>2, <1>4 DEF Within
<1>10. Within(J, L, I, K)
  BY <1>1, <1>3, <1>5 DEF Within
<1>11. I = J /\ \A i \in I : K[i] = L[i]
  BY ONLY <1>1, <1>8, <1>9, <1>10, OneOrder
<1>12. ASSUME NEW i \in J, NEW k \in J, L[i] = L[k] PROVE i = k
  <2>1. ~(i < k) /\ ~(k < i)
    BY <1>3, <1>12, NeverBeforeItself
  <2> QED
    BY <1>6, <2>1
<1>13. ASSUME NEW j \in I
       PROVE  /\ Logical(ks[2 * j]) = Logical(ls[2 * j])
              /\ Logical(ks[2 * j - 1]) = Logical(ls[2 * j - 1])
  <2>1. PICK i \in J : /\ K[j] = L[i] /\ Logical(ks[2 * j]) = Logical(ls[2 * i])
                       /\ Logical(ks[2 * j - 1]) = Logical(ls[2 * i - 1])
    BY <1>4
  <2>2. i = j
    BY <1>11, <1>12, <2>1
  <2> QED
    BY <2>1, <2>2
<1> QED
  BY <1>7, <1>11, <1>13 DEF I

\* Maps that mean the same have the same bytes.
LEMMA EntriesAlike ==
  ASSUME NEW forest, NEW B, NEW C, NEW u, NEW d, NEW p, NEW e, NEW v, NEW g, NEW q, NEW h,
         Twins(forest, B, C, u, d, p, e, v, g, q, h),
         NEW ks, NEW cut, EntriesShape(forest, B, u, d, p, e, ks, cut),
         NEW ls, NEW dut, EntriesShape(forest, C, v, g, q, h, ls, dut),
         Logical(u) = Logical(v)
  PROVE  Part(B, p, e) = Part(C, q, h)
<1> DEFINE n == ArgOf(B, p)
           o == ArgOf(C, q)
           bo == BodyOf(B, p)
           c == BodyOf(C, q)
<1>1. /\ n \in Nat /\ o \in Nat /\ MajorOf(B, p) = 5 /\ MajorOf(C, q) = 5
      /\ KidsShape(forest, B, u, d, p, e, ks, cut) /\ KidsShape(forest, C, v, g, q, h, ls, dut)
      /\ Fine(B) /\ Fine(C)
  BY DEF EntriesShape, Twins, HeadShape
<1>2. Mirrors(B, ks, cut, n, C, ls, dut, o) /\ Mirrors(C, ls, dut, o, B, ks, cut, n)
  BY <1>1, MapsMirror
<1>3. RowOfKeys(B, cut, n) /\ SlotsOf(B, p) = 2 * n
  <2>1. KeyRow(B, p, cut, n)
    BY <1>1, MapKeyRow
  <2>2. \A j, k \in 1..n : j < k => BytesLess(KeyPart(B, cut, j), KeyPart(B, cut, k))
    BY DEF EntriesShape
  <2> QED
    BY <2>1, <2>2 DEF RowOfKeys, KeyRow
<1>4. RowOfKeys(C, dut, o) /\ SlotsOf(C, q) = 2 * o
  <2>1. KeyRow(C, q, dut, o)
    BY <1>1, MapKeyRow
  <2>2. \A j, k \in 1..o : j < k => BytesLess(KeyPart(C, dut, j), KeyPart(C, dut, k))
    BY DEF EntriesShape
  <2> QED
    BY <2>1, <2>2 DEF RowOfKeys, KeyRow
<1>5. /\ B \in Bytes /\ p \in Nat /\ e \in Nat /\ e <= Len(B) /\ Len(B) \in Nat
      /\ C \in Bytes /\ q \in Nat /\ h \in Nat /\ h <= Len(C) /\ Len(C) \in Nat
      /\ bo \in Nat /\ p <= bo /\ bo <= e /\ c \in Nat /\ q <= c /\ c <= h
  BY LiesFacts DEF Twins, HeadShape
<1>6. HeadShape(B, p, e) /\ HeadShape(C, q, h) /\ Twins(forest, B, C, u, d, p, e, v, g, q, h)
  BY DEF Twins
<1>7. n = o => Part(B, p, bo) = Part(C, q, c)
  BY <1>1, <1>6, HeadsAlike
<1> HIDE DEF n, o, bo, c
<1>8. /\ n = o
      /\ \A j \in 1..n : /\ Logical(ks[2 * j]) = Logical(ls[2 * j])
                         /\ Logical(ks[2 * j - 1]) = Logical(ls[2 * j - 1])
  BY ONLY <1>1, <1>2, <1>3, <1>4, RowsMatch
<1> DEFINE m == 2 * n
<1>9. \A x \in 1..m : Logical(ks[x]) = Logical(ls[x])
  <2> TAKE x \in 1..m
  <2>1. \E j \in 1..n : x = 2 * j - 1 \/ x = 2 * j
    <3>1. Half(x) \in Nat \ {0} /\ (x = 2 * Half(x) - 1 \/ x = 2 * Half(x))
      BY <1>1, HalfFacts
    <3>2. Half(x) \in 1..n
      BY <1>1, <3>1
    <3> QED
      BY <3>1, <3>2
  <2> QED
    BY <1>8, <2>1
<1>10. SlotsOf(B, p) = m /\ SlotsOf(C, q) = m
  BY <1>3, <1>4, <1>8
<1> HIDE DEF m
<1>11. Part(B, bo, e) = Part(C, c, h)
  BY ONLY <1>1, <1>6, <1>9, <1>10, KidsAlike DEF bo, c
<1>12. Part(B, p, bo) = Part(C, q, c)
  BY <1>7, <1>8
<1> QED
  BY ONLY <1>5, <1>11, <1>12, SameWhole

-----------------------------------------------------------------------------
\* The kind of a value shows in its meaning.
LEMMA MeaningKinds ==
  ASSUME NEW forest, NEW B, NEW u, NEW d, NEW p, NEW e
  PROVE  /\ LeafShape(B, u, p, e) =>
              DOMAIN Logical(u) \in {{"int"}, {"bytes"}, {"text"}, {"bool"}}
         /\ (\E ks, cut : ItemsShape(forest, B, u, d, p, e, ks, cut)) => DOMAIN Logical(u) = {"seq"}
         /\ (\E ks, cut : EntriesShape(forest, B, u, d, p, e, ks, cut)) => DOMAIN Logical(u) = {"map"}
<1>1. LeafShape(B, u, p, e) => DOMAIN Logical(u) \in {{"int"}, {"bytes"}, {"text"}, {"bool"}}
  <2>1. /\ \A z : DOMAIN [int |-> z] = {"int"}
        /\ \A z : DOMAIN [bytes |-> z] = {"bytes"}
        /\ \A z : DOMAIN [text |-> z] = {"text"}
        /\ \A z : DOMAIN [bool |-> z] = {"bool"}
    OBVIOUS
  <2>2. LeafShape(B, u, p, e) => \/ \E z : Logical(u) = [int |-> z]
                                 \/ \E z : Logical(u) = [bytes |-> z]
                                 \/ \E z : Logical(u) = [text |-> z]
                                 \/ \E z : Logical(u) = [bool |-> z]
    BY DEF LeafShape
  <2> QED
    BY ONLY <2>1, <2>2
<1>2. ASSUME NEW ks, NEW cut, ItemsShape(forest, B, u, d, p, e, ks, cut)
      PROVE  DOMAIN Logical(u) = {"seq"}
  BY <1>2 DEF ItemsShape
<1>3. ASSUME NEW ks, NEW cut, EntriesShape(forest, B, u, d, p, e, ks, cut)
      PROVE  DOMAIN Logical(u) = {"map"}
  BY <1>3 DEF EntriesShape
<1> QED
  BY <1>1, <1>2, <1>3

\* The inductive step: what is true of shorter encodings is true of this one.
LEMMA AlikeStep ==
  ASSUME NEW forest, Family(forest), NEW B, Fine(B), NEW C, Fine(C),
         NEW k \in Nat, SpeltAlikeBelow(forest, B, C, k)
  PROVE  SpeltAlike(forest, B, C, k)
<1> SUFFICES ASSUME NEW u, NEW v, NEW d, NEW g, NEW p, NEW e, NEW q, NEW h,
                    Lies(forest, B, u, d, p, e), Lies(forest, C, v, g, q, h),
                    e - p = k, Logical(u) = Logical(v)
             PROVE  Part(B, p, e) = Part(C, q, h)
  BY DEF SpeltAlike
<1>1. Shaped(forest, B, u, d, p, e)
  BY AllShaped
<1>2. Shaped(forest, C, v, g, q, h)
  BY AllShaped
<1>3. HeadShape(B, p, e) /\ HeadShape(C, q, h)
  BY <1>1, <1>2 DEF Shaped
<1>4. Twins(forest, B, C, u, d, p, e, v, g, q, h)
  BY <1>3 DEF Twins
<1>5. /\ LeafShape(B, u, p, e) => DOMAIN Logical(u) \in {{"int"}, {"bytes"}, {"text"}, {"bool"}}
      /\ (\E ks, cut : ItemsShape(forest, B, u, d, p, e, ks, cut)) => DOMAIN Logical(u) = {"seq"}
      /\ (\E ks, cut : EntriesShape(forest, B, u, d, p, e, ks, cut)) => DOMAIN Logical(u) = {"map"}
  BY MeaningKinds
<1>6. /\ LeafShape(C, v, q, h) => DOMAIN Logical(v) \in {{"int"}, {"bytes"}, {"text"}, {"bool"}}
      /\ (\E ks, cut : ItemsShape(forest, C, v, g, q, h, ks, cut)) => DOMAIN Logical(v) = {"seq"}
      /\ (\E ks, cut : EntriesShape(forest, C, v, g, q, h, ks, cut)) => DOMAIN Logical(v) = {"map"}
  BY MeaningKinds
<1>a. Logical(u) = Logical(v)
  OBVIOUS
<1>7. /\ \/ LeafShape(B, u, p, e)
         \/ \E ks, cut : ItemsShape(forest, B, u, d, p, e, ks, cut)
         \/ \E ks, cut : EntriesShape(forest, B, u, d, p, e, ks, cut)
      /\ \/ LeafShape(C, v, q, h)
         \/ \E ks, cut : ItemsShape(forest, C, v, g, q, h, ks, cut)
         \/ \E ks, cut : EntriesShape(forest, C, v, g, q, h, ks, cut)
  BY <1>1, <1>2 DEF Shaped
<1>8. \/ LeafShape(B, u, p, e) /\ LeafShape(C, v, q, h)
      \/ /\ \E ks, cut : ItemsShape(forest, B, u, d, p, e, ks, cut)
         /\ \E ks, cut : ItemsShape(forest, C, v, g, q, h, ks, cut)
      \/ /\ \E ks, cut : EntriesShape(forest, B, u, d, p, e, ks, cut)
         /\ \E ks, cut : EntriesShape(forest, C, v, g, q, h, ks, cut)
  BY ONLY <1>5, <1>6, <1>7, <1>a
<1>9. CASE LeafShape(B, u, p, e) /\ LeafShape(C, v, q, h)
  BY <1>3, <1>9, LeafAlike
<1>10. ASSUME NEW ks, NEW cut, ItemsShape(forest, B, u, d, p, e, ks, cut),
              NEW ls, NEW dut, ItemsShape(forest, C, v, g, q, h, ls, dut)
       PROVE  Part(B, p, e) = Part(C, q, h)
  BY ONLY <1>4, <1>10, <1>a, ItemsAlike
<1>11. ASSUME NEW ks, NEW cut, EntriesShape(forest, B, u, d, p, e, ks, cut),
              NEW ls, NEW dut, EntriesShape(forest, C, v, g, q, h, ls, dut)
       PROVE  Part(B, p, e) = Part(C, q, h)
  BY ONLY <1>4, <1>11, <1>a, EntriesAlike
<1> QED
  BY ONLY <1>8, <1>9, <1>10, <1>11

\* Equal meanings have equal bytes, wherever the two values lie.
LEMMA OneForMeaning ==
  ASSUME NEW forest, Family(forest), NEW B, Fine(B), NEW C, Fine(C)
  PROVE  \A k \in Nat : SpeltAlike(forest, B, C, k)
<1> DEFINE good(k) == SpeltAlike(forest, B, C, k)
           S == {k \in Nat : ~good(k)}
<1>1. ASSUME NEW k \in Nat, \A i \in Nat : i < k => good(i) PROVE good(k)
  BY <1>1, AlikeStep DEF SpeltAlikeBelow
<1> HIDE DEF good
<1>2. S = {}
  <2> SUFFICES ASSUME S # {} PROVE FALSE
    OBVIOUS
  <2>1. PICK k \in S : \A i \in S : k <= i
    BY LeastMember
  <2>2. k \in Nat /\ ~good(k) /\ \A i \in Nat : i < k => good(i)
    BY <2>1
  <2> QED
    BY <1>1, <2>2
<1>3. \A k \in Nat : good(k)
  BY <1>2
<1> QED
  BY <1>3 DEF good

-----------------------------------------------------------------------------
(***************************************************************************)
(* The artifacts of a family of values.                                    *)
(***************************************************************************)
\* The author's values are of the family, and no artifact is longer than a
\* Go slice can be, with the byte that may follow it.
Authors(forest) ==
  /\ Family(forest) /\ Values \subseteq forest
  /\ \A a \in Artifacts : Len(a.buf) + 1 < IntHalf

\* An artifact lies on the whole of its bytes.
LEMMA ArtifactLies ==
  ASSUME NEW forest, Authors(forest), NEW a \in Artifacts
  PROVE  /\ a.val \in Values /\ a.val \in forest /\ a.means = Logical(a.val)
         /\ Fine(a.buf) /\ Len(a.buf) \in Nat /\ Len(a.buf) >= 1
         /\ Lies(forest, a.buf, a.val, 0, 0, Len(a.buf))
<1>1. PICK v \in Values : Encodable(v) /\ a = [val |-> v, buf |-> Encode(v).buf, means |-> Logical(v)]
  BY DEF Artifacts
<1>2. a.val = v /\ a.buf = Encode(v).buf /\ a.means = Logical(v)
  BY <1>1
<1>3. /\ v \in forest /\ Forest(forest) /\ Recurses(forest) /\ GoTrees(forest)
      /\ IntHalf \in Nat /\ Len(a.buf) + 1 < IntHalf
  BY IntAssumption DEF Authors, Family
<1> DEFINE zero == 0
<1>4. zero \in Nat /\ EncValue(v, zero).err = "none" /\ a.buf = EncValue(v, zero).buf
  BY <1>1, <1>2 DEF Encodable, Encode
<1> HIDE DEF zero
<1>5. Bytely(forest, zero)
  BY ONLY <1>3, <1>4, BytesWritten
<1>6. a.buf \in Bytes /\ Len(a.buf) >= 1
  BY <1>3, <1>4, <1>5 DEF Bytely
<1>7. Len(a.buf) \in Nat
  BY <1>6, LenProperties DEF Bytes
<1>8. Fine(a.buf)
  BY <1>3, <1>6, <1>7 DEF Fine
<1>9. Part(a.buf, 0, Len(a.buf)) = a.buf
  BY <1>6, WholePart
<1>10. Lies(forest, a.buf, a.val, 0, 0, Len(a.buf))
  BY <1>2, <1>3, <1>4, <1>6, <1>7, <1>9 DEF Lies, zero
<1> QED
  BY <1>2, <1>3, <1>6, <1>7, <1>8, <1>10

\* Same bytes, same meaning; same meaning, same bytes.
LEMMA FormsAndMeanings ==
  ASSUME NEW forest, Authors(forest), NEW a \in Artifacts, NEW c \in Artifacts
  PROVE  a.buf = c.buf <=> a.means = c.means
<1> DEFINE zero == 0
           B == a.buf
           C == c.buf
           u == a.val
           v == c.val
           e == Len(B)
           h == Len(C)
<1>1. /\ a.means = Logical(u) /\ Fine(B) /\ e \in Nat /\ Lies(forest, B, u, zero, zero, e)
  BY ArtifactLies
<1>2. /\ c.means = Logical(v) /\ Fine(C) /\ h \in Nat /\ Lies(forest, C, v, zero, zero, h)
  BY ArtifactLies
<1>3. Family(forest) /\ zero \in Nat
  BY DEF Authors
<1>4. e - zero \in Nat /\ B \in Bytes /\ C \in Bytes
  BY <1>1, <1>2 DEF Fine
<1>5. Part(B, zero, e) = B /\ Part(C, zero, h) = C
  BY <1>4, WholePart
<1>6. ASSUME B = C PROVE a.means = c.means
  <2>1. e = h
    BY <1>6
  <2>2. Lies(forest, B, v, zero, zero, h)
    BY <1>2, <1>6
  <2> HIDE DEF zero, B, C, u, v, e, h
  <2>3. Unique(forest, B, zero)
    BY ONLY <1>1, <1>3, ReadOneWay
  <2> QED
    BY <1>1, <1>2, <2>2, <2>3 DEF Unique
<1>7. ASSUME a.means = c.means PROVE B = C
  <2> HIDE DEF zero, B, C, u, v, e, h
  <2>1. \A k \in Nat : SpeltAlike(forest, B, C, k)
    BY ONLY <1>1, <1>2, <1>3, OneForMeaning
  <2>2. SpeltAlike(forest, B, C, e - zero)
    BY <1>4, <2>1
  <2>a. Logical(u) = Logical(v)
    BY ONLY <1>1, <1>2, <1>7
  <2>3. Part(B, zero, e) = Part(C, zero, h)
    BY ONLY <1>1, <1>2, <2>2, <2>a DEF SpeltAlike
  <2> QED
    BY <1>5, <2>3
<1> QED
  BY <1>6, <1>7

\* Two values have the same bytes exactly when they mean the same: however its
\* maps were built, a value has one artifact, and an artifact has one meaning.
THEOREM ArtifactsAreSingle ==
  ASSUME NEW CONSTANT forest, Authors(forest)
  PROVE  RTSpec => []SingleForm
<1>1. RTInit => sent \in Artifacts
  BY DEF RTInit
<1>2. sent \in Artifacts /\ [RTNext]_rtVars => (sent \in Artifacts)'
  BY DEF RTNext, rtVars
<1>3. sent \in Artifacts => SingleForm
  BY FormsAndMeanings DEF SingleForm
<1> QED
  BY <1>1, <1>2, <1>3, PTL DEF RTSpec

-----------------------------------------------------------------------------
(***************************************************************************)
(* What has been encoded can be marked, value by value: it is an artifact. *)
(***************************************************************************)
\* A marking of the value that lies in B between p and e.
MarkedAs(B, w, v, depth, p, e) ==
  /\ w \in [DOMAIN w -> Mark] /\ DOMAIN w \subseteq p .. e - 1
  /\ p \in DOMAIN w /\ w[p].end = e /\ w[p].height = MaxDepth - depth
  /\ \A q \in DOMAIN w : ShortestHead(B, q) /\ RightContent(B, w, q)
  /\ AtMost(DOMAIN w, ItemCount(v))

\* What takes k bytes can be marked.
Markable(forest, B, k) ==
  \A v, depth, p, e : Lies(forest, B, v, depth, p, e) /\ e - p = k =>
    \E w : MarkedAs(B, w, v, depth, p, e)
MarkableBelow(forest, B, k) == \A i \in Nat : i < k => Markable(forest, B, i)

\* x has the marks of w.
Continues(x, w) == \A q \in DOMAIN w : q \in DOMAIN x /\ x[q] = w[q]

\* Content is right in a marking that is right in a part of it.
LEMMA ContentStays ==
  ASSUME NEW B, NEW w, NEW x, Continues(x, w), NEW q \in DOMAIN w, w[q] \in Mark,
         RightContent(B, w, q)
  PROVE  RightContent(B, x, q)
<1> DEFINE kids == w[q].kids
           n == Len(kids)
<1>1. x[q] = w[q] /\ q \in DOMAIN x /\ kids \in Seq(Nat) /\ n \in Nat
  BY LenProperties DEF Continues, Mark
<1>2. ASSUME MajorOf(B, q) \in {4, 5}
      PROVE  /\ Filled(B, x, q)
             /\ \A j \in 1..n : x[kids[j]] = w[kids[j]]
  <2>1. /\ n = SlotsOf(B, q)
        /\ \A j \in 1..n : kids[j] \in DOMAIN w /\ w[kids[j]].height < w[q].height
        /\ kids = <<>> => w[q].end = BodyOf(B, q)
        /\ kids # <<>> => kids[1] = BodyOf(B, q) /\ w[kids[n]].end = w[q].end
        /\ \A j \in 1 .. n - 1 : kids[j + 1] = w[kids[j]].end
    BY <1>2 DEF RightContent, Filled
  <2>2. \A j \in 1..n : kids[j] \in DOMAIN x /\ x[kids[j]] = w[kids[j]]
    BY <2>1 DEF Continues
  <2>3. kids # <<>> => n \in 1..n
    BY <1>1, EmptySeq
  <2>4. \A j \in 1 .. n - 1 : j \in 1..n
    BY <1>1
  <2>5. x[q].kids = kids /\ x[q].end = w[q].end /\ x[q].height = w[q].height
    BY <1>1
  <2> HIDE DEF kids, n
  <2>6. /\ \A j \in 1..n : kids[j] \in DOMAIN x /\ x[kids[j]].height < x[q].height
        /\ kids = <<>> => x[q].end = BodyOf(B, q)
        /\ kids # <<>> => kids[1] = BodyOf(B, q) /\ x[kids[n]].end = x[q].end
        /\ \A j \in 1 .. n - 1 : kids[j + 1] = x[kids[j]].end
    BY ONLY <2>1, <2>2, <2>3, <2>4, <2>5
  <2> QED
    BY <2>1, <2>2, <2>5, <2>6 DEF Filled, n
<1>3. MajorOf(B, q) = 5 => SortedKeys(B, x, q)
  <2> SUFFICES ASSUME MajorOf(B, q) = 5 PROVE SortedKeys(B, x, q)
    OBVIOUS
  <2>1. SortedKeys(B, w, q) /\ \A j \in 1..n : x[kids[j]] = w[kids[j]]
    BY <1>2 DEF RightContent
  <2>2. \A i, j \in 1..n : i % 2 = 1 /\ j % 2 = 1 =>
          /\ MajorOf(B, kids[i]) \in {0, 1, 3}
          /\ MajorOf(B, kids[i]) = 3 <=> MajorOf(B, kids[j]) = 3
          /\ i < j => BytesLess(Part(B, kids[i], w[kids[i]].end), Part(B, kids[j], w[kids[j]].end))
    BY <2>1 DEF SortedKeys
  <2>3. x[q].kids = kids
    BY <1>1
  <2> HIDE DEF kids
  <2>4. \A i, j \in 1..n : i % 2 = 1 /\ j % 2 = 1 =>
          /\ MajorOf(B, kids[i]) \in {0, 1, 3}
          /\ MajorOf(B, kids[i]) = 3 <=> MajorOf(B, kids[j]) = 3
          /\ i < j => BytesLess(Part(B, kids[i], x[kids[i]].end), Part(B, kids[j], x[kids[j]].end))
    BY ONLY <2>1, <2>2
  <2> QED
    BY ONLY <2>3, <2>4 DEF SortedKeys
<1>4. /\ q < w[q].end /\ w[q].end <= Len(B)
      /\ MajorOf(B, q) \in {0, 1, 7} => w[q].end = BodyOf(B, q)
      /\ MajorOf(B, q) \in {2, 3} => w[q].end = BodyOf(B, q) + ArgOf(B, q)
      /\ MajorOf(B, q) = 3 => TextReason(Part(B, BodyOf(B, q), w[q].end)) = "none"
  BY DEF RightContent
<1>5. x[q].end = w[q].end
  BY <1>1
<1> QED
  BY ONLY <1>2, <1>3, <1>4, <1>5 DEF RightContent

\* A value without elements is marked at its head alone.
LEMMA LeafMarked ==
  ASSUME NEW forest, NEW B, Fine(B), NEW v, NEW depth, NEW p, NEW e,
         Lies(forest, B, v, depth, p, e), HeadShape(B, p, e), LeafShape(B, v, p, e)
  PROVE  \E w : MarkedAs(B, w, v, depth, p, e)
<1> DEFINE mark == [end |-> e, kids |-> <<>>, height |-> MaxDepth - depth]
           w == [q \in {p} |-> mark]
<1>1. /\ p \in Nat /\ e \in Nat /\ p < e /\ e <= Len(B) /\ Len(B) \in Nat
      /\ depth \in Nat /\ depth <= MaxDepth /\ MaxDepth \in Nat
  BY LiesFacts, LimitsAssumption
<1>2. mark \in Mark /\ mark.end = e /\ mark.height = MaxDepth - depth
  BY <1>1, EmptySeq DEF Mark
<1>3. DOMAIN w = {p} /\ w[p] = mark
  OBVIOUS
<1>4. w \in [DOMAIN w -> Mark]
  BY <1>2
<1> HIDE DEF mark, w
<1>5. ShortestHead(B, p)
  BY DEF HeadShape
<1>6. RightContent(B, w, p)
  <2>1. /\ MajorOf(B, p) \in {0, 1, 7} => e = BodyOf(B, p)
        /\ MajorOf(B, p) \in {2, 3} => e = BodyOf(B, p) + ArgOf(B, p)
        /\ MajorOf(B, p) = 3 => TextReason(Part(B, BodyOf(B, p), e)) = "none"
        /\ MajorOf(B, p) \notin {4, 5}
    BY DEF LeafShape
  <2>2. w[p].end = e
    BY <1>2, <1>3
  <2> QED
    BY <1>1, <2>1, <2>2 DEF RightContent
<1>7. AtMost(DOMAIN w, ItemCount(v))
  <2>1. ItemCount(v) = 1
    BY DEF LeafShape
  <2>2. IsFiniteSet({p}) /\ Cardinality({p}) = 1
    BY FS_Singleton
  <2> QED
    BY <1>3, <2>1, <2>2 DEF AtMost
<1>8. DOMAIN w \subseteq p .. e - 1
  BY <1>1, <1>3
<1> QED
  BY <1>2, <1>3, <1>4, <1>5, <1>6, <1>7, <1>8 DEF MarkedAs

-----------------------------------------------------------------------------
\* The elements of a row are apart.
RowApart(cut, n) ==
  /\ \A j \in 1 .. n + 1 : cut[j] \in Nat /\ cut[1] <= cut[j]
  /\ \A i, j \in 1..n : i < j => cut[i + 1] <= cut[j]

\* They are, because each begins where the one before it ends.
LEMMA LaidApart ==
  ASSUME NEW forest, NEW B, NEW d, NEW n \in Nat, NEW ks, NEW cut, Laid(forest, B, d, n, ks, cut)
  PROVE  RowApart(cut, n)
<1>a. \A j \in 1 .. n + 1 : cut[j] \in Nat /\ cut[1] <= cut[j]
  BY LaidAscends
<1> SUFFICES ASSUME NEW i \in 1..n PROVE \A j \in 1..n : i < j => cut[i + 1] <= cut[j]
  BY <1>a DEF RowApart
<1>1. /\ \A j \in 1 .. n + 1 : cut[j] \in Nat
      /\ \A j \in 1..n : cut[j] < cut[j + 1]
  BY DEF Laid, Lies
<1> DEFINE S == {j \in 1..n : i < j /\ ~(cut[i + 1] <= cut[j])}
<1> SUFFICES ASSUME S # {} PROVE FALSE
  OBVIOUS
<1>2. PICK j \in S : \A k \in S : j <= k
  <2>1. S \subseteq Nat
    OBVIOUS
  <2> QED
    BY <2>1, LeastMember
<1>3. j \in 1..n /\ i < j /\ ~(cut[i + 1] <= cut[j])
  OBVIOUS
<1>4. i + 1 \in 1 .. n + 1 /\ j \in 1 .. n + 1 /\ cut[i + 1] \in Nat /\ cut[j] \in Nat
  BY <1>1, <1>3
<1>5. j # i + 1
  BY <1>3, <1>4
<1>6. j - 1 \in 1..n /\ i < j - 1 /\ (j - 1) + 1 = j /\ ~(j <= j - 1) /\ j - 1 \in 1 .. n + 1
  BY <1>3, <1>5
<1>7. cut[i + 1] <= cut[j - 1]
  BY <1>2, <1>6
<1>8. cut[j - 1] < cut[j] /\ cut[j - 1] \in Nat
  BY <1>1, <1>6
<1> QED
  BY <1>3, <1>4, <1>7, <1>8

\* W[j] marks the j-th element.
KidMarkings(B, W, ks, depth, cut, n) ==
  \A j \in 1..n : MarkedAs(B, W[j], ks[j], depth, cut[j], cut[j + 1])

\* The marks of all the elements, and one at p.
HomeOf(W, n, q) == CHOOSE j \in 1..n : q \in DOMAIN W[j]
Joint(W, n, p, mark) ==
  [q \in {p} \cup UNION {DOMAIN W[j] : j \in 1..n} |->
     IF q = p THEN mark ELSE W[HomeOf(W, n, q)][q]]
Joins(x, W, n, p, mark) ==
  /\ x[p] = mark /\ \A j \in 1..n : Continues(x, W[j])
  /\ \A q \in DOMAIN x : q = p \/ \E j \in 1..n : q \in DOMAIN W[j]

\* Every element can be marked, if all can that are shorter.
LEMMA KidsMarked ==
  ASSUME NEW forest, NEW B, NEW depth, NEW n \in Nat, NEW ks, NEW cut,
         Laid(forest, B, depth, n, ks, cut),
         NEW p \in Nat, NEW e \in Nat, p < cut[1], cut[n + 1] = e,
         MarkableBelow(forest, B, e - p)
  PROVE  \E W : KidMarkings(B, W, ks, depth, cut, n)
<1> DEFINE W == [j \in 1..n |-> CHOOSE w : MarkedAs(B, w, ks[j], depth, cut[j], cut[j + 1])]
<1>1. ASSUME NEW j \in 1..n PROVE MarkedAs(B, W[j], ks[j], depth, cut[j], cut[j + 1])
  <2> DEFINE q == cut[j]
             h == cut[j + 1]
             k == h - q
  <2>1. Lies(forest, B, ks[j], depth, q, h)
    BY <1>1 DEF Laid
  <2>2. j \in 1 .. n + 1 /\ j + 1 \in 1 .. n + 1
    OBVIOUS
  <2>3. q \in Nat /\ h \in Nat /\ q < h /\ cut[1] <= q /\ h <= e /\ cut[1] \in Nat
    <3>1. cut[1] \in Nat
      BY LaidAscends
    <3> QED
      BY <2>1, <2>2, <3>1, LaidAscends DEF Lies
  <2>4. k \in Nat /\ k < e - p
    <3> HIDE DEF q, h
    <3> QED
      BY <2>3
  <2> HIDE DEF q, h, k
  <2>5. Markable(forest, B, k)
    BY <2>4 DEF MarkableBelow
  <2>6. h - q = k
    BY DEF k
  <2>7. \E w : MarkedAs(B, w, ks[j], depth, q, h)
    BY ONLY <2>1, <2>5, <2>6 DEF Markable
  <2>8. MarkedAs(B, CHOOSE w : MarkedAs(B, w, ks[j], depth, q, h), ks[j], depth, q, h)
    BY <2>7
  <2> QED
    BY <2>8 DEF q, h
<1> HIDE DEF W
<1> QED
  BY <1>1 DEF KidMarkings

\* Together they are the marks of each, since the elements are apart.
LEMMA JointContinues ==
  ASSUME NEW B, NEW W, NEW ks, NEW depth, NEW n \in Nat, NEW cut,
         RowApart(cut, n),
         KidMarkings(B, W, ks, depth, cut, n), NEW p \in Nat, p < cut[1], NEW mark
  PROVE  Joins(Joint(W, n, p, mark), W, n, p, mark)
<1> DEFINE x == Joint(W, n, p, mark)
<1>0. \A j \in 1 .. n + 1 : cut[j] \in Nat /\ cut[1] <= cut[j]
  BY DEF RowApart
<1>1. ASSUME NEW j \in 1..n, NEW q \in DOMAIN W[j]
      PROVE  q \in Nat /\ cut[j] <= q /\ q < cut[j + 1] /\ q # p
  <2>1. j \in 1 .. n + 1 /\ j + 1 \in 1 .. n + 1 /\ 1 \in 1 .. n + 1
    OBVIOUS
  <2>2. /\ cut[j] \in Nat /\ cut[j + 1] \in Nat /\ cut[1] <= cut[j] /\ cut[1] \in Nat
    BY <1>0, <2>1
  <2>3. q \in cut[j] .. cut[j + 1] - 1
    BY <1>1 DEF KidMarkings, MarkedAs
  <2> QED
    BY <2>2, <2>3
<1>2. ASSUME NEW i \in 1..n, NEW j \in 1..n, NEW q, q \in DOMAIN W[i], q \in DOMAIN W[j]
      PROVE  i = j
  <2>1. /\ q \in Nat /\ cut[i] <= q /\ q < cut[i + 1] /\ cut[j] <= q /\ q < cut[j + 1]
    BY <1>1, <1>2
  <2>2. i \in 1 .. n + 1 /\ i + 1 \in 1 .. n + 1 /\ j \in 1 .. n + 1 /\ j + 1 \in 1 .. n + 1
    OBVIOUS
  <2>3. cut[i] \in Nat /\ cut[i + 1] \in Nat /\ cut[j] \in Nat /\ cut[j + 1] \in Nat
    BY <1>0, <2>2
  <2>4. ~(i < j)
    BY <2>1, <2>3 DEF RowApart
  <2>5. ~(j < i)
    BY <2>1, <2>3 DEF RowApart
  <2> QED
    BY <2>4, <2>5
<1>3. ASSUME NEW j \in 1..n, NEW q \in DOMAIN W[j] PROVE q \in DOMAIN x /\ x[q] = W[j][q]
  <2>1. q # p
    BY <1>1
  <2>2. q \in {p} \cup UNION {DOMAIN W[i] : i \in 1..n}
    OBVIOUS
  <2>3. HomeOf(W, n, q) \in 1..n /\ q \in DOMAIN W[HomeOf(W, n, q)]
    BY DEF HomeOf
  <2>4. HomeOf(W, n, q) = j
    BY <1>2, <2>3
  <2> QED
    BY <2>1, <2>2, <2>4 DEF Joint
<1>4. x[p] = mark /\ \A q \in DOMAIN x : q = p \/ \E j \in 1..n : q \in DOMAIN W[j]
  BY DEF Joint
<1> HIDE DEF x
<1>5. \A j \in 1..n : Continues(x, W[j])
  BY <1>3 DEF Continues
<1> QED
  BY <1>4, <1>5 DEF Joins, x

-----------------------------------------------------------------------------
\* The keys at the odd places of a row of n elements are as in a map.
RowSorted(B, cut, n) ==
  \A i, j \in 1..n : i % 2 = 1 /\ j % 2 = 1 =>
    /\ MajorOf(B, cut[i]) \in {0, 1, 3}
    /\ MajorOf(B, cut[i]) = 3 <=> MajorOf(B, cut[j]) = 3
    /\ i < j => BytesLess(Part(B, cut[i], cut[i + 1]), Part(B, cut[j], cut[j + 1]))

\* An odd place is that of a key.
LEMMA OddPlace ==
  ASSUME NEW n \in Nat, NEW i \in 1 .. 2 * n, i % 2 = 1
  PROVE  \E j \in 1..n : i = 2 * j - 1 /\ i + 1 = 2 * j
<1> DEFINE h == Half(i)
<1>1. i \in Nat \ {0}
  OBVIOUS
<1>2. h \in Nat \ {0} /\ (i = 2 * h - 1 \/ i = 2 * h)
  BY <1>1, HalfFacts
<1> HIDE DEF h
<1>3. i # 2 * h
  BY <1>2
<1>4. h \in 1..n /\ i = 2 * h - 1 /\ i + 1 = 2 * h
  BY <1>2, <1>3
<1> QED
  BY <1>4

\* The entries of a map are sorted on their keys.
LEMMA EntriesSorted ==
  ASSUME NEW forest, NEW B, NEW v, NEW depth, NEW p, NEW e, NEW ks, NEW cut,
         EntriesShape(forest, B, v, depth, p, e, ks, cut), ArgOf(B, p) \in Nat
  PROVE  RowSorted(B, cut, SlotsOf(B, p))
<1> DEFINE n == ArgOf(B, p)
<1>1. /\ \A j \in 1..n : /\ MajorOf(B, cut[2 * j - 1]) \in {0, 1, 3}
                         /\ MajorOf(B, cut[2 * j - 1]) = 3 <=> MajorOf(B, cut[1]) = 3
      /\ \A j, k \in 1..n : j < k => BytesLess(KeyPart(B, cut, j), KeyPart(B, cut, k))
      /\ SlotsOf(B, p) = 2 * n
  BY DEF EntriesShape, SlotsOf
<1>2. n \in Nat
  OBVIOUS
<1> HIDE DEF n
<1>3. SUFFICES ASSUME NEW i \in 1 .. 2 * n, NEW j \in 1 .. 2 * n, i % 2 = 1, j % 2 = 1
               PROVE  /\ MajorOf(B, cut[i]) \in {0, 1, 3}
                      /\ MajorOf(B, cut[i]) = 3 <=> MajorOf(B, cut[j]) = 3
                      /\ i < j => BytesLess(Part(B, cut[i], cut[i + 1]), Part(B, cut[j], cut[j + 1]))
  BY <1>1 DEF RowSorted
<1>4. PICK a \in 1..n : i = 2 * a - 1 /\ i + 1 = 2 * a
  BY <1>2, <1>3, OddPlace
<1>5. PICK c \in 1..n : j = 2 * c - 1 /\ j + 1 = 2 * c
  BY <1>2, <1>3, OddPlace
<1>6. KeyPart(B, cut, a) = Part(B, cut[i], cut[i + 1]) /\ KeyPart(B, cut, c) = Part(B, cut[j], cut[j + 1])
  BY <1>4, <1>5 DEF KeyPart
<1>7. i < j => a < c
  BY <1>4, <1>5
<1>8. /\ MajorOf(B, cut[i]) \in {0, 1, 3} /\ (MajorOf(B, cut[i]) = 3 <=> MajorOf(B, cut[1]) = 3)
      /\ MajorOf(B, cut[j]) = 3 <=> MajorOf(B, cut[1]) = 3
  BY <1>1, <1>4, <1>5
<1>9. a < c => BytesLess(KeyPart(B, cut, a), KeyPart(B, cut, c))
  BY <1>1
<1> QED
  BY ONLY <1>6, <1>7, <1>8, <1>9

\* The mark of a container whose elements lie between the cuts.
Container(cut, n, e, depth) ==
  [end |-> e, kids |-> [j \in 1..n |-> cut[j]], height |-> MaxDepth - depth]

\* The head of a container and the marks of its elements mark it.
LEMMA ContainerMarked ==
  ASSUME NEW forest, NEW B, Fine(B), NEW v, NEW depth, NEW p, NEW e,
         Lies(forest, B, v, depth, p, e), HeadShape(B, p, e), MajorOf(B, p) \in {4, 5},
         NEW ks, NEW cut, KidsShape(forest, B, v, depth, p, e, ks, cut),
         MajorOf(B, p) = 5 => RowSorted(B, cut, SlotsOf(B, p)),
         MarkableBelow(forest, B, e - p)
  PROVE  \E w : MarkedAs(B, w, v, depth, p, e)
<1> DEFINE n == SlotsOf(B, p)
           g == depth + 1
           mark == Container(cut, n, e, depth)
<1>1. /\ p \in Nat /\ e \in Nat /\ p < e /\ e <= Len(B) /\ Len(B) \in Nat
      /\ depth \in Nat /\ depth <= MaxDepth /\ MaxDepth \in Nat /\ g \in Nat
  BY LiesFacts, LimitsAssumption
<1>2. /\ n \in Nat /\ Laid(forest, B, g, n, ks, cut) /\ Totals(v, n, ks)
      /\ cut[1] = BodyOf(B, p) /\ cut[n + 1] = e
  BY DEF KidsShape
<1>3. p < cut[1] /\ ShortestHead(B, p)
  BY <1>2 DEF HeadShape
<1>g. MaxDepth - g = (MaxDepth - depth) - 1
  BY <1>1
<1> HIDE DEF n, g
<1>4. PICK W : KidMarkings(B, W, ks, g, cut, n)
  BY ONLY <1>1, <1>2, <1>3, MarkableBelow(forest, B, e - p), KidsMarked
<1>5. \A j \in 1 .. n + 1 : cut[j] \in Nat /\ cut[1] <= cut[j] /\ cut[j] <= e
  BY <1>2, LaidAscends
<1>6. RowApart(cut, n)
  BY <1>2, LaidApart
<1> DEFINE w == Joint(W, n, p, mark)
<1>7. /\ \A j \in 1..n : Continues(w, W[j])
      /\ w[p] = mark
      /\ \A q \in DOMAIN w : q = p \/ \E j \in 1..n : q \in DOMAIN W[j]
      /\ DOMAIN w = {p} \cup UNION {DOMAIN W[j] : j \in 1..n}
  <2>1. DOMAIN w = {p} \cup UNION {DOMAIN W[j] : j \in 1..n}
    BY DEF Joint
  <2> HIDE DEF mark
  <2>2. p \in Nat /\ n \in Nat
    BY <1>1, <1>2
  <2>3. Joins(w, W, n, p, mark)
    BY ONLY <1>3, <1>4, <1>6, <2>2, JointContinues
  <2> HIDE DEF w
  <2> QED
    BY <2>1, <2>3 DEF Joins
<1>8. /\ mark.end = e /\ mark.kids = [j \in 1..n |-> cut[j]] /\ mark.height = MaxDepth - depth
      /\ mark \in Mark
  <2>1. [j \in 1..n |-> cut[j]] \in Seq(Nat)
    <3>1. \A j \in 1..n : cut[j] \in Nat
      BY <1>2, <1>5
    <3> QED
      BY <1>2, <3>1, IsSequence
  <2> QED
    BY <1>1, <2>1 DEF Container, Mark
<1> HIDE DEF w, mark
<1>9. ASSUME NEW j \in 1..n
      PROVE  /\ W[j] \in [DOMAIN W[j] -> Mark] /\ DOMAIN W[j] \subseteq cut[j] .. cut[j + 1] - 1
             /\ cut[j] \in DOMAIN W[j] /\ W[j][cut[j]].end = cut[j + 1]
             /\ W[j][cut[j]].height = MaxDepth - g
             /\ \A q \in DOMAIN W[j] : ShortestHead(B, q) /\ RightContent(B, W[j], q)
             /\ AtMost(DOMAIN W[j], ItemCount(ks[j]))
             /\ \A q \in DOMAIN W[j] : q \in DOMAIN w /\ w[q] = W[j][q]
  BY <1>4, <1>7, <1>9 DEF KidMarkings, MarkedAs, Continues
<1>10. \A j \in 1..n : /\ cut[j] \in DOMAIN w /\ w[cut[j]].end = cut[j + 1]
                       /\ w[cut[j]].height = MaxDepth - g
  BY <1>9
<1>11. \A q \in DOMAIN w : w[q] \in Mark /\ q \in p .. e - 1
  <2> TAKE q \in DOMAIN w
  <2>1. CASE q = p
    BY <1>1, <1>7, <1>8, <2>1
  <2>2. ASSUME NEW j \in 1..n, q \in DOMAIN W[j] PROVE w[q] \in Mark /\ q \in p .. e - 1
    <3>1. w[q] \in Mark /\ q \in cut[j] .. cut[j + 1] - 1
      BY <1>9, <2>2
    <3>2. j \in 1 .. n + 1 /\ j + 1 \in 1 .. n + 1 /\ 1 \in 1 .. n + 1
      BY <1>2, <2>2
    <3>3. cut[j] \in Nat /\ cut[j + 1] \in Nat /\ cut[1] \in Nat /\ cut[1] <= cut[j] /\ cut[j + 1] <= e
      BY <1>5, <3>2
    <3> QED
      BY <1>1, <1>3, <3>1, <3>3, SMTT(40)
  <2> QED
    BY <1>7, <2>1, <2>2
<1>12. RightContent(B, w, p)
  <2> DEFINE kids == [j \in 1..n |-> cut[j]]
  <2>1. /\ w[p].end = e /\ w[p].kids = kids /\ w[p].height = MaxDepth - depth
    BY <1>7, <1>8
  <2>2. /\ Len(kids) = n /\ \A j \in 1..n : kids[j] = cut[j]
        /\ kids = <<>> <=> n = 0
    <3>1. \A j \in 1..n : cut[j] \in Nat
      BY <1>2, <1>5
    <3>2. kids \in Seq(Nat) /\ Len(kids) = n
      BY <1>2, <3>1, IsSequence
    <3> QED
      BY <3>2, EmptySeq
  <2> HIDE DEF kids
  <2>3. Filled(B, w, p)
    <3>1. \A j \in 1..n : kids[j] \in DOMAIN w /\ w[kids[j]].height < w[p].height
      <4>1. MaxDepth - g < MaxDepth - depth
        BY <1>1, <1>g
      <4> QED
        BY ONLY <1>10, <2>1, <2>2, <4>1
    <3>2. kids = <<>> => w[p].end = BodyOf(B, p)
      <4>1. n = 0 => cut[n + 1] = cut[1]
        OBVIOUS
      <4> QED
        BY ONLY <1>2, <2>1, <2>2, <4>1
    <3>3. kids # <<>> => kids[1] = BodyOf(B, p) /\ w[kids[n]].end = w[p].end
      <4>1. n # 0 => 1 \in 1..n /\ n \in 1..n
        BY <1>2
      <4> QED
        BY ONLY <1>2, <1>10, <2>1, <2>2, <4>1
    <3>4. \A j \in 1 .. n - 1 : kids[j + 1] = w[kids[j]].end
      <4>1. \A j \in 1 .. n - 1 : j \in 1..n /\ j + 1 \in 1..n
        BY <1>2
      <4> QED
        BY ONLY <1>10, <2>2, <4>1
    <3> QED
      BY ONLY <2>1, <2>2, <3>1, <3>2, <3>3, <3>4 DEF Filled, n
  <2>4. MajorOf(B, p) = 5 => SortedKeys(B, w, p)
    <3>1. SUFFICES ASSUME MajorOf(B, p) = 5 PROVE SortedKeys(B, w, p)
      OBVIOUS
    <3>2. RowSorted(B, cut, n)
      BY <3>1 DEF n
    <3>3. \A j \in 1..n : w[kids[j]].end = cut[j + 1] /\ kids[j] = cut[j]
      BY <1>10, <2>2
    <3> QED
      BY ONLY <2>1, <2>2, <3>2, <3>3 DEF SortedKeys, RowSorted
  <2> QED
    BY ONLY <1>1, <2>1, <2>3, <2>4, MajorOf(B, p) \in {4, 5} DEF RightContent
<1>13. \A q \in DOMAIN w : ShortestHead(B, q) /\ RightContent(B, w, q)
  <2> TAKE q \in DOMAIN w
  <2>1. CASE q = p
    BY <1>3, <1>12, <2>1
  <2>2. ASSUME NEW j \in 1..n, q \in DOMAIN W[j] PROVE ShortestHead(B, q) /\ RightContent(B, w, q)
    <3>1. ShortestHead(B, q) /\ RightContent(B, W[j], q) /\ W[j][q] \in Mark
      BY <1>9, <2>2
    <3>2. Continues(w, W[j])
      BY <1>7, <2>2
    <3> DEFINE x == W[j]
    <3>3. q \in DOMAIN x /\ RightContent(B, x, q) /\ x[q] \in Mark /\ Continues(w, x)
      BY <2>2, <3>1, <3>2
    <3> HIDE DEF x
    <3>4. RightContent(B, w, q)
      BY ONLY <3>3, ContentStays
    <3> QED
      BY <3>1, <3>4
  <2> QED
    BY <1>7, <2>1, <2>2
<1>14. AtMost(DOMAIN w, ItemCount(v))
  <2> DEFINE D == [j \in 1..n |-> DOMAIN W[j]]
  <2>1. \A j \in 1..n : /\ IsFiniteSet(D[j]) /\ ItemCount(ks[j]) \in Nat
                        /\ Cardinality(D[j]) <= ItemCount(ks[j])
    BY <1>9 DEF AtMost
  <2>2. DOMAIN w = {p} \cup UNION {D[j] : j \in 1..n}
    BY <1>7
  <2> HIDE DEF D
  <2> DEFINE U == {p} \cup UNION {D[j] : j \in 1..n}
  <2>3. IsFiniteSet(U) /\ ItemCount(v) \in Nat /\ Cardinality(U) <= ItemCount(v)
    <3>1. Totals(v, n, ks)
      BY <1>2
    <3> QED
      BY ONLY <2>1, <3>1, Zenon DEF Totals
  <2> QED
    BY ONLY <2>2, <2>3 DEF AtMost
<1>15. w \in [DOMAIN w -> Mark]
  <2>1. w = [q \in DOMAIN w |-> w[q]]
    BY DEF w, Joint
  <2> QED
    BY ONLY <1>11, <2>1
<1>16. p \in DOMAIN w /\ w[p].end = e /\ w[p].height = MaxDepth - depth
  BY <1>7, <1>8
<1> QED
  BY ONLY <1>11, <1>13, <1>14, <1>15, <1>16 DEF MarkedAs

\* The inductive step: what is true of shorter encodings is true of this one.
LEMMA MarkStep ==
  ASSUME NEW forest, Family(forest), NEW B, Fine(B), NEW k \in Nat, MarkableBelow(forest, B, k)
  PROVE  Markable(forest, B, k)
<1> SUFFICES ASSUME NEW v, NEW depth, NEW p, NEW e, Lies(forest, B, v, depth, p, e), e - p = k
             PROVE  \E w : MarkedAs(B, w, v, depth, p, e)
  BY DEF Markable
<1>1. Shaped(forest, B, v, depth, p, e) /\ MarkableBelow(forest, B, e - p)
  BY AllShaped
<1>2. HeadShape(B, p, e)
  BY <1>1 DEF Shaped
<1>3. CASE LeafShape(B, v, p, e)
  BY <1>2, <1>3, LeafMarked
<1>4. ASSUME NEW ks, NEW cut, ItemsShape(forest, B, v, depth, p, e, ks, cut)
      PROVE  \E w : MarkedAs(B, w, v, depth, p, e)
  <2>1. MajorOf(B, p) = 4 /\ KidsShape(forest, B, v, depth, p, e, ks, cut)
    BY <1>4 DEF ItemsShape
  <2>2. MajorOf(B, p) \in {4, 5} /\ MajorOf(B, p) # 5
    BY <2>1
  <2> QED
    BY <1>1, <1>2, <2>1, <2>2, ContainerMarked
<1>5. ASSUME NEW ks, NEW cut, EntriesShape(forest, B, v, depth, p, e, ks, cut)
      PROVE  \E w : MarkedAs(B, w, v, depth, p, e)
  <2>1. MajorOf(B, p) = 5 /\ KidsShape(forest, B, v, depth, p, e, ks, cut)
    BY <1>5 DEF EntriesShape
  <2>2. MajorOf(B, p) \in {4, 5} /\ ArgOf(B, p) \in Nat
    BY <1>2, <2>1 DEF HeadShape
  <2>3. RowSorted(B, cut, SlotsOf(B, p))
    BY <1>5, <2>2, EntriesSorted
  <2> QED
    BY <1>1, <1>2, <2>1, <2>2, <2>3, ContainerMarked
<1> QED
  BY <1>1, <1>3, <1>4, <1>5 DEF Shaped

\* Whatever was encoded can be marked.
LEMMA AllMarkable ==
  ASSUME NEW forest, Family(forest), NEW B, Fine(B)
  PROVE  \A k \in Nat : Markable(forest, B, k)
<1> DEFINE good(k) == Markable(forest, B, k)
           S == {k \in Nat : ~good(k)}
<1>1. ASSUME NEW k \in Nat, \A i \in Nat : i < k => good(i) PROVE good(k)
  BY <1>1, MarkStep DEF MarkableBelow
<1> HIDE DEF good
<1>2. S = {}
  <2> SUFFICES ASSUME S # {} PROVE FALSE
    OBVIOUS
  <2>1. PICK k \in S : \A i \in S : k <= i
    BY LeastMember
  <2>2. k \in Nat /\ ~good(k) /\ \A i \in Nat : i < k => good(i)
    BY <2>1
  <2> QED
    BY <1>1, <2>2
<1>3. \A k \in Nat : good(k)
  BY <1>2
<1> QED
  BY <1>3 DEF good

-----------------------------------------------------------------------------
(***************************************************************************)
(* What arrives, and what Decode makes of it.                              *)
(***************************************************************************)
\* An author's artifact is a canonical artifact, when its items are no more
\* than Decode counts.
LEMMA FittingArtifact ==
  ASSUME NEW forest, Authors(forest), NEW a \in Artifacts, ItemCount(a.val) <= MaxItems
  PROVE  IsArtifact(a.buf)
<1> DEFINE B == a.buf
           v == a.val
           e == Len(B)
           zero == 0
<1>1. Family(forest) /\ Fine(B) /\ e \in Nat /\ Lies(forest, B, v, zero, zero, e)
  BY ArtifactLies DEF Authors
<1>2. ItemCount(v) <= MaxItems /\ MaxItems \in Nat /\ MaxDepth \in Nat /\ e - zero \in Nat
  BY <1>1, LimitsAssumption
<1>3. zero = 0
  OBVIOUS
<1> HIDE DEF zero, B, v, e
<1>4. Markable(forest, B, e - zero)
  BY ONLY <1>1, <1>2, AllMarkable
<1>5. PICK w : MarkedAs(B, w, v, zero, zero, e)
  BY ONLY <1>1, <1>4 DEF Markable
<1>6. /\ w \in [DOMAIN w -> Mark] /\ DOMAIN w \subseteq zero .. e - 1
      /\ zero \in DOMAIN w /\ w[zero].end = e /\ w[zero].height = MaxDepth - zero
      /\ \A q \in DOMAIN w : ShortestHead(B, q) /\ RightContent(B, w, q)
      /\ IsFiniteSet(DOMAIN w) /\ ItemCount(v) \in Nat /\ Cardinality(DOMAIN w) <= ItemCount(v)
  BY <1>5 DEF MarkedAs, AtMost
<1>7. Cardinality(DOMAIN w) <= MaxItems
  <2>1. Cardinality(DOMAIN w) \in Nat
    BY <1>6, FS_CardinalityType
  <2> QED
    BY ONLY <1>2, <1>6, <2>1
<1>8. Parse(B, w)
  <2>1. w[0].height <= MaxDepth
    BY ONLY <1>2, <1>3, <1>6
  <2> QED
    BY <1>3, <1>6, <1>7, <2>1 DEF Parse, e
<1>9. w \in Markings(B)
  <2>1. DOMAIN w \in SUBSET (0 .. Len(B) - 1)
    BY <1>3, <1>6 DEF e
  <2> QED
    BY <1>6, <2>1 DEF Markings
<1>10. IsArtifact(B)
  BY <1>8, <1>9 DEF IsArtifact
<1> QED
  BY <1>10 DEF B

\* Decode has what arrived of the artifact that was sent.
Arrival ==
  /\ sent \in Artifacts
  /\ arrived = "whole" => data = sent.buf
  /\ arrived = "cut" => Len(data) < Len(sent.buf) /\ Given(sent.buf)
  /\ arrived = "extended" => Len(data) = Len(sent.buf) + 1 /\ Given(sent.buf)
RTInv == ArtifactInv /\ Arrival

\* Whatever arrives, Decode starts on bytes that a Go slice can have.
LEMMA RTInitial ==
  ASSUME NEW forest, Authors(forest), RTInit
  PROVE  RTInv
<1> DEFINE B == sent.buf
           n == Len(B)
<1>1. sent \in Artifacts
  BY DEF RTInit
<1>2. B \in Bytes /\ B \in Seq(Byte) /\ n \in Nat /\ n + 1 < IntHalf /\ n < IntHalf /\ IntHalf \in Nat
  <2>1. B \in Bytes /\ n \in Nat /\ n < IntHalf
    BY <1>1, ArtifactLies DEF Fine
  <2>2. n + 1 < IntHalf
    BY <1>1 DEF Authors
  <2> QED
    BY <2>1, <2>2, IntAssumption DEF Bytes
<1> HIDE DEF B, n
<1>3. CASE arrived = "whole" /\ Start(B)
  <2>1. ArtifactInv
    BY <1>2, <1>3, ArtifactStart DEF n
  <2> QED
    BY <1>1, <1>3, <2>1 DEF RTInv, Arrival, Start, B
<1>4. CASE arrived = "cut" /\ \E k \in 0 .. n - 1 : Start(SubSeq(B, 1, k))
  <2>1. PICK k \in 0 .. n - 1 : Start(SubSeq(B, 1, k))
    BY <1>4
  <2> DEFINE d == SubSeq(B, 1, k)
  <2>2. d \in Bytes /\ Len(d) = k /\ \A i \in 1..k : d[i] = B[i]
    <3>1. 0 \in Nat /\ k \in Nat /\ 0 <= k /\ k <= n /\ k - 0 = k /\ \A i \in Nat : 0 + i = i
      BY <1>2
    <3>2. /\ Part(B, 0, k) \in Bytes /\ Len(Part(B, 0, k)) = k - 0
          /\ \A i \in 1 .. k - 0 : Part(B, 0, k)[i] = B[0 + i]
      BY <1>2, <3>1, PartFacts DEF n
    <3>3. Part(B, 0, k) = d
      BY DEF Part
    <3>4. d \in Bytes /\ Len(d) = k
      BY ONLY <3>1, <3>2, <3>3
    <3>5. ASSUME NEW i \in 1..k PROVE d[i] = B[i]
      <4>1. 0 + i = i /\ i \in 1 .. k - 0
        BY <3>1, <3>5
      <4>2. Part(B, 0, k)[i] = B[0 + i]
        BY <3>2, <4>1
      <4> QED
        BY <3>3, <4>1, <4>2
    <3> QED
      BY <3>4, <3>5
  <2>3. k \in Nat /\ k < n /\ k < IntHalf
    BY <1>2
  <2>4. Start(d)
    BY <2>1
  <2> HIDE DEF d
  <2>5. ArtifactInv /\ data = d
    BY <2>2, <2>3, <2>4, ArtifactStart DEF Start
  <2>6. Len(data) < n /\ Given(B)
    BY <2>2, <2>3, <2>5 DEF Given
  <2> QED
    BY <1>1, <1>4, <2>5, <2>6 DEF RTInv, Arrival, B, n
<1>5. CASE arrived = "extended" /\ \E x \in Tails : Start(Append(B, x))
  <2>1. PICK x \in Tails : Start(Append(B, x))
    BY <1>5
  <2> DEFINE d == Append(B, x)
  <2>2. d \in Bytes /\ Len(d) = n + 1 /\ \A i \in 1..n : d[i] = B[i]
    BY <1>2, TailsAssumption, AppendProperties DEF Bytes, n
  <2>3. Start(d)
    BY <2>1
  <2> HIDE DEF d
  <2>4. ArtifactInv /\ data = d
    BY <1>2, <2>2, <2>3, ArtifactStart DEF Start
  <2>5. Len(data) = n + 1 /\ Given(B)
    BY <1>2, <2>2, <2>4 DEF Given, n
  <2> QED
    BY <1>1, <1>5, <2>4, <2>5 DEF RTInv, Arrival, B, n
<1> QED
  BY <1>3, <1>4, <1>5 DEF RTInit, B, n

\* Decode leaves what arrived alone.
LEMMA RTStep == RTInv /\ [RTNext]_rtVars => RTInv'
<1> SUFFICES ASSUME RTInv, [RTNext]_rtVars PROVE RTInv'
  OBVIOUS
<1>1. [Next]_vars /\ sent' = sent /\ arrived' = arrived
  BY DEF RTNext, rtVars
<1>2. data' = data
  BY <1>1, DataStays
<1>3. ArtifactInv'
  BY <1>1, ArtifactStep DEF RTInv
<1>4. Arrival'
  BY <1>1, <1>2 DEF RTInv, Arrival, Given
<1> QED
  BY <1>3, <1>4 DEF RTInv

\* What was decoded means what was encoded: its encoding is the artifact, and an
\* artifact is read in one way.
LEMMA ResultMeans ==
  ASSUME NEW forest, Authors(forest), RTInv, arrived = "whole", outcome.kind = "value"
  PROVE  Logical(Result) = sent.means
<1> DEFINE B == sent.buf
           v == sent.val
           u == Result
           e == Len(B)
           zero == 0
<1>1. sent \in Artifacts /\ data = B /\ ArtifactInv
  BY DEF RTInv, Arrival
<1>2. /\ sent.means = Logical(v) /\ Fine(B) /\ e \in Nat /\ e >= 1
      /\ Lies(forest, B, v, zero, zero, e)
  BY <1>1, ArtifactLies
<1>3. Family(forest) /\ Forest(forest) /\ Recurses(forest)
  BY DEF Authors, Family
<1>4. u \in forest /\ Encode(u) = Done(B)
  BY <1>1, <1>3, ResultWritten
<1>5. EncValue(u, zero).err = "none" /\ EncValue(u, zero).buf = B
  BY <1>4, DoneFields DEF Encode
<1>6. Part(B, zero, e) = B
  BY <1>2, WholePart DEF Fine
<1>7. zero \in Nat /\ zero < e /\ e <= Len(B)
  BY <1>2
<1> HIDE DEF u, v, B, e, zero
<1>8. Lies(forest, B, u, zero, zero, e)
  BY ONLY <1>2, <1>4, <1>5, <1>6, <1>7 DEF Lies
<1>9. Unique(forest, B, zero)
  BY ONLY <1>2, <1>3, <1>7, ReadOneWay
<1>10. Logical(u) = Logical(v)
  BY ONLY <1>2, <1>8, <1>9 DEF Unique
<1> QED
  BY <1>2, <1>10 DEF u

\* An artifact of no more items than Decode counts is accepted, and what Decode
\* returns means what was encoded, for every value that Go can make.
THEOREM ArtifactsDecode ==
  ASSUME NEW CONSTANT forest, Authors(forest)
  PROVE  RTSpec => []WholeDecodes
<1>1. RTInit => RTInv
  BY RTInitial
<1>2. RTInv => WholeDecodes
  <2> SUFFICES ASSUME RTInv, arrived = "whole", Fits, pc = "done"
               PROVE  outcome.kind = "value" /\ Logical(Result) = sent.means
    BY DEF WholeDecodes
  <2>1. sent \in Artifacts /\ data = sent.buf /\ ArtifactInv
    BY DEF RTInv, Arrival
  <2>2. IsArtifact(data)
    BY <2>1, FittingArtifact DEF Fits
  <2>3. outcome.kind = "value"
    BY <2>1, <2>2, AcceptsNow DEF AcceptsArtifacts
  <2> QED
    BY <2>3, ResultMeans
<1> QED
  BY <1>1, <1>2, RTStep, PTL DEF RTSpec

\* Such an artifact is "truncated" wherever it is cut, and a byte behind it is
\* found at the place where it ends.
THEOREM DamageIsFound ==
  ASSUME NEW CONSTANT forest, Authors(forest)
  PROVE  RTSpec => []DamageIsNoticed
<1>1. RTInit => RTInv
  BY RTInitial
<1>2. RTInv => DamageIsNoticed
  <2> SUFFICES ASSUME RTInv, Fits, pc = "done"
               PROVE  /\ arrived = "cut" => outcome.reason = "truncated"
                      /\ arrived = "extended" => outcome.reason = "trailing-bytes"
                                                 /\ outcome.at = Len(sent.buf)
    BY DEF DamageIsNoticed
  <2>1. sent \in Artifacts /\ ArtifactInv
    BY DEF RTInv, Arrival
  <2>2. /\ sent.buf \in Bytes /\ Len(sent.buf) \in Nat /\ Len(sent.buf) < IntHalf
        /\ IsArtifact(sent.buf)
    BY <2>1, ArtifactLies, FittingArtifact DEF Fits, Fine
  <2>3. Given(sent.buf) => Verdict(sent.buf)
    BY <2>1, <2>2, JudgesNow DEF JudgesDamage
  <2>4. Len(data) \in Nat
    BY <2>1, Places DEF ArtifactInv, TypeInv
  <2>5. arrived = "cut" => outcome.reason = "truncated"
    BY <2>3 DEF RTInv, Arrival, Verdict
  <2>6. arrived = "extended" => outcome.reason = "trailing-bytes" /\ outcome.at = Len(sent.buf)
    <3>1. arrived = "extended" => Len(data) = Len(sent.buf) + 1 /\ Given(sent.buf)
      BY DEF RTInv, Arrival
    <3>2. arrived = "extended" => Len(data) > Len(sent.buf) /\ Verdict(sent.buf)
      BY <2>2, <2>3, <2>4, <3>1
    <3> QED
      BY <3>2 DEF Verdict
  <2> QED
    BY <2>5, <2>6
<1> QED
  BY <1>1, <1>2, RTStep, PTL DEF RTSpec
=============================================================================
