--------------------------- MODULE ReencodeProofs ---------------------------
(***************************************************************************)
(* Proof that what Decode accepts, Encode writes back byte for byte.       *)
(***************************************************************************)
EXTENDS Codec, CanonicityProofs

\* Decode has accepted, and H bounds the levels below each value.
Settled(H) ==
  /\ TypeInv /\ WithinLimits /\ Distinct /\ Counted /\ HeapOK /\ VerdictOK
  /\ Bounded(H) /\ outcome.kind = "value"

\* The values that are settled, and their parts.
LEMMA SettledFacts ==
  ASSUME NEW H, Settled(H), NEW i \in 1..Len(out)
  PROVE  /\ out[i].m \in Majors /\ out[i].at \in Nat /\ out[i].body \in Nat /\ out[i].end \in Nat
         /\ out[i].arg \in Nat /\ out[i].kids \in Seq(Nat) /\ Len(out[i].kids) \in Nat
         /\ out[i].at < out[i].end /\ out[i].end <= Len(data) /\ Len(data) \in Nat
         /\ data \in Bytes /\ Canonical(out[i]) /\ H[i] \in 0..MaxDepth
<1>1. out[i] \in Node /\ Len(data) \in Nat
  BY Places DEF Settled
<1>2. Canonical(out[i]) /\ H[i] \in 0..MaxDepth /\ data \in Bytes
  BY DEF Settled, HeapOK, Bounded, TypeInv, TypeOK
<1>3. out[i].at < out[i].end /\ out[i].end <= Len(data)
  BY <1>2 DEF Canonical
<1>4. out[i].kids \in Seq(Nat)
  BY <1>1 DEF Node
<1> QED
  BY <1>1, <1>2, <1>3, <1>4, LenProperties DEF Node

\* The elements of a container have fewer levels below them than it has.
LEMMA LowerKids ==
  ASSUME NEW H, Settled(H), NEW i \in 1..Len(out), out[i].m \in {4, 5},
         NEW j \in 1..Len(out[i].kids)
  PROVE  out[i].kids[j] \in 1..Len(out) /\ H[out[i].kids[j]] < H[i]
<1>1. Canonical(out[i])
  BY SettledFacts
<1>2. out[i].kids[j] \in 1..Len(out)
  BY <1>1 DEF Canonical, Tiled
<1>3. H[out[i].kids[j]] < H[i]
  BY DEF Settled, Bounded
<1> QED
  BY <1>2, <1>3
-----------------------------------------------------------------------------
(***************************************************************************)
(* The values that item returned.  Decoded is defined by recursion on out: *)
(* that there is such a function has to be shown, level by level.          *)
(***************************************************************************)
\* The places of the keys and of the values of a map.
LEMMA Halves ==
  ASSUME NEW n \in Nat
  PROVE  /\ n \div 2 \in Nat
         /\ \A j \in 1 .. n \div 2 : 2 * j - 1 \in 1..n /\ 2 * j \in 1..n /\ 2 * j - 1 < 2 * j
<1>1. n = 2 * (n \div 2) + (n % 2) /\ n \div 2 \in Nat /\ n % 2 \in 0..1
  BY Division
<1> DEFINE q == n \div 2
<1> HIDE DEF q
<1>2. q \in Nat /\ 2 * q <= n
  BY <1>1 DEF q
<1>3. \A j \in 1..q : 2 * j - 1 \in 1..n /\ 2 * j \in 1..n /\ 2 * j - 1 < 2 * j
  BY <1>2
<1> QED
  BY <1>2, <1>3 DEF q

\* A value is made of those of its elements alone.
LEMMA SameElements ==
  ASSUME NEW v, Len(v.kids) \in Nat, NEW f, NEW g,
         v.m \in {4, 5} => \A j \in 1..Len(v.kids) : f[v.kids[j]] = g[v.kids[j]]
  PROVE  Built(v, f) = Built(v, g)
<1>1. CASE v.m \notin {4, 5}
  BY <1>1 DEF Built
<1>2. CASE v.m = 4
  BY <1>2 DEF Built
<1>3. CASE v.m = 5
  <2> DEFINE n == Len(v.kids)
  <2>1. \A j \in 1 .. n \div 2 : 2 * j - 1 \in 1..n /\ 2 * j \in 1..n
    BY Halves
  <2>2. \A j \in 1 .. n \div 2 : f[v.kids[2 * j - 1]] = g[v.kids[2 * j - 1]] /\ f[v.kids[2 * j]] = g[v.kids[2 * j]]
    BY <1>3, <2>1
  <2> HIDE DEF n
  <2> DEFINE F == [j \in 1 .. n \div 2 |-> [key |-> f[v.kids[2 * j - 1]], val |-> f[v.kids[2 * j]]]]
             G == [j \in 1 .. n \div 2 |-> [key |-> g[v.kids[2 * j - 1]], val |-> g[v.kids[2 * j]]]]
  <2>3. F = G
    BY <2>2
  <2>4. Built(v, f) = [entries |-> F] /\ Built(v, g) = [entries |-> G]
    BY <1>3 DEF Built, n
  <2> QED
    BY <2>3, <2>4
<1> QED
  BY <1>1, <1>2, <1>3

\* The values with fewer than h levels below them, and their Go values.
Low(H, h) == {i \in 1..Len(out) : H[i] < h}
Builds(f, H, h) == f = [i \in Low(H, h) |-> Built(out[i], f)]

\* One more level.
LEMMA BuildStep ==
  ASSUME NEW H, Settled(H), NEW h \in Nat, NEW f, Builds(f, H, h)
  PROVE  \E g : Builds(g, H, h + 1)
<1> DEFINE g == [i \in Low(H, h + 1) |-> IF H[i] < h THEN f[i] ELSE Built(out[i], f)]
<1>1. \A i \in Low(H, h) : f[i] = Built(out[i], f)
  BY DEF Builds
<1>2. \A i \in Low(H, h + 1) : g[i] = Built(out[i], f)
  BY <1>1 DEF Low
<1>3. \A i \in Low(H, h) : g[i] = f[i]
  <2>1. \A i \in Low(H, h) : i \in Low(H, h + 1)
    BY SettledFacts DEF Low
  <2> QED
    BY <1>1, <1>2, <2>1
<1>4. DOMAIN g = Low(H, h + 1) /\ g = [i \in Low(H, h + 1) |-> g[i]]
  OBVIOUS
<1> HIDE DEF g
<1>5. \A i \in Low(H, h + 1) : Built(out[i], f) = Built(out[i], g)
  <2> TAKE i \in Low(H, h + 1)
  <2>1. i \in 1..Len(out) /\ H[i] < h + 1 /\ H[i] \in Nat /\ Len(out[i].kids) \in Nat
    BY SettledFacts, LimitsAssumption DEF Low
  <2>2. ASSUME out[i].m \in {4, 5}, NEW j \in 1..Len(out[i].kids)
        PROVE  f[out[i].kids[j]] = g[out[i].kids[j]]
    <3>1. out[i].kids[j] \in 1..Len(out) /\ H[out[i].kids[j]] < H[i]
      BY <2>1, <2>2, LowerKids
    <3>2. H[out[i].kids[j]] \in 0..MaxDepth
      BY <3>1, SettledFacts
    <3>3. out[i].kids[j] \in Low(H, h)
      BY <2>1, <3>1, <3>2, LimitsAssumption DEF Low
    <3> QED
      BY <1>3, <3>3
  <2> QED
    BY <2>1, <2>2, SameElements
<1>6. g = [i \in Low(H, h + 1) |-> Built(out[i], g)]
  BY <1>2, <1>4, <1>5
<1> QED
  BY <1>6 DEF Builds

\* There are Go values for all of them.
LEMMA AllBuilt ==
  ASSUME NEW H, Settled(H)
  PROVE  \A h \in Nat : \E f : Builds(f, H, h)
<1> DEFINE S == {h \in Nat : ~ \E f : Builds(f, H, h)}
<1> SUFFICES ASSUME S # {} PROVE FALSE
  OBVIOUS
<1>1. PICK m \in S : \A k \in S : m <= k
  <2>1. S \in SUBSET Nat
    OBVIOUS
  <2> HIDE DEF S
  <2> QED
    BY <2>1, LeastMember
<1>2. CASE m = 0
  <2> DEFINE f == [i \in {} |-> 0]
  <2>1. Low(H, 0) = {}
    BY SettledFacts, LimitsAssumption DEF Low
  <2>2. f = [i \in Low(H, 0) |-> Built(out[i], f)]
    BY <2>1
  <2>3. Builds(f, H, 0)
    BY <2>2 DEF Builds
  <2> QED
    BY <1>2, <2>3
<1>3. CASE m # 0
  <2>1. m - 1 \in Nat /\ m - 1 \notin S /\ (m - 1) + 1 = m
    BY <1>1, <1>3
  <2>2. PICK f : Builds(f, H, m - 1)
    BY <2>1
  <2>3. \E g : Builds(g, H, (m - 1) + 1)
    BY <2>1, <2>2, BuildStep
  <2> QED
    BY <2>1, <2>3
<1> QED
  BY <1>2, <1>3

\* The Go value of each value is made of those of its elements.
LEMMA DecodedFacts ==
  ASSUME NEW H, Settled(H)
  PROVE  \A i \in 1..Len(out) : Decoded[i] = Built(out[i], Decoded)
<1> DEFINE h == MaxDepth + 1
<1>1. h \in Nat
  BY LimitsAssumption
<1>2. Low(H, h) = 1..Len(out)
  BY SettledFacts, LimitsAssumption DEF Low
<1>3. PICK f : Builds(f, H, h)
  BY <1>1, AllBuilt
<1>4. f = [i \in 1..Len(out) |-> Built(out[i], f)]
  BY <1>2, <1>3 DEF Builds
<1>5. Decoded = CHOOSE D : D = [i \in 1..Len(out) |-> Built(out[i], D)]
  BY DEF Decoded
<1>6. Decoded = [i \in 1..Len(out) |-> Built(out[i], Decoded)]
  BY <1>4, <1>5
<1> QED
  BY <1>6
-----------------------------------------------------------------------------
(***************************************************************************)
(* Bytes side by side, and what the encoder does with them.                *)
(***************************************************************************)
\* The bytes of a slice of the input.
LEMMA SliceFacts ==
  ASSUME data \in Bytes, NEW from \in Nat, NEW to \in Nat, from <= to, to <= Len(data)
  PROVE  /\ Slice(from, to) \in Seq(Byte) /\ Slice(from, to) \in Bytes
         /\ Len(Slice(from, to)) = to - from
         /\ \A k \in 1..to - from : Slice(from, to)[k] = data[from + k]
<1>1. Slice(from, to) = Part(data, from, to)
  BY DEF Slice, Part
<1>2. /\ Part(data, from, to) \in Bytes /\ Len(Part(data, from, to)) = to - from
      /\ \A k \in 1..to - from : Part(data, from, to)[k] = data[from + k]
  BY PartFacts
<1> QED
  BY <1>1, <1>2 DEF Bytes

\* Two parts side by side are one.
LEMMA PartsJoin ==
  ASSUME NEW d \in Bytes, NEW from \in Nat, NEW mid \in Nat, NEW to \in Nat,
         from <= mid, mid <= to, to <= Len(d)
  PROVE  Part(d, from, mid) \o Part(d, mid, to) = Part(d, from, to)
<1> DEFINE a == Part(d, from, mid)
           c == Part(d, mid, to)
           s == Part(d, from, to)
           t == a \o c
<1>0. Len(d) \in Nat
  BY LenProperties DEF Bytes
<1>1. a \in Seq(Byte) /\ Len(a) = mid - from /\ \A k \in 1..mid - from : a[k] = d[from + k]
  <2>1. mid <= Len(d)
    BY <1>0
  <2> QED
    BY <2>1, PartFacts DEF Bytes
<1>2. c \in Seq(Byte) /\ Len(c) = to - mid /\ \A k \in 1..to - mid : c[k] = d[mid + k]
  BY PartFacts DEF Bytes
<1>3. s \in Seq(Byte) /\ Len(s) = to - from /\ \A k \in 1..to - from : s[k] = d[from + k]
  <2>1. from <= to
    OBVIOUS
  <2> QED
    BY <2>1, PartFacts DEF Bytes
<1> HIDE DEF a, c, s
<1>4. /\ t \in Seq(Byte) /\ Len(t) = Len(a) + Len(c)
      /\ \A k \in 1..Len(a) + Len(c) : t[k] = IF k <= Len(a) THEN a[k] ELSE c[k - Len(a)]
  BY <1>1, <1>2, ConcatProperties
<1> HIDE DEF t
<1>5. Len(t) = to - from
  BY <1>1, <1>2, <1>4
<1>6. ASSUME NEW k \in 1..to - from PROVE t[k] = s[k]
  <2>1. k \in 1..Len(a) + Len(c)
    BY <1>1, <1>2
  <2>2. CASE k <= mid - from
    <3>1. t[k] = a[k] /\ k \in 1..mid - from
      BY <1>1, <1>4, <2>1, <2>2
    <3> QED
      BY <1>1, <1>3, <3>1
  <2>3. CASE ~(k <= mid - from)
    <3>1. t[k] = c[k - (mid - from)] /\ k - (mid - from) \in 1..to - mid
      BY <1>1, <1>4, <2>1, <2>3
    <3>2. mid + (k - (mid - from)) = from + k
      OBVIOUS
    <3> QED
      BY <1>2, <1>3, <3>1, <3>2
  <2> QED
    BY <2>2, <2>3
<1>7. t = s
  BY <1>3, <1>4, <1>5, <1>6, SeqEqual
<1> QED
  BY <1>7 DEF t, a, c, s

\* The same of the decoder's slices.
LEMMA SliceJoin ==
  ASSUME data \in Bytes, NEW from \in Nat, NEW mid \in Nat, NEW to \in Nat,
         from <= mid, mid <= to, to <= Len(data)
  PROVE  Slice(from, mid) \o Slice(mid, to) = Slice(from, to)
BY PartsJoin DEF Slice, Part

\* The input is cut at n + 1 places.
Cuts(cut, n) ==
  /\ \A i \in 1 .. n + 1 : cut[i] \in Nat /\ cut[i] <= Len(data)
  /\ \A i \in 1..n : cut[i] <= cut[i + 1]

\* Then no place is before the first.
LEMMA CutsAscend ==
  ASSUME Len(data) \in Nat, NEW n \in Nat, NEW cut, Cuts(cut, n)
  PROVE  \A i \in 1 .. n + 1 : cut[1] <= cut[i]
<1> DEFINE S == {i \in 1 .. n + 1 : ~(cut[1] <= cut[i])}
<1> SUFFICES ASSUME S # {} PROVE FALSE
  OBVIOUS
<1>1. PICK m \in S : \A k \in S : m <= k
  <2>1. S \in SUBSET Nat
    OBVIOUS
  <2> HIDE DEF S
  <2> QED
    BY <2>1, LeastMember
<1>2. m \in 1 .. n + 1 /\ ~(cut[1] <= cut[m]) /\ cut[1] \in Nat /\ cut[m] \in Nat
  BY DEF Cuts
<1>3. m # 1
  BY <1>2
<1>4. m - 1 \in 1..n /\ m - 1 \in 1 .. n + 1 /\ m - 1 \notin S /\ (m - 1) + 1 = m
  BY <1>1, <1>2, <1>3
<1>5. cut[1] <= cut[m - 1] /\ cut[m - 1] <= cut[m] /\ cut[m - 1] \in Nat
  BY <1>4 DEF Cuts
<1> QED
  BY <1>2, <1>5

\* Slices side by side flatten to one.
LEMMA FlattenSlices ==
  ASSUME data \in Bytes, NEW n \in Nat, n # 0, NEW cut, Cuts(cut, n),
         NEW s, Len(s) = n, \A i \in 1..n : s[i] = Slice(cut[i], cut[i + 1])
  PROVE  FlattenSeq(s) = Slice(cut[1], cut[n + 1])
<1> DEFINE next(f, i) == IF i = 1 THEN s[i] ELSE f[i - 1] \o s[i]
           g == [i \in 1..n |-> Slice(cut[1], cut[i + 1])]
           flat == CHOOSE f : f = [i \in 1..n |-> next(f, i)]
<1>0. Len(data) \in Nat
  BY LenProperties DEF Bytes
<1>1. \A i \in 1 .. n + 1 : cut[1] <= cut[i] /\ cut[i] \in Nat /\ cut[i] <= Len(data)
  BY <1>0, CutsAscend DEF Cuts
<1>2. \A i \in 1..n : i # 1 => Slice(cut[1], cut[i]) \o s[i] = Slice(cut[1], cut[i + 1])
  <2> SUFFICES ASSUME NEW i \in 1..n, i # 1
               PROVE  Slice(cut[1], cut[i]) \o s[i] = Slice(cut[1], cut[i + 1])
    OBVIOUS
  <2>1. i \in 1 .. n + 1 /\ i + 1 \in 1 .. n + 1 /\ 1 \in 1 .. n + 1
    OBVIOUS
  <2>2. cut[i] <= cut[i + 1]
    BY DEF Cuts
  <2>3. Slice(cut[1], cut[i]) \o Slice(cut[i], cut[i + 1]) = Slice(cut[1], cut[i + 1])
    BY <1>1, <2>1, <2>2, SliceJoin
  <2> QED
    BY <2>3
<1>3. \A i \in 1..n : g[i] = next(g, i)
  <2> TAKE i \in 1..n
  <2>1. CASE i = 1
    BY <2>1
  <2>2. CASE i # 1
    <3>1. i - 1 \in 1..n /\ (i - 1) + 1 = i
      BY <2>2
    <3>2. g[i - 1] = Slice(cut[1], cut[i])
      BY <3>1
    <3>3. g[i] = Slice(cut[1], cut[i + 1])
      OBVIOUS
    <3> HIDE DEF g
    <3> QED
      BY <1>2, <2>2, <3>2, <3>3
  <2> QED
    BY <2>1, <2>2
<1>4. g = [i \in 1..n |-> g[i]]
  OBVIOUS
<1>5. g = [i \in 1..n |-> next(g, i)]
  <2> HIDE DEF g
  <2> QED
    BY <1>3, <1>4
<1>6. flat = [i \in 1..n |-> next(flat, i)]
  <2> HIDE DEF g
  <2> QED
    BY <1>5
<1>7. FlattenSeq(s) = flat[n]
  BY DEF FlattenSeq
<1> HIDE DEF flat
<1>8. \A i \in 1..n : flat[i] = next(flat, i)
  BY <1>6
<1>9. \A i \in 1..n : flat[i] = Slice(cut[1], cut[i + 1])
  <2> DEFINE S == {i \in 1..n : flat[i] # Slice(cut[1], cut[i + 1])}
  <2> SUFFICES ASSUME S # {} PROVE FALSE
    OBVIOUS
  <2>1. PICK m \in S : \A k \in S : m <= k
    <3>1. S \in SUBSET Nat
      OBVIOUS
    <3> HIDE DEF S
    <3> QED
      BY <3>1, LeastMember
  <2>2. m \in 1..n /\ flat[m] # Slice(cut[1], cut[m + 1]) /\ flat[m] = next(flat, m)
    BY <1>8
  <2>3. m # 1
    BY <2>2
  <2>4. m - 1 \in 1..n /\ m - 1 \notin S /\ (m - 1) + 1 = m
    BY <2>1, <2>2, <2>3
  <2>5. flat[m - 1] = Slice(cut[1], cut[m])
    BY <2>4
  <2>6. flat[m] = flat[m - 1] \o s[m]
    BY <2>2, <2>3
  <2> HIDE DEF S
  <2> QED
    BY <1>2, <2>2, <2>3, <2>5, <2>6
<1>10. n \in 1..n
  OBVIOUS
<1> QED
  BY <1>7, <1>9, <1>10

\* A head and parts that were made without an error and lie side by side make
\* the bytes from the one to the last of the others.
LEMMA JoinSlices ==
  ASSUME data \in Bytes, NEW n \in Nat, NEW cut, Cuts(cut, n),
         NEW parts, DOMAIN parts = 1..n,
         \A i \in 1..n : parts[i].err = "none" /\ parts[i].buf = Slice(cut[i], cut[i + 1]),
         NEW from \in Nat, from <= cut[1]
  PROVE  Join(Slice(from, cut[1]), parts) = Done(Slice(from, cut[n + 1]))
<1> DEFINE bufs == [i \in DOMAIN parts |-> parts[i].buf]
<1>0. Len(data) \in Nat
  BY LenProperties DEF Bytes
<1>1. \A i \in 1 .. n + 1 : cut[1] <= cut[i] /\ cut[i] \in Nat /\ cut[i] <= Len(data)
  BY <1>0, CutsAscend DEF Cuts
<1>2. 1 \in 1 .. n + 1 /\ n + 1 \in 1 .. n + 1
  OBVIOUS
<1>3. Join(Slice(from, cut[1]), parts) = Done(Slice(from, cut[1]) \o FlattenSeq(bufs))
  BY DEF Join
<1>4. bufs \in [1..n -> Seq(Byte)]
  <2>1. \A i \in 1..n : Slice(cut[i], cut[i + 1]) \in Seq(Byte)
    <3> TAKE i \in 1..n
    <3>1. i \in 1 .. n + 1 /\ i + 1 \in 1 .. n + 1 /\ cut[i] <= cut[i + 1]
      BY DEF Cuts
    <3> QED
      BY <1>1, <3>1, SliceFacts
  <2> QED
    BY <2>1
<1>5. Len(bufs) = n
  <2> HIDE DEF bufs
  <2> QED
    BY <1>4, IsSequence
<1>6. Slice(from, cut[1]) \o FlattenSeq(bufs) = Slice(from, cut[n + 1])
  <2>1. CASE n = 0
    <3>1. bufs = <<>>
      <4>1. bufs \in Seq(Seq(Byte))
        <5> HIDE DEF bufs
        <5> QED
          BY <1>4, IsSequence
      <4> HIDE DEF bufs
      <4> QED
        BY <1>5, <2>1, <4>1, EmptySeq
    <3>2. FlattenSeq(bufs) = <<>>
      <4> HIDE DEF bufs
      <4>1. Len(<<>>) = 0
        OBVIOUS
      <4> QED
        BY <3>1, <4>1 DEF FlattenSeq
    <3>3. Slice(from, cut[1]) \in Seq(Byte)
      BY <1>1, <1>2, SliceFacts
    <3> HIDE DEF bufs
    <3> QED
      BY <2>1, <3>2, <3>3, ConcatEmptySeq
  <2>2. CASE n # 0
    <3>1. FlattenSeq(bufs) = Slice(cut[1], cut[n + 1])
      <4>1. \A i \in 1..n : bufs[i] = Slice(cut[i], cut[i + 1])
        OBVIOUS
      <4> HIDE DEF bufs
      <4> QED
        BY <1>5, <2>2, <4>1, FlattenSlices
    <3>2. /\ cut[1] \in Nat /\ cut[n + 1] \in Nat /\ cut[1] <= cut[n + 1]
          /\ cut[n + 1] <= Len(data)
      BY <1>1, <1>2
    <3>3. Slice(from, cut[1]) \o Slice(cut[1], cut[n + 1]) = Slice(from, cut[n + 1])
      BY <3>2, SliceJoin
    <3> HIDE DEF bufs
    <3> QED
      BY <3>1, <3>3
  <2> QED
    BY <2>1, <2>2
<1> QED
  BY <1>3, <1>6

\* Pairs whose keys ascend are in order already.
LEMMA SortedAlready ==
  ASSUME NEW n \in Nat, NEW pairs, pairs = [i \in 1..n |-> pairs[i]],
         \A i \in 1..n : pairs[i].key \in Bytes,
         \A i, j \in 1..n : i < j => BytesLess(pairs[i].key, pairs[j].key)
  PROVE  SortPairs(pairs) = pairs /\ \A i \in 1 .. n - 1 : pairs[i].key # pairs[i + 1].key
<1>1. DOMAIN pairs = 1..n
  OBVIOUS
<1>2. \A i, j \in 1..n : Precedes(pairs, j, i) <=> j < i
  <2> TAKE i, j \in 1..n
  <2>1. pairs[i].key \in Bytes /\ pairs[j].key \in Bytes
    OBVIOUS
  <2>2. CASE j < i
    BY <2>2 DEF Precedes, KeyLess
  <2>3. CASE i = j
    BY <2>1, <2>3, NeverBeforeItself DEF Precedes, KeyLess
  <2>4. CASE i < j
    <3>1. BytesLess(pairs[i].key, pairs[j].key)
      BY <2>4
    <3>2. ~BytesLess(pairs[j].key, pairs[i].key)
      BY <2>1, <3>1, BytesLessTransitive, NeverBeforeItself
    <3> QED
      BY <2>4, <3>2 DEF Precedes, KeyLess
  <2> QED
    BY <2>2, <2>3, <2>4
<1>3. \A i \in 1..n : Place(pairs, i) = i
  <2> TAKE i \in 1..n
  <2>1. {j \in DOMAIN pairs : Precedes(pairs, j, i)} = 1 .. i - 1
    BY <1>1, <1>2
  <2>2. Cardinality(1 .. i - 1) = i - 1
    <3>1. 1 \in Int /\ i - 1 \in Int
      OBVIOUS
    <3>2. Cardinality(1 .. i - 1) = IF 1 > i - 1 THEN 0 ELSE (i - 1) - 1 + 1
      BY <3>1, FS_Interval
    <3> QED
      BY <3>2
  <2>3. Place(pairs, i) = (i - 1) + 1
    BY <2>1, <2>2 DEF Place
  <2> QED
    BY <2>3
<1>4. \A k \in 1..n : (CHOOSE i \in DOMAIN pairs : Place(pairs, i) = k) = k
  BY <1>1, <1>3
<1>5. SortPairs(pairs) = [k \in 1..n |-> pairs[k]]
  BY <1>1, <1>4 DEF SortPairs
<1>6. \A i \in 1 .. n - 1 : pairs[i].key # pairs[i + 1].key
  <2> TAKE i \in 1 .. n - 1
  <2>1. i \in 1..n /\ i + 1 \in 1..n /\ i < i + 1
    OBVIOUS
  <2>2. BytesLess(pairs[i].key, pairs[i + 1].key) /\ pairs[i].key \in Bytes
    BY <2>1
  <2> QED
    BY <2>2, NeverBeforeItself
<1> QED
  BY <1>5, <1>6
-----------------------------------------------------------------------------
(***************************************************************************)
(* The type switch of the encoder, and the head of each value.             *)
(***************************************************************************)
\* What a finished encoder returns.
LEMMA DoneFields == \A buf : Done(buf).err = "none" /\ Done(buf).buf = buf
BY DEF Done

\* A value of one field goes to the case of that field.
LEMMA SwitchInt ==
  ASSUME NEW n, NEW depth, depth <= MaxDepth
  PROVE  EncValue([int |-> n], depth) = EncInteger(n)
<1> DEFINE v == [int |-> n]
<1>1. DOMAIN v = {"int"} /\ v.int = n
  OBVIOUS
<1> HIDE DEF v
<1>2. EncValue(v, depth) = EncInteger(v.int)
  BY <1>1 DEF EncValue, Is
<1> QED
  BY <1>1, <1>2 DEF v

\* Byte strings.
LEMMA SwitchBytes ==
  ASSUME NEW s, NEW depth, depth <= MaxDepth
  PROVE  EncValue([bytes |-> s], depth) = Done(EncHead(2, Len(s)) \o s)
<1> DEFINE v == [bytes |-> s]
<1>1. DOMAIN v = {"bytes"} /\ v.bytes = s
  OBVIOUS
<1> HIDE DEF v
<1>2. EncValue(v, depth) = Done(EncHead(2, Len(v.bytes)) \o v.bytes)
  BY <1>1 DEF EncValue, Is
<1> QED
  BY <1>1, <1>2 DEF v

\* Texts that break no rule.
LEMMA SwitchText ==
  ASSUME NEW s, NEW depth, depth <= MaxDepth, TextReason(s) = "none"
  PROVE  EncValue([text |-> s], depth) = Done(EncHead(3, Len(s)) \o s)
<1> DEFINE v == [text |-> s]
<1>1. DOMAIN v = {"text"} /\ v.text = s
  OBVIOUS
<1> HIDE DEF v
<1>2. EncValue(v, depth) = Done(EncHead(3, Len(v.text)) \o v.text)
  BY <1>1 DEF EncValue, Is
<1> QED
  BY <1>1, <1>2 DEF v

\* Booleans.
LEMMA SwitchBool ==
  ASSUME NEW x \in BOOLEAN, NEW depth, depth <= MaxDepth
  PROVE  EncValue([bool |-> x], depth)
           = Done(<<HeadByte(7, IF x THEN SimpleTrue ELSE SimpleFalse)>>)
<1> DEFINE v == [bool |-> x]
<1>1. DOMAIN v = {"bool"} /\ v.bool = x
  OBVIOUS
<1> HIDE DEF v
<1>2. EncValue(v, depth) = Done(<<HeadByte(7, IF v.bool THEN SimpleTrue ELSE SimpleFalse)>>)
  BY <1>1 DEF EncValue, Is
<1> QED
  BY <1>1, <1>2 DEF v

\* Arrays.
LEMMA SwitchItems ==
  ASSUME NEW s, NEW depth, depth <= MaxDepth
  PROVE  EncValue([items |-> s], depth)
           = Join(EncHead(4, Len(s)), [i \in DOMAIN s |-> NestedEncode(s[i], depth + 1)])
<1> DEFINE v == [items |-> s]
<1>1. DOMAIN v = {"items"} /\ v.items = s
  OBVIOUS
<1> HIDE DEF v
<1>2. EncValue(v, depth) = Join(EncHead(4, Len(v.items)),
                                [i \in DOMAIN v.items |-> NestedEncode(v.items[i], depth + 1)])
  BY <1>1 DEF EncValue, Is
<1> QED
  BY <1>1, <1>2 DEF v

\* Maps.
LEMMA SwitchEntries ==
  ASSUME NEW s, NEW depth, depth <= MaxDepth
  PROVE  EncValue([entries |-> s], depth) = EncMap(s, depth)
<1> DEFINE v == [entries |-> s]
<1>1. DOMAIN v = {"entries"} /\ v.entries = s
  OBVIOUS
<1> HIDE DEF v
<1>2. EncValue(v, depth) = EncMap(v.entries, depth)
  BY <1>1 DEF EncValue, Is
<1> QED
  BY <1>1, <1>2 DEF v

\* The head of each value that is no boolean is the one the encoder writes.
LEMMA HeadWritten ==
  ASSUME NEW H, Settled(H), NEW i \in 1..Len(out), out[i].m # 7
  PROVE  /\ Slice(out[i].at, out[i].body) = EncHead(out[i].m, out[i].arg)
         /\ out[i].arg < Word /\ Word \in Nat
         /\ out[i].at < out[i].body /\ out[i].body <= Len(data)
<1> DEFINE p == out[i].at
           w == Marking(H)
<1>1. w \in Markings(data) /\ Parse(data, w) /\ data \in Bytes
  BY MarkingMarks, SettledFacts DEF Settled
<1>2. Marked(data, w)
  BY <1>1 DEF Marked
<1>3. p \in DOMAIN w
  BY MarkingFacts DEF Settled
<1>4. /\ MajorOf(data, p) = out[i].m /\ BodyOf(data, p) = out[i].body
      /\ ArgOf(data, p) = out[i].arg
  BY AcceptedHead DEF Settled
<1> HIDE DEF w, p
<1>5. Part(data, p, BodyOf(data, p)) = EncHead(MajorOf(data, p), ArgOf(data, p))
  BY <1>2, <1>3, <1>4, HeadsReencode
<1>6. /\ AiOf(data, p) \in 0 .. Imm + 3 /\ BodyOf(data, p) <= Len(data)
      /\ ArgOf(data, p) < Over(AiOf(data, p)) /\ ArgOf(data, p) \in Nat
  BY <1>2, <1>3, <1>4, ArgRange
<1>7. Over(AiOf(data, p)) \in Nat /\ Word \in Nat /\ Over(AiOf(data, p)) <= Word
  BY <1>6, OverWord
<1>8. p < BodyOf(data, p)
  BY <1>2, <1>3, PlaceFacts
<1> QED
  BY <1>4, <1>5, <1>6, <1>7, <1>8 DEF Slice, Part, p

\* What Encode is to write for the i-th value.
Bytewise(i, depth) == EncValue(Decoded[i], depth) = Done(Slice(out[i].at, out[i].end))

\* It writes the integers that were read.
LEMMA IntegerWritten ==
  ASSUME NEW H, Settled(H), NEW i \in 1..Len(out), out[i].m \in {0, 1},
         NEW depth, depth <= MaxDepth
  PROVE  Bytewise(i, depth)
<1> DEFINE a == out[i].arg
<1>1. a \in Nat /\ a < Word /\ Word \in Nat
  BY SettledFacts, HeadWritten
<1>2. Slice(out[i].at, out[i].end) = EncHead(out[i].m, a)
  BY SettledFacts, HeadWritten DEF Canonical
<1>0. Decoded[i] = Built(out[i], Decoded)
  BY DecodedFacts
<1>3. CASE out[i].m = 0
  <2>1. Decoded[i] = [int |-> a]
    BY <1>0, <1>3 DEF Built
  <2> HIDE DEF a
  <2>2. EncInteger(a) = Done(EncHead(0, a))
    <3>1. ~(a >= Word) /\ ~(-1 - a >= Word) /\ a >= 0
      BY <1>1
    <3> QED
      BY <3>1 DEF EncInteger
  <2> QED
    BY <1>2, <1>3, <2>1, <2>2, SwitchInt DEF Bytewise
<1>4. CASE out[i].m = 1
  <2> DEFINE n == -(a + 1)
  <2>1. Decoded[i] = [int |-> n]
    BY <1>0, <1>4 DEF Built
  <2> HIDE DEF a
  <2>2. EncInteger(n) = Done(EncHead(1, a))
    <3>1. ~(n >= Word) /\ ~(-1 - n >= Word) /\ ~(n >= 0) /\ -1 - n = a
      BY <1>1
    <3> HIDE DEF n
    <3> QED
      BY <3>1 DEF EncInteger
  <2> QED
    BY <1>2, <1>4, <2>1, <2>2, SwitchInt DEF Bytewise
<1> QED
  BY <1>3, <1>4

\* It writes the strings that were read.
LEMMA StringWritten ==
  ASSUME NEW H, Settled(H), NEW i \in 1..Len(out), out[i].m \in {2, 3},
         NEW depth, depth <= MaxDepth
  PROVE  Bytewise(i, depth)
<1> DEFINE v == out[i]
           s == Slice(v.body, v.end)
<1>1. /\ v.at \in Nat /\ v.body \in Nat /\ v.end \in Nat /\ v.arg \in Nat
      /\ v.end <= Len(data) /\ Canonical(v) /\ data \in Bytes
  BY SettledFacts
<1>2. v.end = v.body + v.arg /\ (v.m = 3 => TextReason(s) = "none")
  BY <1>1 DEF Canonical
<1>3. Slice(v.at, v.body) = EncHead(v.m, v.arg) /\ v.at < v.body
  BY HeadWritten
<1>4. v.body <= v.end /\ v.end - v.body = v.arg
  BY <1>1, <1>2
<1>5. Len(s) = v.arg
  BY <1>1, <1>4, SliceFacts
<1>6. Slice(v.at, v.body) \o s = Slice(v.at, v.end)
  <2>1. v.at <= v.body
    BY <1>1, <1>3
  <2> QED
    BY <1>1, <1>4, <2>1, SliceJoin
<1>7. Decoded[i] = Built(v, Decoded) /\ v.m \in {2, 3}
  BY DecodedFacts
<1>8. EncHead(v.m, Len(s)) \o s = Slice(v.at, v.end)
  BY <1>3, <1>5, <1>6
<1>9. CASE v.m = 2
  <2>1. Decoded[i] = [bytes |-> s]
    BY <1>7, <1>9 DEF Built
  <2> HIDE DEF s
  <2>2. EncValue([bytes |-> s], depth) = Done(EncHead(2, Len(s)) \o s)
    BY SwitchBytes
  <2> QED
    BY <1>8, <1>9, <2>1, <2>2 DEF Bytewise
<1>10. CASE v.m = 3
  <2>1. Decoded[i] = [text |-> s]
    BY <1>7, <1>10 DEF Built
  <2> HIDE DEF s
  <2>2. EncValue([text |-> s], depth) = Done(EncHead(3, Len(s)) \o s)
    BY <1>2, <1>10, SwitchText
  <2> QED
    BY <1>8, <1>10, <2>1, <2>2 DEF Bytewise
<1> QED
  BY <1>7, <1>9, <1>10

\* It writes the booleans that were read.
LEMMA BooleanWritten ==
  ASSUME NEW H, Settled(H), NEW i \in 1..Len(out), out[i].m = 7,
         NEW depth, depth <= MaxDepth
  PROVE  Bytewise(i, depth)
<1> DEFINE v == out[i]
           p == v.at
           x == v.arg = SimpleTrue
           a == IF x THEN SimpleTrue ELSE SimpleFalse
           s == Slice(p, v.end)
<1>1. /\ p \in Nat /\ v.end \in Nat /\ v.end <= Len(data) /\ Len(data) \in Nat
      /\ Canonical(v) /\ data \in Bytes
  BY SettledFacts
<1>2. /\ Major(data[p + 1]) = 7 /\ v.arg = Ai(data[p + 1]) /\ v.arg \in {SimpleFalse, SimpleTrue}
      /\ v.end = p + 1 /\ p < Len(data)
  BY <1>1 DEF Canonical, HeadMinimal, AiAt
<1>3. a = Ai(data[p + 1]) /\ a \in 0 .. Imm + 3 /\ SimpleTrue # SimpleFalse
  BY <1>2, ImmAssumption DEF SimpleTrue, SimpleFalse
<1> HIDE DEF a
<1>4. /\ HeadByte(7, a) \in Byte /\ Major(HeadByte(7, a)) = 7
      /\ Ai(HeadByte(7, a)) = a
  BY <1>3, HeadSplit
<1>5. p + 1 \in 1..Len(data)
  BY <1>1, <1>2
<1>6. data[p + 1] \in Byte
  BY <1>1, <1>5, ByteType
<1>7. data[p + 1] = HeadByte(7, a)
  BY <1>2, <1>3, <1>4, <1>6, HeadJoin
<1>8. s \in Seq(Byte) /\ Len(s) = 1 /\ s[1] = data[p + 1]
  <2>1. p <= v.end /\ v.end - p = 1
    BY <1>1, <1>2
  <2>2. s \in Seq(Byte) /\ Len(s) = v.end - p /\ \A k \in 1..v.end - p : s[k] = data[p + k]
    BY <1>1, <2>1, SliceFacts
  <2> HIDE DEF s
  <2> QED
    BY <2>1, <2>2
<1> HIDE DEF s
<1>9. <<HeadByte(7, a)>> = s
  <2> DEFINE t == <<HeadByte(7, a)>>
  <2>1. t \in Seq(Byte) /\ Len(t) = 1 /\ t[1] = HeadByte(7, a)
    BY <1>4
  <2> HIDE DEF t
  <2>2. \A k \in 1..Len(t) : t[k] = s[k]
    BY <1>7, <1>8, <2>1
  <2>3. t = s
    BY <1>8, <2>1, <2>2, SeqEqual
  <2> QED
    BY <2>3 DEF t
<1>10. Decoded[i] = [bool |-> x]
  <2>1. Decoded[i] = Built(v, Decoded)
    BY DecodedFacts
  <2> QED
    BY <2>1 DEF Built
<1>11. x \in BOOLEAN
  OBVIOUS
<1> HIDE DEF x
<1>12. EncValue([bool |-> x], depth) = Done(<<HeadByte(7, a)>>)
  BY <1>11, SwitchBool DEF a
<1> QED
  BY <1>9, <1>10, <1>12 DEF Bytewise, s
-----------------------------------------------------------------------------
(***************************************************************************)
(* Containers: their elements fill them, so what Encode writes for the     *)
(* elements makes what it writes for the container.                        *)
(***************************************************************************)
\* Where the elements of v start and, behind the last, where v ends; and where
\* its entries do.
KidCut(v) == [j \in 1 .. Len(v.kids) + 1 |-> IF j <= Len(v.kids) THEN out[v.kids[j]].at ELSE v.end]
EntryCut(v) == [j \in 1 .. v.arg + 1 |-> KidCut(v)[2 * j - 1]]

\* The elements of a container lie between its cuts.
LEMMA KidsCut ==
  ASSUME NEW H, Settled(H), NEW i \in 1..Len(out), out[i].m \in {4, 5}
  PROVE  LET v == out[i]
             n == Len(v.kids)
             cut == KidCut(v)
         IN  /\ Cuts(cut, n) /\ cut[1] = v.body /\ cut[n + 1] = v.end
             /\ \A j \in 1..n : cut[j] = out[v.kids[j]].at /\ cut[j + 1] = out[v.kids[j]].end
<1> DEFINE v == out[i]
           n == Len(v.kids)
           cut == KidCut(v)
           kid(j) == out[v.kids[j]]
<1>1. n \in Nat /\ v.end \in Nat /\ v.end <= Len(data) /\ v.kids \in Seq(Nat) /\ v.body \in Nat
  BY SettledFacts
<1>2. Tiled(v.kids, v.body, v.end)
  BY SettledFacts DEF Canonical
<1>3. \A j \in 1..n : /\ kid(j).at \in Nat /\ kid(j).end \in Nat
                      /\ kid(j).at < kid(j).end /\ kid(j).end <= Len(data) /\ Len(data) \in Nat
  BY LowerKids, SettledFacts
<1>4. /\ n = 0 => v.body = v.end
      /\ n # 0 => kid(1).at = v.body /\ kid(n).end = v.end
      /\ \A j \in 1 .. n - 1 : kid(j).end = kid(j + 1).at
  <2>1. n = 0 <=> v.kids = <<>>
    BY <1>1, EmptySeq
  <2> QED
    BY <1>2, <2>1 DEF Tiled
<1>5. /\ \A j \in 1 .. n + 1 : cut[j] = IF j <= n THEN kid(j).at ELSE v.end
  BY DEF KidCut
<1> HIDE DEF cut, kid, n, v
<1>6. \A j \in 1..n : cut[j] = kid(j).at /\ cut[j + 1] = kid(j).end
  <2> TAKE j \in 1..n
  <2>1. j \in 1 .. n + 1 /\ j + 1 \in 1 .. n + 1 /\ j <= n
    BY <1>1
  <2>2. cut[j] = kid(j).at
    BY <1>5, <2>1
  <2>3. CASE j = n
    <3>1. ~(j + 1 <= n) /\ n # 0
      BY <1>1, <2>3
    <3> QED
      BY <1>4, <1>5, <2>1, <2>2, <2>3, <3>1
  <2>4. CASE j # n
    <3>1. j + 1 <= n /\ j \in 1 .. n - 1
      BY <1>1, <2>4
    <3> QED
      BY <1>4, <1>5, <2>1, <2>2, <3>1
  <2> QED
    BY <2>3, <2>4
<1>7. cut[1] = v.body
  <2>1. 1 \in 1 .. n + 1
    BY <1>1
  <2>2. CASE n = 0
    BY <1>4, <1>5, <2>1, <2>2
  <2>3. CASE n # 0
    <3>1. 1 <= n
      BY <1>1, <2>3
    <3> QED
      BY <1>4, <1>5, <2>1, <2>3, <3>1
  <2> QED
    BY <2>2, <2>3
<1>8. cut[n + 1] = v.end
  <2>1. n + 1 \in 1 .. n + 1 /\ ~(n + 1 <= n)
    BY <1>1
  <2> QED
    BY <1>5, <2>1
<1>9. Cuts(cut, n)
  <2>1. ASSUME NEW j \in 1 .. n + 1 PROVE cut[j] \in Nat /\ cut[j] <= Len(data)
    <3>1. CASE j \in 1..n
      BY <1>3, <1>6, <3>1
    <3>2. CASE j \notin 1..n
      <4>1. j = n + 1
        BY <1>1, <3>2
      <4> QED
        BY <1>1, <1>8, <4>1
    <3> QED
      BY <3>1, <3>2
  <2>2. \A j \in 1..n : cut[j] <= cut[j + 1]
    BY <1>3, <1>6
  <2> QED
    BY <2>1, <2>2 DEF Cuts
<1> QED
  BY <1>6, <1>7, <1>8, <1>9 DEF v, n, cut, kid

\* The Go values, as far as Decode makes them: one of each content, and one of
\* each sequence of them.
Forest(forest) ==
  /\ \A n \in Int : [int |-> n] \in forest
  /\ \A s \in Bytes : [bytes |-> s] \in forest /\ [text |-> s] \in forest
  /\ \A x \in BOOLEAN : [bool |-> x] \in forest
  /\ \A s \in Seq(forest) : [items |-> s] \in forest
  /\ \A s \in Seq([key : forest, val : forest]) : [entries |-> s] \in forest

\* Encode asks itself about the values in them.
Recurses(forest) ==
  \A v \in forest, depth \in Nat : NestedEncode(v, depth) = EncValue(v, depth)

\* The i-th value is one of them, and is written wherever its levels fit.
Written(i, H, forest) ==
  /\ Decoded[i] \in forest
  /\ \A depth \in Nat : depth + H[i] <= MaxDepth => Bytewise(i, depth)

\* An element is written where its container asks for it.
LEMMA KidWritten ==
  ASSUME NEW H, Settled(H), NEW i \in 1..Len(out), out[i].m \in {4, 5},
         NEW forest, Recurses(forest), NEW j \in 1..Len(out[i].kids),
         Written(out[i].kids[j], H, forest), NEW depth \in Nat, depth + H[i] <= MaxDepth
  PROVE  LET cut == KidCut(out[i])
         IN  NestedEncode(Decoded[out[i].kids[j]], depth + 1) = Done(Slice(cut[j], cut[j + 1]))
<1> DEFINE k == out[i].kids[j]
           cut == KidCut(out[i])
<1>1. k \in 1..Len(out) /\ H[k] < H[i] /\ H[i] \in 0..MaxDepth
  BY LowerKids, SettledFacts
<1>2. H[k] \in 0..MaxDepth
  BY <1>1, SettledFacts
<1>3. depth + 1 \in Nat /\ (depth + 1) + H[k] <= MaxDepth
  <2>1. depth \in Nat /\ depth + H[i] <= MaxDepth
    OBVIOUS
  <2> HIDE DEF k
  <2> QED
    BY ONLY <1>1, <1>2, <2>1, LimitsAssumption
<1>4. Bytewise(k, depth + 1) /\ Decoded[k] \in forest
  BY <1>3 DEF Written
<1>5. NestedEncode(Decoded[k], depth + 1) = EncValue(Decoded[k], depth + 1)
  BY <1>3, <1>4 DEF Recurses
<1>6. cut[j] = out[k].at /\ cut[j + 1] = out[k].end
  BY KidsCut
<1> QED
  BY <1>4, <1>5, <1>6 DEF Bytewise

\* It writes the arrays that were read.
LEMMA ArrayWritten ==
  ASSUME NEW H, Settled(H), NEW i \in 1..Len(out), out[i].m = 4,
         NEW forest, Forest(forest), Recurses(forest),
         \A j \in 1..Len(out[i].kids) : Written(out[i].kids[j], H, forest)
  PROVE  Written(i, H, forest)
<1> DEFINE v == out[i]
           n == Len(v.kids)
           cut == KidCut(v)
           s == [j \in 1..n |-> Decoded[v.kids[j]]]
<1>1. n \in Nat /\ v.arg = n /\ v.at \in Nat /\ v.body \in Nat /\ data \in Bytes /\ H[i] \in Nat
  BY SettledFacts, LimitsAssumption DEF Canonical
<1>2. Decoded[i] = [items |-> s]
  <2>1. Decoded[i] = Built(v, Decoded)
    BY DecodedFacts
  <2> QED
    BY <2>1 DEF Built
<1>3. s \in Seq(forest) /\ Len(s) = n
  <2>1. s \in [1..n -> forest]
    BY DEF Written
  <2> HIDE DEF s, n
  <2> QED
    BY <1>1, <2>1, IsSequence
<1>4. Decoded[i] \in forest
  <2> HIDE DEF s
  <2> QED
    BY <1>2, <1>3 DEF Forest
<1>5. ASSUME NEW depth \in Nat, depth + H[i] <= MaxDepth
      PROVE  Bytewise(i, depth)
  <2> DEFINE parts == [j \in DOMAIN s |-> NestedEncode(s[j], depth + 1)]
  <2>1. depth <= MaxDepth
    BY <1>1, <1>5, LimitsAssumption
  <2>2. EncValue([items |-> s], depth) = Join(EncHead(4, n), parts)
    <3>1. EncValue([items |-> s], depth)
            = Join(EncHead(4, Len(s)), [j \in DOMAIN s |-> NestedEncode(s[j], depth + 1)])
      <4> HIDE DEF s
      <4> QED
        BY <2>1, SwitchItems
    <3> HIDE DEF s
    <3> QED
      BY <1>3, <3>1
  <2>3. DOMAIN parts = 1..n
    OBVIOUS
  <2>4. \A j \in 1..n : parts[j] = Done(Slice(cut[j], cut[j + 1]))
    <3> TAKE j \in 1..n
    <3>1. parts[j] = NestedEncode(Decoded[v.kids[j]], depth + 1)
      OBVIOUS
    <3> HIDE DEF parts
    <3>2. NestedEncode(Decoded[v.kids[j]], depth + 1) = Done(Slice(cut[j], cut[j + 1]))
      BY <1>5, KidWritten
    <3> QED
      BY <3>1, <3>2
  <2> HIDE DEF parts, s
  <2>5. \A j \in 1..n : parts[j].err = "none" /\ parts[j].buf = Slice(cut[j], cut[j + 1])
    BY <2>4, DoneFields
  <2>6. Cuts(cut, n) /\ cut[1] = v.body /\ cut[n + 1] = v.end
    BY KidsCut
  <2>7. Slice(v.at, cut[1]) = EncHead(4, n) /\ v.at <= cut[1]
    BY <1>1, <2>6, HeadWritten
  <2> DEFINE from == v.at
  <2> HIDE DEF cut, n, from
  <2>8. Join(Slice(from, cut[1]), parts) = Done(Slice(from, cut[n + 1]))
    <3>1. data \in Bytes /\ n \in Nat /\ from \in Nat /\ from <= cut[1]
      BY <1>1, <2>7 DEF from
    <3> QED
      BY ONLY <3>1, <2>3, <2>5, <2>6, JoinSlices
  <2> QED
    BY <1>2, <2>2, <2>6, <2>7, <2>8 DEF Bytewise, from
<1> QED
  BY <1>4, <1>5 DEF Written

\* The places of the entries of a map, and the cuts between the entries.
LEMMA EntriesCut ==
  ASSUME NEW H, Settled(H), NEW i \in 1..Len(out), out[i].m = 5
  PROVE  LET v == out[i]
             h == v.arg
             cut == KidCut(v)
             ecut == EntryCut(v)
         IN  /\ h \in Nat /\ Len(v.kids) = 2 * h /\ Len(v.kids) \div 2 = h
             /\ Cuts(ecut, h) /\ ecut[1] = v.body /\ ecut[h + 1] = v.end
             /\ \A j \in 1..h : /\ 2 * j - 1 \in 1..Len(v.kids) /\ 2 * j \in 1..Len(v.kids)
                                /\ (2 * j - 1) % 2 = 1 /\ (2 * j - 1) + 1 = 2 * j
                                /\ ecut[j] = cut[2 * j - 1] /\ ecut[j + 1] = cut[2 * j + 1]
                                /\ cut[2 * j - 1] <= cut[2 * j] /\ cut[2 * j] <= cut[2 * j + 1]
<1> DEFINE v == out[i]
           h == v.arg
           n == Len(v.kids)
           cut == KidCut(v)
           ecut == EntryCut(v)
<1>1. n \in Nat /\ h \in Nat /\ n = 2 * h
  <2>1. Canonical(v) /\ v.m = 5 /\ n \in Nat /\ h \in Nat
    BY SettledFacts
  <2>2. n = IF v.m = 4 THEN h ELSE 2 * h
    BY <2>1 DEF Canonical
  <2> QED
    BY <2>1, <2>2
<1>2. Cuts(cut, n) /\ cut[1] = v.body /\ cut[n + 1] = v.end
  BY KidsCut
<1>3. \A j \in 1 .. h + 1 : ecut[j] = cut[2 * j - 1]
  BY DEF EntryCut
<1> HIDE DEF cut, ecut
<1>4. n \div 2 = h
  <2>1. (h * 2 + 0) \div 2 = h
    <3>1. 0 \in 0 .. 2 - 1 /\ 2 \in Nat \ {0}
      OBVIOUS
    <3> HIDE DEF h
    <3> QED
      BY <1>1, <3>1, Quotient
  <2>2. h * 2 + 0 = n
    BY <1>1
  <2> HIDE DEF n
  <2> QED
    BY <2>1, <2>2
<1> HIDE DEF n, h, v
<1>5. \A j \in 1..h : /\ 2 * j - 1 \in 1..n /\ 2 * j \in 1..n
                      /\ (2 * j - 1) + 1 = 2 * j /\ 2 * (j + 1) - 1 = 2 * j + 1
                      /\ j \in 1 .. h + 1 /\ j + 1 \in 1 .. h + 1
  BY <1>1
<1>6. \A j \in 1..h : (2 * j - 1) % 2 = 1
  <2> TAKE j \in 1..h
  <2>1. j - 1 \in Nat /\ 2 \in Nat \ {0} /\ 1 \in 0 .. 2 - 1 /\ (j - 1) * 2 + 1 = 2 * j - 1
    BY <1>1
  <2>2. ((j - 1) * 2 + 1) % 2 = 1
    BY <2>1, Quotient
  <2> QED
    BY <2>1, <2>2
<1>7. \A j \in 1..h : ecut[j] = cut[2 * j - 1] /\ ecut[j + 1] = cut[2 * j + 1]
  <2> TAKE j \in 1..h
  <2>1. ecut[j + 1] = cut[2 * (j + 1) - 1]
    BY <1>3, <1>5
  <2> QED
    BY <1>3, <1>5, <2>1
<1>8. \A j \in 1..h : cut[2 * j - 1] <= cut[2 * j] /\ cut[2 * j] <= cut[2 * j + 1]
  <2> TAKE j \in 1..h
  <2>1. \A k \in 1..n : cut[k] <= cut[k + 1]
    BY <1>2 DEF Cuts
  <2>2. cut[2 * j - 1] <= cut[(2 * j - 1) + 1]
    BY <1>5, <2>1
  <2> QED
    BY <1>5, <2>1, <2>2
<1>9. ecut[1] = v.body
  <2>1. 1 \in 1 .. h + 1 /\ 2 * 1 - 1 = 1
    BY <1>1
  <2> QED
    BY <1>2, <1>3, <2>1
<1>10. ecut[h + 1] = v.end
  <2>1. h + 1 \in 1 .. h + 1 /\ 2 * (h + 1) - 1 = n + 1
    BY <1>1
  <2> QED
    BY <1>2, <1>3, <2>1
<1>11. Cuts(ecut, h)
  <2>1. ASSUME NEW j \in 1 .. h + 1 PROVE ecut[j] \in Nat /\ ecut[j] <= Len(data)
    <3>1. 2 * j - 1 \in 1 .. n + 1
      BY <1>1
    <3> QED
      BY <1>2, <1>3, <3>1 DEF Cuts
  <2>2. ASSUME NEW j \in 1..h PROVE ecut[j] <= ecut[j + 1]
    <3>1. 2 * j - 1 \in 1 .. n + 1 /\ 2 * j \in 1 .. n + 1 /\ 2 * j + 1 \in 1 .. n + 1
      BY <1>1
    <3>2. cut[2 * j - 1] \in Nat /\ cut[2 * j] \in Nat /\ cut[2 * j + 1] \in Nat
      BY <1>2, <3>1 DEF Cuts
    <3> QED
      BY <1>7, <1>8, <3>2
  <2> QED
    BY <2>1, <2>2 DEF Cuts
<1> QED
  BY <1>1, <1>4, <1>5, <1>6, <1>7, <1>8, <1>9, <1>10, <1>11 DEF v, h, n, cut, ecut

\* The Go type of a key.
LEMMA KeyType ==
  ASSUME NEW H, Settled(H), NEW k \in 1..Len(out), out[k].m \in {0, 1, 3}
  PROVE  /\ Is(Decoded[k], "int") <=> out[k].m # 3
         /\ Is(Decoded[k], "text") <=> out[k].m = 3
<1>1. Decoded[k] = Built(out[k], Decoded)
  BY DecodedFacts
<1>2. CASE out[k].m = 3
  <2>1. Decoded[k] = [text |-> Slice(out[k].body, out[k].end)]
    BY <1>1, <1>2 DEF Built
  <2>2. DOMAIN Decoded[k] = {"text"}
    BY <2>1
  <2> QED
    BY <1>2, <2>2 DEF Is
<1>3. CASE out[k].m # 3
  <2>1. \E n : Decoded[k] = [int |-> n]
    <3>1. CASE out[k].m = 0
      <4>1. Decoded[k] = [int |-> out[k].arg]
        BY <1>1, <3>1 DEF Built
      <4> QED
        BY <4>1
    <3>2. CASE out[k].m = 1
      <4>1. Decoded[k] = [int |-> -(out[k].arg + 1)]
        BY <1>1, <3>2 DEF Built
      <4> QED
        BY <4>1
    <3> QED
      BY <1>3, <3>1, <3>2
  <2>2. DOMAIN Decoded[k] = {"int"}
    BY <2>1
  <2> QED
    BY <1>3, <2>2 DEF Is
<1> QED
  BY <1>2, <1>3

\* The entries of a map: those that Decode makes.
EntriesOf(v) ==
  [j \in 1..v.arg |-> [key |-> Decoded[v.kids[2 * j - 1]], val |-> Decoded[v.kids[2 * j]]]]

\* No key of a map has the wrong type.
LEMMA KeysTyped ==
  ASSUME NEW H, Settled(H), NEW i \in 1..Len(out), out[i].m = 5, NEW j \in 1..out[i].arg
  PROVE  KeyTypeError(EntriesOf(out[i]), j) = "none"
<1> DEFINE v == out[i]
           e == EntriesOf(v)
           k(a) == v.kids[2 * a - 1]
<1>1. v.arg \in Nat /\ 1 \in 1..v.arg
  BY SettledFacts
<1>2. \A a \in 1..v.arg : 2 * a - 1 \in 1..Len(v.kids) /\ (2 * a - 1) % 2 = 1
  BY EntriesCut
<1>3. KeysAscend(v.kids)
  BY SettledFacts DEF Canonical
<1>4. \A a \in 1..v.arg : k(a) \in 1..Len(out)
  BY <1>2, LowerKids
<1>5. \A a \in 1..v.arg : out[k(a)].m \in {0, 1, 3} /\ (out[k(a)].m = 3) = (out[k(1)].m = 3)
  BY <1>1, <1>2, <1>3 DEF KeysAscend, IsText
<1>6. \A a \in 1..v.arg : e[a].key = Decoded[k(a)]
  BY DEF EntriesOf
<1> HIDE DEF k, e, v
<1>7. \A a \in 1..v.arg : /\ Is(e[a].key, "int") <=> out[k(a)].m # 3
                          /\ Is(e[a].key, "text") <=> out[k(a)].m = 3
  <2> TAKE a \in 1..v.arg
  <2>1. k(a) \in 1..Len(out) /\ out[k(a)].m \in {0, 1, 3} /\ e[a].key = Decoded[k(a)]
    BY <1>4, <1>5, <1>6
  <2> QED
    BY <2>1, KeyType
<1>8. j \in 1..v.arg
  BY DEF v
<1>9. IsTextKey(e[j].key) = IsTextKey(e[1].key)
  <2>1. IsTextKey(e[j].key) <=> out[k(j)].m = 3
    BY <1>7, <1>8 DEF IsTextKey
  <2>2. IsTextKey(e[1].key) <=> out[k(1)].m = 3
    BY <1>1, <1>7 DEF IsTextKey
  <2>3. IsTextKey(e[j].key) \in BOOLEAN /\ IsTextKey(e[1].key) \in BOOLEAN
    BY DEF IsTextKey, Is
  <2> QED
    BY <1>5, <1>8, <2>1, <2>2, <2>3
<1>10. Is(e[j].key, "int") \/ Is(e[j].key, "text")
  BY <1>7, <1>8
<1>11. KeyTypeError(e, j) = "none"
  BY <1>9, <1>10 DEF KeyTypeError
<1> QED
  BY <1>11 DEF e, v

\* Encoding a map whose pairs come out in order keeps their order.
LEMMA EncMapInOrder ==
  ASSUME NEW n \in Nat, NEW entries, DOMAIN entries = 1..n, NEW depth,
         NEW pairs, pairs = [j \in 1..n |-> EncEntry(entries, j, depth)],
         \A j \in 1..n : pairs[j].err = "none" /\ pairs[j].key \in Bytes /\ pairs[j].buf \in Bytes,
         \A j, k \in 1..n : j < k => BytesLess(pairs[j].key, pairs[k].key)
  PROVE  EncMap(entries, depth) = Join(EncHead(5, n), pairs)
<1> DEFINE made == [j \in DOMAIN entries |-> EncEntry(entries, j, depth)]
           failed == \E j \in DOMAIN made : made[j].err # "none"
           sorted == SortPairs(made)
<1>1. made = pairs
  OBVIOUS
<1>2. pairs = [j \in 1..n |-> pairs[j]] /\ DOMAIN pairs = 1..n
  OBVIOUS
<1>3. pairs \in [1..n -> {pairs[j] : j \in 1..n}]
  BY <1>2
<1>4. Len(pairs) = n
  BY <1>3, IsSequence
<1>5. SortPairs(pairs) = pairs /\ \A j \in 1 .. n - 1 : pairs[j].key # pairs[j + 1].key
  <2>1. n \in Nat /\ (\A j \in 1..n : pairs[j].key \in Bytes)
        /\ \A j, k \in 1..n : j < k => BytesLess(pairs[j].key, pairs[k].key)
    OBVIOUS
  <2> QED
    BY ONLY <1>2, <2>1, SortedAlready
<1>6. EncMap(entries, depth)
        = IF ~failed /\ \E j \in 1..Len(sorted) - 1 : sorted[j].key = sorted[j + 1].key
          THEN Fail("duplicate-key")
          ELSE Join(EncHead(5, Len(made)), IF failed THEN made ELSE sorted)
  BY DEF EncMap
<1> HIDE DEF made
<1>7. ~failed
  BY <1>1, <1>2
<1>8. sorted = pairs
  BY <1>1, <1>5
<1> HIDE DEF failed, sorted
<1>9. ~ \E j \in 1..Len(sorted) - 1 : sorted[j].key = sorted[j + 1].key
  BY <1>4, <1>5, <1>8
<1>10. EncMap(entries, depth) = Join(EncHead(5, Len(made)), sorted)
  BY ONLY <1>6, <1>7, <1>9
<1> QED
  BY ONLY <1>1, <1>4, <1>8, <1>10

\* It writes the entries that were read.
LEMMA EntryWritten ==
  ASSUME NEW H, Settled(H), NEW i \in 1..Len(out), out[i].m = 5,
         NEW forest, Recurses(forest),
         \A j \in 1..Len(out[i].kids) : Written(out[i].kids[j], H, forest),
         NEW depth \in Nat, depth + H[i] <= MaxDepth, NEW j \in 1..out[i].arg
  PROVE  LET cut == KidCut(out[i])
             pair == EncEntry(EntriesOf(out[i]), j, depth)
         IN  /\ pair.err = "none" /\ pair.key = Slice(cut[2 * j - 1], cut[2 * j])
             /\ pair.buf = Slice(cut[2 * j - 1], cut[2 * j + 1])
             /\ pair.key \in Bytes /\ pair.buf \in Bytes
<1> DEFINE v == out[i]
           cut == KidCut(v)
           e == EntriesOf(v)
           x == 2 * j - 1
           y == 2 * j
           z == 2 * j + 1
<1>1. x \in 1..Len(v.kids) /\ y \in 1..Len(v.kids) /\ x + 1 = y /\ y + 1 = z
  BY EntriesCut
<1>2. cut[x] <= cut[y] /\ cut[y] <= cut[z]
  BY EntriesCut
<1>3. e[j].key = Decoded[v.kids[x]] /\ e[j].val = Decoded[v.kids[y]]
  BY DEF EntriesOf
<1>4. KeyTypeError(e, j) = "none"
  BY KeysTyped
<1>5. Cuts(cut, Len(v.kids)) /\ Len(v.kids) \in Nat /\ data \in Bytes
  BY KidsCut, SettledFacts
<1>6. out[i].m \in {4, 5}
  OBVIOUS
<1> HIDE DEF x, y, z
<1>7. NestedEncode(Decoded[v.kids[x]], depth + 1) = Done(Slice(cut[x], cut[y]))
  BY <1>1, <1>6, KidWritten
<1>8. NestedEncode(Decoded[v.kids[y]], depth + 1) = Done(Slice(cut[y], cut[z]))
  BY <1>1, <1>6, KidWritten
<1>9. /\ cut[x] \in Nat /\ cut[y] \in Nat /\ cut[z] \in Nat
      /\ cut[y] <= Len(data) /\ cut[z] <= Len(data)
  <2>1. x \in 1..Len(v.kids) + 1 /\ y \in 1..Len(v.kids) + 1 /\ z \in 1..Len(v.kids) + 1
    BY <1>1, <1>5
  <2> QED
    BY <1>5, <2>1 DEF Cuts
<1> HIDE DEF e, cut, v
<1> DEFINE a == Slice(cut[x], cut[y])
           c == Slice(cut[y], cut[z])
           pair == EncEntry(e, j, depth)
<1>10. pair = [err |-> "none", key |-> a, buf |-> a \o c]
  <2>1. /\ NestedEncode(e[j].key, depth + 1).err = "none" /\ NestedEncode(e[j].key, depth + 1).buf = a
        /\ NestedEncode(e[j].val, depth + 1).err = "none" /\ NestedEncode(e[j].val, depth + 1).buf = c
    BY <1>3, <1>7, <1>8, DoneFields
  <2> HIDE DEF a, c
  <2> QED
    BY <1>4, <2>1 DEF EncEntry
<1>11. a \o c = Slice(cut[x], cut[z])
  BY <1>2, <1>5, <1>9, SliceJoin
<1>12. a \in Bytes /\ Slice(cut[x], cut[z]) \in Bytes
  BY <1>2, <1>5, <1>9, SliceFacts
<1> HIDE DEF pair, a, c
<1>13. /\ pair.err = "none" /\ pair.key = a /\ pair.buf = Slice(cut[x], cut[z])
       /\ pair.key \in Bytes /\ pair.buf \in Bytes
  BY <1>10, <1>11, <1>12
<1> QED
  BY <1>13 DEF pair, a, e, cut, v, x, y, z

\* It writes the maps that were read.
LEMMA MapWritten ==
  ASSUME NEW H, Settled(H), NEW i \in 1..Len(out), out[i].m = 5,
         NEW forest, Forest(forest), Recurses(forest),
         \A j \in 1..Len(out[i].kids) : Written(out[i].kids[j], H, forest)
  PROVE  Written(i, H, forest)
<1> DEFINE v == out[i]
           h == v.arg
           cut == KidCut(v)
           ecut == EntryCut(v)
           e == EntriesOf(v)
<1>1. h \in Nat /\ v.at \in Nat /\ v.body \in Nat /\ data \in Bytes /\ H[i] \in Nat
  BY SettledFacts, LimitsAssumption
<1>2. /\ Len(v.kids) \div 2 = h /\ Cuts(ecut, h) /\ ecut[1] = v.body /\ ecut[h + 1] = v.end
      /\ \A j \in 1..h : /\ 2 * j - 1 \in 1..Len(v.kids) /\ 2 * j \in 1..Len(v.kids)
                         /\ (2 * j - 1) % 2 = 1 /\ (2 * j - 1) + 1 = 2 * j
                         /\ ecut[j] = cut[2 * j - 1] /\ ecut[j + 1] = cut[2 * j + 1]
  BY EntriesCut
<1>3. Decoded[i] = [entries |-> e]
  <2>1. Decoded[i] = Built(v, Decoded)
    BY DecodedFacts
  <2>2. Len(v.kids) \div 2 = h /\ v.m = 5
    BY <1>2
  <2>3. Built(v, Decoded) = [entries |-> [j \in 1..Len(v.kids) \div 2 |->
                               [key |-> Decoded[v.kids[2 * j - 1]], val |-> Decoded[v.kids[2 * j]]]]]
    BY <2>2 DEF Built
  <2>4. e = [j \in 1..h |-> [key |-> Decoded[v.kids[2 * j - 1]], val |-> Decoded[v.kids[2 * j]]]]
    BY DEF EntriesOf
  <2> HIDE DEF e
  <2> QED
    BY ONLY <2>1, <2>2, <2>3, <2>4
<1>4. e \in Seq([key : forest, val : forest]) /\ DOMAIN e = 1..h
  <2>1. e \in [1..h -> [key : forest, val : forest]]
    BY <1>2 DEF Written, EntriesOf
  <2> HIDE DEF e, h
  <2> QED
    BY <1>1, <2>1, IsSequence
<1>5. Decoded[i] \in forest
  <2> HIDE DEF e
  <2> QED
    BY <1>3, <1>4 DEF Forest
<1>6. KeysAscend(v.kids)
  BY SettledFacts DEF Canonical
<1>7. \A j \in 1..Len(v.kids) : cut[j] = out[v.kids[j]].at /\ cut[j + 1] = out[v.kids[j]].end
  BY KidsCut
<1>8. ASSUME NEW depth \in Nat, depth + H[i] <= MaxDepth
      PROVE  Bytewise(i, depth)
  <2> DEFINE pairs == [j \in 1..h |-> EncEntry(e, j, depth)]
  <2>1. depth <= MaxDepth
    BY <1>1, <1>8, LimitsAssumption
  <2>2. \A j \in 1..h : /\ pairs[j].err = "none" /\ pairs[j].key = Slice(cut[2 * j - 1], cut[2 * j])
                        /\ pairs[j].buf = Slice(cut[2 * j - 1], cut[2 * j + 1])
                        /\ pairs[j].key \in Bytes /\ pairs[j].buf \in Bytes
    <3> TAKE j \in 1..h
    <3>1. pairs[j] = EncEntry(EntriesOf(out[i]), j, depth)
      OBVIOUS
    <3> HIDE DEF pairs
    <3> QED
      BY <1>8, <3>1, EntryWritten
  <2>3. \A j \in 1..h : pairs[j].buf = Slice(ecut[j], ecut[j + 1])
    <3> HIDE DEF pairs, ecut, cut
    <3> QED
      BY <1>2, <2>2
  <2>4. \A j, k \in 1..h : j < k => BytesLess(pairs[j].key, pairs[k].key)
    <3> SUFFICES ASSUME NEW j \in 1..h, NEW k \in 1..h, j < k
                 PROVE  BytesLess(pairs[j].key, pairs[k].key)
      OBVIOUS
    <3> DEFINE p == out[v.kids[2 * j - 1]]
               q == out[v.kids[2 * k - 1]]
    <3>1. BytesLess(Slice(p.at, p.end), Slice(q.at, q.end))
      <4>1. 2 * j - 1 < 2 * k - 1
        BY <1>1
      <4> QED
        BY <1>2, <1>6, <4>1 DEF KeysAscend, KeyBytes
    <3>2. cut[2 * j - 1] = p.at /\ cut[2 * j] = p.end
      BY <1>2, <1>7
    <3>3. cut[2 * k - 1] = q.at /\ cut[2 * k] = q.end
      BY <1>2, <1>7
    <3> HIDE DEF p, q, pairs, cut
    <3> QED
      BY <2>2, <3>1, <3>2, <3>3
  <2>5. EncMap(e, depth) = Join(EncHead(5, h), pairs)
    <3>1. pairs = [j \in 1..h |-> EncEntry(e, j, depth)]
      OBVIOUS
    <3>2. \A j \in 1..h : pairs[j].err = "none" /\ pairs[j].key \in Bytes /\ pairs[j].buf \in Bytes
      <4> HIDE DEF pairs
      <4> QED
        BY <2>2
    <3>3. DOMAIN e = 1..h /\ h \in Nat
      BY <1>1, <1>4
    <3> HIDE DEF pairs, e, h
    <3> QED
      BY ONLY <2>4, <3>1, <3>2, <3>3, EncMapInOrder
  <2>6. EncValue([entries |-> e], depth) = Join(EncHead(5, h), pairs)
    <3> HIDE DEF pairs, e
    <3> QED
      BY <2>1, <2>5, SwitchEntries
  <2>7. Slice(v.at, ecut[1]) = EncHead(5, h) /\ v.at <= ecut[1]
    <3>1. ecut[1] = v.body
      BY <1>2
    <3>2. Slice(v.at, v.body) = EncHead(v.m, h) /\ v.at < v.body /\ v.m = 5
      BY HeadWritten
    <3> QED
      BY <1>1, <3>1, <3>2
  <2>8. DOMAIN pairs = 1..h
    OBVIOUS
  <2>9. \A j \in 1..h : pairs[j].err = "none" /\ pairs[j].buf = Slice(ecut[j], ecut[j + 1])
    <3> HIDE DEF pairs, ecut
    <3> QED
      BY <2>2, <2>3
  <2> DEFINE from == v.at
  <2> HIDE DEF pairs, e, ecut, h, from
  <2>10. Join(Slice(from, ecut[1]), pairs) = Done(Slice(from, ecut[h + 1]))
    <3>1. data \in Bytes /\ h \in Nat /\ from \in Nat /\ from <= ecut[1] /\ Cuts(ecut, h)
      BY <1>1, <1>2, <2>7 DEF from
    <3> QED
      BY ONLY <3>1, <2>8, <2>9, JoinSlices
  <2> QED
    BY <1>2, <1>3, <2>6, <2>7, <2>10 DEF Bytewise, from
<1> QED
  BY <1>5, <1>8 DEF Written
-----------------------------------------------------------------------------
(***************************************************************************)
(* The whole: level by level every value is written as it was read, and    *)
(* the last one is the input.                                              *)
(***************************************************************************)
\* Encode writes every value as it was read.
LEMMA AllWritten ==
  ASSUME NEW H, Settled(H), NEW forest, Forest(forest), Recurses(forest)
  PROVE  \A i \in 1..Len(out) : Written(i, H, forest)
<1> DEFINE S == {h \in Nat : \E i \in 1..Len(out) : H[i] = h /\ ~Written(i, H, forest)}
<1> SUFFICES ASSUME NEW bad \in 1..Len(out), ~Written(bad, H, forest) PROVE FALSE
  OBVIOUS
<1>1. H[bad] \in S
  BY SettledFacts, LimitsAssumption
<1>2. PICK m \in S : \A k \in S : m <= k
  <2>1. S \in SUBSET Nat
    OBVIOUS
  <2> HIDE DEF S
  <2> QED
    BY <1>1, <2>1, LeastMember
<1>3. PICK i \in 1..Len(out) : H[i] = m /\ ~Written(i, H, forest)
  OBVIOUS
<1>4. ASSUME out[i].m \in {4, 5}, NEW j \in 1..Len(out[i].kids)
      PROVE  Written(out[i].kids[j], H, forest)
  <2> DEFINE k == out[i].kids[j]
  <2>1. k \in 1..Len(out) /\ H[k] < m
    <3>1. Settled(H) /\ i \in 1..Len(out) /\ H[i] = m
      BY <1>3
    <3> QED
      BY ONLY <1>4, <3>1, LowerKids
  <2>2. H[k] \in Nat /\ m \in Nat
    <3>1. H[k] \in 0..MaxDepth
      BY <2>1, SettledFacts
    <3> QED
      BY <3>1, LimitsAssumption
  <2>3. H[k] \notin S
    <3> HIDE DEF S, k
    <3> QED
      BY <1>2, <2>1, <2>2
  <2> HIDE DEF k
  <2> QED
    BY <2>1, <2>2, <2>3 DEF k
<1> HIDE DEF S
<1>5. out[i].m \in Majors /\ H[i] \in Nat /\ Decoded[i] = Built(out[i], Decoded)
  BY SettledFacts, DecodedFacts, LimitsAssumption
<1>6. CASE out[i].m = 4
  BY <1>3, <1>4, <1>6, ArrayWritten
<1>7. CASE out[i].m = 5
  BY <1>3, <1>4, <1>7, MapWritten
<1>8. ASSUME out[i].m \in {0, 1, 2, 3, 7} PROVE FALSE
  <2>1. \A depth \in Nat : depth + H[i] <= MaxDepth => Bytewise(i, depth)
    <3> SUFFICES ASSUME NEW depth \in Nat, depth + H[i] <= MaxDepth PROVE Bytewise(i, depth)
      OBVIOUS
    <3>1. depth <= MaxDepth
      BY <1>5, LimitsAssumption
    <3> QED
      BY <1>8, <3>1, IntegerWritten, StringWritten, BooleanWritten
  <2>2. Decoded[i] \in forest
    <3>1. out[i].arg \in Nat
      BY SettledFacts
    <3>2. CASE out[i].m = 0
      <4>1. Decoded[i] = [int |-> out[i].arg]
        BY <1>5, <3>2 DEF Built
      <4> QED
        BY <3>1, <4>1 DEF Forest
    <3>3. CASE out[i].m = 1
      <4>1. Decoded[i] = [int |-> -(out[i].arg + 1)] /\ -(out[i].arg + 1) \in Int
        BY <1>5, <3>1, <3>3 DEF Built
      <4> QED
        BY <4>1 DEF Forest
    <3>4. CASE out[i].m \in {2, 3}
      <4> DEFINE s == Slice(out[i].body, out[i].end)
      <4>1. s \in Bytes
        <5>1. out[i].body <= out[i].end
          BY <3>1, <3>4, SettledFacts DEF Canonical
        <5> QED
          BY <5>1, SettledFacts, SliceFacts
      <4>2. Decoded[i] = [bytes |-> s] \/ Decoded[i] = [text |-> s]
        <5>1. CASE out[i].m = 2
          BY <1>5, <5>1 DEF Built
        <5>2. CASE out[i].m = 3
          BY <1>5, <5>2 DEF Built
        <5> QED
          BY <3>4, <5>1, <5>2
      <4> HIDE DEF s
      <4> QED
        BY <4>1, <4>2 DEF Forest
    <3>5. CASE out[i].m = 7
      <4>1. Decoded[i] = [bool |-> out[i].arg = SimpleTrue] /\ (out[i].arg = SimpleTrue) \in BOOLEAN
        BY <1>5, <3>5 DEF Built
      <4> QED
        BY <4>1 DEF Forest
    <3> QED
      BY <1>8, <3>2, <3>3, <3>4, <3>5
  <2> QED
    BY <1>3, <2>1, <2>2 DEF Written
<1> QED
  BY <1>5, <1>6, <1>7, <1>8 DEF Majors

\* So the last value, which is the whole input, is written as the whole input.
LEMMA ResultWritten ==
  ASSUME NEW forest, Forest(forest), Recurses(forest), ArtifactInv, outcome.kind = "value"
  PROVE  Result \in forest /\ Encode(Result) = Done(data)
<1>1. PICK H : Bounded(H)
  BY DEF ArtifactInv, Leveled
<1>2. Settled(H)
  BY <1>1 DEF Settled, ArtifactInv, CanonInv
<1> DEFINE i == Len(out)
<1>3. out # <<>> /\ out[i].at = 0 /\ out[i].end = Len(data)
  BY <1>2 DEF Settled, VerdictOK, Returned
<1>4. i \in 1..Len(out)
  BY <1>2, <1>3, ReturnedType DEF Settled, TypeInv
<1>5. Written(i, H, forest) /\ H[i] \in 0..MaxDepth
  BY <1>2, <1>4, AllWritten, SettledFacts
<1>6. Bytewise(i, 0)
  BY <1>5, LimitsAssumption DEF Written
<1>7. Slice(0, Len(data)) = data
  <2>1. data \in Bytes /\ Len(data) \in Nat
    BY <1>2, <1>4, SettledFacts
  <2>2. /\ Slice(0, Len(data)) \in Seq(Byte) /\ Len(Slice(0, Len(data))) = Len(data) - 0
        /\ \A k \in 1..Len(data) - 0 : Slice(0, Len(data))[k] = data[0 + k]
    <3>1. 0 \in Nat /\ 0 <= Len(data) /\ Len(data) <= Len(data)
      BY <2>1
    <3> QED
      BY <2>1, <3>1, SliceFacts
  <2> QED
    BY <2>1, <2>2, SeqEqual DEF Bytes
<1> QED
  BY <1>3, <1>5, <1>6, <1>7 DEF Written, Bytewise, Encode, Result

\* What is accepted is encoded as it was.
LEMMA ReencodesNow ==
  ASSUME NEW forest, Forest(forest), Recurses(forest), ArtifactInv
  PROVE  AcceptedReencodes
BY ResultWritten DEF AcceptedReencodes

\* Whatever Decode accepts, Encode writes back byte for byte, when the encoder
\* asks itself about inner values.
THEOREM AcceptedIsReencoded ==
  ASSUME NEW CONSTANT forest, Forest(forest), Recurses(forest)
  PROVE  Spec => []AcceptedReencodes
<1>1. Init => ArtifactInv
  BY ArtifactInit
<1>2. ArtifactInv /\ [Next]_vars => ArtifactInv'
  BY ArtifactStep
<1>3. ArtifactInv => AcceptedReencodes
  BY ReencodesNow
<1> QED
  BY <1>1, <1>2, <1>3, PTL DEF Spec
=============================================================================
