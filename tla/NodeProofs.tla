----------------------------- MODULE NodeProofs -----------------------------
(***************************************************************************)
(* Proofs about Node: the tables a node holds stay sound, what it has read *)
(* under them stays what it read, and says what the artifact says, and the *)
(* tables come back from the artifacts they are written as.                *)
(*                                                                         *)
(* The theorems speak of artifacts that are finite trees, as everything    *)
(* that was decoded is, and of NestedValue and NestedType that are what    *)
(* the source has there: calls of the functions they stand in.             *)
(***************************************************************************)
EXTENDS Reload, SequenceTheorems, WellFoundedInduction, TLAPS

\* interpretValue and parseTypeDescriptor call themselves, on the values of
\* forest and on what those were interpreted as.
Tied(forest) ==
  \A v \in forest : \A tables, version :
    /\ \A td : NestedValue(td, v, tables, version) = InterpretValue(td, v, tables, version)
    /\ \A table : LET r == InterpretMap(table, v, tables, version)
                  IN  r.err = "none" => NestedType(r.val) = ParseTypeDescriptor(r.val)

\* v is a value that Decode may give, with its elements in S.
Decoded(v, S) ==
  \/ v \in [int : Int]
  \/ DOMAIN v \in {{"bytes"}, {"text"}, {"bool"}}
  \/ v \in [items : Seq(S)]
  \/ v \in [entries : Seq([key : S, val : S])]

\* The members of forest are decoded values, with all of their elements, and
\* finite: an element is lower than the value it is in.
Trees(forest, height) ==
  /\ height \in [forest -> Nat]
  /\ \A v \in forest :
       /\ Decoded(v, forest)
       /\ Is(v, "items") =>
            \A i \in DOMAIN v.items : height[v.items[i]] < height[v]
       /\ Is(v, "entries") =>
            \A i \in DOMAIN v.entries : height[v.entries[i].val] < height[v]
-----------------------------------------------------------------------------
(***************************************************************************)
(* Least members, and the loops that stop at the first failure.            *)
(***************************************************************************)
\* Min gives the least member of a set of natural numbers.
LEMMA MinFacts ==
  ASSUME NEW S \in SUBSET Nat, S # {}
  PROVE  Min(S) \in S /\ \A k \in S : Min(S) <= k
<1> DEFINE R == OpToRel(<, Nat)
<1>1. PICK m \in S : \A k \in S : ~(<<k, m>> \in R)
  BY NatLessThanWellFounded, WFMin
<1>2. \A k \in S : ~(k < m)
  BY <1>1 DEF OpToRel
<1>3. \E x \in S : \A y \in S : x <= y
  BY <1>2
<1> QED
  BY <1>3 DEF Min

\* The greatest member of a set of numbers up to n.
LEMMA MaxFacts ==
  ASSUME NEW n \in Nat, NEW S \in SUBSET (1..n), S # {}
  PROVE  Max(S) \in S /\ \A k \in S : Max(S) >= k
<1> DEFINE T == {n - k : k \in S}
<1>1. T \in SUBSET Nat /\ T # {}
  <2>1. \A k \in S : n - k \in Nat
    OBVIOUS
  <2> QED
    BY <2>1
<1>2. Min(T) \in T /\ \A t \in T : Min(T) <= t
  BY <1>1, MinFacts
<1>3. PICK x \in S : Min(T) = n - x
  BY <1>2
<1>4. \A y \in S : x >= y
  <2> TAKE y \in S
  <2>1. n - y \in T
    OBVIOUS
  <2>2. n - x <= n - y
    BY <1>2, <1>3, <2>1
  <2>3. x \in 1..n /\ y \in 1..n
    OBVIOUS
  <2> QED
    BY ONLY n \in Nat, <2>2, <2>3
<1> QED
  BY <1>4 DEF Max

\* What the turns of a loop gave, one by one.
LEMMA ValuesFacts ==
  ASSUME NEW n \in Nat, NEW r, DOMAIN r = 1..n
  PROVE  /\ Values(r) = [i \in 1..n |-> r[i].val]
         /\ DOMAIN Values(r) = 1..n /\ Len(Values(r)) = n
         /\ \A i \in 1..n : Values(r)[i] = r[i].val
<1> DEFINE T == {r[i].val : i \in 1..n}
           s == [i \in 1..n |-> r[i].val]
<1>1. s \in Seq(T)
  OBVIOUS
<1>2. s \o <<>> = s
  BY <1>1, ConcatEmptySeq
<1>3. Values(r) = s
  BY <1>2 DEF Values
<1>4. Len(s) = n
  BY <1>1, LenProperties
<1> QED
  BY <1>3, <1>4

\* Failures come at places of the loop.
LEMMA FailingPlaces ==
  ASSUME NEW n \in Nat, NEW r, DOMAIN r = 1..n, Failing(r) # {}
  PROVE  /\ Failing(r) \in SUBSET (1..n) /\ Min(Failing(r)) \in Failing(r)
         /\ \A k \in Failing(r) : Min(Failing(r)) <= k
<1>1. Failing(r) \in SUBSET (1..n)
  BY DEF Failing
<1>2. Failing(r) \in SUBSET Nat
  BY <1>1
<1> QED
  BY <1>1, <1>2, MinFacts

\* A loop that no turn of which fails gives what its turns gave.
LEMMA AllSucceed ==
  ASSUME NEW n \in Nat, NEW r, DOMAIN r = 1..n, All(r).err = "none"
  PROVE  (\A i \in 1..n : r[i].err = "none") /\ All(r) = Ok(Values(r))
<1>1. CASE Failing(r) = {}
  BY <1>1 DEF All, Failing
<1>2. CASE Failing(r) # {}
  <2>1. Min(Failing(r)) \in Failing(r)
    BY <1>2, FailingPlaces
  <2> QED
    BY <1>2, <2>1 DEF All, Failing
<1> QED
  BY <1>1, <1>2

\* A loop that fails gives the first failure of a turn.
LEMMA AllFail ==
  ASSUME NEW n \in Nat, NEW r, DOMAIN r = 1..n, All(r).err # "none"
  PROVE  \E m \in 1..n : All(r) = r[m] /\ \A j \in 1..n : j < m => r[j].err = "none"
<1>1. Failing(r) # {}
  BY DEF All, Ok
<1> DEFINE m == Min(Failing(r))
<1>2. /\ Failing(r) \in SUBSET (1..n) /\ m \in Failing(r)
      /\ \A k \in Failing(r) : m <= k
  BY <1>1, FailingPlaces
<1>3. All(r) = r[m]
  BY <1>1 DEF All
<1> HIDE DEF m
<1>4. \A j \in 1..n : j < m => r[j].err = "none"
  BY <1>2 DEF Failing
<1> QED
  BY <1>2, <1>3, <1>4

\* Two loops the turns of which give the same, as long as the first is not at a
\* loss for a table, give the same or the first is at a loss.
LEMMA AllSame ==
  ASSUME NEW n \in Nat, NEW r, DOMAIN r = 1..n, NEW s, DOMAIN s = 1..n,
         \A i \in 1..n : r[i].err = "unresolved-ref" \/ r[i] = s[i]
  PROVE  All(r).err = "unresolved-ref" \/ All(r) = All(s)
<1> SUFFICES ASSUME All(r).err # "unresolved-ref" PROVE All(r) = All(s)
  OBVIOUS
<1>1. CASE Failing(r) = {}
  <2>1. \A i \in 1..n : r[i].err = "none" /\ r[i] = s[i]
    BY <1>1 DEF Failing
  <2>2. Failing(s) = {}
    BY <2>1 DEF Failing
  <2>3. Values(r) = Values(s)
    BY <2>1, ValuesFacts
  <2> QED
    BY <1>1, <2>2, <2>3 DEF All
<1>2. CASE Failing(r) # {}
  <2> DEFINE m == Min(Failing(r))
  <2>1. m \in Failing(r) /\ \A k \in Failing(r) : m <= k
    BY <1>2, FailingPlaces
  <2>2. All(r) = r[m]
    BY <1>2 DEF All
  <2> HIDE DEF m
  <2>3. m \in 1..n /\ r[m] = s[m] /\ s[m].err # "none"
    BY <2>1, <2>2 DEF Failing
  <2>4. \A j \in 1..n : j < m => s[j].err = "none"
    BY <2>1, <2>3 DEF Failing
  <2>5. m \in Failing(s) /\ \A k \in Failing(s) : m <= k
    BY <2>3, <2>4 DEF Failing
  <2>6. Min(Failing(s)) = m
    <3> DEFINE k == Min(Failing(s))
    <3>1. k \in Failing(s) /\ Failing(s) \in SUBSET (1..n) /\ \A j \in Failing(s) : k <= j
      BY <2>5, FailingPlaces
    <3> HIDE DEF k
    <3>2. k <= m /\ m <= k /\ k \in 1..n /\ m \in 1..n
      BY <2>5, <3>1
    <3>3. k = m
      BY <3>2
    <3> QED
      BY <3>3 DEF k
  <2>7. All(s) = s[m]
    BY <2>5, <2>6 DEF All
  <2> QED
    BY <2>2, <2>3, <2>7
<1> QED
  BY <1>1, <1>2
-----------------------------------------------------------------------------
(***************************************************************************)
(* Interpretation, one level at a time.                                    *)
(***************************************************************************)
\* A decoded value has one Go type, and elements that are lower than it is.
LEMMA Shapes ==
  ASSUME NEW forest, NEW height, Trees(forest, height), NEW v \in forest
  PROVE  /\ height[v] \in Nat
         /\ \A f : Is(v, f) => DOMAIN v = {f}
         /\ Is(v, "int") => v = [int |-> v.int] /\ v.int \in Int
         /\ Is(v, "items") =>
              /\ Len(v.items) \in Nat /\ DOMAIN v.items = 1..Len(v.items)
              /\ \A i \in 1..Len(v.items) :
                   v.items[i] \in forest /\ height[v.items[i]] < height[v]
         /\ Is(v, "entries") =>
              /\ Len(v.entries) \in Nat /\ DOMAIN v.entries = 1..Len(v.entries)
              /\ \A i \in 1..Len(v.entries) :
                   /\ v.entries[i].key \in forest /\ v.entries[i].val \in forest
                   /\ height[v.entries[i].val] < height[v]
<1>1. height[v] \in Nat /\ Decoded(v, forest)
  BY DEF Trees
<1>2. CASE v \in [int : Int]
  BY <1>1, <1>2 DEF Is
<1>3. CASE DOMAIN v \in {{"bytes"}, {"text"}, {"bool"}}
  BY <1>1, <1>3 DEF Is
<1>4. CASE v \in [items : Seq(forest)]
  <2>1. v.items \in Seq(forest) /\ DOMAIN v = {"items"}
    BY <1>4
  <2>2. Len(v.items) \in Nat /\ DOMAIN v.items = 1..Len(v.items)
        /\ \A i \in 1..Len(v.items) : v.items[i] \in forest
    BY <2>1, LenProperties, ElementOfSeq
  <2> QED
    BY <1>1, <2>1, <2>2 DEF Is, Trees
<1>5. CASE v \in [entries : Seq([key : forest, val : forest])]
  <2>1. v.entries \in Seq([key : forest, val : forest]) /\ DOMAIN v = {"entries"}
    BY <1>5
  <2>2. Len(v.entries) \in Nat /\ DOMAIN v.entries = 1..Len(v.entries)
        /\ \A i \in 1..Len(v.entries) : v.entries[i] \in [key : forest, val : forest]
    BY <2>1, LenProperties, ElementOfSeq
  <2> QED
    BY <1>1, <2>1, <2>2 DEF Is, Trees
<1> QED
  BY <1>1, <1>2, <1>3, <1>4, <1>5 DEF Decoded

\* Where the source calls interpretValue on an inner value, it is interpretValue.
LEMMA NestedCall ==
  ASSUME NEW forest, Tied(forest), NEW v \in forest, NEW td, NEW tables, NEW version
  PROVE  NestedValue(td, v, tables, version) = InterpretValue(td, v, tables, version)
BY DEF Tied

\* A field that is accepted has an integer for its key, which names an entry.
LEMMA EntryFacts ==
  ASSUME NEW forest, Tied(forest), NEW table, NEW e, e.val \in forest,
         NEW tables, NEW version,
         InterpretEntry(table, e, tables, version).err = "none"
  PROVE  LET key == NativeInt(e.key.int)
             x   == InterpretValue(EntryByKey(table, key).type, e.val, tables, version)
         IN  /\ Is(e.key, "int") /\ IsInt64(e.key.int) /\ Named(table, key) # {}
             /\ x.err = "none"
             /\ InterpretEntry(table, e, tables, version) = Ok([key |-> key, val |-> x.val])
<1> DEFINE key == NativeInt(e.key.int)
           x == InterpretValue(EntryByKey(table, key).type, e.val, tables, version)
<1>1. Is(e.key, "int") /\ IsInt64(e.key.int)
  BY DEF InterpretEntry, Bad
<1>2. InterpretEntry(table, e, tables, version) = InterpretField(table, key, e.val, tables, version)
  BY <1>1 DEF InterpretEntry
<1>3. Named(table, key) # {}
  BY <1>2 DEF InterpretField, Bad
<1>4. NestedValue(EntryByKey(table, key).type, e.val, tables, version) = x
  BY NestedCall
<1>5. InterpretField(table, key, e.val, tables, version)
        = Then(x, LAMBDA y : Ok([key |-> key, val |-> y]))
  BY <1>3, <1>4 DEF InterpretField
<1>6. x.err = "none"
  BY <1>2, <1>5 DEF Then
<1>7. InterpretField(table, key, e.val, tables, version) = Ok([key |-> key, val |-> x.val])
  BY <1>5, <1>6 DEF Then
<1> QED
  BY <1>1, <1>2, <1>3, <1>6, <1>7

\* An instance holds the fields that the turns of the loop gave.
LEMMA MapFacts ==
  ASSUME NEW forest, NEW height, Trees(forest, height), NEW v \in forest,
         NEW table, NEW tables, NEW version, InterpretMap(table, v, tables, version).err = "none"
  PROVE  LET n     == Len(v.entries)
             pairs == [i \in 1..n |-> InterpretEntry(table, v.entries[i], tables, version).val]
         IN  /\ Is(v, "entries")
             /\ \A i \in 1..n : InterpretEntry(table, v.entries[i], tables, version).err = "none"
             /\ InterpretMap(table, v, tables, version)
                  = Ok([table |-> table, version |-> version, fields |-> FieldsOf(pairs)])
<1> DEFINE n == Len(v.entries)
           r == [i \in DOMAIN v.entries |-> InterpretEntry(table, v.entries[i], tables, version)]
           pairs == [i \in 1..n |-> InterpretEntry(table, v.entries[i], tables, version).val]
<1>1. Is(v, "entries")
  BY DEF InterpretMap, Bad
<1>2. n \in Nat /\ DOMAIN v.entries = 1..n
  BY <1>1, Shapes
<1>3. InterpretMap(table, v, tables, version)
        = Then(All(r), LAMBDA x : Ok([table |-> table, version |-> version, fields |-> FieldsOf(x)]))
  BY <1>1 DEF InterpretMap
<1>4. All(r).err = "none"
  BY <1>3 DEF Then
<1>5. n \in Nat /\ DOMAIN r = 1..n
  BY <1>2
<1>6. (\A i \in 1..n : r[i].err = "none") /\ All(r) = Ok(Values(r))
  <2> HIDE DEF r, n
  <2> QED
    BY <1>4, <1>5, AllSucceed
<1>7. Values(r) = pairs
  <2>1. Values(r) = [i \in 1..n |-> r[i].val]
    <3> HIDE DEF r, n
    <3> QED
      BY <1>5, ValuesFacts
  <2> QED
    BY <1>2, <2>1
<1>8. InterpretMap(table, v, tables, version)
        = Ok([table |-> table, version |-> version, fields |-> FieldsOf(pairs)])
  BY <1>3, <1>4, <1>6, <1>7 DEF Then, Ok
<1> QED
  BY <1>1, <1>2, <1>6, <1>8

\* A field of an instance is one of the artifact, interpreted as its entry says.
LEMMA FieldFacts ==
  ASSUME NEW forest, NEW height, Trees(forest, height), Tied(forest), NEW v \in forest,
         NEW table, NEW tables, NEW version, InterpretMap(table, v, tables, version).err = "none",
         NEW k \in DOMAIN InterpretMap(table, v, tables, version).val.fields
  PROVE  \E i \in 1..Len(v.entries) :
           LET e == v.entries[i]
           IN  /\ Is(e.key, "int") /\ IsInt64(e.key.int) /\ k = NativeInt(e.key.int)
               /\ Named(table, k) # {}
               /\ InterpretValue(EntryByKey(table, k).type, e.val, tables, version).err = "none"
               /\ InterpretMap(table, v, tables, version).val.fields[k]
                    = InterpretValue(EntryByKey(table, k).type, e.val, tables, version).val
<1> DEFINE n == Len(v.entries)
           r(i) == InterpretEntry(table, v.entries[i], tables, version)
           pairs == [i \in 1..n |-> r(i).val]
           fields == InterpretMap(table, v, tables, version).val.fields
           S == {i \in 1..n : pairs[i].key = k}
<1>1. Is(v, "entries") /\ (\A i \in 1..n : r(i).err = "none") /\ fields = FieldsOf(pairs)
  BY MapFacts DEF Ok
<1>2. n \in Nat
  BY <1>1, Shapes
<1>3. DOMAIN pairs = 1..n
  OBVIOUS
<1>4. S # {} /\ fields[k] = pairs[Max(S)].val
  <2> HIDE DEF pairs
  <2>1. k \in {pairs[i].key : i \in 1..n}
    BY <1>1, <1>3 DEF FieldsOf
  <2> QED
    BY <1>1, <1>3, <2>1 DEF FieldsOf
<1>5. Max(S) \in S
  <2>1. S \in SUBSET (1..n)
    OBVIOUS
  <2> HIDE DEF S
  <2> QED
    BY <1>2, <1>4, <2>1, MaxFacts
<1>6. PICK i \in S : fields[k] = pairs[i].val
  BY <1>4, <1>5
<1>7. i \in 1..n /\ r(i).err = "none" /\ r(i).val.key = k /\ fields[k] = r(i).val.val
  BY <1>1, <1>6
<1> DEFINE e == v.entries[i]
           x == InterpretValue(EntryByKey(table, NativeInt(e.key.int)).type, e.val, tables, version)
<1>8. /\ Is(e.key, "int") /\ IsInt64(e.key.int) /\ Named(table, NativeInt(e.key.int)) # {}
      /\ x.err = "none" /\ r(i) = Ok([key |-> NativeInt(e.key.int), val |-> x.val])
  <2>1. e.val \in forest
    BY <1>1, <1>7, Shapes
  <2> QED
    BY <1>7, <2>1, EntryFacts
<1>9. k = NativeInt(e.key.int) /\ fields[k] = x.val
  <2>1. r(i).val = [key |-> NativeInt(e.key.int), val |-> x.val]
    BY <1>8 DEF Ok
  <2> HIDE DEF r, e, x
  <2> QED
    BY ONLY <1>7, <2>1
<1> QED
  BY <1>7, <1>8, <1>9
-----------------------------------------------------------------------------
(***************************************************************************)
(* A registry that grows.                                                  *)
(***************************************************************************)
Extends(more, tables) ==
  /\ DOMAIN tables \subseteq DOMAIN more
  /\ \A k \in DOMAIN tables : more[k] = tables[k]

\* a is no answer for want of a table, or the answer that there is with more.
Stands(a, b) == a.err = "unresolved-ref" \/ a = b

ValueStands(v, tables, more) ==
  \A td, version : Stands(InterpretValue(td, v, tables, version),
                          InterpretValue(td, v, more, version))
MapStands(v, tables, more) ==
  \A table, version : Stands(InterpretMap(table, v, tables, version),
                             InterpretMap(table, v, more, version))

\* What is done with the values of a loop alone stands if the turns do.
LEMMA EntryStands ==
  ASSUME NEW forest, Tied(forest), NEW tables, NEW more,
         NEW e, e.val \in forest, ValueStands(e.val, tables, more),
         NEW table, NEW version
  PROVE  Stands(InterpretEntry(table, e, tables, version), InterpretEntry(table, e, more, version))
<1> DEFINE key == NativeInt(e.key.int)
           td == EntryByKey(table, key).type
           a == InterpretValue(td, e.val, tables, version)
           b == InterpretValue(td, e.val, more, version)
<1>1. CASE ~(Is(e.key, "int") /\ IsInt64(e.key.int))
  BY <1>1 DEF InterpretEntry, Stands
<1>2. CASE Is(e.key, "int") /\ IsInt64(e.key.int)
  <2>1. /\ InterpretEntry(table, e, tables, version) = InterpretField(table, key, e.val, tables, version)
        /\ InterpretEntry(table, e, more, version) = InterpretField(table, key, e.val, more, version)
    BY <1>2 DEF InterpretEntry
  <2>2. CASE Named(table, key) = {}
    BY <2>1, <2>2 DEF InterpretField, Stands
  <2>3. CASE Named(table, key) # {}
    <3>1. /\ NestedValue(td, e.val, tables, version) = a
          /\ NestedValue(td, e.val, more, version) = b
      BY DEF Tied
    <3>2. /\ InterpretField(table, key, e.val, tables, version)
               = Then(a, LAMBDA x : Ok([key |-> key, val |-> x]))
          /\ InterpretField(table, key, e.val, more, version)
               = Then(b, LAMBDA x : Ok([key |-> key, val |-> x]))
      BY <2>3, <3>1 DEF InterpretField
    <3>3. Stands(a, b)
      BY DEF ValueStands
    <3>4. CASE a.err = "unresolved-ref"
      <4>1. InterpretField(table, key, e.val, tables, version) = a
        BY <3>2, <3>4 DEF Then
      <4> QED
        BY <2>1, <3>4, <4>1 DEF Stands
    <3>5. CASE a = b
      BY <2>1, <3>2, <3>5 DEF Stands
    <3> QED
      BY <3>3, <3>4, <3>5 DEF Stands
  <2> QED
    BY <2>2, <2>3
<1> QED
  BY <1>1, <1>2

\* What interpretMap makes of a value stands if its fields' values do.
LEMMA MapOfStanding ==
  ASSUME NEW forest, NEW height, Trees(forest, height), Tied(forest), NEW v \in forest,
         NEW tables, NEW more,
         \A x \in forest : height[x] < height[v] => ValueStands(x, tables, more)
  PROVE  MapStands(v, tables, more)
<1> SUFFICES ASSUME NEW table, NEW version
             PROVE  Stands(InterpretMap(table, v, tables, version),
                           InterpretMap(table, v, more, version))
  BY DEF MapStands
<1>1. CASE ~Is(v, "entries")
  BY <1>1 DEF InterpretMap, Stands
<1>2. CASE Is(v, "entries")
  <2> DEFINE n == Len(v.entries)
             r == [i \in DOMAIN v.entries |-> InterpretEntry(table, v.entries[i], tables, version)]
             s == [i \in DOMAIN v.entries |-> InterpretEntry(table, v.entries[i], more, version)]
             InstanceOf(x) == Ok([table |-> table, version |-> version, fields |-> FieldsOf(x)])
  <2>1. /\ InterpretMap(table, v, tables, version) = Then(All(r), InstanceOf)
        /\ InterpretMap(table, v, more, version) = Then(All(s), InstanceOf)
    BY <1>2 DEF InterpretMap
  <2>2. n \in Nat /\ DOMAIN r = 1..n /\ DOMAIN s = 1..n /\ DOMAIN v.entries = 1..n
    BY <1>2, Shapes
  <2>3. \A i \in 1..n : r[i].err = "unresolved-ref" \/ r[i] = s[i]
    <3> TAKE i \in 1..n
    <3>1. v.entries[i].val \in forest /\ ValueStands(v.entries[i].val, tables, more)
      BY <1>2, Shapes
    <3>2. Stands(InterpretEntry(table, v.entries[i], tables, version),
                 InterpretEntry(table, v.entries[i], more, version))
      BY <3>1, EntryStands
    <3> QED
      BY <2>2, <3>2 DEF Stands
  <2>4. All(r).err = "unresolved-ref" \/ All(r) = All(s)
    <3> HIDE DEF r, s, n
    <3> QED
      BY <2>2, <2>3, AllSame
  <2> HIDE DEF r, s
  <2>5. CASE All(r).err = "unresolved-ref"
    <3>1. Then(All(r), InstanceOf) = All(r)
      BY <2>5 DEF Then
    <3> QED
      BY <2>1, <2>5, <3>1 DEF Stands
  <2> QED
    BY <2>1, <2>4, <2>5 DEF Stands
<1> QED
  BY <1>1, <1>2

\* What interpretValue makes of a value stands if it does for all lower ones.
LEMMA ValueOfStanding ==
  ASSUME NEW forest, NEW height, Trees(forest, height), Tied(forest), NEW v \in forest,
         NEW tables, NEW more, Extends(more, tables),
         \A x \in forest : height[x] < height[v] => ValueStands(x, tables, more)
  PROVE  ValueStands(v, tables, more)
<1> SUFFICES ASSUME NEW td, NEW version
             PROVE  Stands(InterpretValue(td, v, tables, version),
                           InterpretValue(td, v, more, version))
  BY DEF ValueStands
<1> DEFINE kind == KindOf(td)
           key == <<td[1].ref, version>>
<1>1. CASE kind \in ScalarKinds \/ kind \in {KindDecimal, KindRational}
  BY <1>1 DEF InterpretValue, Stands, ScalarKinds, KindDecimal, KindRational, KindArray, KindRef
<1>2. CASE kind = KindArray
  <2>1. CASE ~Is(v, "items") \/ Tail(td) = <<>>
    <3>1. /\ ~Is(v, "items") => InterpretValue(td, v, tables, version) = Bad("type-mismatch")
          /\ ~Is(v, "items") => InterpretValue(td, v, more, version) = Bad("type-mismatch")
          /\ Is(v, "items") => InterpretValue(td, v, tables, version)
                                 = InterpretArray(Tail(td), v.items, tables, version)
          /\ Is(v, "items") => InterpretValue(td, v, more, version)
                                 = InterpretArray(Tail(td), v.items, more, version)
      BY <1>2 DEF InterpretValue, ScalarKinds, KindDecimal, KindRational, KindArray, KindRef
    <3> QED
      BY <2>1, <3>1 DEF InterpretArray, Stands
  <2>2. CASE Is(v, "items") /\ Tail(td) # <<>>
    <3> DEFINE n == Len(v.items)
               of == Tail(td)
               r == [i \in DOMAIN v.items |-> NestedValue(of, v.items[i], tables, version)]
               s == [i \in DOMAIN v.items |-> NestedValue(of, v.items[i], more, version)]
    <3>1. /\ InterpretValue(td, v, tables, version) = InterpretArray(of, v.items, tables, version)
          /\ InterpretValue(td, v, more, version) = InterpretArray(of, v.items, more, version)
      BY <1>2, <2>2 DEF InterpretValue, ScalarKinds, KindDecimal, KindRational, KindArray, KindRef
    <3>2. /\ InterpretArray(of, v.items, tables, version) = Then(All(r), Elements)
          /\ InterpretArray(of, v.items, more, version) = Then(All(s), Elements)
      BY <2>2 DEF InterpretArray
    <3>3. n \in Nat /\ DOMAIN r = 1..n /\ DOMAIN s = 1..n /\ DOMAIN v.items = 1..n
      BY <2>2, Shapes
    <3>4. \A i \in 1..n : r[i].err = "unresolved-ref" \/ r[i] = s[i]
      <4> TAKE i \in 1..n
      <4>1. ValueStands(v.items[i], tables, more)
        BY <2>2, Shapes
      <4>2. v.items[i] \in forest
        BY <2>2, Shapes
      <4>3. Stands(NestedValue(of, v.items[i], tables, version),
                   NestedValue(of, v.items[i], more, version))
        BY <4>1, <4>2, NestedCall DEF ValueStands
      <4> QED
        BY <3>3, <4>3 DEF Stands
    <3>5. All(r).err = "unresolved-ref" \/ All(r) = All(s)
      <4> HIDE DEF r, s, n
      <4> QED
        BY <3>3, <3>4, AllSame
    <3> HIDE DEF r, s, of
    <3>6. CASE All(r).err = "unresolved-ref"
      <4>1. Then(All(r), Elements) = All(r)
        BY <3>6 DEF Then
      <4> QED
        BY <3>1, <3>2, <3>6, <4>1 DEF Stands
    <3> QED
      BY <3>1, <3>2, <3>5, <3>6 DEF Stands
  <2> QED
    BY <2>1, <2>2
<1>3. CASE kind = KindRef
  <2>1. CASE key \in DOMAIN tables
    <3>1. key \in DOMAIN more /\ more[key] = tables[key]
      BY <2>1 DEF Extends
    <3>2. /\ InterpretValue(td, v, tables, version) = InterpretMap(tables[key], v, tables, version)
          /\ InterpretValue(td, v, more, version) = InterpretMap(tables[key], v, more, version)
      BY <1>3, <2>1, <3>1
         DEF InterpretValue, ScalarKinds, KindDecimal, KindRational, KindArray, KindRef
    <3>3. MapStands(v, tables, more)
      BY MapOfStanding
    <3> QED
      BY <3>2, <3>3 DEF MapStands
  <2>2. CASE key \notin DOMAIN tables
    <3>1. InterpretValue(td, v, tables, version) = Bad("unresolved-ref")
      BY <1>3, <2>2
         DEF InterpretValue, ScalarKinds, KindDecimal, KindRational, KindArray, KindRef
    <3> QED
      BY <3>1 DEF Bad, Stands
  <2> QED
    BY <2>1, <2>2
<1>4. CASE ~(kind \in ScalarKinds \/ kind \in {KindDecimal, KindRational, KindArray, KindRef})
  <2>1. InterpretValue(td, v, tables, version) = Bad("unresolved-ref")
    BY <1>4 DEF InterpretValue
  <2> QED
    BY <2>1 DEF Bad, Stands
<1> QED
  BY <1>1, <1>2, <1>3, <1>4

\* What a node has made of an artifact it makes of it with more tables, unless
\* it was at a loss for one.
LEMMA AnswersGrow ==
  ASSUME NEW forest, NEW height, Trees(forest, height), Tied(forest),
         NEW tables, NEW more, Extends(more, tables)
  PROVE  \A v \in forest : ValueStands(v, tables, more) /\ MapStands(v, tables, more)
<1> DEFINE Wrong == {height[v] : v \in {x \in forest : ~ValueStands(x, tables, more)}}
<1>1. Wrong \in SUBSET Nat
  BY DEF Trees
<1>2. ASSUME Wrong # {} PROVE FALSE
  <2>1. Min(Wrong) \in Wrong /\ \A k \in Wrong : Min(Wrong) <= k
    <3> HIDE DEF Wrong
    <3> QED
      BY <1>1, <1>2, MinFacts
  <2>2. PICK v \in forest : ~ValueStands(v, tables, more) /\ height[v] = Min(Wrong)
    BY <2>1
  <2>3. ASSUME NEW x \in forest, height[x] < height[v] PROVE ValueStands(x, tables, more)
    <3>1. height[x] \in Nat /\ height[v] \in Nat
      BY Shapes
    <3>2. height[x] \notin Wrong
      <4> HIDE DEF Wrong
      <4> QED
        BY <2>1, <2>2, <2>3, <3>1
    <3> QED
      BY <3>2
  <2>4. ValueStands(v, tables, more)
    BY <2>3, ValueOfStanding
  <2> QED
    BY <2>2, <2>4
<1>3. \A v \in forest : ValueStands(v, tables, more)
  BY <1>2
<1> QED
  BY <1>3, MapOfStanding

\* Add keeps what is held and adds at most one table, under its own name.
LEMMA AddFacts ==
  ASSUME NEW t, Add(t)
  PROVE  /\ Extends(reg', reg)
         /\ \A k \in DOMAIN reg' : (k \in DOMAIN reg /\ reg'[k] = reg[k]) \/ (k = RegKey(t) /\ reg'[k] = t)
<1>1. CASE RegKey(t) \in DOMAIN reg /\ UNCHANGED reg
  BY <1>1 DEF Extends
<1>2. CASE /\ RegKey(t) \notin DOMAIN reg
           /\ reg' = [k \in DOMAIN reg \cup {RegKey(t)} |-> IF k = RegKey(t) THEN t ELSE reg[k]]
  BY <1>2 DEF Extends
<1> QED
  BY <1>1, <1>2 DEF Add

\* A step of the node loads one table that parses, or leaves the registry alone.
LEMMA RegistrySteps ==
  ASSUME [Next]_vars
  PROVE  \/ UNCHANGED reg
         \/ /\ UNCHANGED <<view, acted>>
            /\ \E a \in TableArtifacts :
                 ParseFieldTable(a, reg).err = "none" /\ Add(ParseFieldTable(a, reg).val)
<1>1. CASE \E a \in TableArtifacts : Load(a)
  BY <1>1 DEF Load
<1>2. CASE \E typ \in Types, version \in Versions, a \in Artifacts : Read(typ, version, a)
  BY <1>2 DEF Read
<1>3. CASE \E keys \in KeySets : Act(keys)
  BY <1>3 DEF Act
<1>4. CASE ActByDefault
  BY <1>4 DEF ActByDefault, Act
<1>5. CASE UNCHANGED vars
  BY <1>5 DEF vars
<1> QED
  BY <1>1, <1>2, <1>3, <1>4, <1>5 DEF Next

\* A step reads an artifact under a table that is held, or leaves the view alone.
LEMMA ViewSteps ==
  ASSUME [Next]_vars
  PROVE  \/ UNCHANGED view
         \/ /\ UNCHANGED reg /\ acted' = {}
            /\ \E k \in DOMAIN reg, a \in Artifacts :
                 view' = [under |-> k, of |-> a, read |-> Interpret(reg[k], a, reg)]
<1>1. CASE \E a \in TableArtifacts : Load(a)
  BY <1>1 DEF Load
<1>2. CASE \E typ \in Types, version \in Versions, a \in Artifacts : Read(typ, version, a)
  BY <1>2 DEF Read
<1>3. CASE \E keys \in KeySets : Act(keys)
  BY <1>3 DEF Act
<1>4. CASE ActByDefault
  BY <1>4 DEF ActByDefault, Act
<1>5. CASE UNCHANGED vars
  BY <1>5 DEF vars
<1> QED
  BY <1>1, <1>2, <1>3, <1>4, <1>5 DEF Next

\* The view was read under a table that is held, and would be read again.
ViewInv ==
  view # NoView =>
    /\ view.under \in DOMAIN reg /\ view.of \in Artifacts
    /\ view.read.err # "unresolved-ref" =>
         Interpret(reg[view.under], view.of, reg) = view.read

\* No step makes a view go stale.
LEMMA ViewStep ==
  ASSUME NEW forest, NEW height, Trees(forest, height), Tied(forest), Artifacts \subseteq forest,
         ViewInv, [Next]_vars
  PROVE  ViewInv'
<1>1. CASE UNCHANGED reg /\ UNCHANGED view
  BY <1>1 DEF ViewInv
<1>2. CASE /\ UNCHANGED reg
           /\ \E k \in DOMAIN reg, a \in Artifacts :
                view' = [under |-> k, of |-> a, read |-> Interpret(reg[k], a, reg)]
  BY <1>2 DEF ViewInv
<1>3. CASE UNCHANGED view /\ \E t : Add(t)
  <2>1. PICK t : Add(t)
    BY <1>3
  <2>2. Extends(reg', reg)
    BY <2>1, AddFacts
  <2> SUFFICES ASSUME view # NoView
               PROVE  /\ view.under \in DOMAIN reg' /\ view.of \in Artifacts
                      /\ view.read.err # "unresolved-ref" =>
                           Interpret(reg'[view.under], view.of, reg') = view.read
    BY <1>3 DEF ViewInv
  <2> DEFINE table == reg[view.under]
  <2>3. view.under \in DOMAIN reg' /\ reg'[view.under] = table /\ view.of \in Artifacts
    BY <2>2 DEF ViewInv, Extends
  <2>4. ASSUME view.read.err # "unresolved-ref"
        PROVE  Interpret(table, view.of, reg') = view.read
    <3>1. Interpret(table, view.of, reg) = view.read
      BY <2>4 DEF ViewInv
    <3>2. MapStands(view.of, reg, reg')
      BY <2>2, <2>3, AnswersGrow
    <3>3. Stands(InterpretMap(table, view.of, reg, table.version),
                 InterpretMap(table, view.of, reg', table.version))
      BY <3>2 DEF MapStands
    <3> QED
      BY <2>4, <3>1, <3>3 DEF Interpret, Stands
  <2> QED
    BY <2>3, <2>4
<1> QED
  BY <1>1, <1>2, <1>3, RegistrySteps, ViewSteps

\* Whatever is loaded after an artifact was read, reading it again under the
\* same table gives the same answer, unless a table was missing: what a node
\* has judged does not depend on which other tables it holds, and a view does
\* not go stale (Interpret and Registry.Add).
THEOREM AnswersStayTrue ==
  ASSUME NEW forest, NEW height, Trees(forest, height), Tied(forest), Artifacts \subseteq forest
  PROVE  Spec => []AnswersStand
<1>1. Init => ViewInv
  BY DEF Init, ViewInv
<1>2. ViewInv /\ [Next]_vars => ViewInv'
  BY ViewStep
<1>3. ViewInv => AnswersStand
  BY DEF ViewInv, AnswersStand
<1> QED
  BY <1>1, <1>2, <1>3, PTL DEF Spec
-----------------------------------------------------------------------------
(***************************************************************************)
(* Reasons that cannot occur.                                              *)
(***************************************************************************)
\* What there may be against an artifact itself.
OwnReasons ==
  {"type-mismatch", "bad-magnitude", "non-canonical-decimal", "non-canonical-rational",
   "unknown-field-key", "bad-field-key"}

\* The types of all entries that a key may name are in types.
TableOver(table, types) ==
  \A key : Named(table, key) # {} => EntryByKey(table, key).type \in types

\* Nothing in types, nor in what it leads to, gives one of the reasons.
Free(types, reasons, tables, version) ==
  /\ reasons \cap (OwnReasons \cup {"none"}) = {}
  /\ \A td \in types :
       /\ KindOf(td) = KindArray =>
            /\ Tail(td) = <<>> => "malformed-type-descriptor" \notin reasons
            /\ Tail(td) # <<>> => Tail(td) \in types
       /\ KindOf(td) = KindRef =>
            LET key == <<td[1].ref, version>>
            IN  /\ key \in DOMAIN tables => TableOver(tables[key], types)
                /\ key \notin DOMAIN tables => "unresolved-ref" \notin reasons
       /\ KindOf(td) \notin Kinds => "unresolved-ref" \notin reasons

ValueFree(v, types, reasons, tables, version) ==
  \A td \in types : InterpretValue(td, v, tables, version).err \notin reasons
MapFree(v, types, reasons, tables, version) ==
  \A table : TableOver(table, types) =>
    InterpretMap(table, v, tables, version).err \notin reasons

\* interpretMap gives none of the reasons if the values of the fields do not.
LEMMA MapIsFree ==
  ASSUME NEW forest, NEW height, Trees(forest, height), Tied(forest), NEW v \in forest,
         NEW types, NEW reasons, NEW tables, NEW version, Free(types, reasons, tables, version),
         \A x \in forest : height[x] < height[v] => ValueFree(x, types, reasons, tables, version)
  PROVE  MapFree(v, types, reasons, tables, version)
<1> SUFFICES ASSUME NEW table, TableOver(table, types)
             PROVE  InterpretMap(table, v, tables, version).err \notin reasons
  BY DEF MapFree
<1>1. reasons \cap (OwnReasons \cup {"none"}) = {}
  BY DEF Free
<1>2. CASE ~Is(v, "entries")
  <2>1. InterpretMap(table, v, tables, version) = Bad("type-mismatch")
    BY <1>2 DEF InterpretMap
  <2> QED
    BY <1>1, <2>1 DEF Bad, OwnReasons
<1>3. CASE Is(v, "entries")
  <2> DEFINE n == Len(v.entries)
             r == [i \in DOMAIN v.entries |-> InterpretEntry(table, v.entries[i], tables, version)]
             InstanceOf(x) == Ok([table |-> table, version |-> version, fields |-> FieldsOf(x)])
  <2>1. InterpretMap(table, v, tables, version) = Then(All(r), InstanceOf)
    BY <1>3 DEF InterpretMap
  <2>2. n \in Nat /\ DOMAIN r = 1..n /\ DOMAIN v.entries = 1..n
    BY <1>3, Shapes
  <2>3. ASSUME NEW i \in 1..n PROVE r[i].err \notin reasons
    <3> DEFINE e == v.entries[i]
               key == NativeInt(e.key.int)
               td == EntryByKey(table, key).type
               x == InterpretValue(td, e.val, tables, version)
    <3>1. r[i] = InterpretEntry(table, e, tables, version)
      BY <2>2
    <3>2. CASE ~(Is(e.key, "int") /\ IsInt64(e.key.int))
      <4>1. InterpretEntry(table, e, tables, version)
              \in {Bad("bad-field-key"), Bad("unknown-field-key")}
        BY <3>2 DEF InterpretEntry
      <4>2. r[i] \in {Bad("bad-field-key"), Bad("unknown-field-key")}
        BY ONLY <3>1, <4>1
      <4>3. Bad("bad-field-key").err \in OwnReasons /\ Bad("unknown-field-key").err \in OwnReasons
        BY DEF Bad, OwnReasons
      <4>4. r[i].err \in OwnReasons
        BY ONLY <4>2, <4>3
      <4> QED
        BY <1>1, <4>4
    <3>3. CASE Is(e.key, "int") /\ IsInt64(e.key.int)
      <4>1. r[i] = InterpretField(table, key, e.val, tables, version)
        BY <3>1, <3>3 DEF InterpretEntry
      <4>2. CASE Named(table, key) = {}
        <5>1. r[i].err = "unknown-field-key"
          BY <4>1, <4>2 DEF InterpretField, Bad
        <5> QED
          BY <1>1, <5>1 DEF OwnReasons
      <4>3. CASE Named(table, key) # {}
        <5>1. NestedValue(td, e.val, tables, version) = x
          <6>1. e.val \in forest
            BY <1>3, Shapes
          <6> QED
            BY <6>1, NestedCall
        <5>2. r[i] = Then(x, LAMBDA y : Ok([key |-> key, val |-> y]))
          BY <4>1, <4>3, <5>1 DEF InterpretField
        <5>3. td \in types
          BY <4>3 DEF TableOver
        <5>4. ValueFree(e.val, types, reasons, tables, version)
          BY <1>3, Shapes
        <5>5. x.err \notin reasons
          BY <5>3, <5>4 DEF ValueFree
        <5>6. r[i].err = x.err
          BY <5>2 DEF Then, Ok
        <5> QED
          BY <5>5, <5>6
      <4> QED
        BY <4>2, <4>3
    <3> QED
      BY <3>2, <3>3
  <2> HIDE DEF r
  <2>4. CASE All(r).err = "none"
    <3>1. Then(All(r), InstanceOf).err = "none"
      BY <2>4 DEF Then, Ok
    <3> QED
      BY <1>1, <2>1, <3>1
  <2>5. CASE All(r).err # "none"
    <3>1. Then(All(r), InstanceOf) = All(r)
      BY <2>5 DEF Then
    <3>2. PICK m \in 1..n : All(r) = r[m]
      <4> HIDE DEF n
      <4> QED
        BY <2>2, <2>5, AllFail
    <3> QED
      BY <2>1, <2>3, <3>1, <3>2
  <2> QED
    BY <2>4, <2>5
<1> QED
  BY <1>2, <1>3

\* interpretValue gives none of the reasons if it does not on lower values.
LEMMA ValueIsFree ==
  ASSUME NEW forest, NEW height, Trees(forest, height), Tied(forest), NEW v \in forest,
         NEW types, NEW reasons, NEW tables, NEW version, Free(types, reasons, tables, version),
         \A x \in forest : height[x] < height[v] => ValueFree(x, types, reasons, tables, version)
  PROVE  ValueFree(v, types, reasons, tables, version)
<1> SUFFICES ASSUME NEW td \in types
             PROVE  InterpretValue(td, v, tables, version).err \notin reasons
  BY DEF ValueFree
<1> DEFINE kind == KindOf(td)
           key == <<td[1].ref, version>>
           result == InterpretValue(td, v, tables, version)
<1>1. reasons \cap (OwnReasons \cup {"none"}) = {}
  BY DEF Free
<1>2. CASE kind \in ScalarKinds
  <2>1. result.err \in OwnReasons \cup {"none"}
    BY <1>2 DEF InterpretValue, Ok, Bad, OwnReasons, ScalarKinds, KindDecimal, KindRational,
       KindArray, KindRef
  <2> QED
    BY <1>1, <2>1
<1>3. CASE kind \in {KindDecimal, KindRational}
  <2>1. result = InterpretMagnitude(kind, v)
    BY <1>3
       DEF InterpretValue, ScalarKinds, KindDecimal, KindRational, KindArray, KindRef
  <2>2. result.err \in OwnReasons \cup {"none"}
    BY <1>3, <2>1
       DEF InterpretMagnitude, Magnitude, KindDecimal, KindRational, Ok, Bad, OwnReasons
  <2> QED
    BY <1>1, <2>2
<1>4. CASE kind = KindArray
  <2>1. CASE ~Is(v, "items")
    <3>1. result = Bad("type-mismatch")
      BY <1>4, <2>1
         DEF InterpretValue, ScalarKinds, KindDecimal, KindRational, KindArray, KindRef
    <3> QED
      BY <1>1, <3>1 DEF Bad, OwnReasons
  <2>2. CASE Is(v, "items")
    <3> DEFINE n == Len(v.items)
               of == Tail(td)
               r == [i \in DOMAIN v.items |-> NestedValue(of, v.items[i], tables, version)]
    <3>1. result = InterpretArray(of, v.items, tables, version)
      BY <1>4, <2>2
         DEF InterpretValue, ScalarKinds, KindDecimal, KindRational, KindArray, KindRef
    <3>2. CASE of = <<>>
      <4>1. result.err = "malformed-type-descriptor"
        BY <3>1, <3>2 DEF InterpretArray, Bad
      <4> QED
        BY <1>4, <3>2, <4>1 DEF Free
    <3>3. CASE of # <<>>
      <4>1. result = Then(All(r), Elements)
        BY <3>1, <3>3 DEF InterpretArray
      <4>2. of \in types
        BY <1>4, <3>3 DEF Free
      <4>3. n \in Nat /\ DOMAIN r = 1..n /\ DOMAIN v.items = 1..n
        BY <2>2, Shapes
      <4>4. ASSUME NEW i \in 1..n PROVE r[i].err \notin reasons
        <5>1. ValueFree(v.items[i], types, reasons, tables, version)
          BY <2>2, Shapes
        <5>2. r[i] = InterpretValue(of, v.items[i], tables, version)
          <6>1. v.items[i] \in forest
            BY <2>2, Shapes
          <6> QED
            BY <4>3, <6>1, NestedCall
        <5> QED
          BY <4>2, <5>1, <5>2 DEF ValueFree
      <4> HIDE DEF r
      <4>5. CASE All(r).err = "none"
        <5>1. Then(All(r), Elements).err = "none"
          BY <4>5 DEF Then, Elements, Ok
        <5> QED
          BY <1>1, <4>1, <5>1
      <4>6. CASE All(r).err # "none"
        <5>1. Then(All(r), Elements) = All(r)
          BY <4>6 DEF Then
        <5>2. PICK m \in 1..n : All(r) = r[m]
          <6> HIDE DEF n
          <6> QED
            BY <4>3, <4>6, AllFail
        <5> QED
          BY <4>1, <4>4, <5>1, <5>2
      <4> QED
        BY <4>5, <4>6
    <3> QED
      BY <3>2, <3>3
  <2> QED
    BY <2>1, <2>2
<1>5. CASE kind = KindRef
  <2>1. CASE key \in DOMAIN tables
    <3>1. result = InterpretMap(tables[key], v, tables, version)
      BY <1>5, <2>1
         DEF InterpretValue, ScalarKinds, KindDecimal, KindRational, KindArray, KindRef
    <3>2. TableOver(tables[key], types)
      BY <1>5, <2>1 DEF Free
    <3>3. MapFree(v, types, reasons, tables, version)
      BY MapIsFree
    <3> QED
      BY <3>1, <3>2, <3>3 DEF MapFree
  <2>2. CASE key \notin DOMAIN tables
    <3>1. result.err = "unresolved-ref"
      BY <1>5, <2>2
         DEF InterpretValue, ScalarKinds, KindDecimal, KindRational, KindArray, KindRef, Bad
    <3> QED
      BY <1>5, <2>2, <3>1 DEF Free
  <2> QED
    BY <2>1, <2>2
<1>6. CASE ~(kind \in ScalarKinds \/ kind \in {KindDecimal, KindRational, KindArray, KindRef})
  <2>1. result.err = "unresolved-ref"
    BY <1>6 DEF InterpretValue, Bad
  <2>2. kind \notin Kinds
    BY <1>6 DEF Kinds, ScalarKinds, KindDecimal, KindRational, KindArray, KindRef
  <2> QED
    BY <2>1, <2>2 DEF Free
<1> QED
  BY <1>2, <1>3, <1>4, <1>5, <1>6

\* No value is given one of the reasons.
LEMMA NeverGiven ==
  ASSUME NEW forest, NEW height, Trees(forest, height), Tied(forest),
         NEW types, NEW reasons, NEW tables, NEW version, Free(types, reasons, tables, version)
  PROVE  \A v \in forest : MapFree(v, types, reasons, tables, version)
<1> DEFINE F(v) == ValueFree(v, types, reasons, tables, version)
           Wrong == {height[v] : v \in {x \in forest : ~F(x)}}
<1>1. Wrong \in SUBSET Nat
  BY DEF Trees
<1>2. ASSUME Wrong # {} PROVE FALSE
  <2>1. Min(Wrong) \in Wrong /\ \A k \in Wrong : Min(Wrong) <= k
    <3> HIDE DEF Wrong
    <3> QED
      BY <1>1, <1>2, MinFacts
  <2>2. PICK v \in forest : ~F(v) /\ height[v] = Min(Wrong)
    BY <2>1
  <2>3. ASSUME NEW x \in forest, height[x] < height[v] PROVE F(x)
    <3>1. height[x] \in Nat /\ height[v] \in Nat
      BY Shapes
    <3>2. height[x] \notin Wrong
      <4> HIDE DEF Wrong
      <4> QED
        BY <2>1, <2>2, <2>3, <3>1
    <3> QED
      BY <3>2
  <2>4. F(v)
    BY <2>3, ValueIsFree
  <2> QED
    BY <2>2, <2>4
<1>3. \A v \in forest : F(v)
  BY <1>2
<1> QED
  BY <1>3, MapIsFree
-----------------------------------------------------------------------------
(***************************************************************************)
(* Sound tables, and those of the floor.                                   *)
(***************************************************************************)
Levels == [kind : Int, ref : Int, unit : Int]
SoundTypes == {td \in Seq(Levels) : SoundType(td)}

\* The ints that toInt gives, and the types with such codes.
Coded(n) == n \in Int /\ IsInt64(n) /\ NativeInt(n) = n
CodedLevel(l) == Coded(l.kind) /\ Coded(l.ref) /\ Coded(l.unit)
CodedTypes == {td \in SoundTypes : \A i \in DOMAIN td : CodedLevel(td[i])}

\* The entries have the keys 0, 1, ..., n - 1, and complete types.
SoundTable(t) ==
  /\ t.entries # <<>>
  /\ \E n \in Nat :
       /\ DOMAIN t.entries = 1..n
       /\ \A i \in 1..n : t.entries[i].key = i - 1 /\ t.entries[i].type \in SoundTypes

\* One more level over a type.
LEMMA LevelOver ==
  ASSUME NEW l \in Levels, NEW td \in Seq(Levels)
  PROVE  /\ <<l>> \o td \in Seq(Levels) /\ Len(<<l>> \o td) = Len(td) + 1
         /\ Len(td) \in Nat
         /\ (<<l>> \o td)[1] = l
         /\ \A i \in 1..Len(td) : (<<l>> \o td)[i + 1] = td[i]
<1>1. <<l>> \in Seq(Levels) /\ Len(<<l>>) = 1 /\ <<l>>[1] = l
  OBVIOUS
<1>2. Len(td) \in Nat
  BY LenProperties
<1>3. /\ <<l>> \o td \in Seq(Levels) /\ Len(<<l>> \o td) = Len(<<l>>) + Len(td)
      /\ \A i \in 1..Len(<<l>>) + Len(td) :
           (<<l>> \o td)[i] = IF i <= Len(<<l>>) THEN <<l>>[i] ELSE td[i - Len(<<l>>)]
  BY <1>1, ConcatProperties
<1> QED
  BY <1>1, <1>2, <1>3

\* Ints at one more level.
LEMMA CodedOver ==
  ASSUME NEW l \in Levels, CodedLevel(l), NEW td \in CodedTypes
  PROVE  \A i \in DOMAIN (<<l>> \o td) : CodedLevel((<<l>> \o td)[i])
<1> DEFINE s == <<l>> \o td
           n == Len(td)
<1>1. td \in Seq(Levels) /\ \A i \in DOMAIN td : CodedLevel(td[i])
  BY DEF CodedTypes, SoundTypes
<1>2. /\ s \in Seq(Levels) /\ Len(s) = n + 1 /\ n \in Nat /\ s[1] = l
      /\ \A i \in 1..n : s[i + 1] = td[i]
  BY <1>1, LevelOver
<1> HIDE DEF s
<1>3. DOMAIN s = 1..n + 1 /\ DOMAIN td = 1..n
  BY <1>1, <1>2, LenProperties
<1>4. ASSUME NEW i \in DOMAIN s PROVE CodedLevel(s[i])
  <2>1. CASE i = 1
    BY <1>2, <2>1
  <2>2. CASE i # 1
    <3>1. i - 1 \in 1..n /\ (i - 1) + 1 = i
      BY <1>2, <1>3, <2>2
    <3> QED
      BY <1>1, <1>2, <1>3, <3>1
  <2> QED
    BY <2>1, <2>2
<1> QED
  BY <1>4 DEF s

\* What a level must be, with or without one below it.
SoundLevel(l, inner) ==
  /\ l.kind \in Kinds => (l.kind = KindArray <=> inner)
  /\ l.kind \in Kinds \ {KindRef} => l.ref = 0
  /\ l.kind \in Kinds \ {KindDecimal, KindRational} => l.unit = 0

\* A level that stands alone is a sound type.
LEMMA TypeOfOne ==
  ASSUME NEW l \in Levels, SoundLevel(l, FALSE)
  PROVE  <<l>> \in SoundTypes
<1>1. <<l>> \in Seq(Levels) /\ Len(<<l>>) = 1 /\ <<l>>[1] = l /\ <<l>> # <<>> /\ DOMAIN <<l>> = {1}
  OBVIOUS
<1> QED
  BY <1>1 DEF SoundTypes, SoundType, SoundLevel

\* An array level over a sound type is a sound type.
LEMMA TypeOfMore ==
  ASSUME NEW l \in Levels, SoundLevel(l, TRUE), NEW td \in SoundTypes
  PROVE  <<l>> \o td \in SoundTypes
<1> DEFINE s == <<l>> \o td
           n == Len(td)
<1>1. td \in Seq(Levels) /\ SoundType(td)
  BY DEF SoundTypes
<1>2. /\ s \in Seq(Levels) /\ Len(s) = n + 1 /\ n \in Nat /\ s[1] = l
      /\ \A i \in 1..n : s[i + 1] = td[i]
  BY <1>1, LevelOver
<1>3. DOMAIN td = 1..n /\ DOMAIN s = 1..n + 1 /\ s # <<>> /\ n # 0
  <2> HIDE DEF s, n
  <2>1. DOMAIN s = 1..Len(s) /\ DOMAIN td = 1..Len(td)
    BY <1>1, <1>2, LenProperties
  <2>2. td # <<>>
    BY <1>1 DEF SoundType
  <2>3. Len(td) # 0
    BY <1>1, <2>2, EmptySeq
  <2> QED
    BY <1>2, <2>1, <2>3, EmptySeq DEF n
<1> HIDE DEF s, n
<1>4. SoundLevel(s[1], 1 < Len(s))
  <2>1. 1 < Len(s)
    BY <1>2, <1>3
  <2>2. (1 < Len(s)) = TRUE
    BY <2>1
  <2> QED
    BY <1>2, <2>2
<1>5. ASSUME NEW i \in 1..n PROVE SoundLevel(s[i + 1], i + 1 < Len(s))
  <2>1. SoundLevel(td[i], i < n)
    BY <1>1, <1>3 DEF SoundType, SoundLevel, n
  <2>2. i + 1 < Len(s) <=> i < n
    BY <1>2
  <2> QED
    BY <1>2, <2>1, <2>2 DEF SoundLevel
<1>6. \A i \in DOMAIN s : SoundLevel(s[i], i < Len(s))
  <2> TAKE i \in DOMAIN s
  <2>1. CASE i = 1
    BY <1>4, <2>1
  <2>2. CASE i # 1
    <3>1. i - 1 \in 1..n /\ (i - 1) + 1 = i
      BY <1>2, <1>3, <2>2
    <3> QED
      BY <1>5, <3>1
  <2> QED
    BY <2>1, <2>2
<1>7. SoundType(s)
  BY <1>3, <1>6 DEF SoundType, SoundLevel
<1> QED
  BY <1>2, <1>7 DEF SoundTypes, s

\* The levels below the first of a sound type.
LEMMA SoundRest ==
  ASSUME NEW td \in SoundTypes, 1 < Len(td)
  PROVE  /\ Tail(td) # <<>> /\ Tail(td) \in SoundTypes
         /\ Len(Tail(td)) = Len(td) - 1 /\ Len(td) \in Nat
         /\ \A i \in DOMAIN Tail(td) : i + 1 \in DOMAIN td /\ Tail(td)[i] = td[i + 1]
<1> DEFINE n == Len(td)
           t == Tail(td)
<1>1. td \in Seq(Levels) /\ SoundType(td) /\ n \in Nat /\ DOMAIN td = 1..n
  BY LenProperties DEF SoundTypes
<1>2. td # <<>> /\ 1 \in 1..n
  <2>1. td # <<>>
    BY <1>1 DEF SoundType
  <2> QED
    BY <1>1, <2>1, EmptySeq
<1>3. /\ t \in Seq(Levels) /\ Len(t) = n - 1
      /\ \A i \in 1..Len(t) : t[i] = td[i + 1]
  BY <1>1, <1>2, HeadTailProperties
<1>4. 1 < n
  OBVIOUS
<1> HIDE DEF t
<1>5. t # <<>> /\ DOMAIN t = 1..n - 1
  BY <1>3, <1>4, LenProperties, EmptySeq
<1>6. \A i \in DOMAIN t : SoundLevel(t[i], i < Len(t))
  <2> TAKE i \in DOMAIN t
  <2>1. i + 1 \in 1..n /\ t[i] = td[i + 1] /\ (i < Len(t) <=> i + 1 < n)
    BY <1>1, <1>3, <1>5
  <2>2. SoundLevel(td[i + 1], i + 1 < n)
    BY <1>1, <2>1 DEF SoundType, SoundLevel
  <2> QED
    BY <2>1, <2>2 DEF SoundLevel
<1>7. SoundType(t)
  BY <1>5, <1>6 DEF SoundType, SoundLevel
<1>8. \A i \in DOMAIN t : i + 1 \in DOMAIN td /\ t[i] = td[i + 1]
  BY <1>1, <1>3, <1>5
<1> QED
  BY <1>1, <1>3, <1>5, <1>7, <1>8 DEF SoundTypes, t

\* The type of the elements of a sound array type.
LEMMA SoundTail ==
  ASSUME NEW td \in SoundTypes, KindOf(td) = KindArray
  PROVE  Tail(td) # <<>> /\ Tail(td) \in SoundTypes
<1>1. td \in Seq(Levels) /\ SoundType(td) /\ Len(td) \in Nat /\ DOMAIN td = 1..Len(td)
  BY LenProperties DEF SoundTypes
<1>2. 1 \in 1..Len(td)
  <2>1. td # <<>>
    BY <1>1 DEF SoundType
  <2> QED
    BY <1>1, <2>1, EmptySeq
<1>3. 1 < Len(td)
  BY <1>1, <1>2 DEF SoundType, KindOf, Kinds, KindArray
<1> QED
  BY <1>3, SoundRest

\* A key names at most one entry of a sound table.
LEMMA SoundEntry ==
  ASSUME NEW t, SoundTable(t), NEW key, Named(t, key) # {}
  PROVE  \E i \in DOMAIN t.entries :
           /\ key = i - 1 /\ EntryByKey(t, key) = t.entries[i]
           /\ t.entries[i].key = key /\ t.entries[i].type \in SoundTypes
<1>1. PICK n \in Nat :
        /\ DOMAIN t.entries = 1..n
        /\ \A i \in 1..n : t.entries[i].key = i - 1 /\ t.entries[i].type \in SoundTypes
  BY DEF SoundTable
<1>2. Named(t, key) \in SUBSET Nat
  BY <1>1 DEF Named
<1>3. Min(Named(t, key)) \in Named(t, key)
  BY <1>2, MinFacts
<1> QED
  BY <1>1, <1>3 DEF Named, EntryByKey

\* Every key of a sound table has a sound type.
LEMMA SoundOver ==
  ASSUME NEW t, SoundTable(t)
  PROVE  TableOver(t, SoundTypes)
BY SoundEntry DEF TableOver

Malformed == {"malformed-type-descriptor", "malformed-field-table", "malformed-entry"}
\* Any number of sound tables gives no malformed-* reason.
LEMMA SoundIsFree ==
  ASSUME NEW tables, \A k \in DOMAIN tables : SoundTable(tables[k]), NEW version
  PROVE  Free(SoundTypes, Malformed, tables, version)
<1>1. Malformed \cap (OwnReasons \cup {"none"}) = {} /\ "unresolved-ref" \notin Malformed
  BY DEF Malformed, OwnReasons
<1> QED
  BY <1>1, SoundTail, SoundOver DEF Free

\* What was interpreted under a type has the Go type of its kind.
LEMMA GoTypes ==
  ASSUME NEW forest, NEW height, Trees(forest, height), Tied(forest), NEW v \in forest,
         NEW td, NEW tables, NEW version, InterpretValue(td, v, tables, version).err = "none"
  PROVE  /\ KindOf(td) \in Kinds
         /\ DOMAIN InterpretValue(td, v, tables, version).val
              \in {{"int"}, {"bytes"}, {"text"}, {"bool"}, {"scale", "mantissa"}, {"num", "den"},
                   {"elems"}, {"table", "version", "fields"}}
         /\ Is(InterpretValue(td, v, tables, version).val, GoType(KindOf(td)))
<1> DEFINE kind == KindOf(td)
           result == InterpretValue(td, v, tables, version)
<1>1. CASE kind \in ScalarKinds
  <2>1. result = IF Is(v, ScalarField(kind)) THEN Ok(v) ELSE Bad("type-mismatch")
    BY <1>1 DEF InterpretValue, ScalarKinds, KindDecimal, KindRational, KindArray, KindRef
  <2>2. Is(v, ScalarField(kind)) /\ result.val = v
    BY <2>1 DEF Ok, Bad
  <2>3. DOMAIN v = {ScalarField(kind)}
    BY <2>2, Shapes
  <2>4. kind \in {0, 1, 2, 3}
    BY <1>1 DEF ScalarKinds
  <2>5. ScalarField(kind) = GoType(kind) /\ ScalarField(kind) \in {"int", "bytes", "text", "bool"}
    BY <2>4 DEF ScalarField, GoType
  <2> QED
    BY <2>2, <2>3, <2>4, <2>5 DEF Kinds
<1>2. CASE kind = KindDecimal
  <2>1. result = InterpretMagnitude(kind, v)
    BY <1>2 DEF InterpretValue, ScalarKinds, KindDecimal, KindRational, KindArray, KindRef
  <2>2. result = Ok([scale |-> v.items[1].int, mantissa |-> v.items[2].int])
    BY <1>2, <2>1 DEF InterpretMagnitude, Magnitude, KindDecimal, KindRational, Ok, Bad
  <2>3. GoType(kind) = "mantissa"
    BY <1>2 DEF GoType, KindDecimal
  <2> QED
    BY <1>2, <2>2, <2>3 DEF Ok, Is, Kinds, KindDecimal
<1>3. CASE kind = KindRational
  <2>1. result = InterpretMagnitude(kind, v)
    BY <1>3 DEF InterpretValue, ScalarKinds, KindDecimal, KindRational, KindArray, KindRef
  <2>2. result = Ok([num |-> v.items[1].int, den |-> v.items[2].int])
    BY <1>3, <2>1 DEF InterpretMagnitude, Magnitude, KindDecimal, KindRational, Ok, Bad
  <2>3. GoType(kind) = "den"
    BY <1>3 DEF GoType, KindRational
  <2> QED
    BY <1>3, <2>2, <2>3 DEF Ok, Is, Kinds, KindRational
<1>4. CASE kind = KindArray
  <2>1. Is(v, "items") /\ result = InterpretArray(Tail(td), v.items, tables, version)
    BY <1>4 DEF InterpretValue, ScalarKinds, KindDecimal, KindRational, KindArray, KindRef, Bad
  <2> DEFINE r == All([i \in DOMAIN v.items |-> NestedValue(Tail(td), v.items[i], tables, version)])
  <2>2. Tail(td) # <<>> /\ result = Then(r, Elements)
    BY <2>1 DEF InterpretArray, Bad
  <2> HIDE DEF r
  <2>4. result = Ok([elems |-> r.val])
    BY <2>2 DEF Then, Elements
  <2>3. GoType(kind) = "elems"
    BY <1>4 DEF GoType, KindArray
  <2> QED
    BY <1>4, <2>3, <2>4 DEF Ok, Is, Kinds, KindArray
<1>5. CASE kind = KindRef
  <2> DEFINE key == <<td[1].ref, version>>
  <2>1. key \in DOMAIN tables /\ result = InterpretMap(tables[key], v, tables, version)
    BY <1>5 DEF InterpretValue, ScalarKinds, KindDecimal, KindRational, KindArray, KindRef, Bad
  <2> DEFINE pairs == [i \in 1..Len(v.entries) |->
                         InterpretEntry(tables[key], v.entries[i], tables, version).val]
  <2>2. result = Ok([table |-> tables[key], version |-> version, fields |-> FieldsOf(pairs)])
    <3> DEFINE t == tables[key]
    <3>1. InterpretMap(t, v, tables, version).err = "none"
      BY <2>1
    <3> HIDE DEF t
    <3>2. InterpretMap(t, v, tables, version)
            = Ok([table |-> t, version |-> version, fields |-> FieldsOf(
                    [i \in 1..Len(v.entries) |-> InterpretEntry(t, v.entries[i], tables, version).val])])
      BY <3>1, MapFacts
    <3> QED
      BY <2>1, <3>2 DEF t
  <2>3. GoType(kind) = "fields"
    BY <1>5 DEF GoType, KindRef
  <2> QED
    BY <1>5, <2>2, <2>3 DEF Ok, Is, Kinds, KindRef
<1>6. CASE ~(kind \in ScalarKinds \/ kind \in {KindDecimal, KindRational, KindArray, KindRef})
  <2>1. result.err = "unresolved-ref"
    BY <1>6 DEF InterpretValue, Bad
  <2> QED
    BY <2>1
<1> QED
  BY <1>1, <1>2, <1>3, <1>4, <1>5, <1>6

\* A value of a Go type is of one kind only.
LEMMA OneGoType ==
  ASSUME NEW x,
         DOMAIN x \in {{"int"}, {"bytes"}, {"text"}, {"bool"}, {"scale", "mantissa"},
                       {"num", "den"}, {"elems"}, {"table", "version", "fields"}},
         NEW k \in Kinds, NEW m \in Kinds, Is(x, GoType(k)), Is(x, GoType(m))
  PROVE  k = m
<1>1. k \in {0, 1, 2, 3, 4, 5, 6, 7} /\ m \in {0, 1, 2, 3, 4, 5, 6, 7}
  BY DEF Kinds
<1>2. /\ GoType(0) = "int" /\ GoType(1) = "bytes" /\ GoType(2) = "text" /\ GoType(3) = "bool"
      /\ GoType(4) = "mantissa" /\ GoType(5) = "den" /\ GoType(6) = "elems" /\ GoType(7) = "fields"
  BY DEF GoType
<1>3. \A f \in {"int", "bytes", "text", "bool", "mantissa", "den", "elems", "fields"},
        h \in {"int", "bytes", "text", "bool", "mantissa", "den", "elems", "fields"} :
        f \in DOMAIN x /\ h \in DOMAIN x => f = h
  OBVIOUS
<1>4. GoType(k) = GoType(m)
  BY <1>1, <1>2, <1>3 DEF Is
<1> QED
  BY <1>1, <1>2, <1>4

\* A field that an instance of a sound table has answers to the accessor of the
\* kind that the table gives it, and to no other.
LEMMA FieldAnswers ==
  ASSUME NEW forest, NEW height, Trees(forest, height), Tied(forest), NEW v \in forest,
         NEW table, NEW tables, NEW version, InterpretMap(table, v, tables, version).err = "none",
         SoundTable(table), NEW i \in DOMAIN table.entries, NEW kind \in Kinds
  PROVE  LET in == InterpretMap(table, v, tables, version).val
             e  == table.entries[i]
         IN  Get(in, e.key, kind).err = "none" <=> Has(in, e.key) /\ KindOf(e.type) = kind
<1> DEFINE in == InterpretMap(table, v, tables, version).val
           e == table.entries[i]
<1>1. Get(in, e.key, kind).err = "none" <=> Has(in, e.key) /\ Is(in.fields[e.key], GoType(kind))
  BY DEF Get, Ok, Bad
<1>2. ASSUME Has(in, e.key)
      PROVE  Is(in.fields[e.key], GoType(kind)) <=> KindOf(e.type) = kind
  <2>1. e.key \in DOMAIN InterpretMap(table, v, tables, version).val.fields
    BY <1>2 DEF Has
  <2> DEFINE td == EntryByKey(table, e.key).type
  <2>8. Is(v, "entries")
    BY MapFacts
  <2>2. PICK k \in 1..Len(v.entries) :
          /\ Named(table, e.key) # {}
          /\ InterpretValue(td, v.entries[k].val, tables, version).err = "none"
          /\ in.fields[e.key] = InterpretValue(td, v.entries[k].val, tables, version).val
    <3> HIDE DEF e
    <3> QED
      BY <2>1, FieldFacts
  <2>3. PICK j \in DOMAIN table.entries :
          e.key = j - 1 /\ EntryByKey(table, e.key) = table.entries[j]
    BY <2>2, SoundEntry
  <2>4. j = i
    BY <2>3 DEF SoundTable
  <2>5. td = e.type
    BY <2>3, <2>4
  <2>6. v.entries[k].val \in forest
    BY <2>2, <2>8, Shapes
  <2> HIDE DEF td
  <2>7. /\ KindOf(td) \in Kinds /\ Is(in.fields[e.key], GoType(KindOf(td)))
        /\ DOMAIN in.fields[e.key]
             \in {{"int"}, {"bytes"}, {"text"}, {"bool"}, {"scale", "mantissa"}, {"num", "den"},
                  {"elems"}, {"table", "version", "fields"}}
    BY <2>2, <2>6, GoTypes
  <2> HIDE DEF in
  <2> QED
    BY <2>5, <2>7, OneGoType
<1> QED
  BY <1>1, <1>2
-----------------------------------------------------------------------------
(***************************************************************************)
(* The floor closure.                                                      *)
(***************************************************************************)
FloorTypes == {Scalar(0), Scalar(2), Ref(1), Ref(2), ArrayOf(Ref(1))}

\* The one array type of the floor, and the type of its elements.
LEMMA FloorArray ==
  /\ ArrayOf(Ref(1)) \in SoundTypes /\ KindOf(ArrayOf(Ref(1))) = KindArray
  /\ Tail(ArrayOf(Ref(1))) = Ref(1)
<1> DEFINE l == Level(KindArray, 0, 0)
           td == Ref(1)
<1>1. l \in Levels /\ l.kind = KindArray /\ SoundLevel(l, TRUE)
  BY DEF Level, Levels, KindArray, KindRef, KindDecimal, KindRational, SoundLevel, Kinds
<1>2. Level(KindRef, 1, 0) \in Levels /\ SoundLevel(Level(KindRef, 1, 0), FALSE)
  BY DEF Level, Levels, KindArray, KindRef, KindDecimal, KindRational, SoundLevel, Kinds
<1>3. td \in SoundTypes /\ td \in Seq(Levels) /\ Len(td) = 1
  <2>1. td \in SoundTypes
    BY <1>2, TypeOfOne DEF Ref
  <2>2. Len(td) = 1
    BY DEF Ref
  <2> QED
    BY <2>1, <2>2 DEF SoundTypes
<1>4. ArrayOf(td) = <<l>> \o td
  BY DEF ArrayOf
<1> HIDE DEF l, td
<1>5. <<l>> \o td \in SoundTypes
  BY <1>1, <1>3, TypeOfMore
<1>6. /\ <<l>> \o td \in Seq(Levels) /\ Len(<<l>> \o td) = 2
      /\ (<<l>> \o td)[1] = l /\ (<<l>> \o td)[1 + 1] = td[1]
  <2>1. 1 \in 1..Len(td) /\ Len(td) + 1 = 2
    BY ONLY <1>3
  <2>2. /\ <<l>> \o td \in Seq(Levels) /\ Len(<<l>> \o td) = Len(td) + 1
        /\ (<<l>> \o td)[1] = l
        /\ \A i \in 1..Len(td) : (<<l>> \o td)[i + 1] = td[i]
    BY <1>1, <1>3, LevelOver
  <2> QED
    BY ONLY <2>1, <2>2
<1> DEFINE s == <<l>> \o td
<1> HIDE DEF s
<1>7. s \in Seq(Levels) /\ Len(s) = 2 /\ s[1] = l /\ s[2] = td[1] /\ s # <<>>
  BY <1>6 DEF s
<1>8. Tail(s) \in Seq(Levels) /\ Len(Tail(s)) = 1 /\ Tail(s)[1] = td[1]
  <2>1. /\ Tail(s) \in Seq(Levels) /\ Len(Tail(s)) = Len(s) - 1
        /\ \A i \in 1..Len(Tail(s)) : Tail(s)[i] = s[i + 1]
    BY <1>7, HeadTailProperties
  <2>2. Len(Tail(s)) = 1 /\ 1 \in 1..1 /\ 1 + 1 = 2
    BY <1>7, <2>1
  <2>3. Tail(s)[1] = s[2]
    BY <2>1, <2>2
  <2> QED
    BY <1>7, <2>1, <2>2, <2>3
<1>9. Tail(s) = td
  <2>1. \A i \in 1..Len(td) : i = 1
    BY <1>3
  <2>2. Len(Tail(s)) = Len(td) /\ \A i \in 1..Len(td) : Tail(s)[i] = td[i]
    BY <1>3, <1>8, <2>1
  <2> QED
    BY <1>3, <1>8, <2>2, SeqEqual
<1> QED
  BY <1>1, <1>4, <1>5, <1>7, <1>9 DEF KindOf, s, td

\* The types of the floor are sound.
LEMMA FloorTypesSound ==
  FloorTypes \subseteq SoundTypes
<1>1. \A k \in {0, 2} : Level(k, 0, 0) \in Levels /\ SoundLevel(Level(k, 0, 0), FALSE)
  BY DEF Level, Levels, KindArray, KindRef, KindDecimal, KindRational, SoundLevel, Kinds
<1>2. \A t \in {1, 2} : Level(KindRef, t, 0) \in Levels /\ SoundLevel(Level(KindRef, t, 0), FALSE)
  BY DEF Level, Levels, KindArray, KindRef, KindDecimal, KindRational, SoundLevel, Kinds
<1>3. Scalar(0) \in SoundTypes /\ Scalar(2) \in SoundTypes
  BY <1>1, TypeOfOne DEF Scalar
<1>4. Ref(1) \in SoundTypes /\ Ref(2) \in SoundTypes
  BY <1>2, TypeOfOne DEF Ref
<1> QED
  BY <1>3, <1>4, FloorArray DEF FloorTypes

\* The tables of the floor, entry by entry.
LEMMA FloorTables ==
  /\ DOMAIN MetaTable.entries = 1..3 /\ DOMAIN EntryTable.entries = 1..4
  /\ DOMAIN TypeDescriptorTable.entries = 1..4
  /\ \A t \in Floor : /\ SoundTable(t) /\ t.version = 1
                      /\ \A i \in DOMAIN t.entries : t.entries[i].type \in FloorTypes
  /\ MetaTable.describes = 0 /\ EntryTable.describes = 1 /\ TypeDescriptorTable.describes = 2
<1>1. /\ DOMAIN MetaTable.entries = 1..3
      /\ \A i \in 1..3 : MetaTable.entries[i].key = i - 1 /\ MetaTable.entries[i].type \in FloorTypes
  <2>1. \A i \in 1..3 : i = 1 \/ i = 2 \/ i = 3
    OBVIOUS
  <2> QED
    BY <2>1 DEF MetaTable, Entry, FloorTypes
<1>2. /\ DOMAIN EntryTable.entries = 1..4
      /\ \A i \in 1..4 : EntryTable.entries[i].key = i - 1 /\ EntryTable.entries[i].type \in FloorTypes
  <2>1. \A i \in 1..4 : i = 1 \/ i = 2 \/ i = 3 \/ i = 4
    OBVIOUS
  <2> QED
    BY <2>1 DEF EntryTable, Entry, FloorTypes
<1>3. /\ DOMAIN TypeDescriptorTable.entries = 1..4
      /\ \A i \in 1..4 : /\ TypeDescriptorTable.entries[i].key = i - 1
                         /\ TypeDescriptorTable.entries[i].type \in FloorTypes
  <2>1. \A i \in 1..4 : i = 1 \/ i = 2 \/ i = 3 \/ i = 4
    OBVIOUS
  <2> QED
    BY <2>1 DEF TypeDescriptorTable, Entry, FloorTypes
<1>4. /\ MetaTable.entries # <<>> /\ EntryTable.entries # <<>> /\ TypeDescriptorTable.entries # <<>>
  BY DEF MetaTable, EntryTable, TypeDescriptorTable
<1>5. \A t \in Floor : t.version = 1
  BY DEF Floor, MetaTable, EntryTable, TypeDescriptorTable
<1>6. MetaTable.describes = 0 /\ EntryTable.describes = 1 /\ TypeDescriptorTable.describes = 2
  BY DEF MetaTable, EntryTable, TypeDescriptorTable
<1>7. \A t \in Floor : SoundTable(t)
  <2>1. SoundTable(MetaTable)
    BY <1>1, <1>4, FloorTypesSound DEF SoundTable
  <2>2. SoundTable(EntryTable)
    BY <1>2, <1>4, FloorTypesSound DEF SoundTable
  <2>3. SoundTable(TypeDescriptorTable)
    BY <1>3, <1>4, FloorTypesSound DEF SoundTable
  <2> QED
    BY <2>1, <2>2, <2>3 DEF Floor
<1> QED
  BY <1>1, <1>2, <1>3, <1>5, <1>6, <1>7 DEF Floor

\* A key of a floor table is one less than the place of its entry.
LEMMA FloorEntry ==
  ASSUME NEW t \in Floor, NEW k \in Nat, k + 1 \in DOMAIN t.entries
  PROVE  Named(t, k) # {} /\ EntryByKey(t, k) = t.entries[k + 1]
<1>1. SoundTable(t)
  BY FloorTables
<1>2. PICK n \in Nat : DOMAIN t.entries = 1..n /\ \A i \in 1..n : t.entries[i].key = i - 1
  BY <1>1 DEF SoundTable
<1>3. k + 1 \in Named(t, k)
  BY <1>2 DEF Named
<1>4. PICK i \in DOMAIN t.entries : k = i - 1 /\ EntryByKey(t, k) = t.entries[i]
  BY <1>1, <1>3, SoundEntry
<1>5. i = k + 1
  BY <1>2, <1>4
<1> QED
  BY <1>3, <1>4, <1>5

\* Each is held under its own name.
LEMMA FloorHeld ==
  /\ DOMAIN DefaultRegistry = {<<0, 1>>, <<1, 1>>, <<2, 1>>}
  /\ DefaultRegistry[<<0, 1>>] = MetaTable
  /\ DefaultRegistry[<<1, 1>>] = EntryTable
  /\ DefaultRegistry[<<2, 1>>] = TypeDescriptorTable
<1>1. RegKey(MetaTable) = <<0, 1>> /\ RegKey(EntryTable) = <<1, 1>>
      /\ RegKey(TypeDescriptorTable) = <<2, 1>>
  BY FloorTables DEF RegKey, Floor
<1>2. {RegKey(t) : t \in Floor} = {<<0, 1>>, <<1, 1>>, <<2, 1>>}
  BY <1>1 DEF Floor
<1>3. \A t \in Floor : (CHOOSE x \in Floor : RegKey(x) = RegKey(t)) = t
  BY <1>1 DEF Floor
<1> QED
  BY <1>1, <1>2, <1>3 DEF DefaultRegistry, Floor

\* A key of a floor table names an entry with a floor type.
LEMMA FloorOver ==
  ASSUME NEW t \in Floor
  PROVE  TableOver(t, FloorTypes)
BY FloorTables, SoundEntry DEF TableOver

\* The floor closure leads nowhere else: no table is missing when an artifact
\* is read under one of its tables.
LEMMA FloorIsFree ==
  Free(FloorTypes, {"unresolved-ref"}, DefaultRegistry, 1)
<1>1. {"unresolved-ref"} \cap (OwnReasons \cup {"none"}) = {}
  BY DEF OwnReasons
<1>2. ASSUME NEW td \in FloorTypes
      PROVE  /\ KindOf(td) = KindArray => Tail(td) # <<>> /\ Tail(td) \in FloorTypes
             /\ KindOf(td) = KindRef => td[1].ref \in {1, 2}
             /\ KindOf(td) \in Kinds
  <2>1. \A k \in {0, 2} : KindOf(Scalar(k)) = k
    BY DEF KindOf, Scalar, Level
  <2>2. \A t \in {1, 2} : KindOf(Ref(t)) = KindRef /\ Ref(t)[1].ref = t /\ Ref(t) # <<>>
    BY DEF KindOf, Ref, Level
  <2>3. CASE td \in {Scalar(0), Scalar(2)}
    BY <2>1, <2>3 DEF KindArray, KindRef, Kinds
  <2>4. CASE td \in {Ref(1), Ref(2)}
    BY <2>2, <2>4 DEF KindArray, KindRef, Kinds
  <2>5. CASE td = ArrayOf(Ref(1))
    <3>1. Ref(1) \in FloorTypes /\ Ref(1) # <<>>
      BY <2>2 DEF FloorTypes
    <3>2. KindOf(td) = KindArray /\ Tail(td) = Ref(1)
      BY <2>5, FloorArray
    <3>3. KindArray # KindRef /\ KindArray \in Kinds
      BY DEF KindArray, KindRef, Kinds
    <3>4. KindOf(td) # KindRef /\ KindOf(td) \in Kinds
      BY ONLY <3>2, <3>3
    <3>5. Tail(td) # <<>> /\ Tail(td) \in FloorTypes
      BY ONLY <3>1, <3>2
    <3> QED
      BY ONLY <3>4, <3>5
  <2> QED
    BY <2>3, <2>4, <2>5 DEF FloorTypes
<1>3. \A t \in {1, 2} : <<t, 1>> \in DOMAIN DefaultRegistry
                        /\ TableOver(DefaultRegistry[<<t, 1>>], FloorTypes)
  BY FloorHeld, FloorOver DEF Floor
<1> QED
  BY <1>1, <1>2, <1>3 DEF Free
-----------------------------------------------------------------------------
(***************************************************************************)
(* Loading.                                                                *)
(***************************************************************************)
\* A table artifact is the same to any node that holds the floor.
LEMMA ParsesAlike ==
  ASSUME NEW forest, NEW height, Trees(forest, height), Tied(forest), NEW a \in forest,
         NEW tables, Extends(tables, DefaultRegistry)
  PROVE  ParseFieldTable(a, tables) = ParseFieldTable(a, DefaultRegistry)
<1>1. MetaTable \in Floor /\ MetaTable.version = 1
  BY FloorTables DEF Floor
<1>2. TableOver(MetaTable, FloorTypes)
  BY <1>1, FloorOver
<1>3. MapFree(a, FloorTypes, {"unresolved-ref"}, DefaultRegistry, 1)
  BY FloorIsFree, NeverGiven
<1>4. InterpretMap(MetaTable, a, DefaultRegistry, 1).err # "unresolved-ref"
  BY <1>2, <1>3 DEF MapFree
<1>5. Stands(InterpretMap(MetaTable, a, DefaultRegistry, 1), InterpretMap(MetaTable, a, tables, 1))
  <2>1. MapStands(a, DefaultRegistry, tables)
    BY AnswersGrow
  <2> QED
    BY <2>1 DEF MapStands
<1>6. Interpret(MetaTable, a, DefaultRegistry) = Interpret(MetaTable, a, tables)
  BY <1>1, <1>4, <1>5 DEF Stands, Interpret
<1> QED
  BY <1>6 DEF ParseFieldTable

\* The floor is never taken away.
FloorStays == Extends(reg, DefaultRegistry)

\* No step takes the floor away.
LEMMA FloorStep ==
  ASSUME FloorStays, [Next]_vars
  PROVE  FloorStays'
<1>1. CASE UNCHANGED reg
  BY <1>1 DEF FloorStays, Extends
<1>2. CASE \E t : Add(t)
  <2>1. Extends(reg', reg)
    BY <1>2, AddFacts
  <2> QED
    BY <2>1 DEF FloorStays, Extends
<1> QED
  BY <1>1, <1>2, RegistrySteps

\* Whatever a node has loaded, in whatever order, what it makes of the next
\* table artifact is what a node fresh from its floor makes of it: meta-tables
\* refer to the floor only, and Registry.Add replaces nothing.
THEOREM LoadingIsIndependent ==
  ASSUME NEW forest, NEW height, Trees(forest, height), Tied(forest), TableArtifacts \subseteq forest
  PROVE  Spec => []LoadsAgree
<1>1. Init => FloorStays
  BY DEF Init, FloorStays, Extends
<1>2. FloorStays /\ [Next]_vars => FloorStays'
  BY FloorStep
<1>3. FloorStays => LoadsAgree
  BY ParsesAlike DEF FloorStays, LoadsAgree
<1> QED
  BY <1>1, <1>2, <1>3, PTL DEF Spec

\* An integer field of an instance is an integer.
LEMMA IntField ==
  ASSUME NEW forest, NEW height, Trees(forest, height), Tied(forest), NEW v \in forest,
         NEW table, NEW tables, NEW version, InterpretMap(table, v, tables, version).err = "none",
         NEW k \in DOMAIN InterpretMap(table, v, tables, version).val.fields,
         Is(InterpretMap(table, v, tables, version).val.fields[k], "int")
  PROVE  InterpretMap(table, v, tables, version).val.fields[k].int \in Int
<1> DEFINE x == InterpretMap(table, v, tables, version).val.fields[k]
           td == EntryByKey(table, k).type
<1>1. PICK i \in 1..Len(v.entries) :
        /\ InterpretValue(td, v.entries[i].val, tables, version).err = "none"
        /\ x = InterpretValue(td, v.entries[i].val, tables, version).val
  BY FieldFacts
<1> DEFINE y == v.entries[i].val
<1>2. y \in forest
  <2>1. Is(v, "entries")
    BY MapFacts
  <2> QED
    BY <2>1, Shapes
<1> HIDE DEF x, y, td
<1>3. Is(x, "int")
  BY DEF x
<1>4. /\ KindOf(td) \in Kinds /\ Is(x, GoType(KindOf(td)))
      /\ DOMAIN x \in {{"int"}, {"bytes"}, {"text"}, {"bool"}, {"scale", "mantissa"},
                       {"num", "den"}, {"elems"}, {"table", "version", "fields"}}
  BY <1>1, <1>2, GoTypes DEF y
<1>5. GoType(0) = "int" /\ 0 \in Kinds
  BY DEF GoType, Kinds
<1>6. KindOf(td) = 0
  BY <1>3, <1>4, <1>5, OneGoType
<1>7. InterpretValue(td, y, tables, version) = IF Is(y, ScalarField(0)) THEN Ok(y) ELSE Bad("type-mismatch")
  BY <1>6 DEF InterpretValue, ScalarKinds, KindDecimal, KindRational, KindArray, KindRef
<1>8. x = y
  BY <1>1, <1>7 DEF y, Ok, Bad
<1>9. x.int \in Int
  BY <1>2, <1>3, <1>8, Shapes
<1> QED
  BY <1>9 DEF x

\* A number in the range of an int is one.
LEMMA SmallCoded ==
  ASSUME NEW n \in Int, -IntHalf <= n, n < IntHalf
  PROVE  Coded(n)
<1> DEFINE h == IntHalf
           l == LongHalf
<1>1. h \in Nat \ {0} /\ l \in Nat /\ h <= l /\ n \in Int /\ -h <= n /\ n < h
  BY NativeAssumption
<1> HIDE DEF h, l
<1>2. 0 <= n + h /\ n + h < 2 * h
  BY <1>1
<1>3. (n + h) % (2 * h) = n + h
  BY <1>1, <1>2
<1>4. (n + h) - h = n /\ -l <= n /\ n < l
  BY <1>1
<1>5. NativeInt(n) = n
  BY <1>3, <1>4 DEF NativeInt, h
<1> QED
  BY <1>4, <1>5 DEF Coded, IsInt64, l

\* toInt gives an int of the program.
LEMMA CodeFacts ==
  ASSUME NEW forest, NEW height, Trees(forest, height), Tied(forest), NEW v \in forest,
         NEW table, NEW tables, NEW version, InterpretMap(table, v, tables, version).err = "none",
         NEW key, Code(InterpretMap(table, v, tables, version).val, key).err = "none"
  PROVE  Coded(Code(InterpretMap(table, v, tables, version).val, key).val)
<1> DEFINE in == InterpretMap(table, v, tables, version).val
<1>1. GoType(0) = "int"
  BY DEF GoType
<1> DEFINE n == Get(in, key, 0).val.int
<1>2. Get(in, key, 0).err = "none" /\ Code(in, key) = Ok(n) /\ IsInt64(n) /\ NativeInt(n) = n
  BY DEF Code, Narrow, Bad
<1>3. Has(in, key) /\ Is(in.fields[key], "int") /\ Get(in, key, 0).val = in.fields[key]
  BY <1>1, <1>2 DEF Get, Ok, Bad
<1>4. in.fields[key].int \in Int
  BY <1>3, IntField DEF Has
<1>5. n \in Int
  BY <1>3, <1>4
<1> HIDE DEF n
<1> QED
  BY <1>2, <1>5 DEF Ok, Coded

\* The fields that a kind owns, of those that a descriptor may have.
LEMMA OwnedFacts ==
  ASSUME NEW kind \in Kinds
  PROVE  /\ Owned(kind) \subseteq 1..3
         /\ 1 \in Owned(kind) <=> kind = KindArray
         /\ 2 \in Owned(kind) <=> kind = KindRef
         /\ 3 \in Owned(kind) <=> kind \in {KindDecimal, KindRational}
<1>1. CASE kind \in ScalarKinds
  <2>1. Owned(kind) = {} /\ kind \notin {KindArray, KindRef, KindDecimal, KindRational}
    BY <1>1 DEF Owned, ScalarKinds, KindDecimal, KindRational, KindArray, KindRef
  <2> QED
    BY ONLY <2>1
<1>2. Owned(KindArray) = {1} /\ Owned(KindRef) = {2}
  BY DEF Owned, ScalarKinds, KindDecimal, KindRational, KindArray, KindRef
<1>3. Owned(KindDecimal) = {3} /\ Owned(KindRational) = {3}
  BY DEF Owned, ScalarKinds, KindDecimal, KindRational, KindArray, KindRef
<1>4. kind \in ScalarKinds \/ kind \in {KindDecimal, KindRational, KindArray, KindRef}
  BY DEF Kinds, ScalarKinds, KindDecimal, KindRational, KindArray, KindRef
<1>5. KindArray # KindRef /\ KindArray \notin {KindDecimal, KindRational}
      /\ KindRef \notin {KindDecimal, KindRational}
  BY DEF KindDecimal, KindRational, KindArray, KindRef
<1>6. {1} \subseteq 1..3 /\ {2} \subseteq 1..3 /\ {3} \subseteq 1..3
  OBVIOUS
<1> QED
  BY ONLY <1>1, <1>2, <1>3, <1>4, <1>5, <1>6

\* A descriptor that parses is complete.
LEMMA DescriptorSound ==
  ASSUME NEW ti, ParseTypeDescriptor(ti).err = "none",
         \A key : Code(ti, key).err = "none" => Coded(Code(ti, key).val),
         Has(ti, 1) /\ ParseOf(ti).err = "none" => ParseOf(ti).val \in CodedTypes
  PROVE  ParseTypeDescriptor(ti).val \in CodedTypes
<1> DEFINE r == <<Code(ti, 0), ParseOf(ti), OptionalCode(ti, 2), OptionalCode(ti, 3)>>
           x == Values(r)
           present == {k \in 1..3 : Has(ti, k)}
           Of(y) == Descriptor(y, present)
<1>1. ParseTypeDescriptor(ti) = Then(All(r), Of)
  BY DEF ParseTypeDescriptor, Bad
<1>2. DOMAIN r = 1..4
  OBVIOUS
<1>3. r[1] = Code(ti, 0) /\ r[2] = ParseOf(ti)
      /\ r[3] = OptionalCode(ti, 2) /\ r[4] = OptionalCode(ti, 3)
  OBVIOUS
<1> HIDE DEF r
<1>4. All(r).err = "none"
  BY <1>1 DEF Then
<1>5. (\A i \in 1..4 : r[i].err = "none") /\ All(r) = Ok(x)
  BY <1>2, <1>4, AllSucceed
<1>6. \A i \in 1..4 : x[i] = r[i].val
  BY <1>2, ValuesFacts
<1> HIDE DEF x
<1>7. ParseTypeDescriptor(ti) = Descriptor(x, present)
  BY <1>1, <1>4, <1>5 DEF Then, Ok
<1> DEFINE l == Level(x[1], x[3], x[4])
<1>8. FieldsMatchKind(x[1], present) /\ ParseTypeDescriptor(ti).val = <<l>> \o x[2]
  <2>1. FieldsMatchKind(x[1], present)
    BY <1>7 DEF Descriptor, Bad
  <2>2. Descriptor(x, present) = Ok(<<l>> \o x[2])
    BY <2>1 DEF Descriptor
  <2>3. \A y : Ok(y).val = y
    BY DEF Ok
  <2>4. ParseTypeDescriptor(ti).val = <<l>> \o x[2]
    BY ONLY <1>7, <2>2, <2>3
  <2> QED
    BY <2>1, <2>4
<1>a. Coded(0)
  BY NativeAssumption, SmallCoded
<1>9. x[1] \in Int /\ Coded(x[1])
  BY <1>3, <1>5, <1>6 DEF Coded
<1>10. x[3] \in Int /\ Coded(x[3]) /\ (~Has(ti, 2) => x[3] = 0)
  <2>1. Coded(x[3]) /\ (~Has(ti, 2) => x[3] = 0)
    BY <1>3, <1>5, <1>6, <1>a DEF OptionalCode, Ok
  <2> QED
    BY <2>1 DEF Coded
<1>11. x[4] \in Int /\ Coded(x[4]) /\ (~Has(ti, 3) => x[4] = 0)
  <2>1. Coded(x[4]) /\ (~Has(ti, 3) => x[4] = 0)
    BY <1>3, <1>5, <1>6, <1>a DEF OptionalCode, Ok
  <2> QED
    BY <2>1 DEF Coded
<1>12. IF Has(ti, 1) THEN x[2] \in CodedTypes ELSE x[2] = <<>>
  BY <1>3, <1>5, <1>6 DEF ParseOf, Ok
<1>13. l \in Levels /\ CodedLevel(l) /\ l.kind = x[1] /\ l.ref = x[3] /\ l.unit = x[4]
  <2>1. l \in Levels /\ l.kind = x[1] /\ l.ref = x[3] /\ l.unit = x[4]
    BY <1>9, <1>10, <1>11 DEF Level, Levels
  <2> QED
    BY <1>9, <1>10, <1>11, <2>1 DEF CodedLevel
<1>14. \A k \in 1..3 : x[1] \in Kinds => (Has(ti, k) <=> k \in Owned(x[1]))
  BY <1>8 DEF FieldsMatchKind
<1>15. \A kind \in Kinds : /\ 1 \in Owned(kind) <=> kind = KindArray
                           /\ 2 \in Owned(kind) <=> kind = KindRef
                           /\ 3 \in Owned(kind) <=> kind \in {KindDecimal, KindRational}
  BY OwnedFacts
<1> HIDE DEF l
<1>16. SoundLevel(l, Has(ti, 1))
  <2>1. x[1] \in Kinds => /\ Has(ti, 1) <=> x[1] = KindArray
                          /\ x[1] # KindRef => x[3] = 0
                          /\ x[1] \notin {KindDecimal, KindRational} => x[4] = 0
    <3>1. 1 \in 1..3 /\ 2 \in 1..3 /\ 3 \in 1..3
      OBVIOUS
    <3> QED
      BY ONLY <3>1, <1>10, <1>11, <1>14, <1>15
  <2> QED
    BY ONLY <2>1, <1>13 DEF SoundLevel
<1>17. CASE Has(ti, 1)
  <2>1. SoundLevel(l, TRUE)
    BY <1>16, <1>17 DEF SoundLevel
  <2> DEFINE td == x[2]
  <2>2. td \in CodedTypes /\ td \in SoundTypes /\ td \in Seq(Levels)
    BY <1>12, <1>17 DEF CodedTypes, SoundTypes
  <2> HIDE DEF td
  <2>3. <<l>> \o td \in SoundTypes
    BY <1>13, <2>1, <2>2, TypeOfMore
  <2>4. \A i \in DOMAIN (<<l>> \o td) : CodedLevel((<<l>> \o td)[i])
    BY <1>13, <2>2, CodedOver
  <2>5. <<l>> \o td \in CodedTypes
    BY <2>3, <2>4 DEF CodedTypes
  <2> QED
    BY <1>8, <2>5 DEF td
<1>18. CASE ~Has(ti, 1)
  <2>1. SoundLevel(l, FALSE)
    BY <1>16, <1>18 DEF SoundLevel
  <2>2. <<l>> \o <<>> = <<l>>
    OBVIOUS
  <2>3. <<l>> \in SoundTypes
    BY <1>13, <2>1, TypeOfOne
  <2>4. \A i \in DOMAIN <<l>> : CodedLevel(<<l>>[i])
    BY <1>13
  <2>5. <<l>> \in CodedTypes
    BY <2>3, <2>4 DEF CodedTypes
  <2> QED
    BY <1>8, <1>12, <1>18, <2>2, <2>5
<1> QED
  BY <1>17, <1>18

\* What a fresh node makes of an artifact, at the version of its floor.
FloorRead(table, v) == InterpretMap(table, v, DefaultRegistry, 1)

\* The types that lead from a table artifact to the descriptors in it.
LEMMA FloorWays ==
  /\ \A k : Named(MetaTable, k) # {} /\ k = 2 => EntryByKey(MetaTable, k).type = ArrayOf(Ref(1))
  /\ \A k : Named(EntryTable, k) # {} /\ k = 2 => EntryByKey(EntryTable, k).type = Ref(2)
  /\ \A k : Named(TypeDescriptorTable, k) # {} /\ k = 1 =>
       EntryByKey(TypeDescriptorTable, k).type = Ref(2)
<1>1. /\ MetaTable.entries[3].type = ArrayOf(Ref(1)) /\ EntryTable.entries[3].type = Ref(2)
      /\ TypeDescriptorTable.entries[2].type = Ref(2)
  BY DEF MetaTable, EntryTable, TypeDescriptorTable, Entry
<1>2. \A t \in Floor : SoundTable(t)
  BY FloorTables
<1>3. ASSUME NEW t \in Floor, NEW k, Named(t, k) # {}, k \in {1, 2}
      PROVE  EntryByKey(t, k) = t.entries[k + 1]
  <2>1. PICK n \in Nat : DOMAIN t.entries = 1..n
    BY <1>2 DEF SoundTable
  <2>2. PICK i \in DOMAIN t.entries : k = i - 1 /\ EntryByKey(t, k) = t.entries[i]
    BY <1>2, <1>3, SoundEntry
  <2>3. i = k + 1
    BY <2>1, <2>2
  <2> QED
    BY <2>2, <2>3
<1>4. 2 + 1 = 3 /\ 1 + 1 = 2
  OBVIOUS
<1>5. MetaTable \in Floor /\ EntryTable \in Floor /\ TypeDescriptorTable \in Floor
  BY DEF Floor
<1> QED
  BY ONLY <1>1, <1>3, <1>4, <1>5

\* A reference into the floor is read under the table it names.
LEMMA FloorRefs ==
  ASSUME NEW v
  PROVE  /\ InterpretValue(Ref(1), v, DefaultRegistry, 1) = FloorRead(EntryTable, v)
         /\ InterpretValue(Ref(2), v, DefaultRegistry, 1) = FloorRead(TypeDescriptorTable, v)
<1>1. \A t \in {1, 2} : KindOf(Ref(t)) = KindRef /\ Ref(t)[1].ref = t
  BY DEF KindOf, Ref, Level
<1>2. <<1, 1>> \in DOMAIN DefaultRegistry /\ <<2, 1>> \in DOMAIN DefaultRegistry
  BY FloorHeld
<1>3. ASSUME NEW t \in {1, 2}
      PROVE  InterpretValue(Ref(t), v, DefaultRegistry, 1) = FloorRead(DefaultRegistry[<<t, 1>>], v)
  <2>1. <<t, 1>> \in DOMAIN DefaultRegistry
    BY <1>2
  <2> QED
    BY <1>1, <2>1 DEF InterpretValue, FloorRead, ScalarKinds, KindDecimal, KindRational, KindArray, KindRef
<1> QED
  BY <1>3, FloorHeld

\* The field of a type 2 reference was read under TypeDescriptorTable.
LEMMA DescriptorField ==
  ASSUME NEW forest, NEW height, Trees(forest, height), Tied(forest), NEW v \in forest,
         NEW table, FloorRead(table, v).err = "none",
         NEW k \in DOMAIN FloorRead(table, v).val.fields,
         Named(table, k) # {} => EntryByKey(table, k).type = Ref(2)
  PROVE  \E x \in forest :
           /\ height[x] < height[v] /\ FloorRead(TypeDescriptorTable, x).err = "none"
           /\ FloorRead(table, v).val.fields[k] = FloorRead(TypeDescriptorTable, x).val
<1>1. InterpretMap(table, v, DefaultRegistry, 1).err = "none"
      /\ k \in DOMAIN InterpretMap(table, v, DefaultRegistry, 1).val.fields
  BY DEF FloorRead
<1>2. PICK i \in 1..Len(v.entries) :
        /\ Named(table, k) # {}
        /\ InterpretValue(EntryByKey(table, k).type, v.entries[i].val, DefaultRegistry, 1).err = "none"
        /\ FloorRead(table, v).val.fields[k]
             = InterpretValue(EntryByKey(table, k).type, v.entries[i].val, DefaultRegistry, 1).val
  BY <1>1, FieldFacts DEF FloorRead
<1>3. Is(v, "entries")
  BY <1>1, MapFacts
<1>4. v.entries[i].val \in forest /\ height[v.entries[i].val] < height[v]
  BY <1>3, Shapes
<1>5. InterpretValue(EntryByKey(table, k).type, v.entries[i].val, DefaultRegistry, 1)
        = FloorRead(TypeDescriptorTable, v.entries[i].val)
  BY <1>2, FloorRefs
<1> QED
  BY <1>2, <1>4, <1>5

\* Every descriptor that a fresh node reads and parses is complete.
DescribesSound(v) ==
  LET ti == FloorRead(TypeDescriptorTable, v).val
  IN  FloorRead(TypeDescriptorTable, v).err = "none" /\ ParseTypeDescriptor(ti).err = "none" =>
        ParseTypeDescriptor(ti).val \in CodedTypes

\* A descriptor is complete if those inside it are.
LEMMA DescriptorOfSound ==
  ASSUME NEW forest, NEW height, Trees(forest, height), Tied(forest), NEW v \in forest,
         \A x \in forest : height[x] < height[v] => DescribesSound(x)
  PROVE  DescribesSound(v)
<1> DEFINE ti == FloorRead(TypeDescriptorTable, v).val
<1> SUFFICES ASSUME FloorRead(TypeDescriptorTable, v).err = "none", ParseTypeDescriptor(ti).err = "none"
             PROVE  ParseTypeDescriptor(ti).val \in CodedTypes
  BY DEF DescribesSound
<1>1. ASSUME NEW key, Code(ti, key).err = "none"
      PROVE  Coded(Code(ti, key).val)
  BY <1>1, CodeFacts DEF FloorRead
<1>2. ASSUME Has(ti, 1), ParseOf(ti).err = "none"
      PROVE  ParseOf(ti).val \in CodedTypes
  <2>1. ParseOf(ti) = NestedType(ti.fields[1])
    BY <1>2 DEF ParseOf, Bad
  <2>2. 1 \in DOMAIN FloorRead(TypeDescriptorTable, v).val.fields
    BY <1>2 DEF Has
  <2>3. PICK x \in forest :
          /\ height[x] < height[v] /\ FloorRead(TypeDescriptorTable, x).err = "none"
          /\ ti.fields[1] = FloorRead(TypeDescriptorTable, x).val
    BY <2>2, FloorWays, DescriptorField
  <2>4. DescribesSound(x)
    BY <2>3
  <2>5. NestedType(ti.fields[1]) = ParseTypeDescriptor(ti.fields[1])
    BY <2>3 DEF Tied, FloorRead
  <2> QED
    BY <1>2, <2>1, <2>3, <2>4, <2>5 DEF DescribesSound
<1> HIDE DEF ti
<1> QED
  BY <1>1, <1>2, DescriptorSound

\* Every descriptor that parses is complete, however deep.
LEMMA DescriptorsSound ==
  ASSUME NEW forest, NEW height, Trees(forest, height), Tied(forest)
  PROVE  \A v \in forest : DescribesSound(v)
<1> DEFINE Wrong == {height[v] : v \in {x \in forest : ~DescribesSound(x)}}
<1>1. Wrong \in SUBSET Nat
  BY DEF Trees
<1>2. ASSUME Wrong # {} PROVE FALSE
  <2>1. Min(Wrong) \in Wrong /\ \A k \in Wrong : Min(Wrong) <= k
    <3> HIDE DEF Wrong
    <3> QED
      BY <1>1, <1>2, MinFacts
  <2>2. PICK v \in forest : ~DescribesSound(v) /\ height[v] = Min(Wrong)
    BY <2>1
  <2>3. ASSUME NEW x \in forest, height[x] < height[v] PROVE DescribesSound(x)
    <3>1. height[x] \in Nat /\ height[v] \in Nat
      BY Shapes
    <3>2. height[x] \notin Wrong
      <4> HIDE DEF Wrong
      <4> QED
        BY <2>1, <2>2, <2>3, <3>1
    <3> QED
      BY <3>2
  <2>4. DescribesSound(v)
    BY <2>3, DescriptorOfSound
  <2> QED
    BY <2>2, <2>4
<1> QED
  BY <1>2

\* The names that the texts of a forest spell.
NamesIn(forest) == {x.text : x \in {y \in forest : Is(y, "text")}}

\* An entry that an artifact can spell out.
WritableEntry(e, names) ==
  /\ e = Entry(e.key, e.name, e.type, e.presence)
  /\ Coded(e.key) /\ Coded(e.presence) /\ e.type \in CodedTypes /\ e.name \in names

\* The name of an entry was a text of the artifact.
LEMMA EntryName ==
  ASSUME NEW forest, NEW height, Trees(forest, height), Tied(forest), NEW v \in forest,
         FloorRead(EntryTable, v).err = "none", Has(FloorRead(EntryTable, v).val, 1)
  PROVE  Get(FloorRead(EntryTable, v).val, 1, 2).val.text \in NamesIn(forest)
<1> DEFINE ei == FloorRead(EntryTable, v).val
           td == EntryByKey(EntryTable, 1).type
<1>1. /\ InterpretMap(EntryTable, v, DefaultRegistry, 1).err = "none"
      /\ 1 \in DOMAIN InterpretMap(EntryTable, v, DefaultRegistry, 1).val.fields
  BY DEF FloorRead, Has
<1>2. PICK i \in 1..Len(v.entries) :
        /\ InterpretValue(td, v.entries[i].val, DefaultRegistry, 1).err = "none"
        /\ ei.fields[1] = InterpretValue(td, v.entries[i].val, DefaultRegistry, 1).val
  BY <1>1, FieldFacts DEF FloorRead
<1> DEFINE y == v.entries[i].val
<1>3. y \in forest
  <2>1. Is(v, "entries")
    BY <1>1, MapFacts
  <2> QED
    BY <2>1, Shapes
<1>4. td = Scalar(2)
  <2>1. EntryTable \in Floor /\ 1 \in Nat /\ 1 + 1 = 2 /\ 2 \in 1..4
    BY DEF Floor
  <2>2. EntryTable.entries[2].type = Scalar(2)
    BY DEF EntryTable, Entry
  <2>3. EntryByKey(EntryTable, 1) = EntryTable.entries[2]
    BY <2>1, FloorTables, FloorEntry
  <2> QED
    BY <2>2, <2>3
<1>5. KindOf(td) = 2 /\ ScalarField(2) = "text" /\ GoType(2) = "text"
  BY <1>4 DEF KindOf, Scalar, Level, ScalarField, GoType
<1> HIDE DEF td, y
<1>6. InterpretValue(td, y, DefaultRegistry, 1) = IF Is(y, "text") THEN Ok(y) ELSE Bad("type-mismatch")
  BY <1>5 DEF InterpretValue, ScalarKinds, KindDecimal, KindRational, KindArray, KindRef
<1>7. Is(y, "text") /\ ei.fields[1] = y
  BY <1>2, <1>6 DEF Ok, Bad, y
<1>8. Get(ei, 1, 2).val = y
  BY <1>5, <1>7 DEF Get, Ok
<1> HIDE DEF ei
<1>9. y.text \in NamesIn(forest)
  BY <1>3, <1>7 DEF NamesIn
<1> QED
  BY <1>8, <1>9 DEF ei

\* An entry that a fresh node reads and parses has a complete type, and an artifact
\* can spell it out.
LEMMA EntrySound ==
  ASSUME NEW forest, NEW height, Trees(forest, height), Tied(forest), NEW v \in forest,
         FloorRead(EntryTable, v).err = "none",
         ParseEntry(FloorRead(EntryTable, v).val).err = "none"
  PROVE  WritableEntry(ParseEntry(FloorRead(EntryTable, v).val).val, NamesIn(forest))
<1> DEFINE ei == FloorRead(EntryTable, v).val
           name == Get(ei, 1, 2).val.text
           r == <<Code(ei, 0), Code(ei, 3), ParseType(Get(ei, 2, KindRef))>>
           x == Values(r)
           EntryOf(y) == Ok(Entry(y[1], name, y[3], y[2]))
<1>1. ParseEntry(ei) = Then(All(r), EntryOf) /\ Has(ei, 1)
  BY DEF ParseEntry, Bad
<1>a. name \in NamesIn(forest)
  BY <1>1, EntryName
<1>2. /\ DOMAIN r = 1..3 /\ r[3] = ParseType(Get(ei, 2, KindRef)) /\ r[1] = Code(ei, 0)
      /\ r[2] = Code(ei, 3) /\ 1 \in 1..3 /\ 2 \in 1..3 /\ 3 \in 1..3
  OBVIOUS
<1> HIDE DEF r, ei, name
<1>3. All(r).err = "none"
  BY <1>1 DEF Then, ei
<1>4. (\A i \in 1..3 : r[i].err = "none") /\ All(r) = Ok(x)
  BY <1>2, <1>3, AllSucceed
<1>5. \A i \in 1..3 : x[i] = r[i].val
  <2>1. 3 \in Nat /\ DOMAIN r = 1..3
    BY <1>2
  <2> QED
    BY ONLY <2>1, ValuesFacts DEF x
<1> HIDE DEF x
<1>6. ParseEntry(ei).val = Entry(x[1], name, x[3], x[2])
  BY <1>1, <1>3, <1>4 DEF Then, Ok
<1>7. r[1].err = "none" /\ r[2].err = "none" /\ r[3].err = "none"
  BY <1>2, <1>4
<1>8. Get(ei, 2, KindRef).err = "none" /\ r[3] = ParseTypeDescriptor(Get(ei, 2, KindRef).val)
  BY <1>2, <1>7 DEF ParseType, Bad
<1>9. Has(ei, 2) /\ Get(ei, 2, KindRef).val = ei.fields[2]
  BY <1>8 DEF Get, Ok, Bad
<1>10. PICK w \in forest : /\ FloorRead(TypeDescriptorTable, w).err = "none"
                           /\ ei.fields[2] = FloorRead(TypeDescriptorTable, w).val
  <2>1. 2 \in DOMAIN FloorRead(EntryTable, v).val.fields
    BY <1>9 DEF Has, ei
  <2> QED
    BY <2>1, FloorWays, DescriptorField DEF ei
<1>11. DescribesSound(w)
  BY DescriptorsSound
<1>12. r[3].val \in CodedTypes
  BY <1>7, <1>8, <1>9, <1>10, <1>11 DEF DescribesSound
<1>13. Coded(r[1].val) /\ Coded(r[2].val)
  <2>1. \A key : Code(ei, key).err = "none" => Coded(Code(ei, key).val)
    BY CodeFacts DEF ei, FloorRead
  <2> QED
    BY <1>2, <1>7, <2>1
<1> DEFINE e == ParseEntry(ei).val
<1>14. e = Entry(x[1], name, x[3], x[2])
  BY <1>6
<1> HIDE DEF e
<1>15. e.key = x[1] /\ e.name = name /\ e.type = x[3] /\ e.presence = x[2]
  BY <1>14 DEF Entry
<1>16. Coded(x[1]) /\ Coded(x[2]) /\ x[3] \in CodedTypes
  BY <1>2, <1>5, <1>12, <1>13
<1> QED
  BY <1>a, <1>14, <1>15, <1>16 DEF WritableEntry, e, ei

\* The elements of the entries of a table artifact were read under EntryTable.
LEMMA EntriesField ==
  ASSUME NEW forest, NEW height, Trees(forest, height), Tied(forest), NEW a \in forest,
         FloorRead(MetaTable, a).err = "none", Has(FloorRead(MetaTable, a).val, 2)
  PROVE  LET x == FloorRead(MetaTable, a).val.fields[2]
         IN  /\ Is(x, "elems") /\ Get(FloorRead(MetaTable, a).val, 2, KindArray).val = x
             /\ \E n \in Nat :
                  /\ DOMAIN x.elems = 1..n
                  /\ \A i \in 1..n : \E w \in forest :
                       FloorRead(EntryTable, w).err = "none" /\ x.elems[i] = FloorRead(EntryTable, w).val
<1> DEFINE x == FloorRead(MetaTable, a).val.fields[2]
           td == ArrayOf(Ref(1))
<1>1. /\ InterpretMap(MetaTable, a, DefaultRegistry, 1).err = "none"
      /\ 2 \in DOMAIN InterpretMap(MetaTable, a, DefaultRegistry, 1).val.fields
  BY DEF FloorRead, Has
<1>2. PICK i \in 1..Len(a.entries) :
        /\ Named(MetaTable, 2) # {}
        /\ InterpretValue(EntryByKey(MetaTable, 2).type, a.entries[i].val, DefaultRegistry, 1).err = "none"
        /\ x = InterpretValue(EntryByKey(MetaTable, 2).type, a.entries[i].val, DefaultRegistry, 1).val
  BY <1>1, FieldFacts DEF FloorRead
<1> DEFINE v == a.entries[i].val
           result == InterpretValue(td, v, DefaultRegistry, 1)
           n == Len(v.items)
           r == [j \in DOMAIN v.items |-> NestedValue(Ref(1), v.items[j], DefaultRegistry, 1)]
<1>3. v \in forest
  <2>1. Is(a, "entries")
    BY <1>1, MapFacts
  <2> QED
    BY <2>1, Shapes
<1>4. result.err = "none" /\ x = result.val
  BY <1>2, FloorWays
<1>5. KindOf(td) = KindArray /\ Tail(td) = Ref(1) /\ Ref(1) # <<>>
  <2>1. Ref(1) # <<>>
    BY DEF Ref
  <2> QED
    BY <2>1, FloorArray
<1> HIDE DEF x, td, v
<1>6. Is(v, "items") /\ result = InterpretArray(Ref(1), v.items, DefaultRegistry, 1)
  <2>1. result = IF Is(v, "items") THEN InterpretArray(Tail(td), v.items, DefaultRegistry, 1)
                 ELSE Bad("type-mismatch")
    BY <1>5 DEF InterpretValue, ScalarKinds, KindDecimal, KindRational, KindArray, KindRef
  <2>2. Bad("type-mismatch").err # "none"
    BY DEF Bad
  <2> QED
    BY <1>4, <1>5, <2>1, <2>2
<1>7. result = Then(All(r), Elements)
  BY <1>5, <1>6 DEF InterpretArray
<1>8. n \in Nat /\ DOMAIN v.items = 1..n /\ DOMAIN r = 1..n /\ \A j \in 1..n : v.items[j] \in forest
  BY <1>3, <1>6, Shapes
<1>9. \A j \in 1..n : r[j] = FloorRead(EntryTable, v.items[j])
  <2> TAKE j \in 1..n
  <2>1. r[j] = NestedValue(Ref(1), v.items[j], DefaultRegistry, 1)
    BY <1>8
  <2>2. NestedValue(Ref(1), v.items[j], DefaultRegistry, 1)
          = InterpretValue(Ref(1), v.items[j], DefaultRegistry, 1)
    BY <1>8 DEF Tied
  <2> QED
    BY <2>1, <2>2, FloorRefs
<1> HIDE DEF r, n
<1>10. All(r).err = "none"
  BY <1>4, <1>7 DEF Then
<1>11. (\A j \in 1..n : r[j].err = "none") /\ All(r) = Ok(Values(r))
  BY <1>8, <1>10, AllSucceed
<1>12. DOMAIN Values(r) = 1..n /\ \A j \in 1..n : Values(r)[j] = r[j].val
  BY <1>8, ValuesFacts
<1>13. x = [elems |-> Values(r)]
  BY <1>4, <1>7, <1>10, <1>11 DEF Then, Ok, Elements
<1>14. Is(x, "elems") /\ x.elems = Values(r)
  BY <1>13 DEF Is
<1>15. Get(FloorRead(MetaTable, a).val, 2, KindArray).val = x
  <2>1. GoType(KindArray) = "elems"
    BY DEF GoType, KindArray
  <2> QED
    BY <1>14, <2>1 DEF Get, x, Ok
<1>16. \A j \in 1..n : \E w \in forest :
         FloorRead(EntryTable, w).err = "none" /\ x.elems[j] = FloorRead(EntryTable, w).val
  BY <1>8, <1>9, <1>11, <1>12, <1>14
<1> QED
  BY <1>8, <1>12, <1>14, <1>15, <1>16 DEF x

\* A table that a fresh node parses has the keys 0, 1, ..., n - 1, and entries
\* that were each read under EntryTable and parsed.
LEMMA ParsedEntries ==
  ASSUME NEW forest, NEW height, Trees(forest, height), Tied(forest), NEW a \in forest,
         ParseFieldTable(a, DefaultRegistry).err = "none"
  PROVE  LET t       == ParseFieldTable(a, DefaultRegistry).val
             entries == t.entries
         IN  /\ entries # <<>>
             /\ t = [describes |-> t.describes, version |-> t.version, entries |-> entries]
             /\ Coded(t.describes) /\ Coded(t.version)
             /\ \E n \in Nat :
                  /\ DOMAIN entries = 1..n /\ entries = [i \in 1..n |-> entries[i]]
                  /\ \A i \in 1..n : entries[i].key = i - 1
                  /\ \A i \in 1..n : \E w \in forest :
                       LET parsed == ParseEntry(FloorRead(EntryTable, w).val)
                       IN  /\ FloorRead(EntryTable, w).err = "none"
                           /\ parsed.err = "none" /\ entries[i] = parsed.val
<1> DEFINE in == FloorRead(MetaTable, a).val
           elems == Get(in, 2, KindArray).val.elems
           q == <<Code(in, 0), Code(in, 1), ParseEntries(elems)>>
           x == Values(q)
           Build(y) == Ok([describes |-> y[1], version |-> y[2], entries |-> y[3]])
           Parse(e) == IF Is(e, "fields") THEN ParseEntry(e) ELSE Bad("type-mismatch")
           r == [i \in DOMAIN elems |-> Parse(elems[i])]
<1>1. FloorRead(MetaTable, a).err = "none" /\ ParseFieldTable(a, DefaultRegistry) = TableOf(in)
  <2>1. Interpret(MetaTable, a, DefaultRegistry) = FloorRead(MetaTable, a)
    BY FloorTables DEF Interpret, FloorRead, Floor
  <2> QED
    BY <2>1 DEF ParseFieldTable, Then
<1>2. Has(in, 2) /\ TableOf(in) = Then(All(q), Build)
  BY <1>1 DEF TableOf, Bad
<1>3. PICK n \in Nat :
        /\ DOMAIN elems = 1..n
        /\ \A i \in 1..n : \E w \in forest :
             FloorRead(EntryTable, w).err = "none" /\ elems[i] = FloorRead(EntryTable, w).val
  BY <1>1, <1>2, EntriesField
<1>4. /\ DOMAIN q = 1..3 /\ q[3] = ParseEntries(elems) /\ q[1] = Code(in, 0) /\ q[2] = Code(in, 1)
      /\ 1 \in 1..3 /\ 2 \in 1..3 /\ 3 \in 1..3
  OBVIOUS
<1>a. \A key : Code(in, key).err = "none" => Coded(Code(in, key).val)
  BY <1>1, CodeFacts DEF FloorRead
<1>5. ParseEntries(elems) = Then(All(r), CheckedEntries)
  BY DEF ParseEntries
<1>6. DOMAIN r = 1..n /\ \A i \in 1..n : r[i] = Parse(elems[i])
  BY <1>3
<1> HIDE DEF q, r, elems, in
<1>7. All(q).err = "none"
  BY <1>1, <1>2 DEF Then
<1>8. (\A i \in 1..3 : q[i].err = "none") /\ All(q) = Ok(x)
  BY <1>4, <1>7, AllSucceed
<1>9. x[1] = q[1].val /\ x[2] = q[2].val /\ x[3] = q[3].val
  <2>1. \A i \in 1..3 : x[i] = q[i].val
    <3>1. 3 \in Nat /\ DOMAIN q = 1..3
      BY <1>4
    <3> QED
      BY ONLY <3>1, ValuesFacts DEF x
  <2> QED
    BY <1>4, <2>1
<1> HIDE DEF x
<1> DEFINE t == ParseFieldTable(a, DefaultRegistry).val
<1>b. t = [describes |-> x[1], version |-> x[2], entries |-> x[3]]
  BY <1>1, <1>2, <1>7, <1>8 DEF Then, Ok
<1>c. Coded(x[1]) /\ Coded(x[2])
  BY <1>4, <1>8, <1>9, <1>a
<1> HIDE DEF t
<1>10. t.entries = x[3] /\ t.describes = x[1] /\ t.version = x[2]
  BY <1>b
<1>11. ParseEntries(elems).err = "none" /\ x[3] = ParseEntries(elems).val
  BY <1>4, <1>8, <1>9
<1>12. All(r).err = "none"
  BY <1>5, <1>11 DEF Then
<1>13. (\A i \in 1..n : r[i].err = "none") /\ All(r) = Ok(Values(r))
  BY <1>6, <1>12, AllSucceed
<1>14. DOMAIN Values(r) = 1..n /\ \A i \in 1..n : Values(r)[i] = r[i].val
  BY <1>6, ValuesFacts
<1> DEFINE entries == Values(r)
<1> HIDE DEF entries
<1>15. ParseEntries(elems) = CheckedEntries(entries)
  BY <1>5, <1>12, <1>13 DEF Then, Ok, entries
<1>16. ValidKeys(entries) /\ x[3] = entries
  BY <1>11, <1>15 DEF CheckedEntries, Ok, Bad
<1>17. ASSUME NEW i \in 1..n
       PROVE  \E w \in forest :
                LET parsed == ParseEntry(FloorRead(EntryTable, w).val)
                IN  /\ FloorRead(EntryTable, w).err = "none"
                    /\ parsed.err = "none" /\ entries[i] = parsed.val
  <2>1. PICK w \in forest :
          FloorRead(EntryTable, w).err = "none" /\ elems[i] = FloorRead(EntryTable, w).val
    BY <1>3
  <2>2. r[i].err = "none" /\ r[i] = Parse(elems[i])
    BY <1>6, <1>13
  <2>3. r[i] = ParseEntry(elems[i])
    BY <2>2 DEF Bad
  <2>4. entries[i] = r[i].val
    BY <1>14 DEF entries
  <2> QED
    BY <2>1, <2>2, <2>3, <2>4
<1>18. DOMAIN entries = 1..n /\ entries = [i \in 1..n |-> entries[i]]
  <2>1. Values(r) = [i \in 1..n |-> r[i].val]
    BY <1>6, ValuesFacts
  <2> QED
    BY <2>1 DEF entries
<1>19. entries # <<>> /\ \A i \in 1..n : entries[i].key = i - 1
  BY <1>16, <1>18 DEF ValidKeys
<1>20. t = [describes |-> t.describes, version |-> t.version, entries |-> entries]
       /\ Coded(t.describes) /\ Coded(t.version) /\ t.entries = entries
  BY <1>b, <1>c, <1>10, <1>16
<1> QED
  BY <1>3, <1>17, <1>18, <1>19, <1>20 DEF t

\* A table that an artifact can spell out.
Writable(t, names) ==
  /\ t = [describes |-> t.describes, version |-> t.version, entries |-> t.entries]
  /\ Coded(t.describes) /\ Coded(t.version)
  /\ t.entries # <<>>
  /\ \E n \in Nat :
       /\ DOMAIN t.entries = 1..n /\ t.entries = [i \in 1..n |-> t.entries[i]]
       /\ \A i \in 1..n : t.entries[i].key = i - 1 /\ WritableEntry(t.entries[i], names)

\* Such a table is sound.
LEMMA WritableIsSound ==
  ASSUME NEW t, NEW names, Writable(t, names)
  PROVE  SoundTable(t)
BY DEF Writable, WritableEntry, CodedTypes, SoundTable

\* A table that a fresh node parses can be spelled out again.
LEMMA ParsedIsWritable ==
  ASSUME NEW forest, NEW height, Trees(forest, height), Tied(forest), NEW a \in forest,
         ParseFieldTable(a, DefaultRegistry).err = "none"
  PROVE  Writable(ParseFieldTable(a, DefaultRegistry).val, NamesIn(forest))
<1> DEFINE t == ParseFieldTable(a, DefaultRegistry).val
           entries == t.entries
<1>1. /\ t = [describes |-> t.describes, version |-> t.version, entries |-> entries]
      /\ Coded(t.describes) /\ Coded(t.version)
      /\ \E n \in Nat :
           /\ entries # <<>> /\ DOMAIN entries = 1..n /\ entries = [i \in 1..n |-> entries[i]]
           /\ \A i \in 1..n : entries[i].key = i - 1
           /\ \A i \in 1..n : \E w \in forest :
                LET parsed == ParseEntry(FloorRead(EntryTable, w).val)
                IN  /\ FloorRead(EntryTable, w).err = "none"
                    /\ parsed.err = "none" /\ entries[i] = parsed.val
  BY ParsedEntries
<1> HIDE DEF t
<1>2. PICK n \in Nat :
        /\ entries # <<>> /\ DOMAIN entries = 1..n /\ entries = [i \in 1..n |-> entries[i]]
        /\ \A i \in 1..n : entries[i].key = i - 1
        /\ \A i \in 1..n : \E w \in forest :
             LET parsed == ParseEntry(FloorRead(EntryTable, w).val)
             IN  /\ FloorRead(EntryTable, w).err = "none"
                 /\ parsed.err = "none" /\ entries[i] = parsed.val
  BY <1>1
<1>3. \A i \in 1..n : WritableEntry(entries[i], NamesIn(forest))
  BY <1>2, EntrySound
<1> QED
  BY <1>1, <1>2, <1>3 DEF Writable, t

\* A table that a fresh node parses is sound.
LEMMA ParsedIsSound ==
  ASSUME NEW forest, NEW height, Trees(forest, height), Tied(forest), NEW a \in forest,
         ParseFieldTable(a, DefaultRegistry).err = "none"
  PROVE  SoundTable(ParseFieldTable(a, DefaultRegistry).val)
BY ParsedIsWritable, WritableIsSound
-----------------------------------------------------------------------------
(***************************************************************************)
(* The tables a node holds, and what it reads under them.                  *)
(***************************************************************************)
\* Every table is held under its own name and sound, and the floor is there:
\* without the floor the next table artifact would be judged by other tables.
TablesInv ==
  /\ FloorStays
  /\ \A k \in DOMAIN reg : RegKey(reg[k]) = k /\ SoundTable(reg[k])

\* The floor is sound.
LEMMA TablesInit == Init => TablesInv
<1> SUFFICES ASSUME Init PROVE TablesInv
  OBVIOUS
<1>1. FloorStays
  BY DEF Init, FloorStays, Extends
<1>2. \A k \in {<<0, 1>>, <<1, 1>>, <<2, 1>>} :
        DefaultRegistry[k] \in Floor /\ RegKey(DefaultRegistry[k]) = k
  <2>1. RegKey(MetaTable) = <<0, 1>> /\ RegKey(EntryTable) = <<1, 1>>
        /\ RegKey(TypeDescriptorTable) = <<2, 1>>
    BY FloorTables DEF RegKey, Floor
  <2> QED
    BY <2>1, FloorHeld DEF Floor
<1> QED
  BY <1>1, <1>2, FloorHeld, FloorTables DEF Init, TablesInv

\* A step adds sound tables only, under their own names.
LEMMA TablesStep ==
  ASSUME NEW forest, NEW height, Trees(forest, height), Tied(forest), TableArtifacts \subseteq forest,
         TablesInv, [Next]_vars
  PROVE  TablesInv'
<1>1. FloorStays'
  BY FloorStep DEF TablesInv
<1>2. CASE UNCHANGED reg
  BY <1>1, <1>2 DEF TablesInv
<1>3. ASSUME NEW a \in TableArtifacts,
             ParseFieldTable(a, reg).err = "none", Add(ParseFieldTable(a, reg).val)
      PROVE  TablesInv'
  <2> DEFINE t == ParseFieldTable(a, reg).val
  <2>1. ParseFieldTable(a, reg) = ParseFieldTable(a, DefaultRegistry)
    BY ParsesAlike DEF TablesInv, FloorStays
  <2>2. SoundTable(t)
    BY <1>3, <2>1, ParsedIsSound
  <2> HIDE DEF t
  <2>3. \A k \in DOMAIN reg' :
          (k \in DOMAIN reg /\ reg'[k] = reg[k]) \/ (k = RegKey(t) /\ reg'[k] = t)
    BY <1>3, AddFacts DEF t
  <2>4. \A k \in DOMAIN reg' : RegKey(reg'[k]) = k /\ SoundTable(reg'[k])
    BY <2>2, <2>3 DEF TablesInv
  <2> QED
    BY <1>1, <2>4 DEF TablesInv
<1> QED
  BY <1>2, <1>3, RegistrySteps

\* Whatever is loaded, the tables that are held have the keys 0, 1, ..., n - 1,
\* complete types, and the names they are held under: ParseFieldTable lets
\* nothing through that Registry.Add or interpretValue would trip over.
THEOREM TablesStaySound ==
  ASSUME NEW forest, NEW height, Trees(forest, height), Tied(forest), TableArtifacts \subseteq forest
  PROVE  Spec => []TablesSound
<1>1. TablesInv /\ [Next]_vars => TablesInv'
  BY TablesStep
<1>2. TablesInv => TablesSound
  BY DEF TablesInv, TablesSound, SoundTable, SoundTypes
<1> QED
  BY TablesInit, <1>1, <1>2, PTL DEF Spec

\* No artifact is ever blamed with a reason that judges tables: what Interpret
\* would answer for a broken table is out of reach.
THEOREM MalformedIsForTables ==
  ASSUME NEW forest, NEW height, Trees(forest, height), Tied(forest), TableArtifacts \subseteq forest,
         Artifacts \subseteq forest
  PROVE  Spec => []NeverMalformed
<1>1. TablesInv /\ [Next]_vars => TablesInv'
  BY TablesStep
<1>2. ASSUME TablesInv, NEW k \in DOMAIN reg, NEW a \in Artifacts
      PROVE  Interpret(reg[k], a, reg).err \notin Malformed
  <2> DEFINE version == reg[k].version
  <2>1. Free(SoundTypes, Malformed, reg, version)
    BY <1>2, SoundIsFree DEF TablesInv
  <2>2. TableOver(reg[k], SoundTypes)
    BY <1>2, SoundOver DEF TablesInv
  <2> HIDE DEF version
  <2>3. MapFree(a, SoundTypes, Malformed, reg, version)
    BY <2>1, NeverGiven
  <2>4. InterpretMap(reg[k], a, reg, version).err \notin Malformed
    BY <2>2, <2>3 DEF MapFree
  <2> QED
    BY <2>4 DEF Interpret, version
<1>3. TablesInv => NeverMalformed
  BY <1>2 DEF NeverMalformed, Malformed
<1> QED
  BY TablesInit, <1>1, <1>3, PTL DEF Spec

\* Under every table that is ever held, a field that was interpreted answers to
\* the accessor of its declared kind and to no other: ParseFieldTable, which
\* drops the ok of Int, Text and Array, reads what it has checked.
THEOREM AccessorsAnswer ==
  ASSUME NEW forest, NEW height, Trees(forest, height), Tied(forest), TableArtifacts \subseteq forest,
         Artifacts \subseteq forest
  PROVE  Spec => []AccessorsAgree
<1>1. TablesInv /\ [Next]_vars => TablesInv'
  BY TablesStep
<1>2. ASSUME TablesInv, NEW k \in DOMAIN reg, NEW a \in Artifacts,
             Interpret(reg[k], a, reg).err = "none",
             NEW i \in DOMAIN reg[k].entries, NEW kind \in Kinds
      PROVE  LET in == Interpret(reg[k], a, reg).val
                 e  == reg[k].entries[i]
             IN  Get(in, e.key, kind).err = "none" <=> Has(in, e.key) /\ KindOf(e.type) = kind
  <2> DEFINE table == reg[k]
             version == table.version
  <2>1. SoundTable(table) /\ a \in forest
    BY <1>2 DEF TablesInv
  <2>2. InterpretMap(table, a, reg, version).err = "none"
    BY <1>2 DEF Interpret
  <2>3. i \in DOMAIN table.entries
    BY <1>2
  <2> HIDE DEF table, version
  <2>4. LET in == InterpretMap(table, a, reg, version).val
            e  == table.entries[i]
        IN  Get(in, e.key, kind).err = "none" <=> Has(in, e.key) /\ KindOf(e.type) = kind
    BY <2>1, <2>2, <2>3, FieldAnswers
  <2> QED
    BY <2>4 DEF Interpret, table, version
<1>3. TablesInv => AccessorsAgree
  BY <1>2 DEF AccessorsAgree
<1> QED
  BY TablesInit, <1>1, <1>3, PTL DEF Spec

\* Where an int is as wide as an int64, a wire key is the int it becomes.
LEMMA KeysKept ==
  ASSUME IntHalf = LongHalf, NEW forest, NEW height, Trees(forest, height),
         NEW key \in forest, Is(key, "int"), IsInt64(key.int)
  PROVE  key = [int |-> NativeInt(key.int)]
<1>1. key = [int |-> key.int] /\ key.int \in Int
  BY Shapes
<1> DEFINE n == key.int
           h == IntHalf
<1> HIDE DEF n, h
<1>2. h \in Nat \ {0} /\ n \in Int /\ -h <= n /\ n < h
  BY <1>1, NativeAssumption DEF IsInt64, n, h
<1>3. (n + h) % (2 * h) = n + h
  <2>1. 0 <= n + h /\ n + h < 2 * h
    BY <1>2
  <2> QED
    BY <1>2, <2>1
<1>4. NativeInt(n) = n
  <2>1. (n + h) - h = n
    BY <1>2
  <2> QED
    BY <1>3, <2>1 DEF NativeInt, h
<1> QED
  BY <1>1, <1>4 DEF n

\* What an instance holds under a key was in the artifact under that very key,
\* and the artifact has no key that the table does not name.
LEMMA KeysSent ==
  ASSUME IntHalf = LongHalf, NEW forest, NEW height, Trees(forest, height), Tied(forest), NEW v \in forest,
         NEW table, NEW tables, NEW version, InterpretMap(table, v, tables, version).err = "none"
  PROVE  LET in == InterpretMap(table, v, tables, version).val
         IN  /\ \A k \in DOMAIN in.fields : \E i \in DOMAIN v.entries : v.entries[i].key = [int |-> k]
             /\ \A i \in DOMAIN v.entries : \E j \in DOMAIN in.table.entries :
                  v.entries[i].key = [int |-> in.table.entries[j].key]
<1> DEFINE in == InterpretMap(table, v, tables, version).val
           n == Len(v.entries)
<1>1. /\ Is(v, "entries") /\ in.table = table
      /\ \A i \in 1..n : InterpretEntry(table, v.entries[i], tables, version).err = "none"
  <2>1. PICK pairs :
          InterpretMap(table, v, tables, version)
            = Ok([table |-> table, version |-> version, fields |-> FieldsOf(pairs)])
    BY MapFacts
  <2>2. in.table = table
    BY <2>1 DEF Ok
  <2> QED
    BY <2>2, MapFacts
<1>2. /\ DOMAIN v.entries = 1..n
      /\ \A i \in 1..n : v.entries[i].key \in forest /\ v.entries[i].val \in forest
  BY <1>1, Shapes
<1>3. ASSUME NEW k \in DOMAIN in.fields
      PROVE  \E i \in DOMAIN v.entries : v.entries[i].key = [int |-> k]
  <2>1. PICK i \in 1..n : LET e == v.entries[i]
                          IN  Is(e.key, "int") /\ IsInt64(e.key.int) /\ k = NativeInt(e.key.int)
    BY FieldFacts
  <2>2. v.entries[i].key = [int |-> k]
    BY <1>2, <2>1, KeysKept
  <2> QED
    BY <1>2, <2>2
<1>4. ASSUME NEW i \in DOMAIN v.entries
      PROVE  \E j \in DOMAIN table.entries : v.entries[i].key = [int |-> table.entries[j].key]
  <2> DEFINE e == v.entries[i]
  <2>1. /\ InterpretEntry(table, e, tables, version).err = "none"
        /\ e.key \in forest /\ e.val \in forest
    BY <1>1, <1>2
  <2> HIDE DEF e
  <2>2. Is(e.key, "int") /\ IsInt64(e.key.int) /\ Named(table, NativeInt(e.key.int)) # {}
    BY <2>1, EntryFacts
  <2>3. e.key = [int |-> NativeInt(e.key.int)]
    BY <2>1, <2>2, KeysKept
  <2>4. PICK j \in DOMAIN table.entries : table.entries[j].key = NativeInt(e.key.int)
    BY <2>2 DEF Named
  <2>5. e.key = [int |-> table.entries[j].key]
    BY <2>3, <2>4
  <2> QED
    BY <2>5 DEF e
<1> HIDE DEF in
<1>5. \A k \in DOMAIN in.fields : \E i \in DOMAIN v.entries : v.entries[i].key = [int |-> k]
  BY <1>3
<1>6. \A i \in DOMAIN v.entries : \E j \in DOMAIN in.table.entries :
        v.entries[i].key = [int |-> in.table.entries[j].key]
  BY <1>1, <1>4
<1> QED
  BY <1>5, <1>6 DEF in

\* A view that can be acted on has no key that was not sent, was sent none that
\* its table does not name, and what was acted on is in it.
ActedInv ==
  /\ view.read.err = "none" =>
       /\ \A k \in DOMAIN view.read.val.fields :
            \E i \in DOMAIN view.of.entries : view.of.entries[i].key = [int |-> k]
       /\ \A i \in DOMAIN view.of.entries :
            \E j \in DOMAIN view.read.val.table.entries :
              view.of.entries[i].key = [int |-> view.read.val.table.entries[j].key]
  /\ acted # {} => view.read.err = "none" /\ acted \subseteq DOMAIN view.read.val.fields

\* A step acts on keys that were sent.
LEMMA ActedStep ==
  ASSUME IntHalf = LongHalf, NEW forest, NEW height, Trees(forest, height), Tied(forest),
         Artifacts \subseteq forest, ActedInv, [Next]_vars
  PROVE  ActedInv'
<1>1. ASSUME NEW a \in TableArtifacts, Load(a) PROVE ActedInv'
  BY <1>1 DEF Load, ActedInv
<1>2. ASSUME NEW typ \in Types, NEW version \in Versions, NEW a \in Artifacts, Read(typ, version, a)
      PROVE  ActedInv'
  <2> DEFINE table == reg[<<typ, version>>]
  <2>1. /\ view'.of = a /\ acted' = {}
        /\ view'.read = InterpretMap(table, a, reg, table.version)
    BY <1>2 DEF Read, Interpret
  <2>2. a \in forest
    OBVIOUS
  <2> HIDE DEF table
  <2>3. ASSUME InterpretMap(table, a, reg, table.version).err = "none"
        PROVE  LET in == InterpretMap(table, a, reg, table.version).val
               IN  /\ \A k \in DOMAIN in.fields :
                        \E i \in DOMAIN a.entries : a.entries[i].key = [int |-> k]
                   /\ \A i \in DOMAIN a.entries : \E j \in DOMAIN in.table.entries :
                        a.entries[i].key = [int |-> in.table.entries[j].key]
    BY <2>2, <2>3, KeysSent
  <2> QED
    BY <2>1, <2>3 DEF ActedInv
<1>3. ASSUME NEW keys, Act(keys) PROVE ActedInv'
  <2>1. /\ view.read.err = "none" /\ acted' = acted \cup keys /\ view' = view
        /\ \A k \in keys : Has(view.read.val, k)
    BY <1>3 DEF Act, Require
  <2>2. acted' \subseteq DOMAIN view.read.val.fields
    BY <2>1 DEF Has, ActedInv
  <2> QED
    BY <2>1, <2>2 DEF ActedInv
<1>4. CASE UNCHANGED vars
  BY <1>4 DEF vars, ActedInv
<1> QED
  BY <1>1, <1>2, <1>3, <1>4 DEF Next, ActByDefault

\* Nothing has been acted on in the beginning.
LEMMA ActedInit == Init => ActedInv
BY DEF Init, NoView, Bad, ActedInv

\* On a machine with 64-bit ints, what an action proceeds on was in the artifact
\* it was sent, under that very key: the presence gate (Instance.Require) and
\* the default gate (FieldTable.RequiredKeys) are never satisfied by an alias.
THEOREM ActsAreAnswered ==
  ASSUME IntHalf = LongHalf, NEW forest, NEW height, Trees(forest, height), Tied(forest),
         Artifacts \subseteq forest
  PROVE  Spec => []ActsOnWhatWasSent
<1>1. ActedInv /\ [Next]_vars => ActedInv'
  BY ActedStep
<1>2. ActedInv => ActsOnWhatWasSent
  BY DEF ActedInv, ActsOnWhatWasSent
<1> QED
  BY ActedInit, <1>1, <1>2, PTL DEF Spec

\* On a machine with 64-bit ints, an artifact that was interpreted has no wire
\* key that its table does not name: that it may have one where an int is
\* narrower than an int64 is the fault of that width alone (interpretMap).
THEOREM WideIntsRejectUnknownKeys ==
  ASSUME IntHalf = LongHalf, NEW forest, NEW height, Trees(forest, height), Tied(forest),
         Artifacts \subseteq forest
  PROVE  Spec => []OnlyDeclaredKeys
<1>1. ActedInv /\ [Next]_vars => ActedInv'
  BY ActedStep
<1>2. ActedInv => OnlyDeclaredKeys
  BY DEF ActedInv, OnlyDeclaredKeys
<1> QED
  BY ActedInit, <1>1, <1>2, PTL DEF Spec
-----------------------------------------------------------------------------
(***************************************************************************)
(* Interpretation is faithful: under every table that a node ever holds it *)
(* accepts exactly the artifacts that fit the table, and the instance says *)
(* what the artifact says.                                                 *)
(***************************************************************************)

\* Fits, Logical and Meaning ask themselves about inner values: about those of
\* forest, and about what these are interpreted as.
FaithTied(forest) ==
  \A v \in forest :
    /\ NestedLogical(v) = Logical(v)
    /\ \A td, tables, version :
         /\ NestedFits(td, v, tables, version) <=> Fits(td, v, tables, version)
         /\ LET r == InterpretValue(td, v, tables, version)
            IN  r.err = "none" => NestedMeaning(r.val) = Meaning(r.val)

\* No map has two pairs with one key: Decode refuses it as a duplicate key.
KeysApart(forest) ==
  \A v \in forest : Is(v, "entries") =>
    \A i, j \in DOMAIN v.entries : v.entries[i].key = v.entries[j].key => i = j

\* A table whose keys are the ints that an artifact can name them by.
Keyed(table) ==
  /\ SoundTable(table)
  /\ \A i \in DOMAIN table.entries : IsInt64(table.entries[i].key)

ValueFaithful(v, tables) ==
  \A td, version :
    LET r == InterpretValue(td, v, tables, version)
    IN  /\ r.err = "none" <=> Fits(td, v, tables, version)
        /\ r.err = "none" => Meaning(r.val) = Logical(v)

MapFaithful(v, tables) ==
  \A table, version : Keyed(table) =>
    LET r == InterpretMap(table, v, tables, version)
    IN  /\ r.err = "none" <=> FitsTable(table, v, tables, version)
        /\ r.err = "none" => Meaning(r.val) = Logical(v)
-----------------------------------------------------------------------------
(***************************************************************************)
(* The magnitudes.                                                         *)
(***************************************************************************)
\* A decimal in its one form.
LEMMA DecimalFits ==
  ASSUME NEW x \in Int, NEW y \in Int
  PROVE  DecimalReason(x, y) = "none" <=> FitsMagnitude(KindDecimal, x, y)
<1>1. FitsMagnitude(KindDecimal, x, y) <=> (x = 0 /\ y = 0) \/ y % 10 # 0
  BY DEF FitsMagnitude
<1>2. CASE y = 0
  BY <1>1, <1>2 DEF DecimalReason
<1>3. CASE y # 0
  BY <1>1, <1>3 DEF DecimalReason
<1> QED
  BY <1>2, <1>3

\* A rational in its one form: that of zero is the only one over 1, for every
\* denominator divides zero and itself.
LEMMA RationalFits ==
  ASSUME NEW x \in Int, NEW y \in Int
  PROVE  RationalReason(x, y) = "none" <=> FitsMagnitude(KindRational, x, y)
<1>1. FitsMagnitude(KindRational, x, y)
        <=> y > 0 /\ \A d \in 2..y : x % d # 0 \/ y % d # 0
  BY DEF FitsMagnitude, KindDecimal, KindRational
<1>2. CASE y <= 0
  BY <1>1, <1>2 DEF RationalReason
<1>3. CASE y > 0 /\ x = 0
  <2>1. RationalReason(x, y) = "none" <=> y = 1
    BY <1>3 DEF RationalReason
  <2>2. y = 1 => \A d \in 2..y : x % d # 0 \/ y % d # 0
    OBVIOUS
  <2>3. y # 1 => y \in 2..y /\ x % y = 0 /\ y % y = 0
    BY <1>3
  <2> QED
    BY <1>1, <1>3, <2>1, <2>2, <2>3
<1>4. CASE y > 0 /\ x # 0
  <2>1. RationalReason(x, y) = IF CommonFactor(x, y) THEN "not-coprime" ELSE "none"
    BY <1>4 DEF RationalReason
  <2>2. RationalReason(x, y) = "none" <=> ~CommonFactor(x, y)
    BY <2>1
  <2> QED
    BY <1>1, <1>4, <2>2 DEF CommonFactor
<1> QED
  BY <1>2, <1>3, <1>4

\* What twoInts reads of an array of two integers is what the array says.
LEMMA PairMeans ==
  ASSUME NEW forest, NEW height, Trees(forest, height), Tied(forest), FaithTied(forest),
         NEW v \in forest, Is(v, "items"), Len(v.items) = 2,
         \A i \in 1..2 : Is(v.items[i], "int")
  PROVE  Logical(v) = [seq |-> <<[int |-> v.items[1].int], [int |-> v.items[2].int]>>]
<1>1. DOMAIN v.items = 1..2 /\ \A i \in 1..2 : v.items[i] \in forest
  BY Shapes
<1>2. ASSUME NEW i \in 1..2
      PROVE  NestedLogical(v.items[i]) = [int |-> v.items[i].int]
  <2> DEFINE w == v.items[i]
  <2>1. w \in forest /\ Is(w, "int")
    BY <1>1
  <2> HIDE DEF w
  <2>2. DOMAIN w = {"int"} /\ w = [int |-> w.int]
    BY <2>1, Shapes
  <2>3. Logical(w) = w
    BY <2>2 DEF Logical, Is
  <2>4. NestedLogical(w) = Logical(w)
    BY <2>1 DEF FaithTied
  <2> QED
    BY <2>2, <2>3, <2>4 DEF w
<1>3. Logical(v) = [seq |-> [i \in 1..2 |-> NestedLogical(v.items[i])]]
  <2>1. DOMAIN v = {"items"}
    BY Shapes
  <2> QED
    BY <1>1, <2>1 DEF Logical, Is
<1>4. [i \in 1..2 |-> NestedLogical(v.items[i])]
        = <<[int |-> v.items[1].int], [int |-> v.items[2].int]>>
  BY <1>2
<1> QED
  BY <1>3, <1>4

\* A magnitude is accepted in its one form only, and says what it is written as.
LEMMA MagnitudeFaithful ==
  ASSUME NEW forest, NEW height, Trees(forest, height), Tied(forest), FaithTied(forest),
         NEW v \in forest, NEW kind \in {KindDecimal, KindRational}
  PROVE  LET r == InterpretMagnitude(kind, v)
         IN  /\ r.err = "none" <=>
                  /\ Is(v, "items") /\ Len(v.items) = 2
                  /\ \A i \in 1..2 : Is(v.items[i], "int")
                  /\ FitsMagnitude(kind, v.items[1].int, v.items[2].int)
             /\ r.err = "none" => Meaning(r.val) = Logical(v)
<1> DEFINE TwoInts == Is(v, "items") /\ Len(v.items) = 2 /\ \A i \in 1..2 : Is(v.items[i], "int")
           x == v.items[1].int
           y == v.items[2].int
<1>1. Is(v, "items") => DOMAIN v.items = 1..Len(v.items)
  BY Shapes
<1>2. CASE ~TwoInts
  <2>1. InterpretMagnitude(kind, v) = Bad("bad-magnitude")
    BY <1>1, <1>2 DEF InterpretMagnitude
  <2> QED
    BY <1>2, <2>1 DEF Bad
<1>3. CASE TwoInts
  <2>1. InterpretMagnitude(kind, v) = Magnitude(kind, x, y)
    BY <1>1, <1>3 DEF InterpretMagnitude
  <2>2. x \in Int /\ y \in Int
    <3>1. v.items[1] \in forest /\ v.items[2] \in forest
      BY <1>3, Shapes
    <3> QED
      BY <1>3, <3>1, Shapes
  <2>3. Logical(v) = [seq |-> <<[int |-> x], [int |-> y]>>]
    BY <1>3, PairMeans
  <2> HIDE DEF x, y
  <2>4. CASE kind = KindDecimal
    <3>1. Magnitude(kind, x, y) = IF DecimalReason(x, y) = "none" THEN Ok([scale |-> x, mantissa |-> y])
                                  ELSE Bad("non-canonical-decimal")
      BY <2>4 DEF Magnitude, KindDecimal, KindRational
    <3>2. Magnitude(kind, x, y).err = "none" <=> FitsMagnitude(kind, x, y)
      BY <2>2, <2>4, <3>1, DecimalFits DEF Ok, Bad
    <3>3. Magnitude(kind, x, y).err = "none" => Magnitude(kind, x, y).val = [scale |-> x, mantissa |-> y]
      BY <3>1 DEF Ok, Bad
    <3>4. Meaning([scale |-> x, mantissa |-> y]) = [seq |-> <<[int |-> x], [int |-> y]>>]
      BY DEF Meaning, Logical, Is
    <3> QED
      BY <1>3, <2>1, <2>3, <3>2, <3>3, <3>4 DEF x, y
  <2>5. CASE kind = KindRational
    <3>1. Magnitude(kind, x, y) = IF RationalReason(x, y) = "none" THEN Ok([num |-> x, den |-> y])
                                  ELSE Bad("non-canonical-rational")
      BY <2>5 DEF Magnitude, KindDecimal, KindRational
    <3>2. Magnitude(kind, x, y).err = "none" <=> FitsMagnitude(kind, x, y)
      BY <2>2, <2>5, <3>1, RationalFits DEF Ok, Bad
    <3>3. Magnitude(kind, x, y).err = "none" => Magnitude(kind, x, y).val = [num |-> x, den |-> y]
      BY <3>1 DEF Ok, Bad
    <3>4. Meaning([num |-> x, den |-> y]) = [seq |-> <<[int |-> x], [int |-> y]>>]
      BY DEF Meaning, Logical, Is
    <3> QED
      BY <1>3, <2>1, <2>3, <3>2, <3>3, <3>4 DEF x, y
  <2> QED
    BY <2>4, <2>5
<1> QED
  BY <1>2, <1>3
-----------------------------------------------------------------------------
(***************************************************************************)
(* Maps.                                                                   *)
(***************************************************************************)
\* A loop succeeds if each of its turns does.
LEMMA AllTurns ==
  ASSUME NEW n \in Nat, NEW r, DOMAIN r = 1..n
  PROVE  All(r).err = "none" <=> \A i \in 1..n : r[i].err = "none"
BY AllSucceed, AllFail

\* One turn of the loop of interpretMap accepts the fields that have an entry
\* for their key and fit its type, and keeps the key and what the field says.
LEMMA EntryFaithful ==
  ASSUME IntHalf = LongHalf,
         NEW forest, NEW height, Trees(forest, height), Tied(forest), FaithTied(forest),
         NEW tables, NEW version, NEW table, Keyed(table),
         NEW e, e.key \in forest, e.val \in forest, ValueFaithful(e.val, tables)
  PROVE  LET r == InterpretEntry(table, e, tables, version)
         IN  /\ r.err = "none" <=>
                  \E j \in DOMAIN table.entries :
                    /\ e.key = [int |-> table.entries[j].key]
                    /\ NestedFits(table.entries[j].type, e.val, tables, version)
             /\ r.err = "none" =>
                  /\ e.key = [int |-> r.val.key]
                  /\ NestedMeaning(r.val.val) = Logical(e.val)
<1> DEFINE r == InterpretEntry(table, e, tables, version)
           Holds(j) == /\ e.key = [int |-> table.entries[j].key]
                       /\ NestedFits(table.entries[j].type, e.val, tables, version)
<1>1. ASSUME r.err = "none"
      PROVE  /\ \E j \in DOMAIN table.entries : Holds(j)
             /\ e.key = [int |-> r.val.key]
             /\ NestedMeaning(r.val.val) = Logical(e.val)
  <2> DEFINE key == NativeInt(e.key.int)
             td == EntryByKey(table, key).type
             x == InterpretValue(td, e.val, tables, version)
  <2>1. /\ Is(e.key, "int") /\ IsInt64(e.key.int) /\ Named(table, key) # {}
        /\ x.err = "none" /\ r = Ok([key |-> key, val |-> x.val])
    BY <1>1, EntryFacts
  <2>2. e.key = [int |-> key]
    BY <2>1, KeysKept
  <2> HIDE DEF key
  <2>3. PICK j \in DOMAIN table.entries :
          table.entries[j].key = key /\ td = table.entries[j].type
    BY <2>1, SoundEntry DEF Keyed
  <2> HIDE DEF td
  <2>4. Fits(td, e.val, tables, version) /\ Meaning(x.val) = Logical(e.val)
    BY <2>1 DEF ValueFaithful
  <2>5. NestedFits(td, e.val, tables, version) /\ NestedMeaning(x.val) = Meaning(x.val)
    BY <2>1, <2>4 DEF FaithTied
  <2>6. r.val.key = key /\ r.val.val = x.val
    BY <2>1 DEF Ok
  <2> QED
    BY <2>2, <2>3, <2>4, <2>5, <2>6
<1>2. ASSUME NEW j \in DOMAIN table.entries, Holds(j)
      PROVE  r.err = "none"
  <2> DEFINE key == table.entries[j].key
  <2>1. Is(e.key, "int") /\ e.key.int = key /\ IsInt64(key)
    BY <1>2 DEF Is, Keyed
  <2>2. NativeInt(key) = key
    <3>1. e.key = [int |-> NativeInt(e.key.int)]
      BY <2>1, KeysKept
    <3> QED
      BY <2>1, <3>1
  <2>3. j \in Named(table, key)
    BY DEF Named
  <2>4. EntryByKey(table, key) = table.entries[j]
    <3>1. PICK i \in DOMAIN table.entries : key = i - 1 /\ EntryByKey(table, key) = table.entries[i]
      BY <2>3, SoundEntry DEF Keyed
    <3>2. i = j
      BY <3>1 DEF Keyed, SoundTable
    <3> QED
      BY <3>1, <3>2
  <2> DEFINE td == table.entries[j].type
             x == InterpretValue(td, e.val, tables, version)
  <2>5. Fits(td, e.val, tables, version)
    BY <1>2 DEF FaithTied
  <2>6. x.err = "none"
    BY <2>5 DEF ValueFaithful
  <2>7. NestedValue(td, e.val, tables, version) = x
    BY NestedCall
  <2>8. r = InterpretField(table, NativeInt(e.key.int), e.val, tables, version)
    BY <2>1 DEF InterpretEntry
  <2>9. r = InterpretField(table, key, e.val, tables, version)
    BY <2>1, <2>2, <2>8
  <2> HIDE DEF key, td, x
  <2>10. InterpretField(table, key, e.val, tables, version)
           = Then(x, LAMBDA y : Ok([key |-> key, val |-> y]))
    BY <2>3, <2>4, <2>7 DEF InterpretField, td
  <2> QED
    BY <2>6, <2>9, <2>10 DEF Then, Ok
<1> QED
  BY <1>1, <1>2

\* Fields that have a key each are kept under it.
LEMMA FieldsKept ==
  ASSUME NEW n \in Nat, NEW pairs, DOMAIN pairs = 1..n,
         \A i, j \in 1..n : pairs[i].key = pairs[j].key => i = j
  PROVE  /\ \A k : k \in DOMAIN FieldsOf(pairs) <=> \E i \in 1..n : k = pairs[i].key
         /\ \A i \in 1..n : FieldsOf(pairs)[pairs[i].key] = pairs[i].val
<1>1. DOMAIN FieldsOf(pairs) = {pairs[i].key : i \in 1..n}
  BY DEF FieldsOf
<1>2. ASSUME NEW i \in 1..n PROVE FieldsOf(pairs)[pairs[i].key] = pairs[i].val
  <2> DEFINE k == pairs[i].key
             S == {j \in 1..n : pairs[j].key = k}
  <2>1. FieldsOf(pairs)[k] = pairs[Max(S)].val
    BY <1>1 DEF FieldsOf
  <2>2. S \in SUBSET (1..n) /\ S # {} /\ \A j \in S : j = i
    OBVIOUS
  <2> HIDE DEF S
  <2>3. Max(S) \in S
    BY <2>2, MaxFacts
  <2> QED
    BY <2>1, <2>2, <2>3
<1> QED
  BY <1>1, <1>2

\* The instance of a map: each of its pairs, and nothing else.
LEMMA MapMeans ==
  ASSUME IntHalf = LongHalf,
         NEW forest, NEW height, Trees(forest, height), Tied(forest), FaithTied(forest),
         KeysApart(forest),
         NEW v \in forest, NEW tables, NEW version, NEW table, Keyed(table),
         \A w \in forest : height[w] < height[v] => ValueFaithful(w, tables),
         InterpretMap(table, v, tables, version).err = "none"
  PROVE  Meaning(InterpretMap(table, v, tables, version).val) = Logical(v)
<1> DEFINE n == Len(v.entries)
           r(i) == InterpretEntry(table, v.entries[i], tables, version)
           pairs == [i \in 1..n |-> r(i).val]
           in == InterpretMap(table, v, tables, version).val
           fields == FieldsOf(pairs)
<1>1. /\ Is(v, "entries") /\ \A i \in 1..n : r(i).err = "none"
      /\ in = [table |-> table, version |-> version, fields |-> fields]
  BY MapFacts DEF Ok
<1>2. /\ n \in Nat /\ DOMAIN v.entries = 1..n /\ DOMAIN v = {"entries"}
      /\ \A i \in 1..n : /\ v.entries[i].key \in forest /\ v.entries[i].val \in forest
                         /\ height[v.entries[i].val] < height[v]
  BY <1>1, Shapes
<1>3. ASSUME NEW i \in 1..n
      PROVE  /\ v.entries[i].key = [int |-> pairs[i].key]
             /\ NestedLogical(v.entries[i].key) = v.entries[i].key
             /\ NestedMeaning(pairs[i].val) = NestedLogical(v.entries[i].val)
  <2> DEFINE e == v.entries[i]
  <2>1. e.key \in forest /\ e.val \in forest /\ ValueFaithful(e.val, tables)
    BY <1>2
  <2>2. r(i).err = "none" /\ pairs[i] = r(i).val
    BY <1>1
  <2>3. r(i) = InterpretEntry(table, e, tables, version)
    OBVIOUS
  <2> HIDE DEF e, r, pairs
  <2>4. e.key = [int |-> r(i).val.key] /\ NestedMeaning(r(i).val.val) = Logical(e.val)
    <3>1. LET x == InterpretEntry(table, e, tables, version)
          IN  x.err = "none" => /\ e.key = [int |-> x.val.key]
                                /\ NestedMeaning(x.val.val) = Logical(e.val)
      BY <2>1, EntryFaithful
    <3> QED
      BY <2>2, <2>3, <3>1
  <2>5. NestedLogical(e.key) = Logical(e.key) /\ NestedLogical(e.val) = Logical(e.val)
    BY <2>1 DEF FaithTied
  <2>6. Logical(e.key) = e.key
    BY <2>4 DEF Logical, Is
  <2> QED
    BY <2>2, <2>4, <2>5, <2>6 DEF e
<1>4. DOMAIN pairs = 1..n
  OBVIOUS
<1> HIDE DEF pairs, n
<1>5. \A i, j \in 1..n : pairs[i].key = pairs[j].key => i = j
  <2> TAKE i, j \in 1..n
  <2> HAVE pairs[i].key = pairs[j].key
  <2>1. v.entries[i].key = v.entries[j].key
    BY <1>3
  <2> QED
    BY <1>1, <1>2, <2>1 DEF KeysApart
<1>6. /\ \A k : k \in DOMAIN fields <=> \E i \in 1..n : k = pairs[i].key
      /\ \A i \in 1..n : fields[pairs[i].key] = pairs[i].val
  <2>1. n \in Nat
    BY <1>2
  <2> QED
    BY ONLY <2>1, <1>4, <1>5, FieldsKept DEF fields
<1> HIDE DEF fields, in
<1>7. Meaning(in) = [map |-> {<<[int |-> k], NestedMeaning(fields[k])>> : k \in DOMAIN fields}]
  <2>1. Is(in, "fields") /\ ~Is(in, "elems") /\ in.fields = fields
    BY <1>1 DEF Is
  <2> QED
    BY <2>1 DEF Meaning
<1>8. Logical(v) = [map |-> {<<NestedLogical(v.entries[i].key), NestedLogical(v.entries[i].val)>> :
                               i \in 1..n}]
  BY <1>2 DEF Logical, Is
<1> DEFINE P(i) == <<NestedLogical(v.entries[i].key), NestedLogical(v.entries[i].val)>>
           Q(k) == <<[int |-> k], NestedMeaning(fields[k])>>
<1>9. \A i \in 1..n : P(i) = Q(pairs[i].key)
  BY <1>3, <1>6
<1>10. {Q(k) : k \in DOMAIN fields} = {P(i) : i \in 1..n}
  <2> HIDE DEF P, Q
  <2> QED
    BY <1>6, <1>9
<1>11. Meaning(in) = Logical(v)
  BY <1>7, <1>8, <1>10
<1> QED
  BY <1>11 DEF in

\* Interpreting a map is faithful where interpreting its values is.
LEMMA MapIsFaithful ==
  ASSUME IntHalf = LongHalf,
         NEW forest, NEW height, Trees(forest, height), Tied(forest), FaithTied(forest),
         KeysApart(forest),
         NEW v \in forest, NEW tables,
         \A w \in forest : height[w] < height[v] => ValueFaithful(w, tables)
  PROVE  MapFaithful(v, tables)
<1> SUFFICES ASSUME NEW table, NEW version, Keyed(table)
             PROVE  InterpretMap(table, v, tables, version).err = "none"
                      <=> FitsTable(table, v, tables, version)
  BY MapMeans DEF MapFaithful
<1>1. CASE ~Is(v, "entries")
  BY <1>1 DEF InterpretMap, FitsTable, Bad
<1>2. CASE Is(v, "entries")
  <2> DEFINE n == Len(v.entries)
             turn(i) == InterpretEntry(table, v.entries[i], tables, version)
             r == [i \in DOMAIN v.entries |-> turn(i)]
             Rest(x) == Ok([table |-> table, version |-> version, fields |-> FieldsOf(x)])
  <2>1. /\ n \in Nat /\ DOMAIN v.entries = 1..n
        /\ \A i \in 1..n : /\ v.entries[i].key \in forest /\ v.entries[i].val \in forest
                           /\ height[v.entries[i].val] < height[v]
    BY <1>2, Shapes
  <2>2. InterpretMap(table, v, tables, version) = Then(All(r), Rest)
    BY <1>2 DEF InterpretMap
  <2>3. InterpretMap(table, v, tables, version).err = "none" <=> All(r).err = "none"
    BY <2>2 DEF Then, Ok
  <2>4. All(r).err = "none" <=> \A i \in 1..n : turn(i).err = "none"
    <3>1. DOMAIN r = 1..n /\ \A i \in 1..n : r[i] = turn(i)
      BY <2>1
    <3> HIDE DEF r, n, turn
    <3> QED
      BY <2>1, <3>1, AllTurns
  <2>5. ASSUME NEW i \in 1..n
        PROVE  turn(i).err = "none" <=>
                 \E j \in DOMAIN table.entries :
                   /\ v.entries[i].key = [int |-> table.entries[j].key]
                   /\ NestedFits(table.entries[j].type, v.entries[i].val, tables, version)
    <3> DEFINE e == v.entries[i]
    <3>1. e.key \in forest /\ e.val \in forest /\ ValueFaithful(e.val, tables)
      BY <2>1
    <3> HIDE DEF e
    <3>2. InterpretEntry(table, e, tables, version).err = "none" <=>
            \E j \in DOMAIN table.entries :
              /\ e.key = [int |-> table.entries[j].key]
              /\ NestedFits(table.entries[j].type, e.val, tables, version)
      BY <3>1, EntryFaithful
    <3> QED
      BY <3>2 DEF e
  <2>6. FitsTable(table, v, tables, version) <=> \A i \in 1..n : turn(i).err = "none"
    <3> HIDE DEF turn
    <3> QED
      BY <1>2, <2>1, <2>5 DEF FitsTable
  <2> QED
    BY <2>3, <2>4, <2>6
<1> QED
  BY <1>1, <1>2
-----------------------------------------------------------------------------
(***************************************************************************)
(* Values of any depth.                                                    *)
(***************************************************************************)
\* A scalar says what it is.
LEMMA ScalarFaithful ==
  ASSUME NEW forest, NEW height, Trees(forest, height), NEW v \in forest, NEW tables,
         NEW td, NEW version, KindOf(td) \in ScalarKinds
  PROVE  LET r == InterpretValue(td, v, tables, version)
         IN  /\ r.err = "none" <=> Fits(td, v, tables, version)
             /\ r.err = "none" => Meaning(r.val) = Logical(v)
<1> DEFINE kind == KindOf(td)
           f == ScalarField(kind)
           r == InterpretValue(td, v, tables, version)
<1>1. kind \in {0, 1, 2, 3}
  BY DEF ScalarKinds
<1>2. r = IF Is(v, f) THEN Ok(v) ELSE Bad("type-mismatch")
  BY DEF InterpretValue, ScalarKinds, KindDecimal, KindRational, KindArray, KindRef
<1>3. r.err = "none" <=> Is(v, f)
  BY <1>2 DEF Ok, Bad
<1>4. Fits(td, v, tables, version) <=> Is(v, f)
  BY <1>1 DEF Fits, ScalarField, KindDecimal, KindRational, KindArray, KindRef
<1>5. ASSUME Is(v, f) PROVE Meaning(v) = Logical(v)
  <2>1. DOMAIN v = {f}
    BY <1>5, Shapes
  <2>2. f # "fields" /\ f # "elems"
    BY <1>1 DEF ScalarField
  <2> HIDE DEF f
  <2> QED
    BY <2>1, <2>2 DEF Meaning, Is
<1>6. Is(v, f) => r.val = v
  BY <1>2 DEF Ok
<1> HIDE DEF f, r
<1>7. /\ r.err = "none" <=> Fits(td, v, tables, version)
      /\ r.err = "none" => Meaning(r.val) = Logical(v)
  BY <1>3, <1>4, <1>5, <1>6
<1> QED
  BY <1>7 DEF r

ElementsFaithful(of, v, tables, version) ==
  LET r == InterpretArray(of, v.items, tables, version)
  IN  /\ r.err = "none" <=>
           \A i \in DOMAIN v.items : NestedFits(of, v.items[i], tables, version)
      /\ r.err = "none" => Meaning(r.val) = Logical(v)

\* An array is accepted if its elements are, and says what they say.
LEMMA ArrayFaithful ==
  ASSUME NEW forest, NEW height, Trees(forest, height), Tied(forest), FaithTied(forest),
         NEW v \in forest, Is(v, "items"), NEW tables, NEW of, of # <<>>, NEW version,
         \A w \in forest : height[w] < height[v] => ValueFaithful(w, tables)
  PROVE  ElementsFaithful(of, v, tables, version)
<1> DEFINE n == Len(v.items)
           turn(i) == InterpretValue(of, v.items[i], tables, version)
           q == [i \in DOMAIN v.items |-> NestedValue(of, v.items[i], tables, version)]
           r == InterpretArray(of, v.items, tables, version)
<1>1. /\ n \in Nat /\ DOMAIN v.items = 1..n /\ DOMAIN v = {"items"}
      /\ \A i \in 1..n : v.items[i] \in forest /\ height[v.items[i]] < height[v]
  BY Shapes
<1>2. r = Then(All(q), Elements)
  BY DEF InterpretArray
<1>3. DOMAIN q = 1..n /\ \A i \in 1..n : q[i] = turn(i)
  <2>1. \A i \in 1..n : NestedValue(of, v.items[i], tables, version) = turn(i)
    BY <1>1, NestedCall
  <2> QED
    BY <1>1, <2>1
<1>4. ASSUME NEW i \in 1..n
      PROVE  /\ turn(i).err = "none" <=> NestedFits(of, v.items[i], tables, version)
             /\ turn(i).err = "none" => NestedMeaning(turn(i).val) = NestedLogical(v.items[i])
  <2> DEFINE w == v.items[i]
  <2>1. w \in forest /\ ValueFaithful(w, tables) /\ turn(i) = InterpretValue(of, w, tables, version)
    BY <1>1
  <2> HIDE DEF w, turn
  <2>2. /\ turn(i).err = "none" <=> Fits(of, w, tables, version)
        /\ turn(i).err = "none" => Meaning(turn(i).val) = Logical(w)
    BY <2>1 DEF ValueFaithful
  <2>3. /\ NestedLogical(w) = Logical(w)
        /\ NestedFits(of, w, tables, version) <=> Fits(of, w, tables, version)
        /\ turn(i).err = "none" => NestedMeaning(turn(i).val) = Meaning(turn(i).val)
    BY <2>1 DEF FaithTied
  <2> QED
    BY <2>2, <2>3 DEF w
<1> HIDE DEF q, turn, n, r
<1>5. r.err = "none" <=> All(q).err = "none"
  BY <1>2 DEF Then, Elements, Ok
<1>6. All(q).err = "none" <=> \A i \in 1..n : turn(i).err = "none"
  BY <1>1, <1>3, AllTurns
<1>7. r.err = "none" <=> \A i \in DOMAIN v.items : NestedFits(of, v.items[i], tables, version)
  BY <1>1, <1>4, <1>5, <1>6
<1>8. ASSUME r.err = "none" PROVE Meaning(r.val) = Logical(v)
  <2>1. All(q).err = "none" /\ \A i \in 1..n : turn(i).err = "none"
    BY <1>5, <1>6, <1>8
  <2>2. All(q) = Ok(Values(q))
    BY <1>1, <1>3, <2>1, AllSucceed
  <2>3. DOMAIN Values(q) = 1..n /\ \A i \in 1..n : Values(q)[i] = q[i].val
    BY <1>1, <1>3, ValuesFacts
  <2> DEFINE elems == Values(q)
  <2>4. r.val = [elems |-> elems]
    BY <1>2, <2>1, <2>2 DEF Then, Elements, Ok
  <2> HIDE DEF elems
  <2>5. Meaning(r.val) = [seq |-> [i \in DOMAIN elems |-> NestedMeaning(elems[i])]]
    BY <2>4 DEF Meaning, Is
  <2>6. Logical(v) = [seq |-> [i \in 1..n |-> NestedLogical(v.items[i])]]
    BY <1>1 DEF Logical, Is
  <2>7. DOMAIN elems = 1..n /\ \A i \in 1..n : NestedMeaning(elems[i]) = NestedLogical(v.items[i])
    BY <1>3, <1>4, <2>1, <2>3 DEF elems
  <2>8. [i \in DOMAIN elems |-> NestedMeaning(elems[i])] = [i \in 1..n |-> NestedLogical(v.items[i])]
    BY <2>7
  <2> QED
    BY <2>5, <2>6, <2>8
<1> QED
  BY <1>7, <1>8 DEF r, ElementsFaithful

\* Interpreting a value is faithful where interpreting lower values is.
LEMMA ValueIsFaithful ==
  ASSUME IntHalf = LongHalf,
         NEW forest, NEW height, Trees(forest, height), Tied(forest), FaithTied(forest),
         KeysApart(forest),
         NEW tables, \A k \in DOMAIN tables : Keyed(tables[k]),
         NEW v \in forest,
         \A w \in forest : height[w] < height[v] => ValueFaithful(w, tables)
  PROVE  ValueFaithful(v, tables)
<1> SUFFICES ASSUME NEW td, NEW version
             PROVE  LET r == InterpretValue(td, v, tables, version)
                    IN  /\ r.err = "none" <=> Fits(td, v, tables, version)
                        /\ r.err = "none" => Meaning(r.val) = Logical(v)
  BY DEF ValueFaithful
<1> DEFINE kind == KindOf(td)
           r == InterpretValue(td, v, tables, version)
           Goal == /\ r.err = "none" <=> Fits(td, v, tables, version)
                   /\ r.err = "none" => Meaning(r.val) = Logical(v)
<1>1. CASE kind \in ScalarKinds
  BY <1>1, ScalarFaithful
<1>2. CASE kind \in {KindDecimal, KindRational}
  <2>1. r = InterpretMagnitude(kind, v)
    BY <1>2 DEF InterpretValue, ScalarKinds, KindDecimal, KindRational, KindArray, KindRef
  <2>2. Fits(td, v, tables, version)
          <=> /\ Is(v, "items") /\ Len(v.items) = 2
              /\ \A i \in 1..2 : Is(v.items[i], "int")
              /\ FitsMagnitude(kind, v.items[1].int, v.items[2].int)
    BY <1>2 DEF Fits, KindDecimal, KindRational, KindArray, KindRef
  <2> HIDE DEF r, kind
  <2>3. LET x == InterpretMagnitude(kind, v)
        IN  /\ x.err = "none" <=>
                 /\ Is(v, "items") /\ Len(v.items) = 2
                 /\ \A i \in 1..2 : Is(v.items[i], "int")
                 /\ FitsMagnitude(kind, v.items[1].int, v.items[2].int)
            /\ x.err = "none" => Meaning(x.val) = Logical(v)
    BY <1>2, MagnitudeFaithful
  <2>4. Goal
    BY <2>1, <2>2, <2>3
  <2> QED
    BY <2>4 DEF r
<1>3. CASE kind = KindArray
  <2> DEFINE of == Tail(td)
  <2>1. r = IF Is(v, "items") THEN InterpretArray(of, v.items, tables, version)
            ELSE Bad("type-mismatch")
    BY <1>3 DEF InterpretValue, ScalarKinds, KindDecimal, KindRational, KindArray, KindRef
  <2>2. Fits(td, v, tables, version)
          <=> /\ of # <<>> /\ Is(v, "items")
              /\ \A i \in DOMAIN v.items : NestedFits(of, v.items[i], tables, version)
    BY <1>3 DEF Fits, KindDecimal, KindRational, KindArray, KindRef
  <2> HIDE DEF r, of
  <2>3. CASE ~Is(v, "items")
    BY <2>1, <2>2, <2>3 DEF Bad, r
  <2>4. CASE Is(v, "items") /\ of = <<>>
    <3>1. r = Bad("malformed-type-descriptor")
      BY <2>1, <2>4 DEF InterpretArray
    <3> QED
      BY <2>2, <2>4, <3>1 DEF Bad, r
  <2>5. CASE Is(v, "items") /\ of # <<>>
    <3>1. ElementsFaithful(of, v, tables, version)
      BY <2>5, ArrayFaithful
    <3>2. Goal
      BY <2>1, <2>2, <2>5, <3>1 DEF ElementsFaithful
    <3> QED
      BY <3>2 DEF r
  <2> QED
    BY <2>3, <2>4, <2>5
<1>4. CASE kind = KindRef
  <2> DEFINE key == <<td[1].ref, version>>
  <2>1. r = IF key \in DOMAIN tables THEN InterpretMap(tables[key], v, tables, version)
            ELSE Bad("unresolved-ref")
    BY <1>4 DEF InterpretValue, ScalarKinds, KindDecimal, KindRational, KindArray, KindRef
  <2>2. Fits(td, v, tables, version)
          <=> key \in DOMAIN tables /\ FitsTable(tables[key], v, tables, version)
    BY <1>4 DEF Fits, KindDecimal, KindRational, KindArray, KindRef
  <2> HIDE DEF r, key
  <2>3. CASE key \notin DOMAIN tables
    BY <2>1, <2>2, <2>3 DEF Bad, r
  <2>4. CASE key \in DOMAIN tables
    <3>1. MapFaithful(v, tables)
      BY MapIsFaithful
    <3>2. LET x == InterpretMap(tables[key], v, tables, version)
          IN  /\ x.err = "none" <=> FitsTable(tables[key], v, tables, version)
              /\ x.err = "none" => Meaning(x.val) = Logical(v)
      BY <2>4, <3>1 DEF MapFaithful
    <3>3. Goal
      BY <2>1, <2>2, <2>4, <3>2
    <3> QED
      BY <3>3 DEF r
  <2> QED
    BY <2>3, <2>4
<1>5. CASE kind \notin ScalarKinds \cup {KindDecimal, KindRational, KindArray, KindRef}
  <2>1. r = Bad("unresolved-ref")
    BY <1>5 DEF InterpretValue
  <2>2. ~Fits(td, v, tables, version)
    BY <1>5 DEF Fits, ScalarKinds
  <2> QED
    BY <2>1, <2>2 DEF Bad
<1> QED
  BY <1>1, <1>2, <1>3, <1>4, <1>5

\* Interpreting any map is faithful: at the lowest value where interpretation
\* were not, it would be.
LEMMA EveryMapFaithful ==
  ASSUME IntHalf = LongHalf,
         NEW forest, NEW height, Trees(forest, height), Tied(forest), FaithTied(forest),
         KeysApart(forest),
         NEW tables, \A k \in DOMAIN tables : Keyed(tables[k])
  PROVE  \A v \in forest : MapFaithful(v, tables)
<1>1. \A v \in forest : ValueFaithful(v, tables)
  <2> SUFFICES ASSUME NEW u \in forest, ~ValueFaithful(u, tables) PROVE FALSE
    OBVIOUS
  <2> DEFINE H == {height[x] : x \in {y \in forest : ~ValueFaithful(y, tables)}}
  <2>1. H \in SUBSET Nat /\ H # {}
    BY Shapes
  <2>2. Min(H) \in H /\ \A h \in H : Min(H) <= h
    <3> HIDE DEF H
    <3> QED
      BY <2>1, MinFacts
  <2>3. PICK v \in forest : ~ValueFaithful(v, tables) /\ height[v] = Min(H)
    BY <2>2
  <2>4. \A w \in forest : height[w] < height[v] => ValueFaithful(w, tables)
    <3> SUFFICES ASSUME NEW w \in forest, height[w] < height[v], ~ValueFaithful(w, tables)
                 PROVE  FALSE
      OBVIOUS
    <3>1. height[w] \in H /\ height[w] \in Nat /\ height[v] \in Nat
      BY Shapes
    <3>2. height[v] <= height[w]
      BY <2>2, <2>3, <3>1
    <3> QED
      BY <3>1, <3>2
  <2>5. ValueFaithful(v, tables)
    BY <2>4, ValueIsFaithful
  <2> QED
    BY <2>3, <2>5
<1> QED
  BY <1>1, MapIsFaithful
-----------------------------------------------------------------------------
(***************************************************************************)
(* The tables a node holds.                                                *)
(***************************************************************************)
\* A table that a fresh node parses has keys that an artifact can name.
LEMMA ParsedIsKeyed ==
  ASSUME NEW forest, NEW height, Trees(forest, height), Tied(forest), NEW a \in forest,
         ParseFieldTable(a, DefaultRegistry).err = "none"
  PROVE  Keyed(ParseFieldTable(a, DefaultRegistry).val)
<1> DEFINE t == ParseFieldTable(a, DefaultRegistry).val
<1>1. Writable(t, NamesIn(forest))
  BY ParsedIsWritable
<1>2. \A i \in DOMAIN t.entries : IsInt64(t.entries[i].key)
  <2> HIDE DEF t
  <2> QED
    BY <1>1 DEF Writable, WritableEntry, Coded
<1> QED
  BY <1>2, ParsedIsSound DEF Keyed

\* Beyond TablesInv, all keys of held tables are int64s: an entry with another
\* would be one that no artifact could name.
KeysInv ==
  /\ TablesInv
  /\ \A k \in DOMAIN reg : \A i \in DOMAIN reg[k].entries : IsInt64(reg[k].entries[i].key)

\* The keys of the floor are 0 to 3.
LEMMA KeysInit == LongHalf > 3 /\ Init => KeysInv
<1> SUFFICES ASSUME LongHalf > 3, Init PROVE KeysInv
  OBVIOUS
<1>1. ASSUME NEW t \in Floor, NEW i \in DOMAIN t.entries PROVE IsInt64(t.entries[i].key)
  <2>1. DOMAIN t.entries \subseteq 1..4
    BY FloorTables DEF Floor
  <2>2. i \in 1..4 /\ t.entries[i].key = i - 1
    BY <2>1, FloorTables DEF SoundTable
  <2> QED
    BY <2>2, NativeAssumption DEF IsInt64
<1>2. \A k \in DOMAIN reg : reg[k] \in Floor
  BY FloorHeld DEF Init, Floor
<1> QED
  BY <1>1, <1>2, TablesInit DEF KeysInv

\* A step adds tables with such keys only.
LEMMA KeysStep ==
  ASSUME NEW forest, NEW height, Trees(forest, height), Tied(forest), TableArtifacts \subseteq forest,
         KeysInv, [Next]_vars
  PROVE  KeysInv'
<1>1. TablesInv'
  BY TablesStep DEF KeysInv
<1>2. CASE UNCHANGED reg
  BY <1>1, <1>2 DEF KeysInv
<1>3. ASSUME NEW a \in TableArtifacts,
             ParseFieldTable(a, reg).err = "none", Add(ParseFieldTable(a, reg).val)
      PROVE  KeysInv'
  <2> DEFINE t == ParseFieldTable(a, reg).val
  <2>1. ParseFieldTable(a, reg) = ParseFieldTable(a, DefaultRegistry)
    BY ParsesAlike DEF KeysInv, TablesInv, FloorStays
  <2>2. Keyed(t)
    BY <1>3, <2>1, ParsedIsKeyed
  <2> HIDE DEF t
  <2>3. \A k \in DOMAIN reg' :
          (k \in DOMAIN reg /\ reg'[k] = reg[k]) \/ (k = RegKey(t) /\ reg'[k] = t)
    BY <1>3, AddFacts DEF t
  <2> QED
    BY <1>1, <2>2, <2>3 DEF KeysInv, Keyed
<1> QED
  BY <1>2, <1>3, RegistrySteps

\* Under every table that a node ever holds, Interpret accepts exactly the
\* artifacts that fit it, nested tables being those of its own version, and the
\* instance says what the artifact says: nothing interpretMap and interpretValue
\* do loses, renames or invents a field, and no table that ParseFieldTable lets
\* through makes them.  An int64 reaches further than 3, and an int as far as an
\* int64: where it is narrower, a wire key may be taken for another.
THEOREM InterpretationIsFaithful ==
  ASSUME IntHalf = LongHalf, LongHalf > 3,
         NEW forest, NEW height, Trees(forest, height), Tied(forest), FaithTied(forest),
         KeysApart(forest), TableArtifacts \subseteq forest, Artifacts \subseteq forest
  PROVE  Spec => []InterpretIsFaithful
<1>1. KeysInv /\ [Next]_vars => KeysInv'
  BY KeysStep
<1>2. Init => KeysInv
  BY KeysInit
<1>3. ASSUME KeysInv, NEW k \in DOMAIN reg, NEW a \in Artifacts
      PROVE  LET in == Interpret(reg[k], a, reg)
             IN  /\ in.err = "none" <=> FitsTable(reg[k], a, reg, k[2])
                 /\ in.err = "none" => Meaning(in.val) = Logical(a)
  <2>1. \A q \in DOMAIN reg : Keyed(reg[q])
    BY <1>3 DEF KeysInv, TablesInv, Keyed
  <2>2. MapFaithful(a, reg)
    <3>1. \A v \in forest : MapFaithful(v, reg)
      BY <2>1, EveryMapFaithful
    <3> QED
      BY <3>1
  <2>3. Interpret(reg[k], a, reg) = InterpretMap(reg[k], a, reg, k[2])
    <3>1. RegKey(reg[k]) = k
      BY <1>3 DEF KeysInv, TablesInv
    <3>2. reg[k].version = k[2]
      BY <3>1 DEF RegKey
    <3> QED
      BY <3>2 DEF Interpret
  <2>4. LET r == InterpretMap(reg[k], a, reg, k[2])
        IN  /\ r.err = "none" <=> FitsTable(reg[k], a, reg, k[2])
            /\ r.err = "none" => Meaning(r.val) = Logical(a)
    BY <2>1, <2>2 DEF MapFaithful
  <2> QED
    BY <2>3, <2>4
<1>4. KeysInv => InterpretIsFaithful
  BY <1>3 DEF InterpretIsFaithful
<1> QED
  BY <1>1, <1>2, <1>4, PTL DEF Spec
-----------------------------------------------------------------------------
(***************************************************************************)
(* Tables written as artifacts, and read back.                             *)
(***************************************************************************)
\* ps has the pairs of the keys in K with their values in V, each once.
Spells(ps, V, K) ==
  /\ ps \in Seq({Pair(k, V[k]) : k \in 0..3})
  /\ \A i, j \in 1..Len(ps) : ps[i].key = ps[j].key => i = j
  /\ \A i \in 1..Len(ps) : \E k \in K : ps[i] = Pair(k, V[k])
  /\ \A k \in K : \E i \in 1..Len(ps) : ps[i] = Pair(k, V[k])

\* Different keys make different pairs.
LEMMA PairFacts ==
  /\ \A k, x : Pair(k, x).key = [int |-> k] /\ Pair(k, x).val = x
  /\ \A k, x, j, y : Pair(k, x).key = Pair(j, y).key => k = j
<1>1. \A k, x : Pair(k, x).key = [int |-> k] /\ Pair(k, x).val = x
  BY DEF Pair
<1>2. ASSUME NEW k, NEW x, NEW j, NEW y, Pair(k, x).key = Pair(j, y).key PROVE k = j
  <2>1. [int |-> k] = [int |-> j]
    BY <1>1, <1>2
  <2>2. [int |-> k].int = k /\ [int |-> j].int = j
    OBVIOUS
  <2> QED
    BY ONLY <2>1, <2>2
<1>3. \A k, x, j, y : Pair(k, x).key = Pair(j, y).key => k = j
  BY <1>2
<1> QED
  BY ONLY <1>1, <1>3

\* The first pair.
LEMMA SpellsOne ==
  ASSUME NEW V
  PROVE  Spells(<<Pair(0, V[0])>>, V, {0})
<1> DEFINE x == Pair(0, V[0])
           S == {Pair(k, V[k]) : k \in 0..3}
<1>1. x \in S /\ x = Pair(0, V[0])
  OBVIOUS
<1> HIDE DEF x, S
<1>2. <<x>> \in Seq(S) /\ Len(<<x>>) = 1 /\ <<x>>[1] = x
  BY <1>1
<1> QED
  BY <1>1, <1>2 DEF Spells, S, x

\* One pair more, or none.
LEMMA SpellsMore ==
  ASSUME NEW V, NEW K \in SUBSET (0..3), NEW k \in 0..3, k \notin K, NEW given \in BOOLEAN,
         NEW ps, Spells(ps, V, K)
  PROVE  Spells(ps \o Optionally(given, k, V[k]), V, IF given THEN K \cup {k} ELSE K)
<1> DEFINE S == {Pair(j, V[j]) : j \in 0..3}
           n == Len(ps)
<1>1. ps \in Seq(S) /\ n \in Nat
  BY LenProperties DEF Spells
<1>2. CASE ~given
  <2>1. ps \o <<>> = ps
    BY <1>1, ConcatEmptySeq
  <2> QED
    BY <1>2, <2>1 DEF Optionally
<1>3. CASE given
  <2> DEFINE x == Pair(k, V[k])
             qs == ps \o <<x>>
  <2>1. x \in S
    OBVIOUS
  <2>a. x = Pair(k, V[k])
    OBVIOUS
  <2> HIDE DEF S, x
  <2>2. /\ qs \in Seq(S) /\ Len(qs) = n + 1 /\ qs[n + 1] = x
        /\ \A i \in 1..n : qs[i] = ps[i]
    <3>1. <<x>> \in Seq(S) /\ Len(<<x>>) = 1 /\ <<x>>[1] = x
      BY <2>1
    <3>2. /\ qs \in Seq(S) /\ Len(qs) = n + 1
          /\ \A i \in 1..n + 1 : qs[i] = IF i <= n THEN ps[i] ELSE <<x>>[i - n]
      BY <1>1, <3>1, ConcatProperties
    <3>3. n + 1 \in 1..n + 1 /\ ~(n + 1 <= n) /\ (n + 1) - n = 1
      BY <1>1
    <3>4. \A i \in 1..n : i \in 1..n + 1 /\ i <= n
      BY <1>1
    <3> HIDE DEF qs, n
    <3>5. qs[n + 1] = x
      BY <3>1, <3>2, <3>3
    <3>6. \A i \in 1..n : qs[i] = ps[i]
      BY <3>2, <3>4
    <3> QED
      BY <3>2, <3>5, <3>6
  <2>3. Optionally(given, k, V[k]) = <<x>>
    BY <1>3, <2>a DEF Optionally
  <2> HIDE DEF qs
  <2>4. \A i \in 1..n + 1 : i \in 1..n \/ i = n + 1
    BY <1>1
  <2>5. \A i \in 1..n : i \in 1..n + 1 /\ i # n + 1
    BY <1>1
  <2>6. n + 1 \in 1..n + 1
    BY <1>1
  <2>7. \A i \in 1..n : ps[i].key # x.key
    <3> TAKE i \in 1..n
    <3>1. PICK j \in K : ps[i] = Pair(j, V[j])
      BY DEF Spells
    <3> QED
      BY <2>a, <3>1, PairFacts
  <2> HIDE DEF n
  <2>8. \A i, j \in 1..n + 1 : qs[i].key = qs[j].key => i = j
    <3> SUFFICES ASSUME NEW i \in 1..n + 1, NEW j \in 1..n + 1, qs[i].key = qs[j].key
                 PROVE  i = j
      OBVIOUS
    <3>1. \A l, m \in 1..n : ps[l].key = ps[m].key => l = m
      BY DEF Spells, n
    <3> QED
      BY ONLY <2>2, <2>4, <2>7, <3>1, qs[i].key = qs[j].key, i \in 1..n + 1, j \in 1..n + 1
  <2>9. \A i \in 1..n + 1 : \E j \in K \cup {k} : qs[i] = Pair(j, V[j])
    <3>1. \A i \in 1..n : \E j \in K : ps[i] = Pair(j, V[j])
      BY DEF Spells, n
    <3> QED
      BY <2>2, <2>4, <2>a, <3>1
  <2>10. \A j \in K \cup {k} : \E i \in 1..n + 1 : qs[i] = Pair(j, V[j])
    <3>1. \A j \in K : \E i \in 1..n : ps[i] = Pair(j, V[j])
      BY DEF Spells, n
    <3> QED
      BY <2>2, <2>5, <2>6, <2>a, <3>1
  <2>11. Spells(qs, V, K \cup {k})
    BY <2>2, <2>8, <2>9, <2>10 DEF Spells, S
  <2> QED
    BY <1>3, <2>3, <2>11 DEF qs
<1> QED
  BY <1>2, <1>3

\* A loop with no turn that fails gives what its turns gave.
LEMMA AllGood ==
  ASSUME NEW n \in Nat, NEW r, DOMAIN r = 1..n, \A i \in 1..n : r[i].err = "none"
  PROVE  All(r) = Ok(Values(r))
BY DEF All, Failing

\* Under the keys in K of a floor table, the values in V are read as those in X.
ReadAs(t, V, K, X) ==
  \A k \in K : /\ k + 1 \in DOMAIN t.entries
               /\ InterpretValue(t.entries[k + 1].type, V[k], DefaultRegistry, 1) = Ok(X[k])

\* v is read under a floor table as an instance with the fields in K of X.
Instantiates(t, v, K, X) ==
  LET in == FloorRead(t, v).val
  IN  /\ FloorRead(t, v) = Ok(in) /\ Is(in, "fields")
      /\ \A k : Has(in, k) <=> k \in K
      /\ \A k \in K : in.fields[k] = X[k]

\* What is spelled out with keys of a floor table is read, field by field.
LEMMA SpelledIsRead ==
  ASSUME 3 < IntHalf, NEW forest, NEW height, Trees(forest, height), Tied(forest),
         NEW v \in forest, Is(v, "entries"),
         NEW V, NEW K \in SUBSET (0..3), Spells(v.entries, V, K),
         NEW t \in Floor, NEW X, ReadAs(t, V, K, X)
  PROVE  Instantiates(t, v, K, X)
<1> DEFINE n == Len(v.entries)
           r == [i \in DOMAIN v.entries |-> InterpretEntry(t, v.entries[i], DefaultRegistry, 1)]
           pairs == Values(r)
           Instance(x) == Ok([table |-> t, version |-> 1, fields |-> FieldsOf(x)])
<1>1. n \in Nat /\ DOMAIN v.entries = 1..n /\ \A i \in 1..n : v.entries[i].val \in forest
  BY Shapes
<1>2. FloorRead(t, v) = Then(All(r), Instance)
  BY DEF FloorRead, InterpretMap
<1>3. ASSUME NEW i \in 1..n, NEW k \in K, v.entries[i] = Pair(k, V[k])
      PROVE  r[i] = Ok([key |-> k, val |-> X[k]])
  <2> DEFINE e == v.entries[i]
             td == EntryByKey(t, k).type
  <2>1. e.key = [int |-> k] /\ e.val = V[k]
    BY <1>3, PairFacts
  <2>2. Is(e.key, "int") /\ e.key.int = k
    BY <2>1 DEF Is
  <2>3. Coded(k)
    BY SmallCoded, NativeAssumption
  <2>4. Named(t, k) # {} /\ td = t.entries[k + 1].type
    <3>1. k \in Nat /\ k + 1 \in DOMAIN t.entries
      BY DEF ReadAs
    <3> QED
      BY <3>1, FloorEntry
  <2>5. NestedValue(td, e.val, DefaultRegistry, 1) = Ok(X[k])
    <3>1. NestedValue(td, e.val, DefaultRegistry, 1) = InterpretValue(td, e.val, DefaultRegistry, 1)
      BY <1>1, NestedCall
    <3>2. InterpretValue(t.entries[k + 1].type, V[k], DefaultRegistry, 1) = Ok(X[k])
      BY DEF ReadAs
    <3> QED
      BY <2>1, <2>4, <3>1, <3>2
  <2> HIDE DEF td, e
  <2>6. InterpretEntry(t, e, DefaultRegistry, 1) = InterpretField(t, k, e.val, DefaultRegistry, 1)
    BY <2>2, <2>3 DEF InterpretEntry, Coded
  <2>7. InterpretField(t, k, e.val, DefaultRegistry, 1)
          = Then(Ok(X[k]), LAMBDA x : Ok([key |-> k, val |-> x]))
    BY <2>4, <2>5 DEF InterpretField, td
  <2>8. Then(Ok(X[k]), LAMBDA x : Ok([key |-> k, val |-> x])) = Ok([key |-> k, val |-> X[k]])
    BY DEF Then, Ok
  <2>9. r[i] = InterpretEntry(t, e, DefaultRegistry, 1)
    BY <1>1 DEF e
  <2> QED
    BY ONLY <2>6, <2>7, <2>8, <2>9
<1>4. DOMAIN r = 1..n
  BY <1>1
<1> HIDE DEF r
<1>5. /\ \A i, j \in 1..n : v.entries[i].key = v.entries[j].key => i = j
      /\ \A i \in 1..n : \E k \in K : v.entries[i] = Pair(k, V[k])
      /\ \A k \in K : \E i \in 1..n : v.entries[i] = Pair(k, V[k])
  BY DEF Spells
<1> HIDE DEF n
<1>6. \A i \in 1..n : r[i].err = "none"
  <2>1. \A x : Ok(x).err = "none"
    BY DEF Ok
  <2> TAKE i \in 1..n
  <2>2. PICK k \in K : v.entries[i] = Pair(k, V[k])
    BY <1>5
  <2>3. r[i] = Ok([key |-> k, val |-> X[k]])
    BY <1>3, <2>2
  <2> QED
    BY ONLY <2>1, <2>3
<1>7. All(r) = Ok(pairs)
  BY <1>1, <1>4, <1>6, AllGood
<1>8. DOMAIN pairs = 1..n /\ \A i \in 1..n : pairs[i] = r[i].val
  BY <1>1, <1>4, ValuesFacts
<1> HIDE DEF pairs
<1>9. ASSUME NEW i \in 1..n, NEW k \in K, v.entries[i] = Pair(k, V[k])
      PROVE  pairs[i].key = k /\ pairs[i].val = X[k]
  <2>1. r[i] = Ok([key |-> k, val |-> X[k]])
    BY <1>3, <1>9
  <2>2. pairs[i] = [key |-> k, val |-> X[k]]
    BY <1>8, <2>1 DEF Ok
  <2> QED
    BY ONLY <2>2
<1>10. \A i, j \in 1..n : pairs[i].key = pairs[j].key => i = j
  <2> SUFFICES ASSUME NEW i \in 1..n, NEW j \in 1..n, pairs[i].key = pairs[j].key
               PROVE  i = j
    OBVIOUS
  <2>1. PICK k \in K : v.entries[i] = Pair(k, V[k])
    BY <1>5
  <2>2. PICK l \in K : v.entries[j] = Pair(l, V[l])
    BY <1>5
  <2>3. pairs[i].key = k /\ pairs[j].key = l
    BY <1>9, <2>1, <2>2
  <2>4. v.entries[i] = v.entries[j]
    BY <2>1, <2>2, <2>3
  <2> QED
    BY <1>5, <2>4
<1>11. /\ \A k : k \in DOMAIN FieldsOf(pairs) <=> \E i \in 1..n : k = pairs[i].key
       /\ \A i \in 1..n : FieldsOf(pairs)[pairs[i].key] = pairs[i].val
  BY ONLY <1>1, <1>8, <1>10, FieldsKept
<1>12. FloorRead(t, v) = Ok([table |-> t, version |-> 1, fields |-> FieldsOf(pairs)])
  BY <1>2, <1>7 DEF Then, Ok
<1> DEFINE fs == FieldsOf(pairs)
           in == FloorRead(t, v).val
<1>13. FloorRead(t, v) = Ok(in) /\ Is(in, "fields") /\ in.fields = fs
  BY <1>12 DEF Ok, Is
<1> HIDE DEF fs, in
<1>14. \A k : k \in DOMAIN fs <=> k \in K
  <2> TAKE k
  <2>1. k \in DOMAIN fs <=> \E i \in 1..n : k = pairs[i].key
    BY <1>11 DEF fs
  <2>2. ASSUME k \in K PROVE \E i \in 1..n : k = pairs[i].key
    <3>1. PICK i \in 1..n : v.entries[i] = Pair(k, V[k])
      BY <1>5, <2>2
    <3>2. pairs[i].key = k
      BY <1>9, <2>2, <3>1
    <3> QED
      BY ONLY <3>2, i \in 1..n
  <2>3. ASSUME NEW i \in 1..n, k = pairs[i].key PROVE k \in K
    <3>1. PICK j \in K : v.entries[i] = Pair(j, V[j])
      BY <1>5
    <3>2. pairs[i].key = j
      BY <1>9, <3>1
    <3> QED
      BY ONLY <2>3, <3>2, j \in K
  <2> QED
    BY ONLY <2>1, <2>2, <2>3
<1>15. ASSUME NEW k \in K PROVE fs[k] = X[k]
  <2>1. PICK i \in 1..n : v.entries[i] = Pair(k, V[k])
    BY <1>5
  <2>2. pairs[i].key = k /\ pairs[i].val = X[k]
    BY <1>9, <2>1
  <2>3. fs[pairs[i].key] = pairs[i].val
    BY <1>11 DEF fs
  <2> QED
    BY ONLY <2>2, <2>3
<1>16. (\A k : Has(in, k) <=> k \in K) /\ (\A k \in K : in.fields[k] = X[k])
  BY ONLY <1>13, <1>14, <1>15 DEF Has
<1> QED
  BY ONLY <1>13, <1>16 DEF Instantiates, in

\* The first level of a type, over the others.
LEMMA TopAndRest ==
  ASSUME NEW td \in SoundTypes
  PROVE  /\ td[1] \in Levels /\ Len(td) \in Nat /\ 1 \in DOMAIN td
         /\ SoundLevel(td[1], 1 < Len(td))
         /\ 1 < Len(td) => <<td[1]>> \o Tail(td) = td
         /\ ~(1 < Len(td)) => <<td[1]>> \o <<>> = td
<1>1. td \in Seq(Levels) /\ SoundType(td) /\ Len(td) \in Nat /\ DOMAIN td = 1..Len(td)
  BY LenProperties DEF SoundTypes
<1>2. 1 \in 1..Len(td) /\ td[1] \in Levels
  <2>1. td # <<>>
    BY <1>1 DEF SoundType
  <2>2. 1 \in 1..Len(td)
    BY <1>1, <2>1, EmptySeq
  <2> QED
    BY <1>1, <2>2, ElementOfSeq
<1>3. SoundLevel(td[1], 1 < Len(td))
  BY <1>1, <1>2 DEF SoundType, SoundLevel
<1>4. ASSUME 1 < Len(td) PROVE <<td[1]>> \o Tail(td) = td
  <2> DEFINE t == Tail(td)
             q == <<td[1]>> \o t
  <2>1. /\ t \in Seq(Levels) /\ Len(t) = Len(td) - 1
        /\ \A i \in DOMAIN t : t[i] = td[i + 1]
    BY <1>4, SoundRest DEF SoundTypes
  <2> HIDE DEF t
  <2>2. /\ q \in Seq(Levels) /\ Len(q) = Len(t) + 1 /\ q[1] = td[1]
        /\ \A i \in 1..Len(t) : q[i + 1] = t[i]
    BY <1>2, <2>1, LevelOver
  <2>3. DOMAIN t = 1..Len(t)
    BY <2>1, LenProperties
  <2> HIDE DEF q
  <2>4. \A i \in 1..Len(q) : q[i] = td[i]
    <3> TAKE i \in 1..Len(q)
    <3>1. CASE i = 1
      BY <2>2, <3>1
    <3>2. CASE i # 1
      <4>1. i - 1 \in 1..Len(t) /\ (i - 1) + 1 = i
        BY <1>1, <2>1, <2>2, <3>2
      <4> QED
        BY <2>1, <2>2, <2>3, <4>1
    <3> QED
      BY <3>1, <3>2
  <2>5. Len(q) = Len(td)
    BY <1>1, <2>1, <2>2
  <2>6. q = td
    BY ONLY <1>1, <2>2, <2>4, <2>5, SeqEqual
  <2> QED
    BY <2>6 DEF q, t
<1>5. ASSUME ~(1 < Len(td)) PROVE <<td[1]>> \o <<>> = td
  <2> DEFINE q == <<td[1]>>
  <2>1. q \in Seq(Levels) /\ Len(q) = 1 /\ q[1] = td[1] /\ q \o <<>> = q
    BY <1>2
  <2>2. Len(td) = 1
    BY <1>1, <1>2, <1>5
  <2> HIDE DEF q
  <2>3. q = td
    BY <1>1, <2>1, <2>2, SeqEqual
  <2> QED
    BY <2>1, <2>3 DEF q
<1> QED
  BY <1>1, <1>2, <1>3, <1>4, <1>5

\* An int of the program under a key.
LEMMA CodeOf ==
  ASSUME NEW in, NEW key, Has(in, key), NEW n, in.fields[key] = [int |-> n], Coded(n)
  PROVE  Code(in, key) = Ok(n)
<1>1. GoType(0) = "int"
  BY DEF GoType
<1>2. Is(in.fields[key], "int") /\ in.fields[key].int = n
  BY DEF Is
<1>3. Get(in, key, 0) = Ok(in.fields[key])
  BY <1>1, <1>2 DEF Get
<1>4. Get(in, key, 0).err = "none" /\ Get(in, key, 0).val.int = n
  BY <1>2, <1>3 DEF Ok
<1> QED
  BY <1>4 DEF Code, Narrow, Coded

\* Which fields of a descriptor its artifact has.
GivenOf(td) == 1 < Len(td)
GivenRef(td) == td[1].kind = KindRef \/ td[1].ref # 0
GivenUnit(td) == td[1].kind \in {KindDecimal, KindRational} \/ td[1].unit # 0

\* An instance that has what the artifact of a type has is parsed as the type.
LEMMA SpelledParses ==
  ASSUME NEW td \in CodedTypes, NEW ti,
         Has(ti, 0), ti.fields[0] = [int |-> td[1].kind],
         Has(ti, 1) <=> GivenOf(td),
         GivenOf(td) => Is(ti.fields[1], "fields") /\ NestedType(ti.fields[1]) = Ok(Tail(td)),
         Has(ti, 2) <=> GivenRef(td), GivenRef(td) => ti.fields[2] = [int |-> td[1].ref],
         Has(ti, 3) <=> GivenUnit(td), GivenUnit(td) => ti.fields[3] = [int |-> td[1].unit]
  PROVE  ParseTypeDescriptor(ti) = Ok(td)
<1> DEFINE top == td[1]
           of == IF GivenOf(td) THEN Tail(td) ELSE <<>>
           r == <<Code(ti, 0), ParseOf(ti), OptionalCode(ti, 2), OptionalCode(ti, 3)>>
           present == {k \in 1..3 : Has(ti, k)}
           Of(y) == Descriptor(y, present)
<1>1. /\ top \in Levels /\ CodedLevel(top) /\ SoundLevel(top, GivenOf(td))
      /\ <<top>> \o of = td
  BY TopAndRest DEF CodedTypes, GivenOf
<1>2. ParseTypeDescriptor(ti) = Then(All(r), Of)
  BY DEF ParseTypeDescriptor
<1>3. DOMAIN r = 1..4 /\ r[1] = Code(ti, 0) /\ r[2] = ParseOf(ti)
      /\ r[3] = OptionalCode(ti, 2) /\ r[4] = OptionalCode(ti, 3)
  OBVIOUS
<1> HIDE DEF r
<1>4. Coded(top.kind) /\ Coded(top.ref) /\ Coded(top.unit)
  BY <1>1 DEF CodedLevel
<1>5. r[1] = Ok(top.kind)
  BY <1>3, <1>4, CodeOf
<1>6. r[2] = Ok(of)
  <2>1. CASE GivenOf(td)
    <3>1. GoType(KindRef) = "fields"
      BY DEF GoType, KindRef
    <3>2. Get(ti, 1, KindRef).err = "none"
      BY <2>1, <3>1 DEF Get, Ok
    <3> QED
      BY <1>3, <2>1, <3>2 DEF ParseOf
  <2>2. CASE ~GivenOf(td)
    BY <1>3, <2>2 DEF ParseOf
  <2> QED
    BY <2>1, <2>2
<1>7. r[3] = Ok(top.ref)
  <2>1. CASE GivenRef(td)
    <3>1. Code(ti, 2) = Ok(top.ref)
      BY <1>4, <2>1, CodeOf
    <3> QED
      BY <1>3, <2>1, <3>1 DEF OptionalCode
  <2>2. CASE ~GivenRef(td)
    <3>1. top.ref = 0
      BY <2>2 DEF GivenRef
    <3> QED
      BY <1>3, <2>2, <3>1 DEF OptionalCode
  <2> QED
    BY <2>1, <2>2
<1>8. r[4] = Ok(top.unit)
  <2>1. CASE GivenUnit(td)
    <3>1. Code(ti, 3) = Ok(top.unit)
      BY <1>4, <2>1, CodeOf
    <3> QED
      BY <1>3, <2>1, <3>1 DEF OptionalCode
  <2>2. CASE ~GivenUnit(td)
    <3>1. top.unit = 0
      BY <2>2 DEF GivenUnit
    <3> QED
      BY <1>3, <2>2, <3>1 DEF OptionalCode
  <2> QED
    BY <2>1, <2>2
<1> DEFINE x == Values(r)
<1> HIDE DEF of
<1>9. \A i \in 1..4 : r[i].err = "none"
  <2>1. \A i \in 1..4 : i = 1 \/ i = 2 \/ i = 3 \/ i = 4
    OBVIOUS
  <2>2. \A y : Ok(y).err = "none"
    BY DEF Ok
  <2> QED
    BY ONLY <1>5, <1>6, <1>7, <1>8, <2>1, <2>2
<1>10. All(r) = Ok(x)
  BY ONLY <1>3, <1>9, AllGood
<1>11. x[1] = top.kind /\ x[2] = of /\ x[3] = top.ref /\ x[4] = top.unit
  <2>1. \A i \in 1..4 : x[i] = r[i].val
    BY ONLY <1>3, ValuesFacts
  <2>2. 1 \in 1..4 /\ 2 \in 1..4 /\ 3 \in 1..4 /\ 4 \in 1..4
    OBVIOUS
  <2>3. \A y : Ok(y).val = y
    BY DEF Ok
  <2> QED
    BY ONLY <1>5, <1>6, <1>7, <1>8, <2>1, <2>2, <2>3
<1> HIDE DEF x
<1>12. ParseTypeDescriptor(ti) = Descriptor(x, present)
  BY <1>2, <1>10 DEF Then, Ok
<1>13. FieldsMatchKind(x[1], present)
  <2> SUFFICES ASSUME top.kind \in Kinds PROVE present = Owned(top.kind)
    BY <1>11 DEF FieldsMatchKind
  <2>1. /\ Owned(top.kind) \subseteq 1..3
        /\ 1 \in Owned(top.kind) <=> top.kind = KindArray
        /\ 2 \in Owned(top.kind) <=> top.kind = KindRef
        /\ 3 \in Owned(top.kind) <=> top.kind \in {KindDecimal, KindRational}
    BY OwnedFacts
  <2>2. /\ Has(ti, 1) <=> top.kind = KindArray
        /\ Has(ti, 2) <=> top.kind = KindRef
        /\ Has(ti, 3) <=> top.kind \in {KindDecimal, KindRational}
    BY <1>1 DEF SoundLevel, GivenOf, GivenRef, GivenUnit
  <2>3. \A k \in 1..3 : k = 1 \/ k = 2 \/ k = 3
    OBVIOUS
  <2>4. \A k \in 1..3 : Has(ti, k) <=> k \in Owned(top.kind)
    BY ONLY <2>1, <2>2, <2>3
  <2> QED
    BY ONLY <2>1, <2>4
<1>14. Level(x[1], x[3], x[4]) = top
  BY <1>1, <1>11 DEF Levels, Level
<1>15. Descriptor(x, present) = Ok(<<top>> \o of)
  BY <1>11, <1>13, <1>14 DEF Descriptor
<1> QED
  BY <1>1, <1>12, <1>15

\* A number is read as it is, and so is a text.
LEMMA ScalarRead ==
  /\ \A n, tables, version : InterpretValue(Scalar(0), [int |-> n], tables, version) = Ok([int |-> n])
  /\ \A x, tables, version : InterpretValue(Scalar(2), [text |-> x], tables, version) = Ok([text |-> x])
<1>1. ASSUME NEW k \in {0, 2}, NEW v, NEW tables, NEW version, Is(v, ScalarField(k))
      PROVE  InterpretValue(Scalar(k), v, tables, version) = Ok(v)
  <2>1. KindOf(Scalar(k)) = k
    BY DEF KindOf, Scalar, Level
  <2> QED
    BY <1>1, <2>1 DEF InterpretValue, ScalarKinds, KindDecimal, KindRational, KindArray, KindRef
<1>2. ScalarField(0) = "int" /\ ScalarField(2) = "text"
  BY DEF ScalarField
<1>3. (\A n : Is([int |-> n], "int")) /\ (\A x : Is([text |-> x], "text"))
  BY DEF Is
<1> QED
  BY <1>1, <1>2, <1>3

\* The artifact that a type is written as is read, and parsed as that type.
TypeRead(td) ==
  LET r == FloorRead(TypeDescriptorTable, TypeArtifact(td))
  IN  r = Ok(r.val) /\ Is(r.val, "fields") /\ ParseTypeDescriptor(r.val) = Ok(td)

\* The entries of an artifact of a type are spelled out one by one.
TypeVals(td) ==
  [k \in 0..3 |-> CASE k = 0 -> [int |-> td[1].kind]
                    [] k = 1 -> NestedArtifact(Tail(td))
                    [] k = 2 -> [int |-> td[1].ref]
                    [] k = 3 -> [int |-> td[1].unit]]
TypeKeys(td) ==
  {k \in 0..3 : (k = 1 => GivenOf(td)) /\ (k = 2 => GivenRef(td)) /\ (k = 3 => GivenUnit(td))}
LEMMA TypeSpelled ==
  ASSUME NEW td
  PROVE  /\ Is(TypeArtifact(td), "entries")
         /\ Spells(TypeArtifact(td).entries, TypeVals(td), TypeKeys(td))
<1> DEFINE V == TypeVals(td)
           one == <<Pair(0, V[0])>>
           two == one \o Optionally(GivenOf(td), 1, V[1])
           three == two \o Optionally(GivenRef(td), 2, V[2])
           four == three \o Optionally(GivenUnit(td), 3, V[3])
           K1 == IF GivenOf(td) THEN {0} \cup {1} ELSE {0}
           K2 == IF GivenRef(td) THEN K1 \cup {2} ELSE K1
           K3 == IF GivenUnit(td) THEN K2 \cup {3} ELSE K2
<1>1. /\ V[0] = [int |-> td[1].kind] /\ V[1] = NestedArtifact(Tail(td))
      /\ V[2] = [int |-> td[1].ref] /\ V[3] = [int |-> td[1].unit]
  BY DEF TypeVals
<1>2. TypeArtifact(td) = [entries |-> four]
  BY <1>1 DEF TypeArtifact, GivenOf, GivenRef, GivenUnit
<1>3. GivenOf(td) \in BOOLEAN /\ GivenRef(td) \in BOOLEAN /\ GivenUnit(td) \in BOOLEAN
  BY DEF GivenOf, GivenRef, GivenUnit
<1>4. Spells(one, V, {0})
  BY SpellsOne
<1>5. K1 \in SUBSET (0..1) /\ K2 \in SUBSET (0..2) /\ K3 = TypeKeys(td)
  <2>1. K1 \in SUBSET (0..1) /\ K2 \in SUBSET (0..2) /\ K3 \in SUBSET (0..3)
    OBVIOUS
  <2>2. \A k \in 0..3 : k = 0 \/ k = 1 \/ k = 2 \/ k = 3
    OBVIOUS
  <2>3. \A k \in 0..3 : k \in K3 <=> \/ k = 0
                                     \/ k = 1 /\ GivenOf(td)
                                     \/ k = 2 /\ GivenRef(td)
                                     \/ k = 3 /\ GivenUnit(td)
    OBVIOUS
  <2> HIDE DEF K1, K2, K3
  <2>4. \A k \in 0..3 : k \in TypeKeys(td) <=> \/ k = 0
                                               \/ k = 1 /\ GivenOf(td)
                                               \/ k = 2 /\ GivenRef(td)
                                               \/ k = 3 /\ GivenUnit(td)
    BY <2>2 DEF TypeKeys
  <2>5. TypeKeys(td) \in SUBSET (0..3)
    BY DEF TypeKeys
  <2>6. K3 = TypeKeys(td)
    BY ONLY <2>1, <2>3, <2>4, <2>5
  <2> QED
    BY <2>1, <2>6
<1> HIDE DEF one, V
<1>6. Spells(two, V, K1)
  <2>1. {0} \in SUBSET (0..3) /\ 1 \in 0..3 /\ 1 \notin {0}
    OBVIOUS
  <2> QED
    BY ONLY <1>3, <1>4, <2>1, SpellsMore
<1> HIDE DEF two, K1
<1>7. Spells(three, V, K2)
  <2>1. K1 \in SUBSET (0..3) /\ 2 \in 0..3 /\ 2 \notin K1
    BY <1>5
  <2> QED
    BY ONLY <1>3, <1>6, <2>1, SpellsMore
<1> HIDE DEF three, K2
<1>8. Spells(four, V, K3)
  <2>1. K2 \in SUBSET (0..3) /\ 3 \in 0..3 /\ 3 \notin K2
    BY <1>5
  <2> QED
    BY ONLY <1>3, <1>7, <2>1, SpellsMore
<1> HIDE DEF four, K3
<1>9. Is(TypeArtifact(td), "entries") /\ TypeArtifact(td).entries = four
  BY <1>2 DEF Is
<1> QED
  BY ONLY <1>5, <1>8, <1>9 DEF V

\* A type comes back if the type of its elements does.
LEMMA TypeComesBack ==
  ASSUME 3 < IntHalf, NEW forest, NEW height, Trees(forest, height), Tied(forest),
         NEW td \in CodedTypes, TypeArtifact(td) \in forest,
         GivenOf(td) => /\ NestedArtifact(Tail(td)) = TypeArtifact(Tail(td))
                        /\ TypeArtifact(Tail(td)) \in forest /\ TypeRead(Tail(td))
  PROVE  TypeRead(td)
<1> DEFINE a == TypeArtifact(td)
           V == TypeVals(td)
           K == TypeKeys(td)
           t == TypeDescriptorTable
           of == FloorRead(t, TypeArtifact(Tail(td)))
           X == [k \in 0..3 |-> IF k = 1 THEN of.val ELSE V[k]]
           ti == FloorRead(t, a).val
<1>1. Is(a, "entries") /\ Spells(a.entries, V, K)
  BY TypeSpelled
<1>2. /\ V[0] = [int |-> td[1].kind] /\ V[1] = NestedArtifact(Tail(td))
      /\ V[2] = [int |-> td[1].ref] /\ V[3] = [int |-> td[1].unit]
      /\ X[0] = V[0] /\ X[1] = of.val /\ X[2] = V[2] /\ X[3] = V[3]
  BY DEF TypeVals
<1>3. /\ K \in SUBSET (0..3) /\ 0 \in K /\ (1 \in K <=> GivenOf(td))
      /\ (2 \in K <=> GivenRef(td)) /\ (3 \in K <=> GivenUnit(td))
  <2>1. 0 \in 0..3 /\ 1 \in 0..3 /\ 2 \in 0..3 /\ 3 \in 0..3
    OBVIOUS
  <2> QED
    BY <2>1 DEF TypeKeys
<1>4. /\ t.entries[1].type = Scalar(0) /\ t.entries[2].type = Ref(2)
      /\ t.entries[3].type = Scalar(0) /\ t.entries[4].type = Scalar(0)
  BY DEF TypeDescriptorTable, Entry
<1>5. t \in Floor /\ \A k \in K : k + 1 \in DOMAIN t.entries
  BY <1>3, FloorTables DEF Floor
<1> HIDE DEF a, V, K, X, t
<1>6. ASSUME NEW k \in K
      PROVE  InterpretValue(t.entries[k + 1].type, V[k], DefaultRegistry, 1) = Ok(X[k])
  <2>1. 0 + 1 = 1 /\ 1 + 1 = 2 /\ 2 + 1 = 3 /\ 3 + 1 = 4
    OBVIOUS
  <2>2. CASE k = 0
    BY <1>2, <1>4, <2>1, <2>2, ScalarRead
  <2>3. CASE k = 1
    <3>1. GivenOf(td) /\ V[1] = TypeArtifact(Tail(td)) /\ of = Ok(of.val)
      BY <1>2, <1>3, <2>3 DEF TypeRead, t
    <3>2. InterpretValue(Ref(2), V[1], DefaultRegistry, 1) = of
      BY <3>1, FloorRefs DEF t
    <3> HIDE DEF of
    <3> QED
      BY <1>2, <1>4, <2>1, <2>3, <3>1, <3>2
  <2>4. CASE k = 2
    BY <1>2, <1>4, <2>1, <2>4, ScalarRead
  <2>5. CASE k = 3
    BY <1>2, <1>4, <2>1, <2>5, ScalarRead
  <2>6. k = 0 \/ k = 1 \/ k = 2 \/ k = 3
    BY <1>3
  <2> QED
    BY ONLY <2>2, <2>3, <2>4, <2>5, <2>6
<1>7. /\ FloorRead(t, a) = Ok(ti) /\ Is(ti, "fields")
      /\ \A k : Has(ti, k) <=> k \in K
      /\ \A k \in K : ti.fields[k] = X[k]
  <2>1. a \in forest /\ 3 < IntHalf /\ Trees(forest, height) /\ Tied(forest)
    BY DEF a
  <2>2. ReadAs(t, V, K, X)
    BY <1>5, <1>6 DEF ReadAs
  <2>3. Instantiates(t, a, K, X)
    BY ONLY <1>1, <1>3, <1>5, <2>1, <2>2, SpelledIsRead
  <2> QED
    BY <2>3 DEF Instantiates
<1> HIDE DEF ti
<1>8. ASSUME GivenOf(td)
      PROVE  Is(ti.fields[1], "fields") /\ NestedType(ti.fields[1]) = Ok(Tail(td))
  <2>1. ti.fields[1] = of.val
    BY <1>2, <1>3, <1>7, <1>8
  <2>2. of = Ok(of.val) /\ Is(of.val, "fields") /\ ParseTypeDescriptor(of.val) = Ok(Tail(td))
    BY <1>8 DEF TypeRead, t
  <2>3. of.err = "none" /\ of = InterpretMap(t, TypeArtifact(Tail(td)), DefaultRegistry, 1)
    BY <2>2 DEF Ok, FloorRead
  <2>4. NestedType(of.val) = ParseTypeDescriptor(of.val)
    BY <1>8, <2>3 DEF Tied
  <2> HIDE DEF of
  <2> QED
    BY ONLY <2>1, <2>2, <2>4
<1>9. ParseTypeDescriptor(ti) = Ok(td)
  BY <1>2, <1>3, <1>7, <1>8, SpelledParses
<1> QED
  BY <1>7, <1>9 DEF TypeRead, ti, a, t

\* NestedArtifact writes a type as TypeArtifact does.
WritesTypes == \A td \in CodedTypes : NestedArtifact(td) = TypeArtifact(td)

\* Every type comes back: the shortest that did not would.
LEMMA TypesComeBack ==
  ASSUME 3 < IntHalf, NEW forest, NEW height, Trees(forest, height), Tied(forest), WritesTypes
  PROVE  \A td \in CodedTypes : TypeArtifact(td) \in forest => TypeRead(td)
<1> DEFINE Lost(td) == TypeArtifact(td) \in forest /\ ~TypeRead(td)
           Wrong == {Len(td) : td \in {x \in CodedTypes : Lost(x)}}
<1>1. Wrong \in SUBSET Nat
  BY TopAndRest DEF CodedTypes
<1>2. ASSUME Wrong # {} PROVE FALSE
  <2>1. Min(Wrong) \in Wrong /\ \A k \in Wrong : Min(Wrong) <= k
    <3> HIDE DEF Wrong
    <3> QED
      BY <1>1, <1>2, MinFacts
  <2>2. PICK td \in CodedTypes : Lost(td) /\ Len(td) = Min(Wrong)
    BY <2>1
  <2> DEFINE inner == Tail(td)
  <2>3. ASSUME GivenOf(td)
        PROVE  /\ NestedArtifact(inner) = TypeArtifact(inner)
               /\ TypeArtifact(inner) \in forest /\ TypeRead(inner)
    <3>1. /\ inner \in SoundTypes /\ Len(inner) = Len(td) - 1 /\ Len(td) \in Nat
          /\ \A i \in DOMAIN inner : i + 1 \in DOMAIN td /\ inner[i] = td[i + 1]
      BY <2>3, SoundRest DEF GivenOf, CodedTypes
    <3>2. inner \in CodedTypes
      BY <3>1 DEF CodedTypes
    <3>3. NestedArtifact(inner) = TypeArtifact(inner)
      BY <3>2 DEF WritesTypes
    <3> DEFINE a == TypeArtifact(td)
    <3>4. a \in forest /\ Is(a, "entries") /\ Spells(a.entries, TypeVals(td), TypeKeys(td))
      BY <2>2, TypeSpelled
    <3>5. 1 \in TypeKeys(td) /\ TypeVals(td)[1] = NestedArtifact(inner)
      BY <2>3 DEF TypeKeys, TypeVals
    <3> HIDE DEF a, inner
    <3>6. PICK i \in 1..Len(a.entries) : a.entries[i] = Pair(1, TypeVals(td)[1])
      BY <3>4, <3>5 DEF Spells
    <3>7. a.entries[i].val = NestedArtifact(inner) /\ a.entries[i].val \in forest
      BY <3>4, <3>5, <3>6, PairFacts, Shapes
    <3>8. ~(Len(td) <= Len(inner))
      BY <3>1
    <3>9. ~Lost(inner)
      <4> SUFFICES ASSUME Lost(inner) PROVE FALSE
        OBVIOUS
      <4>1. Len(inner) \in Wrong
        BY <3>2
      <4> HIDE DEF Wrong
      <4> QED
        BY <2>1, <2>2, <3>8, <4>1
    <3> QED
      BY <3>3, <3>7, <3>9
  <2>4. TypeRead(td)
    BY <2>2, <2>3, TypeComesBack
  <2> QED
    BY <2>2, <2>4
<1> QED
  BY <1>2

\* Pairs with the keys 0, 1, ..., in order.
LEMMA SpellsInOrder ==
  ASSUME NEW V, NEW m \in 1..4, NEW ps \in Seq({Pair(k, V[k]) : k \in 0..3}), Len(ps) = m,
         \A i \in 1..m : ps[i] = Pair(i - 1, V[i - 1])
  PROVE  Spells(ps, V, 0..m - 1)
<1>1. \A i, j \in 1..m : ps[i].key = ps[j].key => i = j
  <2> SUFFICES ASSUME NEW i \in 1..m, NEW j \in 1..m, ps[i].key = ps[j].key PROVE i = j
    OBVIOUS
  <2>1. ps[i] = Pair(i - 1, V[i - 1]) /\ ps[j] = Pair(j - 1, V[j - 1])
    OBVIOUS
  <2>2. i - 1 = j - 1
    BY <2>1, PairFacts
  <2> QED
    BY ONLY <2>2, i \in 1..m, j \in 1..m, m \in 1..4
<1>2. \A i \in 1..m : \E k \in 0..m - 1 : ps[i] = Pair(k, V[k])
  <2> TAKE i \in 1..m
  <2>1. i - 1 \in 0..m - 1
    OBVIOUS
  <2> QED
    BY <2>1
<1>3. \A k \in 0..m - 1 : \E i \in 1..m : ps[i] = Pair(k, V[k])
  <2> TAKE k \in 0..m - 1
  <2>1. k + 1 \in 1..m /\ (k + 1) - 1 = k
    OBVIOUS
  <2>2. ps[k + 1] = Pair(k, V[k])
    BY <2>1
  <2> QED
    BY <2>1, <2>2
<1> QED
  BY <1>1, <1>2, <1>3 DEF Spells

\* The artifact that an entry is written as is read, and parsed as that entry.
EntryRead(e) ==
  LET r == FloorRead(EntryTable, EntryArtifact(e))
  IN  r = Ok(r.val) /\ Is(r.val, "fields") /\ ParseEntry(r.val) = Ok(e)

\* The entries of an artifact of an entry are spelled out one by one.
EntryVals(e) ==
  [k \in 0..3 |-> CASE k = 0 -> [int |-> e.key]
                    [] k = 1 -> [text |-> e.name]
                    [] k = 2 -> TypeArtifact(e.type)
                    [] k = 3 -> [int |-> e.presence]]
LEMMA EntrySpelled ==
  ASSUME NEW e
  PROVE  /\ Is(EntryArtifact(e), "entries")
         /\ Spells(EntryArtifact(e).entries, EntryVals(e), 0..3)
         /\ EntryVals(e)[0] = [int |-> e.key] /\ EntryVals(e)[1] = [text |-> e.name]
         /\ EntryVals(e)[2] = TypeArtifact(e.type) /\ EntryVals(e)[3] = [int |-> e.presence]
<1> DEFINE V == EntryVals(e)
           p(k) == Pair(k, V[k])
           ps == <<p(0), p(1), p(2), p(3)>>
           S == {Pair(k, V[k]) : k \in 0..3}
<1>1. /\ V[0] = [int |-> e.key] /\ V[1] = [text |-> e.name]
      /\ V[2] = TypeArtifact(e.type) /\ V[3] = [int |-> e.presence]
  BY DEF EntryVals
<1>2. EntryArtifact(e) = [entries |-> ps]
  BY <1>1 DEF EntryArtifact
<1> HIDE DEF V
<1>3. p(0) \in S /\ p(1) \in S /\ p(2) \in S /\ p(3) \in S
  OBVIOUS
<1>4. \A i \in 1..4 : ps[i] = Pair(i - 1, V[i - 1])
  <2>1. \A i \in 1..4 : i = 1 \/ i = 2 \/ i = 3 \/ i = 4
    OBVIOUS
  <2>2. 1 - 1 = 0 /\ 2 - 1 = 1 /\ 3 - 1 = 2 /\ 4 - 1 = 3
    OBVIOUS
  <2>3. ps[1] = Pair(0, V[0]) /\ ps[2] = Pair(1, V[1]) /\ ps[3] = Pair(2, V[2]) /\ ps[4] = Pair(3, V[3])
    OBVIOUS
  <2> HIDE DEF ps, p
  <2> QED
    BY ONLY <2>1, <2>2, <2>3
<1>5. ps \in Seq(S) /\ Len(ps) = 4
  <2> HIDE DEF p, S
  <2> QED
    BY <1>3
<1>6. Is(EntryArtifact(e), "entries") /\ EntryArtifact(e).entries = ps
  BY <1>2 DEF Is
<1> HIDE DEF ps
<1>7. Spells(ps, V, 0..3)
  <2>1. 4 \in 1..4 /\ 4 - 1 = 3
    OBVIOUS
  <2>2. Spells(ps, V, 0..4 - 1)
    BY ONLY <1>4, <1>5, <2>1, SpellsInOrder
  <2> QED
    BY ONLY <2>1, <2>2
<1> QED
  BY ONLY <1>1, <1>6, <1>7 DEF V

\* An entry comes back.
LEMMA EntryComesBack ==
  ASSUME 3 < IntHalf, NEW forest, NEW height, Trees(forest, height), Tied(forest), WritesTypes,
         NEW e, NEW names, WritableEntry(e, names), EntryArtifact(e) \in forest
  PROVE  EntryRead(e)
<1> DEFINE a == EntryArtifact(e)
           V == EntryVals(e)
           K == 0..3
           t == EntryTable
           type == FloorRead(TypeDescriptorTable, TypeArtifact(e.type))
           X == [k \in 0..3 |-> IF k = 2 THEN type.val ELSE V[k]]
           ei == FloorRead(t, a).val
<1>1. Is(a, "entries") /\ Spells(a.entries, V, K)
  BY EntrySpelled
<1>2. /\ V[0] = [int |-> e.key] /\ V[1] = [text |-> e.name]
      /\ V[2] = TypeArtifact(e.type) /\ V[3] = [int |-> e.presence]
      /\ X[0] = V[0] /\ X[1] = V[1] /\ X[2] = type.val /\ X[3] = V[3]
  BY EntrySpelled
<1>3. /\ e = Entry(e.key, e.name, e.type, e.presence)
      /\ Coded(e.key) /\ Coded(e.presence) /\ e.type \in CodedTypes
  BY DEF WritableEntry
<1>4. /\ t.entries[1].type = Scalar(0) /\ t.entries[2].type = Scalar(2)
      /\ t.entries[3].type = Ref(2) /\ t.entries[4].type = Scalar(0)
  BY DEF EntryTable, Entry
<1>5. t \in Floor /\ DOMAIN t.entries = 1..4 /\ K \in SUBSET (0..3)
      /\ 0 \in K /\ 1 \in K /\ 2 \in K /\ 3 \in K
  BY FloorTables DEF Floor
<1> HIDE DEF a, V, X, t
<1>6. TypeArtifact(e.type) \in forest
  <2>1. PICK i \in 1..Len(a.entries) : a.entries[i] = Pair(2, V[2])
    BY <1>1, <1>5 DEF Spells
  <2>2. a.entries[i].val = V[2] /\ a \in forest
    BY <2>1, PairFacts DEF a
  <2> QED
    BY <1>1, <1>2, <2>2, Shapes
<1>7. type = Ok(type.val) /\ Is(type.val, "fields") /\ ParseTypeDescriptor(type.val) = Ok(e.type)
  <2>1. TypeRead(e.type)
    BY <1>3, <1>6, TypesComeBack
  <2> QED
    BY <2>1 DEF TypeRead
<1>8. InterpretValue(Ref(2), V[2], DefaultRegistry, 1) = type
  BY <1>2, FloorRefs
<1> HIDE DEF type
<1>9. ReadAs(t, V, K, X)
  <2> SUFFICES ASSUME NEW k \in K
               PROVE  /\ k + 1 \in DOMAIN t.entries
                      /\ InterpretValue(t.entries[k + 1].type, V[k], DefaultRegistry, 1) = Ok(X[k])
    BY DEF ReadAs
  <2>1. 0 + 1 = 1 /\ 1 + 1 = 2 /\ 2 + 1 = 3 /\ 3 + 1 = 4 /\ k + 1 \in 1..4
    OBVIOUS
  <2>2. CASE k = 0
    BY <1>2, <1>4, <1>5, <2>1, <2>2, ScalarRead
  <2>3. CASE k = 1
    BY <1>2, <1>4, <1>5, <2>1, <2>3, ScalarRead
  <2>4. CASE k = 2
    BY ONLY <1>2, <1>4, <1>5, <1>7, <1>8, <2>1, <2>4
  <2>5. CASE k = 3
    BY <1>2, <1>4, <1>5, <2>1, <2>5, ScalarRead
  <2>6. k = 0 \/ k = 1 \/ k = 2 \/ k = 3
    OBVIOUS
  <2> QED
    BY ONLY <2>2, <2>3, <2>4, <2>5, <2>6
<1>10. Instantiates(t, a, K, X)
  <2>1. a \in forest /\ 3 < IntHalf /\ Trees(forest, height) /\ Tied(forest)
    BY DEF a
  <2> QED
    BY ONLY <1>1, <1>5, <1>9, <2>1, SpelledIsRead
<1>11. /\ FloorRead(t, a) = Ok(ei) /\ Is(ei, "fields")
       /\ Has(ei, 0) /\ Has(ei, 1) /\ Has(ei, 2) /\ Has(ei, 3)
       /\ ei.fields[0] = [int |-> e.key] /\ ei.fields[1] = [text |-> e.name]
       /\ ei.fields[2] = type.val /\ ei.fields[3] = [int |-> e.presence]
  BY <1>2, <1>5, <1>10 DEF Instantiates
<1> HIDE DEF ei
<1> DEFINE name == Get(ei, 1, 2).val.text
           r == <<Code(ei, 0), Code(ei, 3), ParseType(Get(ei, 2, KindRef))>>
           x == Values(r)
           EntryOf(y) == Ok(Entry(y[1], name, y[3], y[2]))
<1>12. name = e.name
  <2>1. GoType(2) = "text" /\ Is(ei.fields[1], "text") /\ ei.fields[1].text = e.name
    BY <1>11 DEF GoType, Is
  <2> QED
    BY <1>11, <2>1 DEF Get, Ok
<1>13. Code(ei, 0) = Ok(e.key) /\ Code(ei, 3) = Ok(e.presence)
  BY <1>3, <1>11, CodeOf
<1>14. ParseType(Get(ei, 2, KindRef)) = Ok(e.type)
  <2>1. GoType(KindRef) = "fields"
    BY DEF GoType, KindRef
  <2>2. Get(ei, 2, KindRef) = Ok(type.val)
    BY <1>7, <1>11, <2>1 DEF Get
  <2> QED
    BY <1>7, <2>2 DEF ParseType, Ok
<1>15. ParseEntry(ei) = Then(All(r), EntryOf)
  <2>1. \A k \in 0..3 : k = 0 \/ k = 1 \/ k = 2 \/ k = 3
    OBVIOUS
  <2>2. ~\E k \in 0..3 : ~Has(ei, k)
    BY ONLY <1>11, <2>1
  <2> QED
    BY <2>2 DEF ParseEntry
<1>16. DOMAIN r = 1..3 /\ r[1] = Ok(e.key) /\ r[2] = Ok(e.presence) /\ r[3] = Ok(e.type)
  BY <1>13, <1>14
<1> HIDE DEF r, name
<1>17. \A i \in 1..3 : r[i].err = "none"
  <2>1. \A i \in 1..3 : i = 1 \/ i = 2 \/ i = 3
    OBVIOUS
  <2>2. \A y : Ok(y).err = "none"
    BY DEF Ok
  <2> QED
    BY ONLY <1>16, <2>1, <2>2
<1>18. All(r) = Ok(x)
  BY ONLY <1>16, <1>17, AllGood
<1>19. x[1] = e.key /\ x[2] = e.presence /\ x[3] = e.type
  <2>1. \A i \in 1..3 : x[i] = r[i].val
    BY ONLY <1>16, ValuesFacts
  <2>2. 1 \in 1..3 /\ 2 \in 1..3 /\ 3 \in 1..3
    OBVIOUS
  <2>3. \A y : Ok(y).val = y
    BY DEF Ok
  <2> QED
    BY ONLY <1>16, <2>1, <2>2, <2>3
<1> HIDE DEF x
<1>20. ParseEntry(ei) = Ok(Entry(x[1], name, x[3], x[2]))
  BY <1>15, <1>18 DEF Then, Ok
<1>21. ParseEntry(ei) = Ok(e)
  BY ONLY <1>3, <1>12, <1>19, <1>20
<1> QED
  BY <1>11, <1>21 DEF EntryRead, ei, a, t

\* The entries of an artifact of a table are spelled out one by one.
TableVals(t) ==
  [k \in 0..3 |-> CASE k = 0 -> [int |-> t.describes]
                    [] k = 1 -> [int |-> t.version]
                    [] OTHER -> [items |-> [i \in DOMAIN t.entries |-> EntryArtifact(t.entries[i])]]]
LEMMA TableSpelled ==
  ASSUME NEW t
  PROVE  /\ Is(TableArtifact(t), "entries")
         /\ Spells(TableArtifact(t).entries, TableVals(t), 0..2)
         /\ TableVals(t)[0] = [int |-> t.describes] /\ TableVals(t)[1] = [int |-> t.version]
         /\ TableVals(t)[2] = [items |-> [i \in DOMAIN t.entries |-> EntryArtifact(t.entries[i])]]
<1> DEFINE V == TableVals(t)
           p(k) == Pair(k, V[k])
           ps == <<p(0), p(1), p(2)>>
           S == {Pair(k, V[k]) : k \in 0..3}
           items == [i \in DOMAIN t.entries |-> EntryArtifact(t.entries[i])]
<1>1. V[0] = [int |-> t.describes] /\ V[1] = [int |-> t.version] /\ V[2] = [items |-> items]
  <2> HIDE DEF items
  <2> QED
    BY DEF TableVals, items
<1>2. TableArtifact(t) = [entries |-> ps]
  BY <1>1 DEF TableArtifact
<1> HIDE DEF V
<1>3. p(0) \in S /\ p(1) \in S /\ p(2) \in S
  OBVIOUS
<1>4. \A i \in 1..3 : ps[i] = Pair(i - 1, V[i - 1])
  <2>1. \A i \in 1..3 : i = 1 \/ i = 2 \/ i = 3
    OBVIOUS
  <2>2. 1 - 1 = 0 /\ 2 - 1 = 1 /\ 3 - 1 = 2
    OBVIOUS
  <2>3. ps[1] = Pair(0, V[0]) /\ ps[2] = Pair(1, V[1]) /\ ps[3] = Pair(2, V[2])
    OBVIOUS
  <2> HIDE DEF ps, p
  <2> QED
    BY ONLY <2>1, <2>2, <2>3
<1>5. ps \in Seq(S) /\ Len(ps) = 3
  <2> HIDE DEF p, S
  <2> QED
    BY <1>3
<1>6. Is(TableArtifact(t), "entries") /\ TableArtifact(t).entries = ps
  BY <1>2 DEF Is
<1> HIDE DEF ps
<1>7. Spells(ps, V, 0..2)
  <2>1. 3 \in 1..4 /\ 3 - 1 = 2
    OBVIOUS
  <2>2. Spells(ps, V, 0..3 - 1)
    BY ONLY <1>4, <1>5, <2>1, SpellsInOrder
  <2> QED
    BY ONLY <2>1, <2>2
<1> QED
  BY ONLY <1>1, <1>6, <1>7 DEF V

\* The entries of a table, as they are read.
ReadEntries(entries) ==
  [i \in DOMAIN entries |-> FloorRead(EntryTable, EntryArtifact(entries[i])).val]

\* The entries come back, one by one.
LEMMA EntriesRead ==
  ASSUME 3 < IntHalf, NEW forest, NEW height, Trees(forest, height), Tied(forest), WritesTypes,
         NEW entries, NEW n \in Nat, DOMAIN entries = 1..n,
         NEW names, \A i \in 1..n : WritableEntry(entries[i], names),
         NEW v \in forest, v = [items |-> [i \in DOMAIN entries |-> EntryArtifact(entries[i])]]
  PROVE  /\ InterpretValue(ArrayOf(Ref(1)), v, DefaultRegistry, 1)
              = Ok([elems |-> ReadEntries(entries)])
         /\ \A i \in 1..n : EntryRead(entries[i])
<1> DEFINE q == [i \in DOMAIN v.items |-> NestedValue(Ref(1), v.items[i], DefaultRegistry, 1)]
           a(i) == EntryArtifact(entries[i])
           td == ArrayOf(Ref(1))
<1>1. Is(v, "items") /\ DOMAIN v.items = 1..n /\ \A i \in 1..n : v.items[i] = a(i)
  BY DEF Is
<1>2. \A i \in 1..n : a(i) \in forest
  BY <1>1, Shapes
<1>3. \A i \in 1..n : EntryRead(entries[i])
  BY <1>2, EntryComesBack
<1> HIDE DEF a
<1>4. KindOf(td) = KindArray /\ Tail(td) = Ref(1) /\ Ref(1) # <<>>
  BY FloorArray DEF Ref
<1>5. InterpretValue(td, v, DefaultRegistry, 1) = InterpretArray(Tail(td), v.items, DefaultRegistry, 1)
  <2> HIDE DEF td
  <2> QED
    BY <1>1, <1>4 DEF InterpretValue, ScalarKinds, KindDecimal, KindRational, KindArray, KindRef
<1>6. InterpretArray(Ref(1), v.items, DefaultRegistry, 1) = Then(All(q), Elements)
  BY <1>4 DEF InterpretArray
<1>7. DOMAIN q = 1..n /\ \A i \in 1..n : q[i] = FloorRead(EntryTable, a(i))
  <2>1. ASSUME NEW i \in 1..n PROVE q[i] = FloorRead(EntryTable, a(i))
    <3>1. q[i] = NestedValue(Ref(1), a(i), DefaultRegistry, 1)
      BY <1>1
    <3>2. NestedValue(Ref(1), a(i), DefaultRegistry, 1) = InterpretValue(Ref(1), a(i), DefaultRegistry, 1)
      BY <1>2, NestedCall
    <3>3. InterpretValue(Ref(1), a(i), DefaultRegistry, 1) = FloorRead(EntryTable, a(i))
      BY FloorRefs
    <3> QED
      BY ONLY <3>1, <3>2, <3>3
  <2> QED
    BY <1>1, <2>1
<1> HIDE DEF q, td
<1>8. \A i \in 1..n : q[i] = Ok(q[i].val)
  BY <1>3, <1>7 DEF EntryRead, a
<1>9. \A i \in 1..n : q[i].err = "none"
  <2>1. \A y : Ok(y).err = "none"
    BY DEF Ok
  <2> QED
    BY ONLY <1>8, <2>1
<1>10. All(q) = Ok(Values(q))
  BY <1>7, <1>9, AllGood
<1>11. Values(q) = [i \in 1..n |-> q[i].val]
  BY <1>7, ValuesFacts
<1>12. Values(q) = ReadEntries(entries)
  BY <1>7, <1>11 DEF ReadEntries, a
<1>13. Then(All(q), Elements) = Ok([elems |-> ReadEntries(entries)])
  BY <1>10, <1>12 DEF Then, Ok, Elements
<1> QED
  BY ONLY <1>3, <1>4, <1>5, <1>6, <1>13 DEF td

\* The entries of a table with its keys in order are parsed as they are.
LEMMA EntriesParsed ==
  ASSUME NEW entries, NEW n \in Nat, DOMAIN entries = 1..n, entries = [i \in 1..n |-> entries[i]],
         entries # <<>>, \A i \in 1..n : entries[i].key = i - 1,
         \A i \in 1..n : EntryRead(entries[i])
  PROVE  ParseEntries(ReadEntries(entries)) = Ok(entries)
<1> DEFINE elems == ReadEntries(entries)
           Parse(e) == IF Is(e, "fields") THEN ParseEntry(e) ELSE Bad("type-mismatch")
           r == [i \in DOMAIN elems |-> Parse(elems[i])]
<1>1. /\ DOMAIN elems = 1..n
      /\ \A i \in 1..n : elems[i] = FloorRead(EntryTable, EntryArtifact(entries[i])).val
  BY DEF ReadEntries
<1> HIDE DEF elems
<1>2. ParseEntries(elems) = Then(All(r), CheckedEntries)
  BY DEF ParseEntries
<1>3. DOMAIN r = 1..n /\ \A i \in 1..n : r[i] = Ok(entries[i])
  <2>1. ASSUME NEW i \in 1..n PROVE Parse(elems[i]) = Ok(entries[i])
    <3>1. Is(elems[i], "fields") /\ ParseEntry(elems[i]) = Ok(entries[i])
      BY <1>1 DEF EntryRead
    <3> QED
      BY <3>1
  <2> HIDE DEF Parse
  <2> QED
    BY <1>1, <2>1
<1> HIDE DEF r
<1>4. \A i \in 1..n : r[i].err = "none" /\ r[i].val = entries[i]
  <2>1. \A y : Ok(y).err = "none" /\ Ok(y).val = y
    BY DEF Ok
  <2> QED
    BY ONLY <1>3, <2>1
<1>5. All(r) = Ok(Values(r))
  BY <1>3, <1>4, AllGood
<1>6. Values(r) = entries
  <2>1. Values(r) = [i \in 1..n |-> r[i].val]
    BY <1>3, ValuesFacts
  <2>2. [i \in 1..n |-> r[i].val] = [i \in 1..n |-> entries[i]]
    BY <1>4
  <2> QED
    BY <2>1, <2>2
<1>7. Then(All(r), CheckedEntries) = CheckedEntries(entries)
  BY <1>5, <1>6 DEF Then, Ok
<1>8. CheckedEntries(entries) = Ok(entries)
  BY DEF CheckedEntries, ValidKeys
<1> QED
  BY ONLY <1>2, <1>7, <1>8 DEF elems

\* A table comes back.
LEMMA TableComesBack ==
  ASSUME 3 < IntHalf, NEW forest, NEW height, Trees(forest, height), Tied(forest), WritesTypes,
         NEW table, NEW names, Writable(table, names), TableArtifact(table) \in forest
  PROVE  ParseFieldTable(TableArtifact(table), DefaultRegistry) = Ok(table)
<1> DEFINE a == TableArtifact(table)
           V == TableVals(table)
           K == 0..2
           t == MetaTable
           entries == table.entries
           elems == ReadEntries(entries)
           X == [k \in 0..3 |-> IF k = 2 THEN [elems |-> elems] ELSE V[k]]
           in == FloorRead(t, a).val
<1>1. Is(a, "entries") /\ Spells(a.entries, V, K)
  BY TableSpelled
<1>2. /\ V[0] = [int |-> table.describes] /\ V[1] = [int |-> table.version]
      /\ V[2] = [items |-> [i \in DOMAIN entries |-> EntryArtifact(entries[i])]]
  BY TableSpelled
<1> HIDE DEF V
<1>3. X[0] = V[0] /\ X[1] = V[1] /\ X[2] = [elems |-> elems]
  OBVIOUS
<1>4. PICK n \in Nat :
        /\ DOMAIN entries = 1..n /\ entries = [i \in 1..n |-> entries[i]]
        /\ \A i \in 1..n : entries[i].key = i - 1 /\ WritableEntry(entries[i], names)
  BY DEF Writable
<1>5. /\ table = [describes |-> table.describes, version |-> table.version, entries |-> entries]
      /\ Coded(table.describes) /\ Coded(table.version) /\ entries # <<>>
  BY DEF Writable
<1>6. /\ t.entries[1].type = Scalar(0) /\ t.entries[2].type = Scalar(0)
      /\ t.entries[3].type = ArrayOf(Ref(1))
  BY DEF MetaTable, Entry
<1>7. t \in Floor /\ DOMAIN t.entries = 1..3 /\ t.version = 1 /\ K \in SUBSET (0..3)
      /\ 0 \in K /\ 1 \in K /\ 2 \in K
  BY FloorTables DEF Floor
<1> HIDE DEF a, X, t, entries, elems
<1>8. V[2] \in forest
  <2>1. PICK i \in 1..Len(a.entries) : a.entries[i] = Pair(2, V[2])
    BY <1>1, <1>7 DEF Spells
  <2>2. a.entries[i].val = V[2] /\ a \in forest
    BY <2>1, PairFacts DEF a
  <2> QED
    BY <1>1, <2>2, Shapes
<1>9. /\ InterpretValue(ArrayOf(Ref(1)), V[2], DefaultRegistry, 1) = Ok([elems |-> elems])
      /\ \A i \in 1..n : EntryRead(entries[i])
  BY <1>2, <1>4, <1>8, EntriesRead DEF elems
<1>10. ReadAs(t, V, K, X)
  <2> SUFFICES ASSUME NEW k \in K
               PROVE  /\ k + 1 \in DOMAIN t.entries
                      /\ InterpretValue(t.entries[k + 1].type, V[k], DefaultRegistry, 1) = Ok(X[k])
    BY DEF ReadAs
  <2>1. 0 + 1 = 1 /\ 1 + 1 = 2 /\ 2 + 1 = 3 /\ k + 1 \in 1..3
    OBVIOUS
  <2>2. CASE k = 0
    BY <1>2, <1>3, <1>6, <1>7, <2>1, <2>2, ScalarRead
  <2>3. CASE k = 1
    BY <1>2, <1>3, <1>6, <1>7, <2>1, <2>3, ScalarRead
  <2>4. CASE k = 2
    BY ONLY <1>3, <1>6, <1>7, <1>9, <2>1, <2>4
  <2>5. k = 0 \/ k = 1 \/ k = 2
    OBVIOUS
  <2> QED
    BY ONLY <2>2, <2>3, <2>4, <2>5
<1>11. Instantiates(t, a, K, X)
  <2>1. a \in forest /\ 3 < IntHalf /\ Trees(forest, height) /\ Tied(forest)
    BY DEF a
  <2> QED
    BY ONLY <1>1, <1>7, <1>10, <2>1, SpelledIsRead
<1>12. /\ FloorRead(t, a) = Ok(in) /\ Is(in, "fields")
       /\ Has(in, 0) /\ Has(in, 1) /\ Has(in, 2)
       /\ in.fields[0] = [int |-> table.describes] /\ in.fields[1] = [int |-> table.version]
       /\ in.fields[2] = [elems |-> elems]
  BY <1>2, <1>3, <1>7, <1>11 DEF Instantiates
<1> HIDE DEF in
<1>13. ParseFieldTable(a, DefaultRegistry) = TableOf(in)
  <2>1. Interpret(t, a, DefaultRegistry) = FloorRead(t, a)
    BY <1>7 DEF Interpret, FloorRead
  <2> QED
    BY <1>12, <2>1 DEF ParseFieldTable, Then, Ok, t
<1> DEFINE q == <<Code(in, 0), Code(in, 1), ParseEntries(Get(in, 2, KindArray).val.elems)>>
           x == Values(q)
           Build(y) == Ok([describes |-> y[1], version |-> y[2], entries |-> y[3]])
<1>14. TableOf(in) = Then(All(q), Build)
  <2>1. \A k \in 0..2 : k = 0 \/ k = 1 \/ k = 2
    OBVIOUS
  <2>2. ~\E k \in 0..2 : ~Has(in, k)
    BY ONLY <1>12, <2>1
  <2> QED
    BY <2>2 DEF TableOf
<1>15. Code(in, 0) = Ok(table.describes) /\ Code(in, 1) = Ok(table.version)
  BY <1>5, <1>12, CodeOf
<1>16. Get(in, 2, KindArray).val.elems = elems
  <2>1. GoType(KindArray) = "elems" /\ Is(in.fields[2], "elems") /\ in.fields[2].elems = elems
    BY <1>12 DEF GoType, KindArray, Is
  <2> QED
    BY <1>12, <2>1 DEF Get, Ok
<1>17. ParseEntries(elems) = Ok(entries)
  BY <1>4, <1>5, <1>9, EntriesParsed DEF elems
<1>18. DOMAIN q = 1..3 /\ q[1] = Ok(table.describes) /\ q[2] = Ok(table.version) /\ q[3] = Ok(entries)
  BY <1>15, <1>16, <1>17
<1> HIDE DEF q
<1>19. \A i \in 1..3 : q[i].err = "none"
  <2>1. \A i \in 1..3 : i = 1 \/ i = 2 \/ i = 3
    OBVIOUS
  <2>2. \A y : Ok(y).err = "none"
    BY DEF Ok
  <2> QED
    BY ONLY <1>18, <2>1, <2>2
<1>20. All(q) = Ok(x)
  BY ONLY <1>18, <1>19, AllGood
<1>21. x[1] = table.describes /\ x[2] = table.version /\ x[3] = entries
  <2>1. \A i \in 1..3 : x[i] = q[i].val
    BY ONLY <1>18, ValuesFacts
  <2>2. 1 \in 1..3 /\ 2 \in 1..3 /\ 3 \in 1..3
    OBVIOUS
  <2>3. \A y : Ok(y).val = y
    BY DEF Ok
  <2> QED
    BY ONLY <1>18, <2>1, <2>2, <2>3
<1> HIDE DEF x
<1>22. TableOf(in) = Ok([describes |-> x[1], version |-> x[2], entries |-> x[3]])
  BY <1>14, <1>20 DEF Then, Ok
<1>23. TableOf(in) = Ok(table)
  BY ONLY <1>5, <1>21, <1>22
<1> QED
  BY <1>13, <1>23 DEF a
-----------------------------------------------------------------------------
(***************************************************************************)
(* Every held table comes back.                                            *)
(***************************************************************************)
\* forest has the names of the floor, and the artifacts of the tables that can be
\* spelled out with the names it has.
Writes(forest) ==
  /\ WritesTypes
  /\ \A t \in Floor : \A i \in DOMAIN t.entries : t.entries[i].name \in NamesIn(forest)
  /\ \A t : Writable(t, NamesIn(forest)) => TableArtifact(t) \in forest

\* Beyond TablesInv, an artifact can spell out every table that is held.
WritableInv(names) ==
  /\ TablesInv
  /\ \A k \in DOMAIN reg : Writable(reg[k], names)

\* The codes in the types of the floor are ints.
LEMMA FloorTypesCoded ==
  ASSUME 7 < IntHalf
  PROVE  FloorTypes \subseteq CodedTypes
<1>1. Coded(0) /\ Coded(1) /\ Coded(2) /\ Coded(6) /\ Coded(7)
  BY SmallCoded, NativeAssumption
<1>2. ASSUME NEW kind \in {0, 2, 6, 7}, NEW ref \in {0, 1, 2}
      PROVE  CodedLevel(Level(kind, ref, 0))
  BY <1>1 DEF CodedLevel, Level
<1>3. ASSUME NEW l, CodedLevel(l), <<l>> \in SoundTypes PROVE <<l>> \in CodedTypes
  <2>1. DOMAIN <<l>> = {1} /\ <<l>>[1] = l
    OBVIOUS
  <2> QED
    BY <1>3, <2>1 DEF CodedTypes
<1>4. Scalar(0) \in CodedTypes /\ Scalar(2) \in CodedTypes
  BY <1>2, <1>3, FloorTypesSound DEF Scalar, FloorTypes
<1>5. Ref(1) \in CodedTypes /\ Ref(2) \in CodedTypes
  BY <1>2, <1>3, FloorTypesSound DEF Ref, FloorTypes, KindRef
<1>6. ArrayOf(Ref(1)) \in CodedTypes
  <2> DEFINE l == Level(KindArray, 0, 0)
             td == Ref(1)
  <2>1. l \in Levels /\ CodedLevel(l)
    BY <1>2 DEF Level, Levels, KindArray
  <2>2. ArrayOf(td) = <<l>> \o td /\ ArrayOf(td) \in SoundTypes
    BY FloorArray DEF ArrayOf
  <2> HIDE DEF l, td
  <2>3. \A i \in DOMAIN (<<l>> \o td) : CodedLevel((<<l>> \o td)[i])
    BY <1>5, <2>1, CodedOver DEF td
  <2>4. ArrayOf(td) \in CodedTypes
    BY <2>2, <2>3 DEF CodedTypes
  <2> QED
    BY <2>4 DEF td
<1> QED
  BY <1>4, <1>5, <1>6 DEF FloorTypes

\* The floor can be spelled out.
LEMMA FloorWritable ==
  ASSUME 7 < IntHalf, NEW names, NEW t \in Floor,
         \A i \in DOMAIN t.entries : t.entries[i].name \in names
  PROVE  Writable(t, names)
<1>1. /\ t = [describes |-> t.describes, version |-> t.version, entries |-> t.entries]
      /\ t.describes \in {0, 1, 2} /\ t.version = 1
  BY DEF Floor, MetaTable, EntryTable, TypeDescriptorTable
<1>2. Coded(0) /\ Coded(1) /\ Coded(2) /\ Coded(3)
  BY SmallCoded, NativeAssumption
<1>3. PICK n \in {3, 4} : DOMAIN t.entries = 1..n
  BY FloorTables DEF Floor
<1>4. SoundTable(t) /\ \A i \in 1..n : t.entries[i].type \in FloorTypes
  BY <1>3, FloorTables
<1>5. t.entries # <<>> /\ \A i \in 1..n : t.entries[i].key = i - 1
  BY <1>3, <1>4 DEF SoundTable
<1>6. t.entries = [i \in 1..n |-> t.entries[i]]
  BY <1>3 DEF Floor, MetaTable, EntryTable, TypeDescriptorTable
<1> DEFINE Made(e) == /\ e = Entry(e.key, e.name, e.type, e.presence)
                      /\ e.presence \in {Optional, Required}
<1>7. \A i \in 1..n : Made(t.entries[i])
  <2>1. \A k, name, type : \A presence \in {Optional, Required} : Made(Entry(k, name, type, presence))
    BY DEF Entry
  <2>2. Optional \in {Optional, Required} /\ Required \in {Optional, Required}
    OBVIOUS
  <2>3. \A i \in 1..4 : i = 1 \/ i = 2 \/ i = 3 \/ i = 4
    OBVIOUS
  <2> HIDE DEF Made
  <2>4. Made(MetaTable.entries[1]) /\ Made(MetaTable.entries[2]) /\ Made(MetaTable.entries[3])
    BY <2>1, <2>2 DEF MetaTable
  <2>5. /\ Made(EntryTable.entries[1]) /\ Made(EntryTable.entries[2])
        /\ Made(EntryTable.entries[3]) /\ Made(EntryTable.entries[4])
    BY <2>1, <2>2 DEF EntryTable
  <2>6. /\ Made(TypeDescriptorTable.entries[1]) /\ Made(TypeDescriptorTable.entries[2])
        /\ Made(TypeDescriptorTable.entries[3]) /\ Made(TypeDescriptorTable.entries[4])
    BY <2>1, <2>2 DEF TypeDescriptorTable
  <2>a. 1..3 # 1..4
    <3>1. 4 \in 1..4 /\ 4 \notin 1..3
      OBVIOUS
    <3> QED
      BY ONLY <3>1
  <2>7. CASE t = MetaTable
    <3>1. DOMAIN MetaTable.entries = 1..3
      BY FloorTables
    <3>2. n = 3
      BY ONLY <1>3, <2>a, <2>7, <3>1
    <3>3. \A i \in 1..3 : i = 1 \/ i = 2 \/ i = 3
      OBVIOUS
    <3> QED
      BY ONLY <2>4, <2>7, <3>2, <3>3
  <2>8. CASE t = EntryTable
    <3>1. DOMAIN EntryTable.entries = 1..4
      BY FloorTables
    <3>2. n = 4
      BY ONLY <1>3, <2>a, <2>8, <3>1
    <3> QED
      BY ONLY <2>3, <2>5, <2>8, <3>2
  <2>9. CASE t = TypeDescriptorTable
    <3>1. DOMAIN TypeDescriptorTable.entries = 1..4
      BY FloorTables
    <3>2. n = 4
      BY ONLY <1>3, <2>a, <2>9, <3>1
    <3> QED
      BY ONLY <2>3, <2>6, <2>9, <3>2
  <2> QED
    BY <2>7, <2>8, <2>9 DEF Floor
<1>8. \A i \in 1..n : WritableEntry(t.entries[i], names)
  <2> TAKE i \in 1..n
  <2>1. t.entries[i].key \in {0, 1, 2, 3}
    BY <1>5
  <2>2. Coded(t.entries[i].key) /\ Coded(t.entries[i].presence)
    BY <1>2, <1>7, <2>1 DEF Optional, Required
  <2>3. t.entries[i].type \in CodedTypes
    BY <1>4, FloorTypesCoded
  <2>4. t.entries[i].name \in names
    BY <1>3
  <2> QED
    BY <1>7, <2>2, <2>3, <2>4 DEF WritableEntry
<1> QED
  BY <1>1, <1>2, <1>3, <1>5, <1>6, <1>8 DEF Writable

\* A fresh node can spell out its tables.
LEMMA WritableInit ==
  ASSUME 7 < IntHalf, NEW forest, Writes(forest), Init
  PROVE  WritableInv(NamesIn(forest))
<1>1. \A k \in DOMAIN reg : reg[k] \in Floor
  BY FloorHeld DEF Init, Floor
<1>2. \A t \in Floor : Writable(t, NamesIn(forest))
  BY FloorWritable DEF Writes
<1> QED
  BY <1>1, <1>2, TablesInit DEF WritableInv

\* A step adds tables that an artifact spelled out.
LEMMA WritableStep ==
  ASSUME NEW forest, NEW height, Trees(forest, height), Tied(forest), TableArtifacts \subseteq forest,
         WritableInv(NamesIn(forest)), [Next]_vars
  PROVE  WritableInv(NamesIn(forest))'
<1>1. TablesInv'
  BY TablesStep DEF WritableInv
<1>2. CASE UNCHANGED reg
  BY <1>1, <1>2 DEF WritableInv
<1>3. ASSUME NEW a \in TableArtifacts,
             ParseFieldTable(a, reg).err = "none", Add(ParseFieldTable(a, reg).val)
      PROVE  WritableInv(NamesIn(forest))'
  <2> DEFINE t == ParseFieldTable(a, reg).val
  <2>1. ParseFieldTable(a, reg) = ParseFieldTable(a, DefaultRegistry)
    BY ParsesAlike DEF WritableInv, TablesInv, FloorStays
  <2>2. Writable(t, NamesIn(forest))
    BY <1>3, <2>1, ParsedIsWritable
  <2> HIDE DEF t
  <2>3. \A k \in DOMAIN reg' :
          (k \in DOMAIN reg /\ reg'[k] = reg[k]) \/ (k = RegKey(t) /\ reg'[k] = t)
    BY <1>3, AddFacts DEF t
  <2> QED
    BY <1>1, <2>2, <2>3 DEF WritableInv
<1> QED
  BY <1>2, <1>3, RegistrySteps

\* Whatever a node has loaded, each table it holds, the floor first of all,
\* written as an artifact and given to ParseFieldTable again is that table:
\* nothing of a descriptor, however deep, an entry or a table is lost, widened
\* or refused on the way back.  An int reaches further than 7, the last kind.
THEOREM TablesComeBack ==
  ASSUME 7 < IntHalf,
         NEW forest, NEW height, Trees(forest, height), Tied(forest), TableArtifacts \subseteq forest,
         Writes(forest)
  PROVE  Spec => []TablesReload
<1> DEFINE Inv == WritableInv(NamesIn(forest))
<1>1. Init => Inv
  BY WritableInit
<1>2. Inv /\ [Next]_vars => Inv'
  BY WritableStep
<1>3. ASSUME Inv, NEW k \in DOMAIN reg
      PROVE  ParseFieldTable(TableArtifact(reg[k]), reg) = Ok(reg[k])
  <2> DEFINE t == reg[k]
             a == TableArtifact(t)
  <2>1. Writable(t, NamesIn(forest))
    BY <1>3 DEF WritableInv
  <2> HIDE DEF t
  <2>2. a \in forest
    BY <2>1 DEF Writes
  <2>3. 3 < IntHalf /\ WritesTypes
    BY NativeAssumption DEF Writes
  <2>4. ParseFieldTable(a, DefaultRegistry) = Ok(t)
    BY <2>1, <2>2, <2>3, TableComesBack
  <2>5. ParseFieldTable(a, reg) = ParseFieldTable(a, DefaultRegistry)
    BY <1>3, <2>2, ParsesAlike DEF WritableInv, TablesInv, FloorStays
  <2> QED
    BY <2>4, <2>5 DEF t
<1>4. Inv => TablesReload
  BY <1>3 DEF TablesReload
<1> HIDE DEF Inv
<1> QED
  BY <1>1, <1>2, <1>4, PTL DEF Spec
=============================================================================
