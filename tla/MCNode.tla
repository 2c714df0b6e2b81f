------------------------------- MODULE MCNode -------------------------------
(***************************************************************************)
(* A node with a handful of tables: list (type 3) refers to item (type 4), *)
(* tree (type 5) to itself, and both have a second version.  An int64 ends *)
(* at 64, a wire integer at 128, and the native int at 64 or at 8.         *)
(***************************************************************************)
EXTENDS Reload

Table(describes, version, types) ==
  [describes |-> describes, version |-> version,
   entries |-> [i \in DOMAIN types |-> Entry(i - 1, <<100 + i>>, types[i], i % 2)]]
Unit(kind, unit) == <<Level(kind, 0, unit)>>

Item == Table(4, 1, <<Scalar(3), Unit(KindRational, 0)>>)
Item2 == Table(4, 2, <<Scalar(1), Ref(6)>>)
List == Table(3, 1, <<Scalar(0), Scalar(2), Unit(KindDecimal, 1), ArrayOf(Ref(4))>>)
List2 == Table(3, 2, <<Ref(4), ArrayOf(ArrayOf(Scalar(0)))>>)
Tree == Table(5, 1, <<Ref(4), ArrayOf(Ref(5))>>)
Future == Table(6, 2, <<<<Level(8, 3, 1)>> \o Scalar(0), Scalar(0)>>)
Rival == Table(4, 1, <<Scalar(0)>>)
NewFloor == Table(1, 1, <<Scalar(0), Scalar(0), Scalar(0), Scalar(0)>>)
NewTypes == Table(2, 2, <<Scalar(3)>>)
Strange == [Table(6, 1, <<Scalar(0)>>) EXCEPT !.entries[1].presence = 5]

\* Artifacts of malformed tables.
One(type) ==
  [entries |-> <<Pair(0, [int |-> 7]), Pair(1, [int |-> 1]), Pair(2, [items |-> <<
     [entries |-> <<Pair(0, [int |-> 0]), Pair(1, [text |-> <<1>>]), Pair(2, type),
                    Pair(3, [int |-> 0])>>]>>])>>]
Int0 == [int |-> 0]
BadTypes ==
  {[entries |-> <<>>],
   [entries |-> <<Pair(0, [int |-> 6])>>],
   [entries |-> <<Pair(0, [int |-> 7])>>],
   [entries |-> <<Pair(0, [int |-> 4])>>],
   [entries |-> <<Pair(0, Int0), Pair(3, Int0)>>],
   [entries |-> <<Pair(0, [int |-> 7]), Pair(2, Int0), Pair(3, Int0)>>],
   [entries |-> <<Pair(0, [int |-> 6]), Pair(1, [entries |-> <<Pair(0, [int |-> 6])>>])>>],
   [entries |-> <<Pair(0, [int |-> 70])>>],
   [entries |-> <<Pair(0, [int |-> 20]), Pair(2, [int |-> 100])>>],
   [entries |-> <<Pair(1, [entries |-> <<Pair(0, Int0)>>])>>],
   [entries |-> <<Pair(0, [bool |-> TRUE])>>], Int0}
Without(a, i) == [a EXCEPT !.entries = SelectSeq(@, LAMBDA e : e.key.int # i)]
Plain == EntryArtifact(Entry(0, <<1>>, Scalar(0), 0))
WithEntries(es) ==
  [entries |-> <<Pair(0, [int |-> 7]), Pair(1, [int |-> 1]), Pair(2, [items |-> es])>>]
BadEntries == {<<>>, <<Plain, Plain>>, <<Without(Plain, 0)>>, <<Without(Plain, 3), Int0>>,
               <<EntryArtifact(Entry(1, <<1>>, Scalar(0), 0))>>,
               <<EntryArtifact(Entry(-1, <<1>>, Scalar(0), 0))>>,
               <<Plain, EntryArtifact(Entry(2, <<1>>, Scalar(0), 0))>>,
               <<EntryArtifact(Entry(64, <<1>>, Scalar(0), 70))>>}
BadTables == {One(t) : t \in BadTypes} \cup {WithEntries(es) : es \in BadEntries}
             \cup {Without(WithEntries(<<Plain>>), i) : i \in 0..2} \cup {Int0}

MCTables == {TableArtifact(t) : t \in {Item, Item2, List, List2, Tree, Future, Rival,
                                       NewFloor, NewTypes, Strange}} \cup BadTables
FewTables == {TableArtifact(t) : t \in {Item, List, Tree, Rival, Item2}}

\* Artifacts: maps of up to two fields, in canonical key order.
Pairs(x, y) == [items |-> <<[int |-> x], [int |-> y]>>]
ItemOk == [entries |-> <<Pair(0, [bool |-> TRUE]), Pair(1, Pairs(1, 2))>>]
Leaf == [entries |-> <<Pair(1, [items |-> <<>>])>>]
Vals == {Int0, [bytes |-> <<>>], [text |-> <<7>>], [bool |-> FALSE], [items |-> <<>>],
         Pairs(0, 0), Pairs(0, 1), Pairs(3, 20), Pairs(4, 6), Pairs(2, 0), ItemOk,
         [items |-> <<ItemOk, [entries |-> <<Pair(0, Int0)>>]>>], [items |-> <<ItemOk>>],
         [items |-> <<Leaf, [entries |-> <<Pair(0, ItemOk), Pair(1, [items |-> <<Leaf>>])>>]>>],
         [items |-> <<[items |-> <<Int0>>], [items |-> <<>>]>>]}
Key(i) == <<[int |-> 0], [int |-> 1], [int |-> 2], [int |-> 3], [int |-> 16], [int |-> 64],
            [int |-> -1], [text |-> <<1>>]>>[i]
MCArtifacts ==
  {[entries |-> <<>>], Int0}
  \cup {[entries |-> <<[key |-> Key(i), val |-> v]>>] : i \in 1..8, v \in Vals}
  \cup {[entries |-> <<[key |-> Key(i), val |-> v], [key |-> Key(j), val |-> w]>>] :
          <<i, j>> \in {<<1, 2>>, <<1, 4>>, <<2, 3>>, <<2, 4>>, <<2, 7>>, <<3, 5>>, <<4, 8>>},
          v \in Vals, w \in {Pairs(2, 0), [items |-> <<ItemOk>>]}}
FewArtifacts ==
  {[entries |-> <<[key |-> Key(i), val |-> v]>>] : i \in 1..7, v \in Vals}
  \cup {[entries |-> <<Pair(0, Int0), [key |-> Key(i), val |-> v]>>] :
          i \in {2, 4, 5}, v \in {Int0, [text |-> <<7>>], [items |-> <<ItemOk>>], Pairs(3, 20)}}

MCTypes == {3, 4, 5}
MCVersions == {1, 2}
MCKeySets == {{0}, {1, 3}}
None == {}
=============================================================================
