----------------------------- MODULE TaggedJson -----------------------------
(***************************************************************************)
(* The tagged JSON of a conformance vector and the cbor.Value it stands    *)
(* for.                                                                    *)
(*                                                                         *)
(* A JSON value, as encoding/json hands it over, is a record whose field   *)
(* names tell its type: an integer literal [num], any other number [frac], *)
(* a string [str] or, when it spells bytes in hex, [str, hex], a boolean   *)
(* [bool], an array [arr], an object [obj], null or an absent value [null]. *)
(* The fields [k, v] of an object stand in the order in which Go ranges    *)
(* over them, which may be any: Orders gives them all.                     *)
(***************************************************************************)
EXTENDS CborValue, Results, SequencesExt

CONSTANTS
  Dollar,   \* the byte "$"
  Tags      \* from the keys "$bytes", "$decimal", ... to what they tag

RECURSIVE Walk(_), Orders(_)

IsTagKey(k) == k # <<>> /\ k[1] = Dollar

\* twoInts.
IsIntPair(x) == Is(x, "arr") /\ Len(x.arr) = 2 /\ Is(x.arr[1], "num") /\ Is(x.arr[2], "num")

WalkPair(p) ==
  IF Is(p, "arr") /\ Len(p.arr) = 2
  THEN Then(All(<<Walk(p.arr[1]), Walk(p.arr[2])>>), LAMBDA kv : Ok([key |-> kv[1], val |-> kv[2]]))
  ELSE Bad("not-a-pair")
MapOf(entries) == Ok([entries |-> entries])
WalkMapPairs(x) ==
  IF Is(x, "arr") THEN Then(All([i \in DOMAIN x.arr |-> WalkPair(x.arr[i])]), MapOf)
  ELSE Bad("not-pairs")

WalkTag(tag, x) ==
  CASE tag = "$bytes" /\ Is(x, "hex")       -> Ok([bytes |-> x.hex])
    [] tag = "$decimal" /\ IsIntPair(x)  -> Ok([scale |-> x.arr[1].num, mantissa |-> x.arr[2].num])
    [] tag = "$rational" /\ IsIntPair(x) -> Ok([num |-> x.arr[1].num, den |-> x.arr[2].num])
    [] tag = "$map"                      -> WalkMapPairs(x)
    [] OTHER                             -> Bad("bad-tag")

WalkFieldMut(f) == Then(Walk(f.v), LAMBDA val : Ok([key |-> [text |-> f.k], val |-> val]))

\* A turn of the loop over a plain object: no key may look like a tag.
WalkField(f) ==
  IF IsTagKey(f.k) THEN Bad("stray-tag")
  ELSE Then(Walk(f.v), LAMBDA val : Ok([key |-> [text |-> f.k], val |-> val]))
WalkObject(fields) ==
  IF Len(fields) = 1 /\ IsTagKey(fields[1].k)
  THEN WalkTag(IF fields[1].k \in DOMAIN Tags THEN Tags[fields[1].k] ELSE "unknown", fields[1].v)
  ELSE Then(All([i \in DOMAIN fields |-> WalkField(fields[i])]), MapOf)

Walk(x) ==
  CASE Is(x, "num")  -> Ok([int |-> x.num])
    [] Is(x, "str")  -> Ok([text |-> x.str])
    [] Is(x, "bool") -> Ok([bool |-> x.bool])
    [] Is(x, "arr")  -> Then(All([i \in DOMAIN x.arr |-> Walk(x.arr[i])]),
                             LAMBDA items : Ok([items |-> items]))
    [] Is(x, "obj")  -> WalkObject(x.obj)
    [] OTHER         -> Bad("no-canonical-form")

\* The sequences with one member of each set.
Picks(sets) ==
  FoldLeft(LAMBDA chosen, S : {Append(c, x) : c \in chosen, x \in S}, {<<>>}, sets)

\* Go ranges over the fields of an object in any order, each time anew.
Orders(x) ==
  CASE Is(x, "arr") -> {[arr |-> c] : c \in Picks([i \in DOMAIN x.arr |-> Orders(x.arr[i])])}
    [] Is(x, "obj") ->
         {[obj |-> [i \in DOMAIN c |-> [k |-> x.obj[p[i]].k, v |-> c[p[i]]]]] :
            c \in Picks([i \in DOMAIN x.obj |-> Orders(x.obj[i].v)]),
            p \in Permutations(DOMAIN x.obj)}
    [] OTHER        -> {x}
=============================================================================
