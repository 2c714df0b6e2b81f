---------------------------- MODULE LogicalValue ----------------------------
(***************************************************************************)
(* What a cbor.Value says, apart from how it was written.                  *)
(***************************************************************************)
EXTENDS CborValue

CONSTANT NestedLogical(_)   \* Logical, where it is asked of an inner value

\* What a value means once its author's choices are gone: a map is the set of
\* its pairs, and a decimal or a rational is the pair it is written as.
Logical(v) ==
  LET IntPair(x, y) == [seq |-> <<[int |-> x], [int |-> y]>>]
  IN  CASE Is(v, "items")    -> [seq |-> [i \in DOMAIN v.items |-> NestedLogical(v.items[i])]]
        [] Is(v, "entries")  -> [map |-> {<<NestedLogical(v.entries[i].key),
                                            NestedLogical(v.entries[i].val)>> :
                                           i \in DOMAIN v.entries}]
        [] Is(v, "mantissa") -> IntPair(v.scale, v.mantissa)
        [] Is(v, "den")      -> IntPair(v.num, v.den)
        [] OTHER             -> v
=============================================================================
