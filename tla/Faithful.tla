------------------------------ MODULE Faithful ------------------------------
(***************************************************************************)
(* What the interpretation of an artifact has to do with what the artifact *)
(* says, for values of any depth.                                          *)
(***************************************************************************)
EXTENDS Node, LogicalValue

CONSTANTS
  NestedFits(_, _, _, _),   \* Fits and Meaning, where they are asked of
  NestedMeaning(_)          \* an inner value

\* A value fits a type, at one version of the tables.
FitsTable(table, v, tables, version) ==
  /\ Is(v, "entries")
  /\ \A i \in DOMAIN v.entries : \E j \in DOMAIN table.entries :
       /\ v.entries[i].key = [int |-> table.entries[j].key]
       /\ NestedFits(table.entries[j].type, v.entries[i].val, tables, version)

FitsMagnitude(kind, x, y) ==
  IF kind = KindDecimal
  THEN <<x, y>> = <<0, 0>> \/ y % 10 # 0
  ELSE y > 0 /\ \A d \in 2..y : x % d # 0 \/ y % d # 0

Fits(td, v, tables, version) ==
  LET kind == KindOf(td)
      of   == Tail(td)
      ref  == <<td[1].ref, version>>
  IN  \/ kind = 0 /\ Is(v, "int")
      \/ kind = 1 /\ Is(v, "bytes")
      \/ kind = 2 /\ Is(v, "text")
      \/ kind = 3 /\ Is(v, "bool")
      \/ /\ kind \in {KindDecimal, KindRational}
         /\ Is(v, "items") /\ Len(v.items) = 2
         /\ \A i \in 1..2 : Is(v.items[i], "int")
         /\ FitsMagnitude(kind, v.items[1].int, v.items[2].int)
      \/ /\ kind = KindArray /\ of # <<>> /\ Is(v, "items")
         /\ \A i \in DOMAIN v.items : NestedFits(of, v.items[i], tables, version)
      \/ /\ kind = KindRef /\ ref \in DOMAIN tables
         /\ FitsTable(tables[ref], v, tables, version)

\* What an interpreted value says, in the terms of Logical.
Meaning(x) ==
  LET field(k) == <<[int |-> k], NestedMeaning(x.fields[k])>>
  IN  CASE Is(x, "fields") -> [map |-> {field(k) : k \in DOMAIN x.fields}]
        [] Is(x, "elems")  -> [seq |-> [i \in DOMAIN x.elems |-> NestedMeaning(x.elems[i])]]
        [] OTHER           -> Logical(x)

\* Interpret accepts exactly the artifacts that fit the table, at one version
\* throughout, and the instance says what the artifact says: no field is lost,
\* renamed or invented.
InterpretIsFaithful ==
  \A k \in DOMAIN reg, a \in Artifacts :
    LET in == Interpret(reg[k], a, reg)
    IN  /\ in.err = "none" <=> FitsTable(reg[k], a, reg, k[2])
        /\ in.err = "none" => Meaning(in.val) = Logical(a)
=============================================================================
