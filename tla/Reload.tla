------------------------------- MODULE Reload -------------------------------
(***************************************************************************)
(* Tables and the artifacts they are written as.  A type descriptor is     *)
(* written as deep as it is.                                               *)
(***************************************************************************)
EXTENDS Faithful

CONSTANT NestedArtifact(_)   \* TypeArtifact, where it is asked of an inner type

\* The artifact that a table is written as.
Pair(key, val) == [key |-> [int |-> key], val |-> val]
Optionally(given, key, val) == IF given THEN <<Pair(key, val)>> ELSE <<>>
TypeArtifact(td) ==
  LET top == td[1]
  IN  [entries |-> <<Pair(0, [int |-> top.kind])>>
         \o Optionally(Len(td) > 1, 1, NestedArtifact(Tail(td)))
         \o Optionally(top.kind = KindRef \/ top.ref # 0, 2, [int |-> top.ref])
         \o Optionally(top.kind \in {KindDecimal, KindRational} \/ top.unit # 0,
                       3, [int |-> top.unit])]
EntryArtifact(e) ==
  [entries |-> <<Pair(0, [int |-> e.key]), Pair(1, [text |-> e.name]),
                 Pair(2, TypeArtifact(e.type)), Pair(3, [int |-> e.presence])>>]
TableArtifact(t) ==
  [entries |-> <<Pair(0, [int |-> t.describes]), Pair(1, [int |-> t.version]),
                 Pair(2, [items |-> [i \in DOMAIN t.entries |-> EntryArtifact(t.entries[i])]])>>]

\* Every held table, the floor first of all, written as an artifact and parsed
\* again is the same table: the floor is a fixed point.
TablesReload ==
  \A k \in DOMAIN reg : ParseFieldTable(TableArtifact(reg[k]), reg) = Ok(reg[k])
=============================================================================
