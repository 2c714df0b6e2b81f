------------------------------- MODULE Schema -------------------------------
(***************************************************************************)
(* Package schema: field tables, their interpretation of a decoded value,  *)
(* and the loading of a table from its own artifact.                       *)
(*                                                                         *)
(* A field table is [describes, version, entries], an entry is             *)
(* [key, name, type, presence].  A type descriptor with its Of, and the Of *)
(* of that, is the sequence of their levels [kind, ref, unit].             *)
(* A Registry is a function from <<artifact type, version>> to tables.     *)
(* An Instance is [table, version, fields] with fields a function from the *)
(* wire keys that are present, and an interpreted array is [elems].        *)
(* The path and the message of an Error are diagnostics and left out.      *)
(***************************************************************************)
EXTENDS CborValue, Results

CONSTANTS
  IntHalf,     \* one past the largest native int
  LongHalf,    \* 2^63, one past the largest int64
  NestedValue(_, _, _, _),   \* interpretValue, where it is called on an inner value
  NestedType(_)              \* parseTypeDescriptor, where it calls itself

ASSUME NativeAssumption == IntHalf \in Nat \ {0} /\ LongHalf \in Nat /\ IntHalf <= LongHalf

IsInt64(n) == -LongHalf <= n /\ n < LongHalf
NativeInt(n) == ((n + IntHalf) % (2 * IntHalf)) - IntHalf
-----------------------------------------------------------------------------
(***************************************************************************)
(* Tables, and the floor closure that every node holds.                    *)
(***************************************************************************)
ScalarKinds == 0..3
KindDecimal == 4
KindRational == 5
KindArray == 6
KindRef == 7
Kinds == 0..7
Optional == 0
Required == 1

Level(kind, ref, unit) == [kind |-> kind, ref |-> ref, unit |-> unit]
Scalar(k) == <<Level(k, 0, 0)>>
Ref(t) == <<Level(KindRef, t, 0)>>
ArrayOf(elem) == <<Level(KindArray, 0, 0)>> \o elem
KindOf(td) == td[1].kind

Entry(key, name, type, presence) ==
  [key |-> key, name |-> name, type |-> type, presence |-> presence]

MetaTable ==
  [describes |-> 0, version |-> 1, entries |->
     <<Entry(0, "describes", Scalar(0), Required),
       Entry(1, "version", Scalar(0), Required),
       Entry(2, "entries", ArrayOf(Ref(1)), Required)>>]
EntryTable ==
  [describes |-> 1, version |-> 1, entries |->
     <<Entry(0, "key", Scalar(0), Required),
       Entry(1, "name", Scalar(2), Required),
       Entry(2, "type", Ref(2), Required),
       Entry(3, "presence", Scalar(0), Required)>>]
TypeDescriptorTableMut ==
  [describes |-> 2, version |-> 1, entries |->
     <<Entry(0, "kind", Scalar(0), Required),
       Entry(1, "of", Scalar(0), Optional),
       Entry(2, "ref", Scalar(0), Optional),
       Entry(3, "unit", Scalar(0), Optional)>>]
TypeDescriptorTable ==
  [describes |-> 2, version |-> 1, entries |->
     <<Entry(0, "kind", Scalar(0), Required),
       Entry(1, "of", Ref(2), Optional),
       Entry(2, "ref", Scalar(0), Optional),
       Entry(3, "unit", Scalar(0), Optional)>>]
Floor == {MetaTable, EntryTable, TypeDescriptorTable}

RegKey(t) == <<t.describes, t.version>>
DefaultRegistry == [k \in {RegKey(t) : t \in Floor} |-> CHOOSE t \in Floor : RegKey(t) = k]

\* Where the entries are that a wire key may name; entryByKey takes the first.
Named(table, key) == {i \in DOMAIN table.entries : table.entries[i].key = key}
EntryByKey(table, key) == table.entries[Min(Named(table, key))]
RequiredKeys(table) ==
  {table.entries[i].key : i \in {i \in DOMAIN table.entries : table.entries[i].presence = Required}}
-----------------------------------------------------------------------------
(***************************************************************************)
(* Interpret.                                                              *)
(***************************************************************************)
ScalarField(kind) == <<"int", "bytes", "text", "bool">>[kind + 1]

\* twoInts, and the canonical form that the kind asks for.
Magnitude(kind, x, y) ==
  CASE kind = KindDecimal ->
         IF DecimalReason(x, y) = "none" THEN Ok([scale |-> x, mantissa |-> y])
         ELSE Bad("non-canonical-decimal")
    [] kind = KindRational ->
         IF RationalReason(x, y) = "none" THEN Ok([num |-> x, den |-> y])
         ELSE Bad("non-canonical-rational")
InterpretMagnitudeMut(kind, v) ==
  IF ~Is(v, "items") \/ Len(v.items) # 2 \/ \E i \in DOMAIN v.items : ~Is(v.items[i], "int")
  THEN Bad("bad-magnitude")
  ELSE Then(Magnitude(kind, v.items[1].int, v.items[2].int), LAMBDA x : Ok(v))
InterpretMagnitude(kind, v) ==
  IF ~Is(v, "items") \/ Len(v.items) # 2 \/ \E i \in DOMAIN v.items : ~Is(v.items[i], "int")
  THEN Bad("bad-magnitude")
  ELSE Magnitude(kind, v.items[1].int, v.items[2].int)

Elements(vals) == Ok([elems |-> vals])
InterpretArray(of, items, reg, version) ==
  IF of = <<>> THEN Bad("malformed-type-descriptor")
  ELSE Then(All([i \in DOMAIN items |-> NestedValue(of, items[i], reg, version)]), Elements)

\* One turn of the loop of interpretMap, with the key in the width of an int.
InterpretField(table, key, val, reg, version) ==
  IF Named(table, key) = {} THEN Bad("unknown-field-key")
  ELSE Then(NestedValue(EntryByKey(table, key).type, val, reg, version),
            LAMBDA x : Ok([key |-> key, val |-> x]))
InterpretEntry(table, e, reg, version) ==
  CASE ~Is(e.key, "int") -> Bad("bad-field-key")
    [] Is(e.key, "int") /\ ~IsInt64(e.key.int) -> Bad("unknown-field-key")
    [] OTHER -> InterpretField(table, NativeInt(e.key.int), e.val, reg, version)

\* fields[key] = val, over and over: the last one stays.
FieldsOf(pairs) ==
  [k \in {pairs[i].key : i \in DOMAIN pairs} |->
     pairs[Max({i \in DOMAIN pairs : pairs[i].key = k})].val]

InterpretMap(table, v, reg, version) ==
  IF ~Is(v, "entries") THEN Bad("type-mismatch")
  ELSE Then(All([i \in DOMAIN v.entries |-> InterpretEntry(table, v.entries[i], reg, version)]),
            LAMBDA pairs : Ok([table |-> table, version |-> version, fields |-> FieldsOf(pairs)]))

InterpretValue(td, v, reg, version) ==
  LET kind == KindOf(td)
      key  == <<td[1].ref, version>>
  IN  CASE kind \in ScalarKinds ->
             IF Is(v, ScalarField(kind)) THEN Ok(v) ELSE Bad("type-mismatch")
        [] kind \in {KindDecimal, KindRational} -> InterpretMagnitude(kind, v)
        [] kind = KindArray ->
             IF Is(v, "items") THEN InterpretArray(Tail(td), v.items, reg, version)
             ELSE Bad("type-mismatch")
        [] kind = KindRef ->
             IF key \in DOMAIN reg THEN InterpretMap(reg[key], v, reg, version)
             ELSE Bad("unresolved-ref")
        [] OTHER -> Bad("unresolved-ref")

Interpret(table, v, reg) == InterpretMap(table, v, reg, table.version)

Has(in, key) == key \in DOMAIN in.fields

\* The accessors Int, Bytes, Text, Bool, Decimal, Rational, Array and Ref, which
\* look at the Go type of what is held under the key and not at the table.
GoType(kind) ==
  <<"int", "bytes", "text", "bool", "mantissa", "den", "elems", "fields">>[kind + 1]
Get(in, key, kind) ==
  IF Has(in, key) /\ Is(in.fields[key], GoType(kind)) THEN Ok(in.fields[key]) ELSE Bad("no-such-field")

\* The presence gate of the acting party.
RequireMut(in, keys) == IF \E k \in keys : Has(in, k) THEN "none" ELSE "missing-required-field"
Require(in, keys) == IF \A k \in keys : Has(in, k) THEN "none" ELSE "missing-required-field"
-----------------------------------------------------------------------------
(***************************************************************************)
(* ParseFieldTable.                                                        *)
(***************************************************************************)
\* toInt: nil, or too wide an integer.
Narrow(x) ==
  IF x.err = "none" /\ IsInt64(x.val.int) /\ NativeInt(x.val.int) = x.val.int
  THEN Ok(x.val.int) ELSE Bad("unresolved-ref")
Code(in, key) == Narrow(Get(in, key, 0))

\* Of the fields of (1), ref (2) and unit (3), those a known kind owns.
Owned(kind) ==
  CASE kind \in ScalarKinds                 -> {}
    [] kind = KindArray                     -> {1}
    [] kind = KindRef                       -> {2}
    [] kind \in {KindDecimal, KindRational} -> {3}

FieldsMatchKindMut(kind, present) == kind \in Kinds => present \subseteq Owned(kind)
FieldsMatchKind(kind, present) == kind \in Kinds => present = Owned(kind)

ParseOf(ti) ==
  IF ~Has(ti, 1) THEN Ok(<<>>)
  ELSE IF Get(ti, 1, KindRef).err # "none" THEN Bad("type-mismatch")
  ELSE NestedType(ti.fields[1])
OptionalCode(ti, key) == IF Has(ti, key) THEN Code(ti, key) ELSE Ok(0)

\* The descriptor of the values read for kind, of, ref and unit.
Descriptor(x, present) ==
  IF FieldsMatchKind(x[1], present)
  THEN Ok(<<Level(x[1], x[3], x[4])>> \o x[2])
  ELSE Bad("malformed-type-descriptor")
ParseTypeDescriptor(ti) ==
  LET present == {k \in 1..3 : Has(ti, k)}
  IN  IF ~Has(ti, 0) THEN Bad("malformed-type-descriptor")
      ELSE Then(All(<<Code(ti, 0), ParseOf(ti), OptionalCode(ti, 2), OptionalCode(ti, 3)>>),
                LAMBDA x : Descriptor(x, present))

ParseType(x) == IF x.err = "none" THEN ParseTypeDescriptor(x.val) ELSE Bad("type-mismatch")
ParseEntry(ei) ==
  IF \E k \in 0..3 : ~Has(ei, k) THEN Bad("malformed-entry")
  ELSE Then(All(<<Code(ei, 0), Code(ei, 3), ParseType(Get(ei, 2, KindRef))>>),
            LAMBDA x : Ok(Entry(x[1], Get(ei, 1, 2).val.text, x[3], x[2])))

\* validateEntryKeys: 0, 1, ..., n - 1 in order, and at least one.
ValidKeysMut(entries) == \A i \in DOMAIN entries : entries[i].key <= i - 1
ValidKeys(entries) == entries # <<>> /\ \A i \in DOMAIN entries : entries[i].key = i - 1

CheckedEntries(entries) ==
  IF ValidKeys(entries) THEN Ok(entries) ELSE Bad("malformed-field-table")
ParseEntries(elems) ==
  Then(All([i \in DOMAIN elems |->
              IF Is(elems[i], "fields") THEN ParseEntry(elems[i]) ELSE Bad("type-mismatch")]),
       CheckedEntries)

\* The table that an instance of MetaTable spells out.
TableOf(in) ==
  IF \E k \in 0..2 : ~Has(in, k) THEN Bad("malformed-field-table")
  ELSE Then(All(<<Code(in, 0), Code(in, 1), ParseEntries(Get(in, 2, KindArray).val.elems)>>),
            LAMBDA x : Ok([describes |-> x[1], version |-> x[2], entries |-> x[3]]))
ParseFieldTable(v, reg) == Then(Interpret(MetaTable, v, reg), TableOf)
=============================================================================
