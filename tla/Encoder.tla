------------------------------ MODULE Encoder ------------------------------
(***************************************************************************)
(* cbor.Encode: the one canonical byte form of a value.                    *)
(***************************************************************************)
EXTENDS Wire, CborValue, SequencesExt

CONSTANT NestedEncode(_, _)   \* encodeSub and encoder.value, where they are
                              \* called on an inner value: EncValue

\* A finished encoder: an error, or the bytes.
Done(buf) == [err |-> "none", buf |-> buf]
Fail(err) == [err |-> err, buf |-> <<>>]

\* head \o parts, unless one of the parts failed: then its error.
Join(head, parts) ==
  LET bad == {i \in DOMAIN parts : parts[i].err # "none"}
  IN  IF bad = {}
      THEN Done(head \o FlattenSeq([i \in DOMAIN parts |-> parts[i].buf]))
      ELSE Fail(parts[Min(bad)].err)

\* encoder.integer: arguments stop at 2^64 on both sides of zero.
EncInteger(n) ==
  CASE n >= Word     -> Fail("above-range")
    [] -1 - n >= Word -> Fail("below-range")
    [] OTHER -> Done(IF n >= 0 THEN EncHead(0, n) ELSE EncHead(1, -1 - n))

\* encoder.intPair: the wire shape [x, y] that decimals and rationals share.
EncIntPair(x, y, depth) ==
  IF depth + 1 > MaxDepth THEN Fail("depth")
  ELSE Join(EncHead(4, 2), <<EncInteger(x), EncInteger(y)>>)

\* The first error among the keys' types, as the loop of mapValue meets them.
KeyTypeError(entries, i) ==
  LET key == entries[i].key
  IN  CASE ~Is(key, "int") /\ ~Is(key, "text") -> "key-type"
        [] Is(key, "int") \/ Is(key, "text") ->
             IF IsTextKey(key) = IsTextKey(entries[1].key) THEN "none" ELSE "mixed-keys"

KeyLess(p, q) == BytesLess(p.key, q.key)
SortPairsMut(pairs) == pairs

\* sort.SliceStable: a pair comes after those with a lesser key, and those that
\* came before it with the same.
Precedes(pairs, j, i) ==
  KeyLess(pairs[j], pairs[i]) \/ (pairs[j].key = pairs[i].key /\ j < i)
Place(pairs, i) == Cardinality({j \in DOMAIN pairs : Precedes(pairs, j, i)}) + 1
SortPairs(pairs) ==
  [k \in DOMAIN pairs |-> pairs[CHOOSE i \in DOMAIN pairs : Place(pairs, i) = k]]

\* encodeSub on the key and the value of the i-th entry.
EncEntry(entries, i, depth) ==
  LET key == NestedEncode(entries[i].key, depth + 1)
      val == NestedEncode(entries[i].val, depth + 1)
      err == IF KeyTypeError(entries, i) # "none" THEN KeyTypeError(entries, i)
             ELSE IF key.err # "none" THEN key.err ELSE val.err
  IN  [err |-> err, key |-> key.buf, buf |-> key.buf \o val.buf]

\* encoder.mapValue: sort on the encoded keys, then refuse equal neighbours.
EncMap(entries, depth) ==
  LET pairs  == [i \in DOMAIN entries |-> EncEntry(entries, i, depth)]
      sorted == SortPairs(pairs)
      failed == \E i \in DOMAIN pairs : pairs[i].err # "none"
  IN  IF ~failed /\ \E i \in 1..Len(sorted) - 1 : sorted[i].key = sorted[i + 1].key
      THEN Fail("duplicate-key")
      ELSE Join(EncHead(5, Len(pairs)), IF failed THEN pairs ELSE sorted)

\* encoder.value: the depth check and the type switch.
EncValue(v, depth) ==
  LET shallow == depth <= MaxDepth
  IN  CASE ~shallow -> Fail("depth")
        [] shallow /\ Is(v, "int")   -> EncInteger(v.int)
        [] shallow /\ Is(v, "bytes") -> Done(EncHead(2, Len(v.bytes)) \o v.bytes)
        [] shallow /\ Is(v, "text")  ->
             IF TextReason(v.text) # "none" THEN Fail(TextReason(v.text))
             ELSE Done(EncHead(3, Len(v.text)) \o v.text)
        [] shallow /\ Is(v, "bool")  ->
             Done(<<HeadByte(7, IF v.bool THEN SimpleTrue ELSE SimpleFalse)>>)
        [] shallow /\ Is(v, "items") ->
             Join(EncHead(4, Len(v.items)),
                  [i \in DOMAIN v.items |-> NestedEncode(v.items[i], depth + 1)])
        [] shallow /\ Is(v, "entries") -> EncMap(v.entries, depth)
        [] shallow /\ Is(v, "mantissa") ->
             IF DecimalReason(v.scale, v.mantissa) # "none"
             THEN Fail(DecimalReason(v.scale, v.mantissa))
             ELSE EncIntPair(v.scale, v.mantissa, depth)
        [] shallow /\ Is(v, "den") ->
             IF RationalReason(v.num, v.den) # "none"
             THEN Fail(RationalReason(v.num, v.den))
             ELSE EncIntPair(v.num, v.den, depth)
        [] OTHER -> Fail("unknown-type")

Encode(v) == EncValue(v, 0)
Encodable(v) == Encode(v).err = "none"
=============================================================================
