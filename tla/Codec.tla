------------------------------- MODULE Codec -------------------------------
(***************************************************************************)
(* The decoder and the encoder of package cbor side by side: the value     *)
(* that Decode returns, and what Encode makes of it.                       *)
(***************************************************************************)
EXTENDS Decoder, Encoder

\* The Go value that item returns for v; f has those of the elements of v.
Built(v, f) ==
  CASE v.m = 0 -> [int |-> v.arg]
    [] v.m = 1 -> [int |-> -(v.arg + 1)]
    [] v.m = 2 -> [bytes |-> Slice(v.body, v.end)]
    [] v.m = 3 -> [text |-> Slice(v.body, v.end)]
    [] v.m = 7 -> [bool |-> v.arg = SimpleTrue]
    [] v.m = 4 -> [items |-> [j \in 1..Len(v.kids) |-> f[v.kids[j]]]]
    [] v.m = 5 -> [entries |-> [j \in 1..Len(v.kids) \div 2 |->
                     [key |-> f[v.kids[2 * j - 1]], val |-> f[v.kids[2 * j]]]]]

\* The values of the entries of out.
Decoded[i \in 1..Len(out)] == Built(out[i], Decoded)

Result == Decoded[Len(out)]

\* Whatever Decode accepts, encoding the value it returned gives the input
\* back, byte for byte: no input other than the canonical form is accepted,
\* so equal values have equal bytes and content identifiers.
AcceptedReencodes ==
  outcome.kind = "value" => Encode(Result) = Done(data)
=============================================================================
