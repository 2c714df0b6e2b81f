----------------------------- MODULE MCEnvelope -----------------------------
(***************************************************************************)
(* Two keys, and claims of every kind: maps and other values, within the   *)
(* limits and beyond them, and bytes that are not canonical.  Heads are as *)
(* in MCDecoder; what is canonical is what the encoder makes.  No claims   *)
(* announce a length at which Decode panics (see NoPanic of MCDecoder).    *)
(***************************************************************************)
EXTENDS Envelope, Encoder

MCWidths == <<1, 2, 3, 4>>
Int64Half == (96 ^ 4) \div 2
MCBOM == <<80, 81, 82>>
MCValidUTF8(s) == \A i \in 1..Len(s) : s[i] # 90
MCIsNFC(s) == \A i \in 1..Len(s) - 1 : <<s[i], s[i + 1]>> # <<5, 6>>

Map(f) == [entries |-> f]
Field(key, val) == [key |-> [int |-> key], val |-> val]
Whole(n) == [int |-> n]

SmallMaps == {Map(<<Field(0, [text |-> <<7>>])>>),
              Map(<<Field(1, Map(<<Field(0, [bool |-> TRUE])>>))>>)}

OtherSmall == {Whole(0), [items |-> <<Map(<<>>)>>]}

\* A map one level too deep for the encoder as for the decoder.
DeepMap == <<61, 0, 61, 0, 61, 0, 0>>
Attestable == {Encode(v).buf : v \in SmallMaps}
OtherValues == {Encode(v).buf : v \in OtherSmall}

\* Besides these: a map that is too deep, one with its keys out of order, and one
\* that announces a text longer than any input.
MCInputs == Attestable \cup OtherValues
            \cup {DeepMap, <<62, 1, 0, 0, 0>>, <<61, 0, 43, 1, 0, 0, 0>>}
MCKeys == {"alice", "bob"}

Promise == INSTANCE Attest WITH Claims <- Inputs

\* The package keeps its promise as long as Decode does not panic: seen from
\* outside, each call is one that is answered in one step, with a signature or a
\* verdict for the canonical maps within its limits; with the refusal that names
\* the fault for all other claims: no map, or not canonical within the limits; and
\* it is answered.
Attestation == Promise!Spec
=============================================================================
