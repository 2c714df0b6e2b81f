# Verification of murmur-go

murmur-go is the conformance oracle of the Murmur protocol: a strict codec for
canonical CBOR, a schema layer that reads decoded values under field tables, a
signed-envelope primitive, and a runner for the shared conformance vectors.
This directory holds TLA+ models of the codec, the schema layer, the envelope and
the runner, the TLC runs that check them, and proofs about the codec, the schema
layer and the envelope that TLAPS checks.

## 1. The system

The program is a library. It starts no goroutine, keeps no global state that
changes and persists nothing; what is hard in it is hard in sequence: a
recursive parser whose loops are bounded by numbers read from the wire, an
encoder and a decoder that must be exact inverses at every numeric edge,
verdicts that two implementations must agree on, and tables that are data read
by the code they then steer.

| Component | State | Operations | Talks to |
|---|---|---|---|
| Decoder, `cbor/decode.go` | `decoder{data, pos, items}`, the call stack (depth, the turn of each loop, `keysAreText`, `prevKey`) | `Decode` | called by envelope, conformance and users of schema |
| Encoder, `cbor/encode.go` | the output buffer | `Encode` | shares `validateText` with the decoder |
| Magnitudes, `cbor/canonical.go` | none | `CheckDecimal`, `CheckRational` | encoder, schema |
| Tables, `schema/table.go`, `floor.go` | `Registry.tables`, which only grows | `DefaultRegistry`, `Add` (panics on a duplicate), `Lookup`, `RequiredKeys` | interpreter, loader |
| Interpreter, `schema/interpret.go` | none; yields an `Instance` that lives on while the registry grows | `Interpret`, `Require`, accessors | registry, magnitudes |
| Loader, `schema/fieldtable.go` | none | `ParseFieldTable` | interprets the artifact under `MetaTable`, then checks what the meta-table cannot say |
| Envelope, `envelope/envelope.go` | none | `Sign`, `Verify`, both behind the canonicality gate | decoder, Ed25519 |
| Content identifier, `contentid/contentid.go` | none | `Sum` | SHA-256 |
| Conformance runner, `conformance/*.go` | one vector | `Check` of six kinds; tagged JSON to value | everything above |

The behaviours that are hard, and what makes each component correct:

* **Decoder.** What it accepts is the canonical form and nothing else. It
  returns on every input, keeps to its limits, never reads beyond its input,
  and answers every input with a value or a `DecodeError`. Reasons that
  `errors.go` calls byte-determined are the same on every machine and under
  every limit.
* **Encoder.** Equal values have equal bytes, different ones have different
  bytes, and the decoder takes them back. Sorting is by encoded key, duplicates
  are found after it, and -2^64 is an integer.
* **Schema.** An instance says exactly what the artifact says. Loading a table
  later does not change an answer already given, and a second table for a type
  and version never replaces the first. A table that was loaded is as good as
  one compiled in. The floor is a fixed point of its own interpretation.
* **Envelope.** Non-canonical claims never reach the signature, and the
  signature is over the bytes received.
* **Conformance.** A verdict depends on the vector and not on Go's map order, a
  vector that passes means what its JSON says, and vectors that pass do not
  contradict each other.

`PROJECT.json` lists every hazard at its line with the properties aimed at it.

## 2. The modules

```
Wire            heads, arguments, native ints, text rules, key order
  Decoder       Decode as a state machine    DecoderProofs (TLAPS)
  Artifact      what a canonical artifact is, ArtifactProofs, CanonicityProofs
                with no decoder in it                             (TLAPS)
  Encoder       Encode as operators (with CborValue)
    Codec       decoded values; Decode against Encode      MCDecoder
                                                      ReencodeProofs (TLAPS)
      RoundTrip an author and a reader                     MCRoundTrip
                                                     RoundTripProofs (TLAPS)
  Agreement     two decoders, limits and machines apart    MCAgreement
                                                     AgreementProofs (TLAPS)
  Envelope      Sign and Verify over a run of Decode       MCEnvelope
    Attest      what they promise, in one step each    EnvelopeProofs (TLAPS)
CborValue       cbor.Value and the canonical magnitudes
  LogicalValue  what a value says
Results         a Go (value, error) pair
  Schema        tables, Interpret, Require, accessors, ParseFieldTable
    Node        a node that loads, reads and acts      NodeProofs (TLAPS)
      Faithful  what it reads against what was sent
        Reload  tables as artifacts                        MCNode
  TaggedJson    the JSON of a vector to a cbor.Value
    Conformance Check, over Envelope, Codec and Schema     MCConformance
```

**Wire** gives the sizes as parameters, since TLC's integers have 32 bits: a
head has `Imm` immediate values, and the longer forms have `Widths[1..4]`
argument bytes. The code is `Imm = 24`, `Widths = <<1, 2, 4, 8>>`; the runs use
`Imm = 4` and `<<1, 2, 3, 4>>`, which leaves 12 additional-information codes,
96 bytes and 96^4 arguments. `IntHalf` is one past the largest native int, so a
64-bit build has `2 * IntHalf = Word` and a 32-bit build less. `ToInt` wraps and
`ToUint64` sign-extends, as the conversions of Go do. The Unicode predicates
(`utf8.ValidString`, NFC) are constants: external, and arbitrary in the proofs.

**Decoder** has one action for each way a call of `item` can go on: `pc = "item"`
is the entry of `item`, `"return"` its return to the loop of `array` or
`mapValue`, `"close"` the head of that loop, and `"done"` the return of
`Decode`. The Go call stack is `stack`, one frame per open container, and the
values returned so far are `out`, each with its head position `at`, where its
body starts and ends, and the indices of its children. `depth` is the length of
the stack. A returned error unwinds to `Decode` with nothing done on the way, so
a refusal is one step. The order of the guards is the order of the checks; the
tests on `depth`, `items` and the end of the input come before the head is read.
A panic is an outcome of its own, reached exactly where `make` gets a negative
or impossible length.

**Encoder** and **CborValue** are pure operators: a value is a record whose
field names tell the Go type. Where `encoder.value` and `encodeSub` are called on
an inner value, the model calls the constant `NestedEncode`, which every
configuration ties to `EncValue`: so `Encoder` and `Codec` declare no recursion.
The stable sort puts each pair behind as many as come before it.
`Logical` (**LogicalValue**) is no code but the
reference meaning of a value: a map is the set of its pairs, a decimal the pair it
is written as.

**Artifact** says of bytes alone, with no decoder in it, that they are a
canonical artifact: they can be *marked*, each head of a value with where the
value ends, where its elements start and a bound on the levels in it, so that
every marked head is the shortest for its argument, elements fill their
container without a gap, texts are good, keys ascend, and the marks keep to the
limits. It also says when two artifacts hold the same value: some relation
between their marks pairs equal kinds with equal content, arrays element by
element and maps as sets of entries. Both are definitions for the proofs, with
no run of their own: they quantify over all ways to mark the bytes.

**Agreement** is two instances of Decoder with constants of their own, and
**RoundTrip** feeds the decoder what the encoder produced: whole, cut short, or
with a byte behind it; `NestedCount` stands for `ItemCount`, the items an artifact
has as `MaxItems` counts them, where it is asked of an inner value. The two decoders of `Agreement` share nothing, so no step
of one can tell how far the other has come, and every schedule leads to the same
pair of verdicts; they run side by side, step by step, until one is done, which
is the schedule under which their agreement is an invariant.

**Schema** is the whole of package schema as operators; an error is its reason,
paths and messages are left out. Where the source's functions call themselves on
an inner value, the model calls a constant, `NestedValue` for `interpretValue`
and `NestedType` for `parseTypeDescriptor`, and every configuration ties these to
the operators they stand for: the module declares no recursion and can be proved
about. A type descriptor, a struct whose `Of` is the next one, is the sequence of
its levels. In **Results**, `Then` is `if err != nil
{ return err }`, and `All` the loop that stops at its first error. `Get` is the
eight accessors of an `Instance`, told apart by the Go type they assert. **Node** is the most general client of
that API: it starts with `DefaultRegistry`, loads tables (`Load` is `ParseFieldTable` and then `Add`,
whose panic stops the node), interprets artifacts (`Read`), and acts on keys
that `Require` has found (`Act`, or `ActByDefault` with `RequiredKeys`), in any
order. **Faithful** adds what fits a table and what an instance says, in the
same way: `NestedFits`, `NestedMeaning` and `NestedLogical` stand for these
definitions where they are asked of an inner value. **Reload** says how a table is
written as an artifact; `NestedArtifact` stands for that of an inner type.

**Envelope** adds two variables to the decoder's: `call`, the arguments of the
call of `Sign` or `Verify` that is running and then its result, and `made`, the
signatures that exist. `Call` is the length check and the call of `gate`, which
starts `Decode` on the claims; the decoder's own actions follow; then
`GateRefuses`, or `SignClaims` or `VerifyClaims`, answers. Ed25519 is symbolic: a
signature is the pair of a key and the bytes it covers, can be presented only if
somebody made it, and verifies for that pair alone. A seed and its public key
have one name. `SignElsewhere` is everybody else who signs with the same keys,
non-canonical bytes included, so that the gate matters. A call that is refused
for its key is laid out like the others, with its claims in `data`, and decodes
nothing. **Attest** is the promise, with no decoder in it: a call is answered in
one step, by what the key's holder signed when the claims are `Attestable`, and
otherwise by the refusal that names their `Fault`: a canonical value that is no map,
or bytes that `Decode` refuses. A panic is no answer, and `Attest` has no step for
one. `MCEnvelope` shows that `Envelope` implements it on claims that do not make
`Decode` panic; the abstract `made` and `call` are the concrete ones, and the steps
of the decoder stutter.

**TaggedJson** starts where `encoding/json` ends, at a tree whose nodes tell
their JSON type. Go ranges over an object in any order, each time anew: `Orders`
gives every order, and `CheckEncode` walks any one of them. **Conformance** has,
for each kind of vector, an action up to the call of `Decode`, `Sign` or
`Verify` and an action after it; the call itself runs in the decoder's steps.
Hex text carries the bytes it spells and whether it spells them in lower case,
as `hex.DecodeString` takes both and a comparison with `hex.EncodeToString`
does not. SHA-256 is an injective function. A panic of `Decode` is not recovered
from and ends the run.

## 3. The runs

| Run | Shows | Instance |
|---|---|---|
| decode | `AcceptedIsCanonical`, `AcceptedReencodes`, `WithinLimits`, `OnlyForward`, `PanicsOnlyOnHugeLengths`, `LinearTime`, `Termination` and the type invariant | 98,341 states; depth 2, 7 items |
| decode32 | `AcceptedReencodes` where a length or a count loses bits when it is narrowed | 32-bit native int, long heads, 91,239 states |
| agreement | `SameVerdict`, `SettledByPrefix` for a 64-bit decoder (depth 1, 6 items) and a 32-bit one (depth 2, 3 items) | 88,136 states; three tails behind every input |
| roundtrip | `WholeDecodes`, `DamageIsNoticed`, `SingleForm` | 22,676 states |
| tables | `TablesSound`, `NeverMalformed`, `InterpretIsFaithful`, `AccessorsAgree`, `LoadsAgree`, `TablesReload` | 768 registries from 10 tables and 24 malformed ones |
| views | `AnswersStand`, `ActsOnWhatWasSent` | 12,991 states; 5 tables |
| envelope | `SignaturesAreGated`, the refinement `Attestation`, and the type invariant | 176,454 states; 2 keys and a bad one, 2 signatures, 7 claims |
| conformance | `OneVerdict`, `Consistent`, `EncodePinsMeaning` | 46,200 states; 71 vectors, two checks; 32-bit build |
| nopanic, encoded_decodes, aliases, presence | the four findings of section 6 | |

Why the bounds are enough.

* *Inputs of the decoder.* Every one of the 96 heads is followed by up to two
  digits on both sides of every threshold; every string over nine chosen heads
  up to length 4 gives all the short nests of arrays, maps, keys and leaves,
  and depth 2 with 7 items lets inputs both meet and pass each limit; maps of
  two and three keys come in every order, with repetitions, mixed kinds and
  nested maps between a key and the next; texts break each rule in each place;
  long heads carry digits on both sides of half the argument range, where
  lengths turn negative. In `decode32` and `agreement` long lengths and counts
  meet a 32-bit int, which they overflow to nothing or to a small number.
* *Values of the encoder.* Integers sit on both sides of every change of head
  form and of both ends of the range; maps of up to three entries are built in
  every order from good, repeated, mixed and forbidden keys; nests reach the
  depth limit and one level more, and decimals and rationals stand where their two
  integers are at the limit, and beyond it.
* *The schema.* The tables have every kind, a table that refers to itself,
  tables at two versions that refer across, a rival for a type already taken,
  a kind and a presence code from the future, and one malformed artifact for
  each refusal of the loader. An int64 ends at 64 there and a wire integer at
  128, so a key and a code can be too wide; the run `aliases` ends the native
  int at 8, and `tables` and `views` end it with the int64, as a 64-bit build does:
  what `ActsOnWhatWasSent` says is not so on a narrower one. `TablesReload` writes a
  table from the entries by which it reads it, the floor too: a key, type or reference
  of the floor that is wrong shows, a wrong name or presence does not.
* *The envelope.* Claims are two maps and two other values within the limits, a map
  that is too deep, one with its keys out of order, and one that announces a text
  longer than any input. Lengths at which `Decode` panics are left out: on them
  `Attestation` is false (finding 1). Two signatures let one be replayed under another key or over other claims; a third
  adds no relation that `Verify`, which looks at one, could see.
* *The corpus.* At least one vector reaches each return of each check, and most
  bytes occur in several vectors that say different things of them, of which at
  most one may pass. All the properties relate at most two vectors, so two checks
  are enough. Deadlock is checked here: short of the end of the corpus and of a
  panic the runner always has a next step, and the only part of a check that is
  unbounded, `Decode`, is covered by `Termination` and `LinearTime`.

`CHECK_DEADLOCK FALSE` is set elsewhere because the programs really stop: `Decode`
returns, a node whose `Add` panicked does nothing more, and nobody has to call
`Sign` again.

**Fairness.** `Decode` runs on one goroutine and waits for nothing, so weak
fairness of its next-state relation says only that the goroutine is scheduled.
`RoundTrip` assumes the same, and `Envelope` assumes it of a call that has begun.
`Agreement`, `Node` and `Conformance` assume none: that each decoder returns is
`Termination`, and nothing obliges a client to call.

Every property of a passing run has a mutant in `PROJECT.json`: a plausible bug
in one definition of the model that makes TLC report the property violated.

## 4. The proofs

All theorems hold for every input, every limit, every head layout the
assumptions allow, every native int and every Unicode predicate.

| Module | Theorem | |
|---|---|---|
| `DecoderProofs` | `TypeCorrect` | `Spec => []TypeOK` |
| | `LimitsHold` | `Spec => []WithinLimits` |
| | `GoesForward` | `Spec => OnlyForward` |
| | `PanicsAreHuge` | `Spec => PanicsOnlyOnHugeLengths` |
| | `AcceptsOnlyCanonical` | `Spec => []AcceptedIsCanonical` |
| | `RunsInLinearTime` | `Spec => LinearTime` |
| `ArtifactProofs` | `OnlyArtifactsAreAccepted` | what `Decode` accepts is an artifact within its limits |
| | `EveryArtifactIsAccepted` | and every such artifact that it is given it accepts |
| | `DamageIsJudged` | such an artifact is `truncated` wherever it is cut, and what is behind it is found where it ends |
| `CanonicityProofs` | `OneArtifactPerValue` | two artifacts that hold the same value are the same bytes |
| | `HeadsReadBack` | what `encoder.head` writes reads back as it was, and is the shortest |
| | `HeadsReencode` | the heads of an artifact are those `encoder.head` writes |
| `ReencodeProofs` | `AcceptedIsReencoded` | `Spec => []AcceptedReencodes` |
| `RoundTripProofs` | `ArtifactsAreSingle` | `RTSpec => []SingleForm` |
| | `ArtifactsDecode` | `RTSpec => []WholeDecodes` |
| | `DamageIsFound` | `RTSpec => []DamageIsNoticed` |
| `AgreementProofs` | `VerdictsAgree` | `Spec => []SameVerdict` |
| | `PrefixesSettle` | `Spec => []SettledByPrefix` |
| `NodeProofs` | `TablesStaySound` | `Spec => []TablesSound` |
| | `LoadingIsIndependent` | `Spec => []LoadsAgree` |
| | `AnswersStayTrue` | `Spec => []AnswersStand` |
| | `MalformedIsForTables` | `Spec => []NeverMalformed` |
| | `AccessorsAnswer` | `Spec => []AccessorsAgree` |
| | `ActsAreAnswered` | `Spec => []ActsOnWhatWasSent`, on a 64-bit build |
| | `WideIntsRejectUnknownKeys` | `Spec => []OnlyDeclaredKeys`, on a 64-bit build |
| | `InterpretationIsFaithful` | `Spec => []InterpretIsFaithful`, on a 64-bit build |
| | `TablesComeBack` | `Spec => []TablesReload` |
| `EnvelopeProofs` | `EnvTypeCorrect` | `EnvSpec => []EnvTypeOK` |
| | `OnlyGatedSignatures` | `EnvSpec => []SignaturesAreGated` |
| | `EnvelopeAttests` | every step of the envelope is a step of `Attest`, a stutter, or a panic on claims that are not canonical within the limits |

**Types and bounds.** `TypeOK` is not inductive: that `pos` stays inside the
input after a string needs the arithmetic of the narrowing, and that a loop
appends a child that exists needs `out` to be nonempty on return. `TypeInv` adds
what ties the stack, the program counter and the outcome together, and carries
`TypeCorrect`, `LimitsHold`, `GoesForward`, `PanicsAreHuge` and
`RunsInLinearTime`, which needs only that `pos` stays inside the input, so that
the fuel of a step is a natural number that the next one lowers.

**Canonical.** `AcceptedIsCanonical` speaks of the end only. The strengthening is

    CanonInv == HeapOK /\ StackOK /\ ReturnOK /\ CloseOK /\ VerdictOK

where `HeapOK` says that every value returned so far is `Canonical`;
`StackOK` that each open container has a minimal head, that its children so far
lie side by side from its body to where the next one starts, that its keys so far
ascend and agree with `keysAreText` and `prevKey`, and that the container below
waits exactly at this one's head; `ReturnOK` and `CloseOK` place the value just
returned, or the container just filled, against `pos`; and `VerdictOK` is the
theorem. Keys are compared with their neighbours only, so the proof rests on
`BytesLess` being transitive, a lemma about the model of `bytes.Compare` that is
proved from its definition. A value never changes once returned, so what was
`Canonical` stays so when `out` grows (one lemma for each of `Tiled`,
`KeysAscend` and `Canonical`). Each action then has a lemma of its own.

**Exactly the artifacts.** `ArtifactProofs` relates the decoder to a definition
that knows no decoder. One direction builds the marks from the heap of values:
no head is read twice (`Distinct`, `Counted`), each value has a level
(`Leveled`), and `CanonInv` gives the rest. The other direction is about an
artifact `d` that *can* be marked, by marks `w` the decoder knows nothing of, and
an input that agrees with `d` as far as both go (`Given(d)`): `d` itself, the
first bytes of it, or `d` and more. The invariant `Follows(d, w)` says that the
decoder walks along the marks: each open container is marked, its children so far
are the elements marked there, and the head that is next is the next one marked.
As long as the input lasts none of the refusals applies, the item counter stays
below the number of marks and the depth below the height marked at the root
(`Accepting`). Lengths of marked values are lengths inside `d`, so the narrowing to
`int` loses nothing. What is left at the end is `Verdict(d)`: a value if the input
is `d`, `truncated` if it is less, `trailing-bytes` where `d` ends if it is more.
Together the theorems say that `Decode` decides the definition: no artifact within
the limits is refused or panicked on, nothing else is accepted, and what was done
to an artifact under way is called by its name.

**One form for a value.** `OneArtifactPerValue` is the reason to have a canonical
form at all: content identifiers and signatures are over bytes and stand for
values. Heads that announce the same argument are the same bytes, because the
ranges of the forms are disjoint (`OneForm`) and Horner's rule loses nothing
below a power of the radix (`UintInjective`, `UintBound`); equal sets of keys have
one ascending order (`OneOrder`), so the entries of equal maps pair up place by
place; and related values are the same bytes by the least height at which they
could differ (`RelatedMatch`). `SameAsItself` shows that the premise holds of
every artifact. `HeadsReadBack` and `HeadsReencode` are the part of `Encode` that
calls nothing on an inner value: for every argument below 2^64 the two sides of
the codec agree on its head.

**Reencoding.** `AcceptedIsReencoded` says that `Encode` undoes `Decode`, for
every input. It names a set, `forest`, of Go values with two hypotheses.
`Forest(forest)` says that it has all integers, byte strings, texts and booleans,
and with any values the arrays and maps of them; the finite values are such a set.
`Recurses(forest)` says that `NestedEncode` is `EncValue` on it; such an operator
exists because `EncValue` asks about inner values at `depth + 1` and stops beyond
`MaxDepth`, and every configuration has it. The invariant is the one of
`OnlyArtifactsAreAccepted`: the heap of values is `Canonical`, each has a level
above those of its elements, and the heads of it mark the input. At the lowest
level where a value is not written back (`AllWritten`) its head is the one
`EncHead` writes (`HeadWritten`), its elements are, and side by side they are its
body (`JoinSlices`); for a map, keys that ascend are left where they are by the
sort (`SortedAlready`) and are no duplicates. The same levels show that the
recursive function `Decoded` exists, so that the value of an array is built from
those of its elements (`DecodedFacts`).

**The round trip.** The theorems of `RoundTripProofs` start from values and not
from bytes. They say, for any author, what `Encode` and `Decode` are to each other:
two values have the same bytes exactly when they mean the same, an artifact that
arrives whole is accepted and means what was encoded, and damage is noticed. Their
hypothesis `Authors(forest)` is that the author's values are of a family of Go
values and that no artifact is longer, with the byte that may follow it, than a Go
slice can be (`Len + 1 < IntHalf`). A family is a `Forest` that `Recurses`, as
above, of which two more things hold. `GoTrees(forest)` says that each value is
native content, made of other values of the forest, or of a type `encoder.value`
does not know. `Reflects(forest)` says that `NestedLogical` is `Logical` and
`NestedCount` is `ItemCount`. The finite trees of Go values are a family, since
each of the three operators asks about smaller values, and every configuration ties
them so.

One predicate, `Lies`, says that a value is what the bytes have between two
positions, and three lemmas speak of it. `ReadOneWay`: what lies at a position is
as long as its head says, and all that lies there means the same. `OneForMeaning`:
values that mean the same are spelt alike; for maps, the sort by encoded key takes
two lists of the same pairs to the same list (`PrecedesOrder`), and the check for
duplicates behind it leaves no two pairs with the same key. `AllMarkable`: whatever
`Encode` wrote at a depth can be marked, within `MaxDepth` and with no more marks
than `ItemCount` counts. A value has no height here; what goes down is the position
or the length of the bytes, for the encoding of an element is shorter than that
of its container, and each lemma is the choice of a counterexample with the least
room.

With these the steps of `Decode` need no further invariant than that of
`ArtifactProofs`: `RTInv` adds only what `arrived` says of `data`. By `AllMarkable`
what was sent is an artifact when it has no more than `MaxItems` items (the only
thing `Encode` does not check, see finding 2), so `AcceptsArtifacts` and
`JudgesDamage` give the verdict. What is returned is written back as what was
sent (`ResultWritten`), so by `ReadOneWay` it means the same.

**Agreement.** With different limits and native ints the two decoders take the
same steps until one gives up:

    AgreeInv == Typed /\ (Agreed \/ AGivesUp \/ BGivesUp)

`Agreed`: they stand at the same place with the same stack and heap, or A has
accepted and B has found the bytes behind the artifact. `AGivesUp` and `BGivesUp`:
one has panicked or refused for a reason that is relative to its limits, or A has
met the end of an input that goes on for B. One lemma for each phase of the
decoder (in `DecoderProofs`) says which step it takes from which input, so that the
two can be compared action by action. The hard cases are the lengths that lose
bits when narrowed: the phase lemmas show that they end in a panic, a limit or a
`truncated` that the wider int reports at the same place, and in nothing else.

**The node.** The theorems of `NodeProofs` hold for any tables that are offered
and any artifacts that are sent. They name a set, `forest`, that has these and all
their elements, with two hypotheses that the program justifies and every
configuration satisfies. `Trees(forest, height)` says that the values are what
`Decode` may return and finite: an element is lower than the value it is in.
`Tied(forest)` says that `NestedValue` and `NestedType` are `InterpretValue` and
`ParseTypeDescriptor`; such operators exist because each calls them on lower values
only. An induction over a value is then the choice of a lowest counterexample
(`AnswersGrow`, `NeverGiven`, `DescriptorsSound`).

The invariant that carries the tables is

    TablesInv == FloorStays /\ every table held is under its own name and a SoundTable

`TablesSound` by itself is not inductive, and not because it says too little of
the tables: what the next table artifact is taken for is decided by the tables that
are held, so the invariant has to keep `MetaTable`, `EntryTable` and
`TypeDescriptorTable` in place (`FloorStays`). Then three lemmas do the work.
`ParsesAlike`: the tables of the floor refer to nothing but the floor
(`FloorIsFree`), so no reading under `MetaTable` ends in `unresolved-ref`, so it
ends as it does for a node that has loaded nothing, which is `LoadsAgree`.
`DescriptorsSound` and `ParsedIsSound`: whatever a fresh node parses has the keys
0, 1, ..., n - 1 and complete descriptors at every depth, because
`FieldsMatchKind` is asked at every level. `AnswersGrow`: in a registry that only
grows, an answer other than `unresolved-ref` stays the answer, since the first
failure of a loop stays the first; this is also why a view does not go stale
(`AnswersStayTrue`, by the invariant `ViewInv` that says where a view came from).

Over sound tables `NeverGiven` shows that no malformed-* reason is given, and
`FieldAnswers` that the Go type of a field is the one of its declared kind.
`ActedInv` ties what was acted on to the keys that were sent; it needs `IntHalf =
LongHalf`, and the run `aliases` shows that it is false without.

`InterpretationIsFaithful` compares two readings of one value, by the code and by
the reference definitions, at its lowest difference (`EveryMapFaithful`).
Its further hypotheses are that `FaithTied(forest)` ties the three constants of
`Faithful` and `LogicalValue` as above, and that no map has a key twice
(`KeysApart`), which `Decode` sees to: `interpretMap` would keep the last of two.
The tables need one thing that soundness does not give, that their keys are
int64s (`KeysInv`, from `toInt`): a wire key that is none is unknown to the code,
and an entry with such a key would fit artifacts that are refused. On the
magnitudes the two readings are differently worded: that zero has one form over
all denominators follows for rationals because a denominator divides zero and
itself (`RationalFits`).

`TablesComeBack` goes the other way, from a table to its artifact and back through
`Interpret` and `ParseFieldTable`. Its invariant is `WritableInv`: beyond
`TablesInv`, every table held is `Writable`, that is, all its codes are ints
(`Coded`, from `toInt`), its types are complete, and its names are texts. Soundness
alone would not do: a table with a key or a kind wider than an int has an artifact
that the loader refuses. `SpelledIsRead` is the heart of it: pairs with different
keys of a floor table, in whatever order, are read as the instance that has the
value of each under its key. A descriptor then parses as the type it was written for
because the fields that are written are those its kind owns (`SpelledParses`), at
every depth because the shortest type that did not come back would
(`TypesComeBack`). The further hypothesis `Writes(forest)` is that the forest has the
names of the floor and the artifacts of the tables that can be written with its
names, as the set of all finite values has, and that `NestedArtifact` is
`TypeArtifact`; and an int must reach further than 7, the last kind.

**The envelope.** `SignaturesAreGated` speaks of a decoder that is called again
and again, so the decoder's invariants are needed from wherever a call starts it
over. The invariant of the envelope is

    EnvInv == DecoderInv /\ EnvTypeOK /\ Bound
    DecoderInv == TypeInv /\ Quiet /\ CanonInv /\ Settled

where `Bound` ties the decoder to the call: `data` is the claims of the call, and
a result that came after the gate stands for a decoder that holds one canonical
map. `DecoderInv` is preserved by the decoder's step through the lemmas of
`DecoderProofs`, and re-established by `StartOver` for any bytes.
`EnvelopeAttests` is the safety part of the refinement `Attestation`: initial
states map to initial states, the decoder's steps to stutters, and each answer to
the one that `Attest` gives, its refusals included. There `Attestable` and
`OtherValues` are defined as the claims that are artifacts within the limits and hold
a map, or do not, for every set of inputs; `GateIsExact` takes from `ArtifactProofs`
that the gate opens for the former, calls the latter no map, and calls everything
else not canonical. For any inputs at all a panic has to be reckoned with, so the
theorem names the exception: `CallLost`, a step that lets a panic of `Decode`
through, which no canonical claims within the limits ever meet; that their length
is then huge is `PanicsAreHuge`.

**Assumptions.** They are those `Wire` states on its constants: sizes are
positive, widths ascend, the native int is no wider than the argument range,
limits are natural numbers and the byte-order mark is a byte string; and the one of
`RoundTrip`, that what may follow an artifact is a byte (`TailsAssumption`).
`PowerAssumption` says how powers are made, `Radix ^ 0 = 1` and
`Radix ^ (n + 1) = Radix * Radix ^ n` as far as an argument is long, which is
true of all numbers and is stated because the prover has no theory of `^`; TLC
evaluates it in every run.

**Only model-checked.** `Termination` and the fairness of `Attestation` are
liveness, which the prover does not do. The properties of the
runner, `OneVerdict`, `Consistent` and `EncodePinsMeaning`, start from trees of
JSON: its modules (`TaggedJson`, `Conformance`) compute over trees of any depth by
RECURSIVE operators, which are outside the prover's reach, and what a recursive
definition computes for every value is an induction over data, which the installed
provers cannot do. `EncodedDecodes`, `NoPanic` and the other properties of the
findings are false. Where a value is laid out flat, as in the heap of the decoder
or the marks of `Artifact`, has a height, as in `Trees`, or a length, as a type has,
or lies in the bytes it was encoded to, as in `RoundTripProofs`, and the recursion can be left to a
constant, a least counterexample in the natural numbers takes the place of that
induction; `LeastMember` and `MinFacts` are the lemmas this needs.

## 5. Not modelled

* **`Load` and `Files`**: reading, `json.Unmarshal` and a directory walk, with no
  decision of their own.
* **`Error.Path`, `Msg`, error strings**: diagnostics, by the source's own words.
* **JSON syntax**: `parseValue` is modelled from the tree `encoding/json` gives;
  that it gives the same tree for equivalent texts is its own affair.
* **nil `*big.Int`**: the magnitude checks and `toInt` refuse one, but `Encode` of an
  `Int` with one panics, in `encoder.integer` (`cbor/encode.go:108`). No value that
  was decoded has one, and the values of the models have none.
* **Unicode tables, SHA-256, Ed25519, `encoding/json`**: external.
* **Memory**: that `make` of an ordinary length can fail is out of scope; only
  the lengths for which it must panic are modelled.

## 6. Findings

1. *nopanic.* On a 64-bit build a string length or container count of 2^63 or
   more survives `uint64(n) != arg`, becomes negative, and `make` panics where
   `errors.go` promises a `DecodeError` (`cbor/decode.go:158`, `172`, `188`).
   `PanicsOnlyOnHugeLengths` shows, and `PanicsAreHuge` proves, that nothing
   else makes `Decode` panic. `Sign` and `Verify` inherit it: `gate` calls `Decode`
   with no `recover` around it (`envelope/envelope.go:59`), so such claims, which are
   not canonical, get a panic where lines 9-10 say that they are refused and lines
   42-44 that they get `ErrNonCanonicalClaims`.
2. *encoded_decodes.* `Encode` never counts items, so it can produce an artifact
   that `Decode` refuses as `size-exceeded` (`cbor/encode.go:18`); a comment
   there says that the limits bound encoding too. `WholeDecodes` shows that this
   is the only exception.
3. *aliases.* On a 32-bit build `interpretMap` truncates a wire key
   (`schema/interpret.go:124`), so an undeclared key can be read as a declared
   one. `ActsOnWhatWasSent` shows that no such thing happens on a 64-bit build.
4. *presence.* The loader takes any presence code (`schema/fieldtable.go:131`)
   where a comment in `interpret.go` counts one outside the enum among those
   that cannot be resolved.

Two observations without a run:

* `gate` turns every error of `Decode` into `ErrNonCanonicalClaims`
  (`envelope/envelope.go:60`), also for a canonical map beyond `MaxDepth` or
  `MaxItems`, where the comment at line 21 says that the claims are not canonical
  CBOR. `Attestation` shows that within the limits no canonical claims get this
  error, whether they are a map or not.
* `checkSchemaReject` takes whatever reason a vector names
  (`conformance/conformance.go:265`), the capability-relative `unresolved-ref`
  too, where its comment speaks of the artifact-determined ones.

## 7. Plan

In order of importance. All of it is done.

1. `Wire`, `Decoder`: the parser as a state machine; `MCDecoder`.
2. `Encoder`, `Codec`, `RoundTrip`: the inverse; `MCRoundTrip`.
3. `Agreement`: byte-determined reasons across implementations; `MCAgreement`.
4. `DecoderProofs`: types, limits, monotonicity, panics, canonicity, linear time.
5. `CborValue`, `Schema`, `Node`: tables, interpretation, loading; `MCNode`.
6. `Envelope` and `Attest`: `Sign` and `Verify` composed with `Decoder`, and the
   promise they implement; `MCEnvelope`.
7. `EnvelopeProofs`: the envelope's types and its gate.
8. `TaggedJson`, `Conformance`: the six checks, with Go's map order;
   `MCConformance`.
9. `CanonicityProofs`: heads read back what `EncHead` wrote, the forms are
   disjoint, and a value has one artifact.
10. `ArtifactProofs`, more of `EnvelopeProofs`: the decoder decides a definition of its own,
    and the safety part of `Attestation`, with `Attestable` defined as the claims
    that hold a canonical map within the limits.
11. `AgreementProofs`: `SameVerdict` and `SettledByPrefix`.
12. `NodeProofs`: the schema without recursion of its own, and what a node holds
    and answers, for every set of tables and artifacts.
13. More of `NodeProofs`: what a node reads is what was sent, the recursion of `Fits`,
    `Meaning` and `Logical` tied by constants, the induction by height.
14. `ReencodeProofs`: `AcceptedReencodes`, with the recursion of `Encode` tied in the
    same way.
15. `RoundTripProofs`, the other direction: what `Encode` returns without an error
    is an artifact up to the number of its items, so that with
    `EveryArtifactIsAccepted` it is taken back; and the order in which a map is
    written down leaves no trace in it (`SingleForm`).
16. `TablesComeBack` in `NodeProofs`, with the recursion of `TypeArtifact` tied by a
    constant and the induction by the length of a type.
