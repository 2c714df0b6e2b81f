---------------------------- MODULE Conformance ----------------------------
(***************************************************************************)
(* The conformance runner: vectors are checked one after another, each by  *)
(* the check of its kind, over one decoder, one encoder, the schema layer  *)
(* and the envelope.                                                       *)
(*                                                                         *)
(* A Vector is a record of its kind and the fields of that kind.  A field  *)
(* of hex text is [hex, lower]: the bytes it spells, and whether it spells *)
(* them in lower case; or it is [garbage].  A seed, a public key, a        *)
(* signature and a hash have symbolic bytes.                               *)
(***************************************************************************)
EXTENDS Envelope, Codec, TaggedJson, LogicalValue

CONSTANTS
  Vectors,      \* the vectors there are
  MaxChecks,    \* bound: how many are checked
  NestedValue(_, _, _, _), NestedType(_)   \* the recursion of package schema

S == INSTANCE Schema WITH LongHalf <- Word \div 2

VARIABLES
  vec,       \* the vector under check
  phase,     \* "idle", "checking", "decoding", "calling" or, after a panic, "crashed"
  reports    \* the vectors that have been checked, and whether they passed

confVars == <<envVars, vec, phase, reports>>

ConfInit ==
  /\ EnvInit
  /\ vec \in Vectors
  /\ phase = "checking"
  /\ reports = <<>>
-----------------------------------------------------------------------------
\* hex.EncodeToString; hex.DecodeString takes both cases.
HexText(bytes) == [hex |-> bytes, lower |-> TRUE]
IsHex(text) == Is(text, "hex")

\* contentid.Sum: no two byte strings have one hash.
Sum256(bytes) == [sha |-> bytes]

\* Check returns, with an error or without.
Report(pass) ==
  /\ reports' = Append(reports, [vec |-> vec, pass |-> pass])
  /\ phase' = "idle"
  /\ UNCHANGED <<envVars, vec>>

\* A check calls cbor.Decode, or Sign or Verify.
Decode(bytes) ==
  /\ StartOver(bytes)
  /\ phase' = "decoding"
  /\ UNCHANGED <<made, call, vec, reports>>
CallEnvelope(op, key, claims, sig) ==
  /\ Call(op, key, claims, sig)
  /\ phase' = "calling"
  /\ UNCHANGED <<vec, reports>>

Checking(kind) == phase = "checking" /\ vec.kind = kind

\* The bytes of the value of the vector, ranged over in the order of x.
Encoded(x) == Then(Walk(x), Encode)
Spells(text, result) == result = Done(text.hex) /\ text.lower

CheckEncode ==
  /\ Checking("encode")
  /\ \E x \in Orders(vec.value) :
       IF IsHex(vec.cbor) /\ Spells(vec.cbor, Encoded(x))
       THEN Decode(vec.cbor.hex) ELSE Report(FALSE)

CheckContentID ==
  /\ Checking("content-id")
  /\ IF IsHex(vec.cbor) THEN Decode(vec.cbor.hex) ELSE Report(FALSE)

CheckReject ==
  /\ Checking("reject")
  /\ IF IsHex(vec.bytes) THEN Decode(vec.bytes.hex) ELSE Report(FALSE)

CheckSchemaReject ==
  /\ Checking("schema-reject")
  /\ IF Is(vec, "interpret_as") /\ vec.interpret_as = 0 /\ IsHex(vec.cbor)
     THEN Decode(vec.cbor.hex) ELSE Report(FALSE)

CheckEnvelopeSign ==
  /\ Checking("envelope-sign")
  /\ IF IsHex(vec.seed) /\ IsHex(vec.claims_cbor)
     THEN CallEnvelope("sign", vec.seed.hex, vec.claims_cbor.hex, Junk) ELSE Report(FALSE)

CheckEnvelopeVerify ==
  /\ Checking("envelope-verify")
  /\ IF Is(vec, "valid") /\ IsHex(vec.public_key) /\ IsHex(vec.claims_cbor) /\ IsHex(vec.signature)
     THEN CallEnvelope("verify", vec.public_key.hex, vec.claims_cbor.hex, vec.signature.hex)
     ELSE Report(FALSE)

Kinds == {"encode", "content-id", "reject", "schema-reject", "envelope-sign", "envelope-verify"}
CheckUnknown ==
  /\ phase = "checking"
  /\ vec.kind \notin Kinds
  /\ Report(FALSE)
-----------------------------------------------------------------------------
\* Decode, Sign or Verify at work.
Work ==
  /\ \/ phase = "decoding" /\ Next /\ UNCHANGED <<made, call>>
     \/ phase = "calling" /\ Proceed
  /\ UNCHANGED <<vec, phase, reports>>

\* A panic is not recovered from: it ends the run.
Crash ==
  /\ \/ phase = "decoding" /\ outcome.kind = "panic"
     \/ phase = "calling" /\ call.result = "panic"
  /\ phase' = "crashed"
  /\ UNCHANGED <<envVars, vec, reports>>

\* Decode has returned to a check of the given kind, which ends it.
AfterDecode(kind, pass) ==
  /\ phase = "decoding" /\ vec.kind = kind
  /\ outcome.kind \in {"value", "refused"}
  /\ Report(pass)

Accepted == outcome.kind = "value"
Reencodes(text) == Accepted /\ Spells(text, Encode(Result))

EncodeDone == AfterDecode("encode", Reencodes(vec.cbor))

ContentIDDone ==
  AfterDecode("content-id", Reencodes(vec.cbor) /\ vec.sha256 = HexText(Sum256(vec.cbor.hex)))

RejectDoneMut == AfterDecode("reject", ~Accepted)
RejectDone == AfterDecode("reject", ~Accepted /\ vec.reason = outcome.reason)

RefusedWith(reason, parsed) == parsed.err # "none" /\ parsed.err = reason
SchemaRejectDone ==
  AfterDecode("schema-reject",
              Accepted /\ RefusedWith(vec.reason, S!ParseFieldTable(Result, S!DefaultRegistry)))

AfterCall(kind, pass) ==
  /\ phase = "calling" /\ vec.kind = kind
  /\ Idle
  /\ Report(pass)

EnvelopeSignDone ==
  AfterCall("envelope-sign",
            /\ call.result = "signed"
            /\ vec.public_key = HexText(call.key)
            /\ vec.signature = HexText(Signature(call.key, call.claims)))

EnvelopeVerifyDone ==
  AfterCall("envelope-verify", vec.valid <=> call.result = "valid")

Run ==
  \/ CheckEncode \/ CheckContentID \/ CheckReject \/ CheckSchemaReject
  \/ CheckEnvelopeSign \/ CheckEnvelopeVerify \/ CheckUnknown
  \/ Work \/ Crash
  \/ EncodeDone \/ ContentIDDone \/ RejectDone \/ SchemaRejectDone
  \/ EnvelopeSignDone \/ EnvelopeVerifyDone

NextVector ==
  /\ phase = "idle" /\ Len(reports) < MaxChecks
  /\ vec' \in Vectors
  /\ phase' = "checking"
  /\ UNCHANGED <<envVars, reports>>

\* The corpus is done, or the run has crashed.
Finished ==
  /\ \/ phase = "crashed"
     \/ phase = "idle" /\ Len(reports) = MaxChecks
  /\ UNCHANGED confVars

ConfNext == Run \/ NextVector \/ Finished

ConfSpec == ConfInit /\ [][ConfNext]_confVars
-----------------------------------------------------------------------------
Passed == {reports[i].vec : i \in {i \in DOMAIN reports : reports[i].pass}}

\* Until it is Finished the runner always has a next step: no vector leaves a
\* check stuck (deadlock is checked).

\* A vector has one verdict, however often it is checked and in whatever order
\* Go ranges over the objects in it.
OneVerdict ==
  \A i, j \in DOMAIN reports :
    reports[i].vec = reports[j].vec => reports[i].pass = reports[j].pass

\* The bytes that a passing vector says are canonical, and what it says of them.
Canonicals(v) ==
  CASE v.kind \in {"encode", "content-id", "schema-reject"} -> {v.cbor.hex}
    [] v.kind = "envelope-sign" -> {v.claims_cbor.hex}
    [] v.kind = "envelope-verify" -> IF v.valid THEN {v.claims_cbor.hex} ELSE {}
    [] OTHER -> {}
Refuted(v) == IF v.kind = "reject" THEN {v.bytes.hex} ELSE {}

\* The signatures that a passing vector vouches for.
Signs(v) ==
  CASE v.kind = "envelope-sign" -> {<<v.public_key.hex, v.claims_cbor.hex, v.signature.hex>>}
    [] v.kind = "envelope-verify" ->
         IF v.valid THEN {<<v.public_key.hex, v.claims_cbor.hex, v.signature.hex>>} ELSE {}
    [] OTHER -> {}
Denies(v) ==
  IF v.kind = "envelope-verify" /\ ~v.valid
  THEN {<<v.public_key.hex, v.claims_cbor.hex, v.signature.hex>>} ELSE {}

RECURSIVE Says(_)

Pair(x, y) == [seq |-> <<[int |-> x], [int |-> y]>>]

\* What the tagged JSON of a vector says, in the terms of Logical: plain JSON is
\* itself, a tag is what it names, and "$" where no tag may stand says nothing.
SaysTag(tag, x) ==
  CASE tag = "$bytes" -> [bytes |-> x.hex]
    [] tag = "$map"   -> [map |-> {<<Says(x.arr[i].arr[1]), Says(x.arr[i].arr[2])>> : i \in DOMAIN x.arr}]
    [] OTHER          -> Pair(x.arr[1].num, x.arr[2].num)
Says(x) ==
  CASE Is(x, "num")  -> [int |-> x.num]
    [] Is(x, "str")  -> [text |-> x.str]
    [] Is(x, "bool") -> [bool |-> x.bool]
    [] Is(x, "arr")  -> [seq |-> [i \in DOMAIN x.arr |-> Says(x.arr[i])]]
    [] Is(x, "obj")  ->
         IF \A i \in DOMAIN x.obj : ~IsTagKey(x.obj[i].k)
         THEN [map |-> {<<[text |-> x.obj[i].k], Says(x.obj[i].v)>> : i \in DOMAIN x.obj}]
         ELSE IF Len(x.obj) = 1 THEN SaysTag(Tags[x.obj[1].k], x.obj[1].v)
         ELSE [stray |-> TRUE]

\* Vectors that pass do not contradict each other: no bytes are canonical to one
\* and refused to another, no refusal has two reasons, no signature is both good
\* and bad, and bytes have one meaning and one identity and no other bytes have
\* them.  What the corpus pins, one implementation can satisfy.
Consistent ==
  \A v, w \in Passed :
    /\ Canonicals(v) \cap Refuted(w) = {}
    /\ Signs(v) \cap Denies(w) = {}
    /\ v.kind = "reject" /\ w.kind = "reject" /\ v.bytes.hex = w.bytes.hex => v.reason = w.reason
    /\ v.kind = "schema-reject" /\ w.kind = "schema-reject" /\ v.cbor = w.cbor
         => v.reason = w.reason
    /\ v.kind = "content-id" /\ w.kind = "content-id" =>
         (v.cbor = w.cbor <=> v.sha256 = w.sha256)
    /\ v.kind = "encode" /\ w.kind = "encode" =>
         (v.cbor = w.cbor <=> Says(v.value) = Says(w.value))

\* An encode vector that passes pins the meaning of its bytes: what Decode made
\* of them is what the JSON says, with its tags, magnitudes and maps in any order.
EncodePinsMeaning ==
  phase = "idle" /\ vec.kind = "encode" /\ vec \in Passed => Logical(Result) = Says(vec.value)
=============================================================================
