---------------------------- MODULE MCConformance ----------------------------
(***************************************************************************)
(* A corpus with vectors of every kind, right and wrong: at least one for  *)
(* each return of each check.  Heads are as in MCDecoder.  The build       *)
(* is a 32-bit one: an int64 ends at half the 4-byte arguments, the native *)
(* int at half the 3-byte ones.  "$" is byte 9.                            *)
(***************************************************************************)
EXTENDS Conformance

MCWidths == <<1, 2, 3, 4>>
Int32Half == (96 ^ 3) \div 2
MCBOM == <<80, 81, 82>>
MCValidUTF8(s) == \A i \in 1..Len(s) : s[i] # 90
MCIsNFC(s) == \A i \in 1..Len(s) - 1 : <<s[i], s[i + 1]>> # <<5, 6>>
MCInputs == {<<>>}
MCKeys == {"alice", "bob"}

TagNames == <<"$bytes", "$decimal", "$rational", "$map">>
MCTags == [k \in {<<9, i>> : i \in 1..4} |-> TagNames[k[2]]]

Upper(bytes) == [hex |-> bytes, lower |-> FALSE]
Garbage == [garbage |-> TRUE]
-----------------------------------------------------------------------------
(***************************************************************************)
(* JSON and the values it stands for.                                      *)
(***************************************************************************)
Num(n) == [num |-> n]
Bool(truth) == [bool |-> truth]
Arr(xs) == [arr |-> xs]
Obj(fields) == [obj |-> fields]
Str(s) == [str |-> s]
Hex(bytes) == [str |-> <<0>>, hex |-> bytes]
JF(k, v) == [k |-> k, v |-> v]
A == <<7>>
AA == <<7, 7>>
B == <<8>>
Tagged(i, x) == Obj(<<JF(<<9, i>>, x)>>)

Whole(n) == [int |-> n]
Map(entries) == [entries |-> entries]
KF(k, v) == [key |-> Whole(k), val |-> v]
TF(k, v) == [key |-> [text |-> k], val |-> v]
Items(vals) == [items |-> vals]
BytesOf(v) == Encode(v).buf

Wants(json, v) == [kind |-> "encode", value |-> json, cbor |-> HexText(BytesOf(v))]
Spelt(json, text) == [kind |-> "encode", value |-> json, cbor |-> text]

TwoTexts == Map(<<TF(A, Whole(1)), TF(B, Whole(-5))>>)
Deep == Map(<<TF(B, Map(<<TF(A, [bool |-> TRUE]), TF(AA, Items(<<Whole(300)>>))>>)),
              TF(AA, [bool |-> FALSE])>>)
Encodes ==
  {Wants(Obj(<<JF(B, Num(-5)), JF(A, Num(1))>>), TwoTexts),
   Wants(Obj(<<JF(AA, Bool(FALSE)),
               JF(B, Obj(<<JF(AA, Arr(<<Num(300)>>)), JF(A, Bool(TRUE))>>))>>), Deep),
   Wants(Arr(<<Obj(<<JF(B, Num(2)), JF(A, Tagged(4, Arr(<<>>))), JF(AA, Arr(<<>>))>>),
               Obj(<<JF(AA, Str(B)), JF(B, Bool(TRUE))>>)>>),
         Items(<<Map(<<TF(A, Map(<<>>)), TF(B, Whole(2)), TF(AA, Items(<<>>))>>),
                 Map(<<TF(B, [bool |-> TRUE]), TF(AA, [text |-> B])>>)>>)),
   Wants(Tagged(1, Hex(<<7, 8>>)), [bytes |-> <<7, 8>>]),
   Wants(Tagged(2, Arr(<<Num(1), Num(7)>>)), [scale |-> 1, mantissa |-> 7]),
   Wants(Arr(<<Num(1), Num(7)>>), Items(<<Whole(1), Whole(7)>>)),
   Wants(Tagged(3, Arr(<<Num(-1), Num(2)>>)), [num |-> -1, den |-> 2]),
   Wants(Tagged(4, Arr(<<Arr(<<Num(-1), Num(0)>>), Arr(<<Num(4), Str(A)>>)>>)),
         Map(<<KF(4, [text |-> A]), KF(-1, Whole(0))>>))}

\* The encoder refuses the value, or other bytes or letters are pinned.
WrongEncodes ==
  {Spelt(Tagged(2, Arr(<<Num(1), Num(20)>>)), HexText(<<50, 1, 4, 20>>)),
   Spelt(Tagged(4, Arr(<<Arr(<<Num(0), Num(1)>>), Arr(<<Num(0), Num(2)>>)>>)),
         HexText(<<62, 0, 1, 0, 2>>)),
   Spelt(Tagged(2, Arr(<<Num(1), Num(2)>>)), HexText(<<50, 2, 1>>)),
   Spelt(Str(<<5, 6>>), HexText(<<38, 5, 6>>)),
   Spelt(Num(1), HexText(<<4, 1>>)),
   Spelt(Num(1), Upper(<<1>>)),
   Spelt(Num(1), Garbage),
   Spelt(Arr([i \in 1..20 |-> Num(0)]), HexText(BytesOf(Items([i \in 1..20 |-> Whole(0)]))))}

\* The JSON has no value, whatever bytes are pinned.
NoValues ==
  {Spelt(Tagged(1, Num(1)), HexText(<<1>>)),
   Spelt(Tagged(2, Str(A)), HexText(<<37, 7>>)),
   Spelt(Tagged(3, Arr(<<Num(1)>>)), HexText(<<49, 1>>)),
   Spelt(Tagged(4, Num(1)), HexText(<<1>>)),
   Spelt(Tagged(4, Arr(<<Arr(<<Num(1)>>)>>)), HexText(<<49, 1>>)),
   Spelt(Tagged(5, Num(1)), HexText(<<61, 38, 9, 5, 1>>)),
   Spelt(Obj(<<JF(<<9, 1>>, Num(1)), JF(A, Num(2))>>),
         HexText(BytesOf(Map(<<TF(A, Whole(2)), TF(<<9, 1>>, Whole(1))>>)))),
   Spelt([frac |-> TRUE], HexText(<<1>>)),
   Spelt([null |-> TRUE], HexText(<<86>>)),
   Spelt(Arr(<<Num(1), [null |-> TRUE]>>), HexText(<<50, 1, 86>>))}
-----------------------------------------------------------------------------
ContentID(text, sum) == [kind |-> "content-id", cbor |-> text, sha256 |-> sum]
ContentIDs ==
  {ContentID(HexText(<<61, 0, 1>>), HexText(Sum256(<<61, 0, 1>>))),
   ContentID(HexText(<<61, 0, 2>>), HexText(Sum256(<<61, 0, 1>>))),
   ContentID(Upper(<<61, 0, 1>>), HexText(Sum256(<<61, 0, 1>>))),
   ContentID(HexText(<<61, 0, 1>>), Upper(Sum256(<<61, 0, 1>>))),
   ContentID(HexText(<<4, 1>>), HexText(Sum256(<<4, 1>>))),
   ContentID(Garbage, HexText(Sum256(<<>>)))}

Reject(text, reason) == [kind |-> "reject", bytes |-> text, reason |-> reason]
Rejects ==
  {Reject(HexText(<<62, 1, 0, 0, 0>>), "unsorted-map-keys"),
   Reject(HexText(<<62, 1, 0, 0, 0>>), "duplicate-map-key"),
   Reject(Upper(<<61, 84, 0>>), "bad-map-key-type"),
   Reject(HexText(<<4, 1>>), "non-minimal"),
   Reject(HexText(<<61, 0, 1>>), "trailing-bytes"),
   Reject(HexText(<<55, 1, 0, 0, 0>>), "truncated"),
   Reject(HexText(<<30, 47, 95, 95>>), "truncated"),
   Reject(Garbage, "truncated")}
-----------------------------------------------------------------------------
Sig(key, claims) == HexText(Signature(key, claims))
Signing(seed, claims, pub, sig) ==
  [kind |-> "envelope-sign", seed |-> HexText(seed), claims_cbor |-> claims,
   public_key |-> HexText(pub), signature |-> sig]
Claims1 == <<61, 0, 1>>
Claims2 == <<61, 0, 2>>
Signings ==
  {Signing("alice", HexText(Claims1), "alice", Sig("alice", Claims1)),
   Signing("alice", HexText(Claims1), "bob", Sig("alice", Claims1)),
   Signing("alice", HexText(Claims1), "alice", Sig("alice", Claims2)),
   Signing("alice", HexText(<<48>>), "alice", Sig("alice", <<48>>)),
   Signing("alice", HexText(<<4, 1>>), "alice", Sig("alice", <<4, 1>>)),
   Signing("short", HexText(Claims1), "short", Sig("short", Claims1)),
   Signing("alice", Garbage, "alice", Sig("alice", Claims1))}

Verifying(key, claims, sig, valid) ==
  [kind |-> "envelope-verify", public_key |-> HexText(key), claims_cbor |-> claims,
   signature |-> sig, valid |-> valid]
Verifyings ==
  {Verifying("alice", HexText(Claims1), Sig("alice", Claims1), TRUE),
   Verifying("alice", HexText(Claims1), Sig("alice", Claims1), FALSE),
   Verifying("alice", HexText(Claims2), Sig("alice", Claims1), TRUE),
   Verifying("alice", HexText(Claims2), Sig("alice", Claims1), FALSE),
   Verifying("bob", HexText(Claims1), Sig("alice", Claims1), FALSE),
   Verifying("alice", HexText(<<4, 1>>), Sig("alice", <<4, 1>>), TRUE),
   Verifying("alice", HexText(<<4, 1>>), Sig("alice", <<4, 1>>), FALSE),
   Verifying("short", HexText(Claims1), Sig("alice", Claims1), TRUE),
   Verifying("alice", HexText(<<61, 0, 30, 47, 95, 95>>), Sig("alice", Claims1), FALSE),
   Verifying("alice", HexText(Claims1), Garbage, TRUE),
   [kind |-> "envelope-verify", public_key |-> HexText("alice"),
    claims_cbor |-> HexText(Claims1), signature |-> Sig("alice", Claims1)]}
-----------------------------------------------------------------------------
TableOf(describes, kind) ==
  Map(<<KF(0, Whole(describes)), KF(1, Whole(1)),
        KF(2, Items(<<Map(<<KF(0, Whole(0)), KF(1, [text |-> A]),
                             KF(2, Map(<<KF(0, Whole(kind))>>)), KF(3, Whole(0))>>)>>))>>)
Refusing(code, text, reason) ==
  [kind |-> "schema-reject", interpret_as |-> code, cbor |-> text, reason |-> reason]
NoDescribes == HexText(BytesOf(Map(<<KF(1, Whole(1)), KF(2, Items(<<>>))>>)))
NotAKey == HexText(BytesOf(Map(<<KF(7, Whole(0))>>)))
SchemaRejects ==
  {Refusing(0, NoDescribes, "malformed-field-table"),
   Refusing(0, NoDescribes, "malformed-entry"),
   Refusing(0, NotAKey, "unknown-field-key"),
   Refusing(0, Upper(NotAKey.hex), "unknown-field-key"),
   Refusing(0, HexText(BytesOf(TableOf(7, 6))), "malformed-type-descriptor"),
   Refusing(0, HexText(BytesOf(TableOf(7, 0))), "malformed-field-table"),
   Refusing(0, HexText(BytesOf(TableOf(96 ^ 3, 0))), "unresolved-ref"),
   Refusing(0, HexText(BytesOf(TableOf(Word - 1, 0))), "unresolved-ref"),
   Refusing(0, HexText(<<4, 1>>), "malformed-field-table"),
   Refusing(1, NotAKey, "unknown-field-key"),
   Refusing(0, Garbage, "unknown-field-key"),
   [kind |-> "schema-reject", cbor |-> NotAKey, reason |-> "unknown-field-key"]}

Corpus ==
  Encodes \cup WrongEncodes \cup NoValues \cup ContentIDs \cup Rejects
  \cup Signings \cup Verifyings \cup SchemaRejects \cup {[kind |-> "decode"]}

\* The recursion of package schema is tied.
MCNestedValue(td, v, reg, version) == S!InterpretValue(td, v, reg, version)
MCNestedType(ti) == S!ParseTypeDescriptor(ti)
=============================================================================
