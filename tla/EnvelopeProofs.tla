--------------------------- MODULE EnvelopeProofs ---------------------------
(***************************************************************************)
(* The signature of an envelope is made and judged behind the gate, for    *)
(* every set of keys, every claims, every limit and every native int.  The *)
(* proofs rest on the invariants of the decoder, which a call of Sign or   *)
(* Verify starts afresh.                                                   *)
(***************************************************************************)
EXTENDS Envelope, ArtifactProofs

\* Once Decode is done it has a verdict.
Settled == pc = "done" => outcome.kind \in {"value", "refused", "panic"}

\* What the decoder guarantees at every moment of a run.
DecoderInv == TypeInv /\ Quiet /\ CanonInv /\ Settled

\* A call is bound to the bytes in the decoder, and its good results to what
\* the gate has let through.
Bound ==
  /\ call.result = "pending" => data = call.claims /\ call.key \in Keys
  /\ call.result \in {"signed", "valid", "invalid"} =>
       pc = "done" /\ GateReason = "none" /\ data = call.claims
  /\ call.result \in {"signed", "valid"} => Signature(call.key, call.claims) \in made

EnvInv == DecoderInv /\ EnvTypeOK /\ Bound

\* Every step of Decode that ends it leaves a verdict.
LEMMA SettledStep == TypeInv /\ Settled /\ [Next]_vars => Settled'
<1> SUFFICES ASSUME TypeInv, Settled, [Next]_vars
             PROVE  Settled'
  OBVIOUS
<1>1. CASE Boolean \/ Integer \/ String
  <2>1. PICK v \in Node : LeafOK(v)
    BY <1>1, LeafFacts
  <2> QED
    BY <2>1 DEF LeafOK, Yield, Settled
<1>2. CASE Open
  <2>1. PICK f \in Frame : Opens(f)
    BY <1>2, OpenFacts
  <2> QED
    BY <2>1 DEF Opens, Resume, Settled
<1>3. CASE Element \/ MapValue \/ MapKey
  <2>1. PICK f \in Frame : Stores(f)
    BY <1>3, StoreFacts
  <2> QED
    BY <2>1 DEF Stores, Store, Resume, Settled
<1>4. CASE Close
  BY <1>4 DEF Close, Settled
<1>5. CASE Accept
  BY <1>5 DEF Accept, Settled
<1>6. CASE Ending
  BY <1>6, EndFacts DEF Stops, Settled
<1>7. CASE UNCHANGED vars
  BY <1>7 DEF vars, Settled
<1> QED
  BY <1>1, <1>2, <1>3, <1>4, <1>5, <1>6, <1>7 DEF Next, Ending

\* A run of Decode preserves what the decoder guarantees.
LEMMA DecoderStep == DecoderInv /\ [Next]_vars => DecoderInv'
BY TypeStep, QuietStep, CanonStep, SettledStep DEF DecoderInv

\* It holds whenever Decode is called.
LEMMA DecoderInit == Init => DecoderInv
<1>1. Init => Quiet /\ Settled
  BY DEF Init, Start, Quiet, Settled, NoOutcome
<1> QED
  BY <1>1, TypeInit, CanonInit DEF DecoderInv

\* A call of Decode from within a step establishes it, too.
LEMMA StartOverStep ==
  ASSUME NEW c \in Inputs, StartOver(c)
  PROVE  DecoderInv'
<1>1. Init'
  BY DEF Init, Start, StartOver
<1>2. Init' => DecoderInv'
  BY DecoderInit, PTL
<1> QED
  BY <1>1, <1>2

\* The junk signature covers no bytes.
LEMMA JunkType == Junk \in [by : Keys \cup {BadKey}, over : Bytes]
BY EmptySeq DEF Junk, Signature, Bytes

\* Nothing has been signed before the first call.
LEMMA EnvInitial == EnvInit => EnvInv
<1> SUFFICES ASSUME EnvInit
             PROVE  EnvInv
  OBVIOUS
<1>1. DecoderInv
  BY DecoderInit DEF EnvInit
<1>2. EnvTypeOK
  BY JunkType DEF EnvInit, EnvTypeOK, Junk, Signature
<1>3. Bound
  BY DEF EnvInit, Bound
<1> QED
  BY <1>1, <1>2, <1>3 DEF EnvInv

\* A call lays out its claims for the decoder.
LEMMA CallStep ==
  ASSUME EnvInv, NEW op \in {"sign", "verify"}, NEW key \in Keys \cup {BadKey},
         NEW c \in Inputs, NEW sig \in made \cup {Junk}, Call(op, key, c, sig)
  PROVE  EnvInv'
<1>1. DecoderInv'
  BY StartOverStep DEF Call
<1>2. /\ call' = [op |-> op, key |-> key, claims |-> c, sig |-> sig,
                  result |-> IF key \in Keys THEN "pending" ELSE "bad-key"]
      /\ data' = c /\ made' = made
  BY DEF Call, StartOver
<1>3. sig \in [by : Keys \cup {BadKey}, over : Bytes] /\ c \in Bytes
  BY JunkType, InputsAssumption DEF EnvInv, EnvTypeOK
<1>4. EnvTypeOK'
  BY <1>2, <1>3 DEF EnvInv, EnvTypeOK
<1>5. Bound'
  BY <1>2 DEF Bound
<1> QED
  BY <1>1, <1>4, <1>5 DEF EnvInv

\* Decode works on the claims of its call and leaves them alone.
LEMMA DecodingStep == EnvInv /\ Decoding => EnvInv'
<1> SUFFICES ASSUME EnvInv, Decoding
             PROVE  EnvInv'
  OBVIOUS
<1>1. DecoderInv'
  BY DecoderStep DEF EnvInv, Decoding
<1>2. call.result = "pending" /\ made' = made /\ call' = call /\ Next
  BY DEF Decoding
<1>3. data' = data
  <2>1. TypeInv
    BY DEF EnvInv, DecoderInv
  <2>2. CASE Boolean \/ Integer \/ String
    BY <2>1, <2>2, LeafFacts DEF LeafOK, Yield
  <2>3. CASE Open
    BY <2>1, <2>3, OpenFacts DEF Opens
  <2>4. CASE Element \/ MapValue \/ MapKey
    BY <2>1, <2>4, StoreFacts DEF Stores, Store
  <2>5. CASE Close \/ Accept
    BY <2>5 DEF Close, Accept
  <2>6. CASE Ending
    BY <2>1, <2>6, EndFacts DEF Stops
  <2> QED
    BY <1>2, <2>2, <2>3, <2>4, <2>5, <2>6 DEF Next, Ending
<1>4. EnvTypeOK'
  BY <1>2 DEF EnvInv, EnvTypeOK
<1>5. Bound'
  BY <1>2, <1>3 DEF EnvInv, Bound
<1> QED
  BY <1>1, <1>4, <1>5 DEF EnvInv

\* The answer to a call is about the claims that were decoded.
LEMMA AnswerStep ==
  ASSUME EnvInv, GateRefuses \/ SignClaims \/ VerifyClaims
  PROVE  EnvInv'
<1>1. /\ UNCHANGED vars /\ call.result = "pending" /\ pc = "done"
      /\ data = call.claims /\ call.key \in Keys
  BY DEF GateRefuses, SignClaims, VerifyClaims, Answer, EnvInv, Bound
<1>2. DecoderInv'
  BY <1>1, DecoderStep DEF EnvInv
<1>3. /\ call.sig \in made \cup {Junk} /\ call.claims \in Bytes
      /\ made \subseteq [by : Keys, over : Bytes]
      /\ outcome.kind \in {"value", "refused", "panic"}
  BY <1>1 DEF EnvInv, EnvTypeOK, DecoderInv, Settled
<1>4. GateReason' = GateReason /\ pc' = pc /\ data' = data
  BY <1>1 DEF vars, GateReason, Returned
<1>5. CASE GateRefuses
  <2>1. /\ GateReason \in {"panic", "non-canonical", "not-a-map"}
        /\ call' = [call EXCEPT !.result = GateReason] /\ made' = made
    BY <1>3, <1>5 DEF GateRefuses, Answer, GateReason
  <2>2. EnvTypeOK'
    BY <1>1, <2>1 DEF EnvInv, EnvTypeOK
  <2>3. Bound'
    BY <2>1, <2>2 DEF EnvTypeOK, EnvInv, Bound
  <2> QED
    BY <1>2, <2>2, <2>3 DEF EnvInv
<1>6. CASE SignClaims
  <2>1. /\ GateReason = "none" /\ call' = [call EXCEPT !.result = "signed"]
        /\ made' = made \cup {Signature(call.key, data)}
    BY <1>6 DEF SignClaims, Answer
  <2>2. EnvTypeOK'
    BY <1>1, <1>3, <2>1 DEF EnvInv, EnvTypeOK, Signature
  <2>3. /\ call'.result = "signed" /\ call'.key = call.key /\ call'.claims = call.claims
    BY <2>1 DEF EnvInv, EnvTypeOK
  <2>4. Bound'
    BY <1>1, <1>4, <2>1, <2>3 DEF Bound, Signature
  <2> QED
    BY <1>2, <2>2, <2>4 DEF EnvInv
<1>7. CASE VerifyClaims
  <2> DEFINE r == IF call.sig = Signature(call.key, data) THEN "valid" ELSE "invalid"
  <2>1. GateReason = "none" /\ call' = [call EXCEPT !.result = r] /\ made' = made
    BY <1>7 DEF VerifyClaims, Answer
  <2>2. EnvTypeOK'
    BY <1>1, <1>3, <2>1 DEF EnvInv, EnvTypeOK
  <2>3. call'.result = r /\ call'.key = call.key /\ call'.claims = call.claims
    BY <2>1 DEF EnvInv, EnvTypeOK
  <2>4. r = "valid" => Signature(call.key, data) \in made
    BY <1>1, <1>3, KeysAssumption DEF Signature, Junk
  <2>5. Bound'
    BY <1>1, <1>4, <2>1, <2>3, <2>4 DEF Bound
  <2> QED
    BY <1>2, <2>2, <2>5 DEF EnvInv
<1> QED
  BY <1>5, <1>6, <1>7

\* Signing elsewhere adds signatures and touches nothing else.
LEMMA ElsewhereStep == EnvInv /\ SignElsewhere => EnvInv'
<1> SUFFICES ASSUME EnvInv, SignElsewhere
             PROVE  EnvInv'
  OBVIOUS
<1>1. PICK key \in Keys, c \in Inputs : made' = made \cup {Signature(key, c)}
  BY DEF SignElsewhere
<1>2. UNCHANGED vars /\ call' = call
  BY DEF SignElsewhere
<1>3. DecoderInv'
  BY <1>2, DecoderStep DEF EnvInv
<1>4. EnvTypeOK'
  BY <1>1, <1>2, InputsAssumption DEF EnvInv, EnvTypeOK, Signature
<1>5. GateReason' = GateReason /\ pc' = pc /\ data' = data
  BY <1>2 DEF vars, GateReason, Returned
<1>6. Bound'
  BY <1>1, <1>2, <1>5 DEF EnvInv, Bound
<1> QED
  BY <1>3, <1>4, <1>6 DEF EnvInv

\* Every step preserves the invariant.
LEMMA EnvStep == EnvInv /\ [EnvNext]_envVars => EnvInv'
<1> SUFFICES ASSUME EnvInv, [EnvNext]_envVars
             PROVE  EnvInv'
  OBVIOUS
<1>1. CASE Proceed
  BY <1>1, DecodingStep, AnswerStep DEF Proceed
<1>2. CASE SignElsewhere
  BY <1>2, ElsewhereStep
<1>3. CASE \E key \in Keys \cup {BadKey}, claims \in Inputs :
             \/ Room /\ Call("sign", key, claims, Junk)
             \/ \E sig \in made \cup {Junk} : Call("verify", key, claims, sig)
  BY <1>3, CallStep
<1>4. CASE UNCHANGED envVars
  <2>1. UNCHANGED vars /\ made' = made /\ call' = call
    BY <1>4 DEF envVars
  <2>2. DecoderInv'
    BY <2>1, DecoderStep DEF EnvInv
  <2>3. EnvTypeOK'
    BY <2>1 DEF EnvInv, EnvTypeOK
  <2>4. GateReason' = GateReason /\ pc' = pc /\ data' = data
    BY <2>1 DEF vars, GateReason, Returned
  <2>5. Bound'
    BY <2>1, <2>4 DEF EnvInv, Bound
  <2> QED
    BY <2>2, <2>3, <2>5 DEF EnvInv
<1> QED
  BY <1>1, <1>2, <1>3, <1>4 DEF EnvNext

\* Calls and signatures are well typed.
THEOREM EnvTypeCorrect == EnvSpec => []EnvTypeOK
<1>1. EnvInv => EnvTypeOK
  BY DEF EnvInv
<1> QED
  BY <1>1, EnvInitial, EnvStep, PTL DEF EnvSpec

\* What is signed, or reported valid or invalid, is one canonical map, byte for
\* byte the claims of the call; and a signature that is reported exists.
THEOREM OnlyGatedSignatures == EnvSpec => []SignaturesAreGated
<1>1. EnvInv => SignaturesAreGated
  <2> SUFFICES ASSUME EnvInv
               PROVE  SignaturesAreGated
    OBVIOUS
  <2>1. ASSUME call.result \in {"signed", "valid", "invalid"}
        PROVE  HoldsCanonicalMap /\ data = call.claims
    <3>1. pc = "done" /\ GateReason = "none" /\ data = call.claims
      BY <2>1 DEF EnvInv, Bound
    <3>2. outcome.kind \in {"value", "refused", "panic"}
      BY <3>1 DEF EnvInv, DecoderInv, Settled
    <3>3. outcome.kind = "value" /\ Returned.m = 5
      BY <3>1, <3>2 DEF GateReason
    <3> QED
      BY <3>1, <3>3 DEF EnvInv, DecoderInv, CanonInv, HeapOK, VerdictOK, HoldsCanonicalMap
  <2> QED
    BY <2>1 DEF EnvInv, Bound, SignaturesAreGated
<1> QED
  BY <1>1, EnvInitial, EnvStep, PTL DEF EnvSpec
-----------------------------------------------------------------------------
(***************************************************************************)
(* The package keeps the promise of Attest, but for a panic: what happens  *)
(* between a call and its answer is invisible, and the answer is decided   *)
(* by whether the claims are a canonical artifact, and their outermost     *)
(* value a map.                                                            *)
(***************************************************************************)
\* The claims that are one canonical map within the limits, and those that are
\* another value.
Attestable == {d \in Inputs : IsArtifact(d) /\ MajorOf(d, 0) = 5}
OtherValues == {d \in Inputs : IsArtifact(d) /\ MajorOf(d, 0) # 5}

Promise == INSTANCE Attest WITH Claims <- Inputs

\* A panic of Decode goes through the gate, and the call is lost.
CallLost ==
  /\ GateRefuses
  /\ outcome.kind = "panic"
  /\ call.claims \notin Attestable \cup OtherValues

\* The calls of envelope have the invariants of both: their own, and those by
\* which Decode accepts the artifacts; and Decode has the claims of a call.
AttestInv == EnvInv /\ ArtifactInv /\ data \in Inputs

\* Nothing has been called yet.
LEMMA AttestInitial == EnvInit => AttestInv
BY EnvInitial, ArtifactInit DEF EnvInit, AttestInv, Init, Start

\* A call of Decode from within a step starts it afresh.
LEMMA StartOverArtifact ==
  ASSUME NEW c \in Inputs, StartOver(c)
  PROVE  ArtifactInv' /\ data' \in Inputs
<1>1. Init' /\ data' = c
  BY DEF Init, Start, StartOver
<1>2. Init' => ArtifactInv'
  BY ArtifactInit, PTL
<1> QED
  BY <1>1, <1>2

\* Every step preserves the invariants.
LEMMA AttestStep == AttestInv /\ [EnvNext]_envVars => AttestInv'
<1> SUFFICES ASSUME AttestInv, [EnvNext]_envVars
             PROVE  AttestInv'
  OBVIOUS
<1>1. EnvInv'
  BY EnvStep DEF AttestInv
<1>2. CASE \E key \in Keys \cup {BadKey}, claims \in Inputs :
             \/ Room /\ Call("sign", key, claims, Junk)
             \/ \E sig \in made \cup {Junk} : Call("verify", key, claims, sig)
  BY <1>1, <1>2, StartOverArtifact DEF Call, AttestInv
<1>3. CASE Decoding
  <2>1. data' = data
    BY <1>3, DataStays DEF Decoding, AttestInv, ArtifactInv
  <2> QED
    BY <1>1, <1>3, <2>1, ArtifactStep DEF Decoding, AttestInv
<1>4. CASE UNCHANGED vars
  BY <1>1, <1>4, ArtifactStep DEF AttestInv, vars
<1>5. GateRefuses \/ SignClaims \/ VerifyClaims \/ SignElsewhere \/ UNCHANGED envVars
        => UNCHANGED vars
  BY DEF GateRefuses, SignClaims, VerifyClaims, Answer, SignElsewhere, envVars
<1> QED
  BY <1>2, <1>3, <1>4, <1>5 DEF EnvNext, Proceed

\* The gate lets exactly the claims through that are a canonical map, and names
\* the fault of the others, unless Decode panics; it does on no artifact.
LEMMA GateIsExact ==
  ASSUME AttestInv, pc = "done", call.result = "pending"
  PROVE  /\ data = call.claims
         /\ GateReason = "none" <=> call.claims \in Attestable
         /\ outcome.kind = "panic" => call.claims \notin Attestable \cup OtherValues
         /\ outcome.kind # "panic" /\ GateReason # "none" =>
              GateReason = Promise!Fault(call.claims)
<1>1. /\ data = call.claims /\ data \in Inputs
      /\ outcome.kind \in {"value", "refused", "panic"}
  BY DEF AttestInv, ArtifactInv, EnvInv, Bound, DecoderInv, Settled
<1>2. outcome.kind = "value" <=> IsArtifact(data)
  BY AcceptsNow, OnlyNow DEF AttestInv, AcceptsArtifacts, OnlyArtifacts
<1>3. outcome.kind = "value" => Returned.m = MajorOf(data, 0)
  <2> SUFFICES ASSUME outcome.kind = "value" PROVE Returned.m = MajorOf(data, 0)
    OBVIOUS
  <2>1. /\ out # <<>> /\ Returned.at = 0 /\ TypeInv /\ HeapOK
    BY DEF AttestInv, ArtifactInv, CanonInv, VerdictOK
  <2>2. Len(out) \in 1..Len(out)
    BY <2>1, ReturnedType DEF TypeInv
  <2> QED
    BY <2>1, <2>2, AcceptedHead DEF Returned
<1>4. /\ GateReason = "none" <=> outcome.kind = "value" /\ Returned.m = 5
      /\ outcome.kind = "value" /\ Returned.m # 5 => GateReason = "not-a-map"
      /\ outcome.kind = "refused" => GateReason = "non-canonical"
  BY <1>1 DEF GateReason
<1>5. outcome.kind = "value" <=> call.claims \in Attestable \cup OtherValues
  BY <1>1, <1>2 DEF Attestable, OtherValues
<1>6. outcome.kind = "value" => (Returned.m = 5 <=> call.claims \in Attestable)
                                /\ (Returned.m # 5 <=> call.claims \in OtherValues)
  BY <1>1, <1>2, <1>3 DEF Attestable, OtherValues
<1> QED
  BY <1>1, <1>4, <1>5, <1>6 DEF Promise!Fault

\* Every step of a call, or beside it, is a step of the promise or is invisible,
\* but for the panic.
LEMMA PromiseStep ==
  AttestInv /\ [EnvNext]_envVars => [Promise!Next \/ CallLost]_<<made, call>>
<1> SUFFICES ASSUME AttestInv, [EnvNext]_envVars
             PROVE  Promise!Next \/ CallLost \/ UNCHANGED <<made, call>>
  OBVIOUS
<1>1. CASE \E key \in Keys \cup {BadKey}, claims \in Inputs :
             \/ Room /\ Call("sign", key, claims, Junk)
             \/ \E sig \in made \cup {Junk} : Call("verify", key, claims, sig)
  <2>1. PICK key \in Keys \cup {BadKey}, claims \in Inputs, op \in {"sign", "verify"},
             sig \in made \cup {Junk} : Call(op, key, claims, sig)
    BY <1>1
  <2>2. Promise!Ask
    BY <2>1 DEF Call, Idle, Junk, Signature, Promise!Ask, Promise!Junk, Promise!Signature
  <2> QED
    BY <2>2 DEF Promise!Next
<1>2. CASE Decoding
  BY <1>2 DEF Decoding
<1>3. CASE GateRefuses
  <2>1. /\ pc = "done" /\ call.result = "pending" /\ GateReason # "none" /\ made' = made
        /\ call' = [call EXCEPT !.result = GateReason]
    BY <1>3 DEF GateRefuses, Answer
  <2>2. CASE outcome.kind = "panic"
    BY <1>3, <2>1, <2>2, GateIsExact DEF CallLost
  <2>3. CASE outcome.kind # "panic"
    <3>1. /\ call.claims \notin Attestable
          /\ GateReason = Promise!Fault(call.claims)
      BY <2>1, <2>3, GateIsExact
    <3>2. Promise!Refuse
      BY <2>1, <3>1 DEF Promise!Refuse, Promise!Answer
    <3> QED
      BY <3>2 DEF Promise!Next
  <2> QED
    BY <2>2, <2>3
<1>4. CASE SignClaims
  <2>1. /\ pc = "done" /\ call.result = "pending" /\ GateReason = "none" /\ call.op = "sign"
        /\ call' = [call EXCEPT !.result = "signed"]
        /\ made' = made \cup {Signature(call.key, data)}
    BY <1>4 DEF SignClaims, Answer
  <2>2. data = call.claims /\ call.claims \in Attestable
    BY <2>1, GateIsExact
  <2>3. Promise!Sign
    BY <2>1, <2>2 DEF Promise!Sign, Promise!Answer, Promise!Signature, Signature
  <2> QED
    BY <2>3 DEF Promise!Next
<1>5. CASE VerifyClaims
  <2>1. /\ pc = "done" /\ call.result = "pending" /\ GateReason = "none" /\ call.op = "verify"
        /\ call' = [call EXCEPT !.result = IF call.sig = Signature(call.key, data)
                                           THEN "valid" ELSE "invalid"]
        /\ made' = made
    BY <1>5 DEF VerifyClaims, Answer
  <2>2. data = call.claims /\ call.claims \in Attestable
    BY <2>1, GateIsExact
  <2>3. Promise!Verify
    BY <2>1, <2>2 DEF Promise!Verify, Promise!Answer, Promise!Signature, Signature
  <2> QED
    BY <2>3 DEF Promise!Next
<1>6. CASE SignElsewhere
  <2>1. Promise!SignElsewhere
    BY <1>6 DEF SignElsewhere, Signature, Promise!SignElsewhere, Promise!Signature
  <2> QED
    BY <2>1 DEF Promise!Next
<1>7. CASE UNCHANGED envVars
  BY <1>7 DEF envVars
<1> QED
  BY <1>1, <1>2, <1>3, <1>4, <1>5, <1>6, <1>7 DEF EnvNext, Proceed

\* The safety part of the promise of package envelope: seen from outside, a call
\* is answered in one step, by what the holder of the key signed if its claims
\* are one canonical map within the limits, and otherwise by the refusal that
\* names their fault.  A call can be lost to a panic, but not one with canonical
\* claims within the limits.
THEOREM EnvelopeAttests ==
  EnvSpec => Promise!Init /\ [][Promise!Next \/ CallLost]_<<made, call>>
<1>1. EnvInit => Promise!Init
  BY DEF EnvInit, Junk, Signature, Promise!Init, Promise!Junk, Promise!Signature
<1> QED
  BY <1>1, AttestInitial, AttestStep, PromiseStep, PTL DEF EnvSpec
=============================================================================
