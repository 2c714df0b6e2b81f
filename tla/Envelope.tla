------------------------------ MODULE Envelope ------------------------------
(***************************************************************************)
(* Package envelope: Ed25519 signatures over canonical CBOR claims.  Sign  *)
(* and Verify first put the claims through the gate, a run of Decode, and  *)
(* only then touch a signature.                                            *)
(*                                                                         *)
(* Ed25519 is symbolic: a signature is the pair of the key that made it    *)
(* and the exact bytes it covers, and none can be presented that nobody    *)
(* made.  A seed and its public key have one name.                         *)
(***************************************************************************)
EXTENDS Decoder, FiniteSets

CONSTANTS
  Keys,           \* seeds and public keys of the right length
  BadKey,         \* one of any other length
  MaxSignatures   \* bound: how many signatures come to exist

ASSUME KeysAssumption == BadKey \notin Keys

VARIABLES
  made,   \* the signatures that exist
  call    \* the call of Sign or Verify that is running or ran last, and its result

envVars == <<vars, made, call>>

Signature(key, claims) == [by |-> key, over |-> claims]
Junk == Signature(BadKey, <<>>)    \* a signature that nobody made

\* Nothing has been called yet; the decoder's state means nothing before a call.
EnvInit ==
  /\ Init
  /\ made = {}
  /\ call = [op |-> "none", key |-> BadKey, claims |-> <<>>, sig |-> Junk, result |-> "none"]
-----------------------------------------------------------------------------
Idle == call.result \notin {"pending", "panic"}
Room == Cardinality(made) < MaxSignatures

\* gate calls Decode on the claims.
StartOver(claims) ==
  /\ data' = claims
  /\ pos' = 0
  /\ items' = 0
  /\ stack' = <<>>
  /\ out' = <<>>
  /\ pc' = "item"
  /\ outcome' = NoOutcome

CallMut(op, key, claims, sig) ==
  /\ Idle
  /\ call' = [op |-> op, key |-> key, claims |-> claims, sig |-> sig, result |-> "pending"]
  /\ StartOver(claims)
  /\ UNCHANGED made

\* The check of Sign and Verify before the gate.  A call with a bad key has its
\* answer at once: its claims are laid out like any others and never decoded.
Call(op, key, claims, sig) ==
  /\ Idle
  /\ call' = [op |-> op, key |-> key, claims |-> claims, sig |-> sig,
              result |-> IF key \in Keys THEN "pending" ELSE "bad-key"]
  /\ StartOver(claims)
  /\ UNCHANGED made

Decoding ==
  /\ call.result = "pending"
  /\ Next
  /\ UNCHANGED <<made, call>>

\* It asks for a map before it looks at the error.
TypeFirstMut ==
  CASE outcome.kind = "panic"   -> "panic"
    [] outcome.kind = "refused" -> "not-a-map"
    [] outcome.kind = "value"   -> IF Returned.m = 5 THEN "none" ELSE "not-a-map"

GateReasonMut ==
  CASE outcome.kind = "panic"   -> "panic"
    [] outcome.kind = "refused" -> "non-canonical"
    [] outcome.kind = "value"   -> IF Returned.m \in {4, 5} THEN "none" ELSE "not-a-map"

\* What the gate returns, or lets through as a panic.
GateReason ==
  CASE outcome.kind = "panic"   -> "panic"
    [] outcome.kind = "refused" -> "non-canonical"
    [] outcome.kind = "value"   -> IF Returned.m = 5 THEN "none" ELSE "not-a-map"

Answer(result) ==
  /\ call.result = "pending"
  /\ pc = "done"
  /\ call' = [call EXCEPT !.result = result]
  /\ UNCHANGED vars

GateRefuses ==
  /\ Answer(GateReason)
  /\ GateReason # "none"
  /\ UNCHANGED made

SignClaims ==
  /\ Answer("signed")
  /\ GateReason = "none" /\ call.op = "sign"
  /\ made' = made \cup {Signature(call.key, data)}

VerifyClaims ==
  /\ Answer(IF call.sig = Signature(call.key, data) THEN "valid" ELSE "invalid")
  /\ GateReason = "none" /\ call.op = "verify"
  /\ UNCHANGED made

Proceed == Decoding \/ GateRefuses \/ SignClaims \/ VerifyClaims

\* Other implementations, and other gates than this one, sign with the same keys.
SignElsewhere ==
  /\ Room
  /\ \E key \in Keys, claims \in Inputs : made' = made \cup {Signature(key, claims)}
  /\ UNCHANGED <<vars, call>>

EnvNext ==
  \/ \E key \in Keys \cup {BadKey}, claims \in Inputs :
       \/ Room /\ Call("sign", key, claims, Junk)
       \/ \E sig \in made \cup {Junk} : Call("verify", key, claims, sig)
  \/ Proceed
  \/ SignElsewhere

\* A call runs on its caller's goroutine and waits for nobody.
EnvSpec == EnvInit /\ [][EnvNext]_envVars /\ WF_envVars(Proceed)
-----------------------------------------------------------------------------
\* Type invariant of the calls and the signatures.
EnvTypeOK ==
  /\ made \subseteq [by : Keys, over : Bytes]
  /\ call.sig \in made \cup {Junk}
  /\ call \in [op : {"none", "sign", "verify"}, key : Keys \cup {BadKey}, claims : Bytes,
              sig : [by : Keys \cup {BadKey}, over : Bytes],
              result : {"none", "pending", "bad-key", "non-canonical", "not-a-map", "panic",
                        "signed", "valid", "invalid"}]

\* The bytes the decoder holds are one canonical map, canonical all through.
HoldsCanonicalMap ==
  /\ outcome.kind = "value"
  /\ \A i \in 1..Len(out) : Canonical(out[i])
  /\ out # <<>> /\ Returned.m = 5 /\ Returned.at = 0 /\ Returned.end = Len(data)

\* A signature is made or judged only over the very bytes that were offered,
\* once those bytes have proved to be one canonical map; and what is reported
\* signed or valid is a signature of that key over those bytes, which exists.
SignaturesAreGated ==
  /\ call.result \in {"signed", "valid", "invalid"} => HoldsCanonicalMap /\ data = call.claims
  /\ call.result \in {"signed", "valid"} => Signature(call.key, call.claims) \in made
=============================================================================
