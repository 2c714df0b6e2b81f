------------------------------- MODULE Attest -------------------------------
(***************************************************************************)
(* What package envelope promises its callers, and nothing of how it       *)
(* decides: a call of Sign or Verify is answered once, for claims that are *)
(* one canonical map by what the holder of the key signed, and for all     *)
(* others by the refusal that says what is wrong with them.  A panic is no *)
(* answer, and none is promised.                                           *)
(***************************************************************************)
CONSTANTS
  Keys, BadKey,   \* the keys, and key material of the wrong length
  Claims,         \* the byte strings that are offered as claims
  Attestable,     \* those of them that are one canonical map within the limits
  OtherValues     \* those that are a canonical value within the limits but no map

VARIABLES
  made,           \* the signatures that exist
  call            \* the last call, with result "pending" until it is answered

vars == <<made, call>>

Signature(key, claims) == [by |-> key, over |-> claims]
Junk == Signature(BadKey, <<>>)

\* What is wrong with claims that are not attested.  One error stands for all
\* that is not canonical and for all that is beyond the limits.
Fault(claims) == IF claims \in OtherValues THEN "not-a-map" ELSE "non-canonical"

Init ==
  /\ made = {}
  /\ call = [op |-> "none", key |-> BadKey, claims |-> <<>>, sig |-> Junk, result |-> "none"]
-----------------------------------------------------------------------------
\* Somebody calls, with any key, any claims and any signature there is.
Ask ==
  /\ call.result # "pending"
  /\ \E op \in {"sign", "verify"}, key \in Keys \cup {BadKey}, claims \in Claims,
        sig \in made \cup {Junk} :
       call' = [op |-> op, key |-> key, claims |-> claims, sig |-> sig,
                result |-> IF key \in Keys THEN "pending" ELSE "bad-key"]
  /\ UNCHANGED made

Answer(result) ==
  /\ call.result = "pending"
  /\ call' = [call EXCEPT !.result = result]

Refuse ==
  /\ call.claims \notin Attestable
  /\ Answer(Fault(call.claims))
  /\ UNCHANGED made

Sign ==
  /\ call.claims \in Attestable
  /\ call.op = "sign"
  /\ Answer("signed")
  /\ made' = made \cup {Signature(call.key, call.claims)}

Verify ==
  /\ call.claims \in Attestable
  /\ call.op = "verify"
  /\ Answer(IF call.sig = Signature(call.key, call.claims) THEN "valid" ELSE "invalid")
  /\ UNCHANGED made

\* A key holder may also sign what it likes without this package.
SignElsewhere ==
  /\ \E key \in Keys, claims \in Claims : made' = made \cup {Signature(key, claims)}
  /\ UNCHANGED call

Next == Ask \/ Refuse \/ Sign \/ Verify \/ SignElsewhere

\* Every call is answered.
Spec == Init /\ [][Next]_vars /\ WF_vars(Refuse \/ Sign \/ Verify)
=============================================================================
