----------------------------- MODULE Agreement -----------------------------
(***************************************************************************)
(* Two conformant decoders, A and B, that declare different limits and run *)
(* on machines with different native ints, read the same artifact; B may   *)
(* find more bytes behind it.  Nothing is shared, so no step of one can    *)
(* tell how far the other has come, and every schedule leads to the same   *)
(* two verdicts: they run step by step, side by side, until one is done.   *)
(***************************************************************************)
EXTENDS Integers, Sequences

CONSTANTS
  Imm, Widths, BOM, ValidUTF8(_), IsNFC(_), Inputs,
  IntHalfA, MaxDepthA, MaxItemsA,
  IntHalfB, MaxDepthB, MaxItemsB,
  Tails                      \* what may follow the artifact in B's input

VARIABLES
  dataA, posA, itemsA, stackA, outA, pcA, outcomeA,
  dataB, posB, itemsB, stackB, outB, pcB, outcomeB

A == INSTANCE Decoder WITH
       IntHalf <- IntHalfA, MaxDepth <- MaxDepthA, MaxItems <- MaxItemsA,
       data <- dataA, pos <- posA, items <- itemsA, stack <- stackA,
       out <- outA, pc <- pcA, outcome <- outcomeA
B == INSTANCE Decoder WITH
       IntHalf <- IntHalfB, MaxDepth <- MaxDepthB, MaxItems <- MaxItemsB,
       data <- dataB, pos <- posB, items <- itemsB, stack <- stackB,
       out <- outB, pc <- pcB, outcome <- outcomeB

\* Both decoders are builds of the code, and a Go slice is indexed by an int.
ASSUME BuildA ==
  /\ A!ImmAssumption /\ A!WidthsAssumption /\ A!PowerAssumption /\ A!BOMAssumption
  /\ A!IntAssumption /\ A!LimitsAssumption /\ A!InputsAssumption
ASSUME BuildB == B!IntAssumption /\ B!LimitsAssumption /\ B!InputsAssumption
ASSUME TailsAssumption ==
  \A d \in Inputs, t \in Tails : t \in B!Bytes /\ Len(d \o t) < IntHalfB

varsA == <<dataA, posA, itemsA, stackA, outA, pcA, outcomeA>>
varsB == <<dataB, posB, itemsB, stackB, outB, pcB, outcomeB>>
vars == <<varsA, varsB>>

Init ==
  \E d \in Inputs, t \in Tails : A!Start(d) /\ B!Start(d \o t)

Together == A!Next /\ B!Next
OnlyA == pcB = "done" /\ A!Next /\ UNCHANGED varsB
OnlyB == pcA = "done" /\ B!Next /\ UNCHANGED varsA
Next == Together \/ OnlyA \/ OnlyB

Spec == Init /\ [][Next]_vars
-----------------------------------------------------------------------------
\* Both returned, and neither hit a limit of its own.
ByBytesAlone ==
  /\ outcomeA.kind \in {"value", "refused"} /\ outcomeA.reason \notin A!LimitRelative
  /\ outcomeB.kind \in {"value", "refused"} /\ outcomeB.reason \notin A!LimitRelative

\* On the same input the two decoders give the same value, or the same reason
\* at the same position, unless one of them hit a limit of its own: a
\* byte-determined reason is a function of the bytes alone.
SameVerdict ==
  ByBytesAlone /\ dataA = dataB => outcomeA = outcomeB /\ (outcomeA.kind = "value" => outA = outB)

\* A verdict other than "truncated" is settled by the bytes read: more bytes
\* behind the artifact turn an acceptance into "trailing-bytes" at the end of
\* the artifact and leave every refusal as it was.
SettledByPrefix ==
  ByBytesAlone /\ dataA # dataB =>
    /\ outcomeA.kind = "value" =>
         outcomeB = [kind |-> "refused", reason |-> "trailing-bytes", at |-> Len(dataA)]
    /\ outcomeA.kind = "refused" /\ outcomeA.reason # "truncated" => outcomeB = outcomeA
=============================================================================
