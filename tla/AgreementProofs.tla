-------------------------- MODULE AgreementProofs --------------------------
(***************************************************************************)
(* Two decoders beside each other reach the same verdict on the same       *)
(* bytes, whatever their limits and native ints, unless one of them gives  *)
(* up for a reason of its own.                                             *)
(***************************************************************************)
EXTENDS Agreement, SequenceTheorems, TLAPS

\* What is proved of one decoder holds of each of the two.
AP == INSTANCE DecoderProofs WITH
        IntHalf <- IntHalfA, MaxDepth <- MaxDepthA, MaxItems <- MaxItemsA,
        data <- dataA, pos <- posA, items <- itemsA, stack <- stackA,
        out <- outA, pc <- pcA, outcome <- outcomeA
BP == INSTANCE DecoderProofs WITH
        IntHalf <- IntHalfB, MaxDepth <- MaxDepthB, MaxItems <- MaxItemsB,
        data <- dataB, pos <- posB, items <- itemsB, stack <- stackB,
        out <- outB, pc <- pcB, outcome <- outcomeB

\* Both are builds for which those results were proved.
LEMMA ABuilds ==
  /\ AP!ImmAssumption /\ AP!WidthsAssumption /\ AP!PowerAssumption /\ AP!BOMAssumption
  /\ AP!IntAssumption /\ AP!LimitsAssumption /\ AP!InputsAssumption
BY BuildA DEF A!ImmAssumption, AP!ImmAssumption, A!WidthsAssumption,
  AP!WidthsAssumption, A!PowerAssumption, AP!PowerAssumption, A!BOMAssumption,
  AP!BOMAssumption, A!IntAssumption, AP!IntAssumption, A!LimitsAssumption,
  AP!LimitsAssumption, A!InputsAssumption, AP!InputsAssumption, A!Radix, AP!Radix,
  A!AiCodes, AP!AiCodes, A!Word, AP!Word, A!Byte, AP!Byte, A!Bytes, AP!Bytes

\* The same for B, which shares the wire format with A.
LEMMA BBuilds ==
  /\ BP!ImmAssumption /\ BP!WidthsAssumption /\ BP!PowerAssumption /\ BP!BOMAssumption
  /\ BP!IntAssumption /\ BP!LimitsAssumption /\ BP!InputsAssumption
<1>1. /\ B!IntAssumption <=> BP!IntAssumption
      /\ B!LimitsAssumption <=> BP!LimitsAssumption
      /\ B!InputsAssumption <=> BP!InputsAssumption
  BY DEF B!ImmAssumption, BP!ImmAssumption, B!WidthsAssumption, BP!WidthsAssumption,
  B!PowerAssumption, BP!PowerAssumption, B!BOMAssumption, BP!BOMAssumption,
  B!IntAssumption, BP!IntAssumption, B!LimitsAssumption, BP!LimitsAssumption,
  B!InputsAssumption, BP!InputsAssumption, B!Radix, BP!Radix, B!AiCodes, BP!AiCodes,
  B!Word, BP!Word, B!Byte, BP!Byte, B!Bytes, BP!Bytes
<1>2. /\ A!ImmAssumption <=> BP!ImmAssumption
      /\ A!WidthsAssumption <=> BP!WidthsAssumption
      /\ A!PowerAssumption <=> BP!PowerAssumption
      /\ A!BOMAssumption <=> BP!BOMAssumption
  BY DEF A!ImmAssumption, BP!ImmAssumption, A!WidthsAssumption, BP!WidthsAssumption,
  A!PowerAssumption, BP!PowerAssumption, A!BOMAssumption, BP!BOMAssumption,
  A!IntAssumption, BP!IntAssumption, A!LimitsAssumption, BP!LimitsAssumption,
  A!InputsAssumption, BP!InputsAssumption, A!Radix, BP!Radix, A!AiCodes, BP!AiCodes,
  A!Word, BP!Word, A!Byte, BP!Byte, A!Bytes, BP!Bytes
<1> QED
  BY <1>1, <1>2, BuildA, BuildB

\* The steps of A are the steps those results are about.
LEMMA StepsOfA == A!Next <=> AP!Next
<1>1. /\ A!Depth = AP!Depth /\ A!Top = AP!Top /\ A!Returned = AP!Returned /\ A!b = AP!b /\ A!ai = AP!ai
  BY DEF A!Depth, AP!Depth, A!Top, AP!Top, A!Returned, AP!Returned, A!b, AP!b, A!ai,
    AP!ai, A!Ai, AP!Ai, A!AiCodes, AP!AiCodes
<1>2. /\ A!SimpleReason = AP!SimpleReason
  BY <1>1 DEF A!SimpleReason, AP!SimpleReason, A!SimpleFalse, AP!SimpleFalse,
    A!SimpleTrue, AP!SimpleTrue, A!Indefinite, AP!Indefinite
<1>3. /\ A!Body = AP!Body /\ A!Arg = AP!Arg
  BY DEF A!Body, AP!Body, A!Arg, AP!Arg, A!BodyAt, AP!BodyAt, A!ArgAt, AP!ArgAt, A!AiAt,
    AP!AiAt, A!Ai, AP!Ai, A!AiCodes, AP!AiCodes, A!Width, AP!Width, A!Slice, AP!Slice,
    A!Uint, AP!Uint, A!Radix, AP!Radix
<1>4. /\ A!ArgReason = AP!ArgReason
  BY <1>1, <1>3 DEF A!ArgReason, AP!ArgReason, A!Indefinite, AP!Indefinite, A!Reserved,
    AP!Reserved, A!Least, AP!Least, A!Radix, AP!Radix, A!AiCodes, AP!AiCodes
<1>5. /\ A!N = AP!N /\ (A!LengthLost <=> AP!LengthLost)
  BY <1>3 DEF A!N, AP!N, A!ToInt, AP!ToInt, A!LengthLost, AP!LengthLost, A!ToUint64,
    AP!ToUint64, A!Word, AP!Word, A!Radix, AP!Radix, A!AiCodes, AP!AiCodes
<1>6. (A!StringTruncated <=> AP!StringTruncated) /\ (A!StringPanics <=> AP!StringPanics)
  BY <1>3, <1>5 DEF A!StringTruncated, AP!StringTruncated, A!StringPanics,
    AP!StringPanics, A!ToInt, AP!ToInt
<1>7. /\ A!StringReason = AP!StringReason
  BY <1>1, <1>3, <1>5, <1>6 DEF A!StringReason, AP!StringReason, A!Slice, AP!Slice,
    A!TextReason, AP!TextReason, A!Agree, AP!Agree, A!Major, AP!Major, A!AiCodes,
    AP!AiCodes
<1>8. A!KeyReason(A!Top, A!Returned) = AP!KeyReason(AP!Top, AP!Returned)
  BY <1>1 DEF A!KeyReason, AP!KeyReason, A!KeyBytes, AP!KeyBytes, A!Slice, AP!Slice,
    A!IsText, AP!IsText, A!BytesLess, AP!BytesLess, A!Agree, AP!Agree
<1>9. (A!HeadRead <=> AP!HeadRead) /\ (A!ArgRead <=> AP!ArgRead) /\ A!Major(A!b) = AP!Major(AP!b)
  BY <1>1, <1>4 DEF A!HeadRead, AP!HeadRead, A!Count, AP!Count, A!ArgRead, AP!ArgRead,
    A!Major, AP!Major, A!AiCodes, AP!AiCodes
<1>10. /\ A!ItemTooDeep <=> AP!ItemTooDeep
       /\ A!ItemTooMany <=> AP!ItemTooMany
       /\ A!ItemAtEnd <=> AP!ItemAtEnd
  BY <1>1 DEF A!ItemTooDeep, AP!ItemTooDeep, A!ItemTooMany, AP!ItemTooMany, A!ItemAtEnd,
    AP!ItemAtEnd, A!Count, AP!Count, A!Refuse, AP!Refuse
<1>11. /\ A!Boolean <=> AP!Boolean
       /\ A!BadSimple <=> AP!BadSimple
       /\ A!Tag <=> AP!Tag
  BY <1>1, <1>2, <1>9 DEF A!Boolean, AP!Boolean, A!BadSimple, AP!BadSimple, A!Tag,
    AP!Tag, A!Yield, AP!Yield, A!Refuse, AP!Refuse
<1>12. /\ A!BadArg <=> AP!BadArg
       /\ A!Integer <=> AP!Integer
  BY <1>3, <1>4, <1>9 DEF A!BadArg, AP!BadArg, A!Integer, AP!Integer, A!Yield, AP!Yield,
    A!Refuse, AP!Refuse
<1>13. /\ A!StringPanic <=> AP!StringPanic
       /\ A!BadString <=> AP!BadString
       /\ A!String <=> AP!String
  BY <1>3, <1>5, <1>6, <1>7, <1>9 DEF A!StringPanic, AP!StringPanic, A!BadString,
    AP!BadString, A!String, AP!String, A!StringRead, AP!StringRead, A!Yield, AP!Yield,
    A!Refuse, AP!Refuse, A!Panic, AP!Panic
<1>14. /\ A!BadCount <=> AP!BadCount
       /\ A!CountPanic <=> AP!CountPanic
       /\ A!Open <=> AP!Open
  BY <1>3, <1>5, <1>9 DEF A!BadCount, AP!BadCount, A!CountPanic, AP!CountPanic, A!Open,
    AP!Open, A!ContainerRead, AP!ContainerRead, A!Refuse, AP!Refuse, A!Panic, AP!Panic,
    A!Resume, AP!Resume, A!Slots, AP!Slots
<1>15. /\ A!Element <=> AP!Element
       /\ A!MapValue <=> AP!MapValue
  BY <1>1 DEF A!Element, AP!Element, A!MapValue, AP!MapValue, A!Returning, AP!Returning,
    A!Store, AP!Store, A!Resume, AP!Resume, A!Slots, AP!Slots
<1>16. /\ A!BadMapKey <=> AP!BadMapKey
       /\ A!MapKey <=> AP!MapKey
  BY <1>1, <1>8 DEF A!BadMapKey, AP!BadMapKey, A!MapKey, AP!MapKey, A!KeyReturned,
    AP!KeyReturned, A!Returning, AP!Returning, A!Store, AP!Store, A!Refuse, AP!Refuse,
    A!Resume, AP!Resume, A!Slots, AP!Slots, A!IsText, AP!IsText, A!KeyBytes,
    AP!KeyBytes, A!Slice, AP!Slice
<1>17. /\ A!Close <=> AP!Close
       /\ A!Trailing <=> AP!Trailing
       /\ A!Accept <=> AP!Accept
  BY <1>1 DEF A!Close, AP!Close, A!Trailing, AP!Trailing, A!Accept, AP!Accept, A!Refuse,
    AP!Refuse
<1> QED
  BY <1>10, <1>11, <1>12, <1>13, <1>14, <1>15, <1>16, <1>17 DEF A!Next, AP!Next

\* The steps of B are the steps those results are about.
LEMMA StepsOfB == B!Next <=> BP!Next
<1>1. /\ B!Depth = BP!Depth /\ B!Top = BP!Top /\ B!Returned = BP!Returned /\ B!b = BP!b /\ B!ai = BP!ai
  BY DEF B!Depth, BP!Depth, B!Top, BP!Top, B!Returned, BP!Returned, B!b, BP!b, B!ai,
    BP!ai, B!Ai, BP!Ai, B!AiCodes, BP!AiCodes
<1>2. /\ B!SimpleReason = BP!SimpleReason
  BY <1>1 DEF B!SimpleReason, BP!SimpleReason, B!SimpleFalse, BP!SimpleFalse,
    B!SimpleTrue, BP!SimpleTrue, B!Indefinite, BP!Indefinite
<1>3. /\ B!Body = BP!Body /\ B!Arg = BP!Arg
  BY DEF B!Body, BP!Body, B!Arg, BP!Arg, B!BodyAt, BP!BodyAt, B!ArgAt, BP!ArgAt, B!AiAt,
    BP!AiAt, B!Ai, BP!Ai, B!AiCodes, BP!AiCodes, B!Width, BP!Width, B!Slice, BP!Slice,
    B!Uint, BP!Uint, B!Radix, BP!Radix
<1>4. /\ B!ArgReason = BP!ArgReason
  BY <1>1, <1>3 DEF B!ArgReason, BP!ArgReason, B!Indefinite, BP!Indefinite, B!Reserved,
    BP!Reserved, B!Least, BP!Least, B!Radix, BP!Radix, B!AiCodes, BP!AiCodes
<1>5. /\ B!N = BP!N /\ (B!LengthLost <=> BP!LengthLost)
  BY <1>3 DEF B!N, BP!N, B!ToInt, BP!ToInt, B!LengthLost, BP!LengthLost, B!ToUint64,
    BP!ToUint64, B!Word, BP!Word, B!Radix, BP!Radix, B!AiCodes, BP!AiCodes
<1>6. (B!StringTruncated <=> BP!StringTruncated) /\ (B!StringPanics <=> BP!StringPanics)
  BY <1>3, <1>5 DEF B!StringTruncated, BP!StringTruncated, B!StringPanics,
    BP!StringPanics, B!ToInt, BP!ToInt
<1>7. /\ B!StringReason = BP!StringReason
  BY <1>1, <1>3, <1>5, <1>6 DEF B!StringReason, BP!StringReason, B!Slice, BP!Slice,
    B!TextReason, BP!TextReason, B!Agree, BP!Agree, B!Major, BP!Major, B!AiCodes,
    BP!AiCodes
<1>8. B!KeyReason(B!Top, B!Returned) = BP!KeyReason(BP!Top, BP!Returned)
  BY <1>1 DEF B!KeyReason, BP!KeyReason, B!KeyBytes, BP!KeyBytes, B!Slice, BP!Slice,
    B!IsText, BP!IsText, B!BytesLess, BP!BytesLess, B!Agree, BP!Agree
<1>9. (B!HeadRead <=> BP!HeadRead) /\ (B!ArgRead <=> BP!ArgRead) /\ B!Major(B!b) = BP!Major(BP!b)
  BY <1>1, <1>4 DEF B!HeadRead, BP!HeadRead, B!Count, BP!Count, B!ArgRead, BP!ArgRead,
    B!Major, BP!Major, B!AiCodes, BP!AiCodes
<1>10. /\ B!ItemTooDeep <=> BP!ItemTooDeep
       /\ B!ItemTooMany <=> BP!ItemTooMany
       /\ B!ItemAtEnd <=> BP!ItemAtEnd
  BY <1>1 DEF B!ItemTooDeep, BP!ItemTooDeep, B!ItemTooMany, BP!ItemTooMany, B!ItemAtEnd,
    BP!ItemAtEnd, B!Count, BP!Count, B!Refuse, BP!Refuse
<1>11. /\ B!Boolean <=> BP!Boolean
       /\ B!BadSimple <=> BP!BadSimple
       /\ B!Tag <=> BP!Tag
  BY <1>1, <1>2, <1>9 DEF B!Boolean, BP!Boolean, B!BadSimple, BP!BadSimple, B!Tag,
    BP!Tag, B!Yield, BP!Yield, B!Refuse, BP!Refuse
<1>12. /\ B!BadArg <=> BP!BadArg
       /\ B!Integer <=> BP!Integer
  BY <1>3, <1>4, <1>9 DEF B!BadArg, BP!BadArg, B!Integer, BP!Integer, B!Yield, BP!Yield,
    B!Refuse, BP!Refuse
<1>13. /\ B!StringPanic <=> BP!StringPanic
       /\ B!BadString <=> BP!BadString
       /\ B!String <=> BP!String
  BY <1>3, <1>5, <1>6, <1>7, <1>9 DEF B!StringPanic, BP!StringPanic, B!BadString,
    BP!BadString, B!String, BP!String, B!StringRead, BP!StringRead, B!Yield, BP!Yield,
    B!Refuse, BP!Refuse, B!Panic, BP!Panic
<1>14. /\ B!BadCount <=> BP!BadCount
       /\ B!CountPanic <=> BP!CountPanic
       /\ B!Open <=> BP!Open
  BY <1>3, <1>5, <1>9 DEF B!BadCount, BP!BadCount, B!CountPanic, BP!CountPanic, B!Open,
    BP!Open, B!ContainerRead, BP!ContainerRead, B!Refuse, BP!Refuse, B!Panic, BP!Panic,
    B!Resume, BP!Resume, B!Slots, BP!Slots
<1>15. /\ B!Element <=> BP!Element
       /\ B!MapValue <=> BP!MapValue
  BY <1>1 DEF B!Element, BP!Element, B!MapValue, BP!MapValue, B!Returning, BP!Returning,
    B!Store, BP!Store, B!Resume, BP!Resume, B!Slots, BP!Slots
<1>16. /\ B!BadMapKey <=> BP!BadMapKey
       /\ B!MapKey <=> BP!MapKey
  BY <1>1, <1>8 DEF B!BadMapKey, BP!BadMapKey, B!MapKey, BP!MapKey, B!KeyReturned,
    BP!KeyReturned, B!Returning, BP!Returning, B!Store, BP!Store, B!Refuse, BP!Refuse,
    B!Resume, BP!Resume, B!Slots, BP!Slots, B!IsText, BP!IsText, B!KeyBytes,
    BP!KeyBytes, B!Slice, BP!Slice
<1>17. /\ B!Close <=> BP!Close
       /\ B!Trailing <=> BP!Trailing
       /\ B!Accept <=> BP!Accept
  BY <1>1 DEF B!Close, BP!Close, B!Trailing, BP!Trailing, B!Accept, BP!Accept, B!Refuse,
    BP!Refuse
<1> QED
  BY <1>10, <1>11, <1>12, <1>13, <1>14, <1>15, <1>16, <1>17 DEF B!Next, BP!Next

-----------------------------------------------------------------------------
(***************************************************************************)
(* The inductive invariant.                                                *)
(***************************************************************************)
\* B's input is A's, possibly with more bytes behind it, and both fit an int.
Inputs2 ==
  /\ Len(dataA) < IntHalfA /\ Len(dataB) < IntHalfB
  /\ Len(dataA) <= Len(dataB)
  /\ \A i \in 1..Len(dataA) : dataB[i] = dataA[i]
  /\ Len(dataA) = Len(dataB) => dataA = dataB

\* The two are in the same state.
Alike ==
  /\ posB = posA /\ itemsB = itemsA /\ stackB = stackA /\ outB = outA
  /\ pcB = pcA /\ outcomeB = outcomeA

\* They are, or A has accepted what B refuses for the bytes behind it.
Agreed ==
  \/ Alike /\ (outcomeA.kind = "value" => dataA = dataB)
  \/ /\ pcA = "done" /\ pcB = "done" /\ dataA # dataB
     /\ outcomeA.kind = "value"
     /\ outcomeB = [kind |-> "refused", reason |-> "trailing-bytes", at |-> Len(dataA)]

\* A has ended for a reason that says nothing about B: a panic, a limit, or the
\* end of an input that goes on for B.
AGivesUp ==
  /\ pcA = "done"
  /\ \/ outcomeA.kind = "panic"
     \/ outcomeA.reason \in A!LimitRelative
     \/ outcomeA.kind = "refused" /\ outcomeA.reason = "truncated" /\ dataA # dataB
\* B has ended for a reason that says nothing about A.
BGivesUp ==
  /\ pcB = "done"
  /\ outcomeB.kind = "panic" \/ outcomeB.reason \in A!LimitRelative

Typed == AP!TypeInv /\ BP!TypeInv /\ Inputs2
AgreeInv == Typed /\ (Agreed \/ AGivesUp \/ BGivesUp)
-----------------------------------------------------------------------------
(***************************************************************************)
(* What the two read is the same.                                          *)
(***************************************************************************)
\* The lengths and positions of the two inputs are numbers.
LEMMA Lengths ==
  ASSUME Typed
  PROVE  /\ Len(dataA) \in Nat /\ Len(dataB) \in Nat /\ posA \in Nat
         /\ dataA \in AP!Bytes /\ dataB \in AP!Bytes
         /\ AP!TypeOK /\ BP!TypeOK
<1>1. AP!TypeOK /\ BP!TypeOK
  BY DEF Typed, AP!TypeInv, BP!TypeInv
<1>2. dataA \in AP!Bytes /\ dataB \in AP!Bytes
  BY <1>1 DEF AP!TypeOK, BP!TypeOK, AP!Bytes, BP!Bytes, AP!Byte, BP!Byte, AP!Radix,
     BP!Radix, AP!AiCodes, BP!AiCodes
<1>3. Len(dataA) \in Nat /\ Len(dataB) \in Nat
  BY <1>2, LenProperties DEF AP!Bytes
<1>4. posA \in Nat
  BY <1>1, <1>3 DEF AP!TypeOK
<1> QED
  BY <1>1, <1>2, <1>3, <1>4

\* A slice of A's input is the same slice of B's.
LEMMA SliceAlike ==
  ASSUME Typed, NEW from \in Nat, NEW to \in Nat, from <= to, to <= Len(dataA)
  PROVE  BP!Slice(from, to) = AP!Slice(from, to)
<1>1. /\ Len(dataA) \in Nat /\ Len(dataB) \in Nat
      /\ dataA \in Seq(AP!Byte) /\ dataB \in Seq(AP!Byte)
  BY Lengths DEF AP!Bytes
<1>2. /\ Len(dataA) <= Len(dataB)
      /\ \A i \in 1..Len(dataA) : dataB[i] = dataA[i]
  BY DEF Typed, Inputs2
<1>3. \A i \in from + 1 .. to : dataA[i] \in AP!Byte /\ dataB[i] \in AP!Byte /\ dataB[i] = dataA[i]
  <2> TAKE i \in from + 1 .. to
  <2>1. i \in 1..Len(dataA) /\ i \in 1..Len(dataB)
    BY <1>1, <1>2
  <2> QED
    BY <1>1, <1>2, <2>1, ElementOfSeq
<1> DEFINE sa == SubSeq(dataA, from + 1, to)
           sb == SubSeq(dataB, from + 1, to)
<1>4. /\ sa \in Seq(AP!Byte) /\ sb \in Seq(AP!Byte)
      /\ Len(sa) = IF from + 1 <= to THEN to - (from + 1) + 1 ELSE 0
      /\ Len(sb) = IF from + 1 <= to THEN to - (from + 1) + 1 ELSE 0
      /\ \A i \in 1 .. to - (from + 1) + 1 :
           sa[i] = dataA[from + 1 + i - 1] /\ sb[i] = dataB[from + 1 + i - 1]
  BY <1>3, SubSeqProperties
<1>5. Len(sa) = Len(sb) /\ Len(sa) = to - from
  BY <1>4
<1>6. \A i \in 1..Len(sa) : sa[i] = sb[i]
  <2> TAKE i \in 1..Len(sa)
  <2>1. i \in 1 .. to - (from + 1) + 1 /\ from + 1 + i - 1 \in from + 1 .. to
    BY <1>5
  <2> QED
    BY <1>3, <1>4, <2>1
<1> HIDE DEF sa, sb
<1>7. sa = sb
  BY <1>4, <1>5, <1>6, SeqEqual
<1> QED
  BY <1>7 DEF sa, sb, AP!Slice, BP!Slice

\* So is the head at the position they share, and what it announces.
LEMMA HeadAlike ==
  ASSUME Typed, posB = posA, posA < Len(dataA)
  PROVE  /\ BP!b = AP!b /\ BP!ai = AP!ai /\ BP!SimpleReason = AP!SimpleReason
         /\ BP!Major(BP!b) = AP!Major(AP!b)
         /\ BP!AiAt(posB) = AP!AiAt(posA) /\ BP!Body = AP!Body
         /\ BP!Least(BP!ai) = AP!Least(AP!ai)
<1>1. posA + 1 \in 1..Len(dataA)
  BY Lengths
<1>2. dataB[posB + 1] = dataA[posA + 1]
  BY <1>1 DEF Typed, Inputs2
<1>3. /\ BP!b = AP!b /\ BP!ai = AP!ai /\ BP!AiAt(posB) = AP!AiAt(posA)
      /\ BP!Major(BP!b) = AP!Major(AP!b)
  BY <1>2 DEF AP!b, BP!b, AP!ai, BP!ai, AP!AiAt, BP!AiAt, AP!Ai, BP!Ai, AP!Major,
     BP!Major, AP!AiCodes, BP!AiCodes
<1>4. BP!SimpleReason = AP!SimpleReason
  BY <1>3 DEF AP!SimpleReason, BP!SimpleReason, AP!SimpleFalse, BP!SimpleFalse,
     AP!SimpleTrue, BP!SimpleTrue, AP!Indefinite, BP!Indefinite
<1>5. BP!Body = AP!Body
  BY <1>3 DEF AP!Body, BP!Body, AP!BodyAt, BP!BodyAt, AP!Width, BP!Width
<1>6. BP!Least(BP!ai) = AP!Least(AP!ai)
  BY <1>3 DEF AP!Least, BP!Least, AP!Radix, BP!Radix, AP!AiCodes, BP!AiCodes
<1> QED
  BY <1>3, <1>4, <1>5, <1>6

\* So is the argument, when A's input holds all of it.
LEMMA ArgAlike ==
  ASSUME Typed, posB = posA, posA < Len(dataA), AP!Body <= Len(dataA)
  PROVE  BP!Arg = AP!Arg
<1>1. BP!AiAt(posB) = AP!AiAt(posA) /\ BP!BodyAt(posB) = AP!BodyAt(posA)
  BY HeadAlike DEF AP!Body, BP!Body
<1>2. AP!BodyAt(posA) \in Nat /\ posA + 1 \in Nat /\ posA + 1 <= AP!BodyAt(posA)
  BY AP!HeadFacts, ABuilds, Lengths DEF AP!Body
<1>3. BP!Slice(posB + 1, BP!BodyAt(posB)) = AP!Slice(posA + 1, AP!BodyAt(posA))
  BY <1>1, <1>2, SliceAlike DEF AP!Body
<1>4. \A w : BP!Uint(w) = AP!Uint(w)
  BY DEF AP!Uint, BP!Uint, AP!Radix, BP!Radix, AP!AiCodes, BP!AiCodes
<1> QED
  BY <1>1, <1>3, <1>4 DEF AP!Arg, BP!Arg, AP!ArgAt, BP!ArgAt, AP!Width, BP!Width

\* So is what readArg makes of it, or A's input ends too early where B's goes on.
LEMMA ReasonAlike ==
  ASSUME Typed, posB = posA, posA < Len(dataA)
  PROVE  \/ /\ BP!ArgReason = AP!ArgReason
            /\ AP!ArgReason \in {"none", "non-minimal"} => BP!Arg = AP!Arg
         \/ AP!ArgReason = "truncated" /\ dataA # dataB
<1>1. BP!Body = AP!Body /\ BP!ai = AP!ai /\ BP!Least(BP!ai) = AP!Least(AP!ai)
  BY HeadAlike
<1>2. AP!Body \in Nat /\ AP!ai \in 0 .. Imm + 7 /\ Imm \in Nat
  BY AP!HeadFacts, ABuilds, Lengths DEF AP!ImmAssumption
<1>3. CASE AP!Body <= Len(dataA)
  <2>1. BP!Arg = AP!Arg
    BY <1>3, ArgAlike
  <2>2. ~(AP!Body > Len(dataA)) /\ ~(BP!Body > Len(dataB))
    BY <1>1, <1>2, <1>3, Lengths DEF Typed, Inputs2
  <2>3. BP!ArgReason = AP!ArgReason
    BY <1>1, <2>1, <2>2 DEF AP!ArgReason, BP!ArgReason, AP!Indefinite, BP!Indefinite,
       AP!Reserved, BP!Reserved
  <2> QED
    BY <2>1, <2>3
<1>4. CASE ~(AP!Body <= Len(dataA))
  <2>1. AP!Body > Len(dataA)
    BY <1>2, <1>4, Lengths
  <2>2. AP!ai \in Imm .. Imm + 3
    <3>1. AP!Width(AP!AiAt(posA)) # 0
      BY <2>1, Lengths DEF AP!Body, AP!BodyAt
    <3>2. AP!AiAt(posA) = AP!ai
      BY DEF AP!AiAt, AP!ai, AP!b
    <3> QED
      BY <3>1, <3>2 DEF AP!Width
  <2>3. AP!ArgReason = "truncated"
    BY <1>2, <2>1, <2>2 DEF AP!ArgReason, AP!Indefinite, AP!Reserved
  <2>4. CASE dataA = dataB
    BY <1>1, <1>2, <2>1, <2>2, <2>3, <2>4 DEF AP!ArgReason, BP!ArgReason, BP!Indefinite,
       BP!Reserved
  <2> QED
    BY <2>3, <2>4
<1> QED
  BY <1>3, <1>4

\* The rules of text are the same rules.
LEMMA TextAlike == \A w : BP!TextReason(w) = AP!TextReason(w)
BY DEF AP!TextReason, BP!TextReason, AP!Agree, BP!Agree
-----------------------------------------------------------------------------
(***************************************************************************)
(* A step of both, by what is next to do.                                  *)
(***************************************************************************)
\* Both do the same, and do not accept.
InStep == Alike' /\ (outcomeA'.kind = "value" => outcomeA' = outcomeA)

\* Both refuse for the same reason at the same place.
LEMMA RefuseAlike ==
  ASSUME Alike, NEW r, NEW at, AP!Refuse(r, at), BP!Refuse(r, at),
         posB' = posA', itemsB' = itemsA'
  PROVE  InStep
BY DEF InStep, Alike, AP!Refuse, BP!Refuse

\* Both return the same value.
LEMMA YieldAlike ==
  ASSUME Alike, NEW v, AP!Yield(v), BP!Yield(v), itemsB' = itemsA'
  PROVE  InStep
BY DEF InStep, Alike, AP!Yield, BP!Yield

\* Both store the same frame.
LEMMA StoreAlike ==
  ASSUME Alike, NEW f, AP!Store(f), BP!Store(f)
  PROVE  InStep
BY DEF InStep, Alike, AP!Store, BP!Store, AP!Resume, BP!Resume, AP!Slots, BP!Slots

\* Both close their container.
LEMMA CloseTogether ==
  ASSUME Typed, Alike, AP!Next, BP!Next, pcA = "close"
  PROVE  InStep
<1>1. AP!Close
  BY AP!ClosePhase, ABuilds
<1>2. BP!Close
  BY BP!ClosePhase, BBuilds DEF Alike
<1> QED
  BY <1>1, <1>2 DEF InStep, Alike, AP!Close, BP!Close, AP!Top, BP!Top

\* Both come to the end of the outermost value: they agree whether their input
\* ends there, or A's does and B's goes on.
LEMMA EndTogether ==
  ASSUME Typed, Alike, AP!Next, BP!Next, pcA = "return", stackA = <<>>
  PROVE  Agreed'
<1>1. IF posA = Len(dataA) THEN AP!Accept ELSE AP!Trailing
  BY AP!EndPhase, ABuilds
<1>2. IF posB = Len(dataB) THEN BP!Accept ELSE BP!Trailing
  BY BP!EndPhase, BBuilds DEF Alike
<1>3. posB = posA /\ posA <= Len(dataA) /\ dataA' = dataA /\ dataB' = dataB
  <2>1. posA \in 0 .. Len(dataA)
    BY Lengths DEF AP!TypeOK
  <2> QED
    BY <2>1, Lengths, AP!DataStays, BP!DataStays, ABuilds, BBuilds DEF Alike
<1>4. CASE posA = Len(dataA) /\ dataA = dataB
  BY <1>1, <1>2, <1>3, <1>4 DEF Agreed, Alike, AP!Accept, BP!Accept
<1>5. CASE posA = Len(dataA) /\ dataA # dataB
  <2>1. posB # Len(dataB)
    BY <1>3, <1>5 DEF Typed, Inputs2
  <2> QED
    BY <1>1, <1>2, <1>3, <1>5, <2>1 DEF Agreed, Alike, AP!Accept, BP!Trailing, BP!Refuse
<1>6. CASE posA # Len(dataA)
  <2>1. posB # Len(dataB)
    BY <1>3, <1>6, Lengths DEF Typed, Inputs2
  <2> QED
    BY <1>1, <1>2, <1>3, <1>6, <2>1
       DEF Agreed, Alike, AP!Trailing, BP!Trailing, AP!Refuse, BP!Refuse
<1> QED
  BY <1>4, <1>5, <1>6

\* Both hand the value they have read to the same container, which makes the
\* same of it.
LEMMA ReturnTogether ==
  ASSUME Typed, Alike, AP!Next, BP!Next, pcA = "return", stackA # <<>>
  PROVE  InStep
<1> DEFINE odd == Len(AP!Top.kids) % 2
           reason == AP!KeyReason(AP!Top, AP!Returned)
<1>1. \/ AP!Top.m = 4 /\ AP!Element
      \/ AP!Top.m = 5 /\ odd = 1 /\ AP!MapValue
      \/ AP!Top.m = 5 /\ odd = 0 /\ reason = "none" /\ AP!MapKey
      \/ AP!Top.m = 5 /\ odd = 0 /\ reason # "none" /\ AP!BadMapKey
  BY AP!ReturnPhase, ABuilds
<1>2. BP!Top = AP!Top /\ BP!Returned = AP!Returned
  BY DEF Alike, AP!Top, BP!Top, AP!Returned, BP!Returned
<1>3. BP!KeyBytes(BP!Returned) = AP!KeyBytes(AP!Returned)
  <2>1. outA # <<>> /\ AP!Spans
    BY DEF Typed, AP!TypeInv, AP!ControlOK
  <2>2. AP!Returned \in AP!Node /\ Len(outA) \in 1..Len(outA)
    BY <2>1, AP!ReturnedType, ABuilds, Lengths
  <2>3. /\ AP!Returned.at \in Nat /\ AP!Returned.end \in Nat
        /\ AP!Returned.at <= AP!Returned.end /\ AP!Returned.end <= Len(dataA)
    BY <2>1, <2>2 DEF AP!Spans, AP!Returned, AP!Node
  <2> QED
    BY <1>2, <2>3, SliceAlike DEF AP!KeyBytes, BP!KeyBytes
<1>4. BP!KeyReason(BP!Top, BP!Returned) = reason
  BY <1>2, <1>3 DEF AP!KeyReason, BP!KeyReason, AP!IsText, BP!IsText, AP!BytesLess,
     BP!BytesLess, AP!Agree, BP!Agree
<1>5. \/ AP!Top.m = 4 /\ BP!Element
      \/ AP!Top.m = 5 /\ odd = 1 /\ BP!MapValue
      \/ AP!Top.m = 5 /\ odd = 0 /\ reason = "none" /\ BP!MapKey
      \/ AP!Top.m = 5 /\ odd = 0 /\ reason # "none" /\ BP!BadMapKey
  BY <1>2, <1>4, BP!ReturnPhase, BBuilds DEF Alike
<1> HIDE DEF odd
<1>6. \/ AP!Element /\ BP!Element
      \/ AP!MapValue /\ BP!MapValue
      \/ AP!MapKey /\ BP!MapKey
      \/ AP!BadMapKey /\ BP!BadMapKey
  BY <1>1, <1>5
<1>7. CASE AP!Element /\ BP!Element
  BY <1>2, <1>7, StoreAlike DEF AP!Element, BP!Element, Alike
<1>8. CASE AP!MapValue /\ BP!MapValue
  BY <1>2, <1>8, StoreAlike DEF AP!MapValue, BP!MapValue, Alike
<1>9. CASE AP!MapKey /\ BP!MapKey
  <2>1. BP!IsText(BP!Returned) = AP!IsText(AP!Returned)
    BY <1>2 DEF AP!IsText, BP!IsText
  <2> QED
    BY <1>2, <1>3, <1>9, <2>1, StoreAlike DEF AP!MapKey, BP!MapKey, Alike
<1>10. CASE AP!BadMapKey /\ BP!BadMapKey
  BY <1>2, <1>4, <1>10, RefuseAlike DEF AP!BadMapKey, BP!BadMapKey, Alike
<1> QED
  BY <1>6, <1>7, <1>8, <1>9, <1>10

\* Both read the same string, or one of them cannot hold it.
LEMMA StringTogether ==
  ASSUME Typed, Alike, posA < Len(dataA), AP!Strings, BP!Strings,
         AP!ArgReason = "none", BP!ArgReason = "none", BP!Arg = AP!Arg
  PROVE  InStep \/ AGivesUp' \/ BGivesUp'
<1>1. /\ posB = posA /\ posB < Len(dataB) /\ Len(dataA) < IntHalfA /\ Len(dataB) < IntHalfB
      /\ Len(dataA) <= Len(dataB) /\ (Len(dataA) = Len(dataB) => dataA = dataB)
      /\ AP!TypeOK /\ BP!TypeOK
  BY Lengths DEF Typed, Inputs2, Alike
<1>2. /\ BP!Body = AP!Body /\ BP!b = AP!b /\ BP!Major(BP!b) = AP!Major(AP!b)
      /\ AP!Body \in Nat /\ AP!Arg \in Nat
  BY <1>1, HeadAlike, AP!HeadFacts, AP!ArgFacts, ABuilds
<1>3. /\ AP!HeadRead
      /\ IF AP!Arg > Len(dataA) - AP!Body
         THEN AP!Panic \/ (AP!Refuse("truncated", posA) /\ posA' = AP!Body)
         ELSE IF AP!TextRule # "none"
              THEN AP!Refuse(AP!TextRule, posA) /\ posA' = AP!Body + AP!Arg
         ELSE AP!Yield([m |-> AP!Major(AP!b), arg |-> AP!Arg, at |-> posA, body |-> AP!Body,
                        end |-> AP!Body + AP!Arg, kids |-> <<>>])
  BY <1>1, AP!StringPhase, ABuilds
<1>4. /\ BP!HeadRead
      /\ IF BP!Arg > Len(dataB) - BP!Body
         THEN BP!Panic \/ (BP!Refuse("truncated", posB) /\ posB' = BP!Body)
         ELSE IF BP!TextRule # "none"
              THEN BP!Refuse(BP!TextRule, posB) /\ posB' = BP!Body + BP!Arg
         ELSE BP!Yield([m |-> BP!Major(BP!b), arg |-> BP!Arg, at |-> posB, body |-> BP!Body,
                        end |-> BP!Body + BP!Arg, kids |-> <<>>])
  BY <1>1, BP!StringPhase, BBuilds
<1>5. itemsB' = itemsA'
  BY <1>3, <1>4 DEF AP!HeadRead, BP!HeadRead, AP!Count, BP!Count, Alike
<1>6. CASE AP!Panic
  BY <1>6 DEF AP!Panic, AGivesUp
<1>7. CASE BP!Panic
  BY <1>7 DEF BP!Panic, BGivesUp
<1>8. CASE AP!Arg > Len(dataA) - AP!Body /\ ~AP!Panic /\ ~BP!Panic
  <2>1. AP!Refuse("truncated", posA) /\ posA' = AP!Body
    BY <1>3, <1>8
  <2>2. CASE dataA = dataB
    <3>1. BP!Refuse("truncated", posB) /\ posB' = BP!Body
      BY <1>2, <1>4, <1>8, <2>2
    <3> QED
      BY <1>1, <1>2, <1>5, <2>1, <3>1, RefuseAlike
  <2>3. CASE dataA # dataB
    <3>1. dataB' = dataB
      BY <1>4 DEF BP!Panic, BP!Refuse, BP!Yield
    <3> QED
      BY <2>1, <2>3, <3>1 DEF AP!Refuse, AGivesUp
  <2> QED
    BY <2>2, <2>3
<1>9. CASE ~(AP!Arg > Len(dataA) - AP!Body)
  <2>1. AP!Body + AP!Arg \in Nat /\ AP!Body <= AP!Body + AP!Arg /\ AP!Body + AP!Arg <= Len(dataA)
    BY <1>2, <1>9, Lengths
  <2>2. ~(BP!Arg > Len(dataB) - BP!Body)
    BY <1>1, <1>2, <2>1, Lengths
  <2>3. BP!Slice(BP!Body, BP!Body + BP!Arg) = AP!Slice(AP!Body, AP!Body + AP!Arg)
    BY <1>2, <2>1, SliceAlike
  <2>4. BP!TextRule = AP!TextRule
    BY <1>2, <2>3, TextAlike DEF AP!TextRule, BP!TextRule
  <2>5. CASE AP!TextRule # "none"
    <3>1. AP!Refuse(AP!TextRule, posA) /\ posA' = AP!Body + AP!Arg
      BY <1>3, <1>9, <2>5
    <3>2. BP!Refuse(AP!TextRule, posA) /\ posB' = AP!Body + AP!Arg
      BY <1>1, <1>2, <1>4, <2>2, <2>4, <2>5
    <3> QED
      BY <1>5, <3>1, <3>2, RefuseAlike
  <2>6. CASE AP!TextRule = "none"
    <3> DEFINE v == [m |-> AP!Major(AP!b), arg |-> AP!Arg, at |-> posA, body |-> AP!Body,
                     end |-> AP!Body + AP!Arg, kids |-> <<>>]
    <3>1. AP!Yield(v)
      BY <1>3, <1>9, <2>6
    <3>2. BP!Yield(v)
      BY <1>1, <1>2, <1>4, <2>2, <2>4, <2>6
    <3> QED
      BY <1>5, <3>1, <3>2, YieldAlike
  <2> QED
    BY <2>5, <2>6
<1> QED
  BY <1>6, <1>7, <1>8, <1>9

\* Both open the same container, or one of them cannot hold its count.
LEMMA ContainerTogether ==
  ASSUME Typed, Alike, posA < Len(dataA), AP!Containers, BP!Containers,
         AP!ArgReason = "none", BP!ArgReason = "none", BP!Arg = AP!Arg
  PROVE  InStep \/ AGivesUp' \/ BGivesUp'
<1>1. /\ posB = posA /\ posB < Len(dataB) /\ Len(dataA) <= Len(dataB)
      /\ AP!TypeOK /\ BP!TypeOK
  BY Lengths DEF Typed, Inputs2, Alike
<1>2. /\ AP!HeadRead
      /\ AP!Panic \/ (\E at : AP!Refuse("size-exceeded", at)) \/ (AP!Open /\ AP!N = AP!Arg)
  BY <1>1, AP!ContainerPhase, ABuilds
<1>3. /\ BP!HeadRead
      /\ BP!Panic \/ (\E at : BP!Refuse("size-exceeded", at)) \/ (BP!Open /\ BP!N = BP!Arg)
  BY <1>1, BP!ContainerPhase, BBuilds
<1>4. CASE AP!Panic \/ \E at : AP!Refuse("size-exceeded", at)
  BY <1>4 DEF AP!Panic, AP!Refuse, AGivesUp, A!LimitRelative
<1>5. CASE BP!Panic \/ \E at : BP!Refuse("size-exceeded", at)
  BY <1>5 DEF BP!Panic, BP!Refuse, BGivesUp, A!LimitRelative
<1>6. CASE AP!Open /\ AP!N = AP!Arg /\ BP!Open /\ BP!N = BP!Arg
  <2>1. BP!Body = AP!Body /\ BP!Major(BP!b) = AP!Major(AP!b)
    BY <1>1, HeadAlike
  <2>2. itemsB' = itemsA'
    BY <1>2, <1>3 DEF AP!HeadRead, BP!HeadRead, AP!Count, BP!Count, Alike
  <2> DEFINE f == [m |-> AP!Major(AP!b), n |-> AP!Arg, at |-> posA, body |-> AP!Body,
                   kids |-> <<>>, keysAreText |-> FALSE, prevKey |-> <<>>]
  <2>3. /\ stackA' = Append(stackA, f) /\ pcA' = AP!Resume(f) /\ posA' = AP!Body
        /\ outA' = outA /\ outcomeA' = outcomeA
    BY <1>6 DEF AP!Open, AP!ContainerRead
  <2>4. /\ stackB' = Append(stackB, f) /\ pcB' = BP!Resume(f) /\ posB' = AP!Body
        /\ outB' = outB /\ outcomeB' = outcomeB
    BY <1>1, <1>6, <2>1 DEF BP!Open, BP!ContainerRead
  <2>5. BP!Resume(f) = AP!Resume(f)
    BY DEF AP!Resume, BP!Resume, AP!Slots, BP!Slots
  <2> HIDE DEF f
  <2> QED
    BY <2>2, <2>3, <2>4, <2>5 DEF InStep, Alike
<1> QED
  BY <1>2, <1>3, <1>4, <1>5, <1>6

\* Both read the same head, or one of them ends on something of its own.
LEMMA HeadTogether ==
  ASSUME Typed, Alike, posA < Len(dataA),
         AP!HeadRead, AP!Heads, BP!HeadRead, BP!Heads, BP!Next
  PROVE  InStep \/ AGivesUp' \/ BGivesUp'
<1>1. /\ posB = posA /\ posB < Len(dataB) /\ AP!TypeOK /\ BP!TypeOK
  BY Lengths DEF Typed, Inputs2, Alike
<1>2. /\ BP!b = AP!b /\ BP!ai = AP!ai /\ BP!SimpleReason = AP!SimpleReason
      /\ BP!Major(BP!b) = AP!Major(AP!b) /\ BP!Body = AP!Body
  BY <1>1, HeadAlike
<1>3. itemsB' = itemsA'
  BY DEF AP!HeadRead, BP!HeadRead, AP!Count, BP!Count, Alike
<1>4. AP!Major(AP!b) \in 0..7
  BY <1>1, AP!HeadFacts, ABuilds
<1> DEFINE m == AP!Major(AP!b)
<1>5. /\ m = 7 => IF AP!SimpleReason = "none" THEN AP!Boolean ELSE AP!BadSimple
      /\ m = 6 => AP!Tag
      /\ m <= 5 /\ AP!ArgReason # "none" => AP!BadArg
      /\ m \in {0, 1} /\ AP!ArgReason = "none" => AP!Integer
      /\ m \in {2, 3} /\ AP!ArgReason = "none" => AP!Strings
      /\ m \in {4, 5} /\ AP!ArgReason = "none" => AP!Containers
  BY <1>1, AP!HeadPhase, ABuilds
<1>6. /\ m = 7 => IF BP!SimpleReason = "none" THEN BP!Boolean ELSE BP!BadSimple
      /\ m = 6 => BP!Tag
      /\ m <= 5 /\ BP!ArgReason # "none" => BP!BadArg
      /\ m \in {0, 1} /\ BP!ArgReason = "none" => BP!Integer
      /\ m \in {2, 3} /\ BP!ArgReason = "none" => BP!Strings
      /\ m \in {4, 5} /\ BP!ArgReason = "none" => BP!Containers
  BY <1>1, <1>2, BP!HeadPhase, BBuilds
<1> HIDE DEF m
<1>7. CASE m = 7 /\ AP!SimpleReason = "none"
  <2>1. AP!Boolean /\ BP!Boolean
    BY <1>2, <1>5, <1>6, <1>7
  <2> QED
    BY <1>1, <1>2, <1>3, <2>1, YieldAlike DEF AP!Boolean, BP!Boolean
<1>8. CASE m = 7 /\ AP!SimpleReason # "none"
  <2>1. AP!BadSimple /\ BP!BadSimple
    BY <1>2, <1>5, <1>6, <1>8
  <2> QED
    BY <1>1, <1>2, <1>3, <2>1, RefuseAlike DEF AP!BadSimple, BP!BadSimple
<1>9. CASE m = 6
  <2>1. AP!Tag /\ BP!Tag
    BY <1>5, <1>6, <1>9
  <2> QED
    BY <1>1, <1>3, <2>1, RefuseAlike DEF AP!Tag, BP!Tag
<1>10. CASE m <= 5 /\ AP!ArgReason = "truncated" /\ dataA # dataB
  <2>1. AP!BadArg
    BY <1>5, <1>10
  <2>2. dataB' = dataB
    BY BP!DataStays, BBuilds
  <2> QED
    BY <1>10, <2>1, <2>2 DEF AP!BadArg, AP!Refuse, AGivesUp
<1>11. CASE /\ m <= 5 /\ BP!ArgReason = AP!ArgReason
            /\ AP!ArgReason \in {"none", "non-minimal"} => BP!Arg = AP!Arg
  <2>1. CASE AP!ArgReason # "none"
    <3>1. AP!BadArg /\ BP!BadArg
      BY <1>5, <1>6, <1>11, <2>1
    <3> QED
      BY <1>1, <1>2, <1>3, <1>11, <3>1, RefuseAlike DEF AP!BadArg, BP!BadArg
  <2>2. CASE AP!ArgReason = "none" /\ m \in {0, 1}
    <3>1. AP!Integer /\ BP!Integer
      BY <1>5, <1>6, <1>11, <2>2
    <3> QED
      BY <1>1, <1>2, <1>3, <1>11, <2>2, <3>1, YieldAlike DEF AP!Integer, BP!Integer
  <2>3. CASE AP!ArgReason = "none" /\ m \in {2, 3}
    BY <1>5, <1>6, <1>11, <2>3, StringTogether
  <2>4. CASE AP!ArgReason = "none" /\ m \in {4, 5}
    BY <1>5, <1>6, <1>11, <2>4, ContainerTogether
  <2> QED
    BY <1>4, <1>11, <2>1, <2>2, <2>3, <2>4 DEF m
<1>12. m = 7 \/ m = 6 \/ m <= 5
  BY <1>4 DEF m
<1> QED
  BY <1>1, <1>7, <1>8, <1>9, <1>10, <1>11, <1>12, ReasonAlike

\* Both read the same item, or one of them ends on something of its own.
LEMMA ItemTogether ==
  ASSUME Typed, Alike, AP!Next, BP!Next, pcA = "item"
  PROVE  InStep \/ AGivesUp' \/ BGivesUp'
<1>1. AP!ItemTooDeep \/ AP!ItemTooMany \/ AP!ItemAtEnd \/ (AP!HeadRead /\ AP!Heads)
  BY AP!ItemPhase, ABuilds
<1>2. BP!ItemTooDeep \/ BP!ItemTooMany \/ BP!ItemAtEnd \/ (BP!HeadRead /\ BP!Heads)
  BY BP!ItemPhase, BBuilds DEF Alike
<1>3. CASE AP!ItemTooDeep \/ AP!ItemTooMany
  BY <1>3 DEF AP!ItemTooDeep, AP!ItemTooMany, AP!Refuse, AGivesUp, A!LimitRelative
<1>4. CASE BP!ItemTooDeep \/ BP!ItemTooMany
  BY <1>4 DEF BP!ItemTooDeep, BP!ItemTooMany, BP!Refuse, BGivesUp, A!LimitRelative
<1>5. /\ posB = posA /\ Len(dataA) <= Len(dataB) /\ Len(dataA) \in Nat /\ Len(dataB) \in Nat
      /\ posA \in Nat /\ (posA >= Len(dataB) => Len(dataA) = Len(dataB) \/ ~(posA <= Len(dataA)))
      /\ posA <= Len(dataA)
  BY Lengths DEF Typed, Inputs2, Alike, AP!TypeOK
<1>6. CASE AP!ItemAtEnd /\ BP!ItemAtEnd
  BY <1>5, <1>6, RefuseAlike
     DEF AP!ItemAtEnd, BP!ItemAtEnd, AP!Count, BP!Count, Alike
<1>7. CASE AP!ItemAtEnd /\ BP!HeadRead
  <2>1. dataA # dataB
    BY <1>5, <1>7 DEF AP!ItemAtEnd, BP!HeadRead
  <2>2. dataB' = dataB
    BY BP!DataStays, BBuilds
  <2> QED
    BY <1>7, <2>1, <2>2 DEF AP!ItemAtEnd, AP!Refuse, AGivesUp
<1>8. ~(AP!HeadRead /\ BP!ItemAtEnd)
  BY <1>5 DEF AP!HeadRead, BP!ItemAtEnd
<1>9. CASE AP!HeadRead /\ AP!Heads /\ BP!HeadRead /\ BP!Heads
  <2>1. posA < Len(dataA)
    BY <1>9 DEF AP!HeadRead
  <2> QED
    BY <1>9, <2>1, HeadTogether
<1> QED
  BY <1>1, <1>2, <1>3, <1>4, <1>6, <1>7, <1>8, <1>9
-----------------------------------------------------------------------------
(***************************************************************************)
(* The invariant holds at the start and is preserved.                      *)
(***************************************************************************)
\* Two decoders that start on one artifact are in the same state.
LEMMA AgreeInit == Init => AgreeInv
<1> SUFFICES ASSUME NEW d \in Inputs, NEW t \in Tails, A!Start(d), B!Start(d \o t)
             PROVE  AgreeInv
  BY DEF Init
<1>1. AP!Start(d) /\ BP!Start(d \o t)
  BY DEF A!Start, AP!Start, B!Start, BP!Start, A!NoOutcome, AP!NoOutcome, B!NoOutcome,
     BP!NoOutcome
<1>2. d \in AP!Bytes /\ Len(d) < IntHalfA /\ t \in AP!Bytes /\ Len(d \o t) < IntHalfB
  BY ABuilds, TailsAssumption DEF AP!InputsAssumption, B!Bytes, AP!Bytes, B!Byte, AP!Byte,
     B!Radix, AP!Radix, B!AiCodes, AP!AiCodes
<1>3. BP!Bytes = AP!Bytes
  BY DEF AP!Bytes, BP!Bytes, AP!Byte, BP!Byte, AP!Radix, BP!Radix, AP!AiCodes, BP!AiCodes
<1>4. /\ d \o t \in BP!Bytes /\ Len(d) \in Nat /\ Len(t) \in Nat
      /\ Len(d \o t) = Len(d) + Len(t)
      /\ \A i \in 1..Len(d) : (d \o t)[i] = d[i]
  BY <1>2, <1>3, ConcatProperties, LenProperties DEF AP!Bytes
<1>5. Len(d) = Len(d \o t) => d = d \o t
  BY <1>2, <1>3, <1>4, SeqEqual DEF AP!Bytes
<1>6. AP!TypeInv /\ BP!TypeInv
  <2>1. AP!TypeInv
    BY <1>1, <1>2, AP!StartType, ABuilds
  <2>2. BP!TypeInv
    BY <1>1, <1>4, BP!StartType, BBuilds
  <2> QED
    BY <2>1, <2>2
<1>7. Inputs2
  BY <1>1, <1>2, <1>4, <1>5 DEF Inputs2, AP!Start, BP!Start
<1>8. Agreed
  BY <1>1 DEF Agreed, Alike, AP!Start, BP!Start, AP!NoOutcome, BP!NoOutcome
<1> QED
  BY <1>6, <1>7, <1>8 DEF AgreeInv, Typed

\* Each step is a step of A, of B, of both, or of neither.
LEMMA StepsOfBoth ==
  ASSUME [Next]_vars
  PROVE  /\ [AP!Next]_AP!vars /\ [BP!Next]_BP!vars
         /\ \/ AP!Next /\ BP!Next
            \/ AP!Next /\ pcB = "done" /\ UNCHANGED varsB
            \/ BP!Next /\ pcA = "done" /\ UNCHANGED varsA
            \/ UNCHANGED varsA /\ UNCHANGED varsB
<1>1. AP!vars = varsA /\ BP!vars = varsB
  BY DEF AP!vars, BP!vars, varsA, varsB
<1>2. \/ AP!Next /\ BP!Next
      \/ AP!Next /\ pcB = "done" /\ UNCHANGED varsB
      \/ BP!Next /\ pcA = "done" /\ UNCHANGED varsA
      \/ UNCHANGED varsA /\ UNCHANGED varsB
  <2>1. CASE UNCHANGED vars
    BY <2>1 DEF vars, varsA, varsB
  <2>2. CASE Next
    BY <2>2, StepsOfA, StepsOfB DEF Next, Together, OnlyA, OnlyB
  <2> QED
    BY <2>1, <2>2
<1>3. [AP!Next]_varsA /\ [BP!Next]_varsB
  BY <1>2
<1> QED
  BY <1>1, <1>2, <1>3 DEF AP!vars, BP!vars, varsA, varsB

\* Both decoders keep their types, and the inputs stay as they are.
LEMMA TypedStep ==
  ASSUME Typed, [Next]_vars
  PROVE  Typed' /\ dataA' = dataA /\ dataB' = dataB
<1>1. [AP!Next]_AP!vars /\ [BP!Next]_BP!vars
  BY StepsOfBoth
<1>2. AP!TypeInv' /\ dataA' = dataA
  BY <1>1, AP!TypeStep, AP!DataStays, ABuilds DEF Typed
<1>3. BP!TypeInv' /\ dataB' = dataB
  BY <1>1, BP!TypeStep, BP!DataStays, BBuilds DEF Typed
<1> QED
  BY <1>2, <1>3 DEF Typed, Inputs2

\* A decoder that is done takes no step.
LEMMA DoneStays == (AP!Next => pcA # "done") /\ (BP!Next => pcB # "done")
<1>1. AP!Next => pcA # "done"
  BY DEF AP!Next, AP!ItemTooDeep, AP!ItemTooMany, AP!ItemAtEnd, AP!Boolean, AP!BadSimple,
     AP!Tag, AP!BadArg, AP!Integer, AP!StringPanic, AP!BadString, AP!String, AP!StringRead,
     AP!BadCount, AP!CountPanic, AP!Open, AP!ContainerRead, AP!ArgRead, AP!HeadRead,
     AP!Count, AP!Element, AP!MapValue, AP!BadMapKey, AP!MapKey, AP!KeyReturned,
     AP!Returning, AP!Close, AP!Trailing, AP!Accept
<1>2. BP!Next => pcB # "done"
  BY DEF BP!Next, BP!ItemTooDeep, BP!ItemTooMany, BP!ItemAtEnd, BP!Boolean, BP!BadSimple,
     BP!Tag, BP!BadArg, BP!Integer, BP!StringPanic, BP!BadString, BP!String, BP!StringRead,
     BP!BadCount, BP!CountPanic, BP!Open, BP!ContainerRead, BP!ArgRead, BP!HeadRead,
     BP!Count, BP!Element, BP!MapValue, BP!BadMapKey, BP!MapKey, BP!KeyReturned,
     BP!Returning, BP!Close, BP!Trailing, BP!Accept
<1> QED
  BY <1>1, <1>2

\* A step of both keeps them alike, brings both to their verdict, or ends one of
\* them on something of its own.
LEMMA BothStep ==
  ASSUME Typed, Alike, outcomeA.kind = "value" => dataA = dataB, AP!Next, BP!Next,
         dataA' = dataA, dataB' = dataB
  PROVE  Agreed' \/ AGivesUp' \/ BGivesUp'
<1>1. pcA \in {"item", "return", "close"}
  BY Lengths, DoneStays DEF AP!TypeOK
<1>2. InStep => Agreed'
  BY DEF InStep, Agreed, Alike
<1>3. CASE pcA = "item"
  BY <1>2, <1>3, ItemTogether
<1>4. CASE pcA = "return" /\ stackA = <<>>
  BY <1>4, EndTogether
<1>5. CASE pcA = "return" /\ stackA # <<>>
  BY <1>2, <1>5, ReturnTogether
<1>6. CASE pcA = "close"
  BY <1>2, <1>6, CloseTogether
<1> QED
  BY <1>1, <1>3, <1>4, <1>5, <1>6

\* Every step preserves the invariant.
LEMMA AgreeStep == AgreeInv /\ [Next]_vars => AgreeInv'
<1> SUFFICES ASSUME AgreeInv, [Next]_vars
             PROVE  Agreed' \/ AGivesUp' \/ BGivesUp'
  BY TypedStep DEF AgreeInv
<1>1. Typed /\ dataA' = dataA /\ dataB' = dataB
  BY TypedStep DEF AgreeInv
<1>2. CASE AGivesUp
  <2>1. UNCHANGED varsA
    BY <1>2, StepsOfBoth, DoneStays DEF AGivesUp
  <2> QED
    BY <1>1, <1>2, <2>1 DEF AGivesUp, varsA
<1>3. CASE BGivesUp
  <2>1. UNCHANGED varsB
    BY <1>3, StepsOfBoth, DoneStays DEF BGivesUp
  <2> QED
    BY <1>1, <1>3, <2>1 DEF BGivesUp, varsB
<1>4. CASE Agreed
  <2>1. pcA = "done" <=> pcB = "done"
    BY <1>4 DEF Agreed, Alike
  <2>2. \/ AP!Next /\ BP!Next
        \/ UNCHANGED varsA /\ UNCHANGED varsB
    BY <2>1, StepsOfBoth, DoneStays
  <2>3. CASE AP!Next /\ BP!Next
    <3>1. Alike /\ (outcomeA.kind = "value" => dataA = dataB)
      BY <1>4, <2>3, DoneStays DEF Agreed
    <3> QED
      BY <1>1, <2>3, <3>1, BothStep
  <2>4. CASE UNCHANGED varsA /\ UNCHANGED varsB
    BY <1>4, <2>4 DEF Agreed, Alike, varsA, varsB
  <2> QED
    BY <2>2, <2>3, <2>4
<1> QED
  BY <1>2, <1>3, <1>4 DEF AgreeInv
-----------------------------------------------------------------------------
\* Decoders of any limits and any native ints that read the same artifact give
\* the same value, or the same reason at the same position, unless one of them
\* panics or meets a limit of its own: a byte-determined reason is a function of
\* the bytes (decodeerror.go).
THEOREM VerdictsAgree == Spec => []SameVerdict
<1>1. AgreeInv => SameVerdict
  BY DEF AgreeInv, Agreed, Alike, AGivesUp, BGivesUp, SameVerdict, ByBytesAlone
<1> QED
  BY <1>1, AgreeInit, AgreeStep, PTL DEF Spec

\* More bytes behind an artifact turn its acceptance into "trailing-bytes" where
\* it ends, and leave every refusal but "truncated" as it was: Decode settles
\* what it has read by what it has read.
THEOREM PrefixesSettle == Spec => []SettledByPrefix
<1>1. AgreeInv => SettledByPrefix
  BY DEF AgreeInv, Agreed, Alike, AGivesUp, BGivesUp, SettledByPrefix, ByBytesAlone
<1> QED
  BY <1>1, AgreeInit, AgreeStep, PTL DEF Spec
=============================================================================
