--------------------------- MODULE DecoderProofs ---------------------------
(***************************************************************************)
(* Theorems about the decoder, for every choice of its constants, and      *)
(* their proofs.                                                           *)
(***************************************************************************)
EXTENDS Decoder, SequenceTheorems, TLAPS

(***************************************************************************)
(* Arithmetic and bytes.                                                   *)
(***************************************************************************)
\* A remainder is smaller than the divisor, and leaves small numbers alone.
LEMMA ModFacts ==
  ASSUME NEW x \in Int, NEW m \in Nat \ {0}
  PROVE  /\ x % m \in 0 .. m - 1
         /\ x \in 0 .. m - 1 => x % m = x
OBVIOUS

\* A quotient stays below k when the dividend is below k * m.
LEMMA DivFacts ==
  ASSUME NEW x \in Nat, NEW m \in Nat \ {0}
  PROVE  /\ x \div m \in Nat
         /\ x < 8 * m => x \div m \in 0 .. 7
OBVIOUS

\* A head splits into one of eight major types and the additional information.
LEMMA HeadType ==
  ASSUME NEW h \in Byte
  PROVE  Major(h) \in 0 .. 7 /\ Ai(h) \in 0 .. Imm + 7
<1>1. AiCodes \in Nat \ {0} /\ Byte = 0 .. 8 * AiCodes - 1
  BY ImmAssumption DEF AiCodes, Byte, Radix
<1>2. h \in Nat /\ h < 8 * AiCodes
  BY <1>1
<1>3. Major(h) \in 0 .. 7
  BY <1>1, <1>2, DivFacts DEF Major
<1>4. Ai(h) \in 0 .. AiCodes - 1
  <2>1. h \in Int /\ AiCodes \in Nat \ {0}
    BY <1>1, <1>2
  <2>2. h % AiCodes \in 0 .. AiCodes - 1
    BY <2>1, ModFacts
  <2> QED
    BY <2>2 DEF Ai
<1> QED
  BY <1>3, <1>4, ImmAssumption DEF AiCodes

\* The argument of a head is at most eight bytes long.
LEMMA WidthType ==
  ASSUME NEW a
  PROVE  Width(a) \in 0 .. 8
<1>1. CASE a \in Imm .. Imm + 3
  <2>1. a - Imm + 1 \in 1 .. 4
    BY <1>1, ImmAssumption
  <2> QED
    BY <1>1, <2>1, WidthsAssumption DEF Width
<1>2. CASE a \notin Imm .. Imm + 3
  BY <1>2 DEF Width
<1> QED
  BY <1>1, <1>2

\* One step of Horner's rule stays in the naturals.
LEMMA HornerStep ==
  ASSUME NEW x \in Nat, NEW d \in Nat
  PROVE  x * Radix + d \in Nat
<1>1. Radix \in Nat
  BY ImmAssumption DEF Radix, AiCodes
<1> QED
  BY <1>1

\* The powers of the radix, as far as an argument is long, are natural numbers.
LEMMA PowerType ==
  /\ \A n \in 0..Widths[4] : Radix ^ n \in Nat \ {0}
  /\ \A k \in 1..4 : Radix ^ Widths[k] \in Nat \ {0}
<1> DEFINE P(n) == n <= Widths[4] => Radix ^ n \in Nat \ {0}
<1>1. Radix \in Nat \ {0} /\ Widths[4] \in 1..8
  BY ImmAssumption, WidthsAssumption DEF Radix, AiCodes
<1>2. ASSUME NEW n \in Nat, P(n) PROVE P(n + 1)
  <2> SUFFICES ASSUME n + 1 <= Widths[4] PROVE Radix ^ (n + 1) \in Nat \ {0}
    OBVIOUS
  <2>1. n \in 0 .. Widths[4] - 1
    BY <1>1
  <2>2. Radix ^ (n + 1) = Radix * Radix ^ n /\ Radix ^ n \in Nat \ {0}
    BY <1>1, <1>2, <2>1, PowerAssumption
  <2>3. \A x, y \in Nat \ {0} : x * y \in Nat \ {0}
    OBVIOUS
  <2> QED
    BY <1>1, <2>2, <2>3
<1>3. P(0)
  BY PowerAssumption
<1> HIDE DEF P
<1>4. P(1) BY <1>2, <1>3
<1>5. P(2) BY <1>2, <1>4
<1>6. P(3) BY <1>2, <1>5
<1>7. P(4) BY <1>2, <1>6
<1>8. P(5) BY <1>2, <1>7
<1>9. P(6) BY <1>2, <1>8
<1>10. P(7) BY <1>2, <1>9
<1>11. P(8) BY <1>2, <1>10
<1>12. \A n \in 0..Widths[4] : Radix ^ n \in Nat \ {0}
  <2> TAKE n \in 0..Widths[4]
  <2>1. n \in {0, 1, 2, 3, 4, 5, 6, 7, 8}
    BY <1>1
  <2>2. P(n)
    BY <1>3, <1>4, <1>5, <1>6, <1>7, <1>8, <1>9, <1>10, <1>11, <2>1
  <2> QED
    BY <1>1, <2>2 DEF P
<1>13. \A k \in 1..4 : Widths[k] \in 0..Widths[4]
  BY WidthsAssumption
<1> QED
  BY <1>12, <1>13

\* The least argument of a head form is a natural number.
LEMMA LeastType ==
  ASSUME NEW a
  PROVE  Least(a) \in Nat
<1>1. \A k \in 1..3 : Radix ^ Widths[k] \in Nat
  BY PowerType
<1> QED
  BY <1>1, ImmAssumption DEF Least

\* A big-endian number is a natural number.
LEMMA UintType ==
  ASSUME NEW s \in Bytes
  PROVE  Uint(s) \in Nat
<1> DEFINE d(j) == IF j <= Len(s) THEN s[Len(s) + 1 - j] ELSE 0
<1>1. \A j \in 1..8 : d(j) \in Nat
  <2> TAKE j \in 1..8
  <2>1. CASE j <= Len(s)
    <3>1. Len(s) + 1 - j \in 1..Len(s)
      BY <2>1, LenProperties DEF Bytes
    <3>2. s[Len(s) + 1 - j] \in Byte
      BY <3>1, ElementOfSeq DEF Bytes
    <3> QED
      BY <2>1, <3>2, ImmAssumption DEF Byte
  <2>2. CASE ~(j <= Len(s))
    BY <2>2
  <2> QED
    BY <2>1, <2>2
<1> DEFINE h7 == d(8) * Radix + d(7)
           h6 == h7 * Radix + d(6)
           h5 == h6 * Radix + d(5)
           h4 == h5 * Radix + d(4)
           h3 == h4 * Radix + d(3)
           h2 == h3 * Radix + d(2)
<1>2. d(1) \in Nat /\ d(2) \in Nat /\ d(3) \in Nat /\ d(4) \in Nat
      /\ d(5) \in Nat /\ d(6) \in Nat /\ d(7) \in Nat /\ d(8) \in Nat
  BY <1>1
<1>3. Uint(s) = h2 * Radix + d(1)
  BY DEF Uint
<1> HIDE DEF d
<1>4. h7 \in Nat
  BY <1>2, HornerStep
<1> HIDE DEF h7
<1>5. h6 \in Nat
  BY <1>2, <1>4, HornerStep
<1> HIDE DEF h6
<1>6. h5 \in Nat
  BY <1>2, <1>5, HornerStep
<1> HIDE DEF h5
<1>7. h4 \in Nat
  BY <1>2, <1>6, HornerStep
<1> HIDE DEF h4
<1>8. h3 \in Nat
  BY <1>2, <1>7, HornerStep
<1> HIDE DEF h3
<1>9. h2 \in Nat
  BY <1>2, <1>8, HornerStep
<1> HIDE DEF h2
<1> QED
  BY <1>2, <1>3, <1>9, HornerStep

\* Narrowing to int keeps what fits; and a length that survives it unchanged
\* and is not negative is the argument itself.
LEMMA NarrowFacts ==
  ASSUME NEW x \in Nat
  PROVE  /\ ToInt(x) \in -IntHalf .. IntHalf - 1
         /\ x < IntHalf => ToInt(x) = x
         /\ ToInt(x) >= 0 /\ ToUint64(ToInt(x)) = x => ToInt(x) = x
<1>1. IntHalf \in Nat \ {0} /\ Word \in Nat \ {0} /\ IntHalf <= Word
  BY IntAssumption, PowerType DEF Word
<1>2. ToInt(x) \in -IntHalf .. IntHalf - 1
  BY <1>1, ModFacts DEF ToInt
<1>3. x < IntHalf => ToInt(x) = x
  BY <1>1, ModFacts DEF ToInt
<1>4. ASSUME ToInt(x) >= 0, ToUint64(ToInt(x)) = x
      PROVE  ToInt(x) = x
  <2>1. ToInt(x) \in 0 .. Word - 1
    BY <1>1, <1>2, <1>4
  <2>2. \A n \in 0 .. Word - 1 : n % Word = n
    BY <1>1, ModFacts
  <2> QED
    BY <1>4, <2>1, <2>2 DEF ToUint64
<1> QED
  BY <1>2, <1>3, <1>4

\* A slice between two positions of the input is a string of bytes.
LEMMA SliceType ==
  ASSUME data \in Bytes, NEW from \in Nat, NEW to \in Nat,
         from <= to, to <= Len(data)
  PROVE  Slice(from, to) \in Bytes /\ Len(Slice(from, to)) = to - from
<1>1. \A i \in from + 1 .. to : data[i] \in Byte
  BY ElementOfSeq DEF Bytes
<1>2. SubSeq(data, from + 1, to) \in Seq(Byte)
  BY <1>1, SubSeqProperties
<1>3. Len(SubSeq(data, from + 1, to)) = IF from + 1 <= to THEN to - (from + 1) + 1 ELSE 0
  BY <1>1, SubSeqProperties
<1> QED
  BY <1>2, <1>3 DEF Slice, Bytes

-----------------------------------------------------------------------------
(***************************************************************************)
(* Type correctness.  TypeOK is not inductive: what Close and the returns  *)
(* read must be there, a returned value must lie within the input, and a   *)
(* container must have been opened at a position already passed.           *)
(***************************************************************************)
ControlOK ==
  /\ pc = "close" => stack # <<>>
  /\ pc = "return" => out # <<>>
Spans == \A i \in 1..Len(out) : out[i].at <= out[i].end /\ out[i].end <= Len(data)
OpenBehind == \A k \in 1..Len(stack) : stack[k].at < pos
TypeInv == TypeOK /\ ControlOK /\ Spans /\ OpenBehind

\* What item knows once it has read a head byte.
LEMMA HeadFacts ==
  ASSUME TypeOK, pos < Len(data)
  PROVE  /\ b \in Byte /\ Major(b) \in 0..7 /\ ai \in 0 .. Imm + 7
         /\ Body \in Nat /\ pos < Body
<1>1. pos + 1 \in 1..Len(data)
  BY LenProperties DEF TypeOK, Bytes
<1>2. b \in Byte
  BY <1>1, ElementOfSeq DEF TypeOK, Bytes, b
<1>3. Major(b) \in 0..7 /\ ai \in 0 .. Imm + 7
  BY <1>2, HeadType DEF ai
<1>4. Width(AiAt(pos)) \in 0..8
  BY WidthType
<1> QED
  BY <1>1, <1>2, <1>3, <1>4 DEF Body, BodyAt, TypeOK

\* The argument is a natural number when all its bytes are there, and the
\* head that passes readArg is minimal.
LEMMA ArgFacts ==
  ASSUME TypeOK, pos < Len(data)
  PROVE  /\ ArgReason \in Reasons \cup {"none"}
         /\ ArgReason \in {"none", "non-minimal"} => Body <= Len(data) /\ Arg \in Nat
         /\ ArgReason = "none" => ai \in 0 .. Imm + 3 /\ Arg >= Least(ai)
<1>1. ArgReason \in Reasons \cup {"none"}
  BY DEF ArgReason, Reasons, ByteDetermined
<1>2. ASSUME ArgReason \in {"none", "non-minimal"}
      PROVE  ai \in 0 .. Imm + 3 /\ Body <= Len(data)
  <2>1. ai \in 0 .. Imm + 7 /\ Body \in Nat
    BY HeadFacts
  <2>2. ai # Indefinite /\ ai \notin Reserved
    BY <1>2 DEF ArgReason
  <2>3. ai \in 0 .. Imm + 3
    BY <2>1, <2>2, ImmAssumption DEF Indefinite, Reserved
  <2>4. ~(Body > Len(data))
    BY <1>2, <2>1, <2>2, ImmAssumption DEF ArgReason, Indefinite
  <2> QED
    BY <2>1, <2>3, <2>4, LenProperties DEF TypeOK, Bytes
<1>3. ASSUME ArgReason \in {"none", "non-minimal"}
      PROVE  Arg \in Nat
  <2>1. CASE Width(AiAt(pos)) = 0
    BY <1>2, <1>3, <2>1, ImmAssumption DEF Arg, ArgAt, AiAt, ai, b
  <2>2. CASE Width(AiAt(pos)) # 0
    <3>1. Width(AiAt(pos)) \in 0..8 /\ pos \in Nat
      BY WidthType DEF TypeOK
    <3>2. pos + 1 \in Nat /\ BodyAt(pos) \in Nat /\ pos + 1 <= BodyAt(pos)
          /\ BodyAt(pos) <= Len(data)
      BY <1>2, <1>3, <3>1 DEF BodyAt, Body
    <3>3. Slice(pos + 1, BodyAt(pos)) \in Bytes
      BY <3>2, SliceType DEF TypeOK
    <3>4. Uint(Slice(pos + 1, BodyAt(pos))) \in Nat
      BY <3>3, UintType
    <3> QED
      BY <2>2, <3>4 DEF Arg, ArgAt
  <2> QED
    BY <2>1, <2>2
<1>4. ASSUME ArgReason = "none"
      PROVE  Arg >= Least(ai)
  <2>1. Arg \in Nat /\ ai \in 0 .. Imm + 3 /\ Body <= Len(data)
    BY <1>2, <1>3, <1>4
  <2>2. ~(Arg < Least(ai))
    BY <1>4 DEF ArgReason
  <2>3. Least(ai) \in Nat
    BY ImmAssumption, LeastType
  <2> QED
    BY <2>1, <2>2, <2>3
<1> QED
  BY <1>1, <1>2, <1>3, <1>4

\* A length that passes both checks of bytes is the argument, and the string
\* is inside the input.
LEMMA StringFacts ==
  ASSUME TypeOK, pos < Len(data), ArgReason = "none"
  PROVE  /\ ~LengthLost /\ N >= 0 => N = Arg
         /\ N \in Int
         /\ ~StringTruncated /\ ~StringPanics =>
              N \in Nat /\ N = Arg /\ Body + N \in Nat /\ Body + N <= Len(data)
<1>1. Arg \in Nat /\ Body \in Nat /\ IntHalf \in Nat
  BY ArgFacts, HeadFacts, IntAssumption
<1>2. N \in -IntHalf .. IntHalf - 1
  BY <1>1, NarrowFacts DEF N
<1>3. ~LengthLost /\ N >= 0 => N = Arg
  BY <1>1, NarrowFacts DEF N, LengthLost
<1>4. ASSUME ~StringTruncated, ~StringPanics
      PROVE  N \in Nat /\ N = Arg /\ Body + N \in Nat /\ Body + N <= Len(data)
  <2>1. N >= 0 /\ Body + N <= Len(data)
    BY <1>1, <1>2, <1>4, LenProperties DEF StringPanics, TypeOK, Bytes
  <2>2. ~LengthLost
    BY <1>4 DEF StringTruncated
  <2> QED
    BY <1>1, <1>2, <1>3, <2>1, <2>2
<1> QED
  BY <1>1, <1>2, <1>3, <1>4

\* Every open container has a place.
LEMMA FrameType ==
  ASSUME TypeOK, NEW k \in 1..Len(stack)
  PROVE  stack[k] \in Frame /\ stack[k].at \in Nat
<1>1. stack[k] \in Frame
  BY ElementOfSeq DEF TypeOK
<1> QED
  BY <1>1 DEF Frame

\* Moving forward leaves the open containers behind.
LEMMA OpenStays ==
  ASSUME TypeOK, OpenBehind, UNCHANGED stack, pos' \in Nat, pos <= pos'
  PROVE  OpenBehind'
<1> SUFFICES ASSUME NEW k \in 1..Len(stack)
             PROVE  stack[k].at < pos'
  BY DEF OpenBehind
<1>1. stack[k].at \in Nat /\ pos \in Nat
  BY FrameType DEF TypeOK
<1> QED
  BY <1>1 DEF OpenBehind

\* out grows by one value at its end.
LEMMA OutGrows ==
  ASSUME TypeOK, NEW v \in Node, out' = Append(out, v)
  PROVE  /\ out' \in Seq(Node) /\ out' # <<>> /\ Len(out') = Len(out) + 1
         /\ \A i \in 1..Len(out) : out'[i] = out[i]
         /\ out'[Len(out) + 1] = v
BY AppendProperties DEF TypeOK

\* A value inside the input may join the others.
LEMMA SpansGrow ==
  ASSUME TypeOK, Spans, NEW v \in Node, out' = Append(out, v), UNCHANGED data,
         v.at <= v.end, v.end <= Len(data)
  PROVE  Spans'
<1>1. /\ Len(out') = Len(out) + 1 /\ Len(out) \in Nat
      /\ \A i \in 1..Len(out) : out'[i] = out[i]
      /\ out'[Len(out) + 1] = v
  BY OutGrows, LenProperties DEF TypeOK
<1> SUFFICES ASSUME NEW i \in 1..Len(out')
             PROVE  out'[i].at <= out'[i].end /\ out'[i].end <= Len(data)
  BY DEF Spans
<1>2. CASE i = Len(out) + 1
  BY <1>1, <1>2
<1>3. CASE i # Len(out) + 1
  <2>1. i \in 1..Len(out)
    BY <1>1, <1>3
  <2> QED
    BY <1>1, <2>1 DEF Spans
<1> QED
  BY <1>2, <1>3

\* Closing a container takes its frame off the stack.
LEMMA PopFacts ==
  ASSUME TypeOK, stack # <<>>, stack' = SubSeq(stack, 1, Len(stack) - 1)
  PROVE  /\ stack' \in Seq(Frame) /\ Len(stack') = Len(stack) - 1
         /\ \A k \in 1 .. Len(stack) - 1 : stack'[k] = stack[k]
<1>1. Len(stack) \in Nat \ {0} /\ Len(stack) - 1 \in Int
  BY EmptySeq DEF TypeOK
<1>2. \A k \in 1 .. Len(stack) - 1 : stack[k] \in Frame
  BY <1>1, ElementOfSeq DEF TypeOK
<1> DEFINE top == Len(stack) - 1
<1>3. top \in Nat /\ \A k \in 1..top : stack[k] \in Frame
  BY <1>1, <1>2
<1> HIDE DEF top
<1>4. /\ SubSeq(stack, 1, top) \in Seq(Frame)
      /\ Len(SubSeq(stack, 1, top)) = IF 1 <= top THEN top - 1 + 1 ELSE 0
      /\ \A k \in 1 .. top - 1 + 1 : SubSeq(stack, 1, top)[k] = stack[1 + k - 1]
  BY <1>3, SubSeqProperties
<1>5. Len(SubSeq(stack, 1, top)) = top
  <2>1. (IF 1 <= top THEN top - 1 + 1 ELSE 0) = top
    BY <1>3
  <2> QED
    BY <1>4, <2>1
<1>6. ASSUME NEW k \in 1..top
      PROVE  SubSeq(stack, 1, top)[k] = stack[k]
  <2>1. k \in 1 .. top - 1 + 1 /\ 1 + k - 1 = k
    BY <1>3
  <2> QED
    BY <1>4, <2>1
<1> QED
  BY <1>4, <1>5, <1>6 DEF top

\* Returning a value preserves it.
LEMMA YieldType ==
  ASSUME TypeInv, NEW v \in Node, Yield(v), items' \in Nat,
         v.at <= v.end, pos <= v.end, v.end <= Len(data)
  PROVE  TypeInv'
<1>1. /\ out' \in Seq(Node) /\ out' # <<>> /\ Len(out') = Len(out) + 1
      /\ \A i \in 1..Len(out) : out'[i] = out[i]
      /\ out'[Len(out) + 1] = v
  BY OutGrows DEF Yield, TypeInv
<1>2. v.end \in Nat
  BY DEF Node
<1>3. TypeOK'
  BY <1>1, <1>2 DEF Yield, TypeInv, TypeOK
<1>4. ControlOK'
  BY <1>1 DEF Yield, ControlOK
<1>5. Spans'
  BY SpansGrow DEF Yield, TypeInv
<1>6. OpenBehind'
  BY <1>2, OpenStays DEF Yield, TypeInv
<1> QED
  BY <1>3, <1>4, <1>5, <1>6 DEF TypeInv

\* The frame on top is a frame, and storing another one in its place keeps
\* the stack a stack.
LEMMA TopType ==
  ASSUME TypeOK, stack # <<>>
  PROVE  Top \in Frame /\ Len(stack) \in 1..Len(stack)
<1>1. Len(stack) \in 1..Len(stack)
  BY LenProperties, EmptySeq DEF TypeOK
<1> QED
  BY <1>1, ElementOfSeq DEF Top, TypeOK

\* The value that was just returned is a value.
LEMMA ReturnedType ==
  ASSUME TypeOK, out # <<>>
  PROVE  Returned \in Node /\ Len(out) \in 1..Len(out) /\ Len(out) \in Nat
<1>1. Len(out) \in 1..Len(out)
  BY LenProperties, EmptySeq DEF TypeOK
<1> QED
  BY <1>1, ElementOfSeq DEF Returned, TypeOK

\* Storing a value into the container on top preserves the invariant.
LEMMA StoreType ==
  ASSUME TypeInv, stack # <<>>, NEW f \in Frame, f.at = Top.at, Store(f)
  PROVE  /\ TypeInv'
         /\ Len(stack') = Len(stack)
         /\ stack'[Len(stack)] = f
         /\ \A k \in 1 .. Len(stack) - 1 : stack'[k] = stack[k]
<1>1. Len(stack) \in 1..Len(stack) /\ stack \in Seq(Frame)
  BY TopType DEF TypeInv, TypeOK
<1>2. /\ stack' \in Seq(Frame) /\ Len(stack') = Len(stack)
      /\ stack'[Len(stack)] = f
      /\ \A k \in 1 .. Len(stack) - 1 : stack'[k] = stack[k]
  BY <1>1, ExceptSeq DEF Store
<1>3. stack' # <<>>
  BY <1>1, <1>2, EmptySeq
<1>4. pc' \in {"item", "close"}
  BY DEF Store, Resume
<1>5. TypeOK'
  BY <1>2, <1>4 DEF Store, TypeInv, TypeOK
<1>6. OpenBehind'
  <2> SUFFICES ASSUME NEW k \in 1..Len(stack)
               PROVE  stack'[k].at < pos'
    BY <1>2 DEF OpenBehind
  <2>1. stack'[k].at = stack[k].at
    BY <1>1, <1>2 DEF Top
  <2> QED
    BY <2>1 DEF Store, TypeInv, OpenBehind
<1> QED
  BY <1>2, <1>3, <1>4, <1>5, <1>6 DEF Store, TypeInv, ControlOK, Spans

\* Decode starts well on any bytes.
LEMMA StartType ==
  ASSUME NEW d \in Bytes, Start(d)
  PROVE  TypeInv
<1>1. Len(d) \in Nat
  BY LenProperties DEF Bytes
<1>2. TypeOK
  BY <1>1, EmptySeq DEF Start, TypeOK, NoOutcome, Outcome
<1> QED
  BY <1>2, EmptySeq DEF Start, TypeInv, ControlOK, Spans, OpenBehind

\* The type invariant and what it needs hold at the start.
LEMMA TypeInit == Init => TypeInv
BY InputsAssumption, StartType DEF Init

\* A step that ends Decode without a value.
Ending ==
  \/ ItemTooDeep \/ ItemTooMany \/ ItemAtEnd \/ BadSimple \/ Tag \/ BadArg
  \/ StringPanic \/ BadString \/ BadCount \/ CountPanic \/ BadMapKey \/ Trailing

\* What such a step does: it stops where it is or further on, and says why.
Stops ==
  /\ pc' = "done"
  /\ UNCHANGED <<data, stack, out>>
  /\ pos' \in 0..Len(data) /\ pos <= pos'
  /\ items' \in Nat
  /\ outcome' \in Outcome /\ outcome'.kind \in {"refused", "panic"}

\* A refusal stops.
LEMMA RefuseOutcome ==
  ASSUME NEW r \in Reasons, NEW p \in Nat, Refuse(r, p),
         pos' \in 0..Len(data), pos <= pos', items' \in Nat
  PROVE  Stops
BY DEF Refuse, Stops, Outcome

\* A panic stops.
LEMMA PanicOutcome ==
  ASSUME Panic, pos' \in 0..Len(data), pos <= pos', items' \in Nat
  PROVE  Stops
BY DEF Panic, Stops, Outcome

\* The counters and positions at a head that item has read.
LEMMA ReadFacts ==
  ASSUME TypeOK
  PROVE  /\ pos \in Nat /\ pos <= Len(data) /\ Len(data) \in Nat /\ items \in Nat
         /\ pos \in 0..Len(data)
         /\ Count => items' = items + 1 /\ items' \in Nat /\ pc = "item"
         /\ HeadRead =>
              /\ items' \in Nat /\ items' = items + 1 /\ items + 1 <= MaxItems /\ pc = "item"
              /\ pos < Len(data) /\ Body \in Nat /\ pos < Body
              /\ Major(b) \in 0..7 /\ ai \in Nat
         /\ ArgRead =>
              /\ HeadRead /\ ArgReason = "none"
              /\ Body \in 0..Len(data) /\ Arg \in Nat
<1>0. /\ pos \in Nat /\ pos <= Len(data) /\ Len(data) \in Nat /\ items \in Nat
      /\ pos \in 0..Len(data)
  BY LenProperties DEF TypeOK, Bytes
<1>1. Count => items' = items + 1 /\ items' \in Nat /\ pc = "item"
  BY <1>0 DEF Count
<1>2. ASSUME HeadRead
      PROVE  /\ items' \in Nat /\ items' = items + 1 /\ items + 1 <= MaxItems /\ pc = "item"
             /\ pos < Len(data) /\ Body \in Nat /\ pos < Body
             /\ Major(b) \in 0..7 /\ ai \in Nat
  BY <1>1, <1>2, HeadFacts, ImmAssumption DEF HeadRead
<1>3. ASSUME ArgRead
      PROVE  /\ HeadRead /\ ArgReason = "none"
             /\ Body \in 0..Len(data) /\ Arg \in Nat
  BY <1>0, <1>2, <1>3, ArgFacts DEF ArgRead
<1> QED
  BY <1>0, <1>1, <1>2, <1>3

\* Every ending step stops, and only a running Decode takes one.
LEMMA EndFacts ==
  ASSUME TypeInv, Ending
  PROVE  Stops /\ pc # "done"
<1> USE DEF TypeInv
<1>0. /\ pos \in Nat /\ pos <= Len(data) /\ Len(data) \in Nat /\ items \in Nat
      /\ pos \in 0..Len(data)
  BY ReadFacts
<1>a. ASSUME Count
      PROVE  items' \in Nat
  BY <1>a, ReadFacts
<1>b. ASSUME HeadRead
      PROVE  /\ items' \in Nat /\ pos < Len(data)
             /\ Body \in Nat /\ pos < Body /\ Major(b) \in 0..7 /\ ai \in Nat
  BY <1>b, ReadFacts
<1>c. ASSUME ArgRead
      PROVE  /\ items' \in Nat /\ Body \in 0..Len(data) /\ Arg \in Nat
             /\ Major(b) \in 0..7 /\ pos < Body /\ pos < Len(data)
  BY <1>b, <1>c, ReadFacts
<1>d. pc # "done"
  BY DEF Ending, ItemTooDeep, ItemTooMany, ItemAtEnd, BadSimple, Tag, BadArg, StringPanic,
     BadString, BadCount, CountPanic, BadMapKey, Trailing, StringRead, ContainerRead,
     ArgRead, HeadRead, Count, KeyReturned, Returning
<1> SUFFICES Stops
  BY <1>d
<1>1. CASE ItemTooDeep
  BY <1>1, <1>0, RefuseOutcome DEF ItemTooDeep, Reasons, LimitRelative
<1>2. CASE ItemTooMany
  <2>1. items' \in Nat /\ pos' = pos /\ Refuse("size-exceeded", pos)
    BY <1>2, <1>a DEF ItemTooMany
  <2> QED
    BY <1>0, <2>1, RefuseOutcome DEF Reasons, LimitRelative
<1>3. CASE ItemAtEnd
  BY <1>3, <1>0, <1>a, RefuseOutcome DEF ItemAtEnd, Reasons, ByteDetermined
<1>4. CASE BadSimple
  <2>1. HeadRead /\ Refuse(SimpleReason, pos) /\ pos' = pos /\ SimpleReason # "none"
    BY <1>4 DEF BadSimple
  <2>2. SimpleReason \in Reasons
    BY <2>1 DEF SimpleReason, Reasons, ByteDetermined
  <2> QED
    BY <1>0, <1>b, <2>1, <2>2, RefuseOutcome
<1>5. CASE Tag
  BY <1>5, <1>0, <1>b, RefuseOutcome DEF Tag, Reasons, ByteDetermined
<1>6. CASE BadArg
  <2>1. /\ HeadRead /\ Refuse(ArgReason, pos) /\ ArgReason # "none"
        /\ pos' = IF ArgReason = "non-minimal" THEN Body ELSE pos + 1
    BY <1>6 DEF BadArg
  <2>2. ArgReason \in Reasons /\ (ArgReason = "non-minimal" => Body <= Len(data))
    BY <1>b, <2>1, ArgFacts
  <2>3. pos' \in 0..Len(data)
    BY <1>0, <1>b, <2>1, <2>2
  <2> QED
    BY <1>0, <1>b, <2>1, <2>2, <2>3, RefuseOutcome
<1>7. CASE StringPanic
  BY <1>7, <1>0, <1>c, PanicOutcome DEF StringPanic, StringRead
<1>8. CASE BadString
  <2>1. /\ StringRead /\ Refuse(StringReason, pos) /\ StringReason # "none"
        /\ StringTruncated \/ ~StringPanics
        /\ pos' = IF StringTruncated THEN Body ELSE Body + N
    BY <1>8 DEF BadString
  <2>2. StringReason \in Reasons
    BY <2>1 DEF StringReason, TextReason, Reasons, ByteDetermined
  <2>3. pos' \in 0..Len(data) /\ pos <= pos'
    <3>1. CASE StringTruncated
      BY <1>0, <1>c, <2>1, <3>1 DEF StringRead
    <3>2. CASE ~StringTruncated
      <4>1. N \in Nat /\ Body + N <= Len(data)
        BY <1>c, <2>1, <3>2, StringFacts DEF StringRead, ArgRead
      <4> QED
        BY <1>0, <1>c, <2>1, <3>2, <4>1 DEF StringRead
    <3> QED
      BY <3>1, <3>2
  <2> QED
    BY <1>0, <1>c, <2>1, <2>2, <2>3, RefuseOutcome DEF StringRead
<1>9. CASE BadCount
  <2>1. ArgRead /\ pos' = Body
        /\ Refuse("size-exceeded", IF Major(b) = 4 THEN Body ELSE pos)
    BY <1>9 DEF BadCount, ContainerRead
  <2>2. /\ (IF Major(b) = 4 THEN Body ELSE pos) \in Nat /\ "size-exceeded" \in Reasons
        /\ pos' \in 0..Len(data) /\ pos <= pos' /\ items' \in Nat
    BY <1>0, <1>c, <2>1 DEF Reasons, LimitRelative
  <2> QED
    BY <2>1, <2>2, RefuseOutcome
<1>10. CASE CountPanic
  BY <1>10, <1>0, <1>c, PanicOutcome DEF CountPanic, ContainerRead
<1>11. CASE BadMapKey
  <2>1. /\ out # <<>> /\ KeyReason(Top, Returned) # "none"
        /\ Refuse(KeyReason(Top, Returned), Returned.at)
        /\ UNCHANGED <<pos, items>>
    BY <1>11 DEF BadMapKey, KeyReturned, Returning, ControlOK
  <2>2. KeyReason(Top, Returned) \in Reasons
    BY <2>1 DEF KeyReason, Reasons, ByteDetermined
  <2>3. Returned.at \in Nat
    BY <2>1, ReturnedType DEF Node
  <2> QED
    BY <1>0, <2>1, <2>2, <2>3, RefuseOutcome
<1>12. CASE Trailing
  BY <1>12, <1>0, RefuseOutcome DEF Trailing, Reasons, ByteDetermined
<1> QED
  BY <1>d, <1>1, <1>2, <1>3, <1>4, <1>5, <1>6, <1>7, <1>8, <1>9, <1>10, <1>11, <1>12 DEF Ending

\* A leaf step returns one value that starts at pos, lies inside the input and
\* is canonical.
LeafOK(v) ==
  /\ HeadRead /\ Yield(v)
  /\ v.at = pos /\ v.at < v.end /\ v.end <= Len(data)
  /\ v.m \notin {4, 5}
  /\ Canonical(v)

\* The head that was read is the minimal head of the value that starts there.
LEMMA HeadCanonical ==
  ASSUME TypeOK, ArgRead, NEW v, v.m = Major(b), v.arg = Arg, v.at = pos, v.body = Body
  PROVE  HeadMinimal(v)
<1>1. /\ pos < Len(data) /\ ArgReason = "none" /\ Major(b) <= 5 /\ Major(b) \in 0..7
      /\ Arg \in Nat
  BY ReadFacts DEF ArgRead
<1>2. ai \in 0 .. Imm + 3 /\ Arg >= Least(ai)
  BY <1>1, ArgFacts
<1> QED
  BY <1>1, <1>2 DEF HeadMinimal, Arg, Body, ai, AiAt, b

\* Boolean, Integer and String are such steps.
LEMMA LeafFacts ==
  ASSUME TypeInv, Boolean \/ Integer \/ String
  PROVE  \E v \in Node : LeafOK(v)
<1> USE DEF TypeInv
<1>1. CASE Boolean
  <2> DEFINE v == [m |-> 7, arg |-> ai, at |-> pos, body |-> pos + 1, end |-> pos + 1,
                   kids |-> <<>>]
  <2>1. HeadRead /\ Yield(v) /\ Major(b) = 7 /\ SimpleReason = "none"
    BY <1>1 DEF Boolean
  <2>2. pos \in Nat /\ pos < Len(data) /\ ai \in Nat /\ Len(data) \in Nat
    BY <2>1, ReadFacts
  <2>3. v \in Node
    BY <2>2, EmptySeq DEF Node, Majors
  <2>4. ai \in {SimpleFalse, SimpleTrue}
    BY <2>1 DEF SimpleReason
  <2>5. HeadMinimal(v)
    BY <2>1, <2>2, <2>4 DEF HeadMinimal, AiAt, ai, b
  <2>6. LeafOK(v)
    BY <2>1, <2>2, <2>5 DEF LeafOK, Canonical
  <2> QED
    BY <2>3, <2>6
<1>2. CASE Integer
  <2> DEFINE v == [m |-> Major(b), arg |-> Arg, at |-> pos, body |-> Body, end |-> Body,
                   kids |-> <<>>]
  <2>1. ArgRead /\ Yield(v) /\ Major(b) \in {0, 1}
    BY <1>2 DEF Integer
  <2>2. /\ pos \in Nat /\ pos < Len(data) /\ Len(data) \in Nat /\ HeadRead
        /\ Arg \in Nat /\ Body \in 0..Len(data) /\ pos < Body
    BY <2>1, ReadFacts
  <2>3. v \in Node
    BY <2>1, <2>2, EmptySeq DEF Node, Majors
  <2>4. HeadMinimal(v)
    BY <2>1, <2>3, HeadCanonical
  <2>5. LeafOK(v)
    BY <2>1, <2>2, <2>4 DEF LeafOK, Canonical
  <2> QED
    BY <2>3, <2>5
<1>3. CASE String
  <2> DEFINE v == [m |-> Major(b), arg |-> Arg, at |-> pos, body |-> Body,
                   end |-> Body + N, kids |-> <<>>]
  <2>1. /\ ArgRead /\ Yield(v) /\ Major(b) \in {2, 3}
        /\ ~StringTruncated /\ ~StringPanics /\ StringReason = "none"
    BY <1>3 DEF String, StringRead
  <2>2. /\ pos \in Nat /\ pos < Len(data) /\ Len(data) \in Nat /\ HeadRead
        /\ Arg \in Nat /\ Body \in 0..Len(data) /\ pos < Body /\ ArgReason = "none"
    BY <2>1, ReadFacts
  <2>3. N \in Nat /\ N = Arg /\ Body + N \in Nat /\ Body + N <= Len(data)
    BY <2>1, <2>2, StringFacts
  <2>4. v \in Node
    BY <2>1, <2>2, <2>3, EmptySeq DEF Node, Majors
  <2>5. HeadMinimal(v)
    BY <2>1, <2>4, HeadCanonical
  <2>6. v.m = 3 => TextReason(Slice(v.body, v.end)) = "none"
    BY <2>1 DEF StringReason
  <2>7. LeafOK(v)
    BY <2>1, <2>2, <2>3, <2>5, <2>6 DEF LeafOK, Canonical
  <2> QED
    BY <2>4, <2>7
<1> QED
  BY <1>1, <1>2, <1>3

\* The head of an open container.
HeadOf(f) == [m |-> f.m, arg |-> f.n, at |-> f.at, body |-> f.body, end |-> f.body,
              kids |-> f.kids]

\* Opening a container puts its frame, with a minimal head, on the stack.
Opens(f) ==
  /\ HeadRead
  /\ f.at = pos /\ f.body = pos' /\ pos < pos' /\ pos' \in 0..Len(data)
  /\ f.kids = <<>>
  /\ HeadMinimal(HeadOf(f))
  /\ stack' = Append(stack, f)
  /\ pc' = Resume(f)
  /\ UNCHANGED <<data, out, outcome>>

\* Open is such a step.
LEMMA OpenFacts ==
  ASSUME TypeInv, Open
  PROVE  \E f \in Frame : Opens(f)
<1> DEFINE f == [m |-> Major(b), n |-> N, at |-> pos, body |-> Body,
                 kids |-> <<>>, keysAreText |-> FALSE, prevKey |-> <<>>]
<1> USE DEF TypeInv
<1>1. /\ ArgRead /\ Major(b) \in {4, 5} /\ pos' = Body /\ ~LengthLost
      /\ stack' = Append(stack, f) /\ pc' = Resume(f) /\ N >= 0
      /\ UNCHANGED <<data, out, outcome>>
  BY DEF Open, ContainerRead
<1>2. /\ HeadRead /\ pos \in Nat /\ pos < Len(data) /\ pos < Body /\ ArgReason = "none"
      /\ Body \in 0..Len(data) /\ Len(data) \in Nat /\ Arg \in Nat
  BY <1>1, ReadFacts
<1>3. N \in Nat /\ N = Arg
  BY <1>1, <1>2, StringFacts
<1>4. f \in Frame
  BY <1>1, <1>2, <1>3, EmptySeq DEF Frame, Bytes
<1>5. HeadMinimal(HeadOf(f))
  BY <1>1, <1>3, HeadCanonical DEF HeadOf
<1>6. Opens(f)
  BY <1>1, <1>2, <1>5 DEF Opens
<1> QED
  BY <1>4, <1>6

\* A caller that stores the returned value only adds to its frame.
Stores(f) ==
  /\ pc = "return" /\ stack # <<>> /\ out # <<>>
  /\ Store(f)
  /\ f.m = Top.m /\ f.n = Top.n /\ f.at = Top.at /\ f.body = Top.body
  /\ f.kids = Append(Top.kids, Len(out))
  /\ f.m = 5 =>
       IF Len(Top.kids) % 2 = 1
       THEN f.keysAreText = Top.keysAreText /\ f.prevKey = Top.prevKey
       ELSE /\ KeyReason(Top, Returned) = "none"
            /\ f.keysAreText = IsText(Returned) /\ f.prevKey = KeyBytes(Returned)

\* The bytes of the key that was just returned.
LEMMA KeyBytesType ==
  ASSUME TypeInv, NEW i \in 1..Len(out)
  PROVE  KeyBytes(out[i]) \in Bytes
<1>1. out[i] \in Node
  BY ElementOfSeq DEF TypeInv, TypeOK
<1>2. out[i].at \in Nat /\ out[i].end \in Nat
  BY <1>1 DEF Node
<1>3. out[i].at <= out[i].end /\ out[i].end <= Len(data)
  BY DEF TypeInv, Spans
<1> QED
  BY <1>2, <1>3, SliceType DEF KeyBytes, TypeInv, TypeOK

\* Element, MapValue and MapKey are such steps.
LEMMA StoreFacts ==
  ASSUME TypeInv, Element \/ MapValue \/ MapKey
  PROVE  \E f \in Frame : Stores(f)
<1> USE DEF TypeInv
<1>1. pc = "return" /\ stack # <<>> /\ out # <<>>
  BY DEF Element, MapValue, MapKey, KeyReturned, Returning, ControlOK
<1>2. Top \in Frame /\ Returned \in Node /\ Len(out) \in Nat /\ Len(out) \in 1..Len(out)
  BY <1>1, TopType, ReturnedType
<1>3. Append(Top.kids, Len(out)) \in Seq(Nat)
  BY <1>2, AppendProperties DEF Frame
<1>4. CASE Element \/ MapValue
  <2> DEFINE f == [Top EXCEPT !.kids = Append(@, Len(out))]
  <2>1. f \in Frame
    BY <1>2, <1>3 DEF Frame
  <2>2. Store(f) /\ (Top.m = 5 => Len(Top.kids) % 2 = 1)
    <3>1. CASE Element
      <4>1. Store(f) /\ Top.m = 4
        BY <3>1 DEF Element, Returning
      <4> QED
        BY <4>1
    <3>2. CASE MapValue
      BY <3>2 DEF MapValue, Returning
    <3> QED
      BY <1>4, <3>1, <3>2
  <2>3. Stores(f)
    BY <1>1, <1>2, <2>2 DEF Stores, Frame
  <2> QED
    BY <2>1, <2>3
<1>5. CASE MapKey
  <2> DEFINE f == [Top EXCEPT !.kids = Append(@, Len(out)),
                              !.keysAreText = IsText(Returned),
                              !.prevKey = KeyBytes(Returned)]
  <2>1. Store(f) /\ KeyReason(Top, Returned) = "none" /\ Len(Top.kids) % 2 = 0
    BY <1>5 DEF MapKey, KeyReturned
  <2>2. KeyBytes(Returned) \in Bytes /\ IsText(Returned) \in BOOLEAN
    BY <1>2, KeyBytesType DEF Returned, IsText
  <2>3. f \in Frame
    BY <1>2, <1>3, <2>2 DEF Frame
  <2>4. Stores(f)
    BY <1>1, <1>2, <2>1 DEF Stores, Frame
  <2> QED
    BY <2>3, <2>4
<1> QED
  BY <1>4, <1>5

\* Closing a container turns the frame on top into a value.
Closed == [m |-> Top.m, arg |-> Top.n, at |-> Top.at,
           body |-> Top.body, end |-> pos, kids |-> Top.kids]

\* Close moves that value from the stack to out.
LEMMA CloseFacts ==
  ASSUME TypeInv, Close
  PROVE  /\ stack # <<>> /\ Closed \in Node /\ Closed.at < pos
         /\ pc = "close" /\ pc' = "return" /\ out' = Append(out, Closed)
         /\ UNCHANGED <<data, pos, items, outcome>>
         /\ stack' \in Seq(Frame) /\ Len(stack') = Len(stack) - 1
         /\ \A k \in 1 .. Len(stack) - 1 : stack'[k] = stack[k]
<1> USE DEF TypeInv
<1>1. /\ stack # <<>> /\ out' = Append(out, Closed) /\ pc = "close" /\ pc' = "return"
      /\ stack' = SubSeq(stack, 1, Len(stack) - 1)
      /\ UNCHANGED <<data, pos, items, outcome>>
  BY DEF Close, Closed, ControlOK
<1>2. Top \in Frame /\ Len(stack) \in 1..Len(stack)
  BY <1>1, TopType
<1>3. Closed \in Node
  BY <1>2, ReadFacts DEF Closed, Node, Frame, Majors
<1>4. Closed.at < pos
  BY <1>2 DEF Closed, OpenBehind, Top
<1> QED
  BY <1>1, <1>3, <1>4, PopFacts

\* Every step of Decode preserves the type invariant.
LEMMA TypeStep == TypeInv /\ [Next]_vars => TypeInv'
<1> SUFFICES ASSUME TypeInv, [Next]_vars
             PROVE  TypeInv'
  OBVIOUS
<1> USE DEF TypeInv
<1>0. pos \in Nat /\ Len(data) \in Nat /\ Len(stack) \in Nat /\ pos <= Len(data)
  BY ReadFacts, LenProperties DEF TypeOK
<1>1. CASE Boolean \/ Integer \/ String
  <2>1. PICK v \in Node : LeafOK(v)
    BY <1>1, LeafFacts
  <2>2. Yield(v) /\ v.at <= v.end /\ pos <= v.end /\ v.end <= Len(data) /\ items' \in Nat
    BY <1>0, <2>1, ReadFacts DEF LeafOK, Node
  <2> QED
    BY <2>2, YieldType
<1>2. CASE Open
  <2>1. PICK f \in Frame : Opens(f)
    BY <1>2, OpenFacts
  <2>2. /\ stack' \in Seq(Frame) /\ stack' # <<>> /\ Len(stack') = Len(stack) + 1
        /\ stack'[Len(stack) + 1] = f
        /\ \A k \in 1..Len(stack) : stack'[k] = stack[k]
    BY <2>1, AppendProperties DEF Opens, TypeOK
  <2>3. pc' \in {"item", "close"} /\ items' \in Nat
    BY <2>1, ReadFacts DEF Opens, Resume
  <2>4. TypeOK' /\ ControlOK' /\ Spans'
    BY <2>1, <2>2, <2>3 DEF Opens, TypeOK, ControlOK, Spans
  <2>5. ASSUME NEW k \in 1..Len(stack')
        PROVE  stack'[k].at < pos'
    <3>1. CASE k = Len(stack) + 1
      BY <2>1, <2>2, <3>1 DEF Opens
    <3>2. CASE k # Len(stack) + 1
      <4>1. k \in 1..Len(stack) /\ stack'[k] = stack[k]
        BY <1>0, <2>2, <3>2
      <4>2. stack[k].at \in Nat /\ stack[k].at < pos
        BY <4>1, FrameType DEF OpenBehind
      <4> QED
        BY <1>0, <2>1, <4>1, <4>2 DEF Opens
    <3> QED
      BY <3>1, <3>2
  <2> QED
    BY <2>4, <2>5 DEF OpenBehind
<1>3. CASE Element \/ MapValue \/ MapKey
  <2>1. PICK f \in Frame : Stores(f)
    BY <1>3, StoreFacts
  <2> QED
    BY <2>1, StoreType DEF Stores
<1>4. CASE Close
  <2>1. /\ Closed \in Node /\ out' = Append(out, Closed) /\ pc' = "return"
        /\ UNCHANGED <<data, pos, items, outcome>>
        /\ stack' \in Seq(Frame) /\ Len(stack') = Len(stack) - 1
        /\ \A k \in 1 .. Len(stack) - 1 : stack'[k] = stack[k]
    BY <1>4, CloseFacts
  <2>2. Closed.at <= Closed.end /\ Closed.end <= Len(data)
    BY <1>0, <1>4, CloseFacts DEF Closed, Node
  <2>3. Spans'
    BY <2>1, <2>2, SpansGrow
  <2>4. TypeOK' /\ ControlOK'
    BY <2>1, OutGrows DEF TypeOK, ControlOK
  <2>5. OpenBehind'
    BY <1>0, <2>1 DEF OpenBehind
  <2> QED
    BY <2>3, <2>4, <2>5
<1>5. CASE Accept
  BY <1>5 DEF Accept, TypeOK, ControlOK, Spans, OpenBehind, Outcome
<1>6. CASE UNCHANGED vars
  BY <1>6 DEF vars, TypeOK, ControlOK, Spans, OpenBehind
<1>7. CASE Ending
  <2>1. Stops
    BY <1>7, EndFacts
  <2>2. TypeOK' /\ ControlOK' /\ Spans'
    BY <2>1 DEF Stops, TypeOK, ControlOK, Spans
  <2>3. OpenBehind'
    BY <2>1, OpenStays DEF Stops
  <2> QED
    BY <2>2, <2>3
<1> QED
  BY <1>1, <1>2, <1>3, <1>4, <1>5, <1>6, <1>7 DEF Next, Ending

\* TypeOK holds in every state of every execution.
THEOREM TypeCorrect == Spec => []TypeOK
<1>1. TypeInv => TypeOK
  BY DEF TypeInv
<1> QED
  BY <1>1, TypeInit, TypeStep, PTL DEF Spec

-----------------------------------------------------------------------------
(***************************************************************************)
(* Limits and steps.                                                       *)
(***************************************************************************)
\* Every step preserves the limits.
LEMMA LimitsStep == TypeInv /\ WithinLimits /\ [Next]_vars => WithinLimits'
<1> SUFFICES ASSUME TypeInv, WithinLimits, [Next]_vars
             PROVE  WithinLimits'
  OBVIOUS
<1> USE DEF TypeInv
<1>0. /\ Len(out) \in Nat /\ Len(stack) \in Nat /\ items \in Nat
      /\ MaxDepth \in Nat /\ MaxItems \in Nat
  BY ReadFacts, LenProperties, LimitsAssumption DEF TypeOK
<1>1. CASE Boolean \/ Integer \/ String
  <2>1. PICK v \in Node : LeafOK(v)
    BY <1>1, LeafFacts
  <2>2. HeadRead /\ UNCHANGED stack /\ Len(out') = Len(out) + 1
    BY <2>1, OutGrows DEF LeafOK, Yield
  <2>3. items' = items + 1 /\ items + 1 <= MaxItems /\ pc = "item"
    BY <2>2, ReadFacts
  <2> QED
    BY <1>0, <2>2, <2>3 DEF WithinLimits
<1>2. CASE Open
  <2>1. PICK f \in Frame : Opens(f)
    BY <1>2, OpenFacts
  <2>2. HeadRead /\ UNCHANGED out /\ Len(stack') = Len(stack) + 1
    BY <2>1, AppendProperties DEF Opens, TypeOK
  <2>3. items' = items + 1 /\ items + 1 <= MaxItems /\ pc = "item" /\ Len(stack) <= MaxDepth
    BY <2>2, ReadFacts DEF HeadRead, Count, Depth
  <2> QED
    BY <1>0, <2>2, <2>3 DEF WithinLimits
<1>3. CASE Element \/ MapValue \/ MapKey
  <2>1. PICK f \in Frame : Stores(f)
    BY <1>3, StoreFacts
  <2>2. /\ Len(stack') = Len(stack) /\ UNCHANGED <<out, items>> /\ pc = "return"
    BY <2>1, StoreType DEF Stores, Store
  <2> QED
    BY <1>0, <2>2 DEF WithinLimits
<1>4. CASE Close
  <2>1. /\ Len(stack') = Len(stack) - 1 /\ Len(out') = Len(out) + 1 /\ UNCHANGED items
        /\ pc = "close"
    BY <1>4, CloseFacts, OutGrows
  <2> QED
    BY <1>0, <2>1 DEF WithinLimits
<1>5. CASE Accept
  BY <1>5 DEF Accept, WithinLimits
<1>6. CASE UNCHANGED vars
  BY <1>6 DEF vars, WithinLimits
<1>7. CASE Ending
  BY <1>7, EndFacts DEF Stops, WithinLimits
<1> QED
  BY <1>1, <1>2, <1>3, <1>4, <1>5, <1>6, <1>7 DEF Next, Ending

\* The limits hold at the start.
LEMMA LimitsStart ==
  ASSUME NEW d, Start(d)
  PROVE  WithinLimits
BY LimitsAssumption, EmptySeq DEF Start, WithinLimits

\* Decode stays within MaxItems values and MaxDepth + 1 nested calls, and
\* accounts for every item it has counted, whatever the input.
THEOREM LimitsHold == Spec => []WithinLimits
<1>1. Init => WithinLimits
  BY LimitsStart DEF Init
<1> QED
  BY <1>1, TypeInit, TypeStep, LimitsStep, PTL DEF Spec

\* A step goes forward.
LEMMA ForwardStep == TypeInv /\ Next => Forward
<1> SUFFICES ASSUME TypeInv, Next
             PROVE  Forward
  OBVIOUS
<1> USE DEF TypeInv
<1>0. Len(out) \in Nat /\ pos \in Nat
  BY ReadFacts, LenProperties DEF TypeOK
<1>1. CASE Boolean \/ Integer \/ String
  <2>1. PICK v \in Node : LeafOK(v)
    BY <1>1, LeafFacts
  <2>2. HeadRead /\ out' = Append(out, v) /\ pos' = v.end /\ v.end \in Nat /\ pos < v.end
    BY <2>1 DEF LeafOK, Yield, Node
  <2>3. pc = "item" /\ Len(out') = Len(out) + 1 /\ \A i \in 1..Len(out) : out'[i] = out[i]
    BY <2>2, OutGrows, ReadFacts
  <2> QED
    BY <1>0, <2>2, <2>3 DEF Forward
<1>2. CASE Open
  <2>1. PICK f \in Frame : Opens(f)
    BY <1>2, OpenFacts
  <2> QED
    BY <1>0, <2>1, ReadFacts DEF Opens, Forward
<1>3. CASE Element \/ MapValue \/ MapKey
  <2>1. PICK f \in Frame : Stores(f)
    BY <1>3, StoreFacts
  <2> QED
    BY <1>0, <2>1 DEF Stores, Store, Forward
<1>4. CASE Close
  <2>1. /\ Len(out') = Len(out) + 1 /\ UNCHANGED pos /\ pc = "close"
        /\ \A i \in 1..Len(out) : out'[i] = out[i]
    BY <1>4, CloseFacts, OutGrows
  <2> QED
    BY <1>0, <2>1 DEF Forward
<1>5. CASE Accept
  BY <1>0, <1>5 DEF Accept, Forward
<1>6. CASE Ending
  BY <1>0, <1>6, EndFacts DEF Stops, Forward
<1> QED
  BY <1>1, <1>2, <1>3, <1>4, <1>5, <1>6 DEF Next, Ending

\* Decode only goes forward: in its input, in the values it has returned, and
\* never past its verdict.
THEOREM GoesForward == Spec => OnlyForward
<1>1. TypeInv /\ [Next]_vars => [Forward]_vars
  BY ForwardStep
<1> QED
  BY <1>1, TypeInit, TypeStep, PTL DEF Spec, OnlyForward

\* A step burns fuel.
LEMMA BurnStep == TypeInv /\ Next => Burns
<1> SUFFICES ASSUME TypeInv, Next
             PROVE  Burns
  OBVIOUS
<1> USE DEF TypeInv
<1>0. /\ pos \in Nat /\ Len(data) \in Nat /\ pos <= Len(data) /\ Len(stack) \in Nat
      /\ Fuel \in Nat
  <2>1. pos \in Nat /\ Len(data) \in Nat /\ pos <= Len(data) /\ Len(stack) \in Nat
    BY ReadFacts, LenProperties DEF TypeOK
  <2> QED
    BY <2>1 DEF Fuel
<1>1. CASE Boolean \/ Integer \/ String
  <2>1. PICK v \in Node : LeafOK(v)
    BY <1>1, LeafFacts
  <2>2. /\ pos' \in Nat /\ pos < pos' /\ pc = "item" /\ pc' = "return"
        /\ UNCHANGED <<data, stack>>
    BY <1>0, <2>1, ReadFacts DEF LeafOK, Yield, Node
  <2> QED
    BY <1>0, <2>2, SMTT(40) DEF Burns, Fuel
<1>2. CASE Open
  <2>1. PICK f \in Frame : Opens(f)
    BY <1>2, OpenFacts
  <2>2. Len(stack') = Len(stack) + 1
    BY <2>1, AppendProperties DEF Opens, TypeOK
  <2>3. /\ pos' \in Nat /\ pos < pos' /\ pc = "item" /\ pc' \in {"item", "close"}
        /\ UNCHANGED data
    BY <1>0, <2>1, ReadFacts DEF Opens, Resume
  <2>4. Fuel = 4 * (Len(data) - pos) + 2 * Len(stack) + 1
    BY <2>3 DEF Fuel
  <2>5. Fuel' = 4 * (Len(data) - pos') + 2 * Len(stack') + 1
    BY <2>3 DEF Fuel
  <2>6. Fuel' < Fuel
    BY ONLY <1>0, <2>2, <2>3, <2>4, <2>5, SMTT(40)
  <2> QED
    BY <1>0, <2>6 DEF Burns
<1>3. CASE Element \/ MapValue \/ MapKey
  <2>1. PICK f \in Frame : Stores(f)
    BY <1>3, StoreFacts
  <2>2. stack # <<>> /\ f \in Frame /\ Store(f)
    BY <2>1 DEF Stores
  <2>3. /\ pc = "return" /\ pc' \in {"item", "close"} /\ UNCHANGED <<data, pos>>
        /\ Len(stack') = Len(stack)
    BY <2>1, <2>2, StoreType DEF Stores, Store, Resume
  <2> QED
    BY <1>0, <2>3 DEF Burns, Fuel
<1>4. CASE Close
  <2>1. /\ pc = "close" /\ pc' = "return" /\ UNCHANGED <<data, pos>>
        /\ Len(stack') = Len(stack) - 1
    BY <1>4, CloseFacts
  <2> QED
    BY <1>0, <2>1 DEF Burns, Fuel
<1>5. CASE Accept
  <2>1. pc = "return" /\ pc' = "done" /\ UNCHANGED <<data, pos, stack>>
    BY <1>5 DEF Accept
  <2> QED
    BY <1>0, <2>1 DEF Burns, Fuel
<1>6. CASE Ending
  <2>1. /\ pc \in {"item", "return", "close"} /\ pc' = "done" /\ UNCHANGED <<data, stack>>
        /\ pos' \in 0..Len(data) /\ pos <= pos'
    BY <1>6, EndFacts DEF Stops, TypeOK
  <2> QED
    BY <1>0, <2>1, SMTT(40) DEF Burns, Fuel
<1> QED
  BY <1>1, <1>2, <1>3, <1>4, <1>5, <1>6 DEF Next, Ending

\* Decode takes at most 4 * Len(data) + 1 steps on data: every step burns fuel,
\* and fuel is a natural number.
THEOREM RunsInLinearTime == Spec => LinearTime
<1>1. TypeInv /\ [Next]_vars => [Burns]_vars
  BY BurnStep
<1> QED
  BY <1>1, TypeInit, TypeStep, PTL DEF Spec, LinearTime

\* Until Decode is done it has no verdict.
Quiet == pc # "done" => outcome.kind = "none"

\* Only the steps that end Decode give a verdict.
LEMMA QuietStep == TypeInv /\ Quiet /\ [Next]_vars => Quiet'
<1> SUFFICES ASSUME TypeInv, Quiet, [Next]_vars
             PROVE  Quiet'
  OBVIOUS
<1>1. CASE Boolean \/ Integer \/ String
  <2>1. PICK v \in Node : LeafOK(v)
    BY <1>1, LeafFacts
  <2>2. HeadRead /\ UNCHANGED outcome
    BY <2>1 DEF LeafOK, Yield
  <2> QED
    BY <2>2 DEF HeadRead, Count, Quiet
<1>2. CASE Open
  <2>1. PICK f \in Frame : Opens(f)
    BY <1>2, OpenFacts
  <2> QED
    BY <2>1 DEF Opens, HeadRead, Count, Quiet
<1>3. CASE Element \/ MapValue \/ MapKey
  <2>1. PICK f \in Frame : Stores(f)
    BY <1>3, StoreFacts
  <2> QED
    BY <2>1 DEF Stores, Store, Quiet
<1>4. CASE Close
  BY <1>4 DEF Close, Quiet
<1>5. CASE Accept
  BY <1>5 DEF Accept, Quiet
<1>6. CASE UNCHANGED vars
  BY <1>6 DEF vars, Quiet
<1>7. CASE Ending
  BY <1>7, EndFacts DEF Stops, Quiet
<1> QED
  BY <1>1, <1>2, <1>3, <1>4, <1>5, <1>6, <1>7 DEF Next, Ending

\* A length that is negative as an int, or whose sum with the position of the
\* string is past the input although the narrowed sum is not, is huge.
LEMMA PanicFacts ==
  ASSUME TypeOK, ArgRead, ~LengthLost,
         N < 0 \/ (Body + N > Len(data) /\ ToInt(Body + N) <= Len(data))
  PROVE  Body + Arg >= IntHalf
<1>1. /\ Arg \in Nat /\ Body \in Nat /\ IntHalf \in Nat /\ Len(data) \in Nat
      /\ pos < Len(data) /\ ArgReason = "none"
  BY ReadFacts, IntAssumption
<1>2. N \in Int /\ (N >= 0 => N = Arg)
  BY <1>1, StringFacts
<1>3. CASE N < 0
  <2>1. ~(Arg < IntHalf)
    BY <1>1, <1>3, NarrowFacts DEF N
  <2> QED
    BY <1>1, <2>1
<1>4. CASE N >= 0
  <2>1. Body + N \in Nat /\ N = Arg /\ Body + N > Len(data) /\ ToInt(Body + N) <= Len(data)
    BY <1>1, <1>2, <1>4
  <2>2. ~(Body + N < IntHalf)
    BY <1>1, <2>1, NarrowFacts
  <2> QED
    BY <1>1, <2>1, <2>2
<1> QED
  BY <1>2, <1>3, <1>4

\* The only panicking steps are those of a huge length.
LEMMA HugeLengthStep == TypeInv /\ Quiet /\ Next => HugeLength
<1> SUFFICES ASSUME TypeInv, Quiet, Next, outcome'.kind = "panic"
             PROVE  Body + Arg >= IntHalf
  BY DEF HugeLength
<1> USE DEF TypeInv
<1>1. CASE StringPanic
  <2>1. ArgRead /\ ~LengthLost /\ ~(ToInt(Body + N) > Len(data)) /\ StringPanics
    BY <1>1 DEF StringPanic, StringRead, StringTruncated
  <2>2. Body \in Nat /\ Arg \in Nat /\ Len(data) \in Nat /\ ArgReason = "none" /\ pos < Len(data)
    BY <2>1, ReadFacts
  <2>3. N \in Int
    BY <2>2, StringFacts
  <2>4. CASE N < 0
    BY <2>1, <2>4, PanicFacts
  <2>5. CASE ~(N < 0)
    <3>1. Body + N > Len(data) /\ Body + N \in Nat
      BY <2>1, <2>2, <2>3, <2>5 DEF StringPanics
    <3>2. ToInt(Body + N) \in Int
      BY <3>1, NarrowFacts, IntAssumption
    <3>3. ToInt(Body + N) <= Len(data)
      BY <2>1, <2>2, <3>2
    <3> QED
      BY <2>1, <3>1, <3>3, PanicFacts
  <2> QED
    BY <2>4, <2>5
<1>2. CASE CountPanic
  BY <1>2, PanicFacts DEF CountPanic, ContainerRead
<1>3. ASSUME Ending, ~StringPanic, ~CountPanic
      PROVE  FALSE
  BY <1>3 DEF Ending, ItemTooDeep, ItemTooMany, ItemAtEnd, BadSimple, Tag, BadArg, BadString,
     BadCount, BadMapKey, Trailing, Refuse
<1>4. ASSUME ~Ending
      PROVE  FALSE
  <2>1. CASE Boolean \/ Integer \/ String
    <3>1. PICK v \in Node : LeafOK(v)
      BY <2>1, LeafFacts
    <3> QED
      BY <3>1 DEF LeafOK, Yield, HeadRead, Count, Quiet
  <2>2. CASE Open
    <3>1. PICK f \in Frame : Opens(f)
      BY <2>2, OpenFacts
    <3> QED
      BY <3>1 DEF Opens, HeadRead, Count, Quiet
  <2>3. CASE Element \/ MapValue \/ MapKey
    <3>1. PICK f \in Frame : Stores(f)
      BY <2>3, StoreFacts
    <3> QED
      BY <3>1 DEF Stores, Store, Quiet
  <2>4. CASE Close
    BY <2>4 DEF Close, Quiet
  <2>5. CASE Accept
    BY <2>5 DEF Accept
  <2> QED
    BY <1>4, <2>1, <2>2, <2>3, <2>4, <2>5 DEF Next, Ending
<1> QED
  BY <1>1, <1>2, <1>3, <1>4

\* Decode panics only on a length within one input of the largest native int,
\* or beyond it.
THEOREM PanicsAreHuge == Spec => PanicsOnlyOnHugeLengths
<1>1. Init => Quiet
  BY DEF Init, Start, Quiet, NoOutcome
<1>2. TypeInv /\ Quiet /\ [Next]_vars => [HugeLength]_vars
  BY HugeLengthStep
<1> QED
  BY <1>1, <1>2, TypeInit, TypeStep, QuietStep, PTL DEF Spec, PanicsOnlyOnHugeLengths

-----------------------------------------------------------------------------
(***************************************************************************)
(* Canonicality of what is accepted.  The invariant says the same of the   *)
(* half-read input: the values read so far are canonical, and the open     *)
(* containers are canonical as far as they have been read, one inside the  *)
(* other, from position 0 to the position of the item that is next.        *)
(***************************************************************************)
\* Where the k-th open container begins; past the last one, where the item
\* that is being read or has just been returned begins.
Begin(k) ==
  IF k <= Len(stack) THEN stack[k].at ELSE IF pc = "return" THEN Returned.at ELSE pos

\* The place of the key a map has read last.
LastKey(f) == IF Len(f.kids) % 2 = 1 THEN Len(f.kids) ELSE Len(f.kids) - 1

\* An open container, read up to position `to'.
Partial(f, to) ==
  /\ HeadMinimal(HeadOf(f))
  /\ Tiled(f.kids, f.body, to)
  /\ f.m = 5 => KeysAscend(f.kids)
  /\ f.m = 5 /\ f.kids # <<>> =>
       /\ f.keysAreText = IsText(out[f.kids[LastKey(f)]])
       /\ f.prevKey = KeyBytes(out[f.kids[LastKey(f)]])

HeapOK == \A i \in 1..Len(out) : Canonical(out[i])
StackOK ==
  pc # "done" => /\ Begin(1) = 0
                 /\ \A k \in 1..Len(stack) : Partial(stack[k], Begin(k + 1))
ReturnOK == pc = "return" => Returned.end = pos
CloseOK == pc = "close" => Len(Top.kids) = Slots(Top)
VerdictOK == outcome.kind = "value" => out # <<>> /\ Returned.at = 0 /\ Returned.end = Len(data)
CanonInv == HeapOK /\ StackOK /\ ReturnOK /\ CloseOK /\ VerdictOK

\* The order of keys is transitive, so neighbours in order are enough.
LEMMA BytesLessTransitive ==
  ASSUME NEW x \in Bytes, NEW y \in Bytes, NEW z \in Bytes,
         BytesLess(x, y), BytesLess(y, z)
  PROVE  BytesLess(x, z)
<1>0. /\ Len(x) \in Nat /\ Len(y) \in Nat /\ Len(z) \in Nat
      /\ \A i \in 1..Len(x) : x[i] \in Int
      /\ \A i \in 1..Len(y) : y[i] \in Int
      /\ \A i \in 1..Len(z) : z[i] \in Int
  <2>1. /\ Len(x) \in Nat /\ Len(y) \in Nat /\ Len(z) \in Nat
        /\ \A i \in 1..Len(x) : x[i] \in Byte
        /\ \A i \in 1..Len(y) : y[i] \in Byte
        /\ \A i \in 1..Len(z) : z[i] \in Byte
    BY LenProperties, ElementOfSeq DEF Bytes
  <2>2. \A h \in Byte : h \in Int
    BY DEF Byte
  <2> QED
    BY <2>1, <2>2
<1> DEFINE Prefix(u, w) == Len(u) < Len(w) /\ Agree(u, w, Len(u))
           Below(u, w, k) == k <= Len(w) /\ u[k] < w[k] /\ Agree(u, w, k - 1)
<1>1. CASE Prefix(x, y) /\ Prefix(y, z)
  <2>1. Len(x) < Len(z) /\ Agree(x, z, Len(x))
    BY <1>0, <1>1 DEF Agree
  <2> QED
    BY <2>1 DEF BytesLess
<1>2. ASSUME NEW k \in 1..Len(y), Prefix(x, y), Below(y, z, k)
      PROVE  BytesLess(x, z)
  <2>1. CASE k <= Len(x)
    <3>1. k \in 1..Len(x) /\ k <= Len(z) /\ x[k] < z[k] /\ Agree(x, z, k - 1)
      BY <1>0, <1>2, <2>1 DEF Agree
    <3> QED
      BY <3>1 DEF BytesLess
  <2>2. CASE ~(k <= Len(x))
    <3>1. Len(x) < Len(z) /\ Agree(x, z, Len(x))
      BY <1>0, <1>2, <2>2 DEF Agree
    <3> QED
      BY <3>1 DEF BytesLess
  <2> QED
    BY <2>1, <2>2
<1>3. ASSUME NEW k \in 1..Len(x), Below(x, y, k), Prefix(y, z)
      PROVE  BytesLess(x, z)
  <2>1. k <= Len(z) /\ x[k] < z[k] /\ Agree(x, z, k - 1)
    BY <1>0, <1>3 DEF Agree
  <2> QED
    BY <2>1 DEF BytesLess
<1>4. ASSUME NEW k \in 1..Len(x), NEW l \in 1..Len(y), Below(x, y, k), Below(y, z, l)
      PROVE  BytesLess(x, z)
  <2>1. CASE k <= l
    <3>1. k <= Len(z) /\ x[k] < z[k] /\ Agree(x, z, k - 1)
      <4>1. k <= Len(z) /\ k \in 1..Len(y) /\ k \in 1..Len(z)
        BY <1>0, <1>4, <2>1
      <4>2. y[k] <= z[k]
        <5>1. CASE k = l
          BY <1>0, <1>4, <5>1, <4>1
        <5>2. CASE k < l
          BY <1>0, <1>4, <5>2, <4>1 DEF Agree
        <5> QED
          BY <2>1, <5>1, <5>2
      <4>3. Agree(x, z, k - 1)
        BY <1>0, <1>4, <2>1 DEF Agree
      <4> QED
        BY <1>0, <1>4, <4>1, <4>2, <4>3
    <3> QED
      BY <3>1 DEF BytesLess
  <2>2. CASE l < k
    <3>1. l \in 1..Len(x) /\ l <= Len(z) /\ x[l] < z[l] /\ Agree(x, z, l - 1)
      BY <1>0, <1>4, <2>2 DEF Agree
    <3> QED
      BY <3>1 DEF BytesLess
  <2> QED
    BY <2>1, <2>2
<1> QED
  BY <1>1, <1>2, <1>3, <1>4 DEF BytesLess

\* The last odd place up to n.
LEMMA LastOdd ==
  ASSUME NEW n \in Nat \ {0}
  PROVE  (IF n % 2 = 1 THEN n ELSE n - 1) \in 1..n
OBVIOUS

\* Below an even n the last odd place is n - 1.
LEMMA OddBelow ==
  ASSUME NEW n \in Nat, n % 2 = 0
  PROVE  \A i \in 1..n : i % 2 = 1 =>
           n - 1 \in 1..n /\ (n - 1) % 2 = 1 /\ (i = n - 1 \/ i < n - 1)
OBVIOUS

\* out has grown, or not changed, at its end only.
Grown ==
  /\ UNCHANGED data
  /\ Len(out) \in Nat /\ Len(out') \in Nat /\ Len(out) <= Len(out')
  /\ \A i \in 1..Len(out) : out'[i] = out[i]

\* What was established of a value or of an open container stays so as out
\* grows.
LEMMA TiledStays ==
  ASSUME Grown, NEW kids \in Seq(Nat), NEW from, NEW to, Tiled(kids, from, to)
  PROVE  Tiled(kids, from, to)'
<1>0. Len(kids) \in Nat /\ (kids # <<>> => Len(kids) \in 1..Len(kids) /\ 1 \in 1..Len(kids))
  BY EmptySeq, LenProperties
<1>1. \A j \in 1..Len(kids) : kids[j] \in 1..Len(out)
  BY DEF Tiled
<1>2. \A j \in 1..Len(kids) : kids[j] \in 1..Len(out') /\ out'[kids[j]] = out[kids[j]]
  BY <1>1 DEF Grown
<1>3. \A j \in 1..Len(kids) - 1 : j \in 1..Len(kids) /\ j + 1 \in 1..Len(kids)
  BY <1>0
<1> QED
  BY <1>0, <1>2, <1>3 DEF Tiled

\* Likewise for the order of the keys.
LEMMA KeysStay ==
  ASSUME Grown, NEW kids \in Seq(Nat), \A j \in 1..Len(kids) : kids[j] \in 1..Len(out),
         KeysAscend(kids)
  PROVE  KeysAscend(kids)'
<1>1. \A j \in 1..Len(kids) : out'[kids[j]] = out[kids[j]]
  BY DEF Grown
<1> SUFFICES ASSUME NEW i \in 1..Len(kids), NEW j \in 1..Len(kids), i % 2 = 1, j % 2 = 1
             PROVE  (/\ out[kids[i]].m \in {0, 1, 3}
                     /\ IsText(out[kids[i]]) = IsText(out[kids[j]])
                     /\ i < j => BytesLess(KeyBytes(out[kids[i]]), KeyBytes(out[kids[j]])))'
  BY DEF KeysAscend
<1>2. out'[kids[i]] = out[kids[i]] /\ out'[kids[j]] = out[kids[j]]
  BY <1>1
<1>3. KeyBytes(out[kids[i]])' = KeyBytes(out[kids[i]]) /\ KeyBytes(out[kids[j]])' = KeyBytes(out[kids[j]])
  BY <1>2 DEF KeyBytes, Slice, Grown
<1>4. /\ out[kids[i]].m \in {0, 1, 3}
      /\ IsText(out[kids[i]]) = IsText(out[kids[j]])
      /\ i < j => BytesLess(KeyBytes(out[kids[i]]), KeyBytes(out[kids[j]]))
  BY DEF KeysAscend
<1> QED
  BY <1>2, <1>3, <1>4 DEF IsText, BytesLess, Agree

\* Likewise for the head.
LEMMA HeadStays ==
  ASSUME Grown, NEW v, HeadMinimal(v)
  PROVE  HeadMinimal(v)'
BY DEF HeadMinimal, AiAt, BodyAt, ArgAt, Slice, Grown

\* Likewise for a whole value.
LEMMA CanonicalStays ==
  ASSUME Grown, NEW v \in Node, Canonical(v)
  PROVE  Canonical(v)'
<1>0. v.kids \in Seq(Nat)
  BY DEF Node
<1>1. HeadMinimal(v)'
  BY HeadStays DEF Canonical
<1>2. v.m \in {4, 5} => Tiled(v.kids, v.body, v.end)'
  BY <1>0, TiledStays DEF Canonical
<1>3. v.m = 5 => KeysAscend(v.kids)'
  BY <1>0, KeysStay DEF Canonical, Tiled
<1> QED
  BY <1>1, <1>2, <1>3 DEF Canonical, Grown, Slice

\* Likewise for an open container.
LEMMA PartialStays ==
  ASSUME Grown, NEW f \in Frame, NEW to, Partial(f, to)
  PROVE  Partial(f, to)'
<1>0. f.kids \in Seq(Nat)
  BY DEF Frame
<1>1. HeadMinimal(HeadOf(f))'
  BY HeadStays DEF Partial
<1>a. Tiled(f.kids, f.body, to)'
  BY <1>0, TiledStays DEF Partial
<1>2. \A j \in 1..Len(f.kids) : f.kids[j] \in 1..Len(out)
  BY DEF Partial, Tiled
<1>3. f.m = 5 => KeysAscend(f.kids)'
  BY <1>0, <1>2, KeysStay DEF Partial
<1>4. ASSUME f.m = 5, f.kids # <<>>
      PROVE  /\ f.keysAreText = IsText(out[f.kids[LastKey(f)]])'
             /\ f.prevKey = KeyBytes(out[f.kids[LastKey(f)]])'
  <2>1. LastKey(f) \in 1..Len(f.kids)
    <3>1. Len(f.kids) \in Nat \ {0}
      BY <1>0, <1>4, EmptySeq
    <3> QED
      BY <3>1, LastOdd DEF LastKey
  <2>2. out'[f.kids[LastKey(f)]] = out[f.kids[LastKey(f)]]
    BY <1>2, <2>1 DEF Grown
  <2> QED
    BY <1>4, <2>2 DEF Partial, KeyBytes, Slice, Grown, IsText
<1> QED
  BY <1>1, <1>a, <1>3, <1>4 DEF Partial

\* A returned value that starts where the container ended extends it.
LEMMA TiledAppend ==
  ASSUME TypeInv, out # <<>>, NEW kids \in Seq(Nat), NEW from, Tiled(kids, from, Returned.at)
  PROVE  Tiled(Append(kids, Len(out)), from, Returned.end)
<1> DEFINE more == Append(kids, Len(out))
<1>1. Len(out) \in 1..Len(out) /\ Len(out) \in Nat
  BY ReturnedType DEF TypeInv
<1>2. /\ more \in Seq(Nat) /\ more # <<>> /\ Len(more) = Len(kids) + 1
      /\ \A j \in 1..Len(kids) : more[j] = kids[j]
      /\ more[Len(kids) + 1] = Len(out)
  BY <1>1, AppendProperties
<1>3. Len(kids) \in Nat /\ (kids # <<>> => Len(kids) \in 1..Len(kids) /\ 1 \in 1..Len(kids))
      /\ (kids = <<>> => Len(kids) = 0)
  BY EmptySeq, LenProperties
<1> HIDE DEF more
<1>4. ASSUME NEW j \in 1..Len(more)
      PROVE  more[j] \in 1..Len(out)
  <2>1. CASE j = Len(kids) + 1
    BY <1>1, <1>2, <2>1
  <2>2. CASE j # Len(kids) + 1
    <3>1. j \in 1..Len(kids)
      BY <1>2, <1>3, <2>2
    <3> QED
      BY <1>2, <3>1 DEF Tiled
  <2> QED
    BY <2>1, <2>2
<1>5. out[more[1]].at = from
  <2>1. CASE kids = <<>>
    BY <1>2, <1>3, <2>1 DEF Tiled, Returned
  <2>2. CASE kids # <<>>
    BY <1>2, <1>3, <2>2 DEF Tiled
  <2> QED
    BY <2>1, <2>2
<1>6. out[more[Len(more)]].end = Returned.end
  BY <1>2 DEF Returned
<1>7. ASSUME NEW j \in 1..Len(more) - 1
      PROVE  out[more[j]].end = out[more[j + 1]].at
  <2>1. j \in 1..Len(kids) /\ more[j] = kids[j]
    BY <1>2, <1>3, <1>7
  <2>2. CASE j = Len(kids)
    <3>1. kids # <<>>
      BY <1>3, <2>1
    <3>2. out[kids[Len(kids)]].end = Returned.at
      BY <3>1 DEF Tiled
    <3> QED
      BY <1>2, <2>1, <2>2, <3>2 DEF Returned
  <2>3. CASE j # Len(kids)
    <3>1. j \in 1..Len(kids) - 1 /\ j + 1 \in 1..Len(kids)
      BY <1>3, <2>1, <2>3
    <3> QED
      BY <1>2, <2>1, <3>1 DEF Tiled
  <2> QED
    BY <2>2, <2>3
<1>8. Tiled(more, from, Returned.end)
  BY <1>2, <1>4, <1>5, <1>6, <1>7 DEF Tiled
<1> QED
  BY <1>8 DEF more

\* A value does not disturb the order of the keys.
LEMMA ValueAppend ==
  ASSUME TypeInv, out # <<>>, NEW kids \in Seq(Nat), KeysAscend(kids), Len(kids) % 2 = 1
  PROVE  KeysAscend(Append(kids, Len(out)))
<1> DEFINE more == Append(kids, Len(out))
<1>1. Len(out) \in Nat /\ Len(kids) \in Nat
  BY ReturnedType, LenProperties DEF TypeInv
<1>2. Len(more) = Len(kids) + 1 /\ \A j \in 1..Len(kids) : more[j] = kids[j]
  BY <1>1, AppendProperties
<1> HIDE DEF more
<1>3. \A j \in 1..Len(more) : j % 2 = 1 => j \in 1..Len(kids)
  BY <1>1, <1>2
<1>4. KeysAscend(more)
  BY <1>2, <1>3 DEF KeysAscend
<1> QED
  BY <1>4 DEF more

\* A key that passes its checks comes after every key before it.
LEMMA KeyAppend ==
  ASSUME TypeInv, out # <<>>, NEW f \in Frame, f.m = 5, NEW to, Partial(f, to),
         Len(f.kids) % 2 = 0, KeyReason(f, Returned) = "none"
  PROVE  KeysAscend(Append(f.kids, Len(out)))
<1> DEFINE kids == f.kids
           more == Append(kids, Len(out))
           new  == Len(kids) + 1
<1>1. /\ Len(out) \in Nat /\ Len(out) \in 1..Len(out) /\ kids \in Seq(Nat) /\ Len(kids) \in Nat
      /\ (kids # <<>> => Len(kids) # 0)
  BY ReturnedType, LenProperties, EmptySeq DEF TypeInv, Frame
<1>2. /\ Len(more) = new /\ more[new] = Len(out)
      /\ \A j \in 1..Len(kids) : more[j] = kids[j]
  BY <1>1, AppendProperties
<1>3. out[more[new]] = Returned
  BY <1>2 DEF Returned
<1>4. /\ KeysAscend(kids)
      /\ \A j \in 1..Len(kids) : kids[j] \in 1..Len(out)
      /\ kids # <<>> => /\ f.keysAreText = IsText(out[kids[LastKey(f)]])
                       /\ f.prevKey = KeyBytes(out[kids[LastKey(f)]])
  BY DEF Partial, Tiled
<1>5. LastKey(f) = Len(kids) - 1 /\ Len(kids) % 2 = 0
  <2>1. \A n \in Nat : n % 2 = 0 => (IF n % 2 = 1 THEN n ELSE n - 1) = n - 1
    OBVIOUS
  <2>2. Len(f.kids) \in Nat
    BY <1>1
  <2> QED
    BY <2>1, <2>2 DEF LastKey
<1>6. /\ Returned.m \in {0, 1, 3}
      /\ kids # <<>> => f.keysAreText = IsText(Returned) /\ BytesLess(f.prevKey, KeyBytes(Returned))
  BY DEF KeyReason
<1> HIDE DEF more
<1>7. ASSUME NEW i \in 1..Len(kids), i % 2 = 1
      PROVE  /\ out[kids[i]].m \in {0, 1, 3}
             /\ IsText(out[kids[i]]) = IsText(Returned)
             /\ BytesLess(KeyBytes(out[kids[i]]), KeyBytes(Returned))
  <2>1. /\ kids # <<>> /\ LastKey(f) \in 1..Len(kids) /\ LastKey(f) % 2 = 1
        /\ i = LastKey(f) \/ i < LastKey(f)
    <3>1. Len(kids) - 1 \in 1..Len(kids) /\ (Len(kids) - 1) % 2 = 1
          /\ (i = Len(kids) - 1 \/ i < Len(kids) - 1)
      BY <1>1, <1>5, <1>7, OddBelow
    <3>2. kids # <<>>
      BY <1>7, EmptySeq
    <3> QED
      BY <1>5, <3>1, <3>2
  <2>2. /\ out[kids[i]].m \in {0, 1, 3}
        /\ IsText(out[kids[i]]) = IsText(out[kids[LastKey(f)]])
        /\ i < LastKey(f) => BytesLess(KeyBytes(out[kids[i]]), f.prevKey)
    BY <1>4, <1>7, <2>1 DEF KeysAscend
  <2>3. BytesLess(f.prevKey, KeyBytes(Returned))
    BY <1>6, <2>1
  <2>4. CASE i = LastKey(f)
    BY <1>4, <1>6, <2>1, <2>2, <2>3, <2>4
  <2>5. CASE i < LastKey(f)
    <3>1. /\ KeyBytes(out[kids[i]]) \in Bytes /\ f.prevKey \in Bytes
          /\ KeyBytes(Returned) \in Bytes
      BY <1>1, <1>4, <1>7, KeyBytesType DEF Frame, Returned
    <3>2. BytesLess(KeyBytes(out[kids[i]]), KeyBytes(Returned))
      BY <2>2, <2>3, <2>5, <3>1, BytesLessTransitive
    <3> QED
      BY <1>4, <1>6, <2>1, <2>2, <3>2
  <2> QED
    BY <2>1, <2>4, <2>5, <1>1, <1>5
<1>8. ASSUME NEW i \in 1..Len(more), NEW j \in 1..Len(more), i % 2 = 1, j % 2 = 1
      PROVE  /\ out[more[i]].m \in {0, 1, 3}
             /\ IsText(out[more[i]]) = IsText(out[more[j]])
             /\ i < j => BytesLess(KeyBytes(out[more[i]]), KeyBytes(out[more[j]]))
  <2>1. \A k \in 1..Len(more) : k # new => k \in 1..Len(kids) /\ more[k] = kids[k]
    BY <1>1, <1>2, SMTT(40)
  <2>2. CASE i = new /\ j = new
    BY <1>1, <1>3, <1>6, <2>2
  <2>3. CASE i = new /\ j # new
    <3>1. ~(i < j)
      BY <1>1, <1>2, <1>8, <2>3
    <3>2. IsText(out[more[j]]) = IsText(Returned)
      BY <1>7, <1>8, <2>1, <2>3
    <3>3. out[more[i]] = Returned
      BY <1>3, <2>3
    <3> QED
      BY <1>6, <3>1, <3>2, <3>3
  <2>4. CASE i # new /\ j = new
    BY <1>3, <1>7, <1>8, <2>1, <2>4
  <2>5. CASE i # new /\ j # new
    <3>1. /\ i \in 1..Len(kids) /\ j \in 1..Len(kids) /\ i % 2 = 1 /\ j % 2 = 1
          /\ more[i] = kids[i] /\ more[j] = kids[j]
      BY <1>8, <2>1, <2>5
    <3> QED
      BY <1>4, <3>1 DEF KeysAscend
  <2> QED
    BY <2>2, <2>3, <2>4, <2>5
<1>9. KeysAscend(more)
  BY <1>8 DEF KeysAscend
<1> QED
  BY <1>9 DEF more

\* Appending a canonical value keeps what out holds canonical.
LEMMA HeapGrows ==
  ASSUME TypeInv, HeapOK, NEW v \in Node, out' = Append(out, v), UNCHANGED data, Canonical(v)
  PROVE  HeapOK' /\ Grown /\ out' # <<>> /\ Returned' = v
<1>1. /\ out' \in Seq(Node) /\ out' # <<>> /\ Len(out') = Len(out) + 1
      /\ \A i \in 1..Len(out) : out'[i] = out[i]
      /\ out'[Len(out) + 1] = v
  BY OutGrows DEF TypeInv
<1>2. Len(out) \in Nat /\ Len(out') \in Nat
  BY <1>1, LenProperties DEF TypeInv, TypeOK
<1>3. Grown
  BY <1>1, <1>2 DEF Grown
<1>4. Returned' = v
  BY <1>1 DEF Returned
<1>5. ASSUME NEW i \in 1..Len(out')
      PROVE  Canonical(out[i])'
  <2>1. PICK w : w = out'[i]
    OBVIOUS
  <2>2. w \in Node /\ Canonical(w)
    <3>1. CASE i = Len(out) + 1
      BY <1>1, <2>1, <3>1
    <3>2. CASE i # Len(out) + 1
      <4>1. i \in 1..Len(out)
        BY <1>1, <1>2, <1>5, <3>2
      <4>2. out[i] \in Node /\ Canonical(out[i]) /\ w = out[i]
        BY <1>1, <2>1, <4>1, ElementOfSeq DEF HeapOK, TypeInv, TypeOK
      <4> QED
        BY <4>2
    <3> QED
      BY <3>1, <3>2
  <2>3. Canonical(w)'
    BY <1>3, <2>2, CanonicalStays
  <2> QED
    BY <2>1, <2>3
<1> QED
  BY <1>1, <1>3, <1>4, <1>5 DEF HeapOK

\* An open container below the change stays as it was.
LEMMA BelowStays ==
  ASSUME Grown, NEW k, stack[k] \in Frame, stack'[k] = stack[k],
         Begin(k + 1)' = Begin(k + 1), Partial(stack[k], Begin(k + 1))
  PROVE  Partial(stack[k], Begin(k + 1))'
<1>1. PICK f : f = stack[k]
  OBVIOUS
<1>2. PICK to : to = Begin(k + 1)
  OBVIOUS
<1>3. Partial(f, to)'
  BY <1>1, <1>2, PartialStays
<1> QED
  BY <1>1, <1>2, <1>3

\* A step that leaves the values alone keeps them canonical.
LEMMA HeapStays ==
  ASSUME TypeOK, HeapOK, UNCHANGED <<data, out>>
  PROVE  HeapOK' /\ Grown
<1>1. Grown
  BY LenProperties DEF Grown, TypeOK
<1>2. ASSUME NEW i \in 1..Len(out')
      PROVE  Canonical(out[i])'
  <2>1. PICK w : w = out'[i]
    OBVIOUS
  <2>2. w \in Node /\ Canonical(w)
    BY <1>2, <2>1, ElementOfSeq DEF HeapOK, TypeOK
  <2>3. Canonical(w)'
    BY <1>1, <2>2, CanonicalStays
  <2> QED
    BY <2>1, <2>3
<1> QED
  BY <1>1, <1>2 DEF HeapOK

\* Returning a leaf preserves the invariant.
LEMMA LeafCanon ==
  ASSUME TypeInv, Quiet, CanonInv, NEW v \in Node, LeafOK(v)
  PROVE  CanonInv'
<1>1. /\ pc = "item" /\ pc' = "return" /\ UNCHANGED <<stack, data, outcome>>
      /\ pos' = v.end /\ out' = Append(out, v) /\ v.at = pos /\ Canonical(v)
  BY DEF LeafOK, Yield, HeadRead, Count
<1>2. HeapOK' /\ Grown /\ out' # <<>> /\ Returned' = v
  BY <1>1, HeapGrows DEF CanonInv
<1>3. ASSUME NEW k
      PROVE  Begin(k)' = Begin(k)
  BY <1>1, <1>2 DEF Begin
<1>4. ASSUME NEW k \in 1..Len(stack)
      PROVE  Partial(stack[k], Begin(k + 1))'
  <2>1. stack[k] \in Frame /\ stack'[k] = stack[k]
    BY <1>1, FrameType DEF TypeInv
  <2>2. Partial(stack[k], Begin(k + 1))
    BY <1>1 DEF CanonInv, StackOK
  <2> QED
    BY <1>2, <1>3, <2>1, <2>2, BelowStays
<1>5. Begin(1)' = 0
  BY <1>1, <1>3 DEF CanonInv, StackOK
<1>6. StackOK'
  BY <1>1, <1>4, <1>5 DEF StackOK
<1>7. ReturnOK' /\ CloseOK' /\ VerdictOK'
  BY <1>1, <1>2 DEF ReturnOK, CloseOK, VerdictOK, Quiet
<1> QED
  BY <1>2, <1>6, <1>7 DEF CanonInv

\* Opening a container preserves it.
LEMMA OpenCanon ==
  ASSUME TypeInv, Quiet, CanonInv, NEW f \in Frame, Opens(f)
  PROVE  CanonInv'
<1>1. /\ pc = "item" /\ UNCHANGED <<data, out, outcome>>
      /\ f.at = pos /\ f.body = pos' /\ f.kids = <<>> /\ HeadMinimal(HeadOf(f))
      /\ stack' = Append(stack, f) /\ pc' = Resume(f) /\ pc' \in {"item", "close"}
  BY DEF Opens, HeadRead, Count, Resume
<1>2. HeapOK' /\ Grown
  BY <1>1, HeapStays DEF TypeInv, CanonInv
<1>3. /\ Len(stack) \in Nat /\ Len(stack') = Len(stack) + 1
      /\ stack'[Len(stack) + 1] = f
      /\ \A k \in 1..Len(stack) : stack'[k] = stack[k]
  BY <1>1, AppendProperties, LenProperties DEF TypeInv, TypeOK
<1>4. ASSUME NEW k \in 1 .. Len(stack) + 1
      PROVE  Begin(k)' = Begin(k)
  <2>1. CASE k = Len(stack) + 1
    BY <1>1, <1>3, <2>1 DEF Begin
  <2>2. CASE k # Len(stack) + 1
    BY <1>3, <1>4, <2>2 DEF Begin
  <2> QED
    BY <2>1, <2>2
<1>5. ASSUME NEW k, k = Len(stack) + 2
      PROVE  Begin(k)' = f.body
  BY <1>1, <1>3, <1>5 DEF Begin
<1>6. Partial(f, f.body)'
  <2>1. HeadMinimal(HeadOf(f))'
    BY <1>1, <1>2, HeadStays
  <2>2. Len(f.kids) = 0
    BY <1>1, EmptySeq
  <2>3. Tiled(f.kids, f.body, f.body)'
    BY <1>1, <2>2 DEF Tiled
  <2>4. KeysAscend(f.kids)'
    BY <1>1, <2>2 DEF KeysAscend
  <2> QED
    BY <1>1, <2>1, <2>3, <2>4 DEF Partial
<1>7. ASSUME NEW k \in 1..Len(stack')
      PROVE  Partial(stack[k], Begin(k + 1))'
  <2>1. CASE k = Len(stack) + 1
    <3>1. k + 1 = Len(stack) + 2
      BY <1>3, <2>1
    <3>2. stack'[k] = f /\ Begin(k + 1)' = f.body
      BY <1>3, <1>5, <2>1, <3>1
    <3> QED
      BY <1>6, <3>2
  <2>2. CASE k # Len(stack) + 1
    <3>1. k \in 1..Len(stack) /\ k + 1 \in 1 .. Len(stack) + 1
      BY <1>3, <1>7, <2>2
    <3>2. stack[k] \in Frame /\ stack'[k] = stack[k] /\ Begin(k + 1)' = Begin(k + 1)
      BY <1>3, <1>4, <3>1, FrameType DEF TypeInv
    <3>3. Partial(stack[k], Begin(k + 1))
      BY <1>1, <3>1 DEF CanonInv, StackOK
    <3> QED
      BY <1>2, <3>2, <3>3, BelowStays
  <2> QED
    BY <2>1, <2>2
<1>8. Begin(1)' = 0
  BY <1>1, <1>3, <1>4 DEF CanonInv, StackOK
<1>9. StackOK'
  BY <1>7, <1>8 DEF StackOK
<1>10. ReturnOK' /\ VerdictOK'
  BY <1>1 DEF ReturnOK, VerdictOK, Quiet
<1>11. CloseOK'
  <2>1. Top' = f
    BY <1>3 DEF Top
  <2> QED
    BY <1>1, <2>1 DEF CloseOK, Resume, Slots
<1> QED
  BY <1>2, <1>9, <1>10, <1>11 DEF CanonInv

\* The frame that a caller stores is canonical up to the end of the value.
LEMMA StorePartial ==
  ASSUME TypeInv, out # <<>>, Top \in Frame, NEW f \in Frame, Stores(f),
         Partial(Top, Returned.at)
  PROVE  Partial(f, Returned.end)
<1> DEFINE kids == Top.kids
<1>1. /\ f.m = Top.m /\ f.n = Top.n /\ f.at = Top.at /\ f.body = Top.body
      /\ f.kids = Append(kids, Len(out))
      /\ kids \in Seq(Nat) /\ Len(kids) \in Nat /\ Len(out) \in Nat
  BY ReturnedType, LenProperties DEF Stores, Frame, TypeInv
<1>2. HeadMinimal(HeadOf(f))
  BY <1>1 DEF Partial, HeadMinimal, HeadOf
<1>3. Tiled(f.kids, f.body, Returned.end)
  BY <1>1, TiledAppend DEF Partial
<1>4. /\ Len(f.kids) = Len(kids) + 1 /\ f.kids[Len(kids) + 1] = Len(out)
      /\ \A j \in 1..Len(kids) : f.kids[j] = kids[j]
  BY <1>1, AppendProperties
<1>5. CASE f.m = 5 /\ Len(kids) % 2 = 1
  <2>1. KeysAscend(f.kids)
    BY <1>1, <1>5, ValueAppend DEF Partial
  <2>2. LastKey(f) = Len(kids) /\ LastKey(Top) = Len(kids) /\ Len(kids) \in 1..Len(kids)
    <3>1. \A n \in Nat : n % 2 = 1 =>
            /\ (IF n % 2 = 1 THEN n ELSE n - 1) = n
            /\ (IF (n + 1) % 2 = 1 THEN n + 1 ELSE n + 1 - 1) = n
            /\ n \in 1..n
      OBVIOUS
    <3>2. Len(kids) \in 1..Len(kids) /\ LastKey(Top) = Len(kids)
      BY <1>1, <1>5, <3>1 DEF LastKey
    <3>3. LastKey(f) = Len(kids)
      <4> DEFINE n == Len(kids)
      <4>1. n \in Nat /\ n % 2 = 1
        BY <1>1, <1>5
      <4>2. LastKey(f) = IF (n + 1) % 2 = 1 THEN n + 1 ELSE n + 1 - 1
        BY <1>4 DEF LastKey
      <4> HIDE DEF n
      <4>3. (IF (n + 1) % 2 = 1 THEN n + 1 ELSE n + 1 - 1) = n
        BY <3>1, <4>1
      <4>4. LastKey(f) = n
        BY <4>2, <4>3
      <4> QED
        BY <4>4 DEF n
    <3> QED
      BY <3>2, <3>3
  <2>3. f.kids[LastKey(f)] = kids[LastKey(Top)] /\ kids # <<>>
    BY <1>4, <2>2, EmptySeq
  <2>4. f.keysAreText = Top.keysAreText /\ f.prevKey = Top.prevKey
    BY <1>5 DEF Stores
  <2>5. /\ f.keysAreText = IsText(out[f.kids[LastKey(f)]])
        /\ f.prevKey = KeyBytes(out[f.kids[LastKey(f)]])
    BY <1>1, <1>5, <2>3, <2>4 DEF Partial
  <2> QED
    BY <1>2, <1>3, <2>1, <2>5 DEF Partial
<1>6. CASE f.m = 5 /\ Len(kids) % 2 # 1
  <2>1. \A n \in Nat : n % 2 # 1 => n % 2 = 0 /\ (n + 1) % 2 = 1
    OBVIOUS
  <2>2. Len(kids) % 2 = 0 /\ LastKey(f) = Len(kids) + 1
    BY <1>1, <1>4, <1>6, <2>1 DEF LastKey
  <2>3. /\ KeyReason(Top, Returned) = "none"
        /\ f.keysAreText = IsText(Returned) /\ f.prevKey = KeyBytes(Returned)
    BY <1>6 DEF Stores
  <2>4. KeysAscend(f.kids)
    BY <1>1, <1>6, <2>2, <2>3, KeyAppend
  <2>5. out[f.kids[LastKey(f)]] = Returned
    BY <1>4, <2>2 DEF Returned
  <2> QED
    BY <1>2, <1>3, <2>3, <2>4, <2>5 DEF Partial
<1>7. CASE f.m # 5
  BY <1>2, <1>3, <1>7 DEF Partial
<1> QED
  BY <1>5, <1>6, <1>7

\* Storing a value into its container preserves the invariant.
LEMMA StoreCanon ==
  ASSUME TypeInv, Quiet, CanonInv, NEW f \in Frame, Stores(f)
  PROVE  CanonInv'
<1>1. /\ pc = "return" /\ stack # <<>> /\ out # <<>> /\ Store(f) /\ f.at = Top.at
      /\ UNCHANGED <<data, pos, out, outcome>>
      /\ pc' = Resume(f) /\ pc' \in {"item", "close"}
  BY DEF Stores, Store, Resume
<1>2. HeapOK' /\ Grown
  BY <1>1, HeapStays DEF TypeInv, CanonInv
<1>3. /\ Len(stack) \in 1..Len(stack) /\ Len(stack) \in Nat /\ Top \in Frame
      /\ Len(stack') = Len(stack) /\ stack'[Len(stack)] = f
      /\ \A k \in 1 .. Len(stack) - 1 : stack'[k] = stack[k]
  BY <1>1, TopType, StoreType DEF TypeInv
<1>4. ASSUME NEW k \in 1..Len(stack)
      PROVE  Begin(k)' = Begin(k)
  <2>1. stack'[k].at = stack[k].at
    <3>1. CASE k = Len(stack)
      BY <1>1, <1>3, <3>1 DEF Top
    <3>2. CASE k # Len(stack)
      BY <1>3, <1>4, <3>2
    <3> QED
      BY <3>1, <3>2
  <2> QED
    BY <1>3, <2>1 DEF Begin
<1>5. ASSUME NEW k, k = Len(stack) + 1
      PROVE  Begin(k)' = pos /\ Begin(k) = Returned.at
  BY <1>1, <1>3, <1>5 DEF Begin
<1>6. Returned.end = pos
  BY <1>1 DEF CanonInv, ReturnOK
<1>7. Partial(f, pos)'
  <2>1. Begin(Len(stack) + 1) = Returned.at
    BY <1>5
  <2>2. Partial(Top, Returned.at)
    BY <1>1, <1>3, <2>1 DEF CanonInv, StackOK, Top
  <2>3. Partial(f, Returned.end)
    BY <1>1, <1>3, <2>2, StorePartial
  <2>4. PICK to : to = pos
    OBVIOUS
  <2>5. Partial(f, to)'
    BY <1>2, <1>6, <2>3, <2>4, PartialStays
  <2> QED
    BY <1>1, <2>4, <2>5
<1>8. ASSUME NEW k \in 1..Len(stack')
      PROVE  Partial(stack[k], Begin(k + 1))'
  <2>1. CASE k = Len(stack)
    <3>1. stack'[k] = f /\ Begin(k + 1)' = pos'
      BY <1>1, <1>3, <1>5, <2>1
    <3> QED
      BY <1>7, <3>1
  <2>2. CASE k # Len(stack)
    <3>1. k \in 1 .. Len(stack) - 1 /\ k \in 1..Len(stack) /\ k + 1 \in 1..Len(stack)
      BY <1>3, <1>8, <2>2
    <3>2. stack[k] \in Frame /\ stack'[k] = stack[k] /\ Begin(k + 1)' = Begin(k + 1)
      BY <1>3, <1>4, <3>1, FrameType DEF TypeInv
    <3>3. Partial(stack[k], Begin(k + 1))
      BY <1>1, <3>1 DEF CanonInv, StackOK
    <3> QED
      BY <1>2, <3>2, <3>3, BelowStays
  <2> QED
    BY <2>1, <2>2
<1>9. Begin(1)' = 0
  <2>1. 1 \in 1..Len(stack)
    BY <1>3
  <2> QED
    BY <1>1, <1>4, <2>1 DEF CanonInv, StackOK
<1>10. StackOK'
  BY <1>8, <1>9 DEF StackOK
<1>11. ReturnOK' /\ VerdictOK'
  BY <1>1 DEF ReturnOK, VerdictOK, Quiet
<1>12. CloseOK'
  <2>1. Top' = f
    BY <1>3 DEF Top
  <2> QED
    BY <1>1, <2>1 DEF CloseOK, Resume, Slots
<1> QED
  BY <1>2, <1>10, <1>11, <1>12 DEF CanonInv

\* Closing a container preserves it: what the container has read is the whole.
LEMMA CloseCanon ==
  ASSUME TypeInv, Quiet, CanonInv, Close
  PROVE  CanonInv'
<1>1. /\ stack # <<>> /\ Closed \in Node /\ Closed.at < pos
      /\ pc = "close" /\ pc' = "return" /\ out' = Append(out, Closed)
      /\ UNCHANGED <<data, pos, items, outcome>>
      /\ Len(stack') = Len(stack) - 1
      /\ \A k \in 1 .. Len(stack) - 1 : stack'[k] = stack[k]
  BY CloseFacts
<1>2. /\ Len(stack) \in 1..Len(stack) /\ Len(stack) \in Nat /\ Top \in Frame
      /\ pos <= Len(data)
  BY <1>1, TopType, LenProperties, ReadFacts DEF TypeInv, TypeOK
<1>3. Partial(Top, pos)
  <2>1. Begin(Len(stack) + 1) = pos
    BY <1>1, <1>2 DEF Begin
  <2> QED
    BY <1>1, <1>2, <2>1 DEF CanonInv, StackOK, Top
<1>4. Canonical(Closed)
  <2>1. HeadMinimal(Closed)
    BY <1>3 DEF Partial, HeadMinimal, HeadOf, Closed
  <2>2. Len(Top.kids) = Slots(Top)
    BY <1>1 DEF CanonInv, CloseOK
  <2>3. Top.m \in {4, 5}
    BY <1>2 DEF Frame
  <2>4. Tiled(Top.kids, Top.body, pos) /\ (Top.m = 5 => KeysAscend(Top.kids))
    BY <1>3 DEF Partial
  <2> QED
    BY <1>1, <1>2, <2>1, <2>2, <2>3, <2>4 DEF Canonical, Closed, Slots
<1>5. HeapOK' /\ Grown /\ out' # <<>> /\ Returned' = Closed
  BY <1>1, <1>4, HeapGrows DEF CanonInv
<1>6. ASSUME NEW k \in 1..Len(stack)
      PROVE  Begin(k)' = Begin(k)
  <2>1. CASE k = Len(stack)
    <3>1. Begin(k) = Top.at
      BY <1>2, <2>1 DEF Begin, Top
    <3>2. Begin(k)' = Closed.at
      BY <1>1, <1>2, <1>5, <2>1 DEF Begin
    <3> QED
      BY <3>1, <3>2 DEF Closed
  <2>2. CASE k # Len(stack)
    BY <1>1, <1>2, <1>6, <2>2 DEF Begin
  <2> QED
    BY <2>1, <2>2
<1>7. ASSUME NEW k \in 1..Len(stack')
      PROVE  Partial(stack[k], Begin(k + 1))'
  <2>1. k \in 1 .. Len(stack) - 1 /\ k \in 1..Len(stack) /\ k + 1 \in 1..Len(stack)
    BY <1>1, <1>2, <1>7
  <2>2. stack[k] \in Frame /\ stack'[k] = stack[k] /\ Begin(k + 1)' = Begin(k + 1)
    BY <1>1, <1>6, <2>1, FrameType DEF TypeInv
  <2>3. Partial(stack[k], Begin(k + 1))
    BY <1>1, <2>1 DEF CanonInv, StackOK
  <2> QED
    BY <1>5, <2>2, <2>3, BelowStays
<1>8. Begin(1)' = 0
  <2>1. 1 \in 1..Len(stack)
    BY <1>2
  <2> QED
    BY <1>1, <1>6, <2>1 DEF CanonInv, StackOK
<1>9. StackOK'
  BY <1>7, <1>8 DEF StackOK
<1>10. ReturnOK' /\ CloseOK' /\ VerdictOK'
  BY <1>1, <1>5 DEF ReturnOK, CloseOK, VerdictOK, Quiet, Closed
<1> QED
  BY <1>5, <1>9, <1>10 DEF CanonInv

\* The step that ends Decode preserves it; only Accept has to earn a value.
LEMMA VerdictCanon ==
  ASSUME TypeInv, CanonInv, Ending \/ Accept
  PROVE  CanonInv'
<1>1. CASE Ending
  <2>1. pc' = "done" /\ UNCHANGED <<data, stack, out>> /\ outcome'.kind \in {"refused", "panic"}
    BY <1>1, EndFacts DEF Stops
  <2>2. HeapOK'
    BY <2>1, HeapStays DEF TypeInv, CanonInv
  <2>3. StackOK' /\ ReturnOK' /\ CloseOK' /\ VerdictOK'
    BY <2>1 DEF StackOK, ReturnOK, CloseOK, VerdictOK
  <2> QED
    BY <2>2, <2>3 DEF CanonInv
<1>2. CASE Accept
  <2>1. /\ pc = "return" /\ pc' = "done" /\ stack = <<>> /\ pos = Len(data)
        /\ UNCHANGED <<data, pos, items, stack, out>>
    BY <1>2 DEF Accept
  <2>2. HeapOK'
    BY <2>1, HeapStays DEF TypeInv, CanonInv
  <2>3. StackOK' /\ ReturnOK' /\ CloseOK'
    BY <2>1 DEF StackOK, ReturnOK, CloseOK
  <2>4. Begin(1) = 0 /\ Begin(1) = Returned.at
    <3>1. Len(stack) = 0
      BY <2>1, EmptySeq
    <3>2. Begin(1) = Returned.at
      BY <2>1, <3>1 DEF Begin
    <3> QED
      BY <2>1, <3>2 DEF CanonInv, StackOK
  <2>5. out # <<>> /\ Returned.end = pos
    BY <2>1 DEF TypeInv, ControlOK, CanonInv, ReturnOK
  <2>6. VerdictOK'
    BY <2>1, <2>4, <2>5 DEF VerdictOK, Returned
  <2> QED
    BY <2>2, <2>3, <2>6 DEF CanonInv
<1> QED
  BY <1>1, <1>2

\* Every step preserves the invariant.
LEMMA CanonStep == TypeInv /\ Quiet /\ CanonInv /\ [Next]_vars => CanonInv'
<1> SUFFICES ASSUME TypeInv, Quiet, CanonInv, [Next]_vars
             PROVE  CanonInv'
  OBVIOUS
<1>1. CASE Boolean \/ Integer \/ String
  BY <1>1, LeafFacts, LeafCanon
<1>2. CASE Open
  BY <1>2, OpenFacts, OpenCanon
<1>3. CASE Element \/ MapValue \/ MapKey
  BY <1>3, StoreFacts, StoreCanon
<1>4. CASE Close
  BY <1>4, CloseCanon
<1>5. CASE Ending \/ Accept
  BY <1>5, VerdictCanon
<1>6. CASE UNCHANGED vars
  <2>1. UNCHANGED <<data, pos, items, stack, out, pc, outcome>>
    BY <1>6 DEF vars
  <2>2. HeapOK' /\ Grown
    BY <2>1, HeapStays DEF TypeInv, CanonInv
  <2>3. ASSUME NEW k
        PROVE  Begin(k)' = Begin(k)
    BY <2>1 DEF Begin, Returned
  <2>4. ASSUME pc # "done", NEW k \in 1..Len(stack)
        PROVE  Partial(stack[k], Begin(k + 1))'
    <3>1. stack[k] \in Frame /\ stack'[k] = stack[k] /\ Begin(k + 1)' = Begin(k + 1)
      BY <2>1, <2>3, FrameType DEF TypeInv
    <3>2. Partial(stack[k], Begin(k + 1))
      BY <2>4 DEF CanonInv, StackOK
    <3> QED
      BY <2>2, <3>1, <3>2, BelowStays
  <2>5. StackOK'
    BY <2>1, <2>3, <2>4 DEF CanonInv, StackOK
  <2>6. ReturnOK' /\ CloseOK' /\ VerdictOK'
    BY <2>1 DEF CanonInv, ReturnOK, CloseOK, VerdictOK, Returned, Top, Slots
  <2> QED
    BY <2>2, <2>5, <2>6 DEF CanonInv
<1> QED
  BY <1>1, <1>2, <1>3, <1>4, <1>5, <1>6 DEF Next, Ending

\* It holds when Decode is called: nothing is read, nothing is open.
LEMMA CanonStart ==
  ASSUME NEW d, Start(d)
  PROVE  CanonInv
<1>1. pos = 0 /\ stack = <<>> /\ out = <<>> /\ pc = "item" /\ outcome = NoOutcome
  BY DEF Start
<1>2. Len(stack) = 0 /\ Len(out) = 0
  BY <1>1, EmptySeq
<1>3. HeapOK
  BY <1>2 DEF HeapOK
<1>4. StackOK
  BY <1>1, <1>2 DEF StackOK, Begin
<1>5. ReturnOK /\ CloseOK /\ VerdictOK
  BY <1>1 DEF ReturnOK, CloseOK, VerdictOK, NoOutcome
<1> QED
  BY <1>3, <1>4, <1>5 DEF CanonInv

\* So it holds when Decode is called on one of its inputs.
LEMMA CanonInit == Init => CanonInv
BY CanonStart DEF Init

\* Every artifact that Decode accepts is canonical through and through, for
\* every input, every limit and every width.
THEOREM AcceptsOnlyCanonical == Spec => []AcceptedIsCanonical
<1>1. Init => Quiet
  BY DEF Init, Start, Quiet, NoOutcome
<1>2. CanonInv => AcceptedIsCanonical
  BY DEF CanonInv, HeapOK, VerdictOK, AcceptedIsCanonical
<1> QED
  BY <1>1, <1>2, CanonInit, CanonStep, TypeInit, TypeStep, QuietStep, PTL DEF Spec
-----------------------------------------------------------------------------
(***************************************************************************)
(* Decode is deterministic: what is next to do, the byte under the head    *)
(* and the argument behind it decide which step it takes.  One lemma for   *)
(* each of these decisions, for any proof that follows Decode step by step *)
(* beside something else.                                                  *)
(***************************************************************************)
\* The steps of item that look at a head byte, by what they look at.
Simples == Boolean \/ BadSimple
Strings == StringPanic \/ BadString \/ String
Containers == BadCount \/ CountPanic \/ Open
Heads == Simples \/ Tag \/ BadArg \/ Integer \/ Strings \/ Containers

\* A closed container is returned.
LEMMA ClosePhase ==
  ASSUME Next, pc = "close"
  PROVE  Close
BY DEF Next, ItemTooDeep, ItemTooMany, ItemAtEnd, HeadRead, Count, Boolean, BadSimple, Tag,
       BadArg, ArgRead, Integer, StringRead, StringPanic, BadString, String, ContainerRead,
       BadCount, CountPanic, Open, Returning, Element, MapValue, KeyReturned, BadMapKey,
       MapKey, Trailing, Accept

\* When the outermost item has returned, the input is used up or it is not.
LEMMA EndPhase ==
  ASSUME Next, pc = "return", stack = <<>>
  PROVE  IF pos = Len(data) THEN Accept ELSE Trailing
BY DEF Next, ItemTooDeep, ItemTooMany, ItemAtEnd, HeadRead, Count, Boolean, BadSimple, Tag,
       BadArg, ArgRead, Integer, StringRead, StringPanic, BadString, String, ContainerRead,
       BadCount, CountPanic, Open, Returning, Element, MapValue, KeyReturned, BadMapKey,
       MapKey, Close, Trailing, Accept

\* A value returns to the container on top, which decides what becomes of it.
LEMMA ReturnPhase ==
  ASSUME Next, pc = "return", stack # <<>>
  PROVE  \/ Top.m = 4 /\ Element
         \/ Top.m = 5 /\ Len(Top.kids) % 2 = 1 /\ MapValue
         \/ Top.m = 5 /\ Len(Top.kids) % 2 = 0 /\ KeyReason(Top, Returned) = "none" /\ MapKey
         \/ Top.m = 5 /\ Len(Top.kids) % 2 = 0 /\ KeyReason(Top, Returned) # "none" /\ BadMapKey
<1>1. Element \/ MapValue \/ MapKey \/ BadMapKey
  BY DEF Next, ItemTooDeep, ItemTooMany, ItemAtEnd, HeadRead, Count, Boolean, BadSimple, Tag,
         BadArg, ArgRead, Integer, StringRead, StringPanic, BadString, String, ContainerRead,
         BadCount, CountPanic, Open, Close, Trailing, Accept
<1>2. /\ Element => Top.m = 4
      /\ MapValue => Top.m = 5 /\ Len(Top.kids) % 2 = 1
      /\ MapKey => Top.m = 5 /\ Len(Top.kids) % 2 = 0 /\ KeyReason(Top, Returned) = "none"
      /\ BadMapKey => Top.m = 5 /\ Len(Top.kids) % 2 = 0 /\ KeyReason(Top, Returned) # "none"
  BY Zenon DEF Element, MapValue, MapKey, BadMapKey, Returning, KeyReturned
<1> QED
  BY <1>1, <1>2

\* item stops at a limit, at the end of its input, or reads a head.
LEMMA ItemPhase ==
  ASSUME Next, pc = "item"
  PROVE  ItemTooDeep \/ ItemTooMany \/ ItemAtEnd \/ (HeadRead /\ Heads)
<1>1. Heads => HeadRead
  BY DEF Heads, Simples, Strings, Containers, Boolean, BadSimple, Tag, BadArg, ArgRead,
         Integer, StringRead, StringPanic, BadString, String, ContainerRead, BadCount,
         CountPanic, Open
<1>2. ItemTooDeep \/ ItemTooMany \/ ItemAtEnd \/ Heads
  BY DEF Heads, Simples, Strings, Containers, Next, Returning, Element, MapValue, KeyReturned,
         BadMapKey, MapKey, Close, Trailing, Accept
<1> QED
  BY <1>1, <1>2

\* The major type of the head decides which kind of step reads it, and readArg
\* whether its argument can be used.
LEMMA HeadPhase ==
  ASSUME Heads, TypeOK, pos < Len(data)
  PROVE  /\ Major(b) = 7 => IF SimpleReason = "none" THEN Boolean ELSE BadSimple
         /\ Major(b) = 6 => Tag
         /\ Major(b) <= 5 /\ ArgReason # "none" => BadArg
         /\ Major(b) \in {0, 1} /\ ArgReason = "none" => Integer
         /\ Major(b) \in {2, 3} /\ ArgReason = "none" => Strings
         /\ Major(b) \in {4, 5} /\ ArgReason = "none" => Containers
<1>1. Major(b) \in 0..7
  BY HeadFacts
<1>2. /\ Simples => Major(b) = 7
      /\ Tag => Major(b) = 6
      /\ BadArg => Major(b) <= 5 /\ ArgReason # "none"
      /\ Integer => Major(b) \in {0, 1} /\ ArgReason = "none"
      /\ Strings => Major(b) \in {2, 3} /\ ArgReason = "none"
      /\ Containers => Major(b) \in {4, 5} /\ ArgReason = "none"
  BY DEF Simples, Strings, Containers, Boolean, BadSimple, Tag, BadArg, ArgRead,
         Integer, StringRead, StringPanic, BadString, String, ContainerRead, BadCount,
         CountPanic, Open
<1>3. Simples => IF SimpleReason = "none" THEN Boolean ELSE BadSimple
  BY DEF Simples, Boolean, BadSimple
<1> QED
  BY <1>1, <1>2, <1>3 DEF Heads

\* The input stays as it is.
LEMMA DataStays == [Next]_vars => data' = data
BY DEF Next, ItemTooDeep, ItemTooMany, ItemAtEnd, Boolean, BadSimple, Tag, BadArg, Integer,
       StringPanic, BadString, String, BadCount, CountPanic, Open, Element, MapValue, BadMapKey,
       MapKey, Close, Trailing, Accept, Refuse, Panic, Yield, Store, vars

\* A string is inside the input exactly when it passes both checks of bytes and
\* its slice does not panic, whatever the native int; its length is then the
\* argument.
LEMMA StringFits ==
  ASSUME TypeOK, Len(data) < IntHalf, pos < Len(data), ArgReason = "none"
  PROVE  /\ Arg <= Len(data) - Body => ~StringTruncated /\ ~StringPanics /\ N = Arg
         /\ Arg > Len(data) - Body => StringTruncated \/ StringPanics
<1>1. /\ Arg \in Nat /\ Body \in Nat /\ Body <= Len(data) /\ Len(data) \in Nat
      /\ IntHalf \in Nat /\ Word \in Nat \ {0} /\ IntHalf <= Word
  <2>1. Arg \in Nat /\ Body \in Nat /\ Body <= Len(data)
    BY ArgFacts, HeadFacts
  <2>2. Len(data) \in Nat
    BY LenProperties DEF TypeOK, Bytes
  <2>3. IntHalf \in Nat /\ Word \in Nat \ {0} /\ IntHalf <= Word
    BY IntAssumption, PowerType DEF Word
  <2> QED
    BY <2>1, <2>2, <2>3
<1>2. ASSUME Arg <= Len(data) - Body
      PROVE  ~StringTruncated /\ ~StringPanics /\ N = Arg
  <2>1. N = Arg
    BY <1>1, <1>2, NarrowFacts DEF N
  <2>2. ToUint64(N) = Arg
    <3>1. Arg \in 0 .. Word - 1
      BY <1>1, <1>2
    <3>2. Arg % Word = Arg
      <4>1. Arg \in Int /\ Word \in Nat \ {0}
        BY <1>1
      <4> HIDE DEF Arg, Word
      <4> QED
        BY <3>1, <4>1, ModFacts
    <3> QED
      BY <2>1, <3>2 DEF ToUint64
  <2>3. ToInt(Body + N) = Body + N
    BY <1>1, <1>2, <2>1, NarrowFacts
  <2> QED
    BY <1>1, <1>2, <2>1, <2>2, <2>3 DEF StringTruncated, StringPanics, LengthLost
<1>3. ASSUME Arg > Len(data) - Body, ~StringTruncated, ~StringPanics
      PROVE  FALSE
  BY <1>1, <1>3, StringFacts
<1> QED
  BY <1>2, <1>3

\* The text rule that the string at the head breaks.
TextRule == IF Major(b) = 3 THEN TextReason(Slice(Body, Body + Arg)) ELSE "none"

\* A string is read when it is inside the input, and otherwise ends Decode: the
\* input is too short for it, or the run panics.
LEMMA StringPhase ==
  ASSUME TypeOK, Len(data) < IntHalf, pos < Len(data), ArgReason = "none", Strings
  PROVE  /\ HeadRead
         /\ IF Arg > Len(data) - Body
            THEN Panic \/ (Refuse("truncated", pos) /\ pos' = Body)
            ELSE IF TextRule # "none" THEN Refuse(TextRule, pos) /\ pos' = Body + Arg
            ELSE Yield([m |-> Major(b), arg |-> Arg, at |-> pos, body |-> Body,
                        end |-> Body + Arg, kids |-> <<>>])
<1>1. HeadRead
  BY DEF Strings, StringPanic, BadString, String, StringRead, ArgRead
<1>2. CASE Arg > Len(data) - Body
  <2>1. StringTruncated \/ StringPanics
    BY <1>2, StringFits
  <2>2. CASE StringTruncated
    BY <1>2, <2>2, <1>1 DEF Strings, StringPanic, BadString, String, StringReason
  <2>3. CASE ~StringTruncated
    BY <1>2, <2>1, <2>3, <1>1 DEF Strings, StringPanic, BadString, String
  <2> QED
    BY <2>2, <2>3
<1>3. CASE ~(Arg > Len(data) - Body)
  <2>1. ~StringTruncated /\ ~StringPanics /\ N = Arg
    <3>1. Arg \in Nat /\ Body \in Nat /\ Len(data) \in Nat
      BY ArgFacts, HeadFacts, LenProperties DEF TypeOK, Bytes
    <3> QED
      BY <1>3, <3>1, StringFits
  <2>2. StringReason = TextRule
    BY <2>1 DEF StringReason, TextRule
  <2> QED
    BY <1>1, <1>3, <2>1, <2>2 DEF Strings, StringPanic, BadString, String
<1> QED
  BY <1>2, <1>3

\* A container is opened with its argument as the count, or ends Decode on what
\* its native int can hold.
LEMMA ContainerPhase ==
  ASSUME TypeOK, pos < Len(data), ArgReason = "none", Containers
  PROVE  /\ HeadRead
         /\ \/ Panic
            \/ \E at : Refuse("size-exceeded", at)
            \/ Open /\ N = Arg
<1>1. HeadRead
  BY DEF Containers, BadCount, CountPanic, Open, ContainerRead, ArgRead
<1>2. CASE Open
  BY <1>1, <1>2, StringFacts DEF Open
<1>3. CASE BadCount \/ CountPanic
  BY <1>1, <1>3 DEF BadCount, CountPanic
<1> QED
  BY <1>2, <1>3 DEF Containers
=============================================================================
