-------------------------------- MODULE Wire --------------------------------
(***************************************************************************)
(* The byte-level vocabulary that the decoder and the encoder of package   *)
(* cbor share: the CBOR head, its argument, the native integer a length is *)
(* narrowed to, the text rules and the bytewise key order.                 *)
(*                                                                         *)
(* A CBOR byte is a head (3 bits of major type, 5 bits of additional       *)
(* information) or a base-256 digit.  TLC has 32-bit integers, so the      *)
(* sizes are parameters: the code is the instance Imm = 24 and             *)
(* Widths = <<1, 2, 4, 8>>, which gives 32 additional-information codes,   *)
(* 256 bytes and 64-bit arguments.                                         *)
(***************************************************************************)
EXTENDS Integers, Sequences

CONSTANTS
  Imm,            \* arguments below Imm ride in the head itself (24)
  Widths,         \* argument bytes of the four longer head forms
  IntHalf,        \* one past the largest native int (2^63, or 2^31)
  MaxDepth,       \* cbor.MaxDepth (64)
  MaxItems,       \* cbor.MaxItems (2^20)
  BOM,            \* the three bytes EF BB BF
  ValidUTF8(_),   \* unicode/utf8.ValidString
  IsNFC(_)        \* golang.org/x/text/unicode/norm, NFC.IsNormalString

AiCodes == Imm + 8
Radix == 8 * AiCodes
Byte == 0 .. Radix - 1
Bytes == Seq(Byte)

\* 2^64 in the code: the first value no argument holds.
Word == Radix ^ Widths[4]

ASSUME ImmAssumption == Imm \in Nat /\ Imm >= 4
ASSUME WidthsAssumption ==
  /\ Widths \in [1..4 -> 1..8]
  /\ \A k \in 1..3 : Widths[k] < Widths[k + 1]
\* How powers are made; stated because the prover has no theory of ^.
ASSUME PowerAssumption ==
  /\ Radix ^ 0 = 1
  /\ \A n \in 0 .. Widths[4] - 1 : Radix ^ (n + 1) = Radix * Radix ^ n
ASSUME IntAssumption == IntHalf \in Nat \ {0} /\ 2 * IntHalf <= Word
ASSUME LimitsAssumption == MaxDepth \in Nat /\ MaxItems \in Nat
ASSUME BOMAssumption == BOM \in Bytes
-----------------------------------------------------------------------------
(***************************************************************************)
(* Heads.  Form 0 carries its argument in the additional information, form *)
(* k \in 1..4 in Widths[k] bytes that follow, most significant first.      *)
(***************************************************************************)
Major(b) == b \div AiCodes
Ai(b) == b % AiCodes
HeadByte(major, ai) == major * AiCodes + ai

Reserved == Imm + 4 .. Imm + 6
Indefinite == Imm + 7
SimpleFalse == Imm - 4
SimpleTrue == Imm - 3

\* Width of the argument that follows a head with additional information ai.
Width(ai) == IF ai \in Imm .. Imm + 3 THEN Widths[ai - Imm + 1] ELSE 0

LeastMut(ai) ==
  CASE ai = Imm     -> Imm
    [] ai = Imm + 1 -> Radix ^ Widths[1]
    [] ai = Imm + 2 -> Radix ^ Widths[2]
    [] ai = Imm + 3 -> Radix ^ Widths[2]
    [] OTHER        -> 0

\* The smallest argument that needs the form ai announces.
Least(ai) ==
  CASE ai = Imm     -> Imm
    [] ai = Imm + 1 -> Radix ^ Widths[1]
    [] ai = Imm + 2 -> Radix ^ Widths[2]
    [] ai = Imm + 3 -> Radix ^ Widths[3]
    [] OTHER        -> 0

\* decoder.takeUint: at most 8 big-endian digits, absent ones are zero.
Uint(s) ==
  LET d(j) == IF j <= Len(s) THEN s[Len(s) + 1 - j] ELSE 0
      hi   == ((d(8) * Radix + d(7)) * Radix + d(6)) * Radix + d(5)
  IN  (((hi * Radix + d(4)) * Radix + d(3)) * Radix + d(2)) * Radix + d(1)

\* The w low digits of v, as head emits them by shifting.
Digits(v, w) == [i \in 1..w |-> (v \div Radix ^ (w - i)) % Radix]

\* encoder.head: the shortest of the five forms that holds arg.
EncFormMut(arg) ==
  CASE arg < Imm                                              -> arg
    [] Imm <= arg /\ arg <= Radix ^ Widths[1]                 -> Imm
    [] Radix ^ Widths[1] < arg /\ arg < Radix ^ Widths[2]     -> Imm + 1
    [] Radix ^ Widths[2] <= arg /\ arg < Radix ^ Widths[3]    -> Imm + 2
    [] OTHER                                                  -> Imm + 3
EncForm(arg) ==
  CASE arg < Imm                                              -> arg
    [] Imm <= arg /\ arg < Radix ^ Widths[1]                  -> Imm
    [] Radix ^ Widths[1] <= arg /\ arg < Radix ^ Widths[2]    -> Imm + 1
    [] Radix ^ Widths[2] <= arg /\ arg < Radix ^ Widths[3]    -> Imm + 2
    [] OTHER                                                  -> Imm + 3
EncHead(major, arg) ==
  <<HeadByte(major, EncForm(arg))>> \o Digits(arg, Width(EncForm(arg)))
-----------------------------------------------------------------------------
(***************************************************************************)
(* Native integers.  int(x) wraps to the width of the build, uint64(n)     *)
(* sign-extends to 64 bits.                                                *)
(***************************************************************************)
ToInt(x) == ((x + IntHalf) % (2 * IntHalf)) - IntHalf
ToUint64(n) == n % Word
-----------------------------------------------------------------------------
(***************************************************************************)
(* bytes.Compare: -1, 0 and 1 are BytesLess(a, b), a = b, BytesLess(b, a). *)
(***************************************************************************)
Agree(a, b, k) == \A i \in 1..k : a[i] = b[i]
BytesLess(a, b) ==
  \/ Len(a) < Len(b) /\ Agree(a, b, Len(a))
  \/ \E k \in 1..Len(a) : k <= Len(b) /\ a[k] < b[k] /\ Agree(a, b, k - 1)

\* validateText and textReason: the first rule the text breaks, or "none".
TextReason(s) ==
  CASE ~ValidUTF8(s) -> "invalid-utf8"
    [] ValidUTF8(s) /\ Len(s) >= Len(BOM) /\ Agree(s, BOM, Len(BOM)) -> "byte-order-mark"
    [] OTHER -> IF IsNFC(s) THEN "none" ELSE "non-nfc"

ByteDetermined ==
  {"non-minimal", "indefinite-length", "trailing-bytes", "duplicate-map-key",
   "unsorted-map-keys", "mixed-map-keys", "bad-map-key-type", "tag", "float",
   "null", "simple-value", "reserved-additional", "truncated", "invalid-utf8",
   "byte-order-mark", "non-nfc"}
LimitRelative == {"depth-exceeded", "size-exceeded"}
Reasons == ByteDetermined \cup LimitRelative
=============================================================================
