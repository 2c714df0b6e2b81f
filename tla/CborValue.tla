----------------------------- MODULE CborValue -----------------------------
(***************************************************************************)
(* cbor.Value, and the canonical forms of the two magnitudes.              *)
(*                                                                         *)
(* A Value is a record whose field names tell the Go type:                 *)
(*   Int [int], Bytes [bytes], Text [text], Bool [bool], Array [items],    *)
(*   Map [entries], Decimal [scale, mantissa], Rational [num, den].        *)
(* Any other record is a Value the type switches do not know (a nil one).  *)
(* Text is held as its UTF-8 bytes, an entry of a map is [key, val], and   *)
(* no integer is a nil *big.Int.                                           *)
(***************************************************************************)
EXTENDS Integers

Is(v, field) == field \in DOMAIN v
IsTextKey(v) == Is(v, "text")

\* CheckDecimal: zero is [0, 0], and otherwise no trailing zeros.
DecimalReason(scale, mantissa) ==
  CASE mantissa = 0 -> IF scale = 0 THEN "none" ELSE "zero-decimal"
    [] OTHER        -> IF mantissa % 10 = 0 THEN "trailing-zero" ELSE "none"

\* CheckRational: a positive denominator, zero is [0, 1], and otherwise the
\* two are coprime.
CommonFactor(x, y) == \E k \in 2..y : x % k = 0 /\ y % k = 0
RationalReasonMut(num, den) ==
  CASE den < 0              -> "denominator"
    [] den >= 0 /\ num = 0  -> IF den = 1 THEN "none" ELSE "zero-rational"
    [] OTHER                -> IF CommonFactor(num, den) THEN "not-coprime" ELSE "none"
RationalReason(num, den) ==
  CASE den <= 0             -> "denominator"
    [] den > 0 /\ num = 0   -> IF den = 1 THEN "none" ELSE "zero-rational"
    [] OTHER                -> IF CommonFactor(num, den) THEN "not-coprime" ELSE "none"
=============================================================================
