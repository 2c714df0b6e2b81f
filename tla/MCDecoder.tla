----------------------------- MODULE MCDecoder -----------------------------
(***************************************************************************)
(* The decoder on bounded inputs.  The head has Imm = 4 immediate values   *)
(* and arguments of 1 to 4 bytes, so there are 12 additional-information   *)
(* codes and 96 bytes; byte 12 * m + a is the head of major type m with    *)
(* additional information a.                                               *)
(***************************************************************************)
EXTENDS Codec

MCWidths == <<1, 2, 3, 4>>

\* Half of the 4-byte argument range is a 64-bit build, half of the 3-byte
\* range a 32-bit build.
Int64Half == (96 ^ 4) \div 2
Int32Half == (96 ^ 3) \div 2

\* Text: 90 is never valid UTF-8, and 6 is a mark that composes with a
\* preceding 5.
MCBOM == <<80, 81, 82>>
MCValidUTF8(s) == \A i \in 1..Len(s) : s[i] # 90
MCIsNFC(s) == \A i \in 1..Len(s) - 1 : <<s[i], s[i + 1]>> # <<5, 6>>

Strings(alphabet, n) == UNION {[1..k -> alphabet] : k \in 0..n}

\* Every head, followed by every run of up to two digits at the boundaries.
AnyHead == {<<h>> \o t : h \in Byte, t \in Strings({0, 3, 4, 95}, 2)}

\* Every short nest of integers, texts, booleans, arrays and maps.
Nests == Strings({0, 12, 36, 37, 49, 50, 61, 62, 84}, 4)

\* Maps of two and three keys, in every order and with every repetition, with
\* values that reach both limits.
Keys == {<<0>>, <<3>>, <<4, 4>>, <<12>>, <<36>>, <<37, 0>>, <<38, 0, 0>>}
Maps ==
  {<<62>> \o k1 \o v1 \o k2 \o <<85>> :
     k1, k2 \in Keys, v1 \in {<<49, 0>>, <<49, 49, 0>>, <<61, 0, 48>>}}
  \cup {<<63>> \o k1 \o <<0>> \o k2 \o <<48>> \o k3 \o v3 :
     k1, k2, k3 \in Keys, v3 \in {<<60>>, <<49, 0>>}}

\* Text strings up to four bytes, among them every way to break a rule.
Texts == {<<36 + Len(t)>> \o t : t \in Strings({5, 6, 80, 81, 82, 90}, 3)}
         \cup {<<40, 4>> \o t : t \in [1..4 -> {5, 6, 81, 90}]}
         \cup {<<40, 4, 80, 81, 82>> \o t : t \in Strings({5, 90}, 1)}

\* Long argument forms of every length-carrying major type: minimal or not,
\* and on both sides of the largest native int.
LongArgs == {<<12 * m + 4 + k>> \o t :
               m \in 0..5, k \in 0..3, t \in Strings({0, 1, 47, 48, 95}, 4)}

\* Long counts and lengths alone, and with one more item behind them.
NarrowInputs == {t \o u : t \in LongArgs, u \in {<<>>, <<0>>}}

MCInputs == AnyHead \cup Nests \cup Maps \cup Texts \cup LongArgs
=============================================================================
