---------------------------- MODULE MCAgreement ----------------------------
(***************************************************************************)
(* Two decoders with 12 additional-information codes and arguments of 1 to *)
(* 4 bytes: A with a 4-byte int, few levels and many items, B with a       *)
(* 3-byte int, many levels and few items.                                  *)
(***************************************************************************)
EXTENDS Agreement

MCWidths == <<1, 2, 3, 4>>
Int64Half == (96 ^ 4) \div 2
Int32Half == (96 ^ 3) \div 2
MCBOM == <<80, 81, 82>>
MCValidUTF8(s) == \A i \in 1..Len(s) : s[i] # 90
MCIsNFC(s) == \A i \in 1..Len(s) - 1 : <<s[i], s[i + 1]>> # <<5, 6>>

Strings(alphabet, n) == UNION {[1..k -> alphabet] : k \in 0..n}

Nests == Strings({0, 12, 36, 49, 51, 61, 62, 84}, 4)
AnyHead == {<<h>> \o t : h \in 0..95, t \in Strings({0, 5}, 1)}
Texts == {<<39>> \o t : t \in [1..3 -> {5, 6, 80, 81, 82, 90}]}

\* Lengths and counts on both sides of both native ints, also with one more item
\* behind them, which a narrowed one could take for its content.
LongArgs == {<<12 * m + 7>> \o t : m \in 2..5, t \in [1..4 -> {0, 1, 47, 48, 95}]}
            \cup {<<12 * m + 6>> \o t : m \in 2..5, t \in [1..3 -> {0, 1, 47, 48, 95}]}
            \cup {<<12 * m + 7>> \o t \o <<0>> : m \in 2..5, t \in [1..4 -> {0, 1}]}
Maps == {<<62>> \o k1 \o <<49, 0>> \o k2 \o <<0>> :
           k1, k2 \in {<<0>>, <<12>>, <<36>>, <<48>>}}

MCInputs == AnyHead \cup Nests \cup Texts \cup LongArgs \cup Maps
MCTails == {<<>>, <<0>>, <<5, 0>>}
=============================================================================
