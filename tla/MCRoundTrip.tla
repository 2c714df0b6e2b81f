---------------------------- MODULE MCRoundTrip ----------------------------
(***************************************************************************)
(* Round trips of values up to two levels deep, with 12 additional-        *)
(* information codes and arguments of 1 to 4 bytes (see MCDecoder).        *)
(***************************************************************************)
EXTENDS RoundTrip

MCWidths == <<1, 2, 3, 4>>
MCWord == 96 ^ 4
Int64Half == MCWord \div 2
MCBOM == <<80, 81, 82>>
MCValidUTF8(s) == \A i \in 1..Len(s) : s[i] # 90
MCIsNFC(s) == \A i \in 1..Len(s) - 1 : <<s[i], s[i + 1]>> # <<5, 6>>

\* Both sides of every change of head form, and of the integer range.
Edges == {0, 3, 4, 95, 96, 96 ^ 2 - 1, 96 ^ 2, 96 ^ 3 - 1, 96 ^ 3, MCWord - 1, MCWord}
Ints == {[int |-> n] : n \in Edges \cup {-1 - n : n \in Edges}}
Blobs == {[bytes |-> s] : s \in {<<>>, <<90>>, <<7, 7, 7, 7, 7>>}}
Words == {[text |-> s] : s \in {<<>>, <<7>>, <<90>>, <<5, 6>>, <<6, 5>>, <<80, 81, 82>>,
                                <<7, 80, 81, 82>>}}
Bools == {[bool |-> x] : x \in BOOLEAN}
Decimals == {[scale |-> x, mantissa |-> y] : x, y \in {-1, 0, 1, 10, -20}}
Rationals == {[num |-> x, den |-> y] : x, y \in {-2, 0, 1, 3, 4, 6}}
Leaves == Ints \cup Blobs \cup Words \cup Bools \cup Decimals \cup Rationals
          \cup {[nil |-> 0]}

Few == {[int |-> 0], [int |-> -5], [text |-> <<7>>], [text |-> <<5, 6>>],
        [bool |-> TRUE], [scale |-> 0, mantissa |-> 1], [items |-> <<>>]}
Array(S, n) == {[items |-> s] : s \in UNION {[1..k -> S] : k \in 0..n}}

\* Maps in every authoring order, with mixed, repeated and forbidden keys.
Keys == {[int |-> 4], [int |-> 95], [int |-> -1], [text |-> <<>>], [text |-> <<9>>],
         [text |-> <<90>>], [bytes |-> <<>>]}
Entry(S) == [key : Keys, val : S]
Map(S, n) == {[entries |-> s] : s \in UNION {[1..k -> Entry(S)] : k \in 0..n}}

Inner == {[items |-> <<[int |-> 1]>>], [entries |-> <<>>],
          [num |-> 1, den |-> 3], [bool |-> FALSE],
          [entries |-> <<[key |-> [int |-> 0], val |-> [items |-> <<>>]]>>],
          [items |-> <<[items |-> <<[int |-> 2]>>]>>],
          [items |-> <<[scale |-> 0, mantissa |-> 1]>>],
          [items |-> <<[num |-> 1, den |-> 3]>>]}

MCValues == Leaves \cup Array(Few, 2) \cup Array(Inner, 3)
            \cup Map({[bool |-> TRUE]}, 3) \cup Map(Inner, 1) \cup Map({[int |-> 1], [bool |-> TRUE]}, 2)
MCTails == {0, 95}
MCInputs == {<<>>}
=============================================================================
