----------------------------- MODULE RoundTrip -----------------------------
(***************************************************************************)
(* One party encodes a value and another decodes what arrives: the whole   *)
(* artifact, a proper prefix of it, or the artifact with a byte behind it. *)
(***************************************************************************)
EXTENDS Codec, LogicalValue

CONSTANTS
  Values,     \* the values the author may encode
  Tails,      \* the bytes that may follow an artifact
  NestedCount(_)   \* ItemCount, where it is asked of an inner value

ASSUME TailsAssumption == Tails \subseteq Byte

VARIABLES
  sent,       \* the value that was encoded, its bytes and its meaning
  arrived     \* "whole", "cut" or "extended"

rtVars == <<vars, sent, arrived>>

\* One more than the sum of the counts.
OneAnd(counts) ==
  LET sum[i \in 0..Len(counts)] == IF i = 0 THEN 1 ELSE sum[i - 1] + counts[i]
  IN  sum[Len(counts)]

\* The data items of an artifact, as MaxItems counts them.
ItemCount(v) ==
  LET OfEntry(e) == NestedCount(e.key) + NestedCount(e.val)
  IN  CASE Is(v, "items")   -> OneAnd([i \in DOMAIN v.items |-> NestedCount(v.items[i])])
        [] Is(v, "entries") -> OneAnd([i \in DOMAIN v.entries |-> OfEntry(v.entries[i])])
        [] Is(v, "mantissa") \/ Is(v, "den") -> 3
        [] OTHER -> 1

\* Every artifact an author can make.
Artifacts == {[val |-> v, buf |-> Encode(v).buf, means |-> Logical(v)] :
                v \in {v \in Values : Encodable(v)}}

RTInit ==
  /\ sent \in Artifacts
  /\ \/ arrived = "whole" /\ Start(sent.buf)
     \/ /\ arrived = "cut"
        /\ \E k \in 0..Len(sent.buf) - 1 : Start(SubSeq(sent.buf, 1, k))
     \/ arrived = "extended" /\ \E x \in Tails : Start(Append(sent.buf, x))

RTNext == Next /\ UNCHANGED <<sent, arrived>>

RTSpec == RTInit /\ [][RTNext]_rtVars /\ WF_rtVars(RTNext)
-----------------------------------------------------------------------------
Fits == ItemCount(sent.val) <= MaxItems

\* An artifact that arrives whole is accepted, and its value is the one that
\* was encoded, when it has no more than MaxItems items.
WholeDecodes ==
  arrived = "whole" /\ Fits /\ pc = "done" =>
    outcome.kind = "value" /\ Logical(Result) = sent.means

\* Artifacts are self-delimiting: a proper prefix is "truncated", and bytes
\* behind an artifact are "trailing-bytes" at the position where it ends.
DamageIsNoticed ==
  Fits /\ pc = "done" =>
    /\ arrived = "cut" => outcome.reason = "truncated"
    /\ arrived = "extended" => outcome.reason = "trailing-bytes"
                               /\ outcome.at = Len(sent.buf)

\* Two values have the same bytes exactly when they mean the same: the order
\* in which a map was built leaves no trace, and nothing else is lost.
SingleForm ==
  pc = "done" /\ arrived = "whole" =>
    \A other \in Artifacts : other.buf = sent.buf <=> other.means = sent.means

\* "decoding is the exact inverse on a canonical artifact": what Encode
\* returns, Decode does not refuse.
EncodedDecodes ==
  arrived = "whole" => outcome.kind # "refused"
=============================================================================
