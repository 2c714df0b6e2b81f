------------------------------ MODULE Decoder ------------------------------
(***************************************************************************)
(* cbor.Decode: the strict decoder of one canonical CBOR artifact.         *)
(*                                                                         *)
(* item calls itself through array and mapValue.  The model unrolls that   *)
(* recursion: `stack' holds one frame for each array or mapValue call that *)
(* is still running, so the depth argument of item is Len(stack).  `out'   *)
(* collects the values item has returned, children before their parent,    *)
(* and a container names its children by their place in out.               *)
(*                                                                         *)
(* Positions are the code's own, counted from 0: the byte at position p is *)
(* data[p + 1].                                                            *)
(***************************************************************************)
EXTENDS Wire

CONSTANT Inputs       \* the byte strings Decode may be called with

\* A Go slice is indexed by an int, so its length is one.
ASSUME InputsAssumption == \A d \in Inputs : d \in Bytes /\ Len(d) < IntHalf

VARIABLES
  data,      \* decoder.data
  pos,       \* decoder.pos
  items,     \* decoder.items
  stack,     \* the running calls of array and mapValue, innermost last
  out,       \* the values item has returned, in the order it returned them
  pc,        \* what runs next: "item", "return", "close", or "done"
  outcome    \* what Decode returned, once pc = "done"

vars == <<data, pos, items, stack, out, pc, outcome>>
-----------------------------------------------------------------------------
Majors == {0, 1, 2, 3, 4, 5, 7}

\* A decoded value: major type, argument, the position of its head, of the
\* first byte after the head and of the first byte after the value, and the
\* places in out of its elements (of its keys and values by turns, for a map).
Node == [m : Majors, arg : Nat, at : Nat, body : Nat, end : Nat, kids : Seq(Nat)]

\* The locals of a running array (m = 4) or mapValue (m = 5).
Frame == [m : {4, 5}, n : Nat, at : Nat, body : Nat, kids : Seq(Nat),
          keysAreText : BOOLEAN, prevKey : Bytes]

Outcome == [kind : {"none", "value", "refused", "panic"},
            reason : Reasons \cup {"none"}, at : Nat]
NoOutcome == [kind |-> "none", reason |-> "none", at |-> 0]

Start(d) ==
  /\ data = d
  /\ pos = 0
  /\ items = 0
  /\ stack = <<>>
  /\ out = <<>>
  /\ pc = "item"
  /\ outcome = NoOutcome

Init == \E d \in Inputs : Start(d)
-----------------------------------------------------------------------------
\* Slots(f) values make the container complete: n elements, or n pairs.
Slots(f) == IF f.m = 4 THEN f.n ELSE 2 * f.n
Resume(f) == IF Len(f.kids) = Slots(f) THEN "close" ELSE "item"
Top == stack[Len(stack)]

Slice(from, to) == SubSeq(data, from + 1, to)

\* Every return of a *DecodeError unwinds all the calls.
Refuse(reason, at) ==
  /\ pc' = "done"
  /\ outcome' = [kind |-> "refused", reason |-> reason, at |-> at]
  /\ UNCHANGED <<data, stack, out>>

\* A run-time panic unwinds them too, and Decode does not return at all.
Panic ==
  /\ pc' = "done"
  /\ outcome' = [kind |-> "panic", reason |-> "none", at |-> 0]
  /\ UNCHANGED <<data, stack, out>>

\* item returns v to whoever called it.
Yield(v) ==
  /\ out' = Append(out, v)
  /\ pos' = v.end
  /\ pc' = "return"
  /\ UNCHANGED <<data, stack, outcome>>
-----------------------------------------------------------------------------
(***************************************************************************)
(* item, up to the switch on the major type.                               *)
(***************************************************************************)
Depth == Len(stack)

ItemTooDeep ==
  /\ pc = "item"
  /\ Depth > MaxDepth
  /\ Refuse("depth-exceeded", pos)
  /\ UNCHANGED <<pos, items>>

Count ==
  /\ pc = "item"
  /\ Depth <= MaxDepth
  /\ items' = items + 1

ItemTooManyMut ==
  /\ Count
  /\ items + 1 > MaxItems
  /\ Refuse("truncated", pos)
  /\ UNCHANGED pos

ItemTooMany ==
  /\ Count
  /\ items + 1 > MaxItems
  /\ Refuse("size-exceeded", pos)
  /\ UNCHANGED pos

ItemAtEnd ==
  /\ Count
  /\ items + 1 <= MaxItems
  /\ pos >= Len(data)
  /\ Refuse("truncated", pos)
  /\ UNCHANGED pos

HeadReadMut ==
  /\ Count
  /\ items <= MaxItems
  /\ pos < Len(data)

HeadRead ==
  /\ Count
  /\ items + 1 <= MaxItems
  /\ pos < Len(data)

b == data[pos + 1]
ai == Ai(b)
-----------------------------------------------------------------------------
(***************************************************************************)
(* simple: of major type 7 only the booleans have a canonical form.        *)
(***************************************************************************)
SimpleReason ==
  CASE ai \in {SimpleFalse, SimpleTrue}       -> "none"
    [] ai \in {Imm - 2, Imm - 1}              -> "null"
    [] ai \in {Imm + 1, Imm + 2, Imm + 3}     -> "float"
    [] ai = Indefinite                        -> "indefinite-length"
    [] OTHER                                  -> "simple-value"

BooleanMut ==
  /\ HeadRead
  /\ Major(b) = 7
  /\ SimpleReason = "none"
  /\ Yield([m |-> 7, arg |-> ai, at |-> pos, body |-> pos + 1, end |-> pos,
            kids |-> <<>>])

Boolean ==
  /\ HeadRead
  /\ Major(b) = 7
  /\ SimpleReason = "none"
  /\ Yield([m |-> 7, arg |-> ai, at |-> pos, body |-> pos + 1, end |-> pos + 1,
            kids |-> <<>>])

BadSimple ==
  /\ HeadRead
  /\ Major(b) = 7
  /\ SimpleReason # "none"
  /\ Refuse(SimpleReason, pos)
  /\ UNCHANGED pos

Tag ==
  /\ HeadRead
  /\ Major(b) = 6
  /\ Refuse("tag", pos)
  /\ UNCHANGED pos
-----------------------------------------------------------------------------
(***************************************************************************)
(* readArg and takeUint: the argument that follows the head at pos, which  *)
(* must use the shortest form that holds it.                               *)
(***************************************************************************)
AiAt(p) == Ai(data[p + 1])
BodyAt(p) == p + 1 + Width(AiAt(p))
ArgAt(p) == IF Width(AiAt(p)) = 0 THEN AiAt(p) ELSE Uint(Slice(p + 1, BodyAt(p)))
Body == BodyAt(pos)
Arg == ArgAt(pos)

ArgReason ==
  CASE ai = Indefinite                            -> "indefinite-length"
    [] ai \in Reserved                            -> "reserved-additional"
    [] ai < Indefinite /\ ai \notin Reserved /\ Body > Len(data) -> "truncated"
    [] OTHER -> IF Arg < Least(ai) THEN "non-minimal" ELSE "none"

BadArg ==
  /\ HeadRead
  /\ Major(b) <= 5
  /\ ArgReason # "none"
  /\ Refuse(ArgReason, pos)
  /\ pos' = IF ArgReason = "non-minimal" THEN Body ELSE pos + 1

ArgRead ==
  /\ HeadRead
  /\ Major(b) <= 5
  /\ ArgReason = "none"

Integer ==
  /\ ArgRead
  /\ Major(b) \in {0, 1}
  /\ Yield([m |-> Major(b), arg |-> Arg, at |-> pos, body |-> Body, end |-> Body,
            kids |-> <<>>])
-----------------------------------------------------------------------------
(***************************************************************************)
(* bytes: a length narrowed to int, an addition that may wrap, an          *)
(* allocation of that length and a slice.  make panics on a negative or    *)
(* impossible length, and the slice past the end of data would.            *)
(***************************************************************************)
N == ToInt(Arg)
LengthLostMut == N < 0
LengthLost == ToUint64(N) # Arg
StringTruncatedMut == LengthLost
StringTruncated == LengthLost \/ ToInt(Body + N) > Len(data)
StringPanics == N < 0 \/ Body + N > Len(data)

StringReason ==
  CASE StringTruncated -> "truncated"
    [] ~StringTruncated /\ Major(b) = 3 -> TextReason(Slice(Body, Body + N))
    [] OTHER -> "none"

StringRead ==
  /\ ArgRead
  /\ Major(b) \in {2, 3}

StringPanic ==
  /\ StringRead
  /\ ~StringTruncated
  /\ StringPanics
  /\ Panic
  /\ pos' = Body

BadString ==
  /\ StringRead
  /\ StringTruncated \/ ~StringPanics
  /\ StringReason # "none"
  /\ Refuse(StringReason, pos)
  /\ pos' = IF StringTruncated THEN Body ELSE Body + N

String ==
  /\ StringRead
  /\ ~StringTruncated
  /\ ~StringPanics
  /\ StringReason = "none"
  /\ Yield([m |-> Major(b), arg |-> Arg, at |-> pos, body |-> Body,
            end |-> Body + N, kids |-> <<>>])
-----------------------------------------------------------------------------
(***************************************************************************)
(* array and mapValue, from the call to the end of the loop.  The capacity *)
(* hint min(n, 1024) is negative when n is, and make panics.               *)
(***************************************************************************)
ContainerRead ==
  /\ ArgRead
  /\ Major(b) \in {4, 5}
  /\ pos' = Body

BadCount ==
  /\ ContainerRead
  /\ LengthLost
  /\ Refuse("size-exceeded", IF Major(b) = 4 THEN Body ELSE pos)

CountPanic ==
  /\ ContainerRead
  /\ ~LengthLost
  /\ N < 0
  /\ Panic

OpenMut ==
  /\ ContainerRead
  /\ ~LengthLost
  /\ LET f == [m |-> Major(b), n |-> N, at |-> pos, body |-> Body,
               kids |-> <<>>, keysAreText |-> FALSE, prevKey |-> <<>>]
     IN  /\ stack' = Append(stack, f)
         /\ pc' = Resume(f)
  /\ UNCHANGED <<data, out, outcome>>

Open ==
  /\ ContainerRead
  /\ ~LengthLost
  /\ N >= 0
  /\ LET f == [m |-> Major(b), n |-> N, at |-> pos, body |-> Body,
               kids |-> <<>>, keysAreText |-> FALSE, prevKey |-> <<>>]
     IN  /\ stack' = Append(stack, f)
         /\ pc' = Resume(f)
  /\ UNCHANGED <<data, out, outcome>>

\* The value item has just returned, and the caller it returned to.
Returned == out[Len(out)]
Returning(m) ==
  /\ pc = "return"
  /\ stack # <<>>
  /\ Top.m = m

\* The caller stores the value and goes on.
Store(f) ==
  /\ stack' = [stack EXCEPT ![Len(stack)] = f]
  /\ pc' = Resume(f)
  /\ UNCHANGED <<data, pos, items, out, outcome>>

Element ==
  /\ Returning(4)
  /\ Store([Top EXCEPT !.kids = Append(@, Len(out))])

MapValue ==
  /\ Returning(5)
  /\ Len(Top.kids) % 2 = 1
  /\ Store([Top EXCEPT !.kids = Append(@, Len(out))])

IsText(v) == v.m = 3
KeyBytes(v) == Slice(v.at, v.end)

\* The checks on a key, in their order: its type, then its place after the
\* key before it.
KeyReason(f, v) ==
  LET first == f.kids = <<>>
      bytes == KeyBytes(v)
  IN  CASE v.m \notin {0, 1, 3} -> "bad-map-key-type"
        [] v.m \in {0, 1, 3} /\ ~first /\ f.keysAreText # IsText(v) -> "mixed-map-keys"
        [] OTHER -> IF first \/ BytesLess(f.prevKey, bytes) THEN "none"
                    ELSE IF f.prevKey = bytes THEN "duplicate-map-key"
                    ELSE "unsorted-map-keys"

KeyReturned ==
  /\ Returning(5)
  /\ Len(Top.kids) % 2 = 0

BadMapKeyMut ==
  /\ KeyReturned
  /\ KeyReason(Top, Returned) # "none"
  /\ UNCHANGED vars

BadMapKey ==
  /\ KeyReturned
  /\ KeyReason(Top, Returned) # "none"
  /\ Refuse(KeyReason(Top, Returned), Returned.at)
  /\ UNCHANGED <<pos, items>>

MapKeyMut ==
  /\ KeyReturned
  /\ KeyReason(Top, Returned) = "none"
  /\ Store([Top EXCEPT !.kids = Append(@, Len(out)),
                       !.keysAreText = IsText(Returned)])

MapKey ==
  /\ KeyReturned
  /\ KeyReason(Top, Returned) = "none"
  /\ Store([Top EXCEPT !.kids = Append(@, Len(out)),
                       !.keysAreText = IsText(Returned),
                       !.prevKey = KeyBytes(Returned)])

CloseMut ==
  /\ pc = "close"
  /\ out' = Append(out, [m |-> Top.m, arg |-> Top.n, at |-> Top.at,
                         body |-> Top.body, end |-> pos, kids |-> Top.kids])
  /\ stack' = SubSeq(stack, 1, Len(stack) - 1)
  /\ pc' = "return"
  /\ pos' = Top.body
  /\ UNCHANGED <<data, items, outcome>>

\* The loop has ended: array or mapValue returns, and item with it.
Close ==
  /\ pc = "close"
  /\ out' = Append(out, [m |-> Top.m, arg |-> Top.n, at |-> Top.at,
                         body |-> Top.body, end |-> pos, kids |-> Top.kids])
  /\ stack' = SubSeq(stack, 1, Len(stack) - 1)
  /\ pc' = "return"
  /\ UNCHANGED <<data, pos, items, outcome>>
-----------------------------------------------------------------------------
(***************************************************************************)
(* Decode, after the outermost item: the input must be used up.            *)
(***************************************************************************)
TrailingMut ==
  /\ pc = "return"
  /\ stack = <<>>
  /\ pos # Len(data)
  /\ Refuse("trailing-bytes", Len(data))
  /\ UNCHANGED <<pos, items>>

Trailing ==
  /\ pc = "return"
  /\ stack = <<>>
  /\ pos # Len(data)
  /\ Refuse("trailing-bytes", pos)
  /\ UNCHANGED <<pos, items>>

AcceptMut ==
  /\ pc = "return"
  /\ stack = <<>>
  /\ pc' = "done"
  /\ outcome' = [kind |-> "value", reason |-> "none", at |-> 0]
  /\ UNCHANGED <<data, pos, items, stack, out>>

Accept ==
  /\ pc = "return"
  /\ stack = <<>>
  /\ pos = Len(data)
  /\ pc' = "done"
  /\ outcome' = [kind |-> "value", reason |-> "none", at |-> 0]
  /\ UNCHANGED <<data, pos, items, stack, out>>

Next ==
  \/ ItemTooDeep \/ ItemTooMany \/ ItemAtEnd
  \/ Boolean \/ BadSimple \/ Tag
  \/ BadArg \/ Integer
  \/ StringPanic \/ BadString \/ String
  \/ BadCount \/ CountPanic \/ Open
  \/ Element \/ MapValue \/ BadMapKey \/ MapKey \/ Close
  \/ Trailing \/ Accept

\* Decode is one goroutine that waits for nothing: it keeps running.
Spec == Init /\ [][Next]_vars /\ WF_vars(Next)
-----------------------------------------------------------------------------
(***************************************************************************)
(* Properties.                                                             *)
(***************************************************************************)

\* Type invariant of the decoder's state.
TypeOK ==
  /\ data \in Bytes
  /\ pos \in 0 .. Len(data)
  /\ items \in Nat
  /\ stack \in Seq(Frame)
  /\ out \in Seq(Node)
  /\ pc \in {"item", "return", "close", "done"}
  /\ outcome \in Outcome

\* The children of a container lie side by side from `from' to `to'.
Tiled(kids, from, to) ==
  /\ \A j \in 1..Len(kids) : kids[j] \in 1..Len(out)
  /\ kids = <<>> => from = to
  /\ kids # <<>> => /\ out[kids[1]].at = from
                   /\ out[kids[Len(kids)]].end = to
  /\ \A j \in 1..Len(kids) - 1 : out[kids[j]].end = out[kids[j + 1]].at

\* Keys (the odd children) are all integers or all text strings, and any two
\* of them, not only neighbours, are in strictly ascending bytewise order.
KeysAscend(kids) ==
  \A i, j \in 1..Len(kids) : i % 2 = 1 /\ j % 2 = 1 =>
    /\ out[kids[i]].m \in {0, 1, 3}
    /\ IsText(out[kids[i]]) = IsText(out[kids[j]])
    /\ i < j => BytesLess(KeyBytes(out[kids[i]]), KeyBytes(out[kids[j]]))

\* The head of v is the shortest one, and says what v is.
HeadMinimal(v) ==
  /\ v.at < Len(data)
  /\ Major(data[v.at + 1]) = v.m
  /\ IF v.m = 7
     THEN /\ v.arg = AiAt(v.at)
          /\ v.arg \in {SimpleFalse, SimpleTrue}
          /\ v.body = v.at + 1
     ELSE /\ AiAt(v.at) \in 0 .. Imm + 3
          /\ v.arg = ArgAt(v.at)
          /\ v.arg >= Least(AiAt(v.at))
          /\ v.body = BodyAt(v.at)

Canonical(v) ==
  /\ HeadMinimal(v)
  /\ v.at < v.end /\ v.end <= Len(data)
  /\ v.m \in {0, 1, 7} => v.end = v.body
  /\ v.m \in {2, 3} => v.end = v.body + v.arg
  /\ v.m = 3 => TextReason(Slice(v.body, v.end)) = "none"
  /\ v.m \in {4, 5} => /\ Len(v.kids) = IF v.m = 4 THEN v.arg ELSE 2 * v.arg
                       /\ Tiled(v.kids, v.body, v.end)
  /\ v.m = 5 => KeysAscend(v.kids)

\* What Decode accepts is canonical through and through: every value in it
\* has a minimal head, its text is valid, its maps are sorted without
\* duplicates, its parts leave no byte unread, and the outermost value is the
\* whole input.
AcceptedIsCanonical ==
  outcome.kind = "value" =>
    /\ \A i \in 1..Len(out) : Canonical(out[i])
    /\ out # <<>> /\ Returned.at = 0 /\ Returned.end = Len(data)

\* The declared limits hold while Decode runs: it never has more than
\* MaxItems values in hand nor more than MaxDepth + 1 nested calls, and what
\* it has counted is what it has built and what it is still building.
WithinLimits ==
  /\ Len(out) + Len(stack) <= MaxItems
  /\ Len(stack) <= MaxDepth + 1
  /\ pc # "done" => items = Len(out) + Len(stack)

\* Decode never steps back in its input, never changes a value it has
\* returned, and takes no step after its verdict.
Forward ==
  /\ pos' >= pos
  /\ Len(out') >= Len(out)
  /\ \A i \in 1..Len(out) : out'[i] = out[i]
  /\ pc # "done"
OnlyForward == [][Forward]_vars

\* A length makes Decode panic only when it is within one input length of the
\* largest native int or beyond it, whatever the input.
HugeLength == outcome'.kind = "panic" => Body + Arg >= IntHalf
PanicsOnlyOnHugeLengths == [][HugeLength]_vars

\* How many more steps Decode can take.  An unread byte is worth four: its head
\* is read, its frame opened, its value stored and its frame closed.
Fuel ==
  4 * (Len(data) - pos) + 2 * Len(stack)
    + CASE pc = "return" -> 2 [] pc \in {"item", "close"} -> 1 [] OTHER -> 0

\* Decode works in time linear in its input, whatever counts and lengths the
\* input announces: each step burns some of the fuel there is, 4 * Len(data) + 1
\* at the start.
Burns == Fuel \in Nat /\ Fuel' < Fuel
LinearTime == [][Burns]_vars

\* Decode returns on every input.
Termination == <>(pc = "done")

\* "DecodeError is a refusal to decode a non-canonical or malformed artifact.  A
\* decoder rejects": Decode answers every input and never panics.
NoPanic == outcome.kind # "panic"
=============================================================================
