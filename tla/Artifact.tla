------------------------------ MODULE Artifact ------------------------------
(***************************************************************************)
(* What a canonical artifact is, said of its bytes alone and of no decoder: *)
(* its bytes can be marked with the heads of its values so that each value *)
(* has the shortest head, ends where its content ends, and lies beside its *)
(* neighbours with no byte between them.  Positions are counted from 0.    *)
(***************************************************************************)
EXTENDS Wire, FiniteSets

\* The head at position p of d, and what it announces.
MajorOf(d, p) == Major(d[p + 1])
AiOf(d, p) == Ai(d[p + 1])
BodyOf(d, p) == p + 1 + Width(AiOf(d, p))
Part(d, from, to) == SubSeq(d, from + 1, to)
ArgOf(d, p) ==
  IF Width(AiOf(d, p)) = 0 THEN AiOf(d, p) ELSE Uint(Part(d, p + 1, BodyOf(d, p)))

\* The values that have a canonical form have the shortest of their heads.
ShortestHead(d, p) ==
  IF MajorOf(d, p) = 7
  THEN AiOf(d, p) \in {SimpleFalse, SimpleTrue}
  ELSE /\ MajorOf(d, p) # 6
       /\ AiOf(d, p) \in 0 .. Imm + 3
       /\ BodyOf(d, p) <= Len(d)
       /\ ArgOf(d, p) >= Least(AiOf(d, p))
-----------------------------------------------------------------------------
\* What is marked at the head of a value: where the value ends, where its
\* elements start (its keys and values by turns, for a map), and a bound on the
\* levels of containers in it.
Mark == [end : Nat, kids : Seq(Nat), height : Nat]

SlotsOf(d, p) == IF MajorOf(d, p) = 4 THEN ArgOf(d, p) ELSE 2 * ArgOf(d, p)

\* The elements of the container at p fill it.
Filled(d, w, p) ==
  LET kids == w[p].kids
      last == Len(kids)
  IN  /\ last = SlotsOf(d, p)
      /\ \A j \in 1..last : kids[j] \in DOMAIN w /\ w[kids[j]].height < w[p].height
      /\ kids = <<>> => w[p].end = BodyOf(d, p)
      /\ kids # <<>> => kids[1] = BodyOf(d, p) /\ w[kids[last]].end = w[p].end
      /\ \A j \in 1..last - 1 : kids[j + 1] = w[kids[j]].end

\* The keys of the map at p are of one kind, and in strictly ascending order.
SortedKeys(d, w, p) ==
  LET kids == w[p].kids
  IN  \A i, j \in 1..Len(kids) : i % 2 = 1 /\ j % 2 = 1 =>
        /\ MajorOf(d, kids[i]) \in {0, 1, 3}
        /\ MajorOf(d, kids[i]) = 3 <=> MajorOf(d, kids[j]) = 3
        /\ i < j => BytesLess(Part(d, kids[i], w[kids[i]].end), Part(d, kids[j], w[kids[j]].end))

\* The value at p ends where its content does.
RightContent(d, w, p) ==
  /\ p < w[p].end /\ w[p].end <= Len(d)
  /\ MajorOf(d, p) \in {0, 1, 7} => w[p].end = BodyOf(d, p)
  /\ MajorOf(d, p) \in {2, 3} => w[p].end = BodyOf(d, p) + ArgOf(d, p)
  /\ MajorOf(d, p) = 3 => TextReason(Part(d, BodyOf(d, p), w[p].end)) = "none"
  /\ MajorOf(d, p) \in {4, 5} => Filled(d, w, p)
  /\ MajorOf(d, p) = 5 => SortedKeys(d, w, p)

\* w marks d, within the limits, as one value.
Parse(d, w) ==
  /\ 0 \in DOMAIN w /\ w[0].end = Len(d)
  /\ w[0].height <= MaxDepth
  /\ Cardinality(DOMAIN w) <= MaxItems
  /\ \A p \in DOMAIN w : ShortestHead(d, p) /\ RightContent(d, w, p)

\* The ways to mark d.
Markings(d) == UNION {[heads -> Mark] : heads \in SUBSET (0 .. Len(d) - 1)}

IsArtifact(d) == \E w \in Markings(d) : Parse(d, w)
-----------------------------------------------------------------------------
(***************************************************************************)
(* When two marked artifacts hold the same value.  The order of the        *)
(* entries of a map is no part of its value.                               *)
(***************************************************************************)
Content(d, w, p) == Part(d, BodyOf(d, p), w[p].end)
KeyPlaces(w, p) == {i \in 1..Len(w[p].kids) : i % 2 = 1}

\* The i-th and the j-th element, or entry, are related.
SameKid(w, p, i, x, q, j, R) == <<w[p].kids[i], x[q].kids[j]>> \in R
SameEntry(w, p, i, x, q, j, R) ==
  SameKid(w, p, i, x, q, j, R) /\ SameKid(w, p, i + 1, x, q, j + 1, R)

\* The value at p of d and the value at q of e have the same kind, and the same
\* content or related elements.
Alike(d, w, p, e, x, q, R) ==
  /\ MajorOf(d, p) = MajorOf(e, q)
  /\ MajorOf(d, p) = 7 => AiOf(d, p) = AiOf(e, q)
  /\ MajorOf(d, p) \in {0, 1} => ArgOf(d, p) = ArgOf(e, q)
  /\ MajorOf(d, p) \in {2, 3} => Content(d, w, p) = Content(e, x, q)
  /\ MajorOf(d, p) = 4 =>
       /\ Len(w[p].kids) = Len(x[q].kids)
       /\ \A j \in 1..Len(w[p].kids) : SameKid(w, p, j, x, q, j, R)
  /\ MajorOf(d, p) = 5 =>
       /\ \A i \in KeyPlaces(w, p) : \E j \in KeyPlaces(x, q) : SameEntry(w, p, i, x, q, j, R)
       /\ \A j \in KeyPlaces(x, q) : \E i \in KeyPlaces(w, p) : SameEntry(w, p, i, x, q, j, R)

\* R relates the parts of the one to the equal parts of the other, and so the
\* whole to the whole.
Equates(d, w, e, x, R) ==
  /\ <<0, 0>> \in R
  /\ \A p \in DOMAIN w, q \in DOMAIN x : <<p, q>> \in R => Alike(d, w, p, e, x, q, R)

SameValue(d, e) ==
  \E w \in Markings(d), x \in Markings(e) :
    /\ Parse(d, w) /\ Parse(e, x)
    /\ \E R \in SUBSET ((DOMAIN w) \X (DOMAIN x)) : Equates(d, w, e, x, R)
=============================================================================
