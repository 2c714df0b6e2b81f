--------------------------- MODULE ArtifactProofs ---------------------------
(***************************************************************************)
(* Decode accepts exactly the canonical artifacts within its limits: what  *)
(* it accepts is one, and one that it is given it neither refuses nor      *)
(* panics on.  Of an artifact that was cut short, or has more behind it,   *)
(* it says just that.                                                      *)
(***************************************************************************)
EXTENDS DecoderProofs, Artifact, FiniteSetTheorems, WellFoundedInduction

\* What the head says of the input is what the decoder reads.
LEMMA SameHead ==
  \A p : /\ MajorOf(data, p) = Major(data[p + 1]) /\ AiOf(data, p) = AiAt(p)
         /\ BodyOf(data, p) = BodyAt(p) /\ ArgOf(data, p) = ArgAt(p)
BY DEF MajorOf, AiOf, AiAt, BodyOf, BodyAt, ArgOf, ArgAt, Part, Slice

\* The same at the position of the decoder.
LEMMA SameHeadHere ==
  /\ MajorOf(data, pos) = Major(b) /\ AiOf(data, pos) = ai
  /\ BodyOf(data, pos) = Body /\ ArgOf(data, pos) = Arg
BY SameHead DEF b, ai, AiAt, Body, Arg
-----------------------------------------------------------------------------
(***************************************************************************)
(* No head is read twice.                                                  *)
(***************************************************************************)
\* The heads named in a sequence, and those named when it is one longer.
HeadsIn(s) == {s[k].at : k \in 1..Len(s)}
LEMMA OneMore ==
  ASSUME NEW s, NEW t, NEW x, Len(s) \in Nat, Len(t) = Len(s) + 1, t[Len(s) + 1].at = x,
         \A k \in 1..Len(s) : t[k].at = s[k].at
  PROVE  HeadsIn(t) = HeadsIn(s) \cup {x}
<1>1. ASSUME NEW y \in HeadsIn(t) PROVE y \in HeadsIn(s) \cup {x}
  <2>1. PICK k \in 1..Len(t) : y = t[k].at
    BY <1>1 DEF HeadsIn
  <2>2. k = Len(s) + 1 \/ k \in 1..Len(s)
    OBVIOUS
  <2> QED
    BY <2>1, <2>2 DEF HeadsIn
<1>2. ASSUME NEW y \in HeadsIn(s) PROVE y \in HeadsIn(t)
  <2>1. PICK k \in 1..Len(s) : y = s[k].at
    BY <1>2 DEF HeadsIn
  <2>2. k \in 1..Len(t) /\ y = t[k].at
    BY <2>1
  <2> QED
    BY <2>2 DEF HeadsIn
<1>3. x \in HeadsIn(t)
  <2>1. Len(s) + 1 \in 1..Len(t)
    OBVIOUS
  <2> QED
    BY <2>1 DEF HeadsIn
<1> QED
  BY <1>1, <1>2, <1>3

\* The heads of the values that were returned and of those still open.
Seen == HeadsIn(out) \cup HeadsIn(stack)

\* They lie behind pos, differ from each other, and are as many as there are values.
Distinct ==
  /\ \A i \in 1..Len(out) : out[i].at < pos
  /\ \A i, j \in 1..Len(out) : out[i].at = out[j].at => i = j
  /\ \A i \in 1..Len(out), k \in 1..Len(stack) : out[i].at # stack[k].at
  /\ \A k, l \in 1..Len(stack) : k < l => stack[k].at < stack[l].at
Counted == IsFiniteSet(Seen) /\ Cardinality(Seen) = Len(out) + Len(stack)

\* The values and the frames, and their heads.
LEMMA Places ==
  ASSUME TypeInv
  PROVE  /\ Len(out) \in Nat /\ Len(stack) \in Nat /\ pos \in Nat /\ Len(data) \in Nat
         /\ \A i \in 1..Len(out) : out[i] \in Node /\ out[i].at \in Nat /\ out[i].end \in Nat
         /\ \A k \in 1..Len(stack) : stack[k] \in Frame /\ stack[k].at \in Nat /\ stack[k].at < pos
<1>1. \A i \in 1..Len(out) : out[i] \in Node
  BY ElementOfSeq DEF TypeInv, TypeOK
<1>2. \A i \in 1..Len(out) : out[i].at \in Nat /\ out[i].end \in Nat
  BY <1>1 DEF Node
<1>3. \A k \in 1..Len(stack) : stack[k] \in Frame /\ stack[k].at \in Nat /\ stack[k].at < pos
  BY FrameType DEF TypeInv, OpenBehind
<1> QED
  BY <1>1, <1>2, <1>3, LenProperties, ReadFacts DEF TypeInv, TypeOK

\* A value whose head is at pos joins the others.
LEMMA LeafDistinct ==
  ASSUME TypeInv, Distinct, Counted, NEW v \in Node, LeafOK(v)
  PROVE  Distinct' /\ Counted'
<1>1. /\ out' \in Seq(Node) /\ Len(out') = Len(out) + 1 /\ out'[Len(out) + 1] = v
      /\ \A i \in 1..Len(out) : out'[i] = out[i]
      /\ stack' = stack /\ v.at = pos /\ pos' = v.end /\ pos < pos' /\ pos' \in Nat
  BY OutGrows DEF LeafOK, Yield, TypeInv, Node
<1>2. \A i \in 1..Len(out') : i \in 1..Len(out) \/ i = Len(out) + 1
  BY <1>1, Places
<1>3. \A i \in 1..Len(out') : out'[i].at < pos'
  <2> TAKE i \in 1..Len(out')
  <2>1. CASE i \in 1..Len(out)
    BY <1>1, <2>1, Places DEF Distinct
  <2> QED
    BY <1>1, <1>2, <2>1, Places
<1>4. \A i, j \in 1..Len(out') : out'[i].at = out'[j].at => i = j
  <2> TAKE i, j \in 1..Len(out')
  <2>1. CASE i \in 1..Len(out) /\ j \in 1..Len(out)
    BY <1>1, <2>1 DEF Distinct
  <2>2. CASE i = Len(out) + 1 /\ j \in 1..Len(out)
    BY <1>1, <2>2, Places DEF Distinct
  <2>3. CASE i \in 1..Len(out) /\ j = Len(out) + 1
    BY <1>1, <2>3, Places DEF Distinct
  <2> QED
    BY <1>2, <2>1, <2>2, <2>3
<1>5. \A i \in 1..Len(out'), k \in 1..Len(stack') : out'[i].at # stack'[k].at
  <2> TAKE i \in 1..Len(out'), k \in 1..Len(stack')
  <2>1. CASE i \in 1..Len(out)
    BY <1>1, <2>1 DEF Distinct
  <2>2. CASE i = Len(out) + 1
    BY <1>1, <2>2, Places
  <2> QED
    BY <1>2, <2>1, <2>2
<1>6. Distinct'
  BY <1>1, <1>3, <1>4, <1>5 DEF Distinct
<1>7. Seen' = Seen \cup {pos}
  <2>1. \A k \in 1..Len(out) : out'[k].at = out[k].at
    BY <1>1
  <2>2. HeadsIn(out') = HeadsIn(out) \cup {pos}
    BY <1>1, <2>1, Places, OneMore
  <2> QED
    BY <1>1, <2>2 DEF Seen
<1>8. pos \notin Seen
  BY Places DEF Seen, HeadsIn, Distinct
<1>9. IsFiniteSet(Seen') /\ Cardinality(Seen') = Cardinality(Seen) + 1
  BY <1>7, <1>8, FS_AddElement DEF Counted
<1> QED
  BY <1>1, <1>6, <1>9, Places DEF Counted

\* A container that opens at pos joins them, too.
LEMMA OpenDistinct ==
  ASSUME TypeInv, Distinct, Counted, NEW f \in Frame, Opens(f)
  PROVE  Distinct' /\ Counted'
<1>1. /\ Len(stack') = Len(stack) + 1 /\ stack'[Len(stack) + 1] = f
      /\ \A k \in 1..Len(stack) : stack'[k] = stack[k]
      /\ out' = out /\ f.at = pos /\ pos < pos' /\ pos' \in 0..Len(data)
  BY AppendProperties DEF Opens, TypeInv, TypeOK
<1>2. \A k \in 1..Len(stack') : k \in 1..Len(stack) \/ k = Len(stack) + 1
  BY <1>1, Places
<1>3. \A i \in 1..Len(out') : out'[i].at < pos'
  BY <1>1, Places DEF Distinct
<1>4. \A k, l \in 1..Len(stack') : k < l => stack'[k].at < stack'[l].at
  <2> TAKE k, l \in 1..Len(stack')
  <2>1. CASE k \in 1..Len(stack) /\ l \in 1..Len(stack)
    BY <1>1, <2>1 DEF Distinct
  <2>2. CASE k \in 1..Len(stack) /\ l = Len(stack) + 1
    BY <1>1, <2>2, Places
  <2>3. CASE k = Len(stack) + 1
    BY <1>1, <2>3, Places
  <2> QED
    BY <1>2, <2>1, <2>2, <2>3
<1>5. \A i \in 1..Len(out'), k \in 1..Len(stack') : out'[i].at # stack'[k].at
  <2> TAKE i \in 1..Len(out'), k \in 1..Len(stack')
  <2>1. CASE k \in 1..Len(stack)
    BY <1>1, <2>1 DEF Distinct
  <2>2. CASE k = Len(stack) + 1
    BY <1>1, <2>2, Places DEF Distinct
  <2> QED
    BY <1>2, <2>1, <2>2
<1>6. Distinct'
  BY <1>1, <1>3, <1>4, <1>5 DEF Distinct
<1>7. Seen' = Seen \cup {pos}
  BY <1>1, Places, OneMore, SMTT(40) DEF Seen
<1>8. pos \notin Seen
  BY Places DEF Seen, HeadsIn, Distinct
<1>9. IsFiniteSet(Seen') /\ Cardinality(Seen') = Cardinality(Seen) + 1
  BY <1>7, <1>8, FS_AddElement DEF Counted
<1> QED
  BY <1>1, <1>6, <1>9, Places DEF Counted

\* A container that closes only moves its head from the stack to out.
LEMMA CloseDistinct ==
  ASSUME TypeInv, Distinct, Counted, Close
  PROVE  Distinct' /\ Counted'
<1>1. /\ stack # <<>> /\ Closed \in Node /\ Closed.at < pos /\ pos' = pos
      /\ Len(stack') = Len(stack) - 1
      /\ \A k \in 1 .. Len(stack) - 1 : stack'[k] = stack[k]
      /\ out' = Append(out, Closed) /\ Closed.at = stack[Len(stack)].at
  BY CloseFacts DEF Closed, Top
<1>2. /\ Len(out') = Len(out) + 1 /\ out'[Len(out) + 1] = Closed
      /\ \A i \in 1..Len(out) : out'[i] = out[i]
  BY <1>1, OutGrows DEF TypeInv
<1>3. /\ Len(stack) \in 1..Len(stack) /\ Len(stack') \in Nat /\ Len(stack) = Len(stack') + 1
  BY <1>1, TopType, Places DEF TypeInv
<1>4. /\ \A i \in 1..Len(out') : i \in 1..Len(out) \/ i = Len(out) + 1
      /\ \A k \in 1..Len(stack') : k \in 1..Len(stack) /\ k < Len(stack) /\ stack'[k] = stack[k]
  <2>1. Len(out) \in Nat /\ Len(stack) \in Nat
    BY Places
  <2>2. \A i \in 1..Len(out') : i \in 1..Len(out) \/ i = Len(out) + 1
    BY ONLY <1>2, <2>1
  <2>3. \A k \in 1..Len(stack') : k \in 1..Len(stack) - 1 /\ k \in 1..Len(stack) /\ k < Len(stack)
    BY ONLY <1>3, <2>1
  <2> QED
    BY <1>1, <2>2, <2>3
<1>5. \A i \in 1..Len(out') : out'[i].at < pos'
  <2> TAKE i \in 1..Len(out')
  <2>1. CASE i \in 1..Len(out)
    BY <1>1, <1>2, <2>1 DEF Distinct
  <2> QED
    BY <1>1, <1>2, <1>4, <2>1
<1>6. \A i, j \in 1..Len(out') : out'[i].at = out'[j].at => i = j
  <2> TAKE i, j \in 1..Len(out')
  <2>1. CASE i \in 1..Len(out) /\ j \in 1..Len(out)
    BY <1>2, <2>1 DEF Distinct
  <2>2. CASE i = Len(out) + 1 /\ j \in 1..Len(out)
    BY <1>1, <1>2, <1>3, <2>2 DEF Distinct
  <2>3. CASE i \in 1..Len(out) /\ j = Len(out) + 1
    BY <1>1, <1>2, <1>3, <2>3 DEF Distinct
  <2> QED
    BY <1>4, <2>1, <2>2, <2>3
<1>7. \A i \in 1..Len(out'), k \in 1..Len(stack') : out'[i].at # stack'[k].at
  <2> TAKE i \in 1..Len(out'), k \in 1..Len(stack')
  <2>1. CASE i \in 1..Len(out)
    BY <1>2, <1>4, <2>1 DEF Distinct
  <2>2. CASE i = Len(out) + 1
    <3>1. k \in 1..Len(stack) /\ k < Len(stack) /\ stack'[k] = stack[k]
      <4>1. k \in 1..Len(stack')
        OBVIOUS
      <4> QED
        BY ONLY <1>1, <1>3, <1>4, <4>1
    <3>2. stack[k].at < stack[Len(stack)].at
      BY <1>3, <3>1 DEF Distinct
    <3>3. out'[i].at = stack[Len(stack)].at
      BY <1>1, <1>2, <2>2
    <3>4. stack[k].at \in Nat /\ stack[Len(stack)].at \in Nat
      BY <1>3, <3>1, Places
    <3> QED
      BY ONLY <3>1, <3>2, <3>3, <3>4
  <2> QED
    BY <1>4, <2>1, <2>2
<1>8. \A k, l \in 1..Len(stack') : k < l => stack'[k].at < stack'[l].at
  BY <1>4 DEF Distinct
<1>9. Distinct'
  BY <1>5, <1>6, <1>7, <1>8 DEF Distinct
<1>10. Seen' = Seen
  <2>1. HeadsIn(out') = HeadsIn(out) \cup {Closed.at}
    <3>1. Len(out) \in Nat
      BY Places
    <3>2. /\ out'[Len(out) + 1].at = Closed.at
          /\ \A i \in 1..Len(out) : out'[i].at = out[i].at
      BY ONLY <1>2
    <3> QED
      BY ONLY <1>2, <3>1, <3>2, OneMore
  <2>2. /\ stack[Len(stack') + 1].at = Closed.at
        /\ \A k \in 1..Len(stack') : stack[k].at = stack'[k].at
    <3>1. \A k \in 1..Len(stack') : stack[k].at = stack'[k].at
      BY ONLY <1>4
    <3>2. stack[Len(stack') + 1].at = Closed.at
      <4> HIDE DEF Closed
      <4> QED
        BY ONLY <1>1, <1>3
    <3> QED
      BY ONLY <3>1, <3>2
  <2>3. HeadsIn(stack) = HeadsIn(stack') \cup {Closed.at}
    BY ONLY <1>3, <2>2, OneMore
  <2> QED
    BY <2>1, <2>3 DEF Seen
<1> QED
  BY <1>1, <1>2, <1>3, <1>9, <1>10, Places DEF Counted

\* Every step keeps the heads distinct and counted.
LEMMA DistinctStep == TypeInv /\ Distinct /\ Counted /\ [Next]_vars => Distinct' /\ Counted'
<1> SUFFICES ASSUME TypeInv, Distinct, Counted, [Next]_vars
             PROVE  Distinct' /\ Counted'
  OBVIOUS
<1>1. CASE Boolean \/ Integer \/ String
  BY <1>1, LeafFacts, LeafDistinct
<1>2. CASE Open
  BY <1>2, OpenFacts, OpenDistinct
<1>3. CASE Element \/ MapValue \/ MapKey
  <2>1. PICK f \in Frame : Stores(f)
    BY <1>3, StoreFacts
  <2>2. /\ Len(stack') = Len(stack) /\ stack'[Len(stack)] = f
        /\ \A k \in 1 .. Len(stack) - 1 : stack'[k] = stack[k]
        /\ UNCHANGED <<pos, out>> /\ f.at = stack[Len(stack)].at /\ Len(stack) \in Nat
    BY <2>1, StoreType, TopType DEF Stores, Store, Top, TypeInv
  <2>3. \A k \in 1..Len(stack) : stack'[k].at = stack[k].at
    <3> TAKE k \in 1..Len(stack)
    <3>1. k = Len(stack) \/ k \in 1 .. Len(stack) - 1
      BY <2>2
    <3> QED
      BY <2>2, <3>1
  <2>4. Distinct'
    BY <2>2, <2>3 DEF Distinct
  <2>5. HeadsIn(stack') = HeadsIn(stack)
    BY <2>2, <2>3 DEF HeadsIn
  <2> QED
    BY <2>2, <2>4, <2>5 DEF Counted, Seen
<1>4. CASE Close
  BY <1>4, CloseDistinct
<1>5. CASE Ending
  <2>1. Stops /\ \A i \in 1..Len(out) : out[i].at \in Nat
    BY <1>5, EndFacts, Places
  <2>2. UNCHANGED <<out, stack>> /\ pos <= pos' /\ pos \in Nat /\ pos' \in Nat
    BY <2>1, ReadFacts DEF Stops, TypeInv
  <2> QED
    BY <2>1, <2>2 DEF Distinct, Counted, Seen
<1>6. CASE Accept \/ UNCHANGED vars
  BY <1>6 DEF Accept, vars, Distinct, Counted, Seen
<1> QED
  BY <1>1, <1>2, <1>3, <1>4, <1>5, <1>6 DEF Next, Ending
-----------------------------------------------------------------------------
(***************************************************************************)
(* An artifact is accepted, and damage to it is noticed.  Decode follows   *)
(* the marks of the artifact as far as its input goes: each head it reads  *)
(* is the next one marked, and it refuses none for what it is.             *)
(***************************************************************************)
\* A set of natural numbers that has a member has a least one.
LEMMA LeastMember ==
  ASSUME NEW S \in SUBSET Nat, S # {}
  PROVE  \E m \in S : \A k \in S : m <= k
<1> DEFINE R == OpToRel(<, Nat)
<1>1. PICK m \in S : \A k \in S : ~(<<k, m>> \in R)
  BY NatLessThanWellFounded, WFMin
<1>2. \A k \in S : ~(k < m)
  BY <1>1 DEF OpToRel
<1>3. \A k \in S : m <= k
  BY <1>2
<1> QED
  BY <1>3

\* What is marked at a head.
LEMMA ParseFacts ==
  ASSUME NEW d \in Bytes, NEW w \in Markings(d), Parse(d, w), NEW p \in DOMAIN w
  PROVE  /\ p \in Nat /\ p < Len(d) /\ Len(d) \in Nat
         /\ w[p].end \in Nat /\ p < w[p].end /\ w[p].end <= Len(d)
         /\ w[p].height \in Nat
         /\ w[p].kids \in Seq(Nat) /\ Len(w[p].kids) \in Nat
         /\ ShortestHead(d, p) /\ RightContent(d, w, p)
<1>1. w[p] \in Mark /\ p \in 0 .. Len(d) - 1 /\ Len(d) \in Nat
  <2>1. PICK heads \in SUBSET (0 .. Len(d) - 1) : w \in [heads -> Mark]
    BY DEF Markings
  <2> QED
    BY <2>1, LenProperties DEF Bytes
<1>2. ShortestHead(d, p) /\ RightContent(d, w, p)
  BY DEF Parse
<1>3. p < w[p].end /\ w[p].end <= Len(d)
  BY <1>2 DEF RightContent
<1> QED
  BY <1>1, <1>2, <1>3, LenProperties DEF Mark

\* The elements of a marked container are marked, and have a level less.
LEMMA ParsedKids ==
  ASSUME NEW d \in Bytes, NEW w \in Markings(d), Parse(d, w), NEW p \in DOMAIN w,
         MajorOf(d, p) \in {4, 5}
  PROVE  /\ Len(w[p].kids) = SlotsOf(d, p)
         /\ \A j \in 1..Len(w[p].kids) :
              w[p].kids[j] \in DOMAIN w /\ w[w[p].kids[j]].height < w[p].height
         /\ w[p].kids = <<>> => w[p].end = BodyOf(d, p)
         /\ w[p].kids # <<>> => /\ w[p].kids[1] = BodyOf(d, p)
                               /\ w[w[p].kids[Len(w[p].kids)]].end = w[p].end
         /\ \A j \in 1..Len(w[p].kids) - 1 : w[p].kids[j + 1] = w[w[p].kids[j]].end
<1>1. Filled(d, w, p)
  BY ParseFacts DEF RightContent
<1> QED
  BY <1>1 DEF Filled

\* Decode was given the bytes of d: all of them, the first of them, or all of
\* them with more behind.
Given(d) == \A i \in 1..Len(d) : i <= Len(data) => data[i] = d[i]

\* w marks the artifact d, whose bytes Decode was given.
Marks(d, w) == d \in Bytes /\ Len(d) < IntHalf /\ w \in Markings(d) /\ Parse(d, w) /\ Given(d)

\* What is marked at a head of the artifact.
LEMMA MarkFacts ==
  ASSUME NEW d, NEW w, Marks(d, w), NEW p \in DOMAIN w
  PROVE  /\ p \in Nat /\ p < Len(d) /\ Len(d) \in Nat
         /\ w[p].end \in Nat /\ p < w[p].end /\ w[p].end <= Len(d)
         /\ w[p].height \in Nat
         /\ w[p].kids \in Seq(Nat) /\ Len(w[p].kids) \in Nat
         /\ ShortestHead(d, p) /\ RightContent(d, w, p)
BY ParseFacts DEF Marks

\* The elements of a container in the artifact.
LEMMA KidFacts ==
  ASSUME NEW d, NEW w, Marks(d, w), NEW p \in DOMAIN w, MajorOf(d, p) \in {4, 5}
  PROVE  /\ Len(w[p].kids) = SlotsOf(d, p)
         /\ \A j \in 1..Len(w[p].kids) :
              w[p].kids[j] \in DOMAIN w /\ w[w[p].kids[j]].height < w[p].height
         /\ w[p].kids = <<>> => w[p].end = BodyOf(d, p)
         /\ w[p].kids # <<>> => /\ w[p].kids[1] = BodyOf(d, p)
                               /\ w[w[p].kids[Len(w[p].kids)]].end = w[p].end
         /\ \A j \in 1..Len(w[p].kids) - 1 : w[p].kids[j + 1] = w[w[p].kids[j]].end
BY ParsedKids DEF Marks

\* What the input and the artifact both have, they have alike: parts,
LEMMA GivenPart ==
  ASSUME TypeOK, NEW d \in Bytes, Given(d),
         NEW x \in Nat, NEW y \in Nat, x <= y, y <= Len(d), y <= Len(data)
  PROVE  Part(data, x, y) = Part(d, x, y)
<1>1. /\ data \in Seq(Byte) /\ d \in Seq(Byte) /\ Len(data) \in Nat /\ Len(d) \in Nat
  BY LenProperties DEF TypeOK, Bytes
<1>2. \A i \in x + 1 .. y : data[i] = d[i]
  BY <1>1 DEF Given
<1> QED
  BY <1>1, <1>2 DEF Part

\* the heads of values,
LEMMA GivenHead ==
  ASSUME TypeOK, NEW d \in Bytes, Given(d), NEW p \in Nat, p < Len(d), p < Len(data)
  PROVE  /\ MajorOf(data, p) = MajorOf(d, p) /\ AiOf(data, p) = AiOf(d, p)
         /\ BodyOf(data, p) = BodyOf(d, p)
<1>1. data[p + 1] = d[p + 1]
  BY LenProperties DEF Given, Bytes
<1> QED
  BY <1>1 DEF MajorOf, AiOf, BodyOf

\* and the arguments of these.
LEMMA GivenArg ==
  ASSUME TypeOK, NEW d \in Bytes, Given(d), NEW p \in Nat, p < Len(d), p < Len(data),
         BodyOf(d, p) <= Len(d), BodyOf(d, p) <= Len(data)
  PROVE  ArgOf(data, p) = ArgOf(d, p)
<1>1. AiOf(data, p) = AiOf(d, p) /\ BodyOf(data, p) = BodyOf(d, p)
  BY GivenHead
<1>2. p + 1 \in Nat /\ BodyOf(d, p) \in Nat /\ p + 1 <= BodyOf(d, p)
  BY WidthType DEF BodyOf
<1>3. Part(data, p + 1, BodyOf(d, p)) = Part(d, p + 1, BodyOf(d, p))
  BY <1>2, GivenPart
<1> QED
  BY <1>1, <1>3 DEF ArgOf

\* A container has no more elements than the artifact has bytes: each takes one.
LEMMA FewKids ==
  ASSUME NEW d, NEW w, Marks(d, w), NEW p \in DOMAIN w, MajorOf(d, p) \in {4, 5}
  PROVE  Len(w[p].kids) <= Len(d)
<1> DEFINE kids == w[p].kids
<1> DEFINE Short == {j \in 1..Len(kids) : kids[j] < j - 1}
<1>1. /\ Len(kids) \in Nat /\ Len(d) \in Nat
      /\ \A j \in 1..Len(kids) : kids[j] \in DOMAIN w /\ kids[j] \in Nat /\ kids[j] < Len(d)
  BY KidFacts, MarkFacts
<1>2. \A j \in 1..Len(kids) - 1 : kids[j + 1] > kids[j]
  <2> TAKE j \in 1..Len(kids) - 1
  <2>1. j \in 1..Len(kids)
    BY <1>1
  <2>2. kids[j + 1] = w[kids[j]].end /\ kids[j] \in DOMAIN w
    BY <1>1, <2>1, KidFacts
  <2>3. kids[j] < w[kids[j]].end
    BY <2>2, MarkFacts
  <2> QED
    BY <2>2, <2>3
<1>3. Short = {}
  <2> SUFFICES ASSUME Short # {} PROVE FALSE
    OBVIOUS
  <2>1. Short \in SUBSET Nat
    BY <1>1
  <2> HIDE DEF kids
  <2>2. PICK m \in Short : \A k \in Short : m <= k
    BY <2>1, LeastMember
  <2>3. m \in 1..Len(kids) /\ kids[m] < m - 1 /\ m \in Nat
    BY <1>1, <2>2
  <2>4. m # 1
    BY <1>1, <2>3
  <2>5. m - 1 \in 1..Len(kids) - 1 /\ m - 1 \in 1..Len(kids) /\ (m - 1) + 1 = m
    BY <1>1, <2>3, <2>4
  <2>6. m - 1 \notin Short
    BY <2>2, <2>3
  <2>7. kids[m - 1] >= (m - 1) - 1
    BY <1>1, <2>5, <2>6
  <2>8. kids[m] > kids[m - 1]
    BY <1>2, <2>5
  <2>9. kids[m - 1] \in Nat /\ kids[m] \in Nat
    BY <1>1, <2>3, <2>5
  <2> QED
    BY <2>3, <2>7, <2>8, <2>9
<1>4. CASE Len(kids) = 0
  BY <1>1, <1>4
<1>5. CASE Len(kids) # 0
  <2>1. Len(kids) \in 1..Len(kids)
    BY <1>1, <1>5
  <2> HIDE DEF kids
  <2>2. kids[Len(kids)] >= Len(kids) - 1 /\ kids[Len(kids)] < Len(d) /\ kids[Len(kids)] \in Nat
    BY <1>1, <1>3, <2>1
  <2>3. Len(kids) <= Len(d)
    BY <1>1, <2>2
  <2> QED
    BY <2>3 DEF kids
<1> QED
  BY <1>4, <1>5

\* readArg and simple take the head of every marked value, unless the input ends in it.
LEMMA MarkedHead ==
  ASSUME TypeOK, NEW d, NEW w, Marks(d, w), pos \in DOMAIN w, pos < Len(data)
  PROVE  /\ Major(b) \in {0, 1, 2, 3, 4, 5, 7}
         /\ MajorOf(d, pos) = Major(b) /\ BodyOf(d, pos) = Body
         /\ Major(b) = 7 => SimpleReason = "none"
         /\ Major(b) # 7 =>
              /\ Major(b) <= 5 /\ Body <= Len(d)
              /\ Body > Len(data) => ArgReason = "truncated"
              /\ Body <= Len(data) => ArgReason = "none" /\ ArgOf(d, pos) = Arg
<1>1. /\ pos \in Nat /\ pos < Len(d) /\ ShortestHead(d, pos) /\ d \in Bytes /\ Given(d)
  BY MarkFacts DEF Marks
<1>2. MajorOf(d, pos) = Major(b) /\ AiOf(d, pos) = ai /\ BodyOf(d, pos) = Body
  BY <1>1, GivenHead, SameHeadHere
<1>3. Major(b) \in 0..7 /\ ai \in 0 .. Imm + 7 /\ Body \in Nat /\ Len(data) \in Nat
  BY <1>1, HeadFacts, LenProperties DEF TypeOK, Bytes
<1>4. CASE Major(b) = 7
  <2>1. ai \in {SimpleFalse, SimpleTrue}
    BY <1>1, <1>2, <1>4 DEF ShortestHead
  <2>2. SimpleReason = "none"
    <3> HIDE DEF ai
    <3> QED
      BY <2>1, ImmAssumption DEF SimpleReason, SimpleFalse, SimpleTrue, Indefinite
  <2> QED
    BY <1>2, <1>4, <2>2
<1>5. CASE Major(b) # 7
  <2>1. Major(b) # 6 /\ ai \in 0 .. Imm + 3 /\ Body <= Len(d) /\ ArgOf(d, pos) >= Least(ai)
    BY <1>1, <1>2, <1>5 DEF ShortestHead
  <2>2. ai # Indefinite /\ ai \notin Reserved /\ ai < Indefinite
    BY <2>1, ImmAssumption DEF Indefinite, Reserved
  <2>3. ASSUME Body > Len(data) PROVE ArgReason = "truncated"
    <3> HIDE DEF ai, Arg, Body, Least, Reserved, Indefinite
    <3> QED
      BY <2>2, <2>3 DEF ArgReason
  <2>4. ASSUME Body <= Len(data) PROVE ArgReason = "none" /\ ArgOf(d, pos) = Arg
    <3>1. ArgOf(d, pos) = Arg
      BY <1>1, <1>2, <2>1, <2>4, GivenArg, SameHeadHere
    <3>2. ArgReason = IF Arg < Least(ai) THEN "non-minimal" ELSE "none"
      <4>1. ~(Body > Len(data))
        BY <1>3, <2>4
      <4> HIDE DEF ai, Arg, Body, Least, Reserved, Indefinite
      <4> QED
        BY <2>2, <4>1 DEF ArgReason
    <3>3. Arg \in Nat /\ Least(ai) \in Nat
      BY <3>2, ArgFacts, LeastType
    <3> QED
      BY <2>1, <3>1, <3>2, <3>3
  <2> QED
    BY <1>2, <1>3, <1>5, <2>1, <2>3, <2>4
<1> QED
  BY <1>4, <1>5

\* The count of a marked container is an int, so that its reader neither
\* refuses it nor panics.
LEMMA MarkedCount ==
  ASSUME TypeOK, NEW d, NEW w, Marks(d, w), pos \in DOMAIN w, pos < Len(data),
         Major(b) \in {4, 5}, ArgReason = "none"
  PROVE  ~LengthLost /\ N >= 0
<1>1. MajorOf(d, pos) = Major(b) /\ ArgOf(d, pos) = Arg
  BY MarkedHead, ArgFacts
<1>2. Arg \in Nat /\ Len(d) \in Nat /\ IntHalf \in Nat /\ Word \in Nat \ {0} /\ IntHalf <= Word
  <2>1. Arg \in Nat /\ Len(d) \in Nat
    BY ArgFacts, MarkFacts
  <2>2. IntHalf \in Nat /\ Word \in Nat \ {0} /\ IntHalf <= Word
    BY IntAssumption, PowerType DEF Word
  <2> QED
    BY <2>1, <2>2
<1>3. Arg <= Len(d) /\ Len(d) < IntHalf
  <2>1. SlotsOf(d, pos) <= Len(d)
    BY <1>1, KidFacts, FewKids
  <2>2. Arg <= SlotsOf(d, pos) /\ SlotsOf(d, pos) \in Nat
    BY <1>1, <1>2 DEF SlotsOf
  <2> QED
    BY <1>2, <2>1, <2>2 DEF Marks
<1>4. N = Arg
  BY <1>2, <1>3, NarrowFacts DEF N
<1>5. ToUint64(N) = Arg
  <2>1. Arg \in 0 .. Word - 1 /\ Arg \in Int
    BY <1>2, <1>3
  <2>2. Arg % Word = Arg
    <3> HIDE DEF Arg, Word
    <3> QED
      BY <1>2, <2>1, ModFacts
  <2> QED
    BY <1>4, <2>2 DEF ToUint64
<1> QED
  BY <1>2, <1>4, <1>5 DEF LengthLost

\* A marked string is read as it is marked, unless the input ends in it.
LEMMA MarkedString ==
  ASSUME TypeOK, NEW d, NEW w, Marks(d, w), pos \in DOMAIN w, pos < Len(data),
         Major(b) \in {2, 3}, ArgReason = "none"
  PROVE  /\ w[pos].end > Len(data) => StringTruncated
         /\ w[pos].end <= Len(data) => ~StringTruncated /\ ~StringPanics /\ StringReason = "none"
<1>1. MajorOf(d, pos) = Major(b) /\ ArgOf(d, pos) = Arg /\ BodyOf(d, pos) = Body
  BY MarkedHead, ArgFacts
<1>2. /\ w[pos].end = Body + Arg /\ w[pos].end <= Len(d) /\ Len(d) \in Nat
      /\ Major(b) = 3 => TextReason(Part(d, Body, Body + Arg)) = "none"
  BY <1>1, MarkFacts DEF RightContent
<1>3. /\ Body \in Nat /\ Arg \in Nat /\ Len(data) \in Nat /\ Len(d) < IntHalf
      /\ d \in Bytes /\ Given(d)
  BY HeadFacts, ArgFacts, LenProperties DEF Marks, TypeOK, Bytes
<1>4. N = Arg /\ ToInt(Body + N) = Body + Arg
  <2>1. Arg < IntHalf /\ Body + Arg < IntHalf /\ Body + Arg \in Nat
    <3>1. IntHalf \in Nat
      BY IntAssumption
    <3> QED
      BY <1>2, <1>3, <3>1
  <2>2. N = Arg
    BY <1>3, <2>1, NarrowFacts DEF N
  <2> QED
    BY <2>1, <2>2, NarrowFacts
<1>5. ASSUME w[pos].end > Len(data) PROVE StringTruncated
  BY <1>2, <1>4, <1>5 DEF StringTruncated
<1>6. ASSUME w[pos].end <= Len(data)
      PROVE  ~StringTruncated /\ ~StringPanics /\ StringReason = "none"
  <2>1. ToUint64(N) = Arg
    <3>1. Arg \in 0 .. Word - 1 /\ Arg \in Int /\ Word \in Nat \ {0}
      <4>1. IntHalf \in Nat /\ Word \in Nat \ {0} /\ IntHalf <= Word
        BY IntAssumption, PowerType DEF Word
      <4> QED
        BY <1>2, <1>3, <4>1
    <3>2. Arg % Word = Arg
      <4> HIDE DEF Arg, Word
      <4> QED
        BY <3>1, ModFacts
    <3> QED
      BY <1>4, <3>2 DEF ToUint64
  <2>2. ~StringTruncated /\ ~StringPanics
    <3>1. ~LengthLost
      BY <2>1 DEF LengthLost
    <3>2. ~(Body + Arg > Len(data)) /\ ~(Arg < 0)
      BY <1>2, <1>3, <1>6
    <3> HIDE DEF N, Arg, Body, LengthLost
    <3> QED
      BY <1>4, <3>1, <3>2 DEF StringTruncated, StringPanics
  <2>3. Slice(Body, Body + N) = Part(d, Body, Body + Arg)
    <3>1. /\ Body + Arg \in Nat /\ Body <= Body + Arg
          /\ Body + Arg <= Len(d) /\ Body + Arg <= Len(data)
      BY <1>2, <1>3, <1>6
    <3>2. Part(data, Body, Body + Arg) = Part(d, Body, Body + Arg)
      <4> HIDE DEF Body, Arg
      <4> QED
        BY <1>3, <3>1, GivenPart
    <3> QED
      BY <1>4, <3>2 DEF Slice, Part
  <2>4. StringReason = "none"
    <3> HIDE DEF StringTruncated
    <3> QED
      BY <1>2, <2>2, <2>3 DEF StringReason
  <2> QED
    BY <2>2, <2>4
<1> QED
  BY <1>5, <1>6

\* A value without elements ends where it is marked to.
LEMMA MarkedLeaf ==
  ASSUME TypeOK, NEW d, NEW w, Marks(d, w), NEW v \in Node, Canonical(v), v.m \notin {4, 5},
         v.at \in DOMAIN w
  PROVE  MajorOf(d, v.at) = v.m /\ v.end = w[v.at].end
<1>1. /\ v.m \in Majors /\ v.arg \in Nat /\ v.body \in Nat /\ v.end \in Nat
      /\ HeadMinimal(v) /\ v.at < Len(data) /\ v.end <= Len(data) /\ Len(data) \in Nat
  BY LenProperties DEF Canonical, HeadMinimal, Node, TypeOK, Bytes
<1>2. /\ v.at \in Nat /\ v.at < Len(d) /\ d \in Bytes /\ Given(d)
      /\ ShortestHead(d, v.at) /\ RightContent(d, w, v.at)
  BY MarkFacts DEF Marks
<1>3. /\ MajorOf(d, v.at) = v.m /\ AiOf(d, v.at) = AiAt(v.at) /\ BodyOf(d, v.at) = BodyAt(v.at)
  <2>1. MajorOf(data, v.at) = v.m
    BY <1>1, SameHead DEF HeadMinimal
  <2> QED
    BY <1>1, <1>2, <2>1, GivenHead, SameHead
<1>4. v.body = BodyOf(d, v.at)
  <2>1. CASE v.m # 7
    BY <1>1, <1>3, <2>1 DEF HeadMinimal
  <2>2. CASE v.m = 7
    <3>1. AiAt(v.at) \in {SimpleFalse, SimpleTrue} /\ v.body = v.at + 1
      BY <1>1, <2>2 DEF HeadMinimal
    <3>2. Width(AiAt(v.at)) = 0
      BY <3>1, ImmAssumption DEF Width, SimpleFalse, SimpleTrue
    <3> QED
      BY <1>2, <1>3, <3>1, <3>2 DEF BodyAt
  <2> QED
    BY <2>1, <2>2
<1>5. v.m \in {2, 3} => v.arg = ArgOf(d, v.at)
  <2> SUFFICES ASSUME v.m \in {2, 3} PROVE v.arg = ArgOf(d, v.at)
    OBVIOUS
  <2>1. v.body <= v.end /\ BodyOf(d, v.at) <= Len(d)
    BY <1>1, <1>2, <1>3 DEF Canonical, ShortestHead
  <2>2. ArgOf(data, v.at) = ArgOf(d, v.at)
    BY <1>1, <1>2, <1>4, <2>1, GivenArg
  <2> QED
    BY <1>1, <2>2, SameHead DEF HeadMinimal
<1> QED
  BY <1>1, <1>2, <1>3, <1>4, <1>5 DEF RightContent, Canonical, Majors

\* The element that the container f is to read next, if it has room for one.
NextKid(w, f) == w[f.at].kids[Len(f.kids) + 1]
HasRoom(w, f) == Len(f.kids) < Len(w[f.at].kids)
Due(w) == IF stack = <<>> THEN 0 ELSE NextKid(w, Top)

\* f is a marked container in the making.
MarkedFrame(d, w, f) ==
  /\ f.at \in DOMAIN w
  /\ f.m = MajorOf(d, f.at) /\ Slots(f) = Len(w[f.at].kids)
  /\ Len(f.kids) <= Len(w[f.at].kids)
  /\ f.m = 5 /\ f.kids # <<>> =>
       LET key == w[f.at].kids[LastKey(f)]
       IN  /\ f.keysAreText <=> MajorOf(d, key) = 3
           /\ f.prevKey = Part(d, key, w[key].end)

\* The open containers are marked, each is the next element of the one around
\* it, and the marks allow for their number.
Path(d, w) ==
  /\ \A k \in 1..Len(stack) : MarkedFrame(d, w, stack[k])
  /\ \A k \in 1..Len(stack) : w[stack[k].at].height + k <= MaxDepth + 1
  /\ \A k \in 1 .. Len(stack) - 1 :
       HasRoom(w, stack[k]) /\ stack[k + 1].at = NextKid(w, stack[k])
  /\ stack # <<>> => stack[1].at = 0

\* What Decode says of an artifact: it accepts the whole of it, and tells where
\* it ends and that it was cut.
Verdict(d) ==
  /\ Len(data) = Len(d) => outcome.kind = "value"
  /\ Len(data) < Len(d) => outcome.kind = "refused" /\ outcome.reason = "truncated"
  /\ Len(data) > Len(d) => /\ outcome.kind = "refused" /\ outcome.reason = "trailing-bytes"
                           /\ outcome.at = Len(d)

\* What is read or returned now is what is due by the marks, and nothing is
\* refused before the input or the artifact ends.
Follows(d, w) ==
  /\ \A i \in 1..Len(out) : out[i].at \in DOMAIN w
  /\ Path(d, w)
  /\ pc \in {"item", "return"} /\ stack # <<>> => HasRoom(w, Top)
  /\ pc = "item" => pos = Due(w)
  /\ pc = "return" => /\ Returned.at = Due(w) /\ Returned.m = MajorOf(d, Due(w))
                     /\ Returned.end = w[Due(w)].end /\ pos = w[Due(w)].end
  /\ pc = "close" => pos = w[Top.at].end
  /\ pc # "done" => outcome.kind = "none"
  /\ pc = "done" => Verdict(d)

\* The element that is due is marked and has a place in its container.
LEMMA NextKidFacts ==
  ASSUME TypeInv, NEW d, NEW w, Marks(d, w), NEW f \in Frame, MarkedFrame(d, w, f), HasRoom(w, f)
  PROVE  /\ f.at \in DOMAIN w /\ MajorOf(d, f.at) \in {4, 5} /\ Len(f.kids) \in Nat
         /\ Len(f.kids) + 1 \in 1..Len(w[f.at].kids) /\ Len(w[f.at].kids) \in Nat
         /\ NextKid(w, f) \in DOMAIN w
         /\ w[NextKid(w, f)].height < w[f.at].height
<1>1. f.at \in DOMAIN w /\ MajorOf(d, f.at) \in {4, 5} /\ f.kids \in Seq(Nat)
  BY DEF MarkedFrame, Frame
<1>2. Len(f.kids) \in Nat /\ Len(w[f.at].kids) \in Nat
  BY <1>1, MarkFacts, LenProperties DEF TypeInv
<1>3. Len(f.kids) + 1 \in 1..Len(w[f.at].kids)
  BY <1>2 DEF HasRoom
<1> QED
  BY <1>1, <1>2, <1>3, KidFacts DEF NextKid, TypeInv

\* So is the value that is due, and the limit on the depth allows for it.
LEMMA DueFacts ==
  ASSUME TypeInv, NEW d, NEW w, Marks(d, w), Follows(d, w), pc \in {"item", "return"}
  PROVE  Due(w) \in DOMAIN w /\ w[Due(w)].height + Len(stack) <= MaxDepth
<1>1. CASE stack = <<>>
  <2>1. Due(w) = 0 /\ Len(stack) = 0 /\ 0 \in DOMAIN w /\ w[0].height <= MaxDepth
    BY <1>1 DEF Due, Marks, Parse
  <2>2. w[0].height \in Nat
    BY <2>1, MarkFacts DEF TypeInv
  <2> QED
    BY <2>1, <2>2
<1>2. CASE stack # <<>>
  <2>1. /\ Top \in Frame /\ Len(stack) \in 1..Len(stack) /\ Len(stack) \in Nat
        /\ Due(w) = NextKid(w, Top)
    BY <1>2, TopType, Places DEF TypeInv, Due
  <2>2. MarkedFrame(d, w, Top) /\ HasRoom(w, Top) /\ w[Top.at].height + Len(stack) <= MaxDepth + 1
    BY <1>2, <2>1 DEF Follows, Path, Top
  <2>3. /\ Due(w) \in DOMAIN w /\ Top.at \in DOMAIN w
        /\ w[Due(w)].height < w[Top.at].height
    BY <2>1, <2>2, NextKidFacts
  <2>4. w[Due(w)].height \in Nat /\ w[Top.at].height \in Nat
    BY <2>3, MarkFacts DEF TypeInv
  <2> QED
    BY <2>1, <2>2, <2>3, <2>4, LimitsAssumption
<1> QED
  BY <1>1, <1>2

\* item refuses no value that is due, unless the input ends in it.
LEMMA ItemGoes ==
  ASSUME TypeInv, WithinLimits, Distinct, Counted,
         NEW d, NEW w, Marks(d, w), Follows(d, w), pc = "item", Next
  PROVE  \/ \E v \in Node : LeafOK(v)
         \/ \E f \in Frame : Opens(f)
         \/ Len(data) < Len(d) /\ Refuse("truncated", pos)
<1>1. /\ pos = Due(w) /\ pos \in DOMAIN w /\ w[pos].height + Len(stack) <= MaxDepth
      /\ pos \in Nat /\ pos < Len(d) /\ w[pos].end <= Len(d) /\ w[pos].end \in Nat
      /\ Len(d) \in Nat /\ Len(data) \in Nat
  BY DueFacts, MarkFacts, Places DEF Follows, TypeInv
<1>2. ~ItemTooDeep
  BY <1>1, MarkFacts, Places, LimitsAssumption DEF ItemTooDeep, Depth, TypeInv
<1>3. items + 1 <= MaxItems
  <2>1. Seen \subseteq DOMAIN w
    BY DEF Seen, HeadsIn, Follows, Path, MarkedFrame
  <2>2. pos \notin Seen
    BY Places DEF Seen, HeadsIn, Distinct
  <2>3. IsFiniteSet(DOMAIN w)
    <3>1. IsFiniteSet(0 .. Len(d) - 1)
      BY <1>1, FS_Interval
    <3> QED
      BY <3>1, FS_Subset DEF Marks, Markings
  <2>4. IsFiniteSet(Seen \cup {pos}) /\ Cardinality(Seen \cup {pos}) = Cardinality(Seen) + 1
    BY <2>2, FS_AddElement DEF Counted
  <2>5. Cardinality(Seen \cup {pos}) <= Cardinality(DOMAIN w)
    BY <1>1, <2>1, <2>3, FS_Subset
  <2>6. Cardinality(DOMAIN w) <= MaxItems /\ Cardinality(DOMAIN w) \in Nat
    BY <2>3, FS_CardinalityType DEF Marks, Parse
  <2>7. items = Cardinality(Seen) /\ Cardinality(Seen) \in Nat
    BY Places DEF WithinLimits, Counted
  <2> QED
    BY <2>4, <2>5, <2>6, <2>7, LimitsAssumption
<1>4. ~ItemTooMany
  BY <1>3, ReadFacts, LimitsAssumption DEF ItemTooMany, TypeInv
<1>5. CASE ~(pos < Len(data))
  <2>1. ItemAtEnd
    BY <1>2, <1>4, <1>5, ItemPhase DEF HeadRead
  <2> QED
    BY <1>1, <1>5, <2>1 DEF ItemAtEnd
<1>6. CASE pos < Len(data)
  <2>1. Heads
    <3>1. ~ItemAtEnd
      BY <1>6, ReadFacts DEF ItemAtEnd, TypeInv
    <3> QED
      BY <1>2, <1>4, <3>1, ItemPhase
  <2>2. /\ Major(b) \in {0, 1, 2, 3, 4, 5, 7}
        /\ Major(b) = 7 => SimpleReason = "none"
        /\ Major(b) # 7 => /\ Major(b) <= 5 /\ Body <= Len(d)
                           /\ Body > Len(data) => ArgReason = "truncated"
                           /\ Body <= Len(data) => ArgReason = "none"
        /\ Body \in Nat
    BY <1>1, <1>6, MarkedHead, HeadFacts DEF TypeInv
  <2>3. CASE Major(b) = 7
    <3>1. Boolean
      BY <1>6, <2>1, <2>2, <2>3, HeadPhase DEF TypeInv
    <3> QED
      BY <3>1, LeafFacts
  <2>4. CASE Major(b) # 7 /\ Body > Len(data)
    <3>1. ArgReason = "truncated" /\ Major(b) <= 5
      BY <2>2, <2>4
    <3>2. BadArg
      BY <1>6, <2>1, <3>1, HeadPhase DEF TypeInv
    <3>3. Refuse("truncated", pos)
      BY <3>1, <3>2 DEF BadArg
    <3> QED
      BY <1>1, <2>2, <2>4, <3>3
  <2>5. CASE Major(b) # 7 /\ ~(Body > Len(data))
    <3>0. ArgReason = "none"
      BY <1>1, <2>2, <2>5
    <3>1. CASE Major(b) \in {0, 1}
      <4>1. Integer
        BY <1>6, <2>1, <3>0, <3>1, HeadPhase DEF TypeInv
      <4> QED
        BY <4>1, LeafFacts
    <3>2. CASE Major(b) \in {2, 3}
      <4>1. Strings
        BY <1>6, <2>1, <3>0, <3>2, HeadPhase DEF TypeInv
      <4>2. /\ w[pos].end > Len(data) => StringTruncated
            /\ w[pos].end <= Len(data) => ~StringTruncated /\ ~StringPanics /\ StringReason = "none"
        BY <1>1, <1>6, <3>0, <3>2, MarkedString DEF TypeInv
      <4>3. CASE w[pos].end > Len(data)
        <5>1. StringTruncated /\ StringReason = "truncated"
          BY <4>2, <4>3 DEF StringReason
        <5>2. BadString
          BY <4>1, <5>1 DEF Strings, StringPanic, String
        <5>3. Refuse("truncated", pos)
          BY <5>1, <5>2 DEF BadString
        <5> QED
          BY <1>1, <4>3, <5>3
      <4>4. CASE ~(w[pos].end > Len(data))
        <5>1. ~StringTruncated /\ ~StringPanics /\ StringReason = "none"
          BY <1>1, <4>2, <4>4
        <5>2. String
          BY <4>1, <5>1 DEF Strings, StringPanic, BadString
        <5> QED
          BY <5>2, LeafFacts
      <4> QED
        BY <4>3, <4>4
    <3>3. CASE Major(b) \in {4, 5}
      <4>1. Containers
        BY <1>6, <2>1, <3>0, <3>3, HeadPhase DEF TypeInv
      <4>2. ~LengthLost /\ N >= 0
        BY <1>1, <1>6, <3>0, <3>3, MarkedCount DEF TypeInv
      <4>3. Open
        <5>1. ~(N < 0)
          BY <1>6, <3>0, <4>2, StringFacts DEF TypeInv
        <5> QED
          BY <4>1, <4>2, <5>1 DEF Containers, BadCount, CountPanic
      <4> QED
        BY <4>3, OpenFacts
    <3> QED
      BY <2>2, <2>5, <3>1, <3>2, <3>3
  <2> QED
    BY <2>3, <2>4, <2>5
<1> QED
  BY <1>5, <1>6

\* A leaf that was due is returned as it is marked.
LEMMA LeafGoes ==
  ASSUME TypeInv, NEW d, NEW w, Marks(d, w), Follows(d, w), NEW v \in Node, LeafOK(v)
  PROVE  Follows(d, w)'
<1>1. /\ UNCHANGED <<data, stack, outcome>> /\ pc = "item" /\ pc' = "return"
      /\ pos' = v.end /\ v.at = pos /\ v.m \notin {4, 5} /\ Canonical(v)
      /\ out' = Append(out, v)
  BY ReadFacts DEF LeafOK, Yield, TypeInv
<1>2. pos = Due(w) /\ pos \in DOMAIN w
  BY <1>1, DueFacts DEF Follows
<1>3. MajorOf(d, pos) = v.m /\ v.end = w[pos].end
  BY <1>1, <1>2, MarkedLeaf DEF TypeInv
<1>4. /\ Len(out') = Len(out) + 1 /\ out'[Len(out')] = v
      /\ \A i \in 1..Len(out) : out'[i] = out[i]
  BY <1>1, OutGrows DEF TypeInv
<1>5. \A i \in 1..Len(out') : out'[i].at \in DOMAIN w
  <2> TAKE i \in 1..Len(out')
  <2>1. i \in 1..Len(out) \/ i = Len(out')
    BY <1>4, Places
  <2> QED
    BY <1>1, <1>2, <1>4, <2>1 DEF Follows
<1>6. Path(d, w)'
  BY <1>1 DEF Follows, Path, MarkedFrame
<1>7. Due(w)' = Due(w) /\ Top' = Top /\ Returned' = v
  BY <1>1, <1>4 DEF Due, Top, Returned
<1>8. pos' = w[Due(w)'].end /\ Returned'.end = w[Due(w)'].end /\ Returned'.at = Due(w)'
      /\ Returned'.m = MajorOf(d, Due(w)')
  BY <1>1, <1>2, <1>3, <1>7 DEF MajorOf
<1>9. stack' # <<>> => HasRoom(w, Top)'
  BY <1>1, <1>7 DEF Follows
<1> QED
  BY <1>1, <1>5, <1>6, <1>8, <1>9 DEF Follows

\* A container that was due is opened as it is marked.
LEMMA OpenGoes ==
  ASSUME TypeInv, NEW d, NEW w, Marks(d, w), Follows(d, w), NEW f \in Frame, Opens(f)
  PROVE  Follows(d, w)'
<1>1. /\ UNCHANGED <<data, out, outcome>> /\ pc = "item" /\ pc' = Resume(f)
      /\ f.at = pos /\ f.kids = <<>> /\ pos' = f.body /\ HeadMinimal(HeadOf(f))
      /\ stack' \in Seq(Frame) /\ Len(stack') = Len(stack) + 1 /\ stack'[Len(stack) + 1] = f
      /\ \A k \in 1..Len(stack) : stack'[k] = stack[k]
  BY ReadFacts, AppendProperties DEF Opens, TypeInv, TypeOK
<1>2. pos = Due(w) /\ pos \in DOMAIN w /\ w[pos].height + Len(stack) <= MaxDepth
  BY <1>1, DueFacts DEF Follows
<1>3. f.m = MajorOf(d, pos) /\ f.m \in {4, 5} /\ Slots(f) = SlotsOf(d, pos)
      /\ f.body = BodyOf(d, pos)
  <2>1. f.m \in {4, 5} /\ f.m = Major(b) /\ pos < Len(data) /\ f.body <= Len(data)
        /\ f.n = ArgAt(pos) /\ f.body = BodyAt(pos)
    BY <1>1, SameHead, SameHeadHere DEF HeadMinimal, HeadOf, Frame, Opens
  <2>2. MajorOf(d, pos) = Major(b) /\ BodyOf(d, pos) = Body /\ Body <= Len(d)
    BY <1>2, <2>1, MarkedHead DEF TypeInv
  <2>3. ArgOf(d, pos) = Arg
    <3>1. pos \in Nat /\ pos < Len(d) /\ d \in Bytes /\ Given(d)
      BY <1>2, MarkFacts DEF Marks
    <3>2. ArgOf(data, pos) = ArgOf(d, pos)
      BY <2>1, <2>2, <3>1, GivenArg DEF Body, TypeInv
    <3> QED
      BY <3>2, SameHeadHere
  <2> QED
    BY <2>1, <2>2, <2>3 DEF Slots, SlotsOf, Body, Arg
<1>4. /\ Slots(f) = Len(w[pos].kids) /\ Len(w[pos].kids) \in Nat /\ w[pos].height \in Nat
      /\ w[pos].kids = <<>> => w[pos].end = f.body
      /\ w[pos].kids # <<>> => w[pos].kids[1] = f.body
  BY <1>2, <1>3, KidFacts, MarkFacts DEF TypeInv
<1>5. MarkedFrame(d, w, f)
  BY <1>1, <1>2, <1>3, <1>4 DEF MarkedFrame
<1>6. \A k \in 1..Len(stack') : k \in 1..Len(stack) \/ k = Len(stack) + 1
  BY <1>1, Places
<1>7. Path(d, w)'
  <2>1. \A k \in 1..Len(stack') : MarkedFrame(d, w, stack[k])'
    <3> TAKE k \in 1..Len(stack')
    <3>1. MarkedFrame(d, w, stack'[k])
      BY <1>1, <1>5, <1>6 DEF Follows, Path
    <3> QED
      BY <1>1, <3>1 DEF MarkedFrame
  <2>2. \A k \in 1..Len(stack') : w[stack'[k].at].height + k <= MaxDepth + 1
    <3> TAKE k \in 1..Len(stack')
    <3>1. CASE k \in 1..Len(stack)
      BY <1>1, <3>1 DEF Follows, Path
    <3>2. CASE k = Len(stack) + 1
      BY <1>1, <1>2, <1>4, <3>2, Places, LimitsAssumption
    <3> QED
      BY <1>6, <3>1, <3>2
  <2>3. \A k \in 1 .. Len(stack') - 1 :
          HasRoom(w, stack'[k]) /\ stack'[k + 1].at = NextKid(w, stack'[k])
    <3> TAKE k \in 1 .. Len(stack') - 1
    <3>1. CASE k \in 1 .. Len(stack) - 1
      <4>1. k \in 1..Len(stack) /\ k + 1 \in 1..Len(stack)
        BY <3>1, Places
      <4> QED
        BY <1>1, <3>1, <4>1 DEF Follows, Path
    <3>2. CASE k = Len(stack)
      <4>1. stack # <<>> /\ stack'[k] = Top /\ stack'[k + 1] = f /\ k \in 1..Len(stack)
        BY <1>1, <3>2, Places DEF Top
      <4> QED
        BY <1>1, <1>2, <4>1 DEF Follows, Due
    <3>3. k \in 1 .. Len(stack) - 1 \/ k = Len(stack)
      BY <1>1, Places
    <3> QED
      BY <3>1, <3>2, <3>3
  <2>4. stack'[1].at = 0
    <3>1. CASE stack = <<>>
      BY <1>1, <1>2, <3>1 DEF Due
    <3>2. CASE stack # <<>>
      <4>1. 1 \in 1..Len(stack)
        BY <3>2, TopType, Places DEF TypeInv
      <4> QED
        BY <1>1, <3>2, <4>1 DEF Follows, Path
    <3> QED
      BY <3>1, <3>2
  <2> QED
    BY <2>1, <2>2, <2>3, <2>4 DEF Path, HasRoom, NextKid
<1>8. stack' # <<>> /\ Top' = f
  BY <1>1, Places DEF Top
<1>9. CASE Slots(f) = 0
  <2>1. pc' = "close" /\ w[pos].kids = <<>>
    BY <1>1, <1>2, <1>4, <1>9, MarkFacts, EmptySeq DEF Resume, TypeInv
  <2>2. pos' = w[Top.at].end'
    BY <1>1, <1>4, <1>8, <2>1
  <2> QED
    BY <1>1, <1>7, <2>1, <2>2 DEF Follows
<1>10. CASE Slots(f) # 0
  <2>1. pc' = "item" /\ w[pos].kids # <<>> /\ HasRoom(w, f)
    BY <1>1, <1>4, <1>10 DEF Resume, HasRoom
  <2>2. Due(w)' = w[pos].kids[1]
    BY <1>1, <1>8 DEF Due, NextKid
  <2>3. pos' = Due(w)' /\ HasRoom(w, Top)'
    BY <1>1, <1>4, <1>8, <2>1, <2>2 DEF HasRoom
  <2> QED
    BY <1>1, <1>7, <2>1, <2>3 DEF Follows
<1> QED
  BY <1>9, <1>10

\* The place of the last key, when one element more is there.
LEMMA LastKeyStep ==
  ASSUME NEW n \in Nat
  PROVE  /\ n % 2 = 0 => (n + 1) % 2 = 1
         /\ n % 2 = 1 => (n + 1) % 2 # 1 /\ n # 0
         /\ n % 2 = 0 /\ n # 0 => (n - 1) % 2 = 1 /\ n - 1 \in 1..n
         /\ n % 2 \in {0, 1}
OBVIOUS

\* The bytes of a value that is returned are those of the artifact.
LEMMA ReturnedBytes ==
  ASSUME TypeInv, NEW d, NEW w, Marks(d, w), Follows(d, w), pc = "return"
  PROVE  KeyBytes(Returned) = Part(d, Due(w), w[Due(w)].end)
<1>1. /\ Returned.at = Due(w) /\ Returned.end = w[Due(w)].end /\ pos = w[Due(w)].end
      /\ Due(w) \in DOMAIN w /\ d \in Bytes /\ Given(d)
  BY DueFacts DEF Follows, Marks
<1>2. /\ Due(w) \in Nat /\ w[Due(w)].end \in Nat /\ Due(w) <= w[Due(w)].end
      /\ w[Due(w)].end <= Len(d) /\ w[Due(w)].end <= Len(data)
  BY <1>1, MarkFacts, Places DEF TypeInv, TypeOK
<1>3. Part(data, Due(w), w[Due(w)].end) = Part(d, Due(w), w[Due(w)].end)
  <2> DEFINE x == Due(w)
             y == w[Due(w)].end
  <2>1. x \in Nat /\ y \in Nat /\ x <= y /\ y <= Len(d) /\ y <= Len(data) /\ d \in Bytes /\ Given(d)
    BY <1>1, <1>2
  <2> HIDE DEF x, y
  <2>2. Part(data, x, y) = Part(d, x, y)
    BY <2>1, GivenPart DEF TypeInv
  <2> QED
    BY <2>2 DEF x, y
<1> QED
  BY <1>1, <1>3 DEF KeyBytes, Slice, Part

\* The keys of a marked map pass their checks.
LEMMA KeyGoes ==
  ASSUME TypeInv, NEW d, NEW w, Marks(d, w), Follows(d, w), pc = "return", stack # <<>>,
         Top.m = 5, Len(Top.kids) % 2 = 0
  PROVE  KeyReason(Top, Returned) = "none"
<1> DEFINE kids == w[Top.at].kids
<1> DEFINE j == Len(Top.kids) + 1
<1>1. /\ Top \in Frame /\ Len(stack) \in 1..Len(stack)
      /\ MarkedFrame(d, w, Top) /\ HasRoom(w, Top)
      /\ Due(w) = NextKid(w, Top)
  BY TopType DEF TypeInv, Follows, Path, Top, Due
<1>2. /\ Top.at \in DOMAIN w /\ MajorOf(d, Top.at) = 5
      /\ Len(Top.kids) \in Nat /\ j \in 1..Len(kids) /\ j % 2 = 1 /\ Due(w) = kids[j]
  <2>1. /\ Top.at \in DOMAIN w /\ Len(Top.kids) \in Nat /\ j \in 1..Len(kids)
    BY <1>1, NextKidFacts
  <2> QED
    BY <1>1, <2>1, LastKeyStep DEF MarkedFrame, NextKid
<1>3. SortedKeys(d, w, Top.at)
  BY <1>2, MarkFacts DEF TypeInv, RightContent
<1>4. /\ Returned.at = kids[j] /\ Returned.m = MajorOf(d, kids[j])
      /\ KeyBytes(Returned) = Part(d, kids[j], w[kids[j]].end)
  BY <1>2, ReturnedBytes DEF Follows
<1>5. Returned.m \in {0, 1, 3}
  BY <1>2, <1>3, <1>4 DEF SortedKeys
<1>6. CASE Top.kids = <<>>
  BY <1>5, <1>6 DEF KeyReason
<1>7. CASE Top.kids # <<>>
  <2> DEFINE i == LastKey(Top)
  <2>1. Len(Top.kids) # 0
    BY <1>1, <1>7, EmptySeq DEF Frame
  <2>2. i = Len(Top.kids) - 1 /\ i % 2 = 1 /\ i \in 1..Len(Top.kids)
    BY <1>2, <2>1, LastKeyStep DEF LastKey
  <2>3. i \in 1..Len(kids) /\ i < j
    <3> HIDE DEF kids, i
    <3> QED
      BY <1>2, <2>2
  <2>4. /\ Top.keysAreText <=> MajorOf(d, kids[i]) = 3
        /\ Top.prevKey = Part(d, kids[i], w[kids[i]].end)
    BY <1>1, <1>7 DEF MarkedFrame
  <2>5. /\ MajorOf(d, kids[i]) = 3 <=> MajorOf(d, kids[j]) = 3
        /\ BytesLess(Part(d, kids[i], w[kids[i]].end), Part(d, kids[j], w[kids[j]].end))
    <3> HIDE DEF i, j
    <3> QED
      BY <1>2, <1>3, <2>2, <2>3 DEF SortedKeys
  <2>6. Top.keysAreText = IsText(Returned)
    BY <1>1, <1>4, <2>4, <2>5 DEF IsText, Frame
  <2>7. BytesLess(Top.prevKey, KeyBytes(Returned))
    BY <1>4, <2>4, <2>5
  <2> QED
    BY <1>5, <2>6, <2>7 DEF KeyReason
<1> QED
  BY <1>6, <1>7

\* The frame of a container that stores what was due is marked.
LEMMA StoredFrame ==
  ASSUME TypeInv, NEW d, NEW w, Marks(d, w), Follows(d, w), NEW f \in Frame, Stores(f)
  PROVE  /\ MarkedFrame(d, w, f) /\ Len(f.kids) = Len(Top.kids) + 1
         /\ Len(Top.kids) \in Nat
         /\ Len(f.kids) \in 1..Len(w[f.at].kids)
         /\ pos = w[w[f.at].kids[Len(f.kids)]].end
<1>1. /\ Top \in Frame /\ Len(stack) \in 1..Len(stack)
      /\ MarkedFrame(d, w, Top) /\ HasRoom(w, Top)
      /\ Due(w) = NextKid(w, Top)
  BY TopType DEF TypeInv, Follows, Path, Top, Due, Stores
<1>2. /\ Top.at \in DOMAIN w /\ Len(Top.kids) \in Nat /\ Len(Top.kids) + 1 \in 1..Len(w[Top.at].kids)
      /\ Len(w[Top.at].kids) \in Nat
  BY <1>1, NextKidFacts
<1>3. /\ f.m = Top.m /\ f.n = Top.n /\ f.at = Top.at
      /\ Len(f.kids) = Len(Top.kids) + 1 /\ f.kids # <<>>
  <2>1. Top.kids \in Seq(Nat) /\ Len(out) \in Nat
    BY <1>1, Places DEF Frame
  <2>2. f.m = Top.m /\ f.n = Top.n /\ f.at = Top.at /\ f.kids = Append(Top.kids, Len(out))
    BY DEF Stores
  <2>3. /\ Len(Append(Top.kids, Len(out))) = Len(Top.kids) + 1
        /\ Append(Top.kids, Len(out)) # <<>>
    BY ONLY <2>1, AppendProperties
  <2> QED
    BY ONLY <2>2, <2>3
<1>4. pos = w[w[f.at].kids[Len(f.kids)]].end
  BY <1>1, <1>3 DEF Follows, Stores, NextKid
<1>5. ASSUME f.m = 5
      PROVE  LET key == w[f.at].kids[LastKey(f)]
             IN  /\ f.keysAreText <=> MajorOf(d, key) = 3
                 /\ f.prevKey = Part(d, key, w[key].end)
  <2>1. CASE Len(Top.kids) % 2 = 1
    <3>1. LastKey(f) = LastKey(Top) /\ Top.kids # <<>>
      <4>1. Len(f.kids) % 2 # 1 /\ Len(Top.kids) # 0
        BY <1>2, <1>3, <2>1, LastKeyStep
      <4>2. Len(f.kids) - 1 = Len(Top.kids)
        BY <1>2, <1>3
      <4> QED
        BY <2>1, <4>1, <4>2 DEF LastKey
    <3>2. f.keysAreText = Top.keysAreText /\ f.prevKey = Top.prevKey
      BY <1>5, <2>1 DEF Stores
    <3> QED
      BY <1>1, <1>3, <1>5, <3>1, <3>2 DEF MarkedFrame
  <2>2. CASE Len(Top.kids) % 2 # 1
    <3>1. LastKey(f) = Len(Top.kids) + 1
      BY <1>2, <1>3, <2>2, LastKeyStep DEF LastKey
    <3>2. f.keysAreText = IsText(Returned) /\ f.prevKey = KeyBytes(Returned)
      BY <1>5, <2>2 DEF Stores
    <3>3. w[f.at].kids[LastKey(f)] = Due(w)
      BY <1>1, <1>3, <3>1 DEF NextKid
    <3>4. /\ Returned.at = Due(w) /\ Returned.m = MajorOf(d, Due(w))
          /\ Returned.end = w[Due(w)].end
      BY DEF Follows, Stores
    <3>5. KeyBytes(Returned) = Part(d, Due(w), w[Due(w)].end)
      BY ReturnedBytes DEF Stores
    <3> QED
      BY <3>2, <3>3, <3>4, <3>5 DEF IsText
  <2> QED
    BY <2>1, <2>2
<1>6. Slots(f) = Slots(Top)
  BY <1>3 DEF Slots
<1>7. MarkedFrame(d, w, f)
  BY <1>1, <1>2, <1>3, <1>5, <1>6 DEF MarkedFrame
<1> QED
  BY <1>2, <1>3, <1>4, <1>7

\* A container stores what was due, and goes on to the next element or to its end.
LEMMA StoreGoes ==
  ASSUME TypeInv, NEW d, NEW w, Marks(d, w), Follows(d, w), NEW f \in Frame, Stores(f)
  PROVE  Follows(d, w)'
<1>1. /\ UNCHANGED <<data, pos, out, outcome>> /\ pc = "return" /\ pc' = Resume(f)
      /\ stack # <<>> /\ f.at = Top.at
      /\ Len(stack') = Len(stack) /\ stack'[Len(stack)] = f
      /\ \A k \in 1 .. Len(stack) - 1 : stack'[k] = stack[k]
  BY StoreType DEF Stores, Store
<1>2. Len(stack) \in Nat /\ Len(stack) \in 1..Len(stack)
  BY <1>1, TopType, Places DEF TypeInv
<1>3. /\ MarkedFrame(d, w, f) /\ Len(f.kids) \in 1..Len(w[f.at].kids)
      /\ pos = w[w[f.at].kids[Len(f.kids)]].end
  BY StoredFrame
<1>4. \A k \in 1..Len(stack) : stack'[k].at = stack[k].at
  <2> TAKE k \in 1..Len(stack)
  <2>1. k \in 1 .. Len(stack) - 1 \/ k = Len(stack)
    BY <1>2
  <2> QED
    BY <1>1, <2>1 DEF Top
<1>5. Path(d, w)'
  <2>1. \A k \in 1..Len(stack') : MarkedFrame(d, w, stack[k])'
    <3> TAKE k \in 1..Len(stack')
    <3>1. k \in 1 .. Len(stack) - 1 \/ k = Len(stack)
      BY <1>1, <1>2
    <3>2. MarkedFrame(d, w, stack'[k])
      BY <1>1, <1>3, <3>1 DEF Follows, Path
    <3> QED
      BY <1>1, <3>2 DEF MarkedFrame
  <2>2. \A k \in 1..Len(stack') : w[stack'[k].at].height + k <= MaxDepth + 1
    BY <1>1, <1>4 DEF Follows, Path
  <2>3. \A k \in 1 .. Len(stack') - 1 :
          HasRoom(w, stack'[k]) /\ stack'[k + 1].at = NextKid(w, stack'[k])
    <3> TAKE k \in 1 .. Len(stack') - 1
    <3>1. k \in 1 .. Len(stack) - 1 /\ k + 1 \in 1..Len(stack)
      BY <1>1, <1>2
    <3> QED
      BY <1>1, <1>4, <3>1 DEF Follows, Path
  <2>4. stack'[1].at = 0
    <3>1. 1 \in 1..Len(stack)
      BY <1>2
    <3> QED
      BY <1>1, <1>4, <3>1 DEF Follows, Path
  <2> QED
    BY <2>1, <2>2, <2>3, <2>4 DEF Path, HasRoom, NextKid
<1>6. stack' # <<>> /\ Top' = f
  BY <1>1, <1>2 DEF Top
<1>7. /\ f.at \in DOMAIN w /\ MajorOf(d, f.at) \in {4, 5} /\ Slots(f) = Len(w[f.at].kids)
      /\ Len(w[f.at].kids) \in Nat
  BY <1>3, MarkFacts DEF MarkedFrame, Frame, TypeInv
<1>8. CASE Len(f.kids) = Slots(f)
  <2>1. pc' = "close" /\ w[f.at].kids # <<>>
    BY <1>1, <1>3, <1>7, <1>8 DEF Resume
  <2>2. pos = w[f.at].end
    BY <1>3, <1>7, <1>8, <2>1, KidFacts DEF TypeInv
  <2> QED
    BY <1>1, <1>5, <1>6, <2>1, <2>2 DEF Follows
<1>9. CASE Len(f.kids) # Slots(f)
  <2>1. pc' = "item" /\ HasRoom(w, f) /\ Len(f.kids) \in 1 .. Len(w[f.at].kids) - 1
    BY <1>1, <1>3, <1>7, <1>9 DEF Resume, HasRoom
  <2>2. pos = NextKid(w, f)
    BY <1>3, <1>7, <2>1, KidFacts, SMTT(40) DEF TypeInv, NextKid
  <2>3. pos' = Due(w)' /\ HasRoom(w, Top)'
    BY <1>1, <1>6, <2>1, <2>2 DEF Due, HasRoom, NextKid
  <2> QED
    BY <1>1, <1>5, <2>1, <2>3 DEF Follows
<1> QED
  BY <1>8, <1>9

\* A container is closed where it is marked to end.
LEMMA CloseGoes ==
  ASSUME TypeInv, NEW d, NEW w, Marks(d, w), Follows(d, w), Close
  PROVE  Follows(d, w)'
<1>1. /\ stack # <<>> /\ Closed \in Node /\ pc = "close" /\ pc' = "return"
      /\ out' = Append(out, Closed) /\ UNCHANGED <<data, pos, items, outcome>>
      /\ Len(stack') = Len(stack) - 1
      /\ \A k \in 1 .. Len(stack) - 1 : stack'[k] = stack[k]
      /\ Closed.at = Top.at /\ Closed.m = Top.m /\ Closed.end = pos
  BY CloseFacts DEF Closed
<1>2. Len(stack) \in Nat /\ Len(stack) \in 1..Len(stack) /\ stack' \in Seq(Frame)
  BY <1>1, CloseFacts, TopType, Places DEF TypeInv
<1>3. /\ Len(out') = Len(out) + 1 /\ out'[Len(out')] = Closed
      /\ \A i \in 1..Len(out) : out'[i] = out[i]
  BY <1>1, OutGrows DEF TypeInv
<1>4. MarkedFrame(d, w, Top)
  BY <1>2 DEF Follows, Path, Top
<1>5. pos = w[Closed.at].end /\ Closed.at \in DOMAIN w /\ Closed.m = MajorOf(d, Closed.at)
  BY <1>1, <1>4 DEF Follows, MarkedFrame
<1>6. \A i \in 1..Len(out') : out'[i].at \in DOMAIN w
  <2> TAKE i \in 1..Len(out')
  <2>1. i \in 1..Len(out) \/ i = Len(out')
    BY <1>3, Places
  <2> QED
    BY <1>3, <1>5, <2>1 DEF Follows
<1>7. \A k \in 1..Len(stack') : k \in 1..Len(stack) /\ k \in 1 .. Len(stack) - 1
  BY <1>1, <1>2
<1>8. Path(d, w)'
  <2>1. \A k \in 1..Len(stack') : MarkedFrame(d, w, stack[k])'
    <3> TAKE k \in 1..Len(stack')
    <3>1. MarkedFrame(d, w, stack'[k])
      BY <1>1, <1>7 DEF Follows, Path
    <3> QED
      BY <1>1, <3>1 DEF MarkedFrame
  <2>2. \A k \in 1..Len(stack') : w[stack'[k].at].height + k <= MaxDepth + 1
    BY <1>1, <1>7 DEF Follows, Path
  <2>3. \A k \in 1 .. Len(stack') - 1 :
          HasRoom(w, stack'[k]) /\ stack'[k + 1].at = NextKid(w, stack'[k])
    <3> TAKE k \in 1 .. Len(stack') - 1
    <3>1. k \in 1 .. Len(stack) - 1 /\ k + 1 \in 1 .. Len(stack) - 1
      BY <1>1, <1>2
    <3> QED
      BY <1>1, <3>1 DEF Follows, Path
  <2>4. ASSUME stack' # <<>> PROVE stack'[1].at = 0
    <3>1. 1 \in 1 .. Len(stack) - 1
      BY <1>1, <1>2, <2>4, EmptySeq
    <3> QED
      BY <1>1, <3>1 DEF Follows, Path
  <2> QED
    BY <2>1, <2>2, <2>3, <2>4 DEF Path, HasRoom, NextKid
<1>9. Due(w)' = Closed.at /\ (stack' # <<>> => HasRoom(w, Top)')
  <2>1. CASE stack' = <<>>
    <3>1. Len(stack) = 1
      BY <1>1, <1>2, <2>1
    <3>2. Top.at = 0
      BY <1>1, <3>1 DEF Follows, Path, Top
    <3> QED
      BY <1>1, <2>1, <3>2 DEF Due
  <2>2. CASE stack' # <<>>
    <3>1. Len(stack) - 1 \in 1 .. Len(stack) - 1
      BY <1>1, <1>2, <2>2, EmptySeq
    <3>2. /\ Top' = stack[Len(stack) - 1]
          /\ Top = stack[(Len(stack) - 1) + 1]
      BY <1>1, <1>2, <3>1 DEF Top
    <3>3. HasRoom(w, stack[Len(stack) - 1]) /\ Top.at = NextKid(w, stack[Len(stack) - 1])
      BY <3>1, <3>2 DEF Follows, Path
    <3> QED
      BY <1>1, <2>2, <3>2, <3>3 DEF Due, HasRoom, NextKid
  <2> QED
    BY <2>1, <2>2
<1>10. Returned' = Closed
  BY <1>3 DEF Returned
<1>11. /\ pos' = w[Due(w)'].end /\ Returned'.end = w[Due(w)'].end /\ Returned'.at = Due(w)'
       /\ Returned'.m = MajorOf(d, Due(w)')
  BY <1>1, <1>5, <1>9, <1>10 DEF MajorOf
<1> QED
  BY <1>1, <1>6, <1>8, <1>9, <1>11 DEF Follows

\* Where the input ends, Decode says that it was cut.
LEMMA CutGoes ==
  ASSUME TypeInv, NEW d, NEW w, Marks(d, w), Follows(d, w), Len(data) < Len(d),
         Refuse("truncated", pos)
  PROVE  Follows(d, w)'
<1>1. /\ UNCHANGED <<data, stack, out>> /\ pc' = "done"
      /\ outcome'.kind = "refused" /\ outcome'.reason = "truncated"
  BY DEF Refuse
<1>2. Path(d, w)'
  BY <1>1 DEF Follows, Path, MarkedFrame
<1>3. Verdict(d)'
  <2>1. Len(data) \in Nat /\ Len(d) \in Nat
    BY LenProperties DEF TypeInv, TypeOK, Marks, Bytes
  <2> QED
    BY <1>1, <2>1 DEF Verdict
<1> QED
  BY <1>1, <1>2, <1>3 DEF Follows

\* Where the artifact ends, Decode accepts it or says that there is more.
LEMMA EndGoes ==
  ASSUME TypeInv, NEW d, NEW w, Marks(d, w), Follows(d, w), pc = "return", stack = <<>>, Next
  PROVE  Follows(d, w)'
<1>1. /\ pos = Len(d) /\ pos \in Nat /\ pos <= Len(data) /\ Len(data) \in Nat
  BY Places DEF Follows, Due, Marks, Parse, TypeInv, TypeOK
<1>2. CASE pos = Len(data)
  <2>1. Accept
    BY <1>2, EndPhase
  <2>2. /\ UNCHANGED <<data, pos, stack, out>> /\ pc' = "done" /\ outcome'.kind = "value"
    BY <2>1 DEF Accept
  <2>3. Path(d, w)' /\ Verdict(d)'
    BY <1>1, <1>2, <2>2 DEF Follows, Path, MarkedFrame, Verdict
  <2> QED
    BY <2>2, <2>3 DEF Follows
<1>3. CASE pos # Len(data)
  <2>1. Trailing
    BY <1>3, EndPhase
  <2>2. /\ UNCHANGED <<data, stack, out>> /\ pc' = "done"
        /\ outcome'.kind = "refused" /\ outcome'.reason = "trailing-bytes" /\ outcome'.at = pos
    BY <2>1 DEF Trailing, Refuse
  <2>3. Path(d, w)' /\ Verdict(d)'
    BY <1>1, <1>3, <2>2 DEF Follows, Path, MarkedFrame, Verdict
  <2> QED
    BY <2>2, <2>3 DEF Follows
<1> QED
  BY <1>2, <1>3

\* Every step of Decode on an artifact follows its marks.
LEMMA FollowsStep ==
  ASSUME TypeInv, WithinLimits, Distinct, Counted,
         NEW d, NEW w, Marks(d, w), Follows(d, w), Next
  PROVE  Follows(d, w)'
<1>1. CASE pc = "item"
  BY <1>1, ItemGoes, LeafGoes, OpenGoes, CutGoes
<1>2. CASE pc = "return" /\ stack # <<>>
  <2>1. Element \/ MapValue \/ MapKey
    BY <1>2, ReturnPhase, KeyGoes
  <2> QED
    BY <2>1, StoreFacts, StoreGoes
<1>3. CASE pc = "return" /\ stack = <<>>
  BY <1>3, EndGoes
<1>4. CASE pc = "close"
  BY <1>4, ClosePhase, CloseGoes
<1>5. pc # "done"
  BY ForwardStep DEF Forward
<1> QED
  BY <1>1, <1>2, <1>3, <1>4, <1>5 DEF TypeInv, TypeOK

\* Decode follows every marking of every artifact that it was given, in whole,
\* in part, or with more behind it.
Accepting == \A d, w : Marks(d, w) => Follows(d, w)

\* It does so from the start.
LEMMA AcceptingStart ==
  ASSUME NEW c, Start(c)
  PROVE  Accepting
<1> SUFFICES ASSUME NEW d, NEW w, Marks(d, w) PROVE Follows(d, w)
  BY DEF Accepting
<1> QED
  BY DEF Start, Follows, Path, Due, NoOutcome

\* And all the way.
LEMMA AcceptingStep ==
  TypeInv /\ WithinLimits /\ Distinct /\ Counted /\ Accepting /\ [Next]_vars => Accepting'
<1> SUFFICES ASSUME TypeInv, WithinLimits, Distinct, Counted, Accepting,
                    [Next]_vars, NEW d, NEW w, Marks(d, w)'
             PROVE  Follows(d, w)'
  BY DEF Accepting
<1>1. Marks(d, w) /\ Follows(d, w)
  <2>1. data' = data
    BY DataStays
  <2> QED
    BY <2>1 DEF Marks, Given, Accepting
<1>2. CASE Next
  BY <1>1, <1>2, FollowsStep
<1>3. CASE UNCHANGED vars
  BY <1>1, <1>3 DEF vars, Follows, Path, MarkedFrame, Due, Top, HasRoom, NextKid, Returned, Verdict
<1> QED
  BY <1>2, <1>3
-----------------------------------------------------------------------------
(***************************************************************************)
(* What is accepted is an artifact: its heads are those of the values that *)
(* were returned.                                                          *)
(***************************************************************************)
\* H bounds the levels below each value, by the depth it was read at.
Bounded(H) ==
  /\ H \in [1..Len(out) -> 0..MaxDepth]
  /\ \A i \in 1..Len(out) : out[i].m \in {4, 5} =>
       \A j \in 1..Len(out[i].kids) : H[out[i].kids[j]] < H[i]
  /\ pc # "done" => \A k \in 1..Len(stack) : \A j \in 1..Len(stack[k].kids) :
       H[stack[k].kids[j]] = MaxDepth - k
  /\ pc = "return" => H[Len(out)] = MaxDepth - Len(stack)
Leveled == \E H : Bounded(H)

\* G extends H by the level h of one more value.
Extends(G, H, h) ==
  /\ G \in [1..Len(out') -> 0..MaxDepth] /\ G[Len(out')] = h
  /\ \A i \in 1..Len(out) : G[i] = H[i]
  /\ \A i \in 1..Len(out') : out'[i].m \in {4, 5} =>
       \A j \in 1..Len(out'[i].kids) : G[out'[i].kids[j]] < G[i]

\* A value that joins the others has one more level than its elements.
LEMMA LevelsGrow ==
  ASSUME TypeInv, HeapOK, NEW H, Bounded(H), NEW v \in Node, out' = Append(out, v),
         NEW h \in 0..MaxDepth,
         v.m \in {4, 5} => \A j \in 1..Len(v.kids) : v.kids[j] \in 1..Len(out) /\ H[v.kids[j]] < h
  PROVE  \E G : Extends(G, H, h)
<1>1. /\ Len(out') = Len(out) + 1 /\ out'[Len(out) + 1] = v /\ Len(out) \in Nat
      /\ \A i \in 1..Len(out) : out'[i] = out[i]
  BY OutGrows, Places DEF TypeInv
<1> DEFINE G == [i \in 1..Len(out') |-> IF i \in 1..Len(out) THEN H[i] ELSE h]
<1>2. G \in [1..Len(out') -> 0..MaxDepth]
  BY DEF Bounded
<1>3. G[Len(out')] = h /\ \A i \in 1..Len(out) : G[i] = H[i]
  BY <1>1
<1>4. \A i \in 1..Len(out') : out'[i].m \in {4, 5} =>
        \A j \in 1..Len(out'[i].kids) : G[out'[i].kids[j]] < G[i]
  <2> SUFFICES ASSUME NEW i \in 1..Len(out'), out'[i].m \in {4, 5},
                      NEW j \in 1..Len(out'[i].kids)
               PROVE  G[out'[i].kids[j]] < G[i]
    OBVIOUS
  <2>1. CASE i \in 1..Len(out)
    <3>1. out'[i] = out[i]
      BY <1>1, <2>1
    <3>2. out[i].kids[j] \in 1..Len(out)
      BY <2>1, <3>1 DEF HeapOK, Canonical, Tiled
    <3>3. H[out[i].kids[j]] < H[i]
      BY <2>1, <3>1 DEF Bounded
    <3> HIDE DEF G
    <3> QED
      BY <1>3, <2>1, <3>1, <3>2, <3>3
  <2>2. CASE i \notin 1..Len(out)
    <3>1. i = Len(out') /\ out'[i] = v
      BY <1>1, <2>2
    <3> HIDE DEF G
    <3> QED
      BY <1>3, <3>1
  <2> QED
    BY <2>1, <2>2
<1> HIDE DEF G
<1> QED
  BY <1>2, <1>3, <1>4 DEF Extends

\* Every step keeps the levels.
LEMMA LevelStep ==
  TypeInv /\ WithinLimits /\ CanonInv /\ Leveled /\ [Next]_vars => Leveled'
<1> SUFFICES ASSUME TypeInv, WithinLimits, CanonInv, NEW H, Bounded(H), [Next]_vars
             PROVE  Leveled'
  BY DEF Leveled
<1>1. CASE Boolean \/ Integer \/ String
  <2>1. PICK v \in Node : LeafOK(v)
    BY <1>1, LeafFacts
  <2>2. /\ out' = Append(out, v) /\ v.m \notin {4, 5} /\ stack' = stack
        /\ Len(stack) <= MaxDepth /\ pc = "item" /\ pc' = "return"
    BY <2>1 DEF LeafOK, Yield, HeadRead, Count, Depth
  <2>3. MaxDepth - Len(stack) \in 0..MaxDepth
    BY <2>2, Places, LimitsAssumption
  <2>4. PICK G : Extends(G, H, MaxDepth - Len(stack))
    BY <2>2, <2>3, LevelsGrow DEF CanonInv
  <2>5. \A k \in 1..Len(stack) : \A j \in 1..Len(stack[k].kids) : stack[k].kids[j] \in 1..Len(out)
    BY <2>2 DEF CanonInv, StackOK, Partial, Tiled
  <2>6. Bounded(G)'
    BY <2>2, <2>4, <2>5 DEF Bounded, Extends
  <2> QED
    BY <2>6 DEF Leveled
<1>2. CASE Open
  <2>1. PICK f \in Frame : Opens(f)
    BY <1>2, OpenFacts
  <2>2. /\ out' = out /\ f.kids = <<>> /\ pc = "item" /\ pc' \in {"item", "close"}
        /\ Len(stack') = Len(stack) + 1 /\ stack'[Len(stack) + 1] = f
        /\ \A k \in 1..Len(stack) : stack'[k] = stack[k]
    BY <2>1, AppendProperties, ReadFacts DEF Opens, TypeInv, TypeOK, Resume
  <2>3. \A k \in 1..Len(stack') : \A j \in 1..Len(stack'[k].kids) :
          H[stack'[k].kids[j]] = MaxDepth - k
    <3> TAKE k \in 1..Len(stack')
    <3>1. k \in 1..Len(stack) \/ k = Len(stack) + 1
      BY <2>2, Places
    <3> QED
      BY <2>2, <3>1 DEF Bounded
  <2>4. Bounded(H)'
    BY <2>2, <2>3 DEF Bounded
  <2> QED
    BY <2>4 DEF Leveled
<1>3. CASE Element \/ MapValue \/ MapKey
  <2>1. PICK f \in Frame : Stores(f)
    BY <1>3, StoreFacts
  <2>2. /\ out' = out /\ pc = "return" /\ pc' \in {"item", "close"} /\ stack # <<>>
        /\ f.kids = Append(Top.kids, Len(out))
        /\ Len(stack') = Len(stack) /\ stack'[Len(stack)] = f
        /\ \A k \in 1 .. Len(stack) - 1 : stack'[k] = stack[k]
    BY <2>1, StoreType DEF Stores, Store, Resume
  <2>3. Top \in Frame /\ Len(stack) \in 1..Len(stack) /\ Len(stack) \in Nat /\ Len(out) \in Nat
    BY <2>2, TopType, Places DEF TypeInv
  <2>4. \A k \in 1..Len(stack') : \A j \in 1..Len(stack'[k].kids) :
          H[stack'[k].kids[j]] = MaxDepth - k
    <3> SUFFICES ASSUME NEW k \in 1..Len(stack'), NEW j \in 1..Len(stack'[k].kids)
                 PROVE  H[stack'[k].kids[j]] = MaxDepth - k
      OBVIOUS
    <3>1. CASE k \in 1 .. Len(stack) - 1
      <4>1. k \in 1..Len(stack) /\ stack'[k] = stack[k]
        BY <2>2, <2>3, <3>1
      <4> QED
        BY <2>2, <4>1 DEF Bounded
    <3>2. CASE k = Len(stack)
      <4>1. Top.kids \in Seq(Nat) /\ Len(Top.kids) \in Nat
        BY <2>3, LenProperties DEF Frame
      <4>2. /\ Len(f.kids) = Len(Top.kids) + 1 /\ f.kids[Len(Top.kids) + 1] = Len(out)
            /\ \A i \in 1..Len(Top.kids) : f.kids[i] = Top.kids[i]
        BY <2>2, <2>3, <4>1, AppendProperties
      <4>3. stack'[k] = f
        BY <2>2, <3>2
      <4>4. j \in 1..Len(Top.kids) \/ j = Len(Top.kids) + 1
        BY <4>1, <4>2, <4>3
      <4>5. CASE j \in 1..Len(Top.kids)
        <5>1. H[Top.kids[j]] = MaxDepth - Len(stack)
          BY <2>2, <2>3, <4>5 DEF Bounded, Top
        <5> QED
          BY <3>2, <4>2, <4>3, <4>5, <5>1
      <4>6. CASE j = Len(Top.kids) + 1
        BY <2>2, <3>2, <4>2, <4>3, <4>6 DEF Bounded
      <4> QED
        BY <4>4, <4>5, <4>6
    <3> QED
      BY <2>2, <2>3, <3>1, <3>2
  <2>5. Bounded(H)'
    BY <2>2, <2>4 DEF Bounded
  <2> QED
    BY <2>5 DEF Leveled
<1>4. CASE Close
  <2>1. /\ stack # <<>> /\ Closed \in Node /\ pc = "close" /\ pc' = "return"
        /\ out' = Append(out, Closed) /\ Len(stack') = Len(stack) - 1
        /\ \A k \in 1 .. Len(stack) - 1 : stack'[k] = stack[k]
        /\ Closed.kids = Top.kids
    BY <1>4, CloseFacts DEF Closed
  <2>2. Top \in Frame /\ Len(stack) \in 1..Len(stack) /\ Len(stack) \in Nat /\ Len(out) \in Nat
    BY <2>1, TopType, Places DEF TypeInv
  <2>3. MaxDepth - (Len(stack) - 1) \in 0..MaxDepth
    BY <2>2, LimitsAssumption DEF WithinLimits
  <2>4. \A k \in 1..Len(stack) : \A j \in 1..Len(stack[k].kids) : stack[k].kids[j] \in 1..Len(out)
    BY <2>1 DEF CanonInv, StackOK, Partial, Tiled
  <2>5. \A j \in 1..Len(Closed.kids) :
          Closed.kids[j] \in 1..Len(out) /\ H[Closed.kids[j]] < MaxDepth - (Len(stack) - 1)
    <3> TAKE j \in 1..Len(Closed.kids)
    <3>1. Closed.kids[j] \in 1..Len(out) /\ H[Closed.kids[j]] = MaxDepth - Len(stack)
      BY <2>1, <2>2, <2>4 DEF Bounded, Top
    <3> QED
      BY <2>2, <3>1, LimitsAssumption
  <2>6. PICK G : Extends(G, H, MaxDepth - (Len(stack) - 1))
    BY <2>1, <2>3, <2>5, LevelsGrow DEF CanonInv
  <2>7. \A k \in 1..Len(stack') : \A j \in 1..Len(stack'[k].kids) :
          G[stack'[k].kids[j]] = MaxDepth - k
    <3> TAKE k \in 1..Len(stack')
    <3>1. k \in 1..Len(stack) /\ stack'[k] = stack[k]
      BY <2>1, <2>2
    <3> QED
      BY <2>1, <2>4, <2>6, <3>1 DEF Bounded, Extends
  <2>8. Bounded(G)'
    BY <2>1, <2>6, <2>7 DEF Bounded, Extends
  <2> QED
    BY <2>8 DEF Leveled
<1>5. CASE Ending
  <2>1. UNCHANGED out /\ pc' = "done"
    BY <1>5, EndFacts DEF Stops
  <2>2. Bounded(H)'
    BY <2>1 DEF Bounded
  <2> QED
    BY <2>2 DEF Leveled
<1>6. CASE Accept
  <2>1. Bounded(H)'
    BY <1>6 DEF Accept, Bounded
  <2> QED
    BY <2>1 DEF Leveled
<1>7. CASE UNCHANGED vars
  <2>1. Bounded(H)'
    BY <1>7 DEF vars, Bounded
  <2> QED
    BY <2>1 DEF Leveled
<1> QED
  BY <1>1, <1>2, <1>3, <1>4, <1>5, <1>6, <1>7 DEF Next, Ending

\* The marks of the accepted values: each at the head of its value, the elements
\* by their heads.
PlaceOf(p) == CHOOSE i \in 1..Len(out) : out[i].at = p
ElementsOf(v) == IF v.m \in {4, 5} THEN [j \in 1..Len(v.kids) |-> out[v.kids[j]].at] ELSE <<>>
MarkOf(v, h) == [end |-> v.end, kids |-> ElementsOf(v), height |-> h]
Marking(H) == [p \in HeadsIn(out) |-> MarkOf(out[PlaceOf(p)], H[PlaceOf(p)])]

\* The fields of a mark.
LEMMA MarkFields ==
  \A v, h : /\ MarkOf(v, h).end = v.end /\ MarkOf(v, h).height = h
            /\ MarkOf(v, h).kids = ElementsOf(v)
BY DEF MarkOf

\* Each value carries its own mark.
LEMMA MarkingFacts ==
  ASSUME Distinct, NEW H, NEW i \in 1..Len(out)
  PROVE  out[i].at \in DOMAIN Marking(H) /\ Marking(H)[out[i].at] = MarkOf(out[i], H[i])
<1>1. out[i].at \in HeadsIn(out)
  BY DEF HeadsIn
<1>2. PlaceOf(out[i].at) \in 1..Len(out) /\ out[PlaceOf(out[i].at)].at = out[i].at
  BY DEF PlaceOf
<1>3. PlaceOf(out[i].at) = i
  BY <1>2 DEF Distinct
<1> QED
  BY <1>1, <1>3 DEF Marking

\* A function on the first n places is a sequence of length n.
LEMMA IsSequence ==
  ASSUME NEW n \in Nat, NEW S, NEW s \in [1..n -> S]
  PROVE  s \in Seq(S) /\ Len(s) = n
<1>1. Seq(S) = UNION {[1..k -> S] : k \in Nat}
  OBVIOUS
<1>2. s \in Seq(S)
  BY <1>1
<1>3. Len(s) \in Nat /\ DOMAIN s = 1..Len(s) /\ DOMAIN s = 1..n
  BY <1>2, LenProperties
<1>4. Len(s) = n
  BY <1>3
<1> QED
  BY <1>2, <1>4

\* The elements of a canonical container, and their marks.
LEMMA ElementFacts ==
  ASSUME TypeInv, Distinct, HeapOK, NEW H, Bounded(H), NEW i \in 1..Len(out),
         out[i].m \in {4, 5}
  PROVE  /\ ElementsOf(out[i]) \in Seq(Nat) /\ Len(ElementsOf(out[i])) = Len(out[i].kids)
         /\ Len(out[i].kids) \in Nat
         /\ \A j \in 1..Len(out[i].kids) :
              /\ out[i].kids[j] \in 1..Len(out)
              /\ ElementsOf(out[i])[j] = out[out[i].kids[j]].at
              /\ ElementsOf(out[i])[j] \in DOMAIN Marking(H)
              /\ Marking(H)[ElementsOf(out[i])[j]] = MarkOf(out[out[i].kids[j]], H[out[i].kids[j]])
<1> DEFINE kids == out[i].kids
<1>1. kids \in Seq(Nat) /\ Len(kids) \in Nat
  BY Places, LenProperties DEF Node
<1>2. \A j \in 1..Len(kids) : kids[j] \in 1..Len(out)
  BY DEF HeapOK, Canonical, Tiled
<1>3. ElementsOf(out[i]) = [j \in 1..Len(kids) |-> out[kids[j]].at]
  BY DEF ElementsOf
<1>4. \A j \in 1..Len(kids) : ElementsOf(out[i])[j] = out[kids[j]].at /\ out[kids[j]].at \in Nat
  BY <1>2, <1>3, Places
<1>5. ElementsOf(out[i]) \in Seq(Nat) /\ Len(ElementsOf(out[i])) = Len(kids)
  <2> DEFINE e == ElementsOf(out[i])
  <2>1. e \in [1..Len(kids) -> Nat]
    BY <1>3, <1>4
  <2> HIDE DEF e
  <2> QED
    BY <1>1, <2>1, IsSequence DEF e
<1> QED
  BY <1>1, <1>2, <1>4, <1>5, MarkingFacts

\* A canonical value has the shortest head.
LEMMA AcceptedHead ==
  ASSUME TypeInv, HeapOK, NEW i \in 1..Len(out)
  PROVE  /\ ShortestHead(data, out[i].at) /\ MajorOf(data, out[i].at) = out[i].m
         /\ BodyOf(data, out[i].at) = out[i].body
         /\ out[i].m # 7 => ArgOf(data, out[i].at) = out[i].arg
         /\ out[i].at < Len(data)
<1> DEFINE v == out[i]
<1>1. v \in Node /\ v.at \in Nat /\ v.end \in Nat /\ Len(data) \in Nat
  BY Places
<1>2. Canonical(v) /\ HeadMinimal(v)
  BY DEF HeapOK, Canonical
<1>3. MajorOf(data, v.at) = v.m /\ v.m \in Majors /\ v.at < Len(data)
  BY <1>1, <1>2, SameHead DEF HeadMinimal, Node
<1>4. CASE v.m = 7
  <2>1. AiAt(v.at) \in {SimpleFalse, SimpleTrue} /\ v.body = v.at + 1
    BY <1>2, <1>4 DEF HeadMinimal
  <2>2. Width(AiAt(v.at)) = 0
    BY <2>1, ImmAssumption DEF Width, SimpleFalse, SimpleTrue
  <2>3. BodyOf(data, v.at) = v.body
    BY <1>1, <2>1, <2>2, SameHead DEF BodyAt
  <2> QED
    BY <1>3, <1>4, <2>1, <2>3, SameHead DEF ShortestHead
<1>5. CASE v.m # 7
  <2>1. /\ AiAt(v.at) \in 0 .. Imm + 3 /\ v.arg = ArgAt(v.at)
        /\ v.arg >= Least(AiAt(v.at)) /\ v.body = BodyAt(v.at)
    BY <1>2, <1>5 DEF HeadMinimal
  <2>2. v.body <= Len(data)
    <3>1. v.end <= Len(data) /\ v.body \in Nat /\ v.arg \in Nat
      BY <1>1, <1>2 DEF Canonical, Node
    <3>2. CASE v.m \in {0, 1, 2, 3}
      BY <1>1, <1>2, <3>1, <3>2 DEF Canonical
    <3>3. CASE v.m \in {4, 5}
      <4>1. Tiled(v.kids, v.body, v.end) /\ v.kids \in Seq(Nat)
        BY <1>1, <1>2, <3>3 DEF Canonical, Node
      <4>2. CASE v.kids = <<>>
        BY <3>1, <4>1, <4>2 DEF Tiled
      <4>3. CASE v.kids # <<>>
        <5>1. 1 \in 1..Len(v.kids)
          BY <4>1, <4>3, EmptySeq, LenProperties
        <5>2. v.kids[1] \in 1..Len(out) /\ out[v.kids[1]].at = v.body
          BY <4>1, <4>3, <5>1 DEF Tiled
        <5>3. out[v.kids[1]].at < Len(data)
          BY <5>2 DEF HeapOK, Canonical, HeadMinimal
        <5> QED
          BY <1>1, <3>1, <5>2, <5>3
      <4> QED
        BY <4>2, <4>3
    <3> QED
      BY <1>3, <1>5, <3>2, <3>3 DEF Majors
  <2>3. /\ AiOf(data, v.at) = AiAt(v.at) /\ BodyOf(data, v.at) = v.body
        /\ ArgOf(data, v.at) = v.arg
    BY <2>1, SameHead
  <2>4. MajorOf(data, v.at) # 7 /\ MajorOf(data, v.at) # 6
    BY <1>3, <1>5 DEF Majors
  <2>5. ShortestHead(data, v.at)
    BY <2>1, <2>2, <2>3, <2>4 DEF ShortestHead
  <2> QED
    BY <1>3, <2>3, <2>5
<1> QED
  BY <1>4, <1>5

\* A canonical value ends where its content does.
LEMMA AcceptedContent ==
  ASSUME TypeInv, Distinct, HeapOK, NEW H, Bounded(H), NEW i \in 1..Len(out)
  PROVE  RightContent(data, Marking(H), out[i].at)
<1> DEFINE v == out[i]
<1> DEFINE w == Marking(H)
<1> DEFINE p == v.at
<1>1. /\ w[p].end = v.end /\ w[p].kids = ElementsOf(v) /\ w[p].height = H[i]
  <2>1. w[p] = MarkOf(v, H[i])
    BY MarkingFacts
  <2> HIDE DEF w, v
  <2> QED
    BY <2>1 DEF MarkOf
<1>2. /\ Canonical(v) /\ MajorOf(data, p) = v.m /\ BodyOf(data, p) = v.body
      /\ v.m # 7 => ArgOf(data, p) = v.arg
  BY AcceptedHead DEF HeapOK
<1> HIDE DEF w
<1>3. /\ p < w[p].end /\ w[p].end <= Len(data)
      /\ v.m \in {0, 1, 7} => w[p].end = v.body
      /\ v.m \in {2, 3} => w[p].end = v.body + v.arg
      /\ v.m = 3 => TextReason(Part(data, v.body, w[p].end)) = "none"
  BY <1>1, <1>2 DEF Canonical, Slice, Part
<1>4. ASSUME v.m \in {4, 5} PROVE Filled(data, w, p)
  <2> DEFINE e == ElementsOf(v)
  <2>1. /\ Len(e) = Len(v.kids) /\ Len(v.kids) \in Nat /\ e \in Seq(Nat)
        /\ \A j \in 1..Len(e) :
             /\ v.kids[j] \in 1..Len(out) /\ e[j] = out[v.kids[j]].at /\ e[j] \in DOMAIN w
             /\ w[e[j]].end = out[v.kids[j]].end /\ w[e[j]].height = H[v.kids[j]]
    <3>1. /\ Len(e) = Len(v.kids) /\ Len(v.kids) \in Nat /\ e \in Seq(Nat)
          /\ \A j \in 1..Len(v.kids) :
               /\ v.kids[j] \in 1..Len(out) /\ e[j] = out[v.kids[j]].at /\ e[j] \in DOMAIN w
               /\ w[e[j]] = MarkOf(out[v.kids[j]], H[v.kids[j]])
      BY <1>4, ElementFacts DEF w
    <3> HIDE DEF e, v
    <3>2. \A j \in 1..Len(v.kids) :
            w[e[j]].end = out[v.kids[j]].end /\ w[e[j]].height = H[v.kids[j]]
      BY <3>1, MarkFields
    <3> QED
      BY <3>1, <3>2
  <2>2. Len(e) = SlotsOf(data, p)
    BY <1>2, <1>4, <2>1 DEF SlotsOf, Canonical
  <2>3. /\ Tiled(v.kids, v.body, v.end) /\ v.kids \in Seq(Nat)
    BY <1>2, <1>4, Places DEF Canonical, Node
  <2>4. \A j \in 1..Len(e) : e[j] \in DOMAIN w /\ w[e[j]].height < w[p].height
    BY <1>1, <1>4, <2>1 DEF Bounded
  <2>5. (e = <<>>) <=> (v.kids = <<>>)
    BY <2>1, <2>3, EmptySeq
  <2> HIDE DEF e, v
  <2>6. e = <<>> => w[p].end = v.body
    BY <1>1, <2>3, <2>5 DEF Tiled
  <2>7. e # <<>> => e[1] = v.body /\ w[e[Len(e)]].end = w[p].end
    <3> SUFFICES ASSUME e # <<>> PROVE e[1] = v.body /\ w[e[Len(e)]].end = w[p].end
      OBVIOUS
    <3>1. 1 \in 1..Len(e) /\ Len(e) \in 1..Len(e)
      BY <2>1, EmptySeq
    <3>2. out[v.kids[1]].at = v.body /\ out[v.kids[Len(v.kids)]].end = v.end
      BY <2>3, <2>5 DEF Tiled
    <3> QED
      BY <1>1, <2>1, <3>1, <3>2
  <2>8. \A j \in 1 .. Len(e) - 1 : e[j + 1] = w[e[j]].end
    <3> TAKE j \in 1 .. Len(e) - 1
    <3>1. j \in 1..Len(e) /\ j + 1 \in 1..Len(e) /\ j \in 1 .. Len(v.kids) - 1
      BY <2>1
    <3>2. out[v.kids[j]].end = out[v.kids[j + 1]].at
      BY <2>3, <3>1 DEF Tiled
    <3> QED
      BY <2>1, <3>1, <3>2
  <2> QED
    BY <1>1, <1>2, <2>2, <2>4, <2>6, <2>7, <2>8 DEF Filled, e
<1>5. ASSUME v.m = 5 PROVE SortedKeys(data, w, p)
  <2> DEFINE e == ElementsOf(v)
  <2>1. /\ Len(e) = Len(v.kids)
        /\ \A j \in 1..Len(e) :
             /\ v.kids[j] \in 1..Len(out) /\ e[j] = out[v.kids[j]].at
             /\ w[e[j]].end = out[v.kids[j]].end
    <3>1. /\ Len(e) = Len(v.kids)
          /\ \A j \in 1..Len(v.kids) :
               /\ v.kids[j] \in 1..Len(out) /\ e[j] = out[v.kids[j]].at
               /\ w[e[j]] = MarkOf(out[v.kids[j]], H[v.kids[j]])
      BY <1>5, ElementFacts DEF w
    <3> HIDE DEF e, v
    <3>2. \A j \in 1..Len(v.kids) :
            w[e[j]].end = out[v.kids[j]].end /\ w[e[j]].height = H[v.kids[j]]
      BY <3>1, MarkFields
    <3> QED
      BY <3>1, <3>2
  <2>2. KeysAscend(v.kids)
    BY <1>2, <1>5 DEF Canonical
  <2>3. \A j \in 1..Len(e) :
          /\ MajorOf(data, e[j]) = out[v.kids[j]].m
          /\ Part(data, e[j], w[e[j]].end) = KeyBytes(out[v.kids[j]])
    BY <2>1, AcceptedHead DEF KeyBytes, Slice, Part
  <2> HIDE DEF e, v
  <2>4. ASSUME NEW j \in 1..Len(e), NEW k \in 1..Len(e), j % 2 = 1, k % 2 = 1
        PROVE  /\ MajorOf(data, e[j]) \in {0, 1, 3}
               /\ MajorOf(data, e[j]) = 3 <=> MajorOf(data, e[k]) = 3
               /\ j < k => BytesLess(Part(data, e[j], w[e[j]].end), Part(data, e[k], w[e[k]].end))
    <3>1. /\ out[v.kids[j]].m \in {0, 1, 3}
          /\ IsText(out[v.kids[j]]) = IsText(out[v.kids[k]])
          /\ j < k => BytesLess(KeyBytes(out[v.kids[j]]), KeyBytes(out[v.kids[k]]))
      BY <2>1, <2>2, <2>4 DEF KeysAscend
    <3> QED
      BY <2>3, <3>1 DEF IsText
  <2> QED
    BY <1>1, <2>4 DEF SortedKeys, e
<1> QED
  BY <1>2, <1>3, <1>4, <1>5 DEF RightContent, w

\* What Decode has accepted is an artifact by these marks.
LEMMA MarkingMarks ==
  ASSUME TypeInv, WithinLimits, Distinct, Counted, HeapOK, VerdictOK,
         NEW H, Bounded(H), outcome.kind = "value"
  PROVE  Marking(H) \in Markings(data) /\ Parse(data, Marking(H))
<1> DEFINE w == Marking(H)
<1>1. Bounded(H)
  OBVIOUS
<1>2. DOMAIN w = HeadsIn(out)
  BY DEF Marking
<1>3. \A i \in 1..Len(out) : out[i].at \in 0 .. Len(data) - 1
  BY AcceptedHead, Places
<1>4. DOMAIN w \in SUBSET (0 .. Len(data) - 1)
  BY <1>2, <1>3 DEF HeadsIn
<1>5. \A i \in 1..Len(out) : ElementsOf(out[i]) \in Seq(Nat)
  <2> TAKE i \in 1..Len(out)
  <2>1. CASE out[i].m \in {4, 5}
    BY <1>1, <2>1, ElementFacts
  <2>2. CASE out[i].m \notin {4, 5}
    <3>1. ElementsOf(out[i]) = <<>>
      BY <2>2 DEF ElementsOf
    <3> QED
      BY <3>1, EmptySeq
  <2> QED
    BY <2>1, <2>2
<1>6. \A p \in DOMAIN w : \E i \in 1..Len(out) : p = out[i].at
  BY <1>2 DEF HeadsIn
<1>7. \A i \in 1..Len(out) : w[out[i].at] \in Mark
  <2> TAKE i \in 1..Len(out)
  <2>1. out[i].end \in Nat /\ H[i] \in Nat /\ ElementsOf(out[i]) \in Seq(Nat)
    <3>1. H \in [1..Len(out) -> 0..MaxDepth]
      BY DEF Bounded
    <3>2. H[i] \in Nat
      BY <3>1, LimitsAssumption
    <3> QED
      BY <1>5, <3>2, Places
  <2>2. w[out[i].at] = MarkOf(out[i], H[i])
    BY MarkingFacts
  <2> HIDE DEF w
  <2> QED
    BY <2>1, <2>2 DEF MarkOf, Mark
<1>8. w \in [HeadsIn(out) -> Mark]
  <2>1. \A p \in HeadsIn(out) : w[p] \in Mark
    BY <1>2, <1>6, <1>7
  <2> QED
    BY <2>1 DEF Marking
<1>9. 0 \in DOMAIN w /\ w[0].end = Len(data) /\ w[0].height <= MaxDepth
  <2>1. out # <<>> /\ out[Len(out)].at = 0 /\ out[Len(out)].end = Len(data)
    BY DEF VerdictOK, Returned
  <2>2. Len(out) \in 1..Len(out)
    BY <2>1, ReturnedType DEF TypeInv
  <2>3. 0 \in DOMAIN w /\ w[0] = MarkOf(out[Len(out)], H[Len(out)])
    BY <2>1, <2>2, MarkingFacts
  <2>4. H[Len(out)] <= MaxDepth
    BY <1>1, <2>2, LimitsAssumption DEF Bounded
  <2> HIDE DEF w
  <2> QED
    BY <2>1, <2>3, <2>4, MarkFields
<1>10. Cardinality(DOMAIN w) <= MaxItems
  <2>1. HeadsIn(out) \subseteq Seen
    BY DEF Seen
  <2>2. IsFiniteSet(Seen) /\ Cardinality(Seen) <= MaxItems /\ Cardinality(Seen) \in Nat
    BY FS_CardinalityType DEF Counted, WithinLimits
  <2>3. IsFiniteSet(HeadsIn(out)) /\ Cardinality(HeadsIn(out)) <= Cardinality(Seen)
    BY <2>1, <2>2, FS_Subset
  <2>4. Cardinality(HeadsIn(out)) \in Nat
    BY <2>3, FS_CardinalityType
  <2> QED
    BY <1>2, <2>2, <2>3, <2>4, LimitsAssumption
<1>11. \A p \in DOMAIN w : ShortestHead(data, p) /\ RightContent(data, w, p)
  BY <1>1, <1>6, AcceptedHead, AcceptedContent
<1>12. Parse(data, w)
  BY <1>9, <1>10, <1>11 DEF Parse
<1>13. w \in Markings(data)
  <2> HIDE DEF w
  <2> QED
    BY <1>2, <1>4, <1>8 DEF Markings
<1> QED
  BY <1>12, <1>13

\* What Decode has accepted is an artifact.
LEMMA MarkingParses ==
  ASSUME TypeInv, WithinLimits, Distinct, Counted, HeapOK, VerdictOK, Leveled,
         outcome.kind = "value"
  PROVE  IsArtifact(data)
<1>1. PICK H : Bounded(H)
  BY DEF Leveled
<1>2. Marking(H) \in Markings(data) /\ Parse(data, Marking(H))
  BY <1>1, MarkingMarks
<1> QED
  BY <1>2 DEF IsArtifact
-----------------------------------------------------------------------------
\* What Decode relies on, to accept every artifact and nothing else.
ArtifactInv ==
  /\ TypeInv /\ WithinLimits /\ Quiet /\ CanonInv
  /\ Distinct /\ Counted /\ Leveled
  /\ Len(data) < IntHalf /\ Accepting

\* It holds when Decode is called, on any bytes that a Go slice can have.
LEMMA ArtifactStart ==
  ASSUME NEW d \in Bytes, Len(d) < IntHalf, Start(d)
  PROVE  ArtifactInv
<1>1. TypeInv /\ WithinLimits /\ Quiet /\ CanonInv /\ Accepting
  BY StartType, LimitsStart, CanonStart, AcceptingStart DEF Start, Quiet, NoOutcome
<1>2. out = <<>> /\ stack = <<>> /\ pc = "item" /\ data = d
  BY DEF Start
<1>3. Seen = {} /\ Distinct
  BY <1>2 DEF Seen, HeadsIn, Distinct
<1>4. Counted
  BY <1>2, <1>3, FS_EmptySet DEF Counted
<1>5. Bounded([i \in 1..Len(out) |-> 0])
  BY <1>2, LimitsAssumption DEF Bounded
<1> QED
  BY <1>1, <1>2, <1>3, <1>4, <1>5 DEF ArtifactInv, Leveled

\* So it holds when Decode is called on one of its inputs.
LEMMA ArtifactInit == Init => ArtifactInv
BY InputsAssumption, ArtifactStart DEF Init

\* Every step preserves it.
LEMMA ArtifactStep == ArtifactInv /\ [Next]_vars => ArtifactInv'
<1> SUFFICES ASSUME ArtifactInv, [Next]_vars PROVE ArtifactInv'
  OBVIOUS
<1>1. TypeInv' /\ WithinLimits' /\ Quiet' /\ CanonInv'
  BY TypeStep, LimitsStep, QuietStep, CanonStep DEF ArtifactInv
<1>2. Distinct' /\ Counted' /\ Leveled'
  BY DistinctStep, LevelStep DEF ArtifactInv
<1>3. Len(data)' < IntHalf
  BY DataStays DEF ArtifactInv
<1>4. Accepting'
  BY AcceptingStep DEF ArtifactInv
<1> QED
  BY <1>1, <1>2, <1>3, <1>4 DEF ArtifactInv

\* Decode accepts every canonical artifact within its limits: it neither refuses
\* one nor panics on it, whatever the width of the native int.
AcceptsArtifacts == pc = "done" /\ IsArtifact(data) => outcome.kind = "value"
LEMMA AcceptsNow == ArtifactInv => AcceptsArtifacts
<1> SUFFICES ASSUME ArtifactInv, pc = "done", IsArtifact(data)
             PROVE  outcome.kind = "value"
  BY DEF AcceptsArtifacts
<1>1. PICK w : Marks(data, w)
  BY DEF IsArtifact, Marks, Given, ArtifactInv, TypeInv, TypeOK
<1> QED
  BY <1>1 DEF ArtifactInv, Accepting, Follows, Verdict

\* Every canonical artifact within the limits is accepted once Decode is done.
THEOREM EveryArtifactIsAccepted == Spec => []AcceptsArtifacts
BY ArtifactInit, ArtifactStep, AcceptsNow, PTL DEF Spec

\* Decode accepts nothing but canonical artifacts within its limits.
OnlyArtifacts == outcome.kind = "value" => IsArtifact(data)
LEMMA OnlyNow == ArtifactInv => OnlyArtifacts
BY MarkingParses DEF OnlyArtifacts, ArtifactInv, CanonInv

\* What is accepted is a canonical artifact within the limits.
THEOREM OnlyArtifactsAreAccepted == Spec => []OnlyArtifacts
BY ArtifactInit, ArtifactStep, OnlyNow, PTL DEF Spec

\* Decode tells what was done to an artifact within its limits: cut short it is
\* "truncated", wherever it was cut, and what is behind it is "trailing-bytes"
\* where it ends.  Nothing else is ever said of it.
JudgesDamage ==
  pc = "done" =>
    \A d \in Bytes : IsArtifact(d) /\ Len(d) < IntHalf /\ Given(d) => Verdict(d)
LEMMA JudgesNow == ArtifactInv => JudgesDamage
<1> SUFFICES ASSUME ArtifactInv, pc = "done", NEW d \in Bytes,
                    IsArtifact(d), Len(d) < IntHalf, Given(d)
             PROVE  Verdict(d)
  BY DEF JudgesDamage
<1>1. PICK w : Marks(d, w)
  BY DEF IsArtifact, Marks
<1> QED
  BY <1>1 DEF ArtifactInv, Accepting, Follows

\* The first bytes of an artifact are always truncated, and more than an artifact
\* always is too many: no byte of either can be taken for something else.
THEOREM DamageIsJudged == Spec => []JudgesDamage
BY ArtifactInit, ArtifactStep, JudgesNow, PTL DEF Spec
=============================================================================
