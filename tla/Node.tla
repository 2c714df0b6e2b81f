-------------------------------- MODULE Node --------------------------------
(***************************************************************************)
(* A node that is born with the floor closure, loads further tables from   *)
(* their artifacts (ParseFieldTable, then Registry.Add), interprets what   *)
(* it is sent under the tables it holds, and acts on the fields it has     *)
(* checked to be present.  It makes these calls in any order: tables may   *)
(* come late, twice, or not at all.                                        *)
(***************************************************************************)
EXTENDS Schema

CONSTANTS
  TableArtifacts,   \* the decoded artifacts that may be offered as tables
  Artifacts,        \* the decoded artifacts that may be sent
  Types, Versions,  \* what Lookup may be asked for
  KeySets           \* the keys an action may require

VARIABLES
  reg,       \* Registry.tables
  view,      \* the last artifact interpreted, under which table, and the result
  acted,     \* the keys that have passed the presence gate for this view
  running    \* FALSE once Add has panicked

vars == <<reg, view, acted, running>>

NoView == [read |-> Bad("nothing")]

Init ==
  /\ reg = DefaultRegistry
  /\ view = NoView
  /\ acted = {}
  /\ running = TRUE
-----------------------------------------------------------------------------
AddMut(t) ==
  /\ reg' = [k \in DOMAIN reg \cup {RegKey(t)} |-> IF k = RegKey(t) THEN t ELSE reg[k]]
  /\ UNCHANGED running

\* Registry.Add: one table for each type and version, or a panic.
Add(t) ==
  \/ /\ RegKey(t) \notin DOMAIN reg
     /\ reg' = [k \in DOMAIN reg \cup {RegKey(t)} |-> IF k = RegKey(t) THEN t ELSE reg[k]]
     /\ UNCHANGED running
  \/ /\ RegKey(t) \in DOMAIN reg
     /\ running' = FALSE
     /\ UNCHANGED reg

\* A table that ParseFieldTable refuses is not added.
Load(a) ==
  /\ running
  /\ LET parsed == ParseFieldTable(a, reg)
     IN  /\ parsed.err = "none"
         /\ Add(parsed.val)
  /\ UNCHANGED <<view, acted>>

\* Registry.Lookup and Interpret.
Read(typ, version, a) ==
  /\ running
  /\ <<typ, version>> \in DOMAIN reg
  /\ view' = [under |-> <<typ, version>>, of |-> a,
              read |-> Interpret(reg[<<typ, version>>], a, reg)]
  /\ acted' = {}
  /\ UNCHANGED <<reg, running>>

\* An action proceeds on the keys that Require has found.
Act(keys) ==
  /\ running
  /\ view.read.err = "none"
  /\ Require(view.read.val, keys) = "none"
  /\ acted' = acted \cup keys
  /\ UNCHANGED <<reg, view, running>>

\* The keys its table declares required are the default of an action.
ActByDefault ==
  /\ view.read.err = "none"
  /\ Act(RequiredKeys(view.read.val.table))

Next ==
  \/ \E a \in TableArtifacts : Load(a)
  \/ \E typ \in Types, version \in Versions, a \in Artifacts : Read(typ, version, a)
  \/ \E keys \in KeySets : Act(keys)
  \/ ActByDefault

Spec == Init /\ [][Next]_vars
-----------------------------------------------------------------------------
(***************************************************************************)
(* Properties.                                                             *)
(***************************************************************************)
\* A descriptor carries what its kind needs and nothing else.
SoundType(td) ==
  /\ td # <<>>
  /\ \A i \in DOMAIN td :
       LET kind == td[i].kind
       IN  /\ kind \in Kinds => (kind = KindArray <=> i < Len(td))
           /\ kind \in Kinds \ {KindRef} => td[i].ref = 0
           /\ kind \in Kinds \ {KindDecimal, KindRational} => td[i].unit = 0

\* The registry holds each table under its own name, a table names its fields
\* 0, 1, ..., n - 1, and every descriptor in it is complete: a table that was
\* loaded is as good as one that was compiled in.
TablesSound ==
  \A k \in DOMAIN reg :
    /\ RegKey(reg[k]) = k
    /\ reg[k].entries # <<>>
    /\ \A i \in DOMAIN reg[k].entries :
         /\ reg[k].entries[i].key = i - 1
         /\ SoundType(reg[k].entries[i].type)

\* The malformed-* reasons judge tables: no artifact interpreted under a held
\* table is ever blamed with one.
NeverMalformed ==
  \A k \in DOMAIN reg, a \in Artifacts :
    Interpret(reg[k], a, reg).err \notin
      {"malformed-type-descriptor", "malformed-field-table", "malformed-entry"}

\* A field that was interpreted answers to the accessor of its declared kind and
\* to no other, a field that is absent answers to none: the loader, and an actor
\* that drops the ok of an accessor once Has was true, lose nothing.
AccessorsAgree ==
  \A k \in DOMAIN reg, a \in Artifacts :
    LET in == Interpret(reg[k], a, reg)
    IN  in.err = "none" =>
          \A i \in DOMAIN reg[k].entries, kind \in Kinds :
            LET e == reg[k].entries[i]
            IN  Get(in.val, e.key, kind).err = "none"
                  <=> Has(in.val, e.key) /\ KindOf(e.type) = kind

\* An answer stays the answer whatever is loaded afterwards, except
\* "unresolved-ref": artifact-determined reasons do not depend on which other
\* tables a node holds, and the view a node acts on does not go stale.
AnswersStand ==
  view # NoView /\ view.read.err # "unresolved-ref" =>
    Interpret(reg[view.under], view.of, reg) = view.read

\* Loading is independent of what was loaded before: the verdict on a table
\* artifact, and the table it gives, are those of a node fresh from its floor.
LoadsAgree ==
  \A a \in TableArtifacts : ParseFieldTable(a, reg) = ParseFieldTable(a, DefaultRegistry)

\* What an action proceeds on was in the artifact, under that very key.
ActsOnWhatWasSent ==
  \A key \in acted : \E i \in DOMAIN view.of.entries : view.of.entries[i].key = [int |-> key]

\* "It rejects an unknown wire key": every wire key of an artifact that was
\* interpreted is a key of its table.
OnlyDeclaredKeys ==
  view.read.err = "none" =>
    \A i \in DOMAIN view.of.entries :
      \E j \in DOMAIN view.read.val.table.entries :
        view.of.entries[i].key = [int |-> view.read.val.table.entries[j].key]

\* The resolution family covers "a presence or unit code outside the version's
\* enum": a table that is held has presence codes a node can resolve.
PresenceResolved ==
  \A k \in DOMAIN reg : \A i \in DOMAIN reg[k].entries :
    reg[k].entries[i].presence \in {Optional, Required}
=============================================================================
