------------------------- MODULE DeltaReviewProofs -------------------------
(***************************************************************************)
(* Proofs about the comparison of two snapshots and the page that plays    *)
(* it, for any snapshots: what is drawn of a change is what its row        *)
(* expects, the comparison reads the same from both sides, and the page    *)
(* says whether it plays.                                                  *)
(***************************************************************************)
EXTENDS DeltaReview, FiniteSetTheorems, TLAPS

-----------------------------------------------------------------------------
(* The rows of a comparison.                                               *)

\* What a row c of the comparison of b with h says, and of what.
Kept(c, b, h) ==
  /\ c.id \in Ids(b[c.kind]) /\ c.id \in Ids(h[c.kind])
  /\ c.classes = Classifications(c.kind, Item(b[c.kind], c.id), Item(h[c.kind], c.id))
  /\ c.status = StatusFor(c.kind, c.classes) /\ c.status # "same"
Appeared(c, b, h) ==
  /\ c.id \notin Ids(b[c.kind]) /\ c.id \in Ids(h[c.kind])
  /\ c.classes = {Identity[c.kind]} /\ c.status = "added"
Vanished(c, b, h) ==
  /\ c.id \in Ids(b[c.kind]) /\ c.id \notin Ids(h[c.kind])
  /\ c.classes = {Identity[c.kind]} /\ c.status = "removed"

LEMMA RowsAre ==
  ASSUME NEW b, NEW h, NEW c
  PROVE  c \in Changes(b, h) <=>
           /\ c = Change(c.kind, c.id, c.status, c.classes) /\ c.kind \in Kinds
           /\ Kept(c, b, h) \/ Appeared(c, b, h) \/ Vanished(c, b, h)
<1>1. c \in Changes(b, h) <=> \E k \in Kinds : c \in CompareEntities(k, b[k], h[k])
  BY DEF Changes
<1>2. ASSUME NEW k \in Kinds
      PROVE  c \in CompareEntities(k, b[k], h[k]) <=>
               /\ c = Change(k, c.id, c.status, c.classes)
               /\ Kept(c, b, h) \/ Appeared(c, b, h) \/ Vanished(c, b, h)
  BY DEF CompareEntities, Change, Kept, Appeared, Vanished
<1> QED BY <1>1, <1>2 DEF Change

\* No two rows are about the same thing.
LEMMA RowsDiffer ==
  ASSUME NEW b, NEW h, NEW c \in Changes(b, h), NEW d \in Changes(b, h),
         c.kind = d.kind, c.id = d.id
  PROVE  c = d
<1>1. /\ Kept(c, b, h) \/ Appeared(c, b, h) \/ Vanished(c, b, h)
      /\ Kept(d, b, h) \/ Appeared(d, b, h) \/ Vanished(d, b, h)
      /\ c = Change(c.kind, c.id, c.status, c.classes)
      /\ d = Change(d.kind, d.id, d.status, d.classes)
  BY RowsAre
<1>2. c.classes = d.classes /\ c.status = d.status
  <2> DEFINE before == c.id \in Ids(b[c.kind])
             after  == c.id \in Ids(h[c.kind])
  <2>1. CASE before /\ after
    BY <1>1, <2>1 DEF Kept, Appeared, Vanished
  <2>2. CASE ~before
    BY <1>1, <2>2 DEF Kept, Appeared, Vanished
  <2>3. CASE ~after
    BY <1>1, <2>3 DEF Kept, Appeared, Vanished
  <2> QED BY <2>1, <2>2, <2>3
<1> QED BY <1>1, <1>2

LEMMA Statuses ==
  ASSUME NEW k \in Kinds, NEW classes
  PROVE  StatusFor(k, classes) \notin {"added", "removed", "moved-from"}
BY DEF StatusFor, Kinds

-----------------------------------------------------------------------------
(* Compared the other way round.                                           *)

LEMMA ClassesMirror ==
  ASSUME NEW k, NEW x, NEW y
  PROVE  Classifications(k, x, y) = Classifications(k, y, x)
BY DEF Classifications

LEMMA RowMirrors ==
  ASSUME NEW b, NEW h, NEW c \in Changes(b, h)
  PROVE  Mirrored(c) \in Changes(h, b) /\ Mirrored(Mirrored(c)) = c
<1>1. c = Change(c.kind, c.id, c.status, c.classes) /\ c.kind \in Kinds
  BY RowsAre
<1>2. CASE Kept(c, b, h)
  <2>1. c.status \notin {"added", "removed"}
    BY <1>1, <1>2, Statuses DEF Kept
  <2>2. Mirrored(c) = c
    BY <1>1, <2>1 DEF Mirrored, Change
  <2>3. Kept(c, h, b)
    BY <1>2, ClassesMirror DEF Kept
  <2> QED BY <1>1, <2>2, <2>3, RowsAre
<1>3. CASE Appeared(c, b, h)
  <2>1. Mirrored(c) = Change(c.kind, c.id, "removed", c.classes)
    BY <1>1, <1>3 DEF Mirrored, Appeared, Change
  <2>2. Vanished(Mirrored(c), h, b) /\ Mirrored(Mirrored(c)) = c
    BY <1>1, <1>3, <2>1 DEF Appeared, Vanished, Mirrored, Change
  <2> QED BY <1>1, <2>1, <2>2, RowsAre DEF Change
<1>4. CASE Vanished(c, b, h)
  <2>1. Mirrored(c) = Change(c.kind, c.id, "added", c.classes)
    BY <1>1, <1>4 DEF Mirrored, Vanished, Change
  <2>2. Appeared(Mirrored(c), h, b) /\ Mirrored(Mirrored(c)) = c
    BY <1>1, <1>4, <2>1 DEF Appeared, Vanished, Mirrored, Change
  <2> QED BY <1>1, <2>1, <2>2, RowsAre DEF Change
<1> QED BY <1>2, <1>3, <1>4, RowsAre

LEMMA Mirrors == ReversedMirrors
<1>1. ASSUME NEW b, NEW h
      PROVE  {Mirrored(c) : c \in Changes(b, h)} \subseteq Changes(h, b)
  BY RowMirrors
<1>2. Changes(head, base) \subseteq {Mirrored(c) : c \in Changes(base, head)}
  BY RowMirrors
<1>3. /\ PresentationChanged(head, base) <=> PresentationChanged(base, head)
      /\ ProvenanceChanged(head, base) <=> ProvenanceChanged(base, head)
  BY DEF PresentationChanged, ProvenanceChanged
<1> QED BY <1>1, <1>2, <1>3 DEF ReversedMirrors

-----------------------------------------------------------------------------
(* What is drawn of a row.                                                 *)

Elements(c, b, h) ==
  OfHead(c, h) \cup Phantoms(c, b) \cup (IF c.kind = "connection" THEN Symbols(c, b) ELSE {})

LEMMA ElementsAreOfTheRow ==
  ASSUME NEW b, NEW h, NEW c, c.kind \in Kinds, NEW m \in Elements(c, b, h)
  PROVE  m = [tag |-> m.tag, kind |-> c.kind, id |-> c.id, state |-> m.state,
              classes |-> m.classes, from |-> m.from]
<1>1. ASSUME NEW item, NEW s, NEW f, m \in Drawn(c, item, s, f)
      PROVE  m = [tag |-> m.tag, kind |-> c.kind, id |-> c.id, state |-> m.state,
                  classes |-> m.classes, from |-> m.from]
  BY <1>1 DEF Drawn, Mark, Kinds
<1>2. CASE m \in OfHead(c, h)
  BY <1>1, <1>2 DEF OfHead
<1>3. CASE m \in Phantoms(c, b)
  BY <1>1, <1>3 DEF Phantoms
<1>4. CASE m \in Symbols(c, b)
  BY <1>4 DEF Symbols, Mark
<1> QED BY <1>2, <1>3, <1>4 DEF Elements

LEMMA TargetsAre ==
  ASSUME NEW b, NEW h, NEW c \in Changes(b, h)
  PROVE  {m \in DeltaSvg(b, h) : m.kind = c.kind /\ m.id = c.id} = Elements(c, b, h)
<1>1. DeltaSvg(b, h) = UNION {Elements(d, b, h) : d \in Changes(b, h)}
  BY DEF DeltaSvg, Elements
<1>2. ASSUME NEW d \in Changes(b, h), NEW m \in Elements(d, b, h)
      PROVE  m.kind = d.kind /\ m.id = d.id
  BY ElementsAreOfTheRow, RowsAre
<1>3. ASSUME NEW d \in Changes(b, h), NEW m \in Elements(d, b, h), m.kind = c.kind, m.id = c.id
      PROVE  d = c
  BY <1>2, <1>3, RowsDiffer
<1> QED BY <1>1, <1>2, <1>3

Sight(tag, state, classes) == <<tag, state, classes>>
Look(m) == Sight(m.tag, m.state, m.classes)
Looks(T) == {Look(m) : m \in T}
Distinct(T) == \A m, n \in T : Look(m) = Look(n) => m = n

LEMMA EachOnce ==
  ASSUME NEW T, Distinct(T)
  PROVE  [s \in Looks(T) |-> Cardinality({m \in T : Look(m) = s})] = [s \in Looks(T) |-> 1]
<1>1. ASSUME NEW s \in Looks(T)
      PROVE  Cardinality({m \in T : Look(m) = s}) = 1
  <2>1. PICK m \in T : Look(m) = s
    BY DEF Looks
  <2>2. {n \in T : Look(n) = s} = {m}
    BY <2>1 DEF Distinct
  <2> QED BY <2>2, FS_Singleton
<1> QED BY <1>1

LEMMA SignatureIs ==
  ASSUME NEW b, NEW h, NEW c \in Changes(b, h), Distinct(Elements(c, b, h))
  PROVE  Signature(DeltaSvg(b, h), c) = [s \in Looks(Elements(c, b, h)) |-> 1]
BY TargetsAre, EachOnce DEF Signature, Sight, Look, Looks

LEMMA SightsDiffer ==
  ASSUME NEW t, NEW s, NEW k, NEW u, NEW v, NEW l, Sight(t, s, k) = Sight(u, v, l)
  PROVE  t = u /\ s = v /\ k = l
BY DEF Sight

-----------------------------------------------------------------------------
(* A component, a boundary and a relationship show what their row expects. *)

LEMMA OneLook ==
  ASSUME NEW m, NEW sight, Look(m) = sight
  PROVE  Distinct({m}) /\ Looks({m}) = {sight}
BY DEF Distinct, Looks

LEMMA LookOf ==
  ASSUME NEW tag, NEW c, NEW state, NEW classes, NEW from
  PROVE  Look(Mark(tag, c, state, classes, from)) = Sight(tag, state, classes)
BY DEF Look, Mark

LEMMA MoreLooks ==
  ASSUME NEW S, NEW T, Distinct(S), Distinct(T), Looks(S) \cap Looks(T) = {}
  PROVE  Distinct(S \cup T) /\ Looks(S \cup T) = Looks(S) \cup Looks(T)
<1>1. \A m \in S : Look(m) \in Looks(S)
  BY DEF Looks
<1>2. \A m \in T : Look(m) \in Looks(T)
  BY DEF Looks
<1>3. \A m \in S, n \in T : Look(m) # Look(n)
  BY <1>1, <1>2
<1>4. Looks(S \cup T) = Looks(S) \cup Looks(T)
  BY DEF Looks
<1> QED BY <1>3, <1>4 DEF Distinct

LEMMA ComponentShown ==
  ASSUME NEW b, NEW h, NEW c \in Changes(b, h), c.kind = "component"
  PROVE  /\ Distinct(Elements(c, b, h))
         /\ ExpectedSignature(c, b, h) = [s \in Looks(Elements(c, b, h)) |-> 1]
         /\ Looks(Elements(c, b, h)) # {}
<1> DEFINE E == Elements(c, b, h)
           now  == Mark("g", c, c.status, c.classes, "head")
           then == Mark("g", c, "moved-from", c.classes, "base")
           gone == Mark("g", c, "removed", c.classes, "base")
<1>1. \A item, s, f : Drawn(c, item, s, f) = {Mark("g", c, s, c.classes, f)}
  BY DEF Drawn
<1>2. OfHead(c, h) = IF c.status = "removed" THEN {} ELSE {now}
  BY <1>1 DEF OfHead
<1>3. Phantoms(c, b) = IF c.id \notin Ids(b[c.kind]) THEN {}
                       ELSE {Mark("g", c, s, c.classes, "base") : s \in PhantomState(c)}
  <2> DEFINE item == Item(b[c.kind], c.id)
  <2>1. \A s : Drawn(c, item, s, "base") = {Mark("g", c, s, c.classes, "base")}
    BY <1>1
  <2>2. Phantoms(c, b) = IF c.id \notin Ids(b[c.kind]) THEN {}
                         ELSE UNION {Drawn(c, item, s, "base") : s \in PhantomState(c)}
    BY DEF Phantoms
  <2> HIDE DEF item
  <2>3. UNION {Drawn(c, item, s, "base") : s \in PhantomState(c)}
        = {Mark("g", c, s, c.classes, "base") : s \in PhantomState(c)}
    BY <2>1
  <2> QED BY <2>2, <2>3
<1>4. ExpectedSignature(c, b, h) = [s \in {Sight("g", s, c.classes) : s \in PrimaryStates(c)} |-> 1]
  BY DEF ExpectedSignature, Sight
<1>5. E = OfHead(c, h) \cup Phantoms(c, b)
  BY DEF Elements
<1>6. CASE Vanished(c, b, h)
  <2>1. PhantomState(c) = {"removed"} /\ PrimaryStates(c) = {"removed"}
    BY <1>6 DEF PhantomState, PrimaryStates, Vanished, Identity
  <2>2. E = {gone}
    BY <1>2, <1>3, <1>5, <1>6, <2>1 DEF Vanished
  <2> QED BY <1>4, <2>1, <2>2, OneLook, LookOf, SMTT(30)
<1>7. CASE ~Vanished(c, b, h) /\ (c.id \notin Ids(b[c.kind]) \/ "geometry" \notin c.classes)
  <2>1. c.status # "removed" /\ "geometry" \notin c.classes
    BY <1>7, RowsAre, Statuses DEF Kept, Appeared, Vanished, Identity
  <2>2. PrimaryStates(c) = {c.status} /\ PhantomState(c) = {}
    BY <2>1 DEF PrimaryStates, PhantomState
  <2>3. E = {now}
    BY <1>2, <1>3, <1>5, <2>1, <2>2
  <2> QED BY <1>4, <2>2, <2>3, OneLook, LookOf
<1>8. CASE ~Vanished(c, b, h) /\ c.id \in Ids(b[c.kind]) /\ "geometry" \in c.classes
  <2>1. c.status \notin {"removed", "moved-from"}
    BY <1>8, RowsAre, Statuses DEF Kept, Appeared, Vanished
  <2>2. PrimaryStates(c) = {c.status, "moved-from"} /\ PhantomState(c) = {"moved-from"}
    BY <1>8, <2>1 DEF PrimaryStates, PhantomState
  <2> DEFINE P == {Mark("g", c, c.status, c.classes, "head")}
             Q == {Mark("g", c, "moved-from", c.classes, "base")}
  <2>3. E = P \cup Q
    BY <1>2, <1>3, <1>5, <1>8, <2>1, <2>2
  <2>4. Distinct(P) /\ Looks(P) = {Sight("g", c.status, c.classes)}
    <3>1. Look(Mark("g", c, c.status, c.classes, "head")) = Sight("g", c.status, c.classes)
      BY LookOf
    <3> QED BY <3>1, OneLook
  <2>5. Distinct(Q) /\ Looks(Q) = {Sight("g", "moved-from", c.classes)}
    BY OneLook, LookOf
  <2>6. Sight("g", c.status, c.classes) # Sight("g", "moved-from", c.classes)
    BY <2>1, SightsDiffer
  <2> HIDE DEF P, Q
  <2>7. Distinct(E) /\ Looks(E) = Looks(P) \cup Looks(Q)
    BY <2>3, <2>4, <2>5, <2>6, MoreLooks
  <2> QED BY <1>4, <2>2, <2>4, <2>5, <2>7
<1> QED BY <1>6, <1>7, <1>8

LEMMA BoundaryShown ==
  ASSUME NEW b, NEW h, NEW c \in Changes(b, h), c.kind = "boundary"
  PROVE  /\ Distinct(Elements(c, b, h))
         /\ ExpectedSignature(c, b, h) = [s \in Looks(Elements(c, b, h)) |-> 1]
         /\ Looks(Elements(c, b, h)) # {}
<1> DEFINE E == Elements(c, b, h)
           Both(s, f) == {Mark("rect", c, s, c.classes, f), Mark("text", c, s, {}, f)}
           Seen(s) == {Sight("rect", s, c.classes), Sight("text", s, {})}
<1>0. \A s, f : Distinct(Both(s, f)) /\ Looks(Both(s, f)) = Seen(s)
  <2> TAKE s, f
  <2> DEFINE P == {Mark("rect", c, s, c.classes, f)}
             Q == {Mark("text", c, s, {}, f)}
  <2>1. Distinct(P) /\ Looks(P) = {Sight("rect", s, c.classes)}
    BY OneLook, LookOf
  <2>2. Distinct(Q) /\ Looks(Q) = {Sight("text", s, {})}
    BY OneLook, LookOf
  <2>3. Both(s, f) = P \cup Q
    OBVIOUS
  <2>4. Sight("rect", s, c.classes) # Sight("text", s, {})
    BY SightsDiffer
  <2> HIDE DEF P, Q, Both
  <2> QED BY <2>1, <2>2, <2>3, <2>4, MoreLooks
<1>1. \A item, s, f : Drawn(c, item, s, f) = Both(s, f)
  BY DEF Drawn
<1>2. OfHead(c, h) = IF c.status = "removed" THEN {} ELSE Both(c.status, "head")
  BY <1>1 DEF OfHead
<1>3. Phantoms(c, b) = IF c.id \notin Ids(b[c.kind]) THEN {}
                       ELSE UNION {Both(s, "base") : s \in PhantomState(c)}
  <2> DEFINE item == Item(b[c.kind], c.id)
  <2>1. \A s : Drawn(c, item, s, "base") = Both(s, "base")
    BY <1>1
  <2>2. Phantoms(c, b) = IF c.id \notin Ids(b[c.kind]) THEN {}
                         ELSE UNION {Drawn(c, item, s, "base") : s \in PhantomState(c)}
    BY DEF Phantoms
  <2> HIDE DEF item, Both
  <2> QED BY <2>1, <2>2
<1>4. ExpectedSignature(c, b, h) = [s \in UNION {Seen(s) : s \in PrimaryStates(c)} |-> 1]
  BY DEF ExpectedSignature, Sight
<1>5. E = OfHead(c, h) \cup Phantoms(c, b)
  BY DEF Elements
<1>6. ASSUME NEW s, NEW f, E = Both(s, f)
      PROVE  Distinct(E) /\ Looks(E) = Seen(s)
  BY <1>6, <1>0
<1>7. CASE Vanished(c, b, h)
  <2>1. PhantomState(c) = {"removed"} /\ PrimaryStates(c) = {"removed"}
    BY <1>7 DEF PhantomState, PrimaryStates, Vanished, Identity
  <2>2. E = Both("removed", "base")
    <3> HIDE DEF Both
    <3> QED BY <1>2, <1>3, <1>5, <1>7, <2>1 DEF Vanished
  <2> QED BY <1>4, <1>6, <2>1, <2>2
<1>8. CASE Appeared(c, b, h)
  <2>1. PrimaryStates(c) = {"added"}
    BY <1>8 DEF PrimaryStates, Appeared, Identity
  <2>2. E = Both("added", "head")
    <3> HIDE DEF Both
    <3> QED BY <1>2, <1>3, <1>5, <1>8 DEF Appeared
  <2> QED BY <1>4, <1>6, <2>1, <2>2
<1>9. CASE Kept(c, b, h)
  <2>1. c.status \in {"changed", "geometry-changed"}
    <3>1. "evidence" \notin c.classes
      BY <1>9 DEF Kept, Classifications, Groups
    <3> QED BY <1>9, <3>1 DEF Kept, StatusFor
  <2>2. PrimaryStates(c) = {c.status, "moved-from"} /\ PhantomState(c) = {"moved-from"}
    BY <2>1 DEF PrimaryStates, PhantomState
  <2>3. E = Both(c.status, "head") \cup Both("moved-from", "base")
    <3> HIDE DEF Both
    <3> QED BY <1>2, <1>3, <1>5, <1>9, <2>1, <2>2 DEF Kept
  <2>4. Seen(c.status) \cap Seen("moved-from") = {}
    BY <2>1, SightsDiffer
  <2> HIDE DEF Both, Seen
  <2>5. Distinct(E) /\ Looks(E) = Seen(c.status) \cup Seen("moved-from")
    BY <1>0, <2>3, <2>4, MoreLooks
  <2> QED BY <1>4, <2>2, <2>5 DEF Seen
<1> QED BY <1>7, <1>8, <1>9, RowsAre

\* One form of a relationship: how it is drawn, and how it is seen.
DrawnForm(c, item, state, from, marker, by) ==
  Drawn(c, item, state, from) \cup {Mark("text", c, marker, {}, by)}
Label(f, c) == IF f.label = NoLabel THEN {} ELSE {Sight("g", f.state, c.classes)}
SeenForm(f, c) ==
  {Sight("path", f.state, c.classes), Sight("text", f.marker, {})} \cup Label(f, c)

LEMMA FormShown ==
  ASSUME NEW c, c.kind = "connection", NEW item, NEW state, NEW from, NEW marker, NEW by
  PROVE  /\ Distinct(DrawnForm(c, item, state, from, marker, by))
         /\ Looks(DrawnForm(c, item, state, from, marker, by))
              = SeenForm(Form(state, marker, item.label), c)
<1> DEFINE P == {Mark("path", c, state, c.classes, from)}
           Q == {Mark("text", c, marker, {}, by)}
           R == {Mark("g", c, state, c.classes, from)}
           f == Form(state, marker, item.label)
           D == DrawnForm(c, item, state, from, marker, by)
<1>1. Distinct(P) /\ Looks(P) = {Sight("path", state, c.classes)}
  BY OneLook, LookOf
<1>2. Distinct(Q) /\ Looks(Q) = {Sight("text", marker, {})}
  BY OneLook, LookOf
<1>3. Distinct(R) /\ Looks(R) = {Sight("g", state, c.classes)}
  BY OneLook, LookOf
<1>4. D = P \cup (IF item.label = NoLabel THEN {} ELSE R) \cup Q
  BY DEF DrawnForm, Drawn
<1>5. f.state = state /\ f.marker = marker /\ f.label = item.label
  BY DEF Form
<1>6. SeenForm(f, c) = {Sight("path", state, c.classes), Sight("text", marker, {})}
                         \cup (IF item.label = NoLabel THEN {} ELSE Looks(R))
  <2> HIDE DEF f, R
  <2> QED BY <1>3, <1>5 DEF SeenForm, Label
<1>7. /\ Sight("path", state, c.classes) # Sight("text", marker, {})
      /\ Sight("g", state, c.classes) # Sight("text", marker, {})
      /\ Sight("path", state, c.classes) # Sight("g", state, c.classes)
  BY SightsDiffer
<1> HIDE DEF P, Q, R, f, D
<1>8. Distinct(P \cup Q) /\ Looks(P \cup Q) = Looks(P) \cup Looks(Q)
  BY <1>1, <1>2, <1>7, MoreLooks
<1>9. CASE item.label = NoLabel
  <2>1. D = P \cup Q
    BY <1>4, <1>9
  <2>2. Looks(P) \cup Looks(Q) = SeenForm(f, c)
    BY <1>1, <1>2, <1>6, <1>9
  <2> QED BY <1>8, <2>1, <2>2 DEF D, f
<1>10. CASE item.label # NoLabel
  <2>1. D = (P \cup Q) \cup R
    BY <1>4, <1>10
  <2>2. Looks(P \cup Q) \cap Looks(R) = {}
    BY <1>1, <1>2, <1>3, <1>7, <1>8
  <2>3. Distinct(D) /\ Looks(D) = Looks(P \cup Q) \cup Looks(R)
    BY <1>3, <1>8, <2>1, <2>2, MoreLooks
  <2>4. Looks(P \cup Q) \cup Looks(R) = SeenForm(f, c)
    BY <1>1, <1>2, <1>6, <1>8, <1>10
  <2> QED BY <2>3, <2>4 DEF D, f
<1> QED BY <1>9, <1>10

LEMMA FormsDiffer ==
  ASSUME NEW c, NEW f, NEW g, f.state # g.state, f.marker # g.marker
  PROVE  SeenForm(f, c) \cap SeenForm(g, c) = {}
<1>1. /\ Sight("path", f.state, c.classes) # Sight("path", g.state, c.classes)
      /\ Sight("g", f.state, c.classes) # Sight("g", g.state, c.classes)
      /\ Sight("text", f.marker, {}) # Sight("text", g.marker, {})
  BY SightsDiffer
<1>2. \A p, q, r, s : /\ Sight("path", p, r) # Sight("text", q, s)
                      /\ Sight("path", p, r) # Sight("g", q, s)
                      /\ Sight("text", p, r) # Sight("g", q, s)
  BY SightsDiffer
<1> QED BY <1>1, <1>2 DEF SeenForm, Label

LEMMA RelationshipShown ==
  ASSUME NEW b, NEW h, NEW c \in Changes(b, h), c.kind = "connection"
  PROVE  /\ Distinct(Elements(c, b, h))
         /\ ExpectedSignature(c, b, h) = [s \in Looks(Elements(c, b, h)) |-> 1]
         /\ Looks(Elements(c, b, h)) # {}
<1> DEFINE E == Elements(c, b, h)
           was == Item(b.connection, c.id)
           is  == Item(h.connection, c.id)
           Seen == UNION {SeenForm(f, c) : f \in RelationshipForms(c, b, h)}
<1>1. ExpectedSignature(c, b, h) = [s \in Seen |-> 1]
  BY DEF ExpectedSignature, SeenForm, Label, Sight
<1>2. E = OfHead(c, h) \cup Phantoms(c, b) \cup Symbols(c, b)
  BY DEF Elements
<1>3. OfHead(c, h) = IF c.status = "removed" THEN {} ELSE Drawn(c, is, c.status, "head")
  BY DEF OfHead
<1>4. Phantoms(c, b) = IF c.id \notin Ids(b.connection) THEN {}
                       ELSE UNION {Drawn(c, was, s, "base") : s \in PhantomState(c)}
  BY DEF Phantoms
<1>5. b[c.kind] = b.connection /\ h[c.kind] = h.connection
  OBVIOUS
<1>6. ASSUME NEW state, NEW from, NEW marker, NEW by, NEW item, NEW f,
             f = Form(state, marker, item.label),
             E = DrawnForm(c, item, state, from, marker, by),
             RelationshipForms(c, b, h) = {f}
      PROVE  Distinct(E) /\ Looks(E) = Seen /\ Looks(E) # {}
  <2>1. Distinct(E) /\ Looks(E) = SeenForm(f, c)
    BY <1>6, FormShown
  <2>2. Sight("path", f.state, c.classes) \in SeenForm(f, c)
    BY DEF SeenForm
  <2> QED BY <1>6, <2>1, <2>2
<1>7. ASSUME NEW state, NEW marker, NEW by, NEW past, NEW mark, NEW f, NEW g,
             f = Form(state, marker, is.label), g = Form(past, mark, was.label),
             state # past, marker # mark,
             E = DrawnForm(c, is, state, "head", marker, by)
                   \cup DrawnForm(c, was, past, "base", mark, "base"),
             RelationshipForms(c, b, h) = {g, f}
      PROVE  Distinct(E) /\ Looks(E) = Seen /\ Looks(E) # {}
  <2> DEFINE P == DrawnForm(c, is, state, "head", marker, by)
             Q == DrawnForm(c, was, past, "base", mark, "base")
  <2>1. Distinct(P) /\ Looks(P) = SeenForm(f, c)
    BY <1>7, FormShown
  <2>2. Distinct(Q) /\ Looks(Q) = SeenForm(g, c)
    BY <1>7, FormShown
  <2>3. SeenForm(f, c) \cap SeenForm(g, c) = {}
    <3>1. f.state = state /\ g.state = past /\ f.marker = marker /\ g.marker = mark
      BY <1>7 DEF Form
    <3> QED BY <1>7, <3>1, FormsDiffer
  <2>4. E = P \cup Q
    BY <1>7
  <2> HIDE DEF P, Q
  <2>5. Distinct(E) /\ Looks(E) = SeenForm(f, c) \cup SeenForm(g, c)
    BY <2>1, <2>2, <2>3, <2>4, MoreLooks
  <2>6. Sight("path", f.state, c.classes) \in SeenForm(f, c)
    BY DEF SeenForm
  <2> QED BY <1>7, <2>5, <2>6
<1>8. CASE Vanished(c, b, h)
  <2>1. PhantomState(c) = {"removed"} /\ c.status = "removed" /\ c.id \in Ids(b.connection)
    BY <1>5, <1>8 DEF PhantomState, Vanished
  <2>2. Symbols(c, b) = {Mark("text", c, "removed", {}, "base")}
    BY <2>1 DEF Symbols
  <2>3. E = DrawnForm(c, was, "removed", "base", "removed", "base")
    BY <1>2, <1>3, <1>4, <2>1, <2>2 DEF DrawnForm
  <2>4. RelationshipForms(c, b, h) = {Form("removed", "removed", was.label)}
    BY <2>1 DEF RelationshipForms
  <2> HIDE DEF was
  <2> QED BY <1>1, <1>6, <2>3, <2>4
<1>9. CASE Appeared(c, b, h)
  <2>1. c.status = "added" /\ c.id \notin Ids(b.connection)
    BY <1>5, <1>9 DEF Appeared
  <2>2. Symbols(c, b) = {Mark("text", c, "added", {}, "head")}
    BY <2>1 DEF Symbols
  <2>3. E = DrawnForm(c, is, "added", "head", "added", "head")
    BY <1>2, <1>3, <1>4, <2>1, <2>2 DEF DrawnForm
  <2>4. RelationshipForms(c, b, h) = {Form("added", "added", is.label)}
    BY <2>1 DEF RelationshipForms
  <2> HIDE DEF is
  <2> QED BY <1>1, <1>6, <2>3, <2>4
<1>10. CASE Kept(c, b, h) /\ "topology" \in c.classes
  <2>1. c.status = "changed" /\ PhantomState(c) = {"removed"} /\ c.id \in Ids(b.connection)
    BY <1>5, <1>10 DEF Kept, StatusFor, PhantomState
  <2>2. Symbols(c, b) = {Mark("text", c, "removed", {}, "base"), Mark("text", c, "added", {}, "base")}
    BY <1>10, <2>1 DEF Symbols
  <2>3. E = DrawnForm(c, is, "changed", "head", "added", "base")
              \cup DrawnForm(c, was, "removed", "base", "removed", "base")
    BY <1>2, <1>3, <1>4, <2>1, <2>2 DEF DrawnForm
  <2>4. RelationshipForms(c, b, h)
        = {Form("removed", "removed", was.label), Form("changed", "added", is.label)}
    BY <1>10, <2>1 DEF RelationshipForms
  <2> HIDE DEF was, is
  <2> QED BY <1>1, <1>7, <2>3, <2>4
<1>11. CASE Kept(c, b, h) /\ "topology" \notin c.classes /\ "geometry" \in c.classes
  <2>1. c.status \in {"changed", "rerouted"}
    <3>1. "evidence" \notin c.classes
      BY <1>11 DEF Kept, Classifications, Groups
    <3> QED BY <1>11, <3>1 DEF Kept, StatusFor
  <2>2. PhantomState(c) = {"moved-from"} /\ c.id \in Ids(b.connection)
    BY <1>5, <1>11, <2>1 DEF Kept, PhantomState
  <2>3. Symbols(c, b) = {Mark("text", c, "moved-from", {}, "base"), Mark("text", c, c.status, {}, "base")}
    BY <1>11, <2>1, <2>2 DEF Symbols
  <2>4. E = DrawnForm(c, is, c.status, "head", c.status, "base")
              \cup DrawnForm(c, was, "moved-from", "base", "moved-from", "base")
    BY <1>2, <1>3, <1>4, <2>1, <2>2, <2>3 DEF DrawnForm
  <2>5. RelationshipForms(c, b, h)
        = {Form("moved-from", "moved-from", was.label), Form(c.status, c.status, is.label)}
    BY <1>11, <2>1 DEF RelationshipForms
  <2> HIDE DEF was, is
  <2> QED BY <1>1, <1>7, <2>1, <2>4, <2>5
<1>12. CASE Kept(c, b, h) /\ "topology" \notin c.classes /\ "geometry" \notin c.classes
  <2>1. c.status = "changed"
    <3>1. "evidence" \notin c.classes
      BY <1>12 DEF Kept, Classifications, Groups
    <3> QED BY <1>12, <3>1 DEF Kept, StatusFor
  <2>2. PhantomState(c) = {}
    BY <1>12, <2>1 DEF PhantomState
  <2>3. Symbols(c, b) = {Mark("text", c, "changed", {}, "head")}
    BY <1>12, <2>1, <2>2 DEF Symbols
  <2>4. E = DrawnForm(c, is, "changed", "head", "changed", "head")
    BY <1>2, <1>3, <1>4, <2>1, <2>2, <2>3 DEF DrawnForm
  <2>5. RelationshipForms(c, b, h) = {Form("changed", "changed", is.label)}
    BY <1>12, <2>1 DEF RelationshipForms
  <2> HIDE DEF is
  <2> QED BY <1>1, <1>6, <2>4, <2>5
<1> QED BY <1>8, <1>9, <1>10, <1>11, <1>12, RowsAre

(* DrawingValidates, of the drawing of any comparison.                     *)
LEMMA DrawingIsExpected ==
  ASSUME NEW b, NEW h
  PROVE  Validates(DeltaSvg(b, h), b, h)
<1> SUFFICES ASSUME NEW c \in Changes(b, h)
             PROVE  /\ Signature(DeltaSvg(b, h), c) # <<>>
                    /\ Signature(DeltaSvg(b, h), c) = ExpectedSignature(c, b, h)
  BY DEF Validates
<1>1. /\ Distinct(Elements(c, b, h))
      /\ ExpectedSignature(c, b, h) = [s \in Looks(Elements(c, b, h)) |-> 1]
      /\ Looks(Elements(c, b, h)) # {}
  BY ComponentShown, BoundaryShown, RelationshipShown, RowsAre DEF Kinds
<1>2. Signature(DeltaSvg(b, h), c) = [s \in Looks(Elements(c, b, h)) |-> 1]
  BY <1>1, SignatureIs
<1>3. DOMAIN Signature(DeltaSvg(b, h), c) # {}
  BY <1>1, <1>2
<1>4. DOMAIN <<>> = {}
  OBVIOUS
<1> QED BY <1>1, <1>2, <1>3, <1>4

-----------------------------------------------------------------------------
(* There are finitely many rows.                                           *)

LEMMA IdsAreFinite ==
  ASSUME NEW items, IsFiniteSet(DOMAIN items)
  PROVE  IsFiniteSet(Ids(items))
<1> DEFINE ids == [i \in DOMAIN items |-> items[i].id]
<1>1. ids \in Surjection(DOMAIN items, Ids(items))
  BY DEF Surjection, Ids
<1> HIDE DEF ids
<1> QED BY <1>1, FS_Surjection

LEMMA RowsAreFinite ==
  ASSUME NEW b, NEW h,
         \A k \in Kinds : IsFiniteSet(DOMAIN b[k]) /\ IsFiniteSet(DOMAIN h[k])
  PROVE  IsFiniteSet(Changes(b, h))
<1> DEFINE Of(k) == {c \in Changes(b, h) : c.kind = k}
<1>1. ASSUME NEW k \in Kinds
      PROVE  IsFiniteSet(Of(k))
  <2> DEFINE ids == Ids(b[k]) \cup Ids(h[k])
             idOf == [c \in Of(k) |-> c.id]
  <2>1. IsFiniteSet(ids)
    <3>1. IsFiniteSet(Ids(b[k])) /\ IsFiniteSet(Ids(h[k]))
      BY IdsAreFinite
    <3> QED BY <3>1, FS_Union
  <2>2. \A c \in Of(k) : c.id \in ids
    BY RowsAre DEF Kept, Appeared, Vanished
  <2>3. \A c, d \in Of(k) : c.id = d.id => c = d
    BY RowsDiffer
  <2>4. idOf \in Injection(Of(k), ids)
    <3> HIDE DEF Of, ids
    <3> QED BY <2>2, <2>3 DEF Injection, IsInjective
  <2> HIDE DEF ids, idOf, Of
  <2> QED BY <2>1, <2>4, FS_Injection
<1>2. Changes(b, h) = Of("component") \cup Of("connection") \cup Of("boundary")
  BY RowsAre DEF Kinds
<1>3. IsFiniteSet(Of("component")) /\ IsFiniteSet(Of("connection")) /\ IsFiniteSet(Of("boundary"))
  BY <1>1 DEF Kinds
<1> HIDE DEF Of
<1>4. IsFiniteSet(Of("component") \cup Of("connection"))
  BY <1>3, FS_Union
<1> QED BY <1>2, <1>3, <1>4, FS_Union

-----------------------------------------------------------------------------
(* The page.                                                               *)

\* The states of the script of a page with n rows.
Pages(n) ==
  [available : {TRUE}, active : 0..n, playing : BOOLEAN, token : Nat, timer : SUBSET Nat,
   word : {"Review", "Replay", "Pause"}, live : {"polite", "off"},
   tab : {"base", "delta", "head"}, quiet : BOOLEAN, focus : {"page", "play", "row", "step", "tab"}]

\* What the page r says fits what it does: PlayingIsShown, of any page.
Plays(r) ==
  /\ r.playing /\ r.word = "Pause" /\ r.live = "off" /\ r.tab = "delta"
  /\ r.timer = {r.token} /\ r.active \in 1..Rows - 1
Rests(r) ==
  /\ ~r.playing /\ r.word # "Pause" /\ r.live = "polite" /\ r.timer = {}
Sound(r) == r \in Pages(Rows) /\ (Plays(r) \/ Rests(r))

ReviewInv ==
  /\ \E p \in Pairs : base = p.base /\ head = p.head
  /\ svg = DeltaSvg(base, head)
  /\ Sound(review)

LEMMA ManyRows ==
  ASSUME \E p \in Pairs : base = p.base /\ head = p.head
  PROVE  Rows \in Nat
<1>1. \A k \in Kinds : IsFiniteSet(DOMAIN base[k]) /\ IsFiniteSet(DOMAIN head[k])
  BY ReviewAssumption
<1>2. IsFiniteSet(Changes(base, head))
  BY <1>1, RowsAreFinite
<1> QED BY <1>2, FS_CardinalityType DEF Rows

\* Whatever was under way, StopPlayback leaves a page that rests.
LEMMA StopRests ==
  ASSUME Rows \in Nat, NEW r \in Pages(Rows)
  PROVE  /\ StopPlayback(r) \in Pages(Rows) /\ Rests(StopPlayback(r))
         /\ StopPlayback(r).active = r.active /\ StopPlayback(r).tab = r.tab
         /\ StopPlayback(r).token = r.token + 1 /\ StopPlayback(r).quiet = r.quiet
<1> DEFINE s == StopPlayback(r)
           word == IF r.active = Rows /\ Rows > 0 THEN "Replay" ELSE "Review"
<1>1. s = [r EXCEPT !.token = @ + 1, !.timer = {}, !.playing = FALSE, !.live = "polite",
                    !.word = word]
  BY DEF StopPlayback
<1>2. word \in {"Replay", "Review"}
  OBVIOUS
<1> HIDE DEF word, s
<1>3. s \in Pages(Rows)
  <2>1. r.token + 1 \in Nat
    BY DEF Pages
  <2> QED BY <1>1, <1>2, <2>1, Zenon DEF Pages
<1>4. Rests(s)
  BY <1>1, <1>2 DEF Pages, Rests
<1>5. s.active = r.active /\ s.tab = r.tab /\ s.token = r.token + 1 /\ s.quiet = r.quiet
  BY <1>1 DEF Pages
<1> QED BY <1>3, <1>4, <1>5 DEF s

\* A row may be chosen at rest, and the page goes on resting.
LEMMA ChoiceRests ==
  ASSUME Rows \in Nat, NEW r \in Pages(Rows), Rests(r), NEW i
  PROVE  /\ SelectChange(r, i, FALSE) \in Pages(Rows) /\ Rests(SelectChange(r, i, FALSE))
         /\ SelectChange(r, i, FALSE).quiet = r.quiet
         /\ SelectChange(r, i, FALSE).token = r.token
         /\ i \in 1..Rows =>
              SelectChange(r, i, FALSE).active = i /\ SelectChange(r, i, FALSE).tab = "delta"
<1> DEFINE s == SelectChange(r, i, FALSE)
<1>1. CASE i \in 1..Rows
  <2>1. s = [r EXCEPT !.tab = "delta", !.active = i, !.live = @]
    BY <1>1 DEF SelectChange, Pages
  <2> HIDE DEF s
  <2>2. s \in Pages(Rows)
    <3>1. i \in 0..Rows
      BY <1>1
    <3> QED BY <2>1, <3>1, Zenon DEF Pages
  <2>3. /\ s.active = i /\ s.tab = "delta" /\ s.quiet = r.quiet /\ s.token = r.token
        /\ s.playing = r.playing /\ s.word = r.word /\ s.live = r.live /\ s.timer = r.timer
    BY <2>1 DEF Pages
  <2> QED BY <2>2, <2>3 DEF s, Rests
<1>2. CASE i \notin 1..Rows
  <2>1. s = r
    BY <1>2 DEF SelectChange
  <2> QED BY <1>2, <2>1
<1> QED BY <1>1, <1>2

LEMMA OverviewRests ==
  ASSUME Rows \in Nat, NEW r \in Pages(Rows)
  PROVE  Overview(r) \in Pages(Rows) /\ Rests(Overview(r))
<1> DEFINE s == StopPlayback(r)
<1>1. s \in Pages(Rows) /\ Rests(s)
  BY StopRests
<1> HIDE DEF s
<1>2. Overview(r) = [s EXCEPT !.active = 0, !.tab = "delta"]
  BY DEF Overview, Pages, s
<1>3. Overview(r) \in Pages(Rows)
  <2>1. 0 \in 0..Rows
    OBVIOUS
  <2> QED BY <1>1, <1>2, <2>1, Zenon DEF Pages
<1>4. Rests(Overview(r))
  BY <1>1, <1>2 DEF Pages, Rests
<1> QED BY <1>3, <1>4

\* A focus that moves ends the playback; one that stays or leaves the buttons does not.
LEMMA FocusIsSound ==
  ASSUME Rows \in Nat, NEW r, Sound(r), NEW on \in {"page", "play", "row", "step", "tab"}
  PROVE  Sound(Focus(r, on))
<1>1. CASE r.focus = on
  BY <1>1 DEF Focus
<1>2. CASE r.focus # on /\ r.playing /\ on # "page"
  <2> DEFINE s == StopPlayback(r)
  <2>1. s \in Pages(Rows) /\ Rests(s)
    BY StopRests DEF Sound
  <2>2. Focus(r, on) = [s EXCEPT !.focus = on]
    BY <1>2 DEF Focus
  <2> HIDE DEF s
  <2> QED BY <2>1, <2>2 DEF Sound, Pages, Rests
<1>3. CASE r.focus # on /\ ~(r.playing /\ on # "page")
  <2>1. Focus(r, on) = [r EXCEPT !.focus = on]
    BY <1>3 DEF Focus
  <2> QED BY <2>1 DEF Sound, Pages, Rests, Plays
<1> QED BY <1>1, <1>2, <1>3

\* While there is a row to come, the playback asks for one more timer; at the last it ends.
LEMMA ScheduleIsSound ==
  ASSUME Rows \in Nat, NEW r \in Pages(Rows), NEW token \in Nat, r.playing, r.token = token,
         r.word = "Pause", r.live = "off", r.tab = "delta", r.active \in 1..Rows
  PROVE  Sound(SchedulePlayback(r, token))
<1>1. CASE r.active < Rows
  <2>1. SchedulePlayback(r, token) = [r EXCEPT !.timer = {token}]
    BY <1>1 DEF SchedulePlayback
  <2>2. [r EXCEPT !.timer = {token}] \in Pages(Rows)
    BY Zenon DEF Pages
  <2>3. r.active \in 1..Rows - 1
    BY <1>1 DEF Pages
  <2> QED BY <2>1, <2>2, <2>3 DEF Sound, Plays, Pages
<1>2. CASE r.active = Rows
  <2>1. SchedulePlayback(r, token) = StopPlayback(r)
    BY <1>2 DEF SchedulePlayback
  <2> QED BY <2>1, StopRests DEF Sound
<1> QED BY <1>1, <1>2 DEF Pages

LEMMA StartIsSound ==
  ASSUME Rows \in Nat, Rows > 0, NEW r, Sound(r)
  PROVE  Sound(StartReview(r))
<1>1. r \in Pages(Rows) /\ r.available
  BY DEF Sound, Pages
<1>2. CASE r.playing
  <2>1. StartReview(r) = StopPlayback(r)
    BY <1>1, <1>2 DEF StartReview
  <2> QED BY <1>1, <2>1, StopRests DEF Sound
<1>3. CASE ~r.playing
  <2> DEFINE s == SelectChange(StopPlayback(r), 1, FALSE)
  <2>1. s \in Pages(Rows) /\ Rests(s) /\ s.active = 1 /\ s.tab = "delta"
    <3>1. StopPlayback(r) \in Pages(Rows) /\ Rests(StopPlayback(r))
      BY <1>1, StopRests
    <3>2. 1 \in 1..Rows
      OBVIOUS
    <3> QED BY <3>1, <3>2, ChoiceRests
  <2>2. StartReview(r) =
          IF Rows < 1 \/ s.quiet \/ Rows < 2 THEN s
          ELSE SchedulePlayback([s EXCEPT !.playing = TRUE, !.token = @ + 1, !.word = "Pause",
                                          !.live = "off"], s.token + 1)
    BY <1>1, <1>3 DEF StartReview
  <2> HIDE DEF s
  <2> DEFINE p == [s EXCEPT !.playing = TRUE, !.token = @ + 1, !.word = "Pause", !.live = "off"]
  <2>3. /\ p \in Pages(Rows) /\ p.playing /\ p.token = s.token + 1 /\ p.word = "Pause"
        /\ p.live = "off" /\ p.tab = "delta" /\ p.active = 1 /\ s.token + 1 \in Nat
    <3>1. s.token + 1 \in Nat
      BY <2>1 DEF Pages
    <3>2. p \in Pages(Rows)
      BY <2>1, <3>1, Zenon DEF Pages
    <3> QED BY <2>1, <3>1, <3>2 DEF Pages
  <2> HIDE DEF p
  <2>4. Sound(SchedulePlayback(p, s.token + 1))
    BY <2>3, ScheduleIsSound
  <2>5. Sound(s)
    BY <2>1 DEF Sound
  <2> QED BY <2>2, <2>4, <2>5 DEF p
<1> QED BY <1>2, <1>3

-----------------------------------------------------------------------------
(* What a step does, in the terms of the page before it.                   *)

LEMMA StoppedChoice ==
  ASSUME Rows \in Nat, NEW r, Sound(r), NEW i
  PROVE  Sound(SelectChange(StopPlayback(r), i, FALSE))
<1>1. StopPlayback(r) \in Pages(Rows) /\ Rests(StopPlayback(r))
  BY StopRests DEF Sound
<1> QED BY <1>1, ChoiceRests DEF Sound

LEMMA TickIsSound ==
  ASSUME Rows \in Nat, Sound(review), Tick
  PROVE  Sound(review')
<1>1. Plays(review) /\ review \in Pages(Rows)
  BY DEF Tick, Sound, Rests
<1> DEFINE token == review.token
           r == [review EXCEPT !.timer = {}]
           s == SelectChange(r, r.active + 1, TRUE)
<1>2. token \in Nat /\ Max(review.timer) = token
  <2>1. token \in Nat
    BY <1>1 DEF Pages
  <2>2. \A x \in {token} : x = token
    OBVIOUS
  <2>3. token >= token
    BY <2>1
  <2> QED BY <1>1, <2>1, <2>2, <2>3 DEF Plays, Max
<1>3. /\ r \in Pages(Rows) /\ r.playing /\ r.token = token /\ r.word = "Pause" /\ r.tab = "delta"
      /\ r.active = review.active /\ r.available
  <2>1. r \in Pages(Rows)
    BY <1>1, Zenon DEF Pages
  <2> QED BY <1>1, <2>1 DEF Pages, Plays
<1>4. review' = SchedulePlayback(s, token)
  BY <1>2, <1>3 DEF Tick, To
<1> HIDE DEF r
<1>5. r.active + 1 \in 1..Rows /\ r.active + 1 \in 0..Rows
  BY <1>1, <1>3 DEF Plays
<1>6. s = [r EXCEPT !.tab = "delta", !.active = r.active + 1, !.live = "off"]
  BY <1>3, <1>5 DEF SelectChange
<1> HIDE DEF s
<1>7. s \in Pages(Rows)
  BY <1>3, <1>5, <1>6, Zenon DEF Pages
<1>8. /\ s.playing /\ s.token = token /\ s.word = "Pause" /\ s.live = "off" /\ s.tab = "delta"
      /\ s.active \in 1..Rows
  BY <1>3, <1>5, <1>6 DEF Pages
<1> QED BY <1>2, <1>4, <1>7, <1>8, ScheduleIsSound

LEMMA StepIsSound ==
  ASSUME Rows \in Nat, Sound(review), Next
  PROVE  Sound(review') /\ UNCHANGED <<base, head, svg>>
<1>1. review \in Pages(Rows)
  BY DEF Sound
<1>2. \A on \in {"page", "play", "row", "step", "tab"} : Sound(Focus(review, on))
  BY FocusIsSound
<1>3. ASSUME NEW r, Sound(r)
      PROVE  Sound(StopPlayback(r)) /\ Sound(Overview(r))
  BY <1>3, StopRests, OverviewRests DEF Sound
<1>4. CASE Play
  <2>1. Sound(Focus(review, "play"))
    BY <1>2
  <2> QED BY <1>4, <2>1, StartIsSound DEF Play, Becomes, To
<1>5. ASSUME NEW i \in 1..Rows, ClickRow(i)
      PROVE  Sound(review') /\ UNCHANGED <<base, head, svg>>
  <2>1. Sound(Focus(review, "row"))
    BY <1>2
  <2> QED BY <1>5, <2>1, StoppedChoice DEF ClickRow, Becomes, To
<1>6. CASE Previous
  <2>1. Sound(Focus(review, "step"))
    BY <1>2
  <2> QED BY <1>6, <2>1, StoppedChoice DEF Previous, Becomes, To
<1>7. CASE Following
  <2>1. Sound(Focus(review, "step"))
    BY <1>2
  <2> QED BY <1>7, <2>1, StoppedChoice DEF Following, Becomes, To
<1>8. CASE ToOverview
  <2>1. Sound(Focus(review, "step"))
    BY <1>2
  <2> QED BY <1>3, <1>8, <2>1 DEF ToOverview, Becomes, To
<1>9. CASE Escape
  <2>1. Sound(Overview(review))
    BY <1>3
  <2> QED BY <1>9, <2>1, FocusIsSound DEF Escape, Becomes, To
<1>10. CASE BeforePrint
  BY <1>3, <1>10 DEF BeforePrint, Becomes, To
<1>11. ASSUME NEW t \in {"base", "delta", "head"}, ShowTab(t)
       PROVE  Sound(review') /\ UNCHANGED <<base, head, svg>>
  <2> DEFINE r == Focus(review, "tab")
             s == StopPlayback(r)
  <2>1. s \in Pages(Rows) /\ Rests(s)
    BY <1>2, StopRests DEF Sound
  <2>2. review' = [s EXCEPT !.tab = t] /\ UNCHANGED <<base, head, svg>>
    BY <1>11 DEF ShowTab, Becomes, To
  <2> HIDE DEF s
  <2>3. review' \in Pages(Rows)
    BY <2>1, <2>2, Zenon DEF Pages
  <2>4. Rests(review')
    BY <2>1, <2>2 DEF Rests, Pages
  <2> QED BY <2>2, <2>3, <2>4 DEF Sound
<1>12. CASE Hide
  BY <1>3, <1>12 DEF Hide, Becomes, To
<1>13. ASSUME NEW on \in BOOLEAN, LessMotion(on)
       PROVE  Sound(review') /\ UNCHANGED <<base, head, svg>>
  <2> DEFINE r == IF on THEN StopPlayback(review) ELSE review
  <2>1. Sound(r)
    BY <1>3
  <2>2. review' = [r EXCEPT !.quiet = on] /\ UNCHANGED <<base, head, svg>>
    BY <1>13 DEF LessMotion, Becomes, To
  <2> HIDE DEF r
  <2>3. review' \in Pages(Rows)
    BY <2>1, <2>2, Zenon DEF Sound, Pages
  <2>4. Plays(review') \/ Rests(review')
    BY <2>1, <2>2 DEF Sound, Plays, Rests, Pages
  <2> QED BY <2>2, <2>3, <2>4 DEF Sound
<1>14. CASE Elsewhere
  <2>1. Sound(Focus(review, "page"))
    BY <1>2
  <2> QED BY <1>14, <2>1 DEF Elsewhere, Becomes, To
<1>15. CASE Tick
  BY <1>15, TickIsSound DEF Tick, To
<1> QED BY <1>4, <1>5, <1>6, <1>7, <1>8, <1>9, <1>10, <1>11, <1>12, <1>13, <1>14, <1>15
        DEF Next

-----------------------------------------------------------------------------
(* The theorems.                                                           *)

LEMMA ReviewStarts == Init => ReviewInv
<1> SUFFICES ASSUME Init
             PROVE  ReviewInv
  OBVIOUS
<1>1. PICK p \in Pairs, quiet \in BOOLEAN :
        /\ base = p.base /\ head = p.head /\ svg = DeltaSvg(p.base, p.head)
        /\ review = Opened(p.base, p.head, quiet)
  BY DEF Init
<1>2. Rows \in Nat
  BY <1>1, ManyRows
<1>3. review = [available |-> TRUE, active |-> 0, playing |-> FALSE, token |-> 0, timer |-> {},
                word |-> "Review", live |-> "polite", tab |-> "delta", quiet |-> quiet,
                focus |-> "page"]
  <2>1. Validates(DeltaSvg(p.base, p.head), p.base, p.head) = TRUE
    BY DrawingIsExpected DEF Validates
  <2> QED BY <1>1, <2>1 DEF Opened
<1>4. review \in Pages(Rows)
  <2>1. 0 \in 0..Rows /\ 0 \in Nat
    BY <1>2
  <2> QED BY <1>3, <2>1, Zenon DEF Pages
<1>5. Rests(review)
  BY <1>3 DEF Rests
<1> QED BY <1>1, <1>4, <1>5 DEF ReviewInv, Sound

LEMMA ReviewGoesOn == ReviewInv /\ [Next]_vars => ReviewInv'
<1> SUFFICES ASSUME ReviewInv, [Next]_vars
             PROVE  ReviewInv'
  OBVIOUS
<1>1. Rows \in Nat
  BY ManyRows DEF ReviewInv
<1>2. Sound(review') /\ UNCHANGED <<base, head, svg>>
  BY <1>1, StepIsSound DEF ReviewInv, vars
<1>3. Rows' = Rows
  BY <1>2 DEF Rows
<1>4. Sound(review)'
  BY <1>2, <1>3 DEF Sound, Plays, Rests, Pages
<1> QED BY <1>2, <1>4 DEF ReviewInv

LEMMA ReviewHolds == Spec => []ReviewInv
BY ReviewStarts, ReviewGoesOn, PTL DEF Spec

(* Whatever two snapshots are compared, whatever the reader does and       *)
(* whenever a timer fires, the drawing deltaSvg makes passes               *)
(* validateArchitectureDeltaHtml, and compareArchitectureIr tells the same *)
(* changes read from the other side: a comparison never fails on its own   *)
(* drawing, and no page gives the review up for a mismatch.                *)
THEOREM ComparisonIsDrawn == Spec => []ChangesAreDrawn
<1>1. ReviewInv => ChangesAreDrawn
  BY DrawingIsExpected, Mirrors DEF ReviewInv, ChangesAreDrawn, DrawingValidates
<1> QED BY <1>1, ReviewHolds, PTL

(* The page of any comparison, of any number of changes, plays exactly     *)
(* while it says so: no handler of its script leaves a timer of an earlier *)
(* playback, a Pause button with nothing to pause, or a screen reader      *)
(* silenced, however the reader's clicks and the timers fall.              *)
THEOREM PlaybackIsShown == Spec => []PlayingIsShown
<1>1. ReviewInv => PlayingIsShown
  BY DEF ReviewInv, Sound, Plays, Rests, PlayingIsShown
<1> QED BY <1>1, ReviewHolds, PTL
=============================================================================
