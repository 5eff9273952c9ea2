------------------------- MODULE ArchitectureDelta -------------------------
(***************************************************************************)
(* delta/architecture-delta.mjs: how two snapshots of an architecture are  *)
(* compared by the ids their authors gave, and what the drawing of the     *)
(* comparison shows of every change.  A snapshot has components,           *)
(* connections and boundaries, each a sequence of items; of an item only   *)
(* its id and, for each group of fields, their value are told apart.  A    *)
(* component also has its brand and a snapshot its locale, which are in no *)
(* group.                                                                  *)
(***************************************************************************)
EXTENDS Naturals, Sequences, SequencesExt, FiniteSetsExt

CONSTANTS NoId, NoLabel

Kinds == {"component", "connection", "boundary"}
Ids(items) == {items[i].id : i \in DOMAIN items}
Item(items, id) == items[CHOOSE i \in DOMAIN items : items[i].id = id]

\* The groups of fields whose change is told, by the kind of item.
Groups ==
  [component |-> {"semantic", "evidence", "geometry"},
   connection |-> {"topology", "semantic", "geometry"},
   boundary |-> {"scope", "geometry"}]
Identity == [component |-> "semantic", connection |-> "topology", boundary |-> "scope"]

\* A slip: only what the earlier item states is compared.
EarlierOnlyMutant(kind, before, after) ==
  {g \in Groups[kind] : before[g] # after[g]}
    \cup (IF kind = "connection" /\ before.label \notin {NoLabel, after.label}
          THEN {"semantic"} ELSE {})

Classifications(kind, before, after) ==
  {g \in Groups[kind] : before[g] # after[g]}
    \cup (IF kind = "connection" /\ before.label # after.label THEN {"semantic"} ELSE {})

StatusFor(kind, classes) ==
  IF classes \cap {"topology", "semantic", "scope"} # {} THEN "changed"
  ELSE IF "evidence" \in classes THEN "evidence-changed"
  ELSE IF "geometry" \notin classes THEN "same"
  ELSE CASE kind = "connection" -> "rerouted"
         [] kind = "component" -> "moved"
         [] OTHER -> "geometry-changed"

Change(kind, id, status, classes) ==
  [kind |-> kind, id |-> id, status |-> status, classes |-> classes]

CompareEntities(kind, base, head) ==
  {Change(kind, id, "added", {Identity[kind]}) : id \in Ids(head) \ Ids(base)}
  \cup {Change(kind, id, "removed", {Identity[kind]}) : id \in Ids(base) \ Ids(head)}
  \cup {c \in {Change(kind, id,
                 StatusFor(kind, Classifications(kind, Item(base, id), Item(head, id))),
                 Classifications(kind, Item(base, id), Item(head, id))) :
               id \in Ids(base) \cap Ids(head)} : c.status # "same"}

\* stableIndex and boundaryIndex: every id there, and there once.
Identified(items) ==
  NoId \notin Ids(items) /\ Cardinality(Ids(items)) = Len(items)

Repository(d) == {d.repository} \ {[url |-> NoId, revision |-> NoId]}
Comparable(base, head) ==
  /\ \A d \in {base, head} :
       Identified(d.component) /\ Identified(d.connection) /\ Identified(d.boundary)
  /\ Ids(base.component) \cap Ids(head.component) # {}
  /\ \A r \in Repository(base), s \in Repository(head) : r.url = s.url

Changes(base, head) == UNION {CompareEntities(k, base[k], head[k]) : k \in Kinds}
PresentationChanged(base, head) == base.presentation # head.presentation
ProvenanceChanged(base, head) == base.repository # head.repository

-----------------------------------------------------------------------------
(***************************************************************************)
(* The drawing: the marked elements of the Delta canvas.  An element is    *)
(* its tag, the item it stands for, the state and classifications it is    *)
(* marked with, the snapshot it was taken from, and for the symbol of a    *)
(* change the snapshot of the element it is put at.                        *)
(***************************************************************************)
Mark(tag, c, state, classes, from) ==
  [tag |-> tag, kind |-> c.kind, id |-> c.id, state |-> state, classes |-> classes, from |-> from]

\* The elements one snapshot draws an item with.
Drawn(c, item, state, from) ==
  CASE c.kind = "component" -> {Mark("g", c, state, c.classes, from)}
    [] c.kind = "connection" ->
         {Mark("path", c, state, c.classes, from)}
           \cup (IF item.label = NoLabel THEN {} ELSE {Mark("g", c, state, c.classes, from)})
    [] OTHER -> {Mark("rect", c, state, c.classes, from), Mark("text", c, state, {}, from)}

\* annotateArchitectureSideSvg, for the later snapshot.
OfHead(c, head) ==
  IF c.status = "removed" THEN {}
  ELSE Drawn(c, Item(head[c.kind], c.id), c.status, "head")

\* A slip: the phantom taken by the status alone.
ByStatusMutant(c) ==
  IF c.status = "removed" THEN {"removed"}
  ELSE IF c.status \in {"moved", "rerouted", "geometry-changed"} THEN {"moved-from"} ELSE {}
\* The state the earlier snapshot's element is given, when the Delta shows it too.
PhantomState(c) ==
  IF c.status = "removed" \/ (c.kind = "connection" /\ "topology" \in c.classes) THEN {"removed"}
  ELSE IF (IF c.kind = "boundary" THEN c.status \in {"changed", "geometry-changed"}
           ELSE "geometry" \in c.classes) THEN {"moved-from"}
  ELSE {}
\* Of an added item the earlier drawing has no element to take.
Phantoms(c, base) ==
  IF c.id \notin Ids(base[c.kind]) THEN {}
  ELSE UNION {Drawn(c, Item(base[c.kind], c.id), s, "base") : s \in PhantomState(c)}

(* The symbols beside a relationship.  The one of the current form is put  *)
(* at the first element of that id, which is the phantom where there is    *)
(* one (elementById).                                                      *)
Symbols(c, base) ==
  LET phantom == c.id \in Ids(base.connection) /\ PhantomState(c) # {} IN
  {Mark("text", c, s, {}, "base") : s \in IF phantom THEN PhantomState(c) ELSE {}}
  \cup {Mark("text", c, IF c.status = "changed" /\ "topology" \in c.classes
                        THEN "added" ELSE c.status, {}, IF phantom THEN "base" ELSE "head") :
          s \in {c.status} \cap {"added", "changed", "rerouted"}}

DeltaSvg(base, head) ==
  UNION {OfHead(c, head) \cup Phantoms(c, base)
           \cup (IF c.kind = "connection" THEN Symbols(c, base) ELSE {}) : c \in Changes(base, head)}

\* reviewTargetTags and reviewTargetSignature: what the drawing has for a row.
Signature(svg, c) ==
  LET targets == {m \in svg : m.kind = c.kind /\ m.id = c.id}
      shown(m) == <<m.tag, m.state, m.classes>>
  IN  [s \in {shown(m) : m \in targets} |-> Cardinality({m \in targets : shown(m) = s})]

-----------------------------------------------------------------------------
(* What the review of a row expects to find, worked out from the row alone. *)

\* A form of a relationship: the state of its path, of its symbol, its label.
Form(state, marker, label) == [state |-> state, marker |-> marker, label |-> label]
RelationshipForms(c, base, head) ==
  LET was == IF c.status = "added" THEN NoLabel ELSE Item(base.connection, c.id).label
      is == IF c.status = "removed" THEN NoLabel ELSE Item(head.connection, c.id).label IN
  IF c.status = "added" THEN {Form("added", "added", is)}
  ELSE IF c.status = "removed" THEN {Form("removed", "removed", was)}
  ELSE IF "topology" \in c.classes
  THEN {Form("removed", "removed", was), Form("changed", "added", is)}
  ELSE IF "geometry" \in c.classes
  THEN {Form("moved-from", "moved-from", was), Form(c.status, c.status, is)}
  ELSE {Form("changed", "changed", is)}

PrimaryStates(c) ==
  IF \/ c.kind = "component" /\ "geometry" \in c.classes
     \/ c.kind = "boundary" /\ c.status \in {"changed", "geometry-changed"}
  THEN {c.status, "moved-from"} ELSE {c.status}

ExpectedSignature(c, base, head) ==
  LET shown ==
    CASE c.kind = "component" -> {<<"g", s, c.classes>> : s \in PrimaryStates(c)}
      [] c.kind = "boundary" ->
           UNION {{<<"rect", s, c.classes>>, <<"text", s, {}>>} : s \in PrimaryStates(c)}
      [] OTHER ->
           UNION {{<<"path", f.state, c.classes>>, <<"text", f.marker, {}>>}
                    \cup (IF f.label = NoLabel THEN {} ELSE {<<"g", f.state, c.classes>>}) :
                    f \in RelationshipForms(c, base, head)}
  IN  [s \in shown |-> 1]

\* validateArchitectureDeltaHtml, as far as it is about the changes.
Validates(svg, base, head) ==
  \A c \in Changes(base, head) :
    /\ Signature(svg, c) # <<>>
    /\ Signature(svg, c) = ExpectedSignature(c, base, head)
=============================================================================
