---------------------------- MODULE WorkflowReview ----------------------------
(***************************************************************************)
(* renderers/workflow/workflow-compiler.mjs: what is checked before a line *)
(* is routed, of every line the author pinned, of the lines against each   *)
(* other, and of the finished picture.  The text of a node always fits it; *)
(* the repairs a diagnostic offers are left out.                           *)
(***************************************************************************)
EXTENDS WorkflowPlans

Authored(e) == Pinned(e) \/ e.route # "auto" \/ e.fromSide # "auto" \/ e.toSide # "auto"
NoFault == {}
Fault(condition, code) == IF condition THEN {code} ELSE NoFault

-----------------------------------------------------------------------------
(* validateReadableInputsBeforeRouting                                     *)

NameFaults(d) ==
  IF \E e \in EdgesOf(d) : ~Known(d, e) THEN {"unknown-edge-endpoint"}
  ELSE Fault(\E n \in Range(d.nodes) : n.lane \notin DOMAIN d.lanes, "unknown-node-lane")
         \cup Fault(\E n \in Range(d.nodes) : n.col \notin 0..ColumnCount - 1, "invalid-node-column")
Crowded(d, boxes) ==
  {i \in DOMAIN d.nodes : \E j \in DOMAIN d.nodes \ {i} :
     d.nodes[i].lane = d.nodes[j].lane /\ RectsOverlap(boxes[i], boxes[j], 8)}
InputFaults(d, boxes) == Fault(Crowded(d, boxes) # {}, "node-overlap")

-----------------------------------------------------------------------------
(* validateReadablePinnedGeometry: before the line is routed, and after.   *)

\* validateReadableRouteControls
ChannelsTaken(route) ==
  CASE route = "auto" -> {"x", "y"}
    [] route \in {"outside-right", "return-left"} -> {"x"}
    [] route \in {"drop", "bottom-channel", "up-channel"} -> {"y"}
    [] OTHER -> {}
ControlsConflict(e) ==
  \/ e.channelX # {} /\ "x" \notin ChannelsTaken(e.route)
  \/ e.channelY # {} /\ "y" \notin ChannelsTaken(e.route)
BelowOrigin(e) ==
  \/ \E c \in e.channelX \cup e.channelY : c < 0
  \/ \E p \in ToSet(e.via) : p[1] < 0 \/ p[2] < 0

\* A slip: a pinned line is held against the boxes and the words only.
ClearOnlyMutant(w, p) ==
  /\ ClearsUnrelatedNodes(w, p.edge, p.points)
  /\ \A r \in w.scene.legend \cup w.scene.words : ~Runs(p.points, r, 0)
PinnedRouteHolds(w, p) ==
  LET e == p.edge IN
  /\ Orthogonal(p.points)
  /\ MeetsHardRhythm(p.points)
  /\ e.via # <<>> => /\ \A c \in e.channelX : HoldsChannel(p.points, 1, c)
                     /\ \A c \in e.channelY : HoldsChannel(p.points, 2, c)
  /\ e.route # "auto" => MatchesPreset(w, e, p.points)
  /\ HonorsEndpointSides(p.points, p.sides[1], p.sides[2])
  /\ ClearsEndpointNodes(p.points, Box(w, e.from), Box(w, e.to))
  /\ ClearsUnrelatedNodes(w, e, p.points)
  /\ \A r \in w.scene.legend \cup w.scene.words : ~Runs(p.points, r, 0)
  /\ ClearsFrameBorders(w, p.points)
PinnedLabelHolds(w, p) ==
  \A r \in PlacedLabel(p) :
    /\ r.x >= 0 /\ r.y >= 0
    /\ \A b \in Boxes(w) : ~RectsOverlap(r, b, -2)
    /\ \A q \in w.scene.legend \cup w.scene.words : ~RectsOverlap(r, q, 0)
PinsHold(w, p) ==
  /\ Pinned(p.edge) => PinnedRouteHolds(w, p)
  /\ p.edge.labelAt # <<>> => PinnedLabelHolds(w, p)

-----------------------------------------------------------------------------
(* Lines against each other.                                               *)

Pairs(w) == {pq \in Placed(w) \X Placed(w) : pq[1] # pq[2]}
LabelOnRoute(w, i, j) ==
  \E r \in PlacedLabel(w.placed[i]) :
    NearestStep(NormalizeRoutePoints(w.placed[j].points), r) < 4
LabelOnLabel(w, i, j) ==
  \E r \in PlacedLabel(w.placed[i]), q \in PlacedLabel(w.placed[j]) : RectsOverlap(r, q, -2)
Unrelated(w, i, j) == Apart(w.placed[i].edge, w.placed[j].edge)
Crossed(w, i, j) ==
  /\ Unrelated(w, i, j)
  /\ \E s \in AnalysisSegments(w.placed[i].points), t \in AnalysisSegments(w.placed[j].points) :
       ProperAxisCrossing(s[1], s[2], t[1], t[2])
Ended(p) == [from |-> p.edge.from, to |-> p.edge.to, points |-> p.points]
Merging(w, i, j) == ShareCorridor(Ended(w.placed[i]), Ended(w.placed[j]), 8)

\* validateReadablePairwisePinConflicts: one of the two is the author's.
PairwiseFaults(w) ==
  LET edge(i) == w.placed[i].edge
      one(i, j) == Authored(edge(i)) \/ Authored(edge(j))
  IN  Fault(\E pq \in Pairs(w) : LET i == pq[1] j == pq[2] IN
              \/ LabelOnRoute(w, i, j) /\ (edge(i).labelAt # <<>> \/ Authored(edge(j)))
              \/ LabelOnLabel(w, i, j) /\ (edge(i).labelAt # <<>> \/ edge(j).labelAt # <<>>)
              \/ w.doc.showcase /\ one(i, j) /\ (Crossed(w, i, j) \/ Merging(w, i, j)),
            "explicit-pin-conflict")

-----------------------------------------------------------------------------
(* validateWorkflow                                                        *)

Contained(w, i) ==
  LET n == w.doc.nodes[i]
      b == Box(w, i)
      l == w.scene.layout
  IN  /\ b.x >= 40 /\ b.x + b.width <= 40 + l.laneWidth
      /\ b.y >= LaneTop(l, n.lane) + 30 + l.header[n.lane]
      /\ b.y + b.height <= LaneTop(l, n.lane) + LaneHeight(l, n.lane)
Occupied(d, g) == \E n \in Range(d.nodes) : InBand(n, g)
SceneFaults(w) ==
  Fault(\E i \in DOMAIN w.doc.nodes : ~Contained(w, i), "outside its lane")
    \cup Fault(\E p, q \in w.doc.phases : p # q /\ p.from <= q.to /\ q.from <= p.to, "phases overlap")
    \cup Fault(\E g \in w.doc.groups : ~Occupied(w.doc, g), "empty group")
    \cup Fault(Crowded(w.doc, w.scene.boxes) # {}, "less than 8px apart")

HonorsItsSides(p) ==
  LET drawn == p.edge.route # "auto" \/ p.edge.via # <<>>
      issue(side, i) == side # "auto" \/ ~drawn => LET v == NormalizeRoutePoints(p.points) IN
                          IF i = 1 THEN Leaves(v[1], v[2], p.sides[1])
                          ELSE Leaves(Last(v), v[Len(v) - 1], p.sides[2])
  IN  issue(p.edge.fromSide, 1) /\ issue(p.edge.toSide, 2)
RouteFaults(w) ==
  LET routes == {w.placed[i] : i \in Placed(w)} IN
  Fault(\E p \in routes : Len(p.points) = 2 /\ Manhattan(p.points[1], p.points[2]) < 28, "short")
    \cup Fault(\E p \in routes : ~HonorsItsSides(p), "endpoint side")
    \cup Fault(\E p \in routes : ~ClearsUnrelatedNodes(w, p.edge, p.points), "through a node")
    \cup Fault(\E p \in routes : \E r \in PlacedLabel(p), b \in Boxes(w) : RectsOverlap(r, b, -2),
               "label over a node")
    \cup Fault(\E pq \in Pairs(w) : LabelOnLabel(w, pq[1], pq[2]), "label over a label")
\* What a showcase is held to besides.
ShowcaseFaults(w) ==
  LET routes == {w.placed[i] : i \in Placed(w)} IN
  Fault(\E pq \in Pairs(w) : Crosses(Ended(w.placed[pq[1]]), Ended(w.placed[pq[2]]), TRUE), "crossing")
    \cup Fault(\E pq \in Pairs(w) : Merging(w, pq[1], pq[2]), "ambiguous corridor")
    \cup Fault(\E p \in routes : ~ClearsFrameBorders(w, p.points), "border run")
    \cup Fault(\E p \in routes : RhythmIssues(p.points, 16, 8) # {}, "rhythm")
    \cup Fault(\E pq \in Pairs(w) : LabelOnRoute(w, pq[1], pq[2]), "label on a route")
PathFaults(d) ==
  LET step == {<<d.mainPath[i], d.mainPath[i + 1]>> : i \in 1..Len(d.mainPath) - 1} IN
  Fault(\E s \in step : ~\E e \in EdgesOf(d) : <<e.from, e.to>> = s, "no matching edge")
    \cup Fault(\E s \in step : d.nodes[s[2]].col < d.nodes[s[1]].col, "moves backward")
LayoutFaults(w) ==
  SceneFaults(w) \cup RouteFaults(w) \cup PathFaults(w.doc)
    \cup (IF w.doc.showcase THEN ShowcaseFaults(w) ELSE NoFault)

-----------------------------------------------------------------------------
(* measuredContentBounds, finalizeReadableViewBox                          *)

Touched(w) == UNION {ToSet(w.placed[i].points) : i \in Placed(w)}
\* What is measured, besides the points of the lines: a list of its own, which has
\* neither the frames of the lanes nor their names.
Measured(w) ==
  LET d == w.doc
      l == w.scene.layout
  IN  Boxes(w) \cup UNION {PlacedLabel(w.placed[i]) : i \in Placed(w)}
        \cup {LET span == PhaseSpan(d, l, p) IN Rect(span.x, 27, span.width, 16) : p \in d.phases}
        \cup {GroupFrame(d, l, g) : g \in d.groups} \cup {GroupName(d, l, g) : g \in d.groups}
        \cup LegendRects(d, l)
MeasuredContentBounds(w) ==
  LET l == w.scene.layout
      corners == Touched(w) \cup {<<r.x, r.y>> : r \in Measured(w)}
                   \cup {<<r.x + r.width, r.y + r.height>> : r \in Measured(w)}
  IN  [left |-> Min({40} \cup {p[1] : p \in corners}), top |-> Min({27} \cup {p[2] : p \in corners}),
       right |-> Max({40 + l.laneWidth} \cup {p[1] : p \in corners}),
       bottom |-> Max({LegendY(w.doc, l) + 18} \cup {p[2] : p \in corners})]
\* A slip: what reaches out furthest is taken from the boxes.
BoxesOnlyMutant(w) ==
  <<Larger(w.scene.canvas[1], 16 + Max({b.x + b.width : b \in Boxes(w)})),
    Larger(w.scene.canvas[2], 18 + Max({b.y + b.height : b \in Boxes(w)}))>>
RequiredViewBox(w) ==
  LET bounds == MeasuredContentBounds(w) IN
  <<Larger(w.scene.canvas[1], bounds.right + 16), Larger(w.scene.canvas[2], bounds.bottom + 18)>>
ViewBox(w) == IF w.doc.viewBox = <<>> THEN RequiredViewBox(w) ELSE w.doc.viewBox
ViewBoxFaults(w) ==
  LET required == RequiredViewBox(w)
      bounds == MeasuredContentBounds(w)
  IN
  IF bounds.left < 0 \/ bounds.top < 0
  THEN {IF \E e \in EdgesOf(w.doc) : AbsolutePin(e) THEN "explicit-pin-conflict"
        ELSE "solver-budget-exhausted"}
  ELSE Fault(ViewBox(w)[1] < required[1] \/ ViewBox(w)[2] < required[2], "viewbox-capacity")
=============================================================================
