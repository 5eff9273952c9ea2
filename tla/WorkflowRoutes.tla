--------------------------- MODULE WorkflowRoutes ---------------------------
(***************************************************************************)
(* renderers/workflow/workflow-compiler.mjs: how a relation finds its way. *)
(* A piece of work w is the document, the scene that was laid out for it   *)
(* and the relations placed so far, in order: [edge, points, sides], the   *)
(* sides as <<of the source, of the target>>.  Half pixels are rounded     *)
(* down, distances between a line and a name to whole pixels.              *)
(***************************************************************************)
EXTENDS WorkflowLayout

Box(w, id) == w.scene.boxes[id]
BoxesBut(w, e) == {w.scene.boxes[i] : i \in DOMAIN w.doc.nodes \ {e.from, e.to}}
Boxes(w) == Range(w.scene.boxes)
Placed(w) == DOMAIN w.placed
Vertical(a, b) == a[1] = b[1]
Level(a, b) == a[2] = b[2]
Upright(side) == side \in {"top", "bottom"}
Steps(points) == 1..Len(points) - 1

\* segmentIntersectsRect and segmentRectClearance, of a segment along an axis.
Low(a, b) == <<Smaller(a[1], b[1]), Smaller(a[2], b[2])>>
High(a, b) == <<Larger(a[1], b[1]), Larger(a[2], b[2])>>
Hits(a, b, r, gap) ==
  LET low == Low(a, b) high == High(a, b) IN
  /\ low[1] <= r.x + r.width + gap /\ r.x - gap <= high[1]
  /\ low[2] <= r.y + r.height + gap /\ r.y - gap <= high[2]
Between(low, high, from, extent) == Smaller(9, Larger(0, Larger(from - high, low - (from + extent))))
Clearance(a, b, r) ==
  LET low == Low(a, b)
      high == High(a, b)
      square == Square(Between(low[1], high[1], r.x, r.width))
                  + Square(Between(low[2], high[2], r.y, r.height))
  IN  Max({k \in 0..9 : k * k <= square})
Runs(points, r, gap) == \E i \in Steps(points) : Hits(points[i], points[i + 1], r, gap)
NearestStep(points, r) == Min({Clearance(points[i], points[i + 1], r) : i \in Steps(points)})

-----------------------------------------------------------------------------
(* Where the name of a relation is put: workflowEdgeLabelPoint, labelRectFor.*)

LongestStep(points) ==
  LET level == {i \in Steps(points) : Level(points[i], points[i + 1])}
      pool == IF level = {} THEN Steps(points) ELSE level
      length(i) == Manhattan(points[i], points[i + 1])
  IN  Min({i \in pool : \A j \in pool : length(j) <= length(i)})
AtStep(points, i) ==
  LET a == points[i] b == points[i + 1] IN
  <<Half(a[1] + b[1]), Half(a[2] + b[2]) - (IF Vertical(a, b) THEN 0 ELSE 10)>>
EdgeLabelPoint(e, points) ==
  IF e.labelAt # <<>> THEN e.labelAt
  ELSE IF Len(points) = 2 THEN <<Half(points[1][1] + points[2][1]), points[1][2] - 10>>
  ELSE AtStep(points, LongestStep(points))
LabelBox(e, at) == Rect(at[1] - Half(e.label), at[2] - 10, e.label, 14)
LabelRect(e, points) == IF e.label = 0 THEN {} ELSE {LabelBox(e, EdgeLabelPoint(e, points))}
PlacedLabel(p) == LabelRect(p.edge, p.points)

-----------------------------------------------------------------------------
(* What a route must be to be a candidate, check by check.                 *)

Orthogonal(points) ==
  \A i \in Steps(points) : Vertical(points[i], points[i + 1]) # Level(points[i], points[i + 1])
MeetsHardRhythm(points) ==
  \A i \in Steps(points) :
    LET length == Manhattan(points[i], points[i + 1]) IN
    IF Len(points) = 2 THEN length >= 28
    ELSE length >= IF i \in {1, Len(points) - 1} THEN 8 ELSE 16
ClearsEndpointNodes(points, from, to) ==
  \A i \in Steps(points) :
    /\ i > 1 => ~Hits(points[i], points[i + 1], from, 0)
    /\ i < Len(points) - 1 => ~Hits(points[i], points[i + 1], to, 0)
ClearsUnrelatedNodes(w, e, points) == \A b \in BoxesBut(w, e) : ~Runs(points, b, 2)
LabelClearsNodes(w, e, points) ==
  e.labelAt = <<>> => \A r \in LabelRect(e, points), b \in Boxes(w) : ~RectsOverlap(r, b, -2)

\* A slip: the names placed before are forgotten.
OwnNameMutant(w, e, points) ==
  \A i \in Placed(w) : \A r \in LabelRect(e, points) : NearestStep(w.placed[i].points, r) >= 4
ClearsPlacedLabels(w, e, points) ==
  \A i \in Placed(w) :
    LET p == w.placed[i] IN
    /\ \A r \in LabelRect(e, points) :
         /\ \A q \in PlacedLabel(p) : ~RectsOverlap(r, q, -2)
         /\ NearestStep(p.points, r) >= 4
    /\ \A q \in PlacedLabel(p) : NearestStep(points, q) >= 4
ClearsWords(w, e, points) ==     \* the legend, and the names in the scene
  \A r \in w.scene.legend \cup w.scene.words :
    /\ ~Runs(points, r, 0)
    /\ \A q \in LabelRect(e, points) : ~RectsOverlap(q, r, 0)
ClearsFrameBorders(w, points) == ~FollowsBorder([points |-> points], w.scene.frames)
FitsCanvasOrigin(e, points) ==
  /\ \A i \in DOMAIN points : points[i][1] >= 0 /\ points[i][2] >= 0
  /\ e.labelAt = <<>> => \A r \in LabelRect(e, points) : r.x >= 0 /\ r.y >= 0

\* readableCandidateIsFeasible
Feasible(w, e, points, sides) ==
  /\ Len(points) >= 2
  /\ Orthogonal(points)
  /\ HonorsEndpointSides(points, sides[1], sides[2])
  /\ MeetsHardRhythm(points)
  /\ ClearsEndpointNodes(points, Box(w, e.from), Box(w, e.to))
  /\ ClearsUnrelatedNodes(w, e, points)
  /\ LabelClearsNodes(w, e, points)
  /\ ClearsPlacedLabels(w, e, points)
  /\ ClearsWords(w, e, points)
  /\ ClearsFrameBorders(w, points)
  /\ FitsCanvasOrigin(e, points)

-----------------------------------------------------------------------------
(* What a candidate costs, the dearest first.                              *)

Total(n, value(_)) == FoldLeft(LAMBDA sum, i : sum + value(i), 0, [i \in 1..n |-> i])
Strangers(w, e) == {i \in Placed(w) : Apart(e, w.placed[i].edge)}
AxisOverlapLength(a, b, c, d) ==
  LET axis == IF Level(a, b) THEN 1 ELSE 2 IN
  IF a[3 - axis] = b[3 - axis] /\ c[3 - axis] = d[3 - axis] /\ a[3 - axis] = c[3 - axis]
  THEN Larger(0, Smaller(Larger(a[axis], b[axis]), Larger(c[axis], d[axis]))
                  - Larger(Smaller(a[axis], b[axis]), Smaller(c[axis], d[axis])))
  ELSE 0
StrictlyIn(v, m, n) == Smaller(m, n) < v /\ v < Larger(m, n)
ProperAxisCrossing(a, b, c, d) ==
  /\ Level(a, b) # Level(c, d)
  /\ IF Level(a, b) THEN StrictlyIn(c[1], a[1], b[1]) /\ StrictlyIn(a[2], c[2], d[2])
     ELSE StrictlyIn(a[1], c[1], d[1]) /\ StrictlyIn(c[2], a[2], b[2])

\* routeInteractionMetrics, over one other relation
Crossings(points, other) ==
  Cardinality({ij \in Steps(points) \X Steps(other) :
                 ProperAxisCrossing(points[ij[1]], points[ij[1] + 1],
                                    other[ij[2]], other[ij[2] + 1])})
SharedPixels(points, other) ==
  Total(Len(points) - 1, LAMBDA i : Total(Len(other) - 1, LAMBDA j :
    AxisOverlapLength(points[i], points[i + 1], other[j], other[j + 1])))
\* labelRouteClearanceDeficit
Deficit(points, r) ==
  Total(Len(points) - 1, LAMBDA i : Larger(0, 8 - Clearance(points[i], points[i + 1], r)))
NameDeficit(w, e, points) ==
  Total(Len(w.placed), LAMBDA i :
    LET p == w.placed[i] IN
    MapThenSumSet(LAMBDA r : Deficit(p.points, r), LabelRect(e, points))
      + MapThenSumSet(LAMBDA r : Deficit(points, r), PlacedLabel(p)))

\* automaticForwardReversePx
BackwardPixels(w, e, points) ==
  IF e.returns \/ w.doc.nodes[e.to].col <= w.doc.nodes[e.from].col THEN 0
  ELSE Total(Len(points) - 1, LAMBDA i : Larger(0, points[i][1] - points[i + 1][1]))

RouteCost(w, e, points, ordinal, natural) ==
  LET n == Len(points)
      from == Box(w, e.from)
      to == Box(w, e.to)
      length == RouteLength(points)
      direct == Manhattan(points[1], points[n])
      strangers == Strangers(w, e)
      low == <<Min({points[i][1] : i \in 1..n}), Min({points[i][2] : i \in 1..n})>>
      high == <<Max({points[i][1] : i \in 1..n}), Max({points[i][2] : i \in 1..n})>>
  IN  <<BackwardPixels(w, e, points),
        MapThenSumSet(LAMBDA i : Crossings(points, w.placed[i].points), strangers),
        MapThenSumSet(LAMBDA i : SharedPixels(points, w.placed[i].points), strangers),
        NameDeficit(w, e, points),
        Total(Larger(0, n - 3), LAMBDA i : Larger(0, 28 - Manhattan(points[i + 1], points[i + 2]))),
        n - 2,
        IF direct = 0 THEN 1000 ELSE (2000 * length + direct) \div (2 * direct),
        Larger(0, -low[1]) + Larger(0, high[1] - w.scene.canvas[1])
          + Larger(0, -low[2]) + Larger(0, high[2] - w.scene.canvas[2]),
        Manhattan(points[1], Anchor(from, natural[1])) + Manhattan(points[n], Anchor(to, natural[2])),
        Distance(Cx(from), LegacyCenters[w.doc.nodes[e.from].col + 1])
          + Distance(Cx(to), LegacyCenters[w.doc.nodes[e.to].col + 1]),
        ordinal>>
\* compareCost
Cheaper(a, b) == \E i \in DOMAIN a : a[i] < b[i] /\ \A j \in 1..i - 1 : a[j] = b[j]
Cheapest(plans) == CHOOSE p \in plans : \A q \in plans : ~Cheaper(q.cost, p.cost)
=============================================================================
