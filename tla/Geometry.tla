------------------------------ MODULE Geometry ------------------------------
(***************************************************************************)
(* renderers/shared/geometry.mjs: the checks every renderer puts its boxes *)
(* and routes through.  A point is a pair of integers, a route a sequence  *)
(* of points, a rectangle the record of its corner and extent; lengths are *)
(* compared squared.  A relation names its two ends and is drawn along its *)
(* points.                                                                 *)
(***************************************************************************)
EXTENDS Integers, Sequences, SequencesExt, FiniteSetsExt

Rect(x, y, width, height) == [x |-> x, y |-> y, width |-> width, height |-> height]
Larger(m, n) == IF m > n THEN m ELSE n
Smaller(m, n) == IF m < n THEN m ELSE n
Distance(m, n) == IF m > n THEN m - n ELSE n - m

RectsOverlap(a, b, gap) ==
  /\ a.x + a.width + gap > b.x /\ b.x + b.width + gap > a.x
  /\ a.y + a.height + gap > b.y /\ b.y + b.height + gap > a.y

Cross(a, b, c) == (b[1] - a[1]) * (c[2] - a[2]) - (b[2] - a[2]) * (c[1] - a[1])
Sign(n) == IF n > 0 THEN 1 ELSE IF n < 0 THEN -1 ELSE 0

InBox(p, x1, y1, x2, y2) == x1 <= p[1] /\ p[1] <= x2 /\ y1 <= p[2] /\ p[2] <= y2
OnSegment(a, b, c) ==
  InBox(b, Smaller(a[1], c[1]), Smaller(a[2], c[2]), Larger(a[1], c[1]), Larger(a[2], c[2]))

SegmentsIntersect(a, b, c, d) ==
  LET o1 == Sign(Cross(a, b, c))
      o2 == Sign(Cross(a, b, d))
      o3 == Sign(Cross(c, d, a))
      o4 == Sign(Cross(c, d, b))
  IN  \/ o1 = 0 /\ OnSegment(a, c, b)
      \/ o2 = 0 /\ OnSegment(a, d, b)
      \/ o3 = 0 /\ OnSegment(c, a, d)
      \/ o4 = 0 /\ OnSegment(c, b, d)
      \/ o1 # o2 /\ o3 # o4

\* A slip: only the sides of the rectangle are looked at.
SidesOnlyMutant(a, b, rect, gap) ==
  LET low == <<rect.x - gap, rect.y - gap>>
      high == <<rect.x + rect.width + gap, rect.y + rect.height + gap>>
      corner == <<low, <<high[1], low[2]>>, high, <<low[1], high[2]>>>>
  IN  \E i \in 1..4 : SegmentsIntersect(a, b, corner[i], corner[(i % 4) + 1])
SegmentIntersectsRect(a, b, rect, gap) ==
  LET x1 == rect.x - gap
      y1 == rect.y - gap
      x2 == rect.x + rect.width + gap
      y2 == rect.y + rect.height + gap
      corner == <<<<x1, y1>>, <<x2, y1>>, <<x2, y2>>, <<x1, y2>>>>
  IN  \/ InBox(a, x1, y1, x2, y2) \/ InBox(b, x1, y1, x2, y2)
      \/ \E i \in 1..4 : SegmentsIntersect(a, b, corner[i], corner[(i % 4) + 1])

\* segmentRectClearance is below the threshold, by its square.
Square(n) == n * n
NearPoint(p, a, b, threshold) ==
  LET dx == b[1] - a[1]
      dy == b[2] - a[2]
      along == (p[1] - a[1]) * dx + (p[2] - a[2]) * dy
      length == Square(dx) + Square(dy)
  IN  IF along <= 0 THEN Square(p[1] - a[1]) + Square(p[2] - a[2]) < Square(threshold)
      ELSE IF along >= length THEN Square(p[1] - b[1]) + Square(p[2] - b[2]) < Square(threshold)
      ELSE Square(Cross(a, b, p)) < Square(threshold) * length

Outside(v, low, extent) == Larger(Larger(low - v, 0), v - (low + extent))
NearRect(p, rect, threshold) ==
  Square(Outside(p[1], rect.x, rect.width)) + Square(Outside(p[2], rect.y, rect.height))
    < Square(threshold)

SegmentNearRect(a, b, rect, threshold) ==
  /\ threshold > 0
  /\ \/ SegmentIntersectsRect(a, b, rect, 0)
     \/ NearRect(a, rect, threshold) \/ NearRect(b, rect, threshold)
     \/ \E x \in {rect.x, rect.x + rect.width}, y \in {rect.y, rect.y + rect.height} :
          NearPoint(<<x, y>>, a, b, threshold)

-----------------------------------------------------------------------------
(* Routes.                                                                 *)

Segments(points) == {<<points[i], points[i + 1]>> : i \in 1..Len(points) - 1}

Dot(a, b, c) == (b[1] - a[1]) * (c[1] - b[1]) + (b[2] - a[2]) * (c[2] - b[2])
CollinearForward(a, b, c) == Cross(a, b, c) = 0 /\ Dot(a, b, c) >= 0

Deduped(points) ==
  FoldLeft(LAMBDA kept, p : IF kept # <<>> /\ Last(kept) = p THEN kept ELSE Append(kept, p),
           <<>>, points)

\* A point on the way straight on is dropped, as often as that leaves another.
Straightened(kept, p) ==
  LET passed(i) == i >= 2 /\ CollinearForward(kept[i - 1], kept[i], p) IN
  Append(SubSeq(kept, 1, Max({i \in 0..Len(kept) :
                               /\ ~passed(i) /\ \A j \in i + 1..Len(kept) : passed(j)})), p)
NormalizeRoutePoints(points) == FoldLeft(Straightened, <<>>, Deduped(points))

\* forwardCollinearAnalysisSegments, without what it remembers of the source.
ContinuesForward(s, t) ==
  /\ s[2] = t[1] /\ s[1] # s[2] /\ t[1] # t[2]
  /\ Cross(s[1], s[2], t[2]) = 0 /\ Dot(s[1], s[2], t[2]) > 0
\* A slip: the segments as they were written.
AuthoredMutant(points) == {<<points[i], points[i + 1]>> : i \in 1..Len(points) - 1}
AnalysisSegments(points) ==
  ToSet(FoldLeft(LAMBDA kept, i :
      LET next == <<points[i], points[i + 1]>> IN
      IF kept # <<>> /\ ContinuesForward(Last(kept), next)
      THEN Append(Front(kept), <<Last(kept)[1], next[2]>>) ELSE Append(kept, next),
    <<>>, [i \in 1..Len(points) - 1 |-> i]))

Apart(r, s) == {r.from, r.to} \cap {s.from, s.to} = {}

\* cleanCrossingProblems: two segments cross at a point inside of both.  Only a workflow
\* of schema version 2 has straight-through waypoints merged first.
Opposite(m, n) == Sign(m) * Sign(n) < 0
ProperCrossing(s, t) ==
  /\ Opposite(Cross(s[1], s[2], t[1]), Cross(s[1], s[2], t[2]))
  /\ Opposite(Cross(t[1], t[2], s[1]), Cross(t[1], t[2], s[2]))
SegmentsToCompare(points, mergeForwardCollinearWaypoints) ==
  IF mergeForwardCollinearWaypoints THEN AnalysisSegments(points) ELSE Segments(points)
Crosses(r, s, mergeForwardCollinearWaypoints) ==
  /\ Apart(r, s)
  /\ \E a \in SegmentsToCompare(r.points, mergeForwardCollinearWaypoints),
        b \in SegmentsToCompare(s.points, mergeForwardCollinearWaypoints) :
       ProperCrossing(a, b)

\* collinearAxisOverlap: the axis, the fixed coordinate and the interval, if any.
AxisOverlap(s, t) ==
  {o \in {[axis |-> i, fixed |-> s[1][3 - i],
           low |-> Larger(Smaller(s[1][i], s[2][i]), Smaller(t[1][i], t[2][i])),
           high |-> Smaller(Larger(s[1][i], s[2][i]), Larger(t[1][i], t[2][i]))] :
             i \in {j \in 1..2 : {s[1][3 - j], s[2][3 - j], t[1][3 - j], t[2][3 - j]}
                                  = {s[1][3 - j]}}} :
     o.low < o.high}

\* collectAmbiguousCorridors: unrelated relations run along each other.
ShareCorridor(r, s, least) ==
  /\ Apart(r, s)
  /\ \E a \in Segments(NormalizeRoutePoints(r.points)),
        b \in Segments(NormalizeRoutePoints(s.points)) :
       \E o \in AxisOverlap(a, b) : o.high - o.low >= least

\* cleanFlowProblems: the boxes, of neither end, that a route runs through.
Blockers(r, boxes, clearance) ==
  {b \in boxes : /\ b.id \notin {r.from, r.to}
                 /\ \E s \in Segments(r.points) :
                      SegmentIntersectsRect(s[1], s[2], b, clearance)}

\* collectBorderRuns: what of the straight part of each side a route follows.
Borders(f) ==
  LET round == Smaller(f.radius, Smaller(f.width \div 2, f.height \div 2))
      right == f.x + f.width
      bottom == f.y + f.height
  IN  {b \in {<<<<f.x + round, f.y>>, <<right - round, f.y>>>>,
              <<<<right, f.y + round>>, <<right, bottom - round>>>>,
              <<<<right - round, bottom>>, <<f.x + round, bottom>>>>,
              <<<<f.x, bottom - round>>, <<f.x, f.y + round>>>>} : b[1] # b[2]}

\* A slip: overlaps that meet or cover each other are all counted.
UnmergedMutant(overlaps) == SetToSeq(overlaps)
Merged(overlaps) ==
  FoldLeft(LAMBDA kept, o :
      IF kept # <<>> /\ o.low <= Last(kept).high
      THEN Append(Front(kept), [Last(kept) EXCEPT !.high = Larger(@, o.high)])
      ELSE Append(kept, o),
    <<>>, SetToSortSeq(overlaps, LAMBDA o, q :
            \/ o.low < q.low
            \/ o.low = q.low /\ o.high < q.high))

BorderRun(points, border) ==
  FoldLeft(LAMBDA sum, o : sum + o.high - o.low, 0,
           Merged(UNION {AxisOverlap(s, border) : s \in Segments(points)}))
FollowsBorder(r, frames) == \E f \in frames : \E b \in Borders(f) : BorderRun(r.points, b) > 0

\* collectRouteRhythmIssues: the steps too short, inside a route more so.
Manhattan(a, b) == Distance(a[1], b[1]) + Distance(a[2], b[2])
RhythmIssues(points, interior, micro) ==
  LET p == NormalizeRoutePoints(points)
      length(i) == Manhattan(p[i], p[i + 1])
  IN  {i \in 1..Len(p) - 1 : \/ length(i) < micro
                             \/ i \in 2..Len(p) - 2 /\ length(i) < interior}

\* routeBudgetMetrics, as far as a route costs by it: bends, length, short steps.
Bends(points) == Larger(0, Len(NormalizeRoutePoints(points)) - 2)
RouteLength(points) ==
  FoldLeft(LAMBDA sum, i : sum + Manhattan(points[i], points[i + 1]), 0,
           [i \in 1..Len(points) - 1 |-> i])
ShortSegments(points, least) ==
  LET p == NormalizeRoutePoints(points)
  IN  {i \in 1..Len(p) - 1 : Manhattan(p[i], p[i + 1]) < least}

\* collectLabelRouteClearance: a label too near the route of another relation.
LabelTooNear(label, r, threshold) ==
  \E s \in Segments(NormalizeRoutePoints(r.points)) :
    SegmentNearRect(s[1], s[2], label, threshold)

-----------------------------------------------------------------------------
(* Sides and ports.                                                        *)

Sides == {"left", "right", "top", "bottom"}
Horizontal(side) == side \in {"left", "right"}
Outward == [left |-> <<-1, 0>>, right |-> <<1, 0>>, top |-> <<0, -1>>, bottom |-> <<0, 1>>]

Cx(r) == r.x + r.width \div 2
Cy(r) == r.y + r.height \div 2
Anchor(r, side) ==
  CASE side = "left"  -> <<r.x, Cy(r)>>
    [] side = "right" -> <<r.x + r.width, Cy(r)>>
    [] side = "top"   -> <<Cx(r), r.y>>
    [] OTHER          -> <<Cx(r), r.y + r.height>>

DefaultFromSide(from, to) ==
  IF Cx(to) < Cx(from) THEN "left" ELSE IF Cx(to) > Cx(from) THEN "right"
  ELSE IF Cy(to) > Cy(from) THEN "bottom" ELSE "top"
DefaultToSide(from, to) ==
  IF Cx(to) < Cx(from) THEN "right" ELSE IF Cx(to) > Cx(from) THEN "left"
  ELSE IF Cy(to) > Cy(from) THEN "top" ELSE "bottom"

ChosenSide(side, fallback) == IF side = "auto" THEN fallback ELSE side

\* endpointSideIssue: the step along the side's axis, outward from the box.
Leaves(a, b, side) ==
  LET v == Outward[side] IN
  /\ (b[1] - a[1]) * v[2] = (b[2] - a[2]) * v[1]
  /\ (b[1] - a[1]) * v[1] + (b[2] - a[2]) * v[2] > 0
HonorsEndpointSides(points, fromSide, toSide) ==
  LET p == NormalizeRoutePoints(points) IN
  Len(p) >= 2 => /\ Leaves(p[1], p[2], fromSide)
                 /\ Leaves(Last(p), p[Len(p) - 1], toSide)

(***************************************************************************)
(* automaticPortSpread: the ends that share a side of a box are put next   *)
(* to each other along it, in the order of the boxes they lead to, and of  *)
(* their names where these are level.  An end is placed in units of        *)
(* 1/Fine; relations are [from, to, fromSide, toSide, name], boxes by id.   *)
(***************************************************************************)
Fine == 12
EndsAt(relations, boxes, id, side) ==
  {e \in {[rel |-> r, end |-> w] : r \in relations, w \in {"from", "to"}} :
     LET r == e.rel IN
     IF e.end = "from"
     THEN r.from = id /\ ChosenSide(r.fromSide, DefaultFromSide(boxes[id], boxes[r.to])) = side
     ELSE r.to = id /\ ChosenSide(r.toSide, DefaultToSide(boxes[r.from], boxes[id])) = side}

Towards(e, boxes, side) ==
  LET other == boxes[IF e.end = "from" THEN e.rel.to ELSE e.rel.from]
  IN  IF Horizontal(side) THEN Cy(other) ELSE Cx(other)

\* A slip: the ends are put next to each other in the order of their names.
ByNameMutant(relations, boxes, id, side, gutter, most) ==
  LET ends == EndsAt(relations, boxes, id, side)
      order == SetToSortSeq(ends, LAMBDA e, f : e.rel.name < f.rel.name)
  IN  [e \in ends |-> (2 * (CHOOSE j \in 1..Len(order) : order[j] = e) - (Len(order) + 1)) * Fine]
PortSpread(relations, boxes, id, side, gutter, most) ==
  LET ends == EndsAt(relations, boxes, id, side)
      before(e, f) == \/ Towards(e, boxes, side) < Towards(f, boxes, side)
                      \/ /\ Towards(e, boxes, side) = Towards(f, boxes, side)
                         /\ e.rel.name < f.rel.name
      order == SetToSortSeq(ends, before)
      n == Len(order)
      extent == IF Horizontal(side) THEN boxes[id].height ELSE boxes[id].width
      spacing == Smaller(Fine * most, (Fine * Larger(0, extent - 2 * gutter)) \div (n - 1))
  IN  IF n < 2 \/ spacing = 0 THEN [e \in ends |-> 0]
      ELSE [e \in ends |-> LET i == CHOOSE j \in 1..n : order[j] = e
                           IN  ((2 * i - (n + 1)) * spacing) \div 2]

=============================================================================
