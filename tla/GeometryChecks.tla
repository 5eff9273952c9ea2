--------------------------- MODULE GeometryChecks ---------------------------
(***************************************************************************)
(* What the checks of Geometry promise the renderers, on a small lattice.  *)
(* A scene is a route that grows by a point at a time, as an author writes *)
(* it or a router tries it: first one segment of any direction, then       *)
(* segments along the axes; or it is a fan of relations between boxes.     *)
(***************************************************************************)
EXTENDS Geometry

CONSTANTS
  Grid,        \* bound: the largest coordinate
  MaxPoints,   \* bound: the longest route
  Frames,      \* rectangles a route may touch, with the radius of their corners
  Others,      \* relations already drawn
  Fans         \* boxes around one, and the relations between them: [boxes, relations]

VARIABLES route, fan
vars == <<route, fan>>

Lattice == (0..Grid) \X (0..Grid)
Drawn(points) == [from |-> "left end", to |-> "right end", points |-> points]

NoFan == [boxes |-> <<>>, relations |-> {}]
Init ==
  \/ fan = NoFan /\ \E p \in Lattice : route = <<p>>
  \/ fan \in Fans /\ route = <<>>
Extend ==
  /\ fan = NoFan /\ UNCHANGED fan
  /\ Len(route) < MaxPoints
  /\ \E p \in Lattice :
       /\ p # Last(route)
       /\ Len(route) > 1 => /\ p[1] = Last(route)[1] \/ p[2] = Last(route)[2]
                            /\ route[1][1] = route[2][1] \/ route[1][2] = route[2][2]
       /\ route' = Append(route, p)
Next == Extend
Spec == Init /\ [][Next]_vars

-----------------------------------------------------------------------------
(* HitsWhatItTouches: a route is said to run through a box, with its       *)
(* clearance around it, exactly when some point of one of its segments     *)
(* lies in that rectangle.  The points where a segment crosses a lattice   *)
(* line divide it by at most Grid, so a multiple of it divides them all.   *)
Twelfths == 0..12
Touches(a, b, rect, gap) ==
  \E k \in Twelfths :
    InBox(<<12 * a[1] + k * (b[1] - a[1]), 12 * a[2] + k * (b[2] - a[2])>>,
          12 * (rect.x - gap), 12 * (rect.y - gap),
          12 * (rect.x + rect.width + gap), 12 * (rect.y + rect.height + gap))
HitsWhatItTouches ==
  Len(route) > 1 =>
    LET a == route[Len(route) - 1] b == Last(route) IN
    \A f \in Frames, gap \in 0..1 :
      SegmentIntersectsRect(a, b, f, gap) <=> Touches(a, b, f, gap)

(* WaypointsDontMatter: a point put on the way straight on changes nothing *)
(* the reader sees, and no verdict: the same relations share a corridor    *)
(* with the route, it has as many bends and is as long, the same number of *)
(* its steps is too short, and where waypoints are merged (workflows of    *)
(* schema version 2) the same relations cross it.  Where they are not, a   *)
(* waypoint hides the relations that go through that very point from the   *)
(* test for crossings, and it hides and adds no other.                     *)
Crossing(points, merged) == {o \in Others : Crosses(Drawn(points), o, merged)}
Verdicts(points) ==
  [crossed |-> Crossing(points, TRUE),
   along |-> {o \in Others : ShareCorridor(Drawn(points), o, 1)},
   bends |-> Bends(points), length |-> RouteLength(points),
   hasty |-> Cardinality(RhythmIssues(points, 3, 2)),
   cramped |-> Cardinality(ShortSegments(points, 2)),
   near |-> {f \in Frames : LabelTooNear(f, Drawn(points), 1)},
   framed |-> {f \in Frames : FollowsBorder(Drawn(points), {f})}]
Midway(a, b) == <<(a[1] + b[1]) \div 2, (a[2] + b[2]) \div 2>>
Through(m) ==
  {o \in Others : \E t \in Segments(o.points) : Cross(t[1], t[2], m) = 0 /\ OnSegment(t[1], m, t[2])}
WaypointsDontMatter ==
  \A i \in 1..Len(route) - 1 :
    LET a == route[i]
        b == route[i + 1]
        m == Midway(a, b)
        with == SubSeq(route, 1, i) \o <<m>> \o SubSeq(route, i + 1, Len(route))
    IN  m \notin {a, b} /\ Cross(a, m, b) = 0 =>
          /\ Verdicts(with) = Verdicts(route)
          /\ Crossing(with, FALSE) \subseteq Crossing(route, FALSE)
          /\ Crossing(route, FALSE) \ Crossing(with, FALSE) \subseteq Through(m)

(* BorderRunIsCovered: how far a route follows a border of a frame is how  *)
(* much of that border it covers, however often it goes over a part of it. *)
Covered(points, border) ==
  LET axis == IF border[1][2] = border[2][2] THEN 1 ELSE 2
      fixed == border[1][3 - axis]
      within(c, s) == /\ s[1][3 - axis] = fixed /\ s[2][3 - axis] = fixed
                      /\ Smaller(s[1][axis], s[2][axis]) <= c
                      /\ c < Larger(s[1][axis], s[2][axis])
  IN  Cardinality({c \in 0..Grid : within(c, border) /\ \E s \in Segments(points) : within(c, s)})
BorderRunIsCovered ==
  \A f \in Frames : \A b \in Borders(f) : BorderRun(route, b) = Covered(route, b)

(* RoutesAreMeasured: what the tests say of a route is what its points     *)
(* are: boxes hit, relations crossed, borders followed.                    *)
RoutesAreMeasured == HitsWhatItTouches /\ WaypointsDontMatter /\ BorderRunIsCovered

(* PortsStayApart: ends that share a side of a box are at different places *)
(* of it, none nearer to a corner than the gutter, and two that lead to    *)
(* boxes at different heights are in the order of these boxes, so that the *)
(* lines to them do not cross.                                             *)
Gutter == 2
PortsStayApart ==
  \A id \in DOMAIN fan.boxes, side \in Sides :
    LET place == PortSpread(fan.relations, fan.boxes, id, side, Gutter, 4)
        extent == IF Horizontal(side) THEN fan.boxes[id].height ELSE fan.boxes[id].width
    IN  extent > 2 * Gutter =>
        \A e, f \in DOMAIN place :
          /\ e # f => place[e] # place[f]
          /\ 2 * place[e] <= Fine * (extent - 2 * Gutter)
          /\ Towards(e, fan.boxes, side) < Towards(f, fan.boxes, side) => place[e] < place[f]
=============================================================================
