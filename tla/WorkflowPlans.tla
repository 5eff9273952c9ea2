---------------------------- MODULE WorkflowPlans ----------------------------
(***************************************************************************)
(* renderers/workflow/workflow-compiler.mjs: which routes are tried, and   *)
(* which one is taken.  A route is sought for a pair of sides <<of the     *)
(* source, of the target>>; what comes of it is a plan, a request for a    *)
(* wider layout, or the reason why there is none.                          *)
(***************************************************************************)
EXTENDS WorkflowRoutes, TLC

Stub(p, side) == <<p[1] + 16 * Outward[side][1], p[2] + 16 * Outward[side][2]>>
CorridorY(start, end, sides, y) ==
  LET a == Stub(start, sides[1]) b == Stub(end, sides[2]) IN <<a, <<a[1], y>>, <<b[1], y>>, b>>
CorridorX(start, end, sides, x) ==
  LET a == Stub(start, sides[1]) b == Stub(end, sides[2]) IN <<a, <<x, a[2]>>, <<x, b[2]>>, b>>
Along(start, via, end) == NormalizeRoutePoints(<<start>> \o via \o <<end>>)

LaneOf(w, id) == w.doc.nodes[id].lane
TopOf(w, id) == LaneTop(w.scene.layout, LaneOf(w, id))
BottomOf(w, id) == TopOf(w, id) + LaneHeight(w.scene.layout, LaneOf(w, id))
GapYBetween(w, e) == Half(BottomOf(w, e.from) + TopOf(w, e.to))
OutsideLeft == 40 - 20
OutsideRight(w) == 40 + w.scene.layout.laneWidth + 12

\* readableAutomaticCandidateSet: nine families of routes, in their order.
RawVias(w, e, start, end, sides) ==
  LET top == Smaller(TopOf(w, e.from), TopOf(w, e.to))
      bottom == Larger(BottomOf(w, e.from), BottomOf(w, e.to))
      gapY == IF LaneOf(w, e.from) = LaneOf(w, e.to) THEN top - 16 ELSE GapYBetween(w, e)
  IN  <<<<>>, <<<<end[1], start[2]>>>>, <<<<start[1], end[2]>>>>,
        CorridorY(start, end, sides, gapY),
        CorridorX(start, end, sides, Half(start[1] + end[1])),
        CorridorX(start, end, sides, OutsideLeft),
        CorridorX(start, end, sides, OutsideRight(w)),
        CorridorY(start, end, sides, Larger(8, top - 16)),
        CorridorY(start, end, sides, bottom + 16)>>
Plan(w, e, points, sides, ordinal, natural) ==
  [points |-> points, sides |-> sides, cost |-> RouteCost(w, e, points, ordinal, natural)]
FeasiblePlans(w, e, routes, sides, pair, natural) ==
  {Plan(w, e, routes[i], sides, 9 * pair + i, natural) :
     i \in {j \in DOMAIN routes : Feasible(w, e, routes[j], sides)}}
Candidates(w, e, start, end, sides, pair, natural) ==
  FeasiblePlans(w, e, [i \in 1..9 |-> Along(start, RawVias(w, e, start, end, sides)[i], end)],
                sides, pair, natural)

-----------------------------------------------------------------------------
(* The pairs of sides, and the pair a relation is first tried with.        *)

SideOrder == <<"right", "bottom", "left", "top">>
AllPairs == [k \in 1..16 |-> <<SideOrder[((k - 1) \div 4) + 1], SideOrder[((k - 1) % 4) + 1]>>]
Allowed(e, pair) ==
  /\ e.fromSide \in {"auto", pair[1]}
  /\ e.toSide \in {"auto", pair[2]}
PairsFrom(e, first) ==
  SelectSeq(<<first>>, LAMBDA p : Allowed(e, p))
    \o SelectSeq(AllPairs, LAMBDA p : Allowed(e, p) /\ p # first)
Natural(w, e) ==
  <<ChosenSide(e.fromSide, DefaultFromSide(Box(w, e.from), Box(w, e.to))),
    ChosenSide(e.toSide, DefaultToSide(Box(w, e.from), Box(w, e.to)))>>
Automatic(e) == ~Pinned(e) /\ e.route = "auto"

\* oneBendCrossLaneVia, of the sides that leave one bend between them
BendHolds(w, e, points, sides) ==
  /\ Len(points) = 3 /\ HonorsEndpointSides(points, sides[1], sides[2])
  /\ \A i \in 1..2 : Manhattan(points[i], points[i + 1]) >= 8
  /\ ClearsUnrelatedNodes(w, e, points)
OneBend(w, e, sides) ==
  LET start == Anchor(Box(w, e.from), sides[1])
      end == Anchor(Box(w, e.to), sides[2])
      corner == IF Upright(sides[1]) THEN <<start[1], end[2]>> ELSE <<end[1], start[2]>>
  IN  BendHolds(w, e, Along(start, <<corner>>, end), sides)
\* legacyAutomaticOneBendSides: none, or the first of two that does.
OneBendSides(w, e) ==
  LET from == Box(w, e.from)
      to == Box(w, e.to)
      down == Cy(to) >= Cy(from)
      left == Cx(to) < Cx(from)
      first == <<IF down THEN "bottom" ELSE "top", IF left THEN "right" ELSE "left">>
      second == <<IF left THEN "left" ELSE "right", IF down THEN "top" ELSE "bottom">>
  IN  IF \/ e.via # <<>> \/ e.route # "auto" \/ e.fromSide # "auto" \/ e.toSide # "auto"
         \/ LaneOf(w, e.from) = LaneOf(w, e.to) \/ Cx(from) = Cx(to) \/ Cy(from) = Cy(to)
      THEN <<>> ELSE SelectSeq(<<first, second>>, LAMBDA s : OneBend(w, e, s))

\* readableAutomaticSides: the preferred pair when it leads anywhere, else the best.
PairsInOrder(e, bend, natural) ==
  LET pairs == PairsFrom(e, IF bend # <<>> THEN bend[1] ELSE natural) IN
  IF bend = <<>> \/ bend[1] = natural THEN pairs
  ELSE <<bend[1], natural>> \o SelectSeq(Tail(pairs), LAMBDA p : p # natural)
PlansOf(w, e, pairs, tried, natural) ==
  UNION {Candidates(w, e, Anchor(Box(w, e.from), pairs[i][1]), Anchor(Box(w, e.to), pairs[i][2]),
                    pairs[i], i - 1, natural) : i \in tried}
SidesOfCheapest(plans) == IF plans = {} THEN {} ELSE {Cheapest(plans).sides}
SidesAmong(w, e, pairs, natural) ==
  FirstFilled(SidesOfCheapest(PlansOf(w, e, pairs, {1}, natural)),
              SidesOfCheapest(PlansOf(w, e, pairs, DOMAIN pairs, natural)))
ReadableSides(w, e) ==
  IF ~Automatic(e) \/ (e.fromSide # "auto" /\ e.toSide # "auto") THEN {}
  ELSE SidesAmong(w, e, PairsInOrder(e, OneBendSides(w, e), Natural(w, e)), Natural(w, e))
EdgeSides(w, e) ==
  OneOf(ReadableSides(w, e), IF OverChannel(w.doc, e) THEN <<"top", "top">> ELSE Natural(w, e))

(***************************************************************************)
(* automaticPorts: the relations that are free to be drawn anywhere have   *)
(* their sides chosen before any is placed, and share these sides out.     *)
(***************************************************************************)
Spreads(w) == {i \in DOMAIN w.doc.edges :
                 LET e == w.doc.edges[i] IN
                 Known(w.doc, e) /\ Automatic(e) /\ e.labelAt = <<>>}
FirstSides(w) == [i \in Spreads(w) |-> EdgeSides([w EXCEPT !.placed = <<>>], w.doc.edges[i])]
Port(w, sides, i, end) ==
  LET e == w.doc.edges[i]
      id == IF end = "from" THEN e.from ELSE e.to
      side == sides[i][IF end = "from" THEN 1 ELSE 2]
      relations == {[from |-> w.doc.edges[j].from, to |-> w.doc.edges[j].to,
                     fromSide |-> sides[j][1], toSide |-> sides[j][2], name |-> j] :
                      j \in DOMAIN sides}
      at == Anchor(Box(w, id), side)
      ours(offset) == OneOf({offset[x] : x \in {y \in DOMAIN offset : y.rel.name = i /\ y.end = end}}, 0)
      put(off) == IF Upright(side) THEN <<at[1] + off \div Fine, at[2]>>
                  ELSE <<at[1], at[2] + off \div Fine>>
  IN  put(ours(PortSpread(relations, w.scene.boxes, id, side, 16, 14)))

-----------------------------------------------------------------------------
(* readableAutomaticVia, once no candidate is feasible: the way around on  *)
(* the right is moved out until it is, then back as far as it stays so.    *)

Blocking(w, e, points) ==      \* how far right what is in the way of the name reaches
  LET beyond(r) ==
        {b.x + b.width - 2 - r.x : b \in {c \in Boxes(w) : RectsOverlap(r, c, -2)}}
        \cup UNION {{q.x + q.width - 2 - r.x : q \in {o \in PlacedLabel(w.placed[i]) : RectsOverlap(r, o, -2)}}
                      : i \in Placed(w)}
        \cup UNION {LET p == w.placed[i].points IN
                    {Larger(p[k][1], p[k + 1][1]) + 4 - r.x :
                       k \in {j \in Steps(p) : Clearance(p[j], p[j + 1], r) < 4}} : i \in Placed(w)}
  IN  UNION {beyond(r) : r \in LabelRect(e, points)}
Rightmost(w) ==
  Max({OutsideRight(w)} \cup {b.x + b.width : b \in Boxes(w)}
      \cup UNION {{w.placed[i].points[k][1] : k \in DOMAIN w.placed[i].points}
                    \cup {q.x + q.width : q \in PlacedLabel(w.placed[i])} : i \in Placed(w)})
Probes == 7
MovedOut(w, e, start, end, sides) ==
  LET right == OutsideRight(w)
      at(x) == Along(start, CorridorX(start, end, sides, x), end)
      good(x) == Feasible(w, e, at(x), sides)
      first == Max({right} \cup {right + 2 * b : b \in {n \in Blocking(w, e, at(right)) : n > 0}})
      probes(x) == LET growth == Max({32, e.label, Rightmost(w) + 16 - x}) IN
                   FoldLeft(LAMBDA xs, i : Append(xs, Last(xs) + growth * 2 ^ (i - 1)),
                            <<x>>, [i \in 1..Probes - 1 |-> i])
      firstGood(probe) == {i \in 1..Probes : /\ probe[i] > right /\ good(probe[i])
                                             /\ \A j \in 1..i - 1 : probe[j] > right => ~good(probe[j])}
      halve(b, i) == LET mid == (b[1] + b[2] + 1) \div 2 IN
                     IF mid >= b[2] THEN b ELSE IF good(mid) THEN <<b[1], mid>> ELSE <<mid, b[2]>>
      closest(probe, i) ==
        LET below == IF i = 1 THEN right ELSE Larger(right, probe[i - 1]) IN
        FoldLeft(halve, <<below, probe[i]>>, [k \in 1..15 |-> k])[2]
      from(probe) == {at(closest(probe, i)) : i \in firstGood(probe)}
  IN  from(probes(first))

\* What a pair without a route makes of it: a plea for room, or a verdict.
Asks(what, from, to, least) == [kind |-> "ask", what |-> what, pair |-> <<from, to>>, least |-> least]
Fails(code) == [kind |-> "fail", code |-> code]
AskFor(w, e, start, end, sides) ==
  LET a == w.doc.nodes[e.from]
      b == w.doc.nodes[e.to]
      low == Smaller(a.col, b.col)
      high == Larger(a.col, b.col)
      least == Half(a.width) + 32 + Half(b.width)
      xs == w.scene.layout.xs
  IN  IF /\ \/ sides = <<"right", "left">> /\ end[1] > start[1]
            \/ sides = <<"left", "right">> /\ start[1] > end[1]
         /\ a.col # b.col /\ xs[high + 1] - xs[low + 1] < least
      THEN Asks("rank", low, high, least)
      ELSE IF a.lane # b.lane /\ w.scene.layout.gap < 32 THEN Asks("lane", 0, 0, 32)
      ELSE Fails("solver-budget-exhausted")

(***************************************************************************)
(* classifyFailedAutomaticCandidatePins: is it a pin that is in the way?   *)
(* The candidates it is handed have no points yet, so a name whose place   *)
(* depends on them cannot be measured: that throws a TypeError.            *)
(***************************************************************************)
AbsolutePin(e) == e.labelAt # <<>> \/ Pinned(e)
ClassifiedPins(w, e) ==
  LET prior == {w.placed[i] : i \in Placed(w)} IN
  IF prior = {} \/ e.label = 0 THEN {}
  ELSE IF e.labelAt = <<>>
  THEN IF \E p \in prior : AbsolutePin(p.edge) THEN {"TypeError"} ELSE {}
  ELSE {"explicit-pin-conflict" : r \in {q \in LabelRect(e, <<>>) : \E p \in prior :
           \/ \E o \in PlacedLabel(p) : RectsOverlap(q, o, -2)
           \/ NearestStep(p.points, q) < 4}}
NoRoute(w, e, start, end, sides) ==
  OneOf({Fails(code) : code \in ClassifiedPins(w, e)}, AskFor(w, e, start, end, sides))

\* readableAutomaticRoute: every pair of sides is tried, the first from its ports.
Decided(e, plans, refusal) ==
  LET asking(what) == {i \in DOMAIN refusal : refusal[i].kind = "ask" /\ refusal[i].what = what}
  IN  IF plans # {}
      THEN LET p == Cheapest(plans) IN [kind |-> "plan", points |-> p.points, sides |-> p.sides]
      ELSE IF asking("rank") # {} THEN refusal[Min(asking("rank"))]
      ELSE IF asking("lane") # {} THEN refusal[Min(asking("lane"))]
      ELSE IF e.fromSide # "auto" \/ e.toSide # "auto" THEN Fails("explicit-pin-conflict")
      ELSE refusal[1]
AlongPairs(w, e, pairs, natural, from, to) ==
  LET start(i) == IF i = 1 THEN from ELSE Anchor(Box(w, e.from), pairs[i][1])
      end(i) == IF i = 1 THEN to ELSE Anchor(Box(w, e.to), pairs[i][2])
      planned(i) ==
        FirstFilled(Candidates(w, e, start(i), end(i), pairs[i], i - 1, natural),
                    {Plan(w, e, p, pairs[i], 9 * (i - 1) + 7, natural) :
                       p \in MovedOut(w, e, start(i), end(i), pairs[i])})
  IN  Decided(e, UNION {planned(i) : i \in DOMAIN pairs},
              [i \in DOMAIN pairs |-> NoRoute(w, e, start(i), end(i), pairs[i])])
AutomaticRoute(w, e, first, from, to) ==
  AlongPairs(w, e, PairsFrom(e, first), Natural(w, e), from, to)

-----------------------------------------------------------------------------
(* Routes the author controls: a named family, channels, or every bend.    *)

Presets == {"straight", "drop", "outside-right", "return-left", "bottom-channel", "up-channel"}
\* routeVia, of a controlled relation
ControlledVia(w, e, start, end) ==
  LET from == Box(w, e.from)
      to == Box(w, e.to)
      overX(x) == <<<<x, start[2]>>, <<x, end[2]>>>>
      overY(y) == <<<<start[1], y>>, <<end[1], y>>>>
      y == OneOf(e.channelY, 0)
      x == OneOf(e.channelX, 0)
  IN  CASE e.via # <<>> -> e.via
        [] e.via = <<>> /\ e.route = "straight" -> <<>>
        [] e.via = <<>> /\ e.route = "drop" -> overY(OneOf(e.channelY, GapYBetween(w, e)))
        [] e.via = <<>> /\ e.route = "outside-right" -> overX(OneOf(e.channelX, OutsideRight(w)))
        [] e.via = <<>> /\ e.route = "return-left" ->
             overX(OneOf(e.channelX, Smaller(from.x, to.x) - 28))
        [] e.via = <<>> /\ e.route = "bottom-channel" ->
             overY(OneOf(e.channelY, Larger(from.y + from.height, to.y + to.height) + 32))
        [] e.via = <<>> /\ e.route = "up-channel" ->
             overY(OneOf(e.channelY, Smaller(from.y, to.y) - 28))
        [] OTHER -> IF e.channelX # {} /\ e.channelY # {}
                    THEN <<<<x, start[2]>>, <<x, y>>, <<end[1], y>>>>
                    ELSE IF e.channelX # {} THEN overX(x) ELSE overY(y)

\* corridorTopologyMatches: the route is the corridor at c, bend for bend.
Orientation(points) == [i \in Steps(points) |-> Level(points[i], points[i + 1])]
HoldsChannel(points, axis, c) ==
  \E i \in Steps(points) : /\ points[i][axis] = c /\ points[i + 1][axis] = c
                           /\ points[i][3 - axis] # points[i + 1][3 - axis]
CorridorTopology(points, axis, c) ==
  LET p == NormalizeRoutePoints(points)
      via == IF axis = 1 THEN <<<<c, p[1][2]>>, <<c, Last(p)[2]>>>>
             ELSE <<<<p[1][1], c>>, <<Last(p)[1], c>>>>
      expected == Along(p[1], via, Last(p))
  IN  Orientation(p) = Orientation(expected) /\ HoldsChannel(p, axis, c)
\* routeMatchesPresetFamily
MatchesPreset(w, e, points) ==
  LET p == NormalizeRoutePoints(points)
      from == Box(w, e.from)
      to == Box(w, e.to)
      upper == IF Cy(from) <= Cy(to) THEN from ELSE to
      lower == IF Cy(from) <= Cy(to) THEN to ELSE from
      over(axis, inside(_)) ==
        \E i \in Steps(p) : /\ p[i][axis] = p[i + 1][axis] /\ inside(p[i][axis])
                            /\ CorridorTopology(points, axis, p[i][axis])
  IN  CASE e.route = "straight" -> Len(p) = 2
        [] e.route = "drop" ->
             /\ LaneOf(w, e.from) # LaneOf(w, e.to)
             /\ \/ Len(p) = 2 /\ Vertical(p[1], p[2])
                \/ over(2, LAMBDA y : upper.y + upper.height <= y /\ y <= lower.y)
        [] e.route = "outside-right" ->
             over(1, LAMBDA x : x > Larger(from.x + from.width, to.x + to.width))
        [] e.route = "return-left" -> over(1, LAMBDA x : x < Smaller(from.x, to.x))
        [] e.route = "bottom-channel" ->
             over(2, LAMBDA y : y > Larger(from.y + from.height, to.y + to.height))
        [] e.route = "up-channel" -> over(2, LAMBDA y : y < Smaller(from.y, to.y))

(***************************************************************************)
(* readableControlledRoute: the sides that carry the authored geometry.    *)
(* When none does, pinned geometry is kept as it is, to be judged later; a *)
(* named family fails here.                                                *)
(***************************************************************************)
ControlledRoute(w, e) ==
  LET natural == Natural(w, e)
      pairs == PairsFrom(e, natural)
      points(i) ==
        LET start == Anchor(Box(w, e.from), pairs[i][1])
            end == Anchor(Box(w, e.to), pairs[i][2])
            authored == <<start>> \o ControlledVia(w, e, start, end) \o <<end>>
        IN  IF Pinned(e) THEN authored ELSE NormalizeRoutePoints(authored)
      kept(p) == /\ \A c \in e.channelX : HoldsChannel(p, 1, c)
                 /\ \A c \in e.channelY : HoldsChannel(p, 2, c)
      good == {i \in DOMAIN pairs :
                 /\ Feasible(w, e, points(i), pairs[i])
                 /\ e.route # "auto" => MatchesPreset(w, e, points(i))
                 /\ kept(points(i))}
      upright == {i \in DOMAIN pairs : HonorsEndpointSides(points(i), pairs[i][1], pairs[i][2])}
      chosen(i) == [kind |-> "plan", points |-> points(i), sides |-> pairs[i]]
  IN  IF good # {}
      THEN LET p == Cheapest({Plan(w, e, points(i), pairs[i], i, natural) : i \in good})
           IN  [kind |-> "plan", points |-> p.points, sides |-> p.sides]
      ELSE IF ~Pinned(e) THEN Fails("route-preset-conflict")
      ELSE chosen(IF upright # {} THEN Min(upright) ELSE 1)

\* pathFor
Route(w, i, sides) ==
  LET e == w.doc.edges[i] IN
  IF ~Automatic(e) THEN ControlledRoute(w, e)
  ELSE IF i \in DOMAIN sides
  THEN AutomaticRoute(w, e, sides[i], Port(w, sides, i, "from"), Port(w, sides, i, "to"))
  ELSE LET first == EdgeSides(w, e) IN
       AutomaticRoute(w, e, first, Anchor(Box(w, e.from), first[1]), Anchor(Box(w, e.to), first[2]))
=============================================================================
