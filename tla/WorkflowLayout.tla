--------------------------- MODULE WorkflowLayout ---------------------------
(***************************************************************************)
(* renderers/workflow/workflow-compiler.mjs, before a line is routed: the  *)
(* canonical document, the contract it states about itself, the columns    *)
(* and lanes that make room for it, and what is drawn around its relations.*)
(*                                                                         *)
(* A document d has lanes (a sequence), nodes (a function from ids, which  *)
(* are numbers so that they have an order), edges (a sequence), phases and *)
(* groups.  Text is its measured width in pixels, 0 when there is none; an *)
(* absent coordinate is an empty set, an absent point an empty sequence.   *)
(* Lengths are whole pixels and the measured widths even.  The document is *)
(* of schema version 2: version 1 has fixed columns and routes of its own. *)
(***************************************************************************)
EXTENDS Geometry

ColumnCount == 6
OneOf(set, otherwise) == IF set = {} THEN otherwise ELSE CHOOSE x \in set : TRUE
FirstFilled(set, next) == IF set # {} THEN set ELSE next
LegacyCenters == <<88, 220, 300, 430, 500, 625>>
NoRoom == [ranks |-> <<>>, gap |-> 0]     \* no layout feedback yet

EdgesOf(d) == ToSet(d.edges)
Known(d, e) == {e.from, e.to} \subseteq DOMAIN d.nodes
Half(n) == n \div 2
VerticallyNear(a, b, gap) == 2 * Distance(a.dy, b.dy) < a.height + b.height + 2 * gap

-----------------------------------------------------------------------------
(* canonicalReadableWorkflow: the edges in an order of their own.  Of the  *)
(* nodes, phases and groups a reader of this model sees no order.          *)
EdgeKey(e) == <<e.id, e.from, e.to, e.label>>
KeyBefore(a, b) == \E i \in DOMAIN a : a[i] < b[i] /\ \A j \in 1..i - 1 : a[j] = b[j]
Canonical(d) ==
  [d EXCEPT !.edges = SortSeq(@, LAMBDA e, f : KeyBefore(EdgeKey(e), EdgeKey(f)))]

\* semanticContractDiagnostics: what the document says of itself and is not so.
Reachable(d, from) ==
  LET step(seen, i) == seen \cup {e.to : e \in {f \in EdgesOf(d) : Known(d, f) /\ f.from \in seen}}
  IN  FoldLeft(step, {from}, [i \in 1..Cardinality(DOMAIN d.nodes) |-> i])
ContractBroken(d) ==
  LET c == d.checks
      drawn == {<<e.from, e.to>> : e \in EdgesOf(d)}
      known == {e \in EdgesOf(d) : Known(d, e)}
      named == UNION c.roots \cup UNION c.terminals
                 \cup UNION {{p[1], p[2]} : p \in c.edges \cup c.paths}
  IN  IF ~(named \subseteq DOMAIN d.nodes) THEN {"semantic-node-reference"}
      ELSE {v \in {"unexpected-root", "unexpected-terminal", "required-edge", "required-path"} :
              \/ v = "unexpected-root" /\ \E roots \in c.roots :
                   ~((DOMAIN d.nodes \ {e.to : e \in known}) \subseteq roots)
              \/ v = "unexpected-terminal" /\ \E ends \in c.terminals :
                   ~((DOMAIN d.nodes \ {e.from : e \in known}) \subseteq ends)
              \/ v = "required-edge" /\ ~(c.edges \subseteq drawn)
              \/ v = "required-path" /\ \E p \in c.paths : p[2] \notin Reachable(d, p[1])}

-----------------------------------------------------------------------------
(* Constraints between columns: the least distance of their centres.       *)

Apart2(from, to, least) == [from |-> from, to |-> to, least |-> least]
Baseline == {Apart2(c, c + 1, 120) : c \in 0..ColumnCount - 2}
Granted(room) == {Apart2(p[1], p[2], room.ranks[p]) : p \in DOMAIN room.ranks}

Beside(d) ==
  {Apart2(p[1].col, p[2].col, Half(p[1].width) + 8 + Half(p[2].width)) :
     p \in {q \in Range(d.nodes) \X Range(d.nodes) :
              /\ q[1].lane = q[2].lane /\ q[1].col < q[2].col /\ VerticallyNear(q[1], q[2], 8)}}

\* An edge that would be one straight line between two nodes of a lane.
Pinned(e) == e.via # <<>> \/ e.channelX # {} \/ e.channelY # {}
Direct(d, e) ==
  /\ Known(d, e) /\ ~Pinned(e) /\ e.route \in {"auto", "straight"}
  /\ LET a == d.nodes[e.from] b == d.nodes[e.to]
     IN  a.lane = b.lane /\ a.col # b.col /\ a.dy = b.dy
LabelRoom(e) == IF e.label > 0 /\ e.labelAt = <<>> THEN Larger(28, e.label + 8) ELSE 28
\* Its label is longer than a way around would be: it goes over a channel.
ChannelDetour == 4 * 28
OverChannel(d, e) ==
  /\ Direct(d, e) /\ e.label > 0 /\ e.labelAt = <<>>
  /\ e.route = "auto" /\ e.fromSide = "auto" /\ e.toSide = "auto"
  /\ LabelRoom(e) - 28 > ChannelDetour
Facing(d) ==
  {LET a == d.nodes[e.from] b == d.nodes[e.to]
       room == IF OverChannel(d, e) THEN 28 ELSE LabelRoom(e)
   IN  Apart2(Smaller(a.col, b.col), Larger(a.col, b.col), Half(a.width) + room + Half(b.width)) :
     e \in {f \in EdgesOf(d) : Direct(d, f)}}

\* A band of columns with a title: of one column, the next one gives way.
SpanLeast(band, wide, natural) ==
  IF band.from # band.to
  THEN {Apart2(band.from, band.to, Larger(0, wide - natural))}
  ELSE IF band.to < ColumnCount - 1
  THEN {Apart2(band.to, band.to + 1, 120 + Larger(0, wide - natural))}
  ELSE {}
Bands(d) == UNION {SpanLeast(p, p.width + 8, 92) : p \in d.phases}
              \cup UNION {SpanLeast(g, g.width + 20, 100) : g \in d.groups}

\* A slip: nodes that face each other without an edge keep no distance.
LooseMutant(d, room) == Baseline \cup Granted(room) \cup Facing(d) \cup Bands(d)
Constraints(d, room) == Baseline \cup Granted(room) \cup Beside(d) \cup Facing(d) \cup Bands(d)

\* The leftmost columns that keep them all; centre of column c at c + 1.
Solved(constraints) ==
  FoldLeft(LAMBDA xs, to :
             Append(xs, Max({94 + 120 * to}
                            \cup {xs[c.from + 1] + c.least : c \in {k \in constraints : k.to = to}})),
           <<94>>, [to \in 1..ColumnCount - 1 |-> to])

-----------------------------------------------------------------------------
(* Frames around columns, and how far everything moves to the right.       *)

InBand(n, g) == n.lane = g.lane /\ g.from <= n.col /\ n.col <= g.to
\* readableGroupBounds
GroupBounds(d, xs, g) ==
  LET start == xs[g.from + 1] - 50
      natural == xs[g.to + 1] + 50 - start
      width == Larger(natural, g.width + 20)
      left == IF g.from = g.to THEN start ELSE start + Half(natural - width)
      inside == {n \in Range(d.nodes) : InBand(n, g)}
      low == Min({left} \cup {xs[n.col + 1] - Half(n.width) - 4 : n \in inside})
      high == Max({left + width} \cup {xs[n.col + 1] + Half(n.width) + 4 : n \in inside})
  IN  [x |-> low, width |-> high - low]

\* spanForCols
SpanForCols(xs, band, pad, least) ==
  LET start == xs[band.from + 1] - pad
      natural == xs[band.to + 1] + pad - start
      width == Larger(natural, least)
  IN  [x |-> IF band.from = band.to THEN start ELSE start + Half(natural - width), width |-> width]

Moved(xs, by) == [i \in DOMAIN xs |-> xs[i] + by]
FirstRankShift(d, xs) ==
  Larger(0, 48 + Max({46} \cup {Half(n.width) : n \in {m \in Range(d.nodes) : m.col = 0}}) - xs[1])
\* A line to the top of a node must not go through the name of its lane.
HeaderShift(d, xs) ==
  LET upper == UNION {{i \in DOMAIN d.nodes : \/ i = e.from /\ e.fromSide = "top"
                                              \/ i = e.to /\ e.toSide = "top"} :
                        e \in {f \in EdgesOf(d) : f.via = <<>> /\ f.channelX = {}}}
  IN  Max({0} \cup {56 + d.lanes[d.nodes[i].lane].header - xs[d.nodes[i].col + 1] : i \in upper})
ContentShift(d, xs) ==
  Max({0}
      \cup {16 - Half(xs[d.nodes[e.from].col + 1] + xs[d.nodes[e.to].col + 1] - e.label) :
              e \in {f \in EdgesOf(d) : OverChannel(d, f)}}
      \cup {16 - SpanForCols(xs, p, 46, p.width + 8).x : p \in d.phases}
      \cup {44 - GroupBounds(d, xs, g).x : g \in d.groups})
ForFirstRank(d, xs) == Moved(xs, FirstRankShift(d, xs))
ForHeaders(d, xs) == Moved(xs, HeaderShift(d, xs))
ForContent(d, xs) == Moved(xs, ContentShift(d, xs))
Columns(d, room) == ForContent(d, ForHeaders(d, ForFirstRank(d, Solved(Constraints(d, room)))))

-----------------------------------------------------------------------------
(* Lanes: as high as their nodes need, more where a group is framed.       *)

LaneWidth(d, xs) ==
  Larger(640,
    Larger(Max({xs[ColumnCount] + 50}
               \cup {xs[n.col + 1] + Half(n.width) : n \in Range(d.nodes)}
               \cup {b.x + b.width : b \in {GroupBounds(d, xs, g) : g \in d.groups}}) - 32,
           Max({0} \cup {d.lanes[i].header + 30 : i \in DOMAIN d.lanes})))
BaseHeight(d) ==
  Larger(74, 2 * Max({Half(n.height) + Distance(n.dy, 0) : n \in Range(d.nodes)}) + 8)

\* A slip: a lane grows at its foot only.
FlatNameMutant(d, xs, base, lane) ==
  LET framed == UNION {{n \in Range(d.nodes) : InBand(n, g)} : g \in {h \in d.groups : h.lane = lane}}
      top(n) == Half(base - n.height) + n.dy
  IN  [header |-> 0,
       footer |-> Max({0} \cup {1 - (base - 4 - top(n) - n.height) : n \in framed})]
GroupReserve(d, xs, base, lane) ==
  LET groups == {g \in d.groups : g.lane = lane}
      held(g) == {n \in Range(d.nodes) : InBand(n, g)}
      top(n) == Half(base - n.height) + n.dy
      named(n, g) == LET left == GroupBounds(d, xs, g).x + 10 IN
                       /\ xs[n.col + 1] + Half(n.width) > left
                       /\ xs[n.col + 1] - Half(n.width) < left + g.width
  IN  [header |-> Max({0} \cup UNION {{(IF named(n, g) THEN 11 ELSE 9) - top(n) : n \in held(g)} :
                                        g \in groups}),
       footer |-> Max({0} \cup UNION {{1 - (base - 4 - top(n) - n.height) : n \in held(g)} :
                                        g \in groups})]

\* createReadableLayout
AroundColumns(d, gap, xs, base, width) ==
  LET reserve == [i \in DOMAIN d.lanes |-> GroupReserve(d, xs, base, i)]
  IN  [xs |-> xs, laneWidth |-> width, gap |-> gap, base |-> base,
       header |-> [i \in DOMAIN d.lanes |-> reserve[i].header],
       footer |-> [i \in DOMAIN d.lanes |-> reserve[i].footer], width |-> 40 + width + 16]
InLanes(d, gap, xs) == AroundColumns(d, gap, xs, BaseHeight(d), LaneWidth(d, xs))
\* A slip: lanes keep the distance they have by default.
FixedGapMutant(d, room) == InLanes(d, 20, Columns(d, room))
ReadableLayout(d, room) == InLanes(d, Larger(20, room.gap), Columns(d, room))

-----------------------------------------------------------------------------
(* The scene: everything but the relations, where it is drawn.             *)

LaneHeight(l, i) == 30 + l.header[i] + l.base + l.footer[i]
LaneTop(l, i) ==
  FoldLeft(LAMBDA y, j : y + LaneHeight(l, j) + l.gap, 52, [j \in 1..i - 1 |-> j])
LastLaneBottom(d, l) == LaneTop(l, Len(d.lanes)) + LaneHeight(l, Len(d.lanes))
LegendY(d, l) == LastLaneBottom(d, l) + 44
\* workflowLegendRects: the title and the one entry a small legend has.
LegendRects(d, l) ==
  IF d.legend = 0 THEN {}
  ELSE {Rect(20, LegendY(d, l) - 30, 48, 14), Rect(20, LegendY(d, l) - 10, d.legend, 14)}

MeasureNode(l, n) ==
  Rect(l.xs[n.col + 1] - Half(n.width),
       LaneTop(l, n.lane) + 30 + l.header[n.lane] + Half(l.base - n.height) + n.dy,
       n.width, n.height)

GroupSpan(d, l, g) == GroupBounds(d, l.xs, g)
PhaseSpan(d, l, p) == SpanForCols(l.xs, p, 46, p.width + 8)
GroupFrame(d, l, g) ==
  LET span == GroupSpan(d, l, g) IN
  Rect(span.x, LaneTop(l, g.lane) + 38, span.width,
       LaneHeight(l, g.lane) - 12 - 30)

\* workflowCompositionFrames
Framed(r, radius) ==
  [x |-> r.x, y |-> r.y, width |-> r.width, height |-> r.height, radius |-> radius]
Frames(d, l) ==
  {Framed(Rect(40, LaneTop(l, i), l.laneWidth, LaneHeight(l, i)), 10) : i \in DOMAIN d.lanes}
    \cup {Framed(Rect(46, LaneTop(l, i) + 6, l.laneWidth - 12, LaneHeight(l, i) - 12), 8) :
             i \in {j \in DOMAIN d.lanes : d.lanes[j].exception}}
    \cup {Framed(GroupFrame(d, l, g), 9) : g \in d.groups}

\* workflowSceneLabelObstacles
GroupName(d, l, g) ==
  Rect(GroupSpan(d, l, g).x + 10, LaneTop(l, g.lane) + 26, g.width, 14)
SceneLabels(d, l) ==
  {Rect(54, LaneTop(l, i) + 12, d.lanes[i].header, 14) : i \in DOMAIN d.lanes}
    \cup {LET span == PhaseSpan(d, l, p) IN Rect(span.x, 27, span.width, 16) : p \in d.phases}
    \cup {GroupName(d, l, g) : g \in d.groups}

SceneIn(d, l) ==
  [layout |-> l,
   boxes |-> [i \in DOMAIN d.nodes |-> MeasureNode(l, d.nodes[i])],
   frames |-> Frames(d, l), words |-> SceneLabels(d, l), legend |-> LegendRects(d, l),
   canvas |-> <<Larger(l.width, d.legend + 40), LastLaneBottom(d, l) + 124>>]
Scene(d, room) == SceneIn(d, ReadableLayout(d, room))
=============================================================================
