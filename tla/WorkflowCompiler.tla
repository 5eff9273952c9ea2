--------------------------- MODULE WorkflowCompiler ---------------------------
(***************************************************************************)
(* renderers/workflow/workflow-compiler.mjs: a document is laid out, its   *)
(* relations are placed one after the other, each on what the ones before  *)
(* left free, and the picture is judged.  A relation that finds no way may *)
(* ask for room, and the layout starts over with it, a few times.          *)
(***************************************************************************)
EXTENDS WorkflowReview

CONSTANT Documents
VARIABLES doc, room, round, step, scene, sides, placed, request, outcome
vars == <<doc, room, round, step, scene, sides, placed, request, outcome>>

Rounds == 3
NoScene == <<>>
Nothing == [what |-> "none", pair |-> <<0, 0>>, least |-> 0]
Pending == "pending"
Work == [doc |-> doc, scene |-> scene, placed |-> placed]

Init ==
  /\ doc \in {Canonical(d) : d \in Documents}
  /\ room = NoRoom /\ round = 0 /\ step = "open" /\ outcome = Pending
  /\ scene = NoScene /\ sides = <<>> /\ placed = <<>> /\ request = Nothing

Ends(codes) ==
  /\ \E code \in codes : outcome' = code
  /\ step' = "done"

\* The contract, the layout and the boxes, before anything is routed.
LayOut(s) ==
  IF InputFaults(doc, s.boxes) # NoFault
  THEN Ends({"node-overlap"}) /\ UNCHANGED <<scene, sides>>
  ELSE /\ scene' = s
       /\ sides' = FirstSides([doc |-> doc, scene |-> s, placed |-> <<>>])
       /\ step' = "route" /\ UNCHANGED outcome
Open ==
  /\ step = "open"
  /\ placed' = <<>> /\ request' = Nothing
  /\ \E faults \in {FirstFilled(ContractBroken(doc), NameFaults(doc))} :
       IF faults # NoFault THEN Ends(faults) /\ UNCHANGED <<scene, sides>>
       ELSE \E s \in {Scene(doc, room)} : LayOut(s)
  /\ UNCHANGED <<doc, room, round>>

\* The next relation in the canonical order; the ones placed stay where they are.
Place ==
  /\ step = "route" /\ Len(placed) < Len(doc.edges)
  /\ LET i == Len(placed) + 1
         e == doc.edges[i]
     IN  IF ControlsConflict(e) \/ BelowOrigin(e)
         THEN Ends({"explicit-pin-conflict"}) /\ UNCHANGED <<placed, request>>
         ELSE \E r \in {Route(Work, i, sides)} :
           CASE r.kind = "plan" ->
                  LET p == [edge |-> e, points |-> r.points, sides |-> r.sides] IN
                  /\ placed' = Append(placed, p)
                  /\ IF PinsHold(Work, p) THEN UNCHANGED <<step, outcome>>
                     ELSE Ends({"explicit-pin-conflict"})
                  /\ UNCHANGED request
             [] r.kind = "ask" ->
                  /\ request' = [what |-> r.what, pair |-> r.pair, least |-> r.least]
                  /\ step' = "ask" /\ UNCHANGED <<placed, outcome>>
             [] r.kind = "fail" -> Ends({r.code}) /\ UNCHANGED <<placed, request>>
  /\ UNCHANGED <<doc, room, round, scene, sides>>

\* compileWorkflowWithFeedback: room is given once for each least it is asked for.
Given(r) == IF r.what = "lane" THEN room.gap
            ELSE IF r.pair \in DOMAIN room.ranks THEN room.ranks[r.pair] ELSE 0

Widened(r) == IF r.what = "lane" THEN [room EXCEPT !.gap = r.least]
              ELSE [room EXCEPT !.ranks = (r.pair :> r.least) @@ @]
AskAgain ==
  /\ step = "ask"
  /\ IF request.least > Given(request) /\ round < Rounds
     THEN /\ room' = Widened(request) /\ round' = round + 1 /\ step' = "open"
          /\ UNCHANGED outcome
     ELSE Ends({"solver-budget-exhausted"}) /\ UNCHANGED <<room, round>>
  /\ UNCHANGED <<doc, scene, sides, placed, request>>

\* Everything is placed: the lines against each other, the picture, the canvas.
Verdict ==
  FirstFilled(PairwiseFaults(Work),
    FirstFilled(Fault(LayoutFaults(Work) # NoFault, "layout-validation"),
      FirstFilled(ViewBoxFaults(Work), {"ok"})))
Judge ==
  /\ step = "route" /\ Len(placed) = Len(doc.edges)
  /\ Ends(Verdict)
  /\ UNCHANGED <<doc, room, round, scene, sides, placed, request>>

Next == Open \/ Place \/ AskAgain \/ Judge
Spec == Init /\ [][Next]_vars /\ WF_vars(Next)

-----------------------------------------------------------------------------
(* What a compiled workflow promises its author.                           *)

LaidOut == scene # NoScene
Free(e) == ~Authored(e) /\ e.labelAt = <<>>

\* Columns give way until the nodes of a lane are apart (createReadableLayout): only
\* nodes the author put in one column can be refused as too close.
OnlyOneColumnCrowds ==
  outcome = "node-overlap" =>
    \E i, j \in DOMAIN doc.nodes : /\ i # j /\ doc.nodes[i].lane = doc.nodes[j].lane
                                   /\ doc.nodes[i].col = doc.nodes[j].col

\* The frame of a group holds its nodes and no node covers its name, however far a
\* node is moved up or down in its lane (the reserve of lane heights, 495-526).
GroupsFrameTheirNodes ==
  LaidOut => \A g \in doc.groups :
    LET frame == GroupFrame(doc, scene.layout, g)
        name == GroupName(doc, scene.layout, g)
    IN  \A i \in {k \in DOMAIN doc.nodes : InBand(doc.nodes[k], g)} :
          LET b == scene.boxes[i] IN
          /\ frame.x <= b.x /\ b.x + b.width <= frame.x + frame.width
          /\ frame.y <= b.y /\ b.y + b.height <= frame.y + frame.height
          /\ ~RectsOverlap(name, b, 0)

\* Both: nodes have their room, in their column and in the frame around them.
NodesHaveRoom == OnlyOneColumnCrowds /\ GroupsFrameTheirNodes

\* What the search for a route accepts, the review of the finished picture accepts: of a
\* document whose every line is left to the compiler, none is refused for what a line or
\* its name runs into, at either of the two reviews (the stricter rules of a showcase are
\* not among them: the search only counts what breaks those).
OwnRoutesPassReview ==
  (LaidOut /\ \A e \in EdgesOf(doc) : Free(e)) =>
    /\ RouteFaults(Work) = NoFault
    /\ Len(placed) = Len(doc.edges) => PairwiseFaults(Work) = NoFault

\* A pin is kept or the document refused (renderers/workflow/README.md: "rather than
\* being silently moved"): each bend, channel, side and named family.
PinsAreKept ==
  outcome = "ok" => \A i \in DOMAIN placed :
    LET p == placed[i] e == p.edge IN
    /\ e.via # <<>> => SubSeq(p.points, 2, Len(p.points) - 1) = e.via
    /\ \A c \in e.channelX : HoldsChannel(p.points, 1, c)
    /\ \A c \in e.channelY : HoldsChannel(p.points, 2, c)
    /\ e.route # "auto" => MatchesPreset(Work, e, p.points)
    /\ Allowed(e, p.sides)

\* The canvas of an accepted document holds all that is drawn on it (renderSvg), which
\* is more than measuredContentBounds measures: frames and names of lanes as well.
Drawn == Range(scene.boxes) \cup scene.frames \cup scene.words \cup scene.legend
           \cup UNION {PlacedLabel(placed[i]) : i \in DOMAIN placed}
PictureFitsCanvas ==
  outcome = "ok" =>
    LET box == ViewBox(Work) IN
    /\ \A r \in Drawn : /\ r.x >= 0 /\ r.x + r.width <= box[1]
                        /\ r.y >= 0 /\ r.y + r.height <= box[2]
    /\ \A q \in Touched(Work) : InBox(q, 0, 0, box[1], box[2])

\* Room that was given is there: the new layout is never asked for it again, so that no
\* round of the few there are is spent in vain (compileWorkflowWithFeedback).
RoomIsGivenOnce == step = "ask" => request.least > Given(request)

=============================================================================
