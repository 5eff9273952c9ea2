----------------------------- MODULE MCGeometry -----------------------------
EXTENDS GeometryChecks, TLC

Frame(x, y, w, h, radius) ==
  [x |-> x, y |-> y, width |-> w, height |-> h, radius |-> radius]
SomeFrames == {Frame(1, 1, 2, 1, 0), Frame(0, 1, 4, 3, 1), Frame(2, 2, 1, 1, 1), Frame(1, 0, 1, 4, 0)}
Relation(points) == [from |-> "a", to |-> "b", points |-> points]
SomeOthers ==
  {Relation(<<<<0, 2>>, <<4, 2>>>>), Relation(<<<<2, 0>>, <<2, 2>>, <<2, 4>>>>),
   Relation(<<<<1, 1>>, <<3, 1>>, <<3, 3>>>>), Relation(<<<<0, 1>>, <<4, 3>>>>)}

\* A box with others to its right and below it, and up to four relations.
Box(x, y, w, h) == Rect(x, y, w, h)
Around ==
  ("hub" :> Box(0, 20, 10, 12)) @@ ("up" :> Box(40, 0, 10, 8)) @@ ("level" :> Box(40, 22, 10, 8))
    @@ ("down" :> Box(40, 50, 10, 8)) @@ ("below" :> Box(0, 60, 10, 8))
Rel(from, to, name) ==
  [from |-> from, to |-> to, fromSide |-> "auto", toSide |-> "auto", name |-> name]
Candidates ==
  {Rel("hub", "up", 1), Rel("hub", "level", 2), Rel("down", "hub", 3), Rel("hub", "level", 4),
   Rel("hub", "below", 5), Rel("hub", "down", 0)}
SomeFans == {[boxes |-> Around, relations |-> r] : r \in SUBSET Candidates}
=============================================================================
