------------------------------ MODULE MCWorkflow ------------------------------
(* Documents of up to nine nodes and three relations, in pixels.            *)
EXTENDS WorkflowCompiler

Node(lane, col, width, dy) == [lane |-> lane, col |-> col, width |-> width, height |-> 52, dy |-> dy]
Plain(lane, col) == Node(lane, col, 92, 0)
Edge(id, from, to, label) ==
  [id |-> id, from |-> from, to |-> to, label |-> label, labelAt |-> <<>>, route |-> "auto",
   fromSide |-> "auto", toSide |-> "auto", via |-> <<>>, channelX |-> {}, channelY |-> {},
   returns |-> FALSE]
Nothing2 == [roots |-> {}, terminals |-> {}, edges |-> {}, paths |-> {}]
Document(lanes, nodes, edges) ==
  [lanes |-> [i \in 1..lanes |-> [header |-> 80, exception |-> FALSE]],
   nodes |-> nodes, edges |-> edges, phases |-> {}, groups |-> {}, legend |-> 70,
   checks |-> Nothing2, mainPath |-> <<>>, showcase |-> FALSE, viewBox |-> <<>>]

\* Three nodes over two lanes, two relations with and without a name, in both orders.
Small ==
  {Document(2, <<Plain(1, 0), Node(1, a, w, 0), Plain(2, b)>>, edges) :
     a \in {1, 2}, w \in {92, 160}, b \in {0, 1},
     edges \in {<<Edge(1, 1, 2, 60), Edge(2, 2, 3, 60)>>, <<Edge(2, 1, 3, 0), Edge(1, 3, 2, 140)>>,
                <<Edge(1, 1, 2, 240), Edge(2, 2, 1, 60)>>}}

\* Two relations from one lane to the other, of any four columns.
Across ==
  {Document(2, <<Plain(1, p[1]), Plain(1, p[2]), Plain(2, q[1]), Plain(2, q[2])>>,
            <<Edge(1, 1, x, l[1]), Edge(2, 2, y, l[2])>>) :
     p \in {<<0, 1>>, <<0, 2>>, <<1, 2>>}, q \in {<<0, 1>>, <<0, 2>>, <<1, 2>>},
     x \in {3, 4}, y \in {3, 4}, l \in {<<60, 60>>, <<0, 200>>, <<200, 140>>}}

\* A node with others on all of its sides; where to, and after which pinned relation.
Boxed(to, label, others) ==
  Document(3, <<Node(1, 1, 112, 0), Node(1, 0, 112, 0), Node(1, 2, 112, 0), Node(1, 1, 112, 60),
                Node(1, 1, 112, -60), to, Plain(3, 3), Plain(3, 5)>>,
           others \o <<Edge(5, 1, 6, label)>>)
Narrow == {Boxed(Node(2, c, 92, 0), l, <<>>) : c \in {1, 2}, l \in {0, 60}}
            \cup {Boxed(Node(1, 3, 92, 30), 60, <<>>)}
PinnedFirst == [Edge(1, 7, 8, 40) EXCEPT !.labelAt = <<620, 560>>]

\* Groups and phases, with nodes off the middle of their lane.
Grouped ==
  {[Document(2, <<Node(1, 1, 92, a), Node(1, 2, w, b), Plain(2, 0)>>, <<Edge(1, 1, 2, 0), Edge(2, 3, 1, 40)>>)
      EXCEPT !.groups = {[lane |-> 1, from |-> f, to |-> 2, width |-> 90]},
             !.phases = {[from |-> 0, to |-> 1, width |-> 70], [from |-> 2, to |-> 2, width |-> 150]}] :
     a \in {-30, 0}, b \in {0, 24}, w \in {92, 180}, f \in {1, 2}}

Two(edge) == Document(2, <<Plain(1, 0), Plain(1, 3), Plain(2, 2)>>, <<edge, Edge(2, 2, 3, 60)>>)
PinnedDocs ==
  {Two(e) : e \in
     {[Edge(1, 1, 2, l) EXCEPT !.channelY = {y}] : y \in {40, 104, 176}, l \in {0, 60}}
     \cup {[Edge(1, 1, 3, 0) EXCEPT !.channelX = {x}] : x \in {-4, 220, 330, 760}}
     \cup {[Edge(1, 1, 3, 0) EXCEPT !.via = <<<<x, 119>>, <<x, 243>>>>, !.channelX = {z}] :
              x \in {220, 230}, z \in {220, 224}}
     \cup {[Edge(1, 1, 2, 60) EXCEPT !.labelAt = p] : p \in {<<260, 108>>, <<94, 119>>, <<10, 4>>, <<300, 250>>}}
     \cup {[Edge(1, 1, 3, 60) EXCEPT !.route = r] : r \in Presets}
     \cup {[Edge(1, 2, 1, 60) EXCEPT !.route = r, !.returns = TRUE] : r \in {"return-left", "up-channel"}}
     \cup {[Edge(1, 1, 3, 60) EXCEPT !.route = "straight", !.channelX = {220}]}
     \cup {[Edge(1, 1, 2, 60) EXCEPT !.labelAt = <<790, 250>>]}
     \cup {[Edge(1, 1, 2, 60) EXCEPT !.fromSide = s, !.toSide = t] : s \in {"top", "left"}, t \in {"auto", "bottom"}}}

\* A channel beyond the lanes.
Outlying ==
  {Document(2, <<Plain(1, 0), Plain(1, 3), Plain(2, 2)>>,
            <<[Edge(1, 2, 3, 0) EXCEPT !.channelX = {x}]>>) : x \in {740, 800}}

\* Names of lanes that are wider than what is in them, and a lane for exceptions.
Headed ==
  {[Document(2, <<Plain(1, 0), Plain(1, c), Plain(2, 1)>>, <<Edge(1, 1, 2, 0), Edge(2, 2, 3, 60)>>)
      EXCEPT !.lanes = <<[header |-> 80, exception |-> FALSE], [header |-> h, exception |-> TRUE]>>] :
     c \in {1, 5}, h \in {80, 760}}

\* Documents that are refused, and a canvas of the author's.
Cross4 == Document(2, <<Plain(1, 1), Plain(1, 3), Plain(2, 1), Plain(2, 3)>>,
                   <<Edge(1, 1, 4, 0), Edge(2, 2, 3, 0)>>)
Odd ==
  {[Cross4 EXCEPT !.showcase = s, !.viewBox = v] : s \in BOOLEAN, v \in {<<>>, <<720, 380>>, <<900, 460>>}}
  \cup {[Cross4 EXCEPT !.mainPath = <<4, 1>>],
        [Cross4 EXCEPT !.checks.roots = {{1}}], [Cross4 EXCEPT !.checks.paths = {<<1, 3>>}],
        [Cross4 EXCEPT !.groups = {[lane |-> 1, from |-> 4, to |-> 5, width |-> 60]}],
        [Cross4 EXCEPT !.phases = {[from |-> 0, to |-> 2, width |-> 60], [from |-> 2, to |-> 3, width |-> 60]}],
        [Cross4 EXCEPT !.nodes = <<Plain(1, 1), Plain(1, 1), Plain(2, 1), Plain(2, 3)>>],
        [Cross4 EXCEPT !.nodes = <<Plain(1, 1), Plain(3, 3), Plain(2, 1), Plain(2, 3)>>],
        [Cross4 EXCEPT !.edges = <<Edge(1, 1, 7, 0)>>]}

MCDocuments == Small \cup Across \cup Narrow \cup Grouped \cup PinnedDocs \cup Outlying \cup Headed \cup Odd
               \cup {Boxed(Node(2, c, 92, 0), 60, <<PinnedFirst>>) : c \in {1, 2}}
=============================================================================
