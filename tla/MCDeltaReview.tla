--------------------------- MODULE MCDeltaReview ---------------------------
EXTENDS DeltaReview
CONSTANTS c1, c2, r1, b1, label

Component(id, s, e, g) == [id |-> id, semantic |-> s, evidence |-> e, geometry |-> g,
                             brand |-> 1]
Relation(t, s, g, l) == [id |-> r1, topology |-> t, semantic |-> s, geometry |-> g, label |-> l]
Boundary(s, g) == [id |-> b1, scope |-> s, geometry |-> g]
Snapshot(cs, rs, bs) ==
  [component |-> cs, connection |-> rs, boundary |-> bs, presentation |-> 1, locale |-> 1,
   repository |-> [url |-> NoId, revision |-> NoId]]
Still == Component(c1, 1, 1, 1)
Pair(b, h) == [base |-> b, head |-> h]

\* The pairs of lists a kind is compared in: one item that changes in every
\* way its groups allow, appears or goes.
Componentry ==
  {Pair(<<Still>> \o p, <<Component(c1, s, e, g)>> \o q) : s \in 1..2, e \in 1..2, g \in 1..2,
     p \in {<<>>, <<Component(c2, 1, 1, 1)>>}, q \in {<<>>, <<Component(c2, 1, 1, 2)>>}}
Relations ==
  {Pair(p, q) : p \in {<<>>, <<Relation(1, 1, 1, NoLabel)>>, <<Relation(1, 1, 1, label)>>},
     q \in {<<>>} \cup {<<Relation(t, s, g, l)>> :
                          t \in 1..2, s \in 1..2, g \in 1..2, l \in {NoLabel, label}}}
Boundaries ==
  {Pair(p, q) : p \in {<<>>, <<Boundary(1, 1)>>},
     q \in {<<>>} \cup {<<Boundary(s, g)>> : s \in 1..2, g \in 1..2}}

Of(cs, rs, bs) ==
  {Pair(Snapshot(c.base, r.base, b.base), Snapshot(c.head, r.head, b.head)) :
     c \in cs, r \in rs, b \in bs}
Nothing == {Pair(<<>>, <<>>)}
Calm == {Pair(<<Still>>, <<Still>>)}
\* One item or the whole snapshot changed in what the author may write of it.
Touched ==
  LET calm == Snapshot(<<Still>>, <<>>, <<>>) IN
  {Pair(calm, calm), Pair(calm, [calm EXCEPT !.component[1].brand = 2]),
   Pair(calm, [calm EXCEPT !.locale = 2]), Pair(calm, [calm EXCEPT !.presentation = 2])}
\* Every change of one kind, and three changes at once for the playback.
Compared ==
  Of(Componentry, Nothing, Nothing) \cup Of(Calm, Relations, Nothing) \cup
  Of(Calm, Nothing, Boundaries) \cup
  Of({c \in Componentry : c.head[1] = Component(c1, 1, 2, 2)},
     {r \in Relations : r.head \in {<<Relation(2, 1, 2, label)>>, <<Relation(1, 1, 2, NoLabel)>>}},
     {b \in Boundaries : b.head = <<Boundary(2, 1)>>}) \cup
  Touched
=============================================================================
