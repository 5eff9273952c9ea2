---------------------------- MODULE MCDelivery ----------------------------
(***************************************************************************)
(* Instances of Delivery: directories reached by links, names that differ  *)
(* in case, hard links, a pair already in place, commands that overlap.    *)
(***************************************************************************)
EXTENDS Delivery

CONSTANTS one, two, good, fair, odd, raw

MCFolded == [in |-> "in", out |-> "out", cur |-> "cur", new |-> "new",
             a |-> "a", A |-> "a", b |-> "b", r |-> "r"]
MCDocs == {good, fair, odd, raw}
MCMigrated == good :> fair @@ fair :> fair @@ odd :> odd

Authored(n) == <<"file", n>>
Folder(n, loose) == Dir(<<"dir", n>>, loose, TRUE)

\* Two directories, of which one may ignore case, and a link to one of them.
Roots(loose, cur) ==
  <<>> :> Folder("root", FALSE) @@ <<"in">> :> Folder("in", FALSE)
  @@ <<"out">> :> Folder("out", loose) @@ <<"cur">> :> Link(<<cur>>)

Budget(faults, edits, links, kills) ==
  [faults |-> faults, edits |-> edits, links |-> links, kills |-> kills]

Do(name, inputs, output, receipt, source) ==
  [name |-> name, inputs |-> inputs, output |-> output, receipt |-> receipt,
   source |-> source, cwd |-> <<"out">>, extensions |-> <<{"a", "A", "b"}, {"r"}>>]

Scene(t, d, commands, overlap, moves, budget) ==
  [tree |-> t, data |-> d, commands |-> commands, overlap |-> overlap, moves |-> moves,
   sources |-> {Authored("x"), Authored("y")} \cap DOMAIN d, budget |-> budget,
   paths |-> UNION {ToSet(commands[p].inputs) \cup {commands[p].output, commands[p].receipt}
                     : p \in DOMAIN commands}
             \cup {<<"out", "A">>, <<"out", "a">>, <<"new", "a">>}]

Xs == Authored("x") :> good
XYs == Xs @@ Authored("y") :> fair
Olds == Authored("o") :> good @@ Authored("p") :> good
In == <<"in", "a">> :> File(Authored("x")) @@ <<"in", "b">> :> File(Authored("y"))
Old == <<"out", "a">> :> File(Authored("o")) @@ <<"out", "r">> :> File(Authored("p"))

\* A delivery whose input is reached by a link that may be moved to the output's directory.
Moved(name, existing) ==
  Scene(IF existing THEN Roots(FALSE, "in") @@ In @@ Old ELSE Roots(FALSE, "in") @@ In,
        XYs @@ Olds, one :> Do(name, <<<<"cur", "a">>>>, <<"out", "a">>, <<"out", "r">>, "cli"),
        FALSE, {[at |-> <<"cur">>, entry |-> Link(<<"out">>)],
                [at |-> <<"cur">>, entry |-> Link(<<"cur">>)]},
        Budget(1, 1, 1, 1))

\* One whose output is reached by the link, named by the document or by the command line.
Carried(source) ==
  Scene(Roots(FALSE, "out") @@ In @@ Old, XYs @@ Olds,
        one :> Do("deliver", <<<<"in", "a">>>>, <<"cur", "a">>, <<"out", "r">>, source),
        FALSE, {[at |-> <<"cur">>, entry |-> Link(<<"in">>)]}, Budget(0, 1, 1, 1))

\* Output and input in one directory, under names that differ in case; hard links.
Spelled(name, loose, hard) ==
  Scene(Roots(loose, "in") @@ In @@ <<"out", "a">> :> File(Authored("x"))
          @@ (IF hard THEN <<"out", "b">> :> File(Authored("x")) ELSE <<"out", "b">> :> Link(<<"in", "b">>)),
        XYs, one :> Do(name, <<<<"out", "a">>>>,
                       IF hard THEN <<"out", "b">> ELSE <<"out", "A">>, <<"out", "r">>, "cli"),
        FALSE, {}, Budget(0, 1, 0, 1))

\* A directory still to be made.
Unmade ==
  Scene(Roots(TRUE, "in") @@ In, XYs,
        one :> Do("deliver", <<<<"in", "a">>>>, <<"new", "a">>, <<"new", "r">>, "none"),
        FALSE, {}, Budget(1, 1, 0, 1))

\* A comparison, with a pair in place, half of one, none, or a directory in the way.
Pair(there, faults, edits, kills) ==
  Scene(there @@ Roots(FALSE, "in") @@ In, XYs @@ Olds,
        one :> Do("compare", <<<<"in", "a">>, <<"in", "b">>>>, <<"out", "a">>, <<"out", "r">>, "cli"),
        FALSE, {}, Budget(faults, edits, 0, kills))
Half == <<"out", "r">> :> File(Authored("p"))
Blocked == <<"out", "a">> :> File(Authored("o")) @@ <<"out", "r">> :> Folder("r", FALSE)

\* Two deliveries to one place at once.
Race ==
  Scene(Roots(FALSE, "in") @@ In @@ Old, XYs @@ Olds,
        one :> Do("deliver", <<<<"in", "a">>>>, <<"out", "a">>, <<"out", "r">>, "cli")
        @@ two :> Do("deliver", <<<<"in", "b">>>>, <<"out", "a">>, <<"out", "r">>, "cli"),
        TRUE, {}, Budget(1, 1, 0, 1))

MCScenes ==
  {Moved(n, e) : n \in {"deliver", "migrate"}, e \in BOOLEAN}
  \cup {Carried(s) : s \in {"meta", "cli"}}
  \cup {Spelled(n, l, h) : n \in {"deliver", "migrate"}, l \in BOOLEAN, h \in BOOLEAN}
  \cup {Unmade, Race, Pair(Old, 2, 1, 1), Pair(Half, 1, 1, 1), Pair(Blocked, 1, 1, 1),
        Pair(<<>> :> Folder("root", FALSE), 1, 0, 1)}
=============================================================================
