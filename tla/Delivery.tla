------------------------------ MODULE Delivery ------------------------------
(***************************************************************************)
(* bin/archify.mjs: the commands that write files.  deliver renders and    *)
(* checks a frozen copy of a document and renames the result to its place; *)
(* compare does so for a pair of files and rolls back when half of it      *)
(* fails; migrate writes the document of the next schema.  A command is a  *)
(* list of steps: every one is a call of the file system or of a child     *)
(* process and may be refused, the process may be killed between two of    *)
(* them, the author goes on editing, and somebody else moves links.        *)
(***************************************************************************)
EXTENDS OutputPath, FiniteSetsExt

CONSTANTS
  Runs,       \* processes
  Docs,       \* what an input may hold
  Parses,     \* those that are JSON
  Sound,      \* those the renderer and the artifact check accept
  Tidy,       \* those whose canonical form they accept
  Migrated,   \* the document migration makes of one, where it makes one
  Scenes      \* a tree, its files, the commands, and the budget of misfortunes

\* The file a run puts at its k-th target: a new one, made in its directory.
Id(p, k) == <<p, IF k = 1 THEN "first" ELSE "second">>

ASSUME DeliveryAssumption ==
  /\ Sound \subseteq Parses /\ Tidy \subseteq Parses /\ Parses \subseteq Docs
  /\ DOMAIN Migrated \subseteq Parses /\ \A d \in DOMAIN Migrated : Migrated[d] \in Docs
  /\ \A s \in Scenes :
       /\ s.sources \subseteq DOMAIN s.data
       /\ \A p \in Runs, k \in 1..2 : Id(p, k) \notin DOMAIN s.data
       /\ \A p \in DOMAIN s.commands :
            s.commands[p].name \in {"deliver", "compare", "migrate"}

VARIABLES
  tree,    \* the file system
  data,    \* what each file holds
  scene,   \* the scene being played
  run,     \* where each run stands
  left     \* what is left of the budget

vars == <<tree, data, scene, run, left>>

(***************************************************************************)
(* The calls of commandDeliver, commandCompare and commandMigrate, in      *)
(* order; the two sides and the two targets of compare come one by one.    *)
(***************************************************************************)
Steps ==
  [deliver |-> <<"read", "resolve", "stage", "render", "resolve", "commit">>,
   compare |-> <<"resolve", "read", "read", "stage", "judge", "judge", "render",
                 "resolve", "preflight", "backup", "backup", "commit", "commit">>,
   migrate |-> <<"read", "resolve", "stage", "render", "resolve", "source", "commit">>]

Command(p) == scene.commands[p]
Fresh == [phase |-> "idle", step |-> 1, read |-> <<>>, judged |-> <<>>, made |-> {},
          backup |-> <<>>, moved |-> {}, placed |-> {}, at |-> 1, lost |-> {},
          beside |-> {}, was |-> <<>>, ok |-> TRUE]

At(p, step) ==
  run[p].phase = "run" /\ Steps[Command(p).name][run[p].step] = step
Live(p) == run[p].phase \in {"run", "rollback", "clean"}

Init ==
  /\ scene \in Scenes
  /\ tree = scene.tree /\ data = scene.data /\ left = scene.budget
  /\ run = [p \in Runs |-> Fresh]

Without(t, q) == [r \in DOMAIN t \ {q} |-> t[r]]
With(t, q, e) == [r \in DOMAIN t \cup {q} |-> IF r = q THEN e ELSE t[r]]

-----------------------------------------------------------------------------
(* How a run goes on.                                                      *)

Set(p, r) == run' = [run EXCEPT ![p] = r]
Onward(p, r) ==
  Set(p, IF r.step = Len(Steps[Command(p).name])
         THEN [r EXCEPT !.phase = "clean"] ELSE [r EXCEPT !.step = @ + 1])
World == UNCHANGED <<tree, data, scene, left>>

NoWayBackMutant(r) == [r EXCEPT !.ok = FALSE, !.phase = "clean"]
\* Only a pair that is half in place has to be rolled back.
Failed(r) ==
  [r EXCEPT !.ok = FALSE,
            !.phase = IF r.moved \cup r.placed = {} THEN "clean" ELSE "rollback"]
Fail(p) == Set(p, Failed(run[p]))

\* A call that the system may refuse, for a reason of its own.
Refused(p) ==
  /\ left.faults > 0 /\ left' = [left EXCEPT !.faults = @ - 1]
  /\ Fail(p) /\ UNCHANGED <<tree, data, scene>>

\* The file a path names, if there is one, and what reading it gives.
Held(path) == IF Exists(tree, path) THEN {tree[Real(tree, path)]} ELSE {}
Contents(path) ==
  IF Exists(tree, path) /\ tree[Real(tree, path)].kind = "file"
  THEN {data[tree[Real(tree, path)].id]} ELSE {}

Targets(p) == IF Command(p).name = "compare"
              THEN <<Command(p).output, Command(p).receipt>> ELSE <<Command(p).output>>

-----------------------------------------------------------------------------
(* The steps.                                                              *)

Begin(p) ==
  /\ run[p].phase = "idle" /\ p \in DOMAIN scene.commands
  /\ scene.overlap \/ \A q \in Runs : ~Live(q)
  /\ Set(p, [run[p] EXCEPT !.phase = "run",
                              !.was = [k \in DOMAIN Targets(p) |-> Held(Targets(p)[k])]])
  /\ World

Read(p) ==
  /\ At(p, "read")
  /\ LET found == Contents(Command(p).inputs[Len(run[p].read) + 1]) \cap Parses IN
     \/ found = {} /\ Fail(p)
     \/ \E d \in found : Onward(p, [run[p] EXCEPT !.read = Append(@, d)])
  /\ World

\* resolveOutputPath, before anything is made and again before the commit;
\* migrate only keeps its two paths apart.
Request(p, k) ==
  [source |-> IF k = 1 THEN Command(p).source ELSE "cli", path |-> Targets(p)[k],
   absolute |-> FALSE, cwd |-> Command(p).cwd,
   extension |-> Command(p).extensions[k],
   avoid |-> ToSet(Command(p).inputs) \cup (ToSet(Targets(p)) \ {Targets(p)[k]})]

Allowed(p) ==
  IF Command(p).name = "migrate"
  THEN LET s == Command(p).inputs[1]
           d == Command(p).output
       IN  Resolvable(tree, s) /\ Resolvable(tree, d) /\ ~PathsAlias(tree, s, d)
  ELSE \A k \in DOMAIN Targets(p) : Accepted(tree, Request(p, k))

ResolveOnceMutant(p) ==
  /\ At(p, "resolve")
  /\ IF run[p].beside # {} \/ Allowed(p) THEN Onward(p, run[p]) ELSE Fail(p)
  /\ World
Resolve(p) ==
  /\ At(p, "resolve")
  /\ IF Allowed(p) THEN Onward(p, run[p]) ELSE Fail(p)
  /\ World

\* The private directory beside the target; the specification is frozen in it.
\* Its path is later taken through the same links.
InPlace(p) == run[p].beside = Canonical(tree, Front(Command(p).output))
Beside(p) == \A k \in DOMAIN Targets(p) : Front(Targets(p)[k]) = Front(Targets(p)[1])
Regular(path) == Exists(tree, path) => tree[Slot(tree, path)].kind = "file"
Stageable(p) ==
  IF Command(p).name = "migrate"
  THEN run[p].read[1] \in DOMAIN Migrated /\ Regular(Command(p).output)
  ELSE Beside(p)

Stage(p) ==
  /\ At(p, "stage")
  /\ \/ /\ Stageable(p)
        /\ LET d == Real(tree, Front(Command(p).output)) IN
           /\ tree' = IF d \in DOMAIN tree THEN tree
                      ELSE With(tree, d, [tree[Front(d)] EXCEPT !.id = <<p, "made">>])
           /\ Onward(p, [run[p] EXCEPT !.beside = {d}])
        /\ UNCHANGED <<data, scene, left>>
     \/ ~Stageable(p) /\ Fail(p) /\ World
     \/ Refused(p)

\* Compare first validates the authored files, each as it is on disk by now.
Judge(p) ==
  /\ At(p, "judge")
  /\ LET found == Contents(Command(p).inputs[Len(run[p].judged) + 1]) \cap Sound IN
     \/ found = {} /\ Fail(p) /\ World
     \/ \E d \in found : Onward(p, [run[p] EXCEPT !.judged = Append(@, d)]) /\ World
     \/ Refused(p)

\* What is rendered and checked are the bytes that were read.
ReadAgainMutant(p) ==
  [i \in DOMAIN run[p].read |->
     LET now == Contents(Command(p).inputs[i]) \cap Sound IN
     IF now = {} THEN run[p].read[i] ELSE CHOOSE d \in now : TRUE]
Source(p) == run[p].read
UncheckedMutant(p) == {[is |-> "html", of |-> Source(p)]}
Product(p) ==
  LET docs == Source(p) IN
  CASE Command(p).name = "deliver" ->
         IF docs[1] \in Sound THEN {[is |-> "html", of |-> docs]} ELSE {}
    [] Command(p).name = "compare" ->
         IF ToSet(docs) \subseteq Tidy THEN {[is |-> "delta", of |-> docs]} ELSE {}
    [] OTHER -> IF Migrated[docs[1]] \in Sound
                THEN {[is |-> "document", of |-> docs]} ELSE {}

Render(p) ==
  /\ At(p, "render")
  /\ \/ /\ InPlace(p) /\ Product(p) # {}
        /\ Onward(p, [run[p] EXCEPT !.made = Product(p)]) /\ World
     \/ (~InPlace(p) \/ Product(p) = {}) /\ Fail(p) /\ World
     \/ Refused(p)

\* The source of a migration must still be what was read.
Recheck(p) ==
  /\ At(p, "source")
  /\ IF Contents(Command(p).inputs[1]) = ToSet(run[p].read)
     THEN Onward(p, run[p]) ELSE Fail(p)
  /\ World

-----------------------------------------------------------------------------
(* commitComparePair, and the one rename of the others.                    *)

Present(path) == Exists(tree, path)
Preflight(p) ==
  /\ At(p, "preflight")
  /\ IF \A k \in DOMAIN Targets(p) : Regular(Targets(p)[k]) THEN Onward(p, run[p]) ELSE Fail(p)
  /\ World

\* The two targets take turns.
Other(r) == [r EXCEPT !.at = IF @ = 1 THEN 2 ELSE 1]

Backup(p) ==
  /\ At(p, "backup")
  /\ LET k == run[p].at
         slot == Slot(tree, Targets(p)[k]) IN
     \/ /\ Present(Targets(p)[k]) /\ InPlace(p)
        /\ tree' = Without(tree, slot)
        /\ Onward(p, Other([run[p] EXCEPT !.moved = @ \cup {k},
                                !.backup = Append(@, [k |-> k, entry |-> tree[slot]])]))
        /\ UNCHANGED <<data, scene, left>>
     \/ ~Present(Targets(p)[k]) /\ Onward(p, Other(run[p])) /\ World
     \/ Present(Targets(p)[k]) /\ ~InPlace(p) /\ Fail(p) /\ World
     \/ Refused(p)

\* The k-th target gets the product, or the receipt that goes with it.
Made(p, k) ==
  LET m == CHOOSE x \in run[p].made : TRUE IN
  IF k = 1 THEN m ELSE [m EXCEPT !.is = "receipt"]

Replaceable(p, slot) == InPlace(p) /\ (slot \in DOMAIN tree => tree[slot].kind # "dir")
Commit(p) ==
  /\ At(p, "commit")
  /\ LET k == run[p].at
         slot == Slot(tree, Targets(p)[k]) IN
     \/ /\ Replaceable(p, slot)
        /\ tree' = With(tree, slot, File(Id(p, k)))
        /\ data' = With(data, Id(p, k), Made(p, k))
        /\ Onward(p, Other([run[p] EXCEPT !.placed = @ \cup {k}]))
        /\ UNCHANGED <<scene, left>>
     \/ ~Replaceable(p, slot) /\ Fail(p) /\ World
     \/ Refused(p)

LeftInPlaceMutant(p) ==
  /\ run[p].phase = "rollback" /\ run[p].placed # {}
  /\ Set(p, [run[p] EXCEPT !.placed = {}]) /\ World
\* The files that were placed are removed, the later one first ...
Withdraw(p) ==
  /\ run[p].phase = "rollback" /\ run[p].placed # {}
  /\ LET k == Max(run[p].placed)
         r == [run[p] EXCEPT !.placed = @ \ {k}] IN
     \/ /\ tree' = Without(tree, Slot(tree, Targets(p)[k]))
        /\ Set(p, r) /\ UNCHANGED <<data, scene, left>>
     \/ /\ left.faults > 0 /\ left' = [left EXCEPT !.faults = @ - 1]
        /\ Set(p, [r EXCEPT !.lost = @ \cup {k}])
        /\ UNCHANGED <<tree, data, scene>>

\* ... then what was moved away is put back, each even if another could not be.
Restore(p) ==
  /\ run[p].phase = "rollback" /\ run[p].placed = {} /\ run[p].backup # <<>>
  /\ LET b == Last(run[p].backup)
         r == [run[p] EXCEPT !.backup = Front(@)] IN
     \/ /\ tree' = With(tree, Slot(tree, Targets(p)[b.k]), b.entry)
        /\ Set(p, r) /\ UNCHANGED <<data, scene, left>>
     \/ /\ left.faults > 0 /\ left' = [left EXCEPT !.faults = @ - 1]
        /\ Set(p, [r EXCEPT !.lost = @ \cup {b.k}])
        /\ UNCHANGED <<tree, data, scene>>

RolledBack(p) ==
  /\ run[p].phase = "rollback" /\ run[p].placed = {} /\ run[p].backup = <<>>
  /\ Set(p, [run[p] EXCEPT !.phase = "clean"])
  /\ World

\* finally: the private directory goes, with whatever is still in it.
Clean(p) ==
  /\ run[p].phase = "clean"
  /\ \/ Set(p, [run[p] EXCEPT !.phase = "done", !.beside = {}, !.backup = <<>>])
        /\ World
     \/ /\ left.faults > 0 /\ left' = [left EXCEPT !.faults = @ - 1]
        /\ Set(p, [run[p] EXCEPT !.phase = "done"])
        /\ UNCHANGED <<tree, data, scene>>

-----------------------------------------------------------------------------
(* Everybody else.                                                         *)

Edit ==
  /\ left.edits > 0 /\ left' = [left EXCEPT !.edits = @ - 1]
  /\ \E id \in scene.sources : \E d \in Docs \ {data[id]} : data' = [data EXCEPT ![id] = d]
  /\ UNCHANGED <<tree, scene, run>>

\* A link is moved, though not under a commit that has had its last look.
Committing(p) == run[p].phase = "rollback" \/ \E s \in {"preflight", "backup", "commit", "source"} : At(p, s)
Relink ==
  /\ left.links > 0 /\ left' = [left EXCEPT !.links = @ - 1]
  /\ \A p \in Runs : ~Committing(p)
  /\ \E m \in scene.moves : tree' = With(tree, m.at, m.entry)
  /\ UNCHANGED <<data, scene, run>>

Kill(p) ==
  /\ left.kills > 0 /\ left' = [left EXCEPT !.kills = @ - 1]
  /\ Live(p) /\ Set(p, [run[p] EXCEPT !.phase = "dead"])
  /\ UNCHANGED <<tree, data, scene>>

Work(p) ==
  \/ Read(p) \/ Resolve(p) \/ Stage(p) \/ Judge(p) \/ Render(p) \/ Recheck(p)
  \/ Preflight(p) \/ Backup(p) \/ Commit(p)
  \/ Withdraw(p) \/ Restore(p) \/ RolledBack(p) \/ Clean(p)

Next == \/ \E p \in Runs : Begin(p) \/ Work(p) \/ Kill(p)
        \/ Edit \/ Relink

Spec == Init /\ [][Next]_vars
-----------------------------------------------------------------------------
(* What the commands promise.                                              *)

Ended(p) == run[p].phase = "done"

(***************************************************************************)
(* No step of a command changes what one of its input paths names, though  *)
(* links move between the time an output was accepted and the time it is   *)
(* put in place (archify.mjs:1044, output-path.mjs:250).                   *)
(***************************************************************************)
InputsSurvive ==
  left'.edits = left.edits /\ left'.links = left.links =>
    \A p \in DOMAIN scene.commands : \A path \in ToSet(Command(p).inputs) :
      Contents(path)' = Contents(path)

(***************************************************************************)
(* Two paths are taken for one exactly when what is written under the one  *)
(* is found under the other, in directories that can be probed: by links,  *)
(* by hard links, by a name spelled another way (output-path.mjs:195-229). *)
(***************************************************************************)
AliasIsExact ==
  Probed(tree) => \A p, q \in scene.paths :
    Resolvable(tree, p) /\ Resolvable(tree, q) =>
      (PathsAlias(tree, p, q) <=> Place(tree, p) = Place(tree, q))

(***************************************************************************)
(* What is read is told from what is written: an output is an input under  *)
(* another name exactly if it is found to be, and no input is overwritten. *)
(***************************************************************************)
InputsAreSafe == [][AliasIsExact /\ InputsSurvive]_vars

(***************************************************************************)
(* A command that nobody disturbed and that lost nothing on its way back   *)
(* leaves all its targets new if it succeeded and all as they were if it   *)
(* failed, at whichever call it failed (archify.mjs:315-381).              *)
(***************************************************************************)
AllOrNothing ==
  ~scene.overlap /\ left.links = scene.budget.links =>
    \A p \in Runs : Ended(p) /\ run[p].lost = {} =>
      \A k \in DOMAIN Targets(p) :
        Held(Targets(p)[k]) = IF run[p].ok THEN {File(Id(p, k))} ELSE run[p].was[k]

(***************************************************************************)
(* What a command puts in place was drawn from what it read and reports,   *)
(* whatever the author saved meanwhile (archify.mjs:880, 1027).            *)
(***************************************************************************)
DrawnFromWhatWasRead ==
  \A p \in Runs : \A k \in run[p].placed : data[Id(p, k)].of = run[p].read

\* A product, or its receipt, that a command may have made.
Passed(m, name) ==
  LET docs == ToSet(m.of) IN
  CASE name = "deliver" -> docs \subseteq Sound
    [] name = "compare" -> docs \subseteq Tidy
    [] OTHER -> {Migrated[d] : d \in docs} \subseteq Sound

(***************************************************************************)
(* At any moment, and after any kill, a target holds what it held or a     *)
(* product that passed the checks, and the single target of deliver or     *)
(* migrate is never missing once it was there (archify.mjs:1070, 1784).    *)
(***************************************************************************)
TargetsAreWhole ==
  \A p \in Runs : run[p].phase # "idle" =>
    \A k \in DOMAIN Targets(p) :
      LET held == Held(Targets(p)[k]) IN
      /\ \A e \in held : e.kind = "file" =>
           e.id \in DOMAIN scene.data \/ \E q \in Runs : \E j \in 1..2 :
             e.id = Id(q, j) /\ Passed(data[e.id], Command(q).name)
      /\ Command(p).name # "compare" /\ run[p].was[k] # {} /\ left.links = scene.budget.links
           => held # {}

(* Both: results come whole, all of them or none.                          *)
ResultsAreWhole == AllOrNothing /\ TargetsAreWhole

(***************************************************************************)
(* What a target of compare held is somewhere until the new pair is there: *)
(* at the target or in the private directory, though the process dies      *)
(* between two renames; it is lost only with a rollback that says so       *)
(* (archify.mjs:344-380).                                                  *)
(***************************************************************************)
PreviousNotLost ==
  \A p \in DOMAIN scene.commands : Command(p).name = "compare" /\
    run[p].phase # "idle" /\ run[p].lost = {} /\ ~(Ended(p) /\ run[p].ok) =>
      \A k \in DOMAIN run[p].was : \A e \in run[p].was[k] :
        \/ e.kind # "file"
        \/ e \in Held(Targets(p)[k])
        \/ [k |-> k, entry |-> e] \in ToSet(run[p].backup)

=============================================================================
