--------------------------- MODULE DeliveryProofs ---------------------------
(***************************************************************************)
(* Proofs about Delivery for every file system, every set of documents and *)
(* commands, and every budget of faults, edits, moved links and kills:     *)
(* what a command puts in place was drawn from what it read, and passed    *)
(* the checks of its command.                                              *)
(***************************************************************************)
EXTENDS Delivery, TLAPS

Commands == {"deliver", "compare", "migrate"}
Name(p) == Command(p).name

\* The place of the rendering among the steps of a command.
RenderAt(n) == IF n = "compare" THEN 7 ELSE 4

(* What the list of steps of each command says of their order.             *)
LEMMA Order ==
  ASSUME NEW n \in Commands, NEW i \in 1..Len(Steps[n])
  PROVE  /\ Steps[n][i] = "read" => i < RenderAt(n) /\ (n # "compare" => i = 1)
         /\ i = 1 /\ n # "compare" => Steps[n][i] = "read"
         /\ Steps[n][i] = "render" <=> i = RenderAt(n)
         /\ Steps[n][i] = "commit" => i > RenderAt(n)
         /\ Len(Steps[n]) \in Nat /\ 1 \in 1..Len(Steps[n]) /\ RenderAt(n) \in Nat
<1>1. CASE n = "deliver"
  BY <1>1 DEF Steps, RenderAt
<1>2. CASE n = "compare"
  BY <1>2 DEF Steps, RenderAt
<1>3. CASE n = "migrate"
  BY <1>3 DEF Steps, RenderAt
<1> QED BY <1>1, <1>2, <1>3 DEF Commands

Fields == {"phase", "step", "read", "judged", "made", "backup", "moved", "placed", "at",
           "lost", "beside", "was", "ok"}

\* A product of what was read, that passed the checks.
Drawn(p, r) ==
  /\ r.made # {}
  /\ \A m \in r.made : DOMAIN m = {"is", "of"} /\ m.of = r.read /\ Passed(m, Name(p))

(* What a run p, described by r, has in hand.                              *)
Shaped(p, r) ==
  /\ DOMAIN r = Fields
  /\ r.at \in {1, 2} /\ r.placed \subseteq {1, 2} /\ r.read \in Seq(Docs)
  /\ r.phase = "idle" => r = Fresh
  /\ r.phase # "idle" => p \in DOMAIN scene.commands

\* Nothing is in place before the rendering, and what was rendered is kept.
Ready(p, r) ==
  r.phase = "run" =>
    /\ r.step \in 1..Len(Steps[Name(p)])
    /\ r.step <= RenderAt(Name(p)) => r.placed = {}
    /\ r.step > RenderAt(Name(p)) => Drawn(p, r)
    /\ Name(p) # "compare" => Len(r.read) = IF r.step = 1 THEN 0 ELSE 1

\* What it put in place is there, wherever the run got to since.
InHand(p, r) == \A k \in r.placed : Id(p, k) \in DOMAIN data /\ data[Id(p, k)].of = r.read

Holds(p, r) == Shaped(p, r) /\ Ready(p, r) /\ InHand(p, r)

(* archify.mjs:880, 1044: what a run wrote passed the checks, wherever the *)
(* file is by now: in its place, moved aside by another, or left behind.   *)
Certified ==
  \A p \in Runs : \A k \in {1, 2} : Id(p, k) \in DOMAIN data =>
    p \in DOMAIN scene.commands /\ Passed(data[Id(p, k)], Name(p))

DeliveryInv ==
  /\ scene \in Scenes /\ DOMAIN run = Runs
  /\ \A p \in Runs : Holds(p, run[p])
  /\ Certified

-----------------------------------------------------------------------------
(* The helpers.                                                            *)
LEMMA Apart ==
  ASSUME NEW p, NEW q, NEW k \in {1, 2}, NEW j \in {1, 2}, Id(p, k) = Id(q, j)
  PROVE  p = q /\ k = j
BY DEF Id

LEMMA NamesAre ==
  ASSUME scene \in Scenes, NEW p \in DOMAIN scene.commands
  PROVE  Name(p) \in Commands
BY DeliveryAssumption DEF Name, Command, Commands

\* What a run reads of others does not matter to it.
LEMMA Standing ==
  ASSUME DeliveryInv, NEW p \in Runs
  PROVE  /\ Shaped(p, run[p]) /\ Ready(p, run[p]) /\ InHand(p, run[p])
         /\ DOMAIN run[p] = Fields
         /\ run[p].phase # "idle" => Name(p) \in Commands
BY NamesAre DEF DeliveryInv, Holds, Shaped

LEMMA WasSet ==
  ASSUME DeliveryInv, NEW p \in Runs, NEW r, Set(p, r)
  PROVE  /\ run'[p] = r /\ DOMAIN run' = Runs
         /\ \A q \in Runs \ {p} : run'[q] = run[q]
BY DEF DeliveryInv, Set

\* Whatever of a run is not about its products may change.
Alike(r, t) ==
  /\ DOMAIN t = Fields /\ t.phase = r.phase /\ t.step = r.step /\ t.read = r.read
  /\ t.made = r.made /\ t.placed = r.placed /\ t.at \in {1, 2}

\* A run that goes on to its next step, or is through.
LEMMA WentOn ==
  ASSUME DeliveryInv, NEW p \in Runs, NEW r, DOMAIN r = Fields, Onward(p, r)
  PROVE  /\ \/ /\ r.step = Len(Steps[Name(p)]) /\ run'[p].phase = "clean"
               /\ run'[p].step = r.step
            \/ /\ r.step # Len(Steps[Name(p)]) /\ run'[p].phase = r.phase
               /\ run'[p].step = r.step + 1
         /\ DOMAIN run'[p] = Fields
         /\ run'[p].read = r.read /\ run'[p].made = r.made
         /\ run'[p].placed = r.placed /\ run'[p].at = r.at
         /\ \A q \in Runs \ {p} : run'[q] = run[q]
         /\ DOMAIN run' = Runs
<1>1. CASE r.step = Len(Steps[Name(p)])
  <2>1. PICK t : t = [r EXCEPT !.phase = "clean"]
    OBVIOUS
  <2>2. Set(p, t)
    BY <1>1, <2>1 DEF Onward, Name
  <2>3. /\ DOMAIN t = Fields /\ t.phase = "clean" /\ t.step = r.step /\ t.read = r.read
        /\ t.made = r.made /\ t.placed = r.placed /\ t.at = r.at
    BY <2>1 DEF Fields
  <2> QED BY <1>1, <2>2, <2>3, WasSet
<1>2. CASE r.step # Len(Steps[Name(p)])
  <2>1. PICK t : t = [r EXCEPT !.step = @ + 1]
    OBVIOUS
  <2>2. Set(p, t)
    BY <1>2, <2>1 DEF Onward, Name
  <2>3. /\ DOMAIN t = Fields /\ t.phase = r.phase /\ t.step = r.step + 1 /\ t.read = r.read
        /\ t.made = r.made /\ t.placed = r.placed /\ t.at = r.at
    BY <2>1 DEF Fields
  <2> QED BY <1>2, <2>2, <2>3, WasSet
<1> QED BY <1>1, <1>2

\* What a step must have seen to for the next one.
LEMMA OnwardHolds ==
  ASSUME DeliveryInv, NEW p \in Runs, run[p].phase = "run", UNCHANGED scene,
         NEW r, DOMAIN r = Fields, r.phase = "run", r.step = run[p].step,
         r.at \in {1, 2}, r.placed \subseteq {1, 2}, r.read \in Seq(Docs),
         r.step < RenderAt(Name(p)) => r.placed = {},
         r.step >= RenderAt(Name(p)) => Drawn(p, r),
         Name(p) # "compare" => Len(r.read) = 1,
         InHand(p, r)', Onward(p, r)
  PROVE  Holds(p, run[p])'
<1>1. PICK n \in Commands : n = Name(p)
  BY Standing
<1>2. /\ run[p].step \in 1..Len(Steps[n]) /\ Len(Steps[n]) \in Nat /\ RenderAt(n) \in Nat
      /\ p \in DOMAIN scene.commands
  BY <1>1, Standing, Order DEF Ready, Shaped
<1>3. PICK t : t = run'[p]
  OBVIOUS
<1>4. /\ DOMAIN t = Fields /\ t.read = r.read /\ t.made = r.made
      /\ t.placed = r.placed /\ t.at = r.at /\ t.phase \in {"run", "clean"}
      /\ t.phase = "run" => t.step = r.step + 1 /\ r.step # Len(Steps[n])
  BY <1>1, <1>3, WentOn
<1>5. Shaped(p, t)'
  BY <1>2, <1>4 DEF Shaped
<1>6. Drawn(p, r) => Drawn(p, t)'
  BY <1>4 DEF Drawn, Name, Command
<1>7. Ready(p, t)'
  <2> SUFFICES ASSUME t.phase = "run" PROVE Ready(p, t)'
    BY DEF Ready
  <2>1. /\ t.step = run[p].step + 1 /\ run[p].step # Len(Steps[n])
        /\ Name(p)' = n
    BY <1>1, <1>4 DEF Name, Command
  <2>2. t.step \in 1..Len(Steps[n]) /\ t.step # 1
    BY <1>2, <2>1
  <2>3. t.step <= RenderAt(n) => t.placed = {}
    BY <1>1, <1>2, <1>4, <2>1
  <2>4. t.step > RenderAt(n) => Drawn(p, t)'
    BY <1>1, <1>2, <1>6, <2>1
  <2>5. n # "compare" => Len(t.read) = 1
    BY <1>1, <1>4
  <2> QED BY <2>1, <2>2, <2>3, <2>4, <2>5 DEF Ready
<1>8. InHand(p, t)'
  BY <1>4 DEF InHand
<1> QED BY <1>3, <1>5, <1>7, <1>8 DEF Holds

\* A run that is no longer at its steps.
LEMMA LeftHolds ==
  ASSUME DeliveryInv, NEW p \in Runs, run[p].phase # "idle", UNCHANGED scene,
         NEW r, DOMAIN r = Fields, r.phase \notin {"idle", "run"}, r.at \in {1, 2},
         r.read = run[p].read, r.placed \subseteq run[p].placed, UNCHANGED data, Set(p, r)
  PROVE  Holds(p, run[p])'
<1>1. run'[p] = r /\ Shaped(p, run[p]) /\ InHand(p, run[p])
  BY WasSet, Standing
<1>2. Shaped(p, r)' /\ InHand(p, r)'
  BY <1>1 DEF Shaped, InHand
<1>3. Ready(p, r)'
  BY DEF Ready
<1> QED BY <1>1, <1>2, <1>3 DEF Holds

\* Of the others nothing changes, unless a file of theirs does.
LEMMA OthersHold ==
  ASSUME DeliveryInv, NEW q \in Runs, run'[q] = run[q], UNCHANGED scene,
         \A k \in {1, 2} : Id(q, k) \in DOMAIN data =>
           Id(q, k) \in DOMAIN data' /\ data'[Id(q, k)] = data[Id(q, k)]
  PROVE  Holds(q, run[q])'
<1>1. Shaped(q, run[q]) /\ Ready(q, run[q]) /\ InHand(q, run[q])
  BY Standing
<1>2. Shaped(q, run[q])'
  BY <1>1 DEF Shaped
<1>3. Ready(q, run[q])'
  BY <1>1 DEF Ready, Drawn, Name, Command
<1>4. InHand(q, run[q])'
  BY <1>1 DEF InHand, Shaped
<1> QED BY <1>2, <1>3, <1>4 DEF Holds

LEMMA SameFiles ==
  ASSUME DeliveryInv, UNCHANGED <<data, scene>>
  PROVE  Certified' /\ scene' \in Scenes
BY DEF DeliveryInv, Certified, Name, Command

\* Steps that leave the files alone.
LEMMA RunMoves ==
  ASSUME DeliveryInv, NEW p \in Runs, UNCHANGED <<data, scene>>, Holds(p, run[p])',
         DOMAIN run' = Runs, \A q \in Runs \ {p} : run'[q] = run[q]
  PROVE  DeliveryInv'
BY OthersHold, SameFiles DEF DeliveryInv

-----------------------------------------------------------------------------
(* The steps.                                                              *)
LEMMA LeftKeeps ==
  ASSUME DeliveryInv, NEW p \in Runs, run[p].phase # "idle",
         NEW r, DOMAIN r = Fields, r.phase \notin {"idle", "run"}, r.at \in {1, 2},
         r.read = run[p].read, r.placed \subseteq run[p].placed,
         UNCHANGED <<data, scene>>, Set(p, r)
  PROVE  DeliveryInv'
BY LeftHolds, RunMoves, WasSet

LEMMA FailKeeps ==
  ASSUME DeliveryInv, NEW p \in Runs, run[p].phase # "idle", UNCHANGED <<data, scene>>, Fail(p)
  PROVE  DeliveryInv'
<1>1. PICK c : c = IF run[p].moved \cup run[p].placed = {} THEN "clean" ELSE "rollback"
  OBVIOUS
<1>2. PICK r : r = [run[p] EXCEPT !.ok = FALSE, !.phase = c]
  OBVIOUS
<1>3. /\ DOMAIN r = Fields /\ r.phase = c /\ r.read = run[p].read
      /\ r.placed = run[p].placed /\ r.at = run[p].at
  BY <1>2, Standing DEF Fields
<1>4. Set(p, r)
  BY <1>1, <1>2 DEF Fail, Failed
<1>5. run[p].at \in {1, 2}
  BY Standing DEF Shaped
<1> QED BY <1>1, <1>3, <1>4, <1>5, LeftKeeps

LEMMA RefusedKeeps ==
  ASSUME DeliveryInv, NEW p \in Runs, run[p].phase # "idle", Refused(p)
  PROVE  DeliveryInv'
BY FailKeeps DEF Refused

\* A step that is not about the products.
LEMMA PassingKeeps ==
  ASSUME DeliveryInv, NEW p \in Runs, NEW step, At(p, step),
         step \notin {"read", "render", "commit"},
         NEW r, Alike(run[p], r), Onward(p, r), UNCHANGED <<data, scene>>
  PROVE  DeliveryInv'
<1>1. /\ run[p].phase = "run" /\ Shaped(p, run[p]) /\ Ready(p, run[p]) /\ InHand(p, run[p])
      /\ Name(p) \in Commands
  BY Standing DEF At
<1>2. PICK n \in Commands : n = Name(p)
  BY <1>1
<1>3. /\ run[p].step \in 1..Len(Steps[n]) /\ Steps[n][run[p].step] = step
      /\ Len(Steps[n]) \in Nat /\ RenderAt(n) \in Nat
  BY <1>1, <1>2, Order DEF Ready, At, Name
<1>4. run[p].step # RenderAt(n) /\ (n # "compare" => run[p].step # 1)
  BY <1>3, Order
<1>5. /\ DOMAIN r = Fields /\ r.phase = "run" /\ r.step = run[p].step /\ r.read = run[p].read
      /\ r.made = run[p].made /\ r.placed = run[p].placed /\ r.at \in {1, 2}
  BY <1>1 DEF Alike
<1>6. r.placed \subseteq {1, 2} /\ r.read \in Seq(Docs)
  BY <1>1, <1>5 DEF Shaped
<1>7. r.step < RenderAt(n) => r.placed = {}
  BY <1>1, <1>2, <1>3, <1>5 DEF Ready
<1>8. r.step >= RenderAt(n) => Drawn(p, r)
  <2>1. r.step >= RenderAt(n) => r.step > RenderAt(n)
    BY <1>3, <1>4, <1>5
  <2>2. r.step > RenderAt(n) => Drawn(p, run[p])
    BY <1>1, <1>2, <1>5 DEF Ready
  <2> QED BY <1>5, <2>1, <2>2 DEF Drawn
<1>9. n # "compare" => Len(r.read) = 1
  BY <1>1, <1>2, <1>4, <1>5 DEF Ready
<1>10. InHand(p, r)'
  BY <1>1, <1>5 DEF InHand
<1>11. Holds(p, run[p])'
  BY <1>1, <1>2, <1>5, <1>6, <1>7, <1>8, <1>9, <1>10, OnwardHolds
<1> QED BY <1>5, <1>11, WentOn, RunMoves

LEMMA BeginKeeps == ASSUME DeliveryInv, NEW p \in Runs, Begin(p) PROVE DeliveryInv'
<1>1. /\ run[p].phase = "idle" /\ p \in DOMAIN scene.commands /\ UNCHANGED <<data, scene>>
  BY DEF Begin, World
<1>2. run[p] = Fresh
  BY <1>1, Standing DEF Shaped
<1>3. PICK w : Set(p, [run[p] EXCEPT !.phase = "run", !.was = w])
  BY DEF Begin
<1>4. PICK r : r = [run[p] EXCEPT !.phase = "run", !.was = w]
  OBVIOUS
<1>5. /\ DOMAIN r = Fields /\ r.phase = "run" /\ r.step = 1 /\ r.read = <<>>
      /\ r.placed = {} /\ r.at = 1
  BY <1>2, <1>4 DEF Fresh, Fields
<1>6. /\ run'[p] = r /\ DOMAIN run' = Runs /\ \A q \in Runs \ {p} : run'[q] = run[q]
  BY <1>3, <1>4, WasSet
<1>7. PICK n \in Commands : n = Name(p) /\ n = Name(p)'
  BY <1>1, NamesAre DEF DeliveryInv, Name, Command
<1>8. 1 \in 1..Len(Steps[n]) /\ RenderAt(n) \in Nat /\ 1 <= RenderAt(n)
  <2>1. Len(Steps[n]) \in {6, 7, 13}
    <3>1. CASE n = "deliver"
      BY <3>1 DEF Steps
    <3>2. CASE n = "compare"
      BY <3>2 DEF Steps
    <3>3. CASE n = "migrate"
      BY <3>3 DEF Steps
    <3> QED BY <3>1, <3>2, <3>3 DEF Commands
  <2> QED BY <2>1 DEF RenderAt
<1>9. Shaped(p, r)' /\ InHand(p, r)'
  BY <1>1, <1>5 DEF Shaped, InHand
<1>10. Ready(p, r)'
  BY <1>5, <1>7, <1>8 DEF Ready
<1>11. Holds(p, run[p])'
  BY <1>6, <1>9, <1>10 DEF Holds
<1> QED BY <1>1, <1>6, <1>11, RunMoves

LEMMA ReadKeeps == ASSUME DeliveryInv, NEW p \in Runs, Read(p) PROVE DeliveryInv'
<1>1. /\ run[p].phase = "run" /\ Shaped(p, run[p]) /\ Ready(p, run[p])
      /\ Name(p) \in Commands /\ UNCHANGED <<data, scene>>
  BY Standing DEF Read, At, World
<1>2. CASE Fail(p)
  BY <1>1, <1>2, FailKeeps
<1>3. ASSUME NEW d \in Parses, Onward(p, [run[p] EXCEPT !.read = Append(@, d)])
      PROVE  DeliveryInv'
  <2>1. PICK n \in Commands : n = Name(p)
    BY <1>1
  <2>2. /\ run[p].step \in 1..Len(Steps[n]) /\ Steps[n][run[p].step] = "read"
        /\ Len(Steps[n]) \in Nat /\ RenderAt(n) \in Nat
    BY <1>1, <2>1, Order DEF Ready, Read, At, Name
  <2>3. run[p].step < RenderAt(n) /\ (n # "compare" => run[p].step = 1)
    BY <2>2, Order
  <2>4. run[p].placed = {} /\ (n # "compare" => Len(run[p].read) = 0)
    BY <1>1, <2>1, <2>2, <2>3 DEF Ready
  <2>5. /\ d \in Docs /\ run[p].read \in Seq(Docs) /\ run[p].at \in {1, 2}
    BY <1>1, DeliveryAssumption DEF Shaped
  <2>6. PICK r : r = [run[p] EXCEPT !.read = Append(@, d)]
    OBVIOUS
  <2>7. /\ DOMAIN r = Fields /\ r.phase = "run" /\ r.step = run[p].step
        /\ r.read = Append(run[p].read, d) /\ r.placed = {} /\ r.at = run[p].at
    BY <1>1, <2>4, <2>6 DEF Shaped, Fields
  <2>8. r.read \in Seq(Docs) /\ (n # "compare" => Len(r.read) = 1)
    BY <2>4, <2>5, <2>7
  <2>9. r.step < RenderAt(n) /\ ~(r.step >= RenderAt(n))
    BY <2>2, <2>3, <2>7
  <2>10. InHand(p, r)'
    BY <2>7 DEF InHand
  <2>11. Onward(p, r)
    BY <1>3, <2>6
  <2>12. Holds(p, run[p])'
    BY <1>1, <2>1, <2>5, <2>7, <2>8, <2>9, <2>10, <2>11, OnwardHolds
  <2> QED BY <1>1, <2>7, <2>11, <2>12, WentOn, RunMoves
<1> QED BY <1>2, <1>3 DEF Read

LEMMA Unmoved == ASSUME DeliveryInv, NEW p \in Runs PROVE Alike(run[p], run[p])
BY Standing DEF Alike, Shaped

LEMMA QuietStepsKeep ==
  ASSUME DeliveryInv, NEW p \in Runs,
         Resolve(p) \/ Recheck(p) \/ Preflight(p) \/ Stage(p) \/ Judge(p) \/ Backup(p)
  PROVE  DeliveryInv'
<1>1. run[p].phase # "idle"
  BY DEF Resolve, Recheck, Preflight, Stage, Judge, Backup, At
<1>2. Shaped(p, run[p]) /\ DOMAIN run[p] = Fields
  BY Standing
<1>3. CASE Resolve(p)
  BY <1>1, <1>3, Unmoved, PassingKeeps, FailKeeps DEF Resolve, World
<1>4. CASE Recheck(p)
  BY <1>1, <1>4, Unmoved, PassingKeeps, FailKeeps DEF Recheck, World
<1>5. CASE Preflight(p)
  BY <1>1, <1>5, Unmoved, PassingKeeps, FailKeeps DEF Preflight, World
<1>6. CASE Stage(p)
  <2>1. ASSUME NEW d, Onward(p, [run[p] EXCEPT !.beside = {d}]), UNCHANGED <<data, scene>>
        PROVE  DeliveryInv'
    <3>1. PICK r : r = [run[p] EXCEPT !.beside = {d}]
      OBVIOUS
    <3>2. Alike(run[p], r)
      BY <1>2, <3>1 DEF Alike, Shaped, Fields
    <3> QED BY <1>6, <2>1, <3>1, <3>2, PassingKeeps DEF Stage
  <2> QED BY <1>1, <1>6, <2>1, FailKeeps, RefusedKeeps DEF Stage, World
<1>7. CASE Judge(p)
  <2>1. ASSUME NEW d, Onward(p, [run[p] EXCEPT !.judged = Append(@, d)]), UNCHANGED <<data, scene>>
        PROVE  DeliveryInv'
    <3>1. PICK r : r = [run[p] EXCEPT !.judged = Append(@, d)]
      OBVIOUS
    <3>2. Alike(run[p], r)
      BY <1>2, <3>1 DEF Alike, Shaped, Fields
    <3> QED BY <1>7, <2>1, <3>1, <3>2, PassingKeeps DEF Judge
  <2> QED BY <1>1, <1>7, <2>1, FailKeeps, RefusedKeeps DEF Judge, World
<1>8. CASE Backup(p)
  <2>1. ASSUME NEW x, DOMAIN x = Fields, x.phase = run[p].phase, x.step = run[p].step,
               x.read = run[p].read, x.made = run[p].made, x.placed = run[p].placed,
               x.at = run[p].at, Onward(p, Other(x)), UNCHANGED <<data, scene>>
        PROVE  DeliveryInv'
    <3>1. PICK r : r = Other(x)
      OBVIOUS
    <3>2. Alike(run[p], r)
      BY <1>2, <2>1, <3>1 DEF Alike, Shaped, Fields, Other
    <3> QED BY <1>8, <2>1, <3>1, <3>2, PassingKeeps DEF Backup
  <2>2. ASSUME NEW k, NEW b, UNCHANGED <<data, scene>>,
               Onward(p, Other([run[p] EXCEPT !.moved = @ \cup {k}, !.backup = Append(@, b)]))
        PROVE  DeliveryInv'
    <3>1. PICK x : x = [run[p] EXCEPT !.moved = @ \cup {k}, !.backup = Append(@, b)]
      OBVIOUS
    <3>2. /\ DOMAIN x = Fields /\ x.phase = run[p].phase /\ x.step = run[p].step
          /\ x.read = run[p].read /\ x.made = run[p].made /\ x.placed = run[p].placed
          /\ x.at = run[p].at
      BY <1>2, <3>1 DEF Fields
    <3> QED BY <2>1, <2>2, <3>1, <3>2
  <2>3. CASE Onward(p, Other(run[p])) /\ World
    BY <1>2, <2>1, <2>3 DEF World
  <2> QED BY <1>1, <1>8, <2>2, <2>3, FailKeeps, RefusedKeeps DEF Backup, World
<1> QED BY <1>3, <1>4, <1>5, <1>6, <1>7, <1>8

\* What the renderer and the checks let through is drawn from what was read.
LEMMA ProductIsDrawn ==
  ASSUME DeliveryInv, NEW p \in Runs, run[p].phase = "run", Product(p) # {},
         Name(p) # "compare" => Len(run[p].read) = 1
  PROVE  \A m \in Product(p) :
           DOMAIN m = {"is", "of"} /\ m.of = run[p].read /\ Passed(m, Name(p))
<1>1. PICK docs \in Seq(Docs) : docs = run[p].read
  BY Standing DEF Shaped
<1>2. PICK n \in Commands : n = Command(p).name
  BY Standing DEF Name
<1>3. n # "compare" => ToSet(docs) = {docs[1]}
  BY <1>1, <1>2 DEF ToSet, Name
<1>4. CASE n = "deliver"
  <2>1. Product(p) = IF docs[1] \in Sound THEN {[is |-> "html", of |-> docs]} ELSE {}
    BY <1>1, <1>2, <1>4 DEF Product, Source
  <2>2. docs[1] \in Sound /\ Product(p) = {[is |-> "html", of |-> docs]}
    BY <2>1
  <2>3. ASSUME NEW m, m = [is |-> "html", of |-> docs]
        PROVE  DOMAIN m = {"is", "of"} /\ m.of = docs /\ Passed(m, n)
    <3>1. DOMAIN m = {"is", "of"} /\ m.of = docs
      BY <2>3
    <3>2. ToSet(m.of) \subseteq Sound
      BY <1>3, <1>4, <2>2, <3>1
    <3> QED BY <1>4, <3>1, <3>2 DEF Passed
  <2> QED BY <1>1, <1>2, <2>2, <2>3 DEF Name
<1>5. CASE n = "compare"
  <2>1. Product(p) = IF ToSet(docs) \subseteq Tidy THEN {[is |-> "delta", of |-> docs]} ELSE {}
    BY <1>1, <1>2, <1>5 DEF Product, Source
  <2>2. ToSet(docs) \subseteq Tidy /\ Product(p) = {[is |-> "delta", of |-> docs]}
    BY <2>1
  <2>3. ASSUME NEW m, m = [is |-> "delta", of |-> docs]
        PROVE  DOMAIN m = {"is", "of"} /\ m.of = docs /\ Passed(m, n)
    <3>1. DOMAIN m = {"is", "of"} /\ m.of = docs
      BY <2>3
    <3> QED BY <1>5, <2>2, <3>1 DEF Passed
  <2> QED BY <1>1, <1>2, <2>2, <2>3 DEF Name
<1>6. CASE n = "migrate"
  <2>1. Product(p) = IF Migrated[docs[1]] \in Sound THEN {[is |-> "document", of |-> docs]} ELSE {}
    BY <1>1, <1>2, <1>6 DEF Product, Source
  <2>2. Migrated[docs[1]] \in Sound /\ Product(p) = {[is |-> "document", of |-> docs]}
    BY <2>1
  <2>3. ASSUME NEW m, m = [is |-> "document", of |-> docs]
        PROVE  DOMAIN m = {"is", "of"} /\ m.of = docs /\ Passed(m, n)
    <3>1. DOMAIN m = {"is", "of"} /\ m.of = docs
      BY <2>3
    <3>2. {Migrated[d] : d \in ToSet(m.of)} \subseteq Sound
      BY <1>3, <1>6, <2>2, <3>1
    <3> QED BY <1>6, <3>1, <3>2 DEF Passed
  <2> QED BY <1>1, <1>2, <2>2, <2>3 DEF Name
<1> QED BY <1>4, <1>5, <1>6 DEF Commands

LEMMA RenderKeeps == ASSUME DeliveryInv, NEW p \in Runs, Render(p) PROVE DeliveryInv'
<1>1. /\ run[p].phase = "run" /\ Shaped(p, run[p]) /\ Ready(p, run[p])
      /\ Name(p) \in Commands
  BY Standing DEF Render, At
<1>2. CASE /\ Product(p) # {} /\ UNCHANGED <<data, scene>>
           /\ Onward(p, [run[p] EXCEPT !.made = Product(p)])
  <2>1. PICK n \in Commands : n = Name(p)
    BY <1>1
  <2>2. /\ run[p].step \in 1..Len(Steps[n]) /\ Steps[n][run[p].step] = "render"
        /\ Len(Steps[n]) \in Nat /\ RenderAt(n) \in Nat
    BY <1>1, <2>1, Order DEF Ready, Render, At, Name
  <2>3. run[p].step = RenderAt(n)
    BY <2>2, Order
  <2>4. run[p].placed = {} /\ (n # "compare" => Len(run[p].read) = 1)
    <3>1. run[p].step # 1
      BY <2>3 DEF RenderAt
    <3>2. run[p].step <= RenderAt(n)
      BY <2>2, <2>3
    <3> QED BY <1>1, <2>1, <3>1, <3>2 DEF Ready
  <2>5. PICK r : r = [run[p] EXCEPT !.made = Product(p)]
    OBVIOUS
  <2>6. /\ DOMAIN r = Fields /\ r.phase = "run" /\ r.step = run[p].step
        /\ r.read = run[p].read /\ r.placed = {} /\ r.at = run[p].at /\ r.made = Product(p)
    BY <1>1, <2>4, <2>5 DEF Shaped, Fields
  <2>7. r.at \in {1, 2} /\ r.read \in Seq(Docs)
    BY <1>1, <2>6 DEF Shaped
  <2>8. Drawn(p, r)
    BY <1>1, <1>2, <2>1, <2>4, <2>6, ProductIsDrawn DEF Drawn
  <2>9. InHand(p, r)'
    BY <2>6 DEF InHand
  <2>10. Onward(p, r)
    BY <1>2, <2>5
  <2>11. Holds(p, run[p])'
    BY <1>1, <1>2, <2>1, <2>4, <2>6, <2>7, <2>8, <2>9, <2>10, OnwardHolds
  <2> QED BY <1>2, <2>6, <2>10, <2>11, WentOn, RunMoves
<1> QED BY <1>1, <1>2, FailKeeps, RefusedKeeps DEF Render, World

\* The product is put in place under the run's own name for it.
LEMMA CommitKeeps == ASSUME DeliveryInv, NEW p \in Runs, Commit(p) PROVE DeliveryInv'
<1>1. /\ run[p].phase = "run" /\ Shaped(p, run[p]) /\ Ready(p, run[p]) /\ InHand(p, run[p])
      /\ Name(p) \in Commands
  BY Standing DEF Commit, At
<1>2. PICK k \in {1, 2} : k = run[p].at
  BY <1>1 DEF Shaped
<1>3. CASE /\ data' = With(data, Id(p, k), Made(p, k)) /\ UNCHANGED scene
           /\ Onward(p, Other([run[p] EXCEPT !.placed = @ \cup {k}]))
  <2>1. PICK n \in Commands : n = Name(p)
    BY <1>1
  <2>2. /\ run[p].step \in 1..Len(Steps[n]) /\ Steps[n][run[p].step] = "commit"
        /\ Len(Steps[n]) \in Nat /\ RenderAt(n) \in Nat
    BY <1>1, <2>1, Order DEF Ready, Commit, At, Name
  <2>3. run[p].step > RenderAt(n) /\ ~(run[p].step < RenderAt(n)) /\ run[p].step # 1
    <3>1. run[p].step > RenderAt(n) /\ RenderAt(n) \in {4, 7}
      BY <2>2, Order DEF RenderAt
    <3> QED BY <2>2, <3>1
  <2>4. Drawn(p, run[p]) /\ (n # "compare" => Len(run[p].read) = 1)
    BY <1>1, <2>1, <2>3 DEF Ready
  <2>5. PICK x : x = [run[p] EXCEPT !.placed = @ \cup {k}]
    OBVIOUS
  <2>6. /\ DOMAIN x = Fields /\ x.phase = "run" /\ x.step = run[p].step
        /\ x.read = run[p].read /\ x.made = run[p].made /\ x.at = run[p].at
        /\ x.placed = run[p].placed \cup {k}
    BY <1>1, <2>5 DEF Shaped, Fields
  <2>7. PICK r : r = Other(x)
    OBVIOUS
  <2>8. /\ DOMAIN r = Fields /\ r.phase = "run" /\ r.step = run[p].step
        /\ r.read = run[p].read /\ r.made = run[p].made /\ r.at \in {1, 2}
        /\ r.placed = run[p].placed \cup {k}
    BY <2>6, <2>7 DEF Other, Fields
  <2>9. r.placed \subseteq {1, 2} /\ r.read \in Seq(Docs) /\ Drawn(p, r)
    BY <1>1, <2>4, <2>8 DEF Shaped, Drawn
  <2>10. PICK m \in run[p].made : m = CHOOSE y \in run[p].made : TRUE
    BY <2>4 DEF Drawn
  <2>11. /\ Made(p, k) = (IF k = 1 THEN m ELSE [m EXCEPT !.is = "receipt"])
         /\ DOMAIN m = {"is", "of"} /\ m.of = run[p].read /\ Passed(m, n)
    BY <2>1, <2>4, <2>10 DEF Made, Drawn
  <2>12. Made(p, k).of = run[p].read
    BY <2>11
  <2>13. Passed(Made(p, k), n)
    BY <2>11, <2>12 DEF Passed
  <2>14. PICK i : i = Id(p, k)
    OBVIOUS
  <2>15. /\ DOMAIN data' = DOMAIN data \cup {i} /\ data'[i] = Made(p, k)
         /\ \A j \in DOMAIN data : j # i => data'[j] = data[j]
    BY <1>3, <2>14 DEF With
  <2>16. \A q \in Runs : \A j \in {1, 2} : q # p \/ j # k => Id(q, j) # i
    BY <2>14, Apart
  <2>17. InHand(p, r)'
    <3>1. InHand(p, r)' <=> \A j \in r.placed : Id(p, j) \in DOMAIN data' /\ data'[Id(p, j)].of = r.read
      BY DEF InHand
    <3>2. ASSUME NEW j \in run[p].placed, j # k
          PROVE  Id(p, j) \in DOMAIN data' /\ data'[Id(p, j)].of = r.read
      <4>1. j \in {1, 2} /\ Id(p, j) \in DOMAIN data /\ data[Id(p, j)].of = run[p].read
        BY <1>1 DEF Shaped, InHand
      <4> QED BY <2>8, <2>15, <2>16, <3>2, <4>1
    <3>3. Id(p, k) \in DOMAIN data' /\ data'[Id(p, k)].of = r.read
      BY <2>8, <2>12, <2>14, <2>15
    <3> QED BY <2>8, <3>1, <3>2, <3>3
  <2>18. Onward(p, r)
    BY <1>3, <2>5, <2>7
  <2>19. Holds(p, run[p])'
    BY <1>1, <1>3, <2>1, <2>3, <2>4, <2>8, <2>9, <2>17, <2>18, OnwardHolds
  <2>20. DOMAIN run' = Runs /\ \A q \in Runs \ {p} : run'[q] = run[q]
    BY <2>8, <2>18, WentOn
  <2>21. ASSUME NEW q \in Runs, q # p PROVE Holds(q, run[q])'
    <3>1. \A j \in {1, 2} : Id(q, j) \in DOMAIN data =>
            Id(q, j) \in DOMAIN data' /\ data'[Id(q, j)] = data[Id(q, j)]
      BY <2>15, <2>16, <2>21
    <3> QED BY <1>3, <2>20, <2>21, <3>1, OthersHold
  <2>22. Certified'
    <3>1. \A q : Name(q)' = Name(q)
      BY <1>3 DEF Name, Command
    <3>2. ASSUME NEW q \in Runs, NEW j \in {1, 2}, Id(q, j) \in DOMAIN data'
          PROVE  q \in DOMAIN scene.commands /\ Passed(data'[Id(q, j)], Name(q))
      <4>1. CASE q = p /\ j = k
        BY <1>1, <2>1, <2>13, <2>14, <2>15, <4>1 DEF Shaped
      <4>2. CASE q # p \/ j # k
        BY <2>15, <2>16, <3>2, <4>2 DEF DeliveryInv, Certified
      <4> QED BY <4>1, <4>2
    <3>3. \A q \in Runs, j \in {1, 2} : Passed(data'[Id(q, j)], Name(q)) => Passed(data[Id(q, j)], Name(q))'
      BY <3>1 DEF Passed
    <3> QED BY <1>3, <3>2, <3>3 DEF Certified
  <2> QED BY <1>3, <2>19, <2>20, <2>21, <2>22 DEF DeliveryInv
<1> QED BY <1>1, <1>2, <1>3, FailKeeps, RefusedKeeps DEF Commit, World

LEMMA WayBackKeeps ==
  ASSUME DeliveryInv, NEW p \in Runs,
         Withdraw(p) \/ Restore(p) \/ RolledBack(p) \/ Clean(p) \/ Kill(p)
  PROVE  DeliveryInv'
<1>1. /\ run[p].phase # "idle" /\ UNCHANGED <<data, scene>>
      /\ DOMAIN run[p] = Fields /\ run[p].at \in {1, 2}
  BY Standing DEF Withdraw, Restore, RolledBack, Clean, Kill, Live, World, Shaped
<1>2. ASSUME NEW r, Set(p, r), DOMAIN r = Fields, r.phase \in {"rollback", "clean", "done", "dead"},
             r.at = run[p].at, r.read = run[p].read, r.placed \subseteq run[p].placed
      PROVE  DeliveryInv'
  <2>1. r.phase \notin {"idle", "run"} /\ r.at \in {1, 2}
    BY <1>1, <1>2
  <2> QED BY <1>1, <1>2, <2>1, LeftKeeps
<1>3. CASE Withdraw(p)
  <2>1. PICK k : \/ Set(p, [run[p] EXCEPT !.placed = @ \ {k}])
                 \/ Set(p, [[run[p] EXCEPT !.placed = @ \ {k}] EXCEPT !.lost = @ \cup {k}])
    BY <1>3 DEF Withdraw
  <2>2. PICK r : r = [run[p] EXCEPT !.placed = @ \ {k}]
    OBVIOUS
  <2>3. PICK t : t = [r EXCEPT !.lost = @ \cup {k}]
    OBVIOUS
  <2>4. /\ DOMAIN r = Fields /\ r.phase = "rollback" /\ r.at = run[p].at
        /\ r.read = run[p].read /\ r.placed \subseteq run[p].placed
    BY <1>1, <1>3, <2>2 DEF Withdraw, Fields
  <2>5. /\ DOMAIN t = Fields /\ t.phase = "rollback" /\ t.at = run[p].at
        /\ t.read = run[p].read /\ t.placed \subseteq run[p].placed
    BY <2>3, <2>4 DEF Fields
  <2> QED BY <1>2, <2>1, <2>2, <2>3, <2>4, <2>5
<1>4. CASE Restore(p)
  <2>1. PICK k : \/ Set(p, [run[p] EXCEPT !.backup = Front(@)])
                 \/ Set(p, [[run[p] EXCEPT !.backup = Front(@)] EXCEPT !.lost = @ \cup {k}])
    BY <1>4 DEF Restore
  <2>2. PICK r : r = [run[p] EXCEPT !.backup = Front(@)]
    OBVIOUS
  <2>3. PICK t : t = [r EXCEPT !.lost = @ \cup {k}]
    OBVIOUS
  <2>4. /\ DOMAIN r = Fields /\ r.phase = "rollback" /\ r.at = run[p].at
        /\ r.read = run[p].read /\ r.placed \subseteq run[p].placed
    BY <1>1, <1>4, <2>2 DEF Restore, Fields
  <2>5. /\ DOMAIN t = Fields /\ t.phase = "rollback" /\ t.at = run[p].at
        /\ t.read = run[p].read /\ t.placed \subseteq run[p].placed
    BY <2>3, <2>4 DEF Fields
  <2> QED BY <1>2, <2>1, <2>2, <2>3, <2>4, <2>5
<1>5. CASE RolledBack(p) \/ Kill(p)
  <2>1. PICK c \in {"clean", "dead"} : Set(p, [run[p] EXCEPT !.phase = c])
    BY <1>5 DEF RolledBack, Kill
  <2>2. PICK r : r = [run[p] EXCEPT !.phase = c]
    OBVIOUS
  <2>3. /\ DOMAIN r = Fields /\ r.phase = c /\ r.at = run[p].at
        /\ r.read = run[p].read /\ r.placed = run[p].placed
    BY <1>1, <2>2 DEF Fields
  <2> QED BY <1>2, <2>1, <2>2, <2>3
<1>6. CASE Clean(p)
  <2>1. \/ Set(p, [run[p] EXCEPT !.phase = "done", !.beside = {}, !.backup = <<>>])
        \/ Set(p, [run[p] EXCEPT !.phase = "done"])
    BY <1>6 DEF Clean
  <2>2. PICK r : r = [run[p] EXCEPT !.phase = "done", !.beside = {}, !.backup = <<>>]
    OBVIOUS
  <2>3. PICK t : t = [run[p] EXCEPT !.phase = "done"]
    OBVIOUS
  <2>4. /\ DOMAIN r = Fields /\ r.phase = "done" /\ r.at = run[p].at
        /\ r.read = run[p].read /\ r.placed = run[p].placed
    BY <1>1, <2>2 DEF Fields
  <2>5. /\ DOMAIN t = Fields /\ t.phase = "done" /\ t.at = run[p].at
        /\ t.read = run[p].read /\ t.placed = run[p].placed
    BY <1>1, <2>3 DEF Fields
  <2> QED BY <1>2, <2>1, <2>2, <2>3, <2>4, <2>5
<1> QED BY <1>3, <1>4, <1>5, <1>6

\* The author edits what is his.
LEMMA EditKeeps == DeliveryInv /\ Edit => DeliveryInv'
<1> SUFFICES ASSUME DeliveryInv, Edit PROVE DeliveryInv'
  OBVIOUS
<1>1. PICK id \in scene.sources, d \in Docs : data' = [data EXCEPT ![id] = d]
  BY DEF Edit
<1>2. UNCHANGED <<scene, run>>
  BY DEF Edit
<1>3. ASSUME NEW q \in Runs, NEW k \in {1, 2} PROVE Id(q, k) # id
  BY DeliveryAssumption DEF DeliveryInv
<1>4. ASSUME NEW q \in Runs, NEW k \in {1, 2}
      PROVE  /\ Id(q, k) \in DOMAIN data' <=> Id(q, k) \in DOMAIN data
             /\ Id(q, k) \in DOMAIN data => data'[Id(q, k)] = data[Id(q, k)]
  <2>1. PICK i : i = Id(q, k)
    OBVIOUS
  <2>2. i # id
    BY <1>3, <2>1
  <2>3. (i \in DOMAIN data' <=> i \in DOMAIN data) /\ (i \in DOMAIN data => data'[i] = data[i])
    BY <1>1, <2>2
  <2> QED BY <2>1, <2>3
<1>5. ASSUME NEW q \in Runs PROVE Holds(q, run[q])'
  BY <1>2, <1>4, OthersHold
<1>6. Certified'
  <2>1. ASSUME NEW q \in Runs, NEW k \in {1, 2}, Id(q, k) \in DOMAIN data'
        PROVE  (q \in DOMAIN scene.commands /\ Passed(data[Id(q, k)], Name(q)))'
    <3>1. Id(q, k) \in DOMAIN data /\ data'[Id(q, k)] = data[Id(q, k)]
      BY <1>4, <2>1
    <3>2. q \in DOMAIN scene.commands /\ Passed(data[Id(q, k)], Name(q))
      BY <3>1 DEF DeliveryInv, Certified
    <3> QED BY <1>2, <3>1, <3>2 DEF Passed, Name, Command
  <2> QED BY <2>1 DEF Certified
<1> QED BY <1>2, <1>5, <1>6 DEF DeliveryInv

LEMMA StillKeeps == DeliveryInv /\ UNCHANGED <<data, scene, run>> => DeliveryInv'
BY OthersHold, SameFiles DEF DeliveryInv

LEMMA InitHolds == Init => DeliveryInv
<1> SUFFICES ASSUME Init PROVE DeliveryInv
  OBVIOUS
<1>1. /\ scene \in Scenes /\ data = scene.data /\ DOMAIN run = Runs
      /\ \A p \in Runs : run[p] = Fresh
  BY DEF Init
<1>2. ASSUME NEW p \in Runs PROVE Holds(p, run[p])
  <2>1. /\ DOMAIN Fresh = Fields /\ Fresh.phase = "idle" /\ Fresh.read = <<>>
        /\ Fresh.placed = {} /\ Fresh.at = 1
    BY DEF Fresh, Fields
  <2>2. Shaped(p, Fresh) /\ Ready(p, Fresh) /\ InHand(p, Fresh)
    BY <2>1 DEF Shaped, Ready, InHand
  <2> QED BY <1>1, <2>2 DEF Holds
<1>3. Certified
  BY <1>1, DeliveryAssumption DEF Certified
<1> QED BY <1>1, <1>2, <1>3 DEF DeliveryInv

LEMMA NextKeeps == DeliveryInv /\ [Next]_vars => DeliveryInv'
<1> SUFFICES ASSUME DeliveryInv, [Next]_vars PROVE DeliveryInv'
  OBVIOUS
<1>1. ASSUME NEW p \in Runs, Begin(p) \/ Work(p) \/ Kill(p) PROVE DeliveryInv'
  BY <1>1, BeginKeeps, ReadKeeps, QuietStepsKeep, RenderKeeps, CommitKeeps, WayBackKeeps DEF Work
<1>2. CASE Edit
  BY <1>2, EditKeeps
<1>3. CASE Relink
  BY <1>3, StillKeeps DEF Relink
<1>4. CASE UNCHANGED vars
  BY <1>4, StillKeeps DEF vars
<1> QED BY <1>1, <1>2, <1>3, <1>4 DEF Next

-----------------------------------------------------------------------------
LEMMA DeliveryStays == Spec => []DeliveryInv
<1>1. DeliveryInv /\ [Next]_vars => DeliveryInv'
  BY NextKeeps
<1> QED BY <1>1, InitHolds, PTL DEF Spec

(* archify.mjs:880, 1027: what a command puts in place was drawn from what *)
(* it read and reports, whatever the author saved, whoever was killed and  *)
(* whichever half was taken back meanwhile.                                *)
THEOREM DeliveriesAreDrawn == Spec => []DrawnFromWhatWasRead
<1>1. DeliveryInv => DrawnFromWhatWasRead
  BY DEF DeliveryInv, Holds, InHand, DrawnFromWhatWasRead
<1> QED BY <1>1, DeliveryStays, PTL

(* archify.mjs:880, 1044, 1784: no file that a command ever wrote holds a  *)
(* document that the checks of that command turned down.                   *)
THEOREM DeliveriesPassed == Spec => []Certified
<1>1. DeliveryInv => Certified
  BY DEF DeliveryInv
<1> QED BY <1>1, DeliveryStays, PTL
=============================================================================
