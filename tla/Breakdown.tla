----------------------------- MODULE Breakdown ------------------------------
(***************************************************************************)
(* How a request becomes tickets, and how those are folded into one        *)
(* (internal/agent/scope, internal/agent/ticketmerge), while the other     *)
(* stages are already polling the board.                                   *)
(*                                                                         *)
(* Both stages write their plan with one call per ticket and one more per  *)
(* dependency.  Each call is a step of its own here, so every poll can     *)
(* fall between two of them.  A ticket is what the calls read and write:   *)
(* its column, its parent, its prerequisites and the units of the plan its *)
(* description asks for.  Tickets are numbered in the order of creation.   *)
(***************************************************************************)
EXTENDS Workflow, Sequences

CONSTANTS
  Settings,   \* the departments and plans to explore
  MaxFailures \* how often something fails, which is less than MaxAttempts

(* In a setting: how many tasks the plan has; how many sections a task is   *)
(* split into (scope.Refine); whether the plan is folded into one task      *)
(* first (AGENTS_PM_ONE_TASK); how many tickets a stage works at once; the  *)
(* later stages some host serves (department.Assemble); and what may fail:  *)
(* calls by their name, the host, the priority, the later stages.           *)
SettingsAreSound ==
  /\ MaxFailures \in Nat
  /\ \A s \in Settings :
       /\ s.units \in Nat \ {0, 1} /\ s.pieces \in Nat \ {0} /\ s.slots \in Nat \ {0}
       /\ s.mergeFirst \in BOOLEAN /\ s.staffed \subseteq {"spec", "specmerge", "dev"}
       /\ s.flaky \subseteq {"create", "edge", "move", "describe", "crash", "priority", "stage"}
ASSUME BreakdownAssumption == SettingsAreSound

VARIABLES
  setting,
  board,   \* the tickets, in the order they were created
  request, \* the column of the request the plan is for
  todo,    \* the calls each handler still has to make; handler 0 is the planner
  made,    \* the tickets each handler has created
  left,    \* how many failures are left
  early,   \* history: the tickets taken while an edge of theirs was still to be written
  together \* history: the tickets taken to be merged while another one was

moving   == <<board, request, todo, made, left, early, together>>
planVars == <<setting, moving>>

Units      == setting.units
Pieces     == setting.pieces
MergeFirst == setting.mergeFirst
Slots      == setting.slots
Staffed    == setting.staffed
Flaky      == setting.flaky

T == Table(FALSE, FALSE)

Ids  == DOMAIN board
Plan == 1..Units
NoStage == ""

Col(i)      == board[i].column
Tasks       == {i \in Ids : board[i].parent = 0}
Sections(i) == {s \in Ids : board[s].parent = i}
ColumnOf    == [i \in Ids |-> Col(i)]

(*---------------- the calls a handler makes, in order --------------------*)

(* A ticket is referred to by its number, or before it has one by a name    *)
(* that its handler gives it.                                               *)
This(i)    == <<i>>
Name(u, p) == <<u, p>>
Id(h, ref) == IF Len(ref) = 1 THEN ref[1] ELSE made[h][ref]

Call(op, on, to, column, units) ==
  [op |-> op, on |-> on, to |-> to, column |-> column, units |-> units]
Create(name, parent, column, units) == Call("create", parent, name, column, units)
Edge(on, to)                        == Call("edge", on, to, NoColumn, {})
MoveTo(on, column)                  == Call("move", on, This(0), column, {})
Describe(on, units)                 == Call("describe", on, This(0), NoColumn, units)

\* The calls for 1, then those for 2, up to n.
Each(n, calls) ==
  LET f[k \in 0..n] == IF k = 0 THEN <<>> ELSE f[k - 1] \o calls[k] IN f[n]

EntryColumn == IF MergeFirst THEN T.ticketmerge.ready ELSE T.specmerge.ready

Task(u)       == Name(u, 0)
Section(u, p) == Name(u, p)

(* chainTo: one prerequisite per earlier task.                              *)
ChainTo(ref, u) == Each(u - 1, [v \in 1..u - 1 |-> <<Edge(ref, Task(v))>>])

(* The section before the k-th, which it waits for.                         *)
Before(u, k) == IF k > 1 THEN <<Edge(Section(u, k), Section(u, k - 1))>> ELSE <<>>

UnorderedMutant(u, p) ==
  <<Create(Section(u, p), Task(u), T.spec.ready, {u}), Edge(Task(u), Section(u, p))>>
  \o ChainTo(Section(u, p), u)

(* openSections of scope: the task waits for the section, and the section   *)
(* for what its task waits for and for the section before it.               *)
OpenSection(u, p) ==
  <<Create(Section(u, p), Task(u), T.spec.ready, {u}), Edge(Task(u), Section(u, p))>>
  \o ChainTo(Section(u, p), u) \o Before(u, p)

(* Open: a task per unit, waiting for every task before it, with the        *)
(* sections of its specification unless the tasks are to be merged.         *)
OpenTask(u) ==
  <<Create(Task(u), This(0), EntryColumn, {u})>> \o ChainTo(Task(u), u)
  \o (IF MergeFirst THEN <<>> ELSE Each(Pieces, [p \in 1..Pieces |-> OpenSection(u, p)]))
Open == Each(Units, [u \in Plan |-> OpenTask(u)])

(* The siblings still waiting to be merged, in the order of creation.       *)
Siblings(i) == {s \in Tasks : s # i /\ Col(s) = T.ticketmerge.ready}
InOrder(ids) == Each(Len(board), [i \in Ids |-> IF i \in ids THEN <<i>> ELSE <<>>])

Close(ids) ==
  Each(Len(board), [i \in Ids |-> IF i \in ids THEN <<MoveTo(This(i), Done)>> ELSE <<>>])

LeaveOpenMutant(siblings) ==
  Each(Len(siblings), [k \in DOMAIN siblings |->
    Close({c \in Sections(siblings[k]) : Col(c) # Done})])

(* absorb: close each sibling, and before it everything under it.           *)
Absorb(siblings) ==
  Each(Len(siblings), [k \in DOMAIN siblings |->
    Close({c \in Sections(siblings[k]) : Col(c) # Done}) \o Close({siblings[k]})])

UnlinkedMutant(i, merged) ==
  Each(Len(merged), [k \in DOMAIN merged |->
    <<Create(Section(i, k), This(i), T.spec.ready, board[merged[k]].units)>> \o Before(i, k)])

(* openSections: a section per ticket merged, the task waiting for each and *)
(* each for the one before it.                                              *)
OpenSections(i, merged) ==
  Each(Len(merged), [k \in DOMAIN merged |->
    <<Create(Section(i, k), This(i), T.spec.ready, board[merged[k]].units),
      Edge(This(i), Section(i, k))>>
    \o Before(i, k)])

AbsorbFirstMutant(i) ==
  LET siblings == InOrder(Siblings(i))
      merged   == <<i>> \o siblings
  IN IF siblings = <<>> THEN <<>>
     ELSE Absorb(siblings)
          \o <<Describe(This(i), UNION {board[merged[k]].units : k \in DOMAIN merged})>>
          \o OpenSections(i, merged)

(* What the merge stage does with the tickets it lists: write the merged    *)
(* description, close the others, open the sections.                        *)
Fold(i) ==
  LET siblings == InOrder(Siblings(i))
      merged   == <<i>> \o siblings
  IN IF siblings = <<>> THEN <<>>
     ELSE <<Describe(This(i), UNION {board[merged[k]].units : k \in DOMAIN merged})>>
          \o Absorb(siblings) \o OpenSections(i, merged)

-----------------------------------------------------------------------------

PlanInit ==
  /\ setting \in Settings
  /\ board = <<>>
  /\ request = "scoping"
  /\ todo = [h \in {0} |-> Open]
  /\ made = [h \in {0} |-> <<>>]
  /\ left = MaxFailures
  /\ early = {}
  /\ together = {}

Writing(h) == h \in DOMAIN todo
Idle == DOMAIN todo = {}

(* The handler h starts, on a list of calls; it ends, and its list goes.    *)
Starts(h, calls) ==
  /\ todo' = [g \in DOMAIN todo \cup {h} |-> IF g = h THEN calls ELSE todo[g]]
  /\ made' = [g \in DOMAIN todo \cup {h} |-> IF g = h THEN <<>> ELSE made[g]]
Stops(h) ==
  /\ todo' = [g \in DOMAIN todo \ {h} |-> todo[g]]
  /\ made' = [g \in DOMAIN todo \ {h} |-> made[g]]

Fails(what) == what \in Flaky /\ left > 0 /\ left' = left - 1

Put(i, column) == [board EXCEPT ![i].column = column]
Leave(i, column) == [board EXCEPT ![i].column = column, ![i].by = NoStage]

Proceeds(h) == todo' = [todo EXCEPT ![h] = Tail(@)]

(* A new ticket goes by its name from now on.                               *)
Named(names, name, i) == [n \in DOMAIN names \cup {name} |-> IF n = name THEN i ELSE names[n]]

(* The next call of a handler is applied.                                   *)
CreateTicket(h, call) ==
  /\ call.op = "create"
  /\ board' = Append(board, [parent |-> Id(h, call.on), column |-> call.column,
                             units |-> call.units, deps |-> {}, by |-> NoStage,
                             built |-> FALSE])
  /\ made' = [made EXCEPT ![h] = Named(@, call.to, Len(board) + 1)]

ChangeTicket(h, call) ==
  LET i == Id(h, call.on) IN
  /\ \/ call.op = "edge" /\ board' = [board EXCEPT ![i].deps = @ \cup {Id(h, call.to)}]
     \/ call.op = "move" /\ board' = Put(i, call.column)
     \/ call.op = "describe" /\ board' = [board EXCEPT ![i].units = call.units]
  /\ UNCHANGED made

MakeCall(h) ==
  /\ Writing(h) /\ todo[h] # <<>>
  /\ CreateTicket(h, Head(todo[h])) \/ ChangeTicket(h, Head(todo[h]))
  /\ Proceeds(h)
  /\ UNCHANGED <<request, left, early, together>>

(* An edge or a move that fails is logged and the handler goes on.          *)
LoseCall(h) ==
  /\ Writing(h) /\ todo[h] # <<>> /\ Head(todo[h]).op \in {"edge", "move"}
  /\ Fails(Head(todo[h]).op)
  /\ Proceeds(h)
  /\ UNCHANGED <<board, request, made, early, together>>

(* A ticket or a description that cannot be written fails the handler, and  *)
(* a host that dies ends it anywhere; either way its own ticket goes back   *)
(* to its queue and what was written stays.                                 *)
FailHandler(h) ==
  /\ Writing(h) /\ todo[h] # <<>>
  /\ \/ Fails("crash")
     \/ Head(todo[h]).op \in {"create", "describe"} /\ Fails(Head(todo[h]).op)
  /\ Stops(h)
  /\ IF h = 0 THEN request' = Inbox /\ UNCHANGED board
     ELSE board' = Leave(h, T.ticketmerge.ready) /\ UNCHANGED request
  /\ UNCHANGED <<early, together>>

(* The handler returns success, and the dispatcher moves its ticket on,     *)
(* wherever it is by now.                                                   *)
FinishHandler(h) ==
  /\ Writing(h) /\ todo[h] = <<>>
  /\ Stops(h)
  /\ IF h = 0 THEN request' = Tracking /\ UNCHANGED board
     ELSE board' = Leave(h, T.ticketmerge.success) /\ UNCHANGED request
  /\ UNCHANGED <<left, early, together>>

(* The request is scoped: its priority cannot be set, and it is reported as *)
(* done; or its tasks are opened.                                           *)
Scope ==
  /\ request = Inbox
  /\ request' = "scoping" /\ Starts(0, Open)
  /\ UNCHANGED <<board, left, early, together>>

PriorityFails ==
  /\ request = "scoping" /\ Writing(0) /\ todo[0] = Open /\ made[0] = <<>>
  /\ Fails("priority")
  /\ request' = Tracking /\ Stops(0)
  /\ UNCHANGED <<board, early, together>>

(*---------------- the stages that work what was opened -------------------*)

Stages == {"spec", "specmerge", "dev"}

(* A stage polls: it takes a ticket of its queue that has no unfinished     *)
(* prerequisite and for which it has a slot.                                *)
InHand(r) == {i \in Ids : board[i].by = r}

Takes(i, r) ==
  /\ Col(i) = T[r].ready
  /\ Cardinality(InHand(r)) < Slots
  /\ T[r].deps => Ready(ColumnOf, board[i].deps)

(* A handler still has to write an edge of the ticket.  The dispatcher      *)
(* cannot know that: it takes the ticket, and history remembers.            *)
Unlinked(i) ==
  \E h \in DOMAIN todo : \E k \in DOMAIN todo[h] :
    LET call == todo[h][k] IN
    /\ call.op = "edge"
    /\ call.on = This(i) \/ (call.on \in DOMAIN made[h] /\ made[h][call.on] = i)

Occupy(i, r) == board' = [board EXCEPT ![i].column = T[r].working, ![i].by = r]

(* The merge stage takes the oldest first.                                  *)
TakeToMerge(i) ==
  /\ Takes(i, "ticketmerge")
  /\ \A j \in Ids : Takes(j, "ticketmerge") => i <= j
  /\ Occupy(i, "ticketmerge")
  /\ together' = IF InHand("ticketmerge") # {} THEN together \cup {i} ELSE together
  /\ UNCHANGED <<request, todo, made, left, early>>

(* Handle: list the board, then do what the listing calls for.              *)
ListSiblings(i) ==
  /\ board[i].by = "ticketmerge" /\ ~Writing(i)
  /\ Starts(i, Fold(i))
  /\ UNCHANGED <<board, request, left, early, together>>

TakeUp(i, r) ==
  /\ r \in Staffed
  /\ Takes(i, r)
  /\ Occupy(i, r)
  /\ early' = IF Unlinked(i) THEN early \cup {i} ELSE early
  /\ UNCHANGED <<request, todo, made, left, together>>

(* A finished stage moves its ticket on.  What follows development, up to   *)
(* the merge, is one step here.                                             *)
Finish(i, r) ==
  /\ board[i].by = r
  /\ board' = [Leave(i, IF r = "dev" THEN Done ELSE T[r].success)
                 EXCEPT ![i].built = @ \/ r = "dev"]
  /\ UNCHANGED <<request, todo, made, left, early, together>>

(* The attempts run out and the ticket goes to a person.                    *)
GiveUp(i, r) ==
  /\ board[i].by = r
  /\ Fails("stage")
  /\ board' = Leave(i, T[r].exhausted)
  /\ UNCHANGED <<request, todo, made, early, together>>

NeverStrandedMutant(i) == FALSE
Stranded(i) == Deadlocked(ColumnOf, board[i].deps)

(* sweepDeadlocked: a queued ticket behind a blocked one follows it.        *)
SetAside(i, r) ==
  /\ r \in Staffed
  /\ Col(i) = T[r].ready /\ T[r].deps /\ Stranded(i)
  /\ board' = Put(i, T[r].exhausted)
  /\ UNCHANGED <<request, todo, made, left, early, together>>

Step(h) == MakeCall(h) \/ FinishHandler(h)

PlanNext ==
  /\ \/ Scope \/ PriorityFails
     \/ \E h \in DOMAIN todo : Step(h) \/ LoseCall(h) \/ FailHandler(h)
     \/ \E i \in Ids : TakeToMerge(i) \/ ListSiblings(i)
     \/ \E i \in Ids, r \in Stages : TakeUp(i, r) \/ Finish(i, r) \/ GiveUp(i, r) \/ SetAside(i, r)
  /\ UNCHANGED setting

PlanSpec == PlanInit /\ [][PlanNext]_planVars

(* Handlers run on, and every stage polls and finishes what it took.        *)
FairPlanSpec ==
  /\ PlanSpec
  /\ WF_moving(Scope)
  /\ WF_moving(\E h \in DOMAIN todo : Step(h))
  /\ WF_moving(\E i \in Ids : TakeToMerge(i) \/ ListSiblings(i))
  /\ \A r \in Stages : WF_moving(\E i \in Ids : TakeUp(i, r) \/ Finish(i, r) \/ SetAside(i, r))

-----------------------------------------------------------------------------
(*----------------------------- properties --------------------------------*)

(* A ticket still asks for its units unless it was closed as absorbed.      *)
Asks(i, u) == u \in board[i].units /\ (Col(i) = Done => board[i].built)

Opened(u) == \E i \in Tasks : u \in board[i].units

(* Nothing is being opened or folded, so what the board says is what stands. *)
Still == Idle /\ \A i \in Tasks : board[i].by # "ticketmerge"

(* Nothing has failed but a stage, whose ticket then goes to a person.      *)
Unharmed == left = MaxFailures \/ Flaky \subseteq {"stage"}

(* "Dropping a requirement is the one failure nothing downstream can catch" *)
(* (ticketmerge.go:5-6).  Whatever fails and whenever the stages poll, once *)
(* nothing is being opened or folded every unit a task was opened for is    *)
(* asked of a task or was built by one.  It can be lost only where the      *)
(* merge stage took a ticket beside another: two slots that list at         *)
(* different times may each absorb what the other was still to keep, and    *)
(* then such a ticket still names the unit.                                 *)
NothingDropped ==
  Still => \A u \in Plan : Opened(u) =>
    \/ \E i \in Tasks : Asks(i, u)
    \/ \E i \in Tasks \cap together : u \in board[i].units

(* While no call and no host has failed no unit is asked of two tasks, so   *)
(* that no two developers are given the same work; but for tickets taken to *)
(* be merged beside another one, which may describe what the other absorbed. *)
NothingTwice ==
  Still /\ Unharmed => \A u \in Plan : \A i, j \in Tasks \ together :
    Asks(i, u) /\ Asks(j, u) => i = j

(* Both: a unit is asked of one task from the plan to its end.              *)
EachAskedOnce == NothingDropped /\ NothingTwice

(* "The developer starts once the whole specification exists rather than    *)
(* partway through it" (ticketmerge.go:203-204): a task in development has  *)
(* a finished section for every unit it asks for.  The stages poll while    *)
(* the plan is being written, so a task may be taken before its edges are   *)
(* there; nothing else lets it go early.  A task that is merged with        *)
(* nothing has no section at all (ticketmerge.go:81-83).                    *)
SpecifiedBeforeBuilt ==
  \A i \in Tasks \ early : Unharmed /\ board[i].by = "dev" /\ (MergeFirst => Sections(i) # {}) =>
    \A u \in board[i].units :
      \E s \in Sections(i) : Col(s) = Done /\ u \in board[s].units

(* "They share a branch, and a sandbox begins by resetting hard to that     *)
(* branch" (ticketmerge.go:210-216): the sections of a task and the task,   *)
(* once it is past its merge, are not worked at once.  Where two of them    *)
(* are, one that comes after the first and not after the second was taken   *)
(* before its edges were written: one early poll disturbs the turns behind  *)
(* it and no others.                                                        *)
Branch(i) == Sections(i) \cup {i}
Behind(i, a, b) == a # i /\ (b = i \/ a < b)
OneWriterPerBranch ==
  \A i \in Tasks : Unharmed =>
    \A a, b \in Branch(i) : Behind(i, a, b) /\ {board[a].by, board[b].by} \subseteq Stages =>
      \E s \in Branch(i) \cap early : Behind(i, a, s) /\ ~Behind(i, b, s)

(* Both: stages that share a branch take turns on it, in the order planned. *)
BuiltInTurn == SpecifiedBeforeBuilt /\ OneWriterPerBranch

(* Nothing is left queued at a stage that is served: every ticket is        *)
(* finished or put in front of a person, however many of them fail.         *)
Unserved(i) == \E r \in Stages \ Staffed : Col(i) = T[r].ready
EverythingSettles ==
  <>[](request = Tracking /\ \A i \in Ids : Terminal(Col(i)) \/ Unserved(i))
=============================================================================
