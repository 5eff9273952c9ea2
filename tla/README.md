# Verification of blacksmith

Blacksmith runs a department of language-model agents over a ticket board: a
request becomes tickets, each ticket passes through a table of stages, each stage
is an agent that reads and writes code in a rented sandbox, and several hosts may
run the same stages against one board.  One of the agents, the architect, draws: its
tool `archify_diagram` runs Archify, a diagram program that is kept in the
repository and shipped in the agent's image (`src/agentimg/archify`, installed by
`src/agentimg/Dockerfile`).  This directory holds TLA+ models of the parts of both
whose correctness depends on order, failure and bounds, the TLC runs that check
them, and TLAPS proofs of the theorems that hold for every value of the constants.

Archify came from another project and is vendored here, but what the department
publishes passes through it, it writes files and runs processes of its own, and it is
most of the repository's code that is not Go; so it is modelled like the rest.

Contents: [parts](#the-system-and-its-parts) · [modules](#modules-and-the-code-they-model)
· [runs](#runs) · [fairness](#fairness) · [proofs](#proofs) ·
[what the code does against its own word](#where-the-code-and-its-documentation-differ)
· [settings in which promises break](#settings-in-which-a-promise-breaks) ·
[not modelled](#not-modelled) · [plan](#plan).

To check a run: `tlc -config <cfg> <module>`, with names from the table of runs;
to check a proof: `tlapm <module>`.

## The system and its parts

### The department

Paths are relative to `src/internal` unless they start with `src/`.

| part | state | operations | talks to |
| --- | --- | --- | --- |
| admission queue (`queue`) | `running`, `runningCritical`, the list of waiters, under one mutex | `Acquire`, the release function, cancellation | the model gateway, which acquires a slot per model call |
| dispatcher (`dispatch`) | per role and host: which tickets it works; nothing persistent | poll (`fill`), claim, `work`, `Reconcile` at start, `sweepDeadlocked` | the board through `platform`; its handler |
| claim (`platform/claim.go`, `record`) | none of its own: the ticket's column and its comments | `Claim` (conditional move, or append and arbitrate), `Release`, `Close`, `HeldBy` | the board |
| workflow table (`workflow`) | constant: ready, working and destination columns per role | `Destination`, readiness and deadlock of dependencies | the dispatcher |
| scoping and ticket merge (`agent/scope`, `agent/ticketmerge`) | the calls still to be made | open tasks, sections and edges; fold sibling tickets into one | the board, one call at a time |
| development loop (`agent/dev`) | staged tree, undo stack, budgets, verdict on the specification | one turn per model answer; push and check; the ends of an attempt | the sandbox, the model, the referee |
| sandbox lease (`forge`) | the lease's number, the container's freshness | acquire, run a command, replace a reaped container once, release | the sandbox service |
| other stages (`agent/review`, `integrate`, `resolve`, `architect`, ...) | comments they leave on the ticket | one outcome per attempt | the dispatcher, the board |
| transport and session (`transport`) | the current token | retries, renewal of the session | every service |
| planning algorithms (`agent/plan`) | none | sort, flatten, cycles of a plan | scoping |
| batch service, single-shot front door, tools, window, telemetry, ... | jobs in memory, text | | see [Not modelled](#not-modelled) |

### Archify

Paths are relative to `src/agentimg/archify`.

| part | state | operations | talks to |
| --- | --- | --- | --- |
| delivery commands (`bin/archify.mjs`) | a frozen copy of what was read, a private directory beside the output, what was moved away | `deliver`, `compare`, `migrate`: read, render and check in child processes, rename into place, roll back | renderers, artifact check, the file system |
| output paths (`renderers/shared/output-path.mjs`) | none: reads directories | which place a path names, whether two are one file, whether an output is accepted | the delivery commands, the preview |
| live preview (`bin/preview.mjs`) | the snapshot that is built, the last good artifact, the shown state, subscribers | watch, debounce, deliver in a child, publish, serve, two-stage shutdown | `archify.mjs deliver`, the editor of the source, browsers |
| update checker (`scripts/check-update.mjs`) | a cache directory shared by all runs: generations, one claim, the committed record | check, `--ack`: reserve, claim, retire outdated claims, fetch, decide, commit | other runs of itself, the manifest server |
| workflow compiler (`renderers/workflow/workflow-compiler.mjs`) | the room asked for so far | lay out, route each relation, review the picture, give room and start over | `deliver`, through the workflow renderer |
| geometry (`renderers/shared/geometry.mjs`) | none | tests of boxes and routes, spreading of ports | every renderer and validator |
| architecture delta (`delta/architecture-delta.mjs`) | in the page: selected row, playback and its timer | match and classify, draw, validate, review | `compare`; the reader |
| other renderers, checks of drawings, marks, texts | none | | see [Not modelled](#not-modelled) |

Nothing here takes a lock.  Commands and update runs share directories and rely on
the atomicity of a rename and on looking again just before one; the preview and the
page rely on the order in which one event loop runs their callbacks, while files,
children and readers act between any two of them.  The workflow compiler is
sequential, and hard for another reason: each of its steps is checked by a later one
that was written separately, and it promises to refuse rather than to bend what
the author pinned.

Two facts make the department hard.  The board has no transactions: everything a stage
does to a ticket is a sequence of separate calls, each of which can fail, be
applied without an answer, or be interrupted by the end of the process, while
every other stage polls the same board.  And the counters that keep an agent
from running for ever (attempts, returns, refusals, resets, repairs) are read back
from comments or reset by one another, so a bound can make another unreachable or
be restarted by a hand-back.

What makes each part correct:

- **queue**: slots neither leak nor double, a critical request has the box to
  itself and is not starved, admissions keep their order, no wake-up is lost.
- **claim**: at most one dispatcher has a ticket; the board names it; a ticket
  whose host died is given back, once, without costing an attempt; the ceilings
  that select and that escalate agree.
- **table**: nothing reaches `done` without having been merged; no order of
  hand-backs skips a gate or strands a ticket; every journey comes to rest.
- **breakdown**: no requirement of a plan is dropped or asked for twice, the
  developer starts after the whole specification, one writer per branch, and nothing
  stays queued for ever.
- **development loop**: an attempt that succeeds has pushed what it wrote; a
  verdict on the specification has grounds; every bound is reachable and each
  attempt ends; leases are given back.

- **commands**: all targets new or all as they were; what is put in place was drawn
  from what was read; what was there before is never lost; no input is overwritten,
  whatever name it goes by.
- **preview**: what is served was verified; pages tell the truth; it converges on the
  last save; a shutdown ends.
- **update checker**: the record changes as if runs took turns; a fetch is made once
  when it is due; a killed run blocks nobody; every notice can be acknowledged.
- **workflow compiler, geometry**: what the search accepts the review accepts; pins are
  kept; everything drawn is on the canvas; equal drawings get equal verdicts.
- **delta**: every change is told, drawn and shown, from either side.

PROJECT.json lists the parts with their status and, under "hazards", each
place in the code where one of these could go wrong unnoticed.

## Modules and the code they model

| module | models | abstract specification | instance for TLC | proofs |
| --- | --- | --- | --- | --- |
| `AdmissionQueue` | `queue/queue.go` | `AdmissionRules` | `MCAdmissionQueue` | `AdmissionQueueProofs` |
| `TicketRecord` | `record/claim.go`, `record/markers.go` | | (through `ClaimProtocol`) | (in `ClaimProtocolProofs`) |
| `Workflow` | `workflow/stages.go`, `columns.go`, `outcome.go`, `depends.go` | | (through the others) | |
| `ClaimProtocol` | `dispatch/dispatch.go`, `platform/claim.go` | `HandOff` | `MCClaimProtocol` | `ClaimProtocolProofs` |
| `ExclusiveClaim` | the three settings in which the claim's promises hold, with their invariants | | `MCExclusive` | (in `ClaimProtocolProofs`) |
| `Breakdown` | `agent/scope/scope.go`, `agent/ticketmerge/ticketmerge.go`, the polls around them | | `MCBreakdown` | `DepartmentProofs` |
| `Journey` | one ticket through the whole table: all handlers' outcomes and marks | | `MCJourney` | `DepartmentProofs` |
| `Sandbox` | `forge/sandbox.go`, `forge/lease.go` | | (through `DevLoop`) | |
| `DevLoop` | `agent/dev` | | `MCDevLoop` | `DevLoopProofs` |
| `UpdateNotice`, `UpdateCache` | `scripts/check-update.mjs`: the decision on a record; the runs on the cache directory | `UpdateBoard` | `MCUpdateCache` | `UpdateCacheProofs` |
| `Preview` | `bin/preview.mjs` | | `MCPreview` | `PreviewProofs` |
| `OutputPath` | `renderers/shared/output-path.mjs` | | (through `Delivery`) | |
| `Delivery` | `bin/archify.mjs`: deliver, compare, migrate | | `MCDelivery` | `DeliveryProofs` |
| `ArchitectureDelta`, `DeltaReview` | `delta/architecture-delta.mjs`: comparison and drawing; the page | | `MCDeltaReview` | `DeltaReviewProofs` |
| `Geometry`, `GeometryChecks` | `renderers/shared/geometry.mjs`; the scenes it is checked on | | `MCGeometry` | |
| `WorkflowLayout`, `WorkflowRoutes`, `WorkflowPlans`, `WorkflowReview` | `renderers/workflow/workflow-compiler.mjs`: layout; what a route is judged by; the search; the checks. Each extends the one before, the first `Geometry` | | (through the next) | |
| `WorkflowCompiler` | the compiler as a state machine, and what it promises | | `MCWorkflow` | |

### AdmissionQueue

Callers are goroutines in `Acquire`; `pc` says where each one is.  The mutex is
implicit in `Unlocked`: `dispatchLocked` admits one waiter per step (`AdmitBest`)
while nobody else can take the lock, so the loop, the check of the bound after it
(`Shed`) and the select (`TakeSlot`, `CtxDone`) are separate steps in the code's
order.  `closed` is the set of callers whose channel has been closed, which is
who owns a slot.  A cancelled caller finds itself still listed (`Withdraw`) or
already admitted, and then releases (`DropSlot`).  `ReleaseAgain` is the second call
of a release function, which `sync.Once` makes empty.

`AdmissionRules` has no counters, lock or loop: it says who may be admitted by the
three rules of the type's comment, and that arrivals queue.

### TicketRecord, Workflow

`TicketRecord` holds the operators that read a ticket's comments: which claims
stand (`Standing`), who holds it (`OldestForRole`, `HeldByHost`), how many
attempts count (`Attempts`, after `PruneStale`), what a reset forgives.  A
comment is a record with a kind, a host, a role and a time.  Claims are
numbered by their place in the log, which is the order of the store's ids.
`Workflow` is the routing table under its two options (architect, coverage) with
`Destination`, `Ready` and the deadlock of dependencies.

### ClaimProtocol

One ticket, one dispatcher per stage and host, every store call a step.  The
state of the ticket is `column` and `log`; `fresh` is the set of dispatchers whose
version of the ticket is still current, which is all a conditional write asks.
`pc` follows `Reconcile` (listing, reconcile, forget, requeue), `fill` and `Claim`
(claim, cas; or append, arbitrate, take), `start` (attribute, verify), `Release`
(relClose, relMove) and `work` (work, forgive, close, note, move).  `Lossy` names
the calls that may fail, `Resent` those applied without an answer and then sent
again by the transport; a host can be killed, stopped (its context ends and the
shutdown path runs) and started again.  `Budget` bounds the faults, `MaxTime` the
clock that ages claims, `LogBound` the comments at which a new claim may start.
`failed` and `unworked` are history: how often a role failed since the last hand-back, and
how many of its claims no handler worked under (written twice, or released after the re-read).

A list of candidates is read before it is claimed, so a claim may start from a stale
read of the queue (`fresh` and the conditional write settle it); the comments are
read again after the claim, as `start` does.  The interleaving of two dispatchers
is at the level of single calls.

`HandOff` is the same without store or comments: a column and a holder.

### Breakdown

A handler is a sequence of calls (`todo`), computed as the code computes it and
made one at a time, between which any stage may poll.  A call refers to a ticket by
its number (`This`) or, when its handler has yet to open it, by a name (`Name`) that
`made` resolves, as the code keeps the tickets it created in local variables.  A ticket
is its column, parent, prerequisites and the set of plan units its description asks
for; its number is its order of creation.  `setting` says which shape of plan: tasks with
sections of their own, or (`mergeFirst`) bare tasks folded into one first.  The
call that fails can be any of those in `flaky`; an edge whose write fails is
dropped with a log line, as in `dependOn`; a handler that fails is tried again on
the board it left.  `staffed` are the later stages a host serves (`department.Assemble` leaves out
those whose model class it does not serve).  Every stage polls between any two calls of a
plan, as the dispatcher's timer and its wake-up allow.  Taking the oldest candidate first in the merge stage is the
poll's sorting.  There are fewer failures (`MaxFailures`) than `MaxAttempts`, so the
ceiling of attempts is never met here: that is `ClaimProtocol`'s subject.  Development up to integration is one step: what
follows it is `Journey`'s subject.

Two history variables say which tickets the code leaves to chance.  `early` has those that
were taken before all their edges were written: the code cannot know and accepts it ("the cost of
the missing edge is that a ticket may be worked early", `scope.go:555-556`).  `together` has those
that the merge stage took while it had another one in hand: their listings miss each other
(`ticketmerge.go:80`).  The properties hold in every schedule and for any number of slots, and say of
these tickets, and of no others, what may be wrong with them.

### Journey

One ticket, one worker at a time, and every outcome each handler distinguishes:
which column it leads to, which mark its comment leaves, which counters that
restarts.  Comments are reduced to the counts and marks that stages read
(`spent`, `marks`, `repairs`, `returns`); a comment may be lost and a worker
interrupted, `Budget` times.  `passed`, `sentBack` and `merged` are history.

### DevLoop and Sandbox

One attempt of the developer, or of an author of tests, from `Acquire` to the
deferred release.  `pc = "top"` is the top of `loop`, where the guards are tried in
the code's order: referee, broken specification, budget, memory reset, the model's
turn.  `Advance` is one action per kind of reply.  A file's content is a number, a
check's output its class, as the functions of `specfault.go` tell outputs apart
(`InTestsOnly`, `RedIsExpected`, ...); a class also stands for the failure's
fingerprint.  `staged`, `undo`, `branch` and `dirty` (what a failed push left in the
container) are whole trees.  An attempt is a record that restricts what the model
and the checks may answer, so that each question gets its own depth; `devloop_all`
explores five of them.

Left out because no control depends on them: the map of what was read, the counts of
stale reads and empty edits, history and prompts.  Left out because they are
another subject: the address of an edit in a file and its repair (`edit`), the
formatter and dependency commands, other writers to the branch, a crash of the
process (it is a crash to `ClaimProtocol`).  `TestsPass` and `TreeVerified`
collapse: a pass ends the attempt.

`Sandbox` keeps the lease the client holds, the containers that run and those
nobody can give back any more (`adrift`), so that a leak by the client differs from
a call that failed.

### UpdateNotice, UpdateCache, UpdateBoard

`UpdateNotice` is the decision: given the record, what was fetched and the time, which
record comes next, what is shown, and whether it fits.  A record is the sets of
releases offered and acknowledged, the candidate, when the next fetch is due and how often it failed;
its size is a weight per release, `Capacity` the 64 KiB.
`UpdateCache` is the protocol of `checkForUpdate` and `acknowledgeUpdate` on the directory.  A run is a record
with its `pc`, its generation, and what it has read.  `op` holds the state of each
generation's directory (pending, committed, fenced, cancelled), `claim` and `retired`
what stands under the claim's name and beside it, `file` the records.  One action is one
read or one rename.  `Lapse` ends a lease: the run stalled, or the clock jumped.
The file system's refusals are left out but for a full record; a rename replaces or
fails as POSIX says of directories.  A scene either lets runs overlap, with two of them
stalled at any time, or has them come in turn and be killed between any two steps.

`UpdateBoard` is the same without directories: one record, changed by whole decisions on
what it is.

### Preview

One event loop: an action is a callback with everything it does up to its next wait.
`queued`, `timer`, `epoch`, `pending` and `child` are the variables of the watcher
(`queuedHash`, the debounce, `sourceEpoch`, `pendingBuild`, the child process);
`closing` is the commit in hand, whose look at the output, second reading of the source
and rename are separate steps because other processes write between them.  A content
stands for its hash; two contents may have one drawing.  `state`, `lastGood` and
`buffer` are what is served.  A page has its mail (server-sent events that have not
arrived), whether its frame was asked for, and what it says.  `ForceStop` is the second
signal during the shutdown.

### OutputPath, Delivery

A tree maps places to directories, files and links; files have an identity, so that hard
links and copies differ, and a directory may be `loose`: it finds a name by its folded form.
`PathsAlias` follows the code through links, missing parents and the probe for
looseness; `Place` is the reference it is checked against: where a write
would land.

A command is the list of its calls (`Steps`), each of which may be refused, with the way
back from there: `Failed`, `Withdraw`, `Restore` in the code's order.  Between two calls
the process may be killed, the author may save, another command may run, and
somebody may move a link; the exception is a link that moves between a command's last
look at a directory and its renames there, which no look can settle.  What child
processes answer is a property of the document (`Sound`, `Tidy`).  The private directory
is made beside the output, as reached then (`InPlace`); at most one level of output
directory is missing.

### ArchitectureDelta, DeltaReview

An item is its id and, for every group of fields the comparison tells apart, a value.
`DeltaSvg` is the drawing as the set of elements it holds for each change, and
`Validates` what the page and `compare` demand of it; they were written apart, hence
`DrawingValidates`.  `DeltaReview` is the script of the page: `review` holds its
variables, each handler is an action, and a click is preceded by the focus it moves.

### Geometry, GeometryChecks

The tests, as operators on integer points, translated one by one; lengths are compared
squared.  `GeometryChecks` puts every small route through them, one point more per step,
and compares a test with what it should say: an intersection with the points of the
segment (`Touches`), the run along a border with the cells it covers (`Covered`),
a verdict with that on the same line with a waypoint more.

### The workflow modules

`WorkflowCompiler` is `compileWorkflowWithFeedback`: `Open` lays out, `Place` places one
relation, `AskAgain` gives room, `Judge` reviews.  The rest is operators: layout
(`WorkflowLayout`), what is in the way of a line and what it costs (`WorkflowRoutes`),
the nine families of candidates, the pinned and the preset routes and the labels
(`WorkflowPlans`), the checks (`WorkflowReview`).  Text is its width.  Half pixels
are rounded down; the binary search for a label's place ends at whole pixels, the
code's at a thousandth; a tie between directions is broken in the middle; a legend takes
one row; a label's authored offsets are not used.  Node texts fit their boxes, ids are
distinct (the schema says so), and a side of a node has at most three relations.

## Runs

Every property is an INVARIANT or PROPERTY of the run's cfg; several are a conjunction
of named parts, listed here.  PROJECT.json names for each property at least one
mutation of the model, a plausible slip in the code, under which the run fails; where
a property has parts there is a mutation for most of them.

| run | bounds | shows |
| --- | --- | --- |
| `queue` | 3 callers that come back, 2 slots, bound 1, 3 priorities | `QueueIsSound` (types, `SlotsBalance`, `NobodyIsLost`, `CriticalAlone`, `BoundRespected`, `SomebodyWillDispatch`); `CriticalServed`; `AdmissionQueue` implements `AdmissionRules` |
| `claim_safety` | developers on 2 hosts, ceiling 2, kills, stops, 1 fault (a lost note, read, conditional write or claim comment; a note or claim comment sent again), claims that age | `OneHolder`, `BoardNamesTheHolder`; `CeilingsAgree` (`QueuedIsSelectable`, `FailsAtMost`); `AttemptsAreCounted` (`EscalatedOnMerits`, `InterruptedCostsNothing`, `LeavesTheStage`); the refinement of `HandOff` |
| `claim_append` | any of 3 hosts of one role (they are symmetric), no versions, a list of 5 comments, stops, failing reads | `OneWorkerPerRole` |
| `breakdown_all` | 2 tasks to merge with 1 slot and with 4, 3 with 4 slots and no later stage; 2 tasks of 2 sections and 3 of 1, 4 slots; one failure, of anything in the first setting; polls anywhere | `EachAskedOnce` (`NothingDropped`, `NothingTwice`), `BuiltInTurn` (`SpecifiedBeforeBuilt`, `OneWriterPerBranch`), `EverythingSettles` |
| `journey_all` | smallest and largest table, all entry columns, ceilings 2/1/1, 1 loss | `GatesHold` (types, `DoneIsMerged`, `ReviewedBeforeIntegration`, `TestsComeFirst`), `QueuedIsTakeable`, `ComesToRest` |
| `devloop_all` | 5 attempts, 2 files, 2 texts, budget 4 of 7 turns, faults 0 to 2 | `NothingWrittenIsLost`; `BooksBalance` (types, `VerdictHasGrounds`, `HandBackReachable`, `BudgetCountsWork`, `OneAskPerFailure`, `NoLeaseLeaks`); `AttemptEnds` |
| `update` | 2 checkers and an acknowledgement, 3 generations; overlapping with 2 stalls, or in turn with kills anywhere and a clock | `ImplementsBoard`, `OneFetchWhenDue`, `LiveClaimStays`, `LoneRunGetsThrough`; `NoticesCanBeAnswered` (`ShownIsOnRecord`, `OfferedFits`) |
| `preview` | 4 contents (two with one drawing, one refused), 3 saves, or 2 saves with a page and somebody else writing the output | `ServedIsVerified`; `PageTellsTheTruth` (`CheckingMeansWork`, `PageIsCurrent`); `Settles` (`Converges`, `StopCompletes`) |
| `delivery` | 20 scenes: links that move, names that differ in case, hard links, a pair in place or half of one, two commands at once; up to 2 refused calls, a save, a kill | `ResultsAreWhole` (`AllOrNothing`, `TargetsAreWhole`), `DrawnFromWhatWasRead`, `PreviousNotLost`; `InputsAreSafe` (`AliasIsExact`, `InputsSurvive`) |
| `delta` | every change of one item of each kind, three changes at once; 6 starts and stops of the playback | `ChangesAreDrawn` (`DrawingValidates`, `ReversedMirrors`), `PlayingIsShown`, `PlaybackEnds` |
| `geometry` | every route of up to 4 points on a lattice of 5 by 5, 4 frames, 4 other relations; every set of up to 6 relations between 5 boxes | `RoutesAreMeasured` (`HitsWhatItTouches`, `WaypointsDontMatter`, `BorderRunIsCovered`), `PortsStayApart` |
| `workflow` | 207 documents of 1 to 3 lanes and up to 8 nodes: all small ones, pinned, grouped, narrow, faulty ones, lanes with long names | `NodesHaveRoom` (`OnlyOneColumnCrowds`, `GroupsFrameTheirNodes`), `OwnRoutesPassReview`, `PinsAreKept`, `PictureFitsCanvas`, `RoomIsGivenOnce` |

Why these bounds are enough to be interesting.  *Queue*: with two slots and three
callers one runs, one waits at the bound and one arrives; a bound of one sheds;
callers leave but, being few, meet every race of cancellation and hand-over.
*Claim*: two hosts of one role race, by append three, so that a claim can lose against one
that is older and be older than another; one fault suffices for a lost answer or a
kill after a claim; the ceiling of 2 is the smallest for which the last attempt and one
before it differ; the theorems carry the safety part to any number of hosts and faults.
*Breakdown*: two tasks have one edge, three have a chain; two
sections have an order; three tasks in four slots can be listed by two handlers while the third
is still queued, and of two that are taken together each can miss the other.
*Journey*: each bounce occurs once more than its ceiling allows.  *DevLoop*: bounds
keep the code's order (refusals for a verdict below the refusal ceiling, and so
on), two files tell a lost one from the rest, one reset clears once.
*Update*: a third run can find a claim that a second retired from a first, while both
of these stall; a record has room for one notice and no second one (`Capacity`), so the
bound bites.  *Preview*: three saves are one while a delivery runs, one back to what it
was and one more.  *Delivery*: each hazard has a scene that makes it possible and a
budget that makes it happen once; a second refused call can hit the rollback of the
first.  *Geometry*: a route of four points has a corner on each side of a segment, and
on this lattice every way two segments can meet occurs.  *Workflow*: two lanes and four columns
make every family of routes; a document asks for room at most as often as it has
relations between the same columns.

`CHECK_DEADLOCK FALSE` is set where the system really stops: a ticket at rest, a
plan that is finished, an attempt that is over, a host that stays down when
no fairness obliges it to start, a command that has ended, a document that is judged.
The queue's run checks deadlock.

## Fairness

- **AdmissionQueue**: steps of a goroutine that holds the lock or can run are
  weakly fair; those that wait for the mutex strongly, since `sync.Mutex` hands the lock to a
  starving waiter.  A caller that holds a slot gives it back: the model call has a
  timeout.  Nobody is obliged to arrive or to cancel.
- **ClaimProtocol**: dispatchers go on, since each call and handler is bounded by a
  timeout, and a killed process is started again by the service manager
  (`src/deploy/systemd`, `Restart=on-failure`); one that is stopped exits, since its drain ends
  by a timer (`dispatch.go:791`).  Faults are never obliged.
- **Breakdown**: handlers and polls go on; failures are bounded by
  `MaxFailures` and not obliged.
- **DevLoop**: one sequential program goes on while it can.  It ends because the
  bounds end it, not because the model helps: replies are free.
- **Preview**: the timers fire, the event loop gets round, a delivery ends by itself
  while the preview runs; once a shutdown is asked for only a child that was killed
  is sure to end.  Nobody is obliged to save, visit or signal.
- **DeltaReview**: the browser's timer fires; the reader is obliged to nothing.
- **WorkflowCompiler**: a sequential program goes on.
- **Delivery**, **UpdateCache**: none; their properties are about what may never
  happen, and `LoneRunGetsThrough` speaks of a run when it is over.
- **Journey** needs none: `ComesToRest` says that the column changes finitely often
  in every behaviour.

## Proofs

TLAPS checks these for every value of the constants that meets the modules'
assumptions.

**Queue** (`AdmissionQueueProofs`; any finite set of callers, any configured slots and bound).
`QueueInvariant`: `QueueInv` is inductive.  `SlotsBalance` alone is not: that an
admission counts a new owner needs `WaitersWaitOnce` (a waiter owns no slot), and
that a release subtracts an owner needs `SlotsHaveOwners`; that only one loop runs
needs `OneInLock`.  From it follow `TypeCorrect`, `NoSlotLeaks`,
`NoRequestIsLost` and `CriticalOwnsTheBox`.  `ListStaysInBound` adds
that the arrival that holds the lock is the one element over the bound.
`NoLostWakeup`: when the lock is free, nobody waits or somebody runs, because an
empty box always has somebody to admit and the loop does not end before.
`QueueStaysSound` joins them: the property the run checks.
`AdmissionsInOrder`, an action property: an admission passes over no better
waiter.  `QueueImplementsRules`: every step is a step of `AdmissionRules` or a stutter.

**Claim** (`ClaimProtocolProofs`; any table, hosts, roles, outcomes, ceilings, clock and
number of faults).  Its first part says what an appended claim, close or reset does to the
standing claims, the oldest claim and the attempts of a ticket's record.  `TypeCorrect` needs no
restriction: in particular no interleaving puts the ticket in a column that is
not in the table.  Exclusive ownership does need one, `ExclusiveSetting`: the store
serves versions; no handler places the ticket itself; a close and a reset are not
lost; a move is not sent twice; no dispatcher shares both host and bench with
another.  [Below](#settings-in-which-a-promise-breaks) is what happens without
each.  Under it `Exclusive` is inductive (`StaysInStep`): whoever holds or reclaims
the ticket is alone and on its bench, a version read from the queue is good while
the ticket waits, all standing claims are of one dispatcher, and a claim is closed
before the ticket moves.  `OneHolder` by itself is not inductive, since the next
`Reconcile` goes by comments that `OneHolder` says nothing about.  From it follow
`ExclusiveOwnership`, `WorkedOnItsBench`, `HeldByTellsTheTruth` and
`ClaimImplementsHandOff`, the refinement of `HandOff`.

The *count* has two invariants of its own.  `NoFailureUncounted`: no role has more failures
since its last hand-back than its record shows attempts, one that is being worked is
counted before it ends, and a ticket on its way back after a kill counts nothing.  It is
inductive under `ExclusiveSetting` together with `Exclusive`, because the count of a role
can only shrink by a reset, which also forgives the failures, and no reset is lost.  From
it follow `NoAttemptTooMany` (`FailsAtMost`) and `RestartsAreFree`
(`InterruptedCostsNothing`).  The other direction, that nothing is counted which did not
fail, is about one stage by itself (`OneStageSetting`: one role, whose queue is not among its
destinations); with any hosts and all the faults of `ExclusiveSetting`.  A claim that is released
after the re-read (a read that failed, a stop, a handler that changed its mind), or written twice, stays in the
count for good: the code closes it and forgives nothing.  `unworked` counts those, and the two
properties allow for them and for nothing else.  The
invariant `NoneTooMany` says that a ticket in the queue has room for one more attempt
but for these (`HasRoom`), and follows a dispatcher from its claim to its move (`SpendsOne`): it adds one,
and what it decides from the comments it read still holds when it moves, because what
other hosts may have written since (`After`) is no claim.  From it follow
`CeilingsCountTheSame` and `PersonsAreAskedOnMerits`.

The *append path* has the weaker `OneGoesOn`, under `AppendSetting`: a host runs one
stage, no handler leaves a reset mark or gives up by itself, no claim ages while it is
worked.  Its invariant `OldestGoesOn` says that whoever goes on after the arbitration
has the oldest claim of its role that stands.  That is stable because a claim is
appended behind it and, as long as nothing failed, only its owner closes a claim: a loser
leaves its own standing, so nobody's close but the winner's ends the round.

`MCExclusive` makes TLC evaluate `ExclusiveSetting` and `OneStageSetting` on the instance of
`claim_safety`, whose handlers do not change their minds (`Picky` is empty: with it the liveness part
is too large a run, and the theorems have it), `MCClaimProtocol` makes it evaluate `AppendSetting` on that of `claim_append`.

**Preview** (`PreviewProofs`; any contents, drawings, number of saves and revisions).
`PreviewStays`: the inductive invariant `Inv`.  Its part `Core` ties the server to the
builder: what is shown as verified is what is in the buffer, the buffer is the drawing of
the last good source, and a commit that keeps the output has seen that the artifact
at hand is the one shown.  Its part `InStep` is what `PageIsCurrent` lacks to be
inductive: the mail on its way to a page has its messages in the order of the revisions,
the last of them is the state itself, and a verified revision was asked for, is in the
frame, or is still announced.  From them follow `TypeCorrect`, `ServesWhatIsVerified` and
`PagesTellTheTruth`.

**Update checker** (`UpdateCacheProofs`; any runs, generations,
releases, delays, scenes, stalls and kills).  The lemmas on the decision: every decision
leaves a record that is sound, forgets no notice and prints only what is on record
(`FetchLeaves`, `FailureLeaves`, `AcknowledgeLeaves`); moving a notice from one list to
the other keeps the record within its limit (`RoomStays`), by arithmetic on the
sizes of its parts, whatever the limit is.  `CacheStays`: the inductive invariant `Inv` of the
protocol.  `Local` is what one run relies on where it stands.  The parts that carry the argument are
`Grip` (within its lease a run past its promotion has the claim), `Aim` (the claim that
is about to be moved is that of a run past its lease, or somebody retired it already), and
`Wall`: once a run has fenced, no run of a lower pending generation is past its rank
(`Below`), since a run is only ranked when no later generation is reserved, and a reservation
is never taken back.  So the run that commits is the lowest that may, and every
committed generation is below it (`Shape`): what it decided on is still the record
(`Plan`).  Each action is a lemma of its own; steps that only read go through
`QuietMove`, steps that write through `OwnStep`, which says what one run may do to the
directory without disturbing the others (`Gentle`, `Unread`).  `Publish` is the one that
changes the record (`Published`).  From the invariant follow `AsksOnceWhenDue`, `PrintedCanBeAnswered`, the
action property `ClaimInUseStays`, and the refinement `RunsImplementTheBoard`.  TLC has
checked the invariant on the instance of `update` as well.

`LoneRunIsServed` needs a second invariant beside it.  `Fates` is about claims and leases:
generations are given out in order (`Given`), a lease runs out only once it began (`Begun`), a
claim is made once (`Once`), and no two runs are alone (`OneAlone`).  `ByItself` says what a run
that is alone may rely on at each of its steps (`Lonely`).  A claim that a killed run left costs it
one turn, after which the claim is free; that is why `CacheAssumption` asks for two turns at least
(the code makes 8, `check-update.mjs:990`).  When it is refused all the same, it is because
its result does not fit, and then the record has a time to look again and offers
nothing: by `FailureFits` there is always room for the longest stamp, which `NoticeAssumption` asks
of the limit (64 KiB in the code, `check-update.mjs:35`).

**Development loop** (`DevLoopProofs`; any number of files and texts, any bounds, budgets
and faults).  `AttemptInv` is inductive and has a part for each of the books.  `WorkInv`
carries `WorkIsKept`: what is staged is what the edits that were kept make, each step of the undo
history is one edit less, and while an edit is verified, and at a success, the branch has
what is staged.  `LeaseInv` says that every sandbox that lives is the one in hand or
one whose return failed; `TurnInv` that the turn is one more than what was charged and refunded;
`VerdictInv` what a verdict rests on (`Grounded`), and that refusals that are enough to
convict have convicted or met the expected red (`PokesFit`); `AskInv` that a failure seen and not
asked about leaves room for one more ask.  From them follows `BooksAreRight`.

**Ticket through the table** (`DepartmentProofs`; every department, any bounds, any number of
losses).  `GatesHold` is about which stages a ticket has passed since it was last written,
while handlers go by its marks and the column.  `JourneyInv` ties them: `TicketInv` has the types,
`ClaimInv` ties who has the ticket to its column, `GateInv` says what has been passed by the time
the ticket is in a column; and as long as nothing was lost and neither reviewer nor resolver
sent it back, `MarksInv` says that the comments the stages ahead look for are there, and `SpentInv`
that nothing has been spent on the stages ahead, in the order of `Rank`, and not everything on the one
it waits for.  `GatesAreKept` follows from the first three; `RoundsLeaveRoom` needs the last two, since
what a stage can take depends on the marks and on the attempts left.

**Breakdown** (`DepartmentProofs`; any number of units, sections, slots and failures).  What a
handler still has to do is a list that a recursive function builds from a plan or from the
listing of the board.  The lemmas on lists give, for each such function, which calls its list holds and in
which order (`Orderly`: a name is used after the call that makes it, and is made once).  Each is an
induction on the length for one concrete set of indices, by `NatLessThanWellFounded` and
`WFMin`, since the library's rule for an arbitrary predicate cannot be instantiated here.

`BaseInv` says where everything is, in every schedule and with every failure: `ShapeInv` has the types and the order of
the lists, `PlaceInv` which columns a task and a section can be in and who works them there,
`HandInv` that a folding handler has its ticket, and that of two in the merge stage one is in `together`,
`PlanInv` and `FoldInv` which calls the planner and a merging handler may still have.  The last has
the point of the merge: what a ticket that is about to be closed asks for is asked by the
ticket that takes it over, or will be by the description at the head of the list
(`Taken`).  `AskedOfSome` follows each unit through the folding, and gives `NothingDropped`.
`NothingTwice` needs three more facts, as long as nothing but a stage or a description
failed (`OnceInv`): a unit is opened once (`PlannedOnce`); what a description yet to be written
gathers is asked only of its own task and of tasks that the handler will close afterwards
(`GatheredOnce`); and of two tasks that ask for the same unit one is about to be closed by
the other (`HandedOver`).  `OneTaskAsks` is their sum,
in every schedule and for any number of slots; only the tickets in `together` are excepted, which
fold what another one is folding too ([below](#settings-in-which-a-promise-breaks)).

**Commands** (`DeliveryProofs`; any runs, file systems, links, names, budgets and faults).
`DeliveryInv` says of each run that before it renders nothing is in place, that what it rendered
is drawn from what it read and passed the checks (`Ready`), and that what it put in place is there,
wherever it got to since (`InHand`); and with them `Certified`: every file a run wrote, wherever it
was moved, passed the checks of its command.  It rests on one fact about the scenes, which
`DeliveryAssumption` states: the file that a run puts in place is a new one, as the code makes it in
a directory of `mkdtempSync` (`archify.mjs:855`).  `DeliveriesAreDrawn` and `DeliveriesPassed`
follow.

**Delta** (`DeltaReviewProofs`; any snapshots with finitely many items, any number of starts).
`ComparisonIsDrawn`: what `deltaSvg` draws is what `validateArchitectureDeltaHtml` recounts from the
changes, kind by kind and form by form, and each change mirrors to one of the reversed
comparison; the cardinalities agree since the forms of different items are different.
`PlaybackIsShown`: `ReviewInv`, of which `PlayingIsShown` is a part, adds that a timer under way is
always of the current token and the row it will show is in range.

What these proofs changed in the models: `RelationshipForms` of `ArchitectureDelta` was a CASE
whose guards overlap, which in TLA+ is a choice among them and in the code an order; it is now
an IF chain.  `DevLoop` keeps its history of accepted writes as records.  In `Breakdown` a
number and a name of a ticket are sequences of different lengths, and `SettingsAreSound` says
what a setting is.  The assumptions of
`DeltaReview`, `UpdateNotice`, `UpdateCache` and `Delivery` named above were tacit before.

**Only model-checked**, and why:

- all liveness (`CriticalServed`, `LeavesTheStage` in `AttemptsAreCounted`, `EverythingSettles`,
  `ComesToRest`, `AttemptEnds`, `Settles`, `PlaybackEnds`), which is out of the prover's reach;
- `BuiltInTurn`: in the schedules that the code has, several handlers write at once while the stages
  work what they wrote, and an invariant would have to follow each edge and each name through all of
  it; its run has every interleaving of two and three tasks;
- `ResultsAreWhole`, `PreviousNotLost` and `InputsAreSafe` of `Delivery`: they depend on where a
  name leads, which is the end of a walk through links of any tree (`OutputPath`);
- `Geometry` and the workflow modules: they are computations with lists and coordinates, checked by
  evaluating them on every scene and document of their runs.

## Where the code and its documentation differ

Each of these was found by TLC as a counterexample to the property named, on the model
as it stands; the properties are not part of a run, since the code does otherwise.

In the department:

1. "No slot is idle while a request that may be admitted waits" (`queue.go:4-8`): a
   waiting critical request that is cancelled keeps its door shut, because the
   cancelled path does not dispatch (`queue.go:170`).
2. "A ticket on a bench is worked or can be found": `work` closes the claim before the
   final move, so a failed move leaves a ticket that no reconcile finds, which the log
   line at `dispatch.go:677` says it will.
3. "dropping a requirement is the one failure nothing downstream can catch"
   (`ticketmerge.go:5`), with more than one slot in the merge stage, and four are the default
   (`config.go:23`, `env.go:254`): tasks that are claimed together see no siblings in the queue and go on without a
   section (`SpecifiedBeforeBuilt`, `ticketmerge.go:80`), or one of them folds a third one that
   another is folding too (`NothingTwice`); with a failure beside it a unit is asked of nobody
   (`NothingDropped`).  The run has these settings, and the properties except such tickets
   (`together`) by name.
4. "What a reviewer sends back can be taken": a return restarts no count, so the third
   leaves the ticket in a queue that refuses it (`review.go:325`).
5. "Refusals without a change are cut short at 20": the memory reset (15 turns) clears
   the run of refusals first (`budget.go:250`).

In Archify:

6. "A page that needs a fix leaves the last verified revision on screen"
   (`references/delivery-contract.md:79`): a page that loads while a build is under way,
   and is told of its failure before it has drawn anything, shows an empty frame beside
   the number of the revision (`preview.mjs:107`).
7. "Validation must see the exact authored inputs" (`archify.mjs:575`): `compare` judges
   the file a second time by its path, so a save between the reading and the
   judging has it report on a document that was not the validated one (`archify.mjs:547`).
8. "No authored architecture changes": a comparison whose snapshots differ only in a
   brand or in the locale tells nothing, with `completeness: complete`
   (`architecture-delta.mjs:151`).
9. A document is compiled or refused with a diagnostic: where no candidate route holds
   and a relation with an absolute pin was placed before, the classification of the
   failure reads points that raw candidates do not have, and the compiler ends in a
   TypeError (`workflow-compiler.mjs:1605`).  Two documents of `MCWorkflow` end so.

Smaller disagreements met while modelling:

- `dev`: an expected red counts toward the streak, so after two of them the
  first mistyped output convicts (`specfault.go:364-372`; `budget.go:84-86` asks for a
  repetition).  Refusals of test edits need be neither consecutive nor on one file
  (`budget.go:101-102`), and convict while the developer's own file does not compile
  (`specfault.go:66-69`).  A rejected push clears `RedIsExpected`, so refusals can then
  convict a sound specification.
- `dev`: `Undo` does not restore the branch, which has the edit already
  (`turn.go:171-172`, `src/docs/edit-shapes.md:101`).  A replaced container is not
  "the same one again" after a failed push (`sandbox.go:221-224`).  The
  "unreachable" branch of `Advance` is reached by `finish` (`action.go:447`).
- `review`, `resolve`: a failed resolver leaves a mark that bars the ticket in
  `conflicted` for good; its `NoConflict` returns use up attempts
  (`resolve.go:65-70`); a return is not free of attempts (`outcome.go:31-36`).
- `architect`: a restart between the design comment and the move leaves the
  request in the inbox, where the architect no longer wants it.  A lost branch
  comment leaves a ticket before the review.
- `scope`: a failing priority ends a scoping that has no tickets as a success
  (`scope.go:260-266`).
- `delta`: a symbol of a connection or boundary that has changed is drawn at the place
  of its phantom; pressing Pause with a pointer while something else has the focus first
  stops the playback, since the focus moves, and the click then starts it at row 1;
  the button goes on saying "Replay" in the overview.
- `geometry`: two lines that cross exactly at a waypoint of one of them pass as not crossing
  in every renderer but the workflow's of schema version 2, the only one that asks for
  straight-through waypoints to be merged first (`geometry.mjs:400-407`, `:492`,
  `workflow-compiler.mjs:2389`).  `WaypointsDontMatter` says so: with merging a waypoint changes
  nothing, without it it hides the lines through that point and no other.  Even with merging a
  waypoint written twice keeps its two segments apart (the property is about waypoints
  between two different points).
- wiring: `WithUpkeep` is never called; the merged shape of a plan is off by
  default, and `src/docs/pipeline.md:65` calls it the default.

## Settings in which a promise breaks

The safety runs hold in the setting they name.  TLC finds a counterexample in
each of the following (for those of `Breakdown`, of `OneWorkerPerRole` and of the counts, to the property
without its exceptions: "as long as nothing fails", `early`, `together`, `unworked`); none is a run, because the code promises
nothing there, or its cause is listed above.

| promise | setting that breaks it |
| --- | --- |
| `OneHolder` | integrator and resolver on one host, which share a bench (`Killable`, one fault): the start-up reconcile of one takes back the other's ticket, since `dispatch.go:265` compares hosts and not roles, though the comment at `:243` speaks of tickets this process was working |
| `OneHolder` | `Lossy = {"close"}`: a close that failed leaves a claim by which a later reconcile takes a ticket that somebody works |
| `OneHolder` | `Lossy = {"reset"}`, three faults: the reset that closes an interrupted claim fails and the ticket goes back with the claim standing |
| `OneHolder` | `Resent = {"move"}`: a move that is applied again puts back a ticket that was taken meanwhile |
| `OneHolder` | a handler that reports `handled` after placing the ticket in a queue another host polls, while its own claim stands (`PlacedIn`) |
| `OneHolder` | `Conditional = FALSE`: a loser of the append path moves the ticket |
| a ticket on a bench is held or findable | one failing claim comment after the conditional move; one conditional move whose reply is lost and which is sent again; a kill or a stop between the two |
| `InterruptedCostsNothing` | `Lossy = {"reset"}`: the interrupted attempt is counted |
| at most `MaxAttempts` failures | `StaleAfter` below the time the attempts take: old claims leave the count, which is why `FailsAtMost` says "as long as no claim has aged out" |
| `QueuedIsSelectable`, `EscalatedOnMerits` | `Conditional = FALSE`: the claims of losers count as attempts |
| `QueuedIsSelectable`, `EscalatedOnMerits` | a process that is stopped during the read after its claim: the release closes the claim and forgives nothing |
| `OneWorkerPerRole` | a stop on the append path: one host's close ends the claims of the others of its role |
| `OneWorkerPerRole` | `Marks` has the role (as the developer's handler does), three hosts, no fault at all: one returns the ticket, its mark ends all claims, so the claim of a second host wins, and the first one's close ends that one before a third host claims and wins too |
| `QueuedIsSelectable`, `EscalatedOnMerits` | two hosts and a read that fails after the claim, a claim comment that is sent again, or a handler whose second look refuses the ticket (`Picky`): each leaves a claim in the count that did not fail, so that a ticket goes back to a queue that will not select it |
| `QueuedIsSelectable` | a second stage that returns the ticket and leaves no reset mark: the attempt that succeeded still counts (which is why the stages leave one, `markers.go:78`) |
| `NothingTwice` | `mergeFirst` with 2 slots or more in the merge stage and 3 units, no failure: two that are taken together both fold the third |
| `NothingDropped` | the same slots, one failure, and a poll inside the plan; with one slot it holds in every schedule |
| `NothingTwice` | a create that fails, or a host that dies, half-way through a plan: the retry opens the plan again |
| `SpecifiedBeforeBuilt` | the same, an edge that could not be written, or a poll inside the plan: a task is taken before the edges to its sections exist |
| `OneWriterPerBranch` | an edge that could not be written, or a poll inside the plan: two sections are taken before the edge between them exists |

## Not modelled

In the department:

- **Text**: edits and their addresses, prompts, schemas, decoding of model replies,
  patterns over compiler output, git commands, release notes, gate scripts.  Their
  verdicts are free choices in the models of their callers.
- **Clients without state**: forge client, identity, model gateway.
- **Not wired**: upkeep; `department.go` constructs no such stage.
- **Display and record**: window, telemetry, transcripts.
- **Left for later** (below): session renewal, the wake signal and the order of a poll, the
  batch service, the single-shot front door with its agent loop and tools, the
  planning algorithms.

In Archify:

- **The other renderers** (architecture, dataflow, sequence, lifecycle) lay out a kind of
  diagram each in one pass over its items, with Geometry's tests as their validation.
- **Checks of finished drawings** (`check-render-output`, `visual-check`): patterns over
  markup and pixels in a browser; the commands see a verdict.
- **Schema version 1** of workflows, with fixed columns and routes of its own, and its
  migration: to `Delivery` migration is a function from documents to documents.
- **The search for a verified fix** that a refused workflow is told with its
  diagnostic: it compiles variants of the document by the same compiler.
- **Tables and markup**: brand marks, translations, legends, templates, schemas, command
  line parsing, receipts.

## Plan

Done: the parts in which several actors share state (queue, claim), the board-wide
protocols (breakdown, journey), the longest sequential one (development loop); then
Archify, from what shares files or time with others (update checker, commands,
preview) to what is pure (delta, geometry, workflow compiler).  Next, in this order:

1. `InputsAreSafe`, `ResultsAreWhole` and `PreviousNotLost` of `Delivery` for any tree: what
   they need first is where the walk of `Canonical` ends, by induction on the links.
2. The workflow compiler's version 1 and its migration, with the property that the
   migrated document draws the same relations.
3. `Poll`: the wake signal, the poll timer, the listing order with its cap
   on hydration, the slots of a role and the drain at shutdown.
4. `Session`: concurrent renewals, a cancelled leader, retries of the transport.
5. `PlanAlgorithms`: flattening, cycle detection and ordering as recursive functions
   against a reference definition over all small plans.
6. The loops of review, integration and resolution as modules that `Journey`'s
   outcomes refine; proofs about `Sandbox` by itself.
