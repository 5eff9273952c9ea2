------------------------------ MODULE Preview ------------------------------
(***************************************************************************)
(* bin/preview.mjs: the live preview of one diagram.  It watches a source  *)
(* file somebody else edits, hands stable snapshots to a child process     *)
(* that delivers them, publishes the result if the source is still the     *)
(* same, and tells the open pages.  One event loop runs every action; the  *)
(* editor, the child and the pages move between any two of them, and       *)
(* between the last look at the source and the rename of the output.       *)
(***************************************************************************)
EXTENDS Naturals, Sequences

CONSTANTS
  Contents,    \* what the source file may hold, its absence included
  Good,        \* the contents the delivery accepts
  Drawing,     \* the artifact of each good content
  Start,       \* what the file holds when the preview is started
  Budgets      \* bounds: saves of the source, times somebody else writes the
               \* output, loads of the page

ASSUME PreviewAssumption ==
  /\ Start \in Contents /\ Good \subseteq Contents /\ "none" \notin Contents
  /\ Drawing \in [Good -> Nat \ {0}]
  /\ Budgets \subseteq [saves : Nat, clobbers : Nat, visits : Nat]

None == "none"    \* no content; no artifact is 0

VARIABLES
  source,   \* the content of the input file
  queued,   \* queuedHash
  timer,    \* the debounce timer: what launch is waiting for
  epoch,    \* sourceEpoch
  pending,  \* pendingBuild
  child,    \* the delivery under way, if any
  closing,  \* the commit in hand: its content, and how far it has come
  state,    \* what /state answers
  lastGood, \* lastGoodSourceHash
  buffer,   \* artifactBuffer
  output,   \* the output file: an artifact, or 0 for anything else
  stop,     \* the flags of the shutdown
  staging,  \* the private directory exists
  page,     \* a browser page
  left,     \* what is left of the budget
  failed    \* history: the content the published failure is about

build == <<queued, timer, epoch, pending, child>>
shown == <<state, lastGood, buffer>>
vars == <<source, build, closing, shown, output, stop, staging, page, left, failed>>

Statuses == {"checking", "verified", "needs-fix"}
NoChild == [hash |-> None, epoch |-> 0, signal |-> None]
NoCommit == [hash |-> None, does |-> "look"]
Away == [here |-> FALSE, mail |-> <<>>, says |-> None, of |-> 0,
         revision |-> 0, asked |-> FALSE, frame |-> 0]

Messages == [status : Statuses, revision : Nat, verified : Nat]
Pages == [here : BOOLEAN, mail : Seq(Messages), says : Statuses \cup {None},
          of : Nat, revision : Nat, asked : BOOLEAN, frame : Nat]

TypeOK ==
  /\ source \in Contents /\ queued \in Contents \cup {None}
  /\ timer \in {"off", "debounce", "soon"}
  /\ epoch \in Nat /\ pending \in BOOLEAN
  /\ child \in [hash : Contents \cup {None}, epoch : Nat,
                signal : {None, "term", "kill"}]
  /\ closing \in [hash : Good \cup {None}, does : {"look", "rename", "keep"}]
  /\ state \in Messages /\ page \in Pages
  /\ lastGood \in Good \cup {None} /\ buffer \in Nat /\ output \in Nat
  /\ stop \in [asked : BOOLEAN, closed : BOOLEAN, drain : {None, "grace", "kill"},
               done : BOOLEAN]
  /\ left \in [saves : Nat, clobbers : Nat, visits : Nat]
  /\ staging \in BOOLEAN /\ failed \in Contents \cup {None}

Building == child # NoChild
\* No handler is halfway through: the others have to wait for it.
Idle == closing = NoCommit

(***************************************************************************)
(* startPreview: the first look at the source is immediate.                *)
(***************************************************************************)
Init ==
  /\ source = Start /\ queued = Start /\ timer = "soon"
  /\ epoch = 1 /\ pending = FALSE /\ child = NoChild /\ closing = NoCommit
  /\ state = [status |-> "checking", revision |-> 0, verified |-> 0]
  /\ lastGood = None /\ buffer = 0 /\ output = 0
  /\ stop = [asked |-> FALSE, closed |-> FALSE, drain |-> None, done |-> FALSE]
  /\ staging = TRUE /\ page = Away /\ failed = None
  /\ left \in Budgets

-----------------------------------------------------------------------------
(* What the handlers share.                                                *)

\* broadcast: every connected page is sent the state as it is now.
Tell(s) ==
  /\ state' = s
  /\ page' = IF page.here THEN [page EXCEPT !.mail = Append(@, s)] ELSE page

Checking == [state EXCEPT !.status = "checking"]
NeedsFix == [state EXCEPT !.status = "needs-fix"]

Hush == UNCHANGED <<state, page>>

\* queueStableBuild: the timer is set anew.
Queue(hash, when) == queued' = hash /\ timer' = when

\* publishFailure
UnheardFailureMutant(hash) == state' = NeedsFix /\ failed' = hash /\ UNCHANGED page
PublishFailure(hash) ==
  Tell(NeedsFix) /\ failed' = hash

\* finishStop
FinishStop(nochild, closed) ==
  IF stop.done \/ ~nochild \/ ~closed
  THEN stop' = [stop EXCEPT !.closed = closed] /\ UNCHANGED staging
  ELSE stop' = [stop EXCEPT !.closed = closed, !.done = TRUE, !.drain = None]
       /\ staging' = FALSE

-----------------------------------------------------------------------------
(* The event loop.                                                         *)

\* observeSource, from the watcher or the poll: only news starts the timer.
Observe ==
  /\ ~stop.asked /\ Idle
  /\ source # queued
  /\ epoch' = epoch + 1
  /\ Queue(source, "debounce")
  /\ UNCHANGED <<source, pending, child, closing, shown, output, stop, staging,
                 page, left, failed>>

\* beginBuild, called by launch: its snapshot may be refused.
BeginBuild ==
  \/ /\ child' = [hash |-> source, epoch |-> epoch, signal |-> None]
     /\ Tell(Checking) /\ UNCHANGED failed
  \/ /\ state' = NeedsFix /\ failed' = source
     /\ page' = IF page.here
                THEN [page EXCEPT !.mail = Append(Append(@, Checking), NeedsFix)]
                ELSE page
     /\ UNCHANGED child

\* The source is the last good one again: nothing is built.
UnrestoredMutant == Hush
Restore ==
  IF state.status # "verified" /\ state.verified # 0
  THEN Tell([state EXCEPT !.status = "verified"]) ELSE Hush

\* The timer fired: the source must have held still since it was set.
Launch ==
  /\ ~stop.asked /\ Idle
  /\ timer # "off"
  /\ \/ /\ source # queued
        /\ Queue(source, "debounce")
        /\ Hush /\ UNCHANGED <<pending, child, failed>>
     \/ /\ source = queued /\ timer' = "off" /\ UNCHANGED queued
        /\ \/ /\ source = lastGood
              /\ Restore /\ UNCHANGED <<pending, child, failed>>
           \/ /\ source # lastGood /\ Building
              /\ pending' = TRUE
              /\ Hush /\ UNCHANGED <<child, failed>>
           \/ /\ source # lastGood /\ ~Building
              /\ BeginBuild /\ UNCHANGED pending
  /\ UNCHANGED <<source, epoch, closing, lastGood, buffer, output, stop, staging,
                 left>>

\* A newer source was observed while the delivery ran.
Stale == child.epoch # epoch

\* What is done when the child is gone: look again if anything happened since.
OnlyPendingMutant(again, hash) ==
  /\ child' = NoChild
  /\ IF pending THEN pending' = FALSE /\ Queue(hash, "soon")
     ELSE UNCHANGED <<pending, queued, timer>>
Requeue(again, hash) ==
  /\ child' = NoChild
  /\ IF again THEN pending' = FALSE /\ Queue(hash, "soon")
     ELSE UNCHANGED <<pending, queued, timer>>

\* The delivery ended; a good one of the current epoch goes on to commit.
Closed(ok) ==
  /\ Building /\ Idle /\ ~stop.asked
  /\ ok => child.hash \in Good
  /\ \/ /\ ok /\ ~Stale /\ closing' = [hash |-> child.hash, does |-> "look"]
        /\ Hush /\ UNCHANGED <<failed, child, pending, queued, timer>>
     \/ /\ ~ok /\ ~Stale /\ PublishFailure(child.hash)
        /\ Requeue(pending, source) /\ UNCHANGED closing
     \/ /\ Stale /\ Hush /\ UNCHANGED failed
        /\ Requeue(TRUE, source) /\ UNCHANGED closing
  /\ UNCHANGED <<source, epoch, lastGood, buffer, output, stop, staging, left>>

\* commitCandidate looks at the output, if it is to stay as it is, and last at
\* the source ...
Look ==
  /\ ~Idle /\ closing.does = "look"
  /\ IF source # closing.hash
     THEN /\ closing' = NoCommit
          /\ epoch' = epoch + 1
          /\ Requeue(TRUE, source)
     ELSE /\ closing' = [closing EXCEPT !.does =
                IF state.verified = Drawing[closing.hash] /\ output = Drawing[closing.hash]
                THEN "keep" ELSE "rename"]
          /\ UNCHANGED <<epoch, child, pending, queued, timer>>
  /\ UNCHANGED <<source, shown, output, stop, staging, page, left, failed>>

\* ... or the file system refuses, before or at the rename ...
Refused ==
  /\ ~Idle
  /\ closing' = NoCommit
  /\ PublishFailure(closing.hash)
  /\ Requeue(pending, source)
  /\ UNCHANGED <<source, epoch, lastGood, buffer, output, stop, staging, left>>

\* ... or the candidate is renamed.  A save that comes after the look is left to
\* the next observation.
ServeFirstMutant(drawn) == IF buffer = 0 THEN drawn ELSE buffer
Served(drawn) == drawn
Publish ==
  /\ ~Idle /\ closing.does # "look"
  /\ LET drawn == Drawing[closing.hash] IN
     /\ output' = IF closing.does = "rename" THEN drawn ELSE output
     /\ buffer' = Served(drawn)
     /\ lastGood' = closing.hash
     /\ Tell([status |-> "verified", verified |-> drawn,
              revision |-> state.revision + (IF state.verified = drawn THEN 0 ELSE 1)])
  /\ closing' = NoCommit
  /\ Requeue(pending, source)
  /\ UNCHANGED <<source, epoch, stop, staging, left, failed>>

-----------------------------------------------------------------------------
(* The shutdown.                                                           *)

\* stop, and a second signal forces it.
Stop ==
  /\ Idle
  /\ ~stop.asked
  /\ timer' = "off"
  /\ page' = [page EXCEPT !.here = FALSE]
  /\ stop' = [stop EXCEPT !.asked = TRUE, !.drain = IF Building THEN "grace" ELSE None]
  /\ UNCHANGED <<source, queued, epoch, pending, child, closing, shown, output,
                 staging, left, failed>>

ForceStop ==
  /\ stop.asked /\ ~stop.done
  /\ IF Building
     THEN /\ child' = [child EXCEPT !.signal = "kill"]
          /\ stop' = [stop EXCEPT !.drain = None] /\ UNCHANGED staging
     ELSE FinishStop(TRUE, stop.closed) /\ UNCHANGED child
  /\ UNCHANGED <<source, queued, timer, epoch, pending, closing, shown, output, page,
                 left, failed>>

\* startBoundedChildDrain: a grace period, then SIGTERM, then SIGKILL.
TermOnlyMutant ==
  /\ stop.asked /\ stop.drain = "grace" /\ Building
  /\ child' = [child EXCEPT !.signal = "term"]
  /\ stop' = [stop EXCEPT !.drain = None]
  /\ UNCHANGED <<source, queued, timer, epoch, pending, closing, shown, output,
                 staging, page, left, failed>>
Drain ==
  /\ stop.asked /\ stop.drain # None /\ Building
  /\ \/ /\ stop.drain = "grace"
        /\ child' = [child EXCEPT !.signal = "term"]
        /\ stop' = [stop EXCEPT !.drain = "kill"]
     \/ /\ stop.drain = "kill"
        /\ child' = [child EXCEPT !.signal = "kill"]
        /\ stop' = [stop EXCEPT !.drain = None]
  /\ UNCHANGED <<source, queued, timer, epoch, pending, closing, shown, output,
                 staging, page, left, failed>>

\* The child closed during the shutdown: nothing of it is used.
Drained ==
  /\ stop.asked /\ Building
  /\ child' = NoChild
  /\ LET calm == [stop EXCEPT !.drain = None] IN
     IF stop.closed THEN stop' = [calm EXCEPT !.done = TRUE] /\ staging' = FALSE
     ELSE stop' = calm /\ UNCHANGED staging
  /\ UNCHANGED <<source, queued, timer, epoch, pending, closing, shown, output, page,
                 left, failed>>

\* closeServer: the callback comes when the last connection has ended.
ServerClosed ==
  /\ stop.asked /\ ~stop.closed
  /\ FinishStop(~Building, TRUE)
  /\ UNCHANGED <<source, build, closing, shown, output, page, left, failed>>

-----------------------------------------------------------------------------
(* The pages.                                                              *)

\* A page is loaded and opens its stream, or is loaded anew.
Visit ==
  /\ left.visits > 0 /\ ~stop.asked /\ Idle
  /\ left' = [left EXCEPT !.visits = @ - 1]
  /\ page' = [Away EXCEPT !.here = TRUE, !.mail = <<state>>]
  /\ UNCHANGED <<source, build, closing, shown, output, stop, staging, failed>>

\* render: the frame is pointed at the artifact when the revision is new.
Render ==
  /\ page.mail # <<>>
  /\ LET s == Head(page.mail)
         seen == [page EXCEPT !.mail = Tail(@), !.says = s.status, !.of = s.revision] IN
     page' = IF s.status = "verified" /\ s.revision # page.revision
             THEN [seen EXCEPT !.revision = s.revision, !.asked = TRUE]
             ELSE seen
  /\ UNCHANGED <<source, build, closing, shown, output, stop, staging, left, failed>>

\* GET /artifact.html is answered with the buffer of that moment.
Load ==
  /\ page.asked /\ page.here /\ Idle
  /\ page' = [page EXCEPT !.asked = FALSE, !.frame = state.revision]
  /\ UNCHANGED <<source, build, closing, shown, output, stop, staging, left, failed>>

-----------------------------------------------------------------------------
(* Everybody else.                                                         *)

Save ==
  /\ left.saves > 0 /\ left' = [left EXCEPT !.saves = @ - 1]
  /\ source' \in Contents \ {source}
  /\ UNCHANGED <<build, closing, shown, output, stop, staging, page, failed>>

Clobber ==
  /\ left.clobbers > 0 /\ left' = [left EXCEPT !.clobbers = @ - 1]
  /\ output' = 0
  /\ UNCHANGED <<source, build, closing, shown, stop, staging, page, failed>>

Commit == Look \/ Refused \/ Publish
Ended == Closed(TRUE) \/ Closed(FALSE)
Killed == child.signal = "kill" /\ Drained

Next ==
  \/ Observe \/ Launch \/ Ended \/ Look \/ Refused \/ Publish
  \/ Stop \/ ForceStop \/ Drain \/ Drained \/ ServerClosed
  \/ Visit \/ Render \/ Load \/ Save \/ Clobber

Spec == Init /\ [][Next]_vars

(***************************************************************************)
(* The timers fire and the event loop gets round; a delivery ends by       *)
(* itself while the preview runs, but once it is being shut down only a    *)
(* child that was killed is sure to.                                       *)
(***************************************************************************)
FairSpec ==
  /\ Spec
  /\ WF_vars(Observe) /\ WF_vars(Launch) /\ WF_vars(Ended) /\ WF_vars(Commit)
  /\ WF_vars(Drain) /\ WF_vars(Killed) /\ WF_vars(ServerClosed)

-----------------------------------------------------------------------------
(* What is served is the artifact the state names, drawn from the source   *)
(* that is called good; the output file holds it too, or what somebody     *)
(* else put there.                                                         *)
ServedIsVerified ==
  /\ state.verified = buffer
  /\ output \in {0, buffer}
  /\ state.status = "verified" => lastGood \in Good /\ Drawing[lastGood] = buffer

(* A page that says "checking" is not kept waiting for nothing.            *)
CheckingMeansWork ==
  state.status = "checking" /\ ~stop.asked => Building \/ timer # "off"

(* Saves come to an end: then the preview shows the last one, or says what *)
(* is wrong with it, whatever was under way while they came.               *)
Settled ==
  /\ ~Building /\ timer = "off"
  /\ \/ state.status = "verified" /\ lastGood = source
     \/ state.status = "needs-fix" /\ failed = source
Converges == <>[](Settled \/ stop.asked)

(* The shutdown comes to an end, with no child left behind and the private *)
(* directory removed.                                                      *)
StopCompletes == stop.asked ~> [](stop.done /\ ~Building /\ ~staging)

(* Both: whatever was under way, the preview comes to the last save or to  *)
(* a clean end.                                                            *)
Settles == Converges /\ StopCompletes

(* A page that has read its mail shows the state of the preview, and if it *)
(* says "verified", the newest revision.                                   *)
PageIsCurrent ==
  page.here /\ page.mail = <<>> /\ ~page.asked =>
    /\ page.says = state.status
    /\ page.says = "verified" => page.frame = state.revision


(* A page tells the truth: it is kept waiting only for work under way, and *)
(* what it says when it has read its mail is so.                           *)
PageTellsTheTruth == CheckingMeansWork /\ PageIsCurrent
=============================================================================
