---------------------------- MODULE DeltaReview ----------------------------
(***************************************************************************)
(* The page renderArchitectureDeltaHtml makes: the reader steps through    *)
(* the changes of a comparison, or lets them be played one after another.  *)
(* Rows are numbered from one; no row is selected in the overview.  Every  *)
(* handler of the page is an action; a pointer first moves the focus to    *)
(* the button it presses, which the page is told before the click.         *)
(***************************************************************************)
EXTENDS ArchitectureDelta

CONSTANTS
  Pairs,       \* the comparisons: [base, head]
  MaxToken     \* bound: the reader acts until playback was started or stopped this often

ASSUME ReviewAssumption ==
  /\ MaxToken \in Nat
  /\ \A p \in Pairs, k \in Kinds :
       IsFiniteSet(DOMAIN p.base[k]) /\ IsFiniteSet(DOMAIN p.head[k])

VARIABLES
  base, head,  \* what is compared
  svg,         \* the drawing
  review       \* the state of the page's script

vars == <<base, head, svg, review>>

Rows == Cardinality(Changes(base, head))

(* reviewAvailable, activeIndex, playing, playbackToken, the token of the   *)
(* timer under way, the word on the play button, aria-live, the shown tab, *)
(* the reader's wish for less motion, and which kind of thing has focus.   *)
Opened(b, h, quiet) ==
  [available |-> Validates(DeltaSvg(b, h), b, h), active |-> 0, playing |-> FALSE, token |-> 0,
   timer |-> {}, word |-> "Review", live |-> "polite", tab |-> "delta",
   quiet |-> quiet, focus |-> "page"]

Init ==
  \E p \in Pairs, quiet \in BOOLEAN :
    /\ base = p.base /\ head = p.head /\ Comparable(p.base, p.head)
    /\ svg = DeltaSvg(p.base, p.head)
    /\ review = Opened(p.base, p.head, quiet)

-----------------------------------------------------------------------------
(* The functions of the script.                                            *)

StopPlayback(r) ==
  [r EXCEPT !.token = @ + 1, !.timer = {}, !.playing = FALSE, !.live = "polite",
            !.word = IF r.active = Rows /\ Rows > 0 THEN "Replay" ELSE "Review"]

\* selectChange, for a row of the page; another index leaves everything alone.
SelectChange(r, i, fromPlayback) ==
  IF ~r.available \/ i \notin 1..Rows THEN r
  ELSE [r EXCEPT !.tab = "delta", !.active = i,
                 !.live = IF fromPlayback THEN "off" ELSE @]

Overview(r) ==
  IF r.available THEN [StopPlayback(r) EXCEPT !.active = 0, !.tab = "delta"]
  ELSE [StopPlayback(r) EXCEPT !.active = 0]

\* A slip: playback that goes back to the first row after the last.
LoopMutant(r, token) ==
  IF r.playing /\ token = r.token
  THEN [IF r.active >= Rows THEN [r EXCEPT !.active = 1] ELSE r EXCEPT !.timer = {token}] ELSE r
SchedulePlayback(r, token) ==
  IF r.playing /\ token = r.token /\ r.active < Rows THEN [r EXCEPT !.timer = {token}]
  ELSE IF r.active >= Rows THEN StopPlayback(r) ELSE r

StartReview(r) ==
  IF ~r.available THEN r
  ELSE IF r.playing THEN StopPlayback(r)
  ELSE LET s == SelectChange(StopPlayback(r), 1, FALSE) IN
       IF Rows < 1 \/ s.quiet \/ Rows < 2 THEN s
       ELSE SchedulePlayback([s EXCEPT !.playing = TRUE, !.token = @ + 1, !.word = "Pause",
                                       !.live = "off"], s.token + 1)

\* focusin: a button that is given the focus ends the playback.
Focus(r, on) ==
  IF r.focus = on THEN r
  ELSE [IF r.playing /\ on # "page" THEN StopPlayback(r) ELSE r EXCEPT !.focus = on]

-----------------------------------------------------------------------------
(* What happens to the page.                                               *)

To(r) == review' = r /\ UNCHANGED <<base, head, svg>>
Becomes(r) == r # review /\ review.token < MaxToken /\ To(r)

Play == Rows > 0 /\ Becomes(StartReview(Focus(review, "play")))
ClickRow(i) == review.available /\
  Becomes(SelectChange(StopPlayback(Focus(review, "row")), i, FALSE))
Previous ==
  review.available /\ review.active > 1 /\
  Becomes(SelectChange(StopPlayback(Focus(review, "step")), review.active - 1, FALSE))
Following ==
  review.available /\ review.active \in 1..Rows - 1 /\
  Becomes(LET r == StopPlayback(Focus(review, "step")) IN SelectChange(r, r.active + 1, FALSE))
ToOverview ==
  review.available /\ review.active > 0 /\ Becomes(Overview(Focus(review, "step")))
Escape == review.active > 0 /\ Becomes(Focus(Overview(review), "play"))
BeforePrint == Becomes(Overview(review))
\* A slip: playback goes on when another canvas is shown.
KeepsPlayingMutant(t) == Becomes([[review EXCEPT !.focus = "tab"] EXCEPT !.tab = t])
ShowTab(t) == Becomes([StopPlayback(Focus(review, "tab")) EXCEPT !.tab = t])
Hide == Becomes(StopPlayback(review))
LessMotion(on) ==
  review.quiet # on /\
  Becomes([IF on THEN StopPlayback(review) ELSE review EXCEPT !.quiet = on])
Elsewhere == Becomes(Focus(review, "page"))

\* The timer of the playback.
Tick ==
  /\ review.timer # {}
  /\ LET token == Max(review.timer)
         r == [review EXCEPT !.timer = {}]
     IN  To(IF ~r.playing \/ token # r.token THEN r
            ELSE SchedulePlayback(SelectChange(r, r.active + 1, TRUE), token))

Next ==
  \/ Play \/ (\E i \in 1..Rows : ClickRow(i)) \/ Previous \/ Following \/ ToOverview \/ Escape
  \/ BeforePrint \/ (\E t \in {"base", "delta", "head"} : ShowTab(t)) \/ Hide
  \/ (\E on \in BOOLEAN : LessMotion(on)) \/ Elsewhere \/ Tick

Spec == Init /\ [][Next]_vars /\ WF_vars(Tick)

-----------------------------------------------------------------------------
(* DrawingValidates: whatever is compared, the drawing of the comparison   *)
(* holds for every change exactly the elements the review of that change   *)
(* expects, so compare never fails on its own artifact                     *)
(* (delta/artifact-invalid) and the page never has to give the review up   *)
(* ("compare identity mismatch").                                          *)
DrawingValidates == Validates(svg, base, head)

(* ReversedMirrors: comparing the snapshots the other way round tells the  *)
(* same changes, with what was added now removed and what was removed now  *)
(* added: no change is seen from one side only.                            *)
Mirrored(c) ==
  [c EXCEPT !.status = CASE @ = "added" -> "removed" [] @ = "removed" -> "added" [] OTHER -> @]
ReversedMirrors ==
  /\ Changes(head, base) = {Mirrored(c) : c \in Changes(base, head)}
  /\ PresentationChanged(head, base) <=> PresentationChanged(base, head)
  /\ ProvenanceChanged(head, base) <=> ProvenanceChanged(base, head)

(* ChangesAreDrawn: both.  What the comparison tells is all there is to     *)
(* tell, and the drawing shows it.                                         *)
ChangesAreDrawn == DrawingValidates /\ ReversedMirrors

(* PlayingIsShown: while the changes are played the page says so (Pause),  *)
(* is silent to a screen reader, shows the Delta, and exactly one timer is *)
(* under way, of the current playback; otherwise none is, the page speaks, *)
(* and no button offers to pause what does not run.                        *)
PlayingIsShown ==
  IF review.playing
  THEN /\ review.word = "Pause" /\ review.live = "off" /\ review.tab = "delta"
       /\ review.timer = {review.token} /\ review.active \in 1..Rows - 1
  ELSE review.word # "Pause" /\ review.live = "polite" /\ review.timer = {}

(* PlaybackEnds: playback that the reader does not stop comes to its end,  *)
(* as long as the browser's timer fires.                                   *)
PlaybackEnds == review.playing ~> ~review.playing

=============================================================================
