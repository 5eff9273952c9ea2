--------------------------- MODULE PreviewProofs ---------------------------
(***************************************************************************)
(* Proofs about the live preview, for any contents, drawings and budget:   *)
(* what is served was verified, and the pages tell the truth.              *)
(***************************************************************************)
EXTENDS Preview, TLAPS

(* The core of the preview: what it serves, what it knows of it, and that  *)
(* somebody is at work while it says so.  A commit that keeps the output   *)
(* as it is has seen that the artifact shown is the one at hand.           *)
Core ==
  /\ state.verified = buffer /\ output \in {0, buffer}
  /\ buffer # 0 => lastGood \in Good /\ Drawing[lastGood] = buffer
  /\ lastGood # None => buffer # 0
  /\ state.status = "verified" => buffer # 0
  /\ buffer # 0 => state.revision > 0
  /\ epoch > 0
  /\ ~Idle => closing.hash \in Good
  /\ closing.does = "keep" => state.verified = Drawing[closing.hash]
  /\ closing # NoCommit => Building
  /\ stop.asked => Idle
  /\ CheckingMeansWork

(* A page and the state it is told of.  What is in the mail comes in the   *)
(* order of the revisions, none older than the frame's and none newer than *)
(* the state; the last is the state itself; and a verified revision has    *)
(* been asked for, or is in the frame, or is announced in the mail.        *)
InStep(pg, s) ==
  /\ pg.revision <= s.revision
  /\ \A i \in 1..Len(pg.mail) :
       pg.revision <= pg.mail[i].revision /\ pg.mail[i].revision <= s.revision
  /\ \A i, j \in 1..Len(pg.mail) : i <= j => pg.mail[i].revision <= pg.mail[j].revision
  /\ pg.mail # <<>> => pg.mail[Len(pg.mail)] = s
  /\ pg.mail = <<>> => pg.says = s.status
  /\ pg.revision = s.revision => pg.asked \/ pg.frame = s.revision
  /\ s.status = "verified" =>
       \/ pg.revision = s.revision
       \/ \E i \in 1..Len(pg.mail) :
            pg.mail[i].status = "verified" /\ pg.mail[i].revision = s.revision

Inv == TypeOK /\ Core /\ (page.here => InStep(page, state))

-----------------------------------------------------------------------------
(* One more message: the state moved on, and by a revision only when it is *)
(* verified.                                                               *)
Follows(s, t) ==
  s.revision <= t.revision /\ (s.revision < t.revision => t.status = "verified")

LEMMA Told ==
  ASSUME NEW pg \in Pages, NEW s \in Messages, NEW t \in Messages,
         InStep(pg, s), Follows(s, t)
  PROVE  InStep([pg EXCEPT !.mail = Append(@, t)], t)
<1> DEFINE q == [pg EXCEPT !.mail = Append(@, t)]
           n == Len(pg.mail)
<1>1. /\ pg.mail \in Seq(Messages) /\ n \in Nat
      /\ q.mail = Append(pg.mail, t) /\ Len(q.mail) = n + 1
      /\ q.revision = pg.revision /\ q.asked = pg.asked /\ q.frame = pg.frame
  BY DEF Pages
<1>2. /\ \A i \in 1..n : q.mail[i] = pg.mail[i] /\ pg.mail[i] \in Messages
      /\ q.mail[n + 1] = t
  BY <1>1
<1>3. pg.revision \in Nat /\ s.revision \in Nat /\ t.revision \in Nat
  BY DEF Pages, Messages
<1>4. \A i \in 1..n : pg.mail[i].revision \in Nat
  BY <1>2 DEF Messages
<1>5. \A i \in 1..(n + 1) : i \in 1..n \/ i = n + 1
  BY <1>1
<1>6. \A i \in 1..(n + 1) :
        q.revision <= q.mail[i].revision /\ q.mail[i].revision <= t.revision
  BY <1>1, <1>2, <1>3, <1>4, <1>5, SMTT(30) DEF InStep, Follows
<1>7. \A i, j \in 1..(n + 1) : i <= j => q.mail[i].revision <= q.mail[j].revision
  <2> SUFFICES ASSUME NEW i \in 1..(n + 1), NEW j \in 1..(n + 1), i <= j
               PROVE  q.mail[i].revision <= q.mail[j].revision
    OBVIOUS
  <2>1. CASE j = n + 1
    BY <2>1, <1>2, <1>6
  <2>2. CASE j \in 1..n
    <3>1. i \in 1..n
      BY <2>2, <1>1
    <3> QED BY <3>1, <2>2, <1>2 DEF InStep
  <2> QED BY <2>1, <2>2, <1>5
<1>8. q.mail # <<>>
  BY <1>1
<1>9. q.revision = t.revision => q.asked \/ q.frame = t.revision
  BY <1>1, <1>3 DEF InStep, Follows
<1>10. t.status = "verified" =>
         \E i \in 1..(n + 1) : q.mail[i].status = "verified" /\ q.mail[i].revision = t.revision
  BY <1>1, <1>2
<1>11. q.revision <= t.revision
  BY <1>1, <1>3 DEF InStep, Follows
<1> HIDE DEF q, n
<1> QED BY <1>1, <1>2, <1>6, <1>7, <1>8, <1>9, <1>10, <1>11 DEF InStep, q

LEMMA ToldType ==
  ASSUME NEW pg \in Pages, NEW t \in Messages
  PROVE  [pg EXCEPT !.mail = Append(@, t)] \in Pages
<1>1. pg.mail \in Seq(Messages)
  BY DEF Pages
<1>2. Append(pg.mail, t) \in Seq(Messages)
  BY <1>1
<1> HIDE DEF Messages
<1> DEFINE m == Append(pg.mail, t)
<1> HIDE DEF m
<1>3. [pg EXCEPT !.mail = m] \in Pages
  BY <1>2 DEF Pages, m
<1> QED BY <1>3 DEF m

(* What a handler tells keeps the pages in step.                           *)
LEMMA TellKeeps ==
  ASSUME TypeOK, page.here => InStep(page, state),
         NEW t \in Messages, Follows(state, t), Tell(t)
  PROVE  /\ state' \in Messages /\ page' \in Pages
         /\ page'.here => InStep(page', state')
<1>1. CASE page.here
  <2>1. page' = [page EXCEPT !.mail = Append(@, t)] /\ state' = t
    BY <1>1 DEF Tell
  <2>2. page' \in Pages
    BY <2>1, ToldType DEF TypeOK
  <2>3. InStep(page', state')
    BY <1>1, <2>1, Told DEF TypeOK
  <2> QED BY <2>1, <2>2, <2>3
<1>2. CASE ~page.here
  BY <1>2 DEF Tell, TypeOK
<1> QED BY <1>1, <1>2

LEMMA BeginKeeps ==
  ASSUME TypeOK, page.here => InStep(page, state), state' = NeedsFix,
         page' = IF page.here THEN [page EXCEPT !.mail = Append(Append(@, Checking), NeedsFix)]
                 ELSE page
  PROVE  /\ state' \in Messages /\ page' \in Pages
         /\ page'.here => InStep(page', state')
<1>1. /\ state \in Messages /\ Checking \in Messages /\ NeedsFix \in Messages
      /\ Follows(state, Checking) /\ Follows(Checking, NeedsFix)
  BY DEF TypeOK, Messages, Checking, NeedsFix, Follows, Statuses
<1>2. CASE page.here
  <2> DEFINE p1 == [page EXCEPT !.mail = Append(@, Checking)]
             p2 == [p1 EXCEPT !.mail = Append(@, NeedsFix)]
  <2>1. page \in Pages /\ page.mail \in Seq(Messages)
    BY DEF TypeOK, Pages
  <2>3. page' = p2
    BY <1>2, <2>1 DEF Pages
  <2>4. p1 \in Pages /\ InStep(p1, Checking)
    BY <1>1, <1>2, <2>1, ToldType, Told
  <2> HIDE DEF p1
  <2>5. p2 \in Pages /\ InStep(p2, NeedsFix)
    BY <1>1, <2>4, ToldType, Told
  <2> QED BY <1>1, <2>3, <2>5
<1>3. CASE ~page.here
  BY <1>1, <1>3 DEF TypeOK
<1> QED BY <1>2, <1>3

(* A page that is loaded is told the state first.                          *)
LEMMA VisitKeeps ==
  ASSUME TypeOK, Visit
  PROVE  page' \in Pages /\ InStep(page', state')
<1> DEFINE q == [Away EXCEPT !.here = TRUE, !.mail = <<state>>]
<1>1. /\ page' = q /\ state' = state /\ state \in Messages /\ state.revision \in Nat
  BY DEF Visit, TypeOK, shown, Messages
<1>2. /\ q.mail = <<state>> /\ q.revision = 0 /\ q.frame = 0
      /\ Len(<<state>>) = 1 /\ <<state>>[1] = state /\ <<state>> # <<>>
      /\ <<state>> \in Seq(Messages)
  BY <1>1 DEF Away
<1>3. q \in Pages
  BY <1>2 DEF Away, Pages
<1>4. \A i \in 1..1 : i = 1
  OBVIOUS
<1>5. InStep(q, state)
  BY <1>1, <1>2, <1>4 DEF InStep
<1> QED BY <1>1, <1>3, <1>5

(* A page that reads its mail stays in step.                               *)
LEMMA RenderKeeps ==
  ASSUME TypeOK, page.here => InStep(page, state), Render
  PROVE  page' \in Pages /\ (page'.here => InStep(page', state))
<1> DEFINE m == page.mail
           s == Head(m)
           r == Tail(m)
           n == Len(m)
           new == s.status = "verified" /\ s.revision # page.revision
<1>1. page \in Pages /\ m \in Seq(Messages) /\ m # <<>>
  BY DEF TypeOK, Pages, Render
<1>2. /\ n \in Nat /\ n > 0 /\ s = m[1] /\ s \in Messages
      /\ r \in Seq(Messages) /\ Len(r) = n - 1
      /\ \A i \in 1..(n - 1) : r[i] = m[i + 1] /\ i + 1 \in 1..n
  BY <1>1
<1>3. /\ page'.mail = r /\ page'.says = s.status /\ page'.here = page.here
      /\ page'.revision = IF new THEN s.revision ELSE page.revision
      /\ page'.asked = (IF new THEN TRUE ELSE page.asked)
      /\ page'.frame = page.frame
  BY <1>1 DEF Render, Pages
<1>4. page' \in Pages
  BY <1>1, <1>2 DEF Render, Pages, Messages
<1>6. page.mail = m /\ Len(m) = n
  OBVIOUS
<1> HIDE DEF m, s, r, n
<1>7. ASSUME page.here PROVE InStep(page', state)
  <2>1. InStep(page, state)
    BY <1>7
  <2>2. /\ page.revision \in Nat /\ state.revision \in Nat /\ s.revision \in Nat
        /\ \A i \in 1..n : m[i] \in Messages /\ m[i].revision \in Nat
    <3>1. \A i \in 1..n : m[i] \in Messages
      BY <1>1, <1>6
    <3>2. \A x \in Messages : x.revision \in Nat
      BY DEF Messages
    <3> QED BY <1>1, <1>2, <3>1, <3>2 DEF TypeOK, Pages
  <2>3. \A i \in 1..n : /\ page.revision <= m[i].revision
                        /\ m[i].revision <= state.revision
                        /\ s.revision <= m[i].revision
    BY <2>1, <2>2, <1>2, <1>6 DEF InStep
  <2>4. page.revision <= page'.revision /\ page'.revision <= s.revision
    BY <1>2, <1>3, <2>2, <2>3
  <2>5. page'.revision \in Nat /\ page'.revision <= state.revision
    BY <1>2, <1>3, <2>2, <2>3
  <2>6. \A i \in 1..Len(r) :
          page'.revision <= r[i].revision /\ r[i].revision <= state.revision
    <3> SUFFICES ASSUME NEW i \in 1..Len(r)
                 PROVE  page'.revision <= r[i].revision /\ r[i].revision <= state.revision
      OBVIOUS
    <3>1. i + 1 \in 1..n /\ r[i] = m[i + 1]
      BY <1>2
    <3> QED BY <1>2, <2>2, <2>3, <2>4, <2>5, <3>1
  <2>7. \A i, j \in 1..Len(r) : i <= j => r[i].revision <= r[j].revision
    <3> SUFFICES ASSUME NEW i \in 1..Len(r), NEW j \in 1..Len(r), i <= j
                 PROVE  r[i].revision <= r[j].revision
      OBVIOUS
    <3>1. i + 1 \in 1..n /\ j + 1 \in 1..n /\ i + 1 <= j + 1
      BY <1>2
    <3>2. m[i + 1].revision <= m[j + 1].revision
      BY <2>1, <3>1, <1>6 DEF InStep
    <3> QED BY <1>2, <3>2
  <2>8. m[n] = state
    BY <2>1, <1>1, <1>6 DEF InStep
  <2>9. ASSUME r # <<>> PROVE r[Len(r)] = state
    <3>1. Len(r) # 0
      BY <1>2, <2>9
    <3>2. n - 1 \in 1..(n - 1) /\ (n - 1) + 1 = n
      BY <1>2, <3>1
    <3> QED BY <1>2, <2>8, <3>2
  <2>10. ASSUME r = <<>> PROVE s = state
    <3>1. Len(r) = 0
      BY <2>10
    <3> QED BY <1>2, <2>8, <3>1
  <2>11. page'.revision = state.revision => page'.asked \/ page'.frame = state.revision
    BY <2>1, <1>3 DEF InStep
  <2>12. ASSUME state.status = "verified"
         PROVE  \/ page'.revision = state.revision
                \/ \E i \in 1..Len(r) :
                     r[i].status = "verified" /\ r[i].revision = state.revision
    <3>1. CASE page.revision = state.revision
      BY <3>1, <2>2, <2>4, <2>5
    <3>2. CASE \E i \in 1..n : m[i].status = "verified" /\ m[i].revision = state.revision
      <4>1. PICK i \in 1..n : m[i].status = "verified" /\ m[i].revision = state.revision
        BY <3>2
      <4>2. CASE i = 1
        BY <4>1, <4>2, <1>2, <1>3
      <4>3. CASE i # 1
        <5>1. i - 1 \in 1..(n - 1) /\ (i - 1) + 1 = i
          BY <4>3, <1>2
        <5>2. r[i - 1] = m[i] /\ i - 1 \in 1..Len(r)
          BY <5>1, <1>2
        <5> QED BY <4>1, <5>2
      <4> QED BY <4>2, <4>3
    <3> QED BY <2>1, <2>12, <3>1, <3>2, <1>6 DEF InStep
  <2> QED BY <1>3, <2>5, <2>6, <2>7, <2>9, <2>10, <2>11, <2>12 DEF InStep
<1> QED BY <1>3, <1>4, <1>7

(* An answered request shows what is newest.                               *)
LEMMA LoadKeeps ==
  ASSUME TypeOK, page.here => InStep(page, state), Load
  PROVE  page' \in Pages /\ (page'.here => InStep(page', state))
<1>1. /\ page \in Pages /\ page.here /\ state.revision \in Nat
      /\ page' = [page EXCEPT !.asked = FALSE, !.frame = state.revision]
  BY DEF Load, TypeOK, Messages
<1>2. /\ page'.mail = page.mail /\ page'.says = page.says
      /\ page'.revision = page.revision /\ page'.frame = state.revision
      /\ page' \in Pages
  BY <1>1 DEF Pages
<1> QED BY <1>1, <1>2 DEF InStep

-----------------------------------------------------------------------------
(* Every action keeps the invariant.                                       *)
USE DEF Building, Idle, Hush

LEMMA InitHolds == Init => Inv
<1> SUFFICES ASSUME Init PROVE Inv
  OBVIOUS
<1>1. TypeOK
  <2>1. page \in Pages
    <3>1. <<>> \in Seq(Messages)
      OBVIOUS
    <3> QED BY <3>1 DEF Init, Pages, Away
  <2>2. state \in Messages
    BY DEF Init, Messages, Statuses
  <2>3. left \in [saves : Nat, clobbers : Nat, visits : Nat]
    BY PreviewAssumption DEF Init
  <2>4. child \in [hash : Contents \cup {None}, epoch : Nat, signal : {None, "term", "kill"}]
    BY DEF Init, NoChild
  <2>5. closing \in [hash : Good \cup {None}, does : {"look", "rename", "keep"}]
    BY DEF Init, NoCommit
  <2>6. stop \in [asked : BOOLEAN, closed : BOOLEAN, drain : {None, "grace", "kill"},
                 done : BOOLEAN]
    BY DEF Init
  <2>7. source \in Contents /\ queued \in Contents \cup {None}
    BY PreviewAssumption DEF Init
  <2> QED BY <2>1, <2>2, <2>3, <2>4, <2>5, <2>6, <2>7 DEF Init, TypeOK
<1>2. Core
  BY DEF Init, Core, CheckingMeansWork, NoCommit, NoChild, None
<1>3. ~page.here
  BY DEF Init, Away
<1> QED BY <1>1, <1>2, <1>3 DEF Inv

LEMMA ObserveKeeps == Inv /\ Observe => Inv'
<1> SUFFICES ASSUME Inv, Observe PROVE Inv'
  OBVIOUS
<1>1. TypeOK'
  BY DEF Inv, TypeOK, Observe, Queue, NoCommit, NoChild, shown
<1>2. Core'
  BY DEF Inv, TypeOK, Core, CheckingMeansWork, Observe, Queue, NoCommit, NoChild, shown
<1>3. (page.here => InStep(page, state))'
  BY DEF Inv, Observe, Queue, NoCommit, NoChild, shown
<1> QED BY <1>1, <1>2, <1>3 DEF Inv

LEMMA LaunchKeeps == Inv /\ Launch => Inv'
<1> SUFFICES ASSUME Inv, Launch PROVE Inv'
  OBVIOUS
<1>1. CASE source # queued /\ Queue(source, "debounce") /\ Hush /\ UNCHANGED <<pending, child, failed>>
  <2>1. TypeOK'
    BY <1>1 DEF Inv, TypeOK, Launch, Queue
  <2>2. Core'
    BY <1>1 DEF Inv, TypeOK, Core, CheckingMeansWork, Launch, Queue
  <2> QED BY <1>1, <2>1, <2>2 DEF Inv
<1>2. CASE source = queued /\ timer' = "off" /\ UNCHANGED queued
  <2>1. CASE source = lastGood /\ Restore /\ UNCHANGED <<pending, child, failed>>
    <3> DEFINE t == [state EXCEPT !.status = "verified"]
    <3>1. lastGood # None /\ buffer # 0 /\ state.verified = buffer
      BY <2>1, PreviewAssumption DEF Inv, TypeOK, Core, None
    <3>2. CASE state.status # "verified"
      <4>1. Tell(t)
        BY <2>1, <3>1, <3>2 DEF Restore
      <4>2. t \in Messages /\ Follows(state, t)
        BY DEF Inv, TypeOK, Messages, Statuses, Follows
      <4>3. state' \in Messages /\ page' \in Pages /\ (page.here => InStep(page, state))'
        BY <4>1, <4>2, TellKeeps DEF Inv
      <4>4. state' = t
        BY <4>1 DEF Tell
      <4>5. TypeOK'
        BY <4>3, <2>1, <1>2 DEF Inv, TypeOK, Launch
      <4>6. Core'
        BY <4>4, <2>1, <1>2, <3>1 DEF Inv, TypeOK, Core, CheckingMeansWork, Launch, Messages
      <4> QED BY <4>3, <4>5, <4>6 DEF Inv
    <3>3. CASE state.status = "verified"
      <4>1. Hush
        BY <2>1, <3>3 DEF Restore
      <4>2. TypeOK'
        BY <4>1, <2>1, <1>2 DEF Inv, TypeOK, Launch
      <4>3. Core'
        BY <4>1, <2>1, <1>2, <3>3 DEF Inv, TypeOK, Core, CheckingMeansWork, Launch
      <4> QED BY <4>1, <4>2, <4>3 DEF Inv
    <3> QED BY <3>2, <3>3
  <2>2. CASE source # lastGood /\ Building /\ pending' = TRUE /\ Hush /\ UNCHANGED <<child, failed>>
    <3>1. TypeOK'
      BY <2>2, <1>2 DEF Inv, TypeOK, Launch
    <3>2. Core'
      BY <2>2, <1>2 DEF Inv, TypeOK, Core, CheckingMeansWork, Launch
    <3> QED BY <2>2, <3>1, <3>2 DEF Inv
  <2>3. CASE /\ child' = [hash |-> source, epoch |-> epoch, signal |-> None]
             /\ Tell(Checking) /\ UNCHANGED <<failed, pending>>
    <3>1. Checking \in Messages /\ Follows(state, Checking)
      BY DEF Inv, TypeOK, Messages, Statuses, Follows, Checking
    <3>2. state' \in Messages /\ page' \in Pages /\ (page.here => InStep(page, state))'
      BY <2>3, <3>1, TellKeeps DEF Inv
    <3>3. state' = Checking /\ child' # NoChild
      BY <2>3 DEF Tell, NoChild, Inv, Core
    <3>4. TypeOK'
      BY <3>2, <2>3, <1>2 DEF Inv, TypeOK, Launch
    <3>5. Core'
      BY <3>3, <2>3, <1>2 DEF Inv, TypeOK, Core, CheckingMeansWork, Launch, Messages, Checking
    <3> QED BY <3>2, <3>4, <3>5 DEF Inv
  <2>4. CASE /\ state' = NeedsFix /\ failed' = source
             /\ page' = IF page.here
                  THEN [page EXCEPT !.mail = Append(Append(@, Checking), NeedsFix)]
                  ELSE page
             /\ UNCHANGED <<child, pending>>
    <3>1. state' \in Messages /\ page' \in Pages /\ (page.here => InStep(page, state))'
      BY <2>4, BeginKeeps DEF Inv
    <3>2. TypeOK'
      BY <3>1, <2>4, <1>2 DEF Inv, TypeOK, Launch
    <3>3. Core'
      BY <2>4, <1>2 DEF Inv, TypeOK, Core, CheckingMeansWork, Launch, Messages, NeedsFix
    <3> QED BY <3>1, <3>2, <3>3 DEF Inv
  <2> QED BY <1>2, <2>1, <2>2, <2>3, <2>4 DEF Launch, BeginBuild
<1> QED BY <1>1, <1>2 DEF Launch

(* A handler that publishes a failure, and what it leaves of the build.    *)
LEMMA FailureKeeps ==
  ASSUME Inv, NEW h \in Contents \cup {None}, PublishFailure(h)
  PROVE  /\ state' = NeedsFix /\ page' \in Pages /\ state' \in Messages
         /\ failed' \in Contents \cup {None} /\ (page.here => InStep(page, state))'
<1>1. NeedsFix \in Messages /\ Follows(state, NeedsFix)
  BY DEF Inv, TypeOK, Messages, Statuses, Follows, NeedsFix
<1> QED BY <1>1, TellKeeps DEF Inv, PublishFailure, Tell

LEMMA RequeueTypes ==
  ASSUME TypeOK, NEW again \in BOOLEAN, NEW h \in Contents, Requeue(again, h)
  PROVE  /\ child' = NoChild /\ pending' \in BOOLEAN
         /\ queued' \in Contents \cup {None}
         /\ timer' \in {"off", "debounce", "soon"}
         /\ child' \in [hash : Contents \cup {None}, epoch : Nat,
                        signal : {None, "term", "kill"}]
         /\ again => timer' = "soon"
BY DEF TypeOK, Requeue, Queue, NoChild

LEMMA ClosedKeeps == ASSUME NEW ok \in BOOLEAN PROVE Inv /\ Closed(ok) => Inv'
<1> SUFFICES ASSUME Inv, Closed(ok) PROVE Inv'
  OBVIOUS
<1>1. CASE ok /\ ~Stale /\ closing' = [hash |-> child.hash, does |-> "look"]
           /\ Hush /\ UNCHANGED <<failed, child, pending, queued, timer>>
  <2>1. child.hash \in Good
    BY <1>1 DEF Closed
  <2>2. TypeOK'
    BY <1>1, <2>1 DEF Inv, TypeOK, Closed
  <2>3. Core'
    BY <1>1, <2>1 DEF Inv, TypeOK, Core, CheckingMeansWork, Closed
  <2> QED BY <1>1, <2>2, <2>3 DEF Inv
<1>2. CASE PublishFailure(child.hash) /\ Requeue(pending, source) /\ UNCHANGED closing
  <2>1. /\ state' = NeedsFix /\ page' \in Pages /\ state' \in Messages
        /\ failed' \in Contents \cup {None} /\ (page.here => InStep(page, state))'
    <3>1. child.hash \in Contents \cup {None}
      BY DEF Inv, TypeOK
    <3> QED BY <1>2, <3>1, FailureKeeps
  <2>2. /\ child' = NoChild /\ pending' \in BOOLEAN /\ queued' \in Contents \cup {None}
        /\ timer' \in {"off", "debounce", "soon"}
        /\ child' \in [hash : Contents \cup {None}, epoch : Nat,
                       signal : {None, "term", "kill"}]
    BY <1>2, RequeueTypes DEF Inv, TypeOK
  <2>3. TypeOK'
    BY <1>2, <2>1, <2>2 DEF Inv, TypeOK, Closed
  <2>4. Core'
    BY <1>2, <2>1 DEF Inv, TypeOK, Core, CheckingMeansWork, Closed, NeedsFix, Messages
  <2> QED BY <2>1, <2>3, <2>4 DEF Inv
<1>3. CASE Hush /\ UNCHANGED failed /\ Requeue(TRUE, source) /\ UNCHANGED closing
  <2>1. /\ child' = NoChild /\ pending' \in BOOLEAN /\ queued' \in Contents \cup {None}
        /\ timer' \in {"off", "debounce", "soon"} /\ timer' = "soon"
        /\ child' \in [hash : Contents \cup {None}, epoch : Nat,
                       signal : {None, "term", "kill"}]
    BY <1>3, RequeueTypes DEF Inv, TypeOK
  <2>2. TypeOK'
    BY <1>3, <2>1 DEF Inv, TypeOK, Closed
  <2>3. Core'
    BY <1>3, <2>1 DEF Inv, TypeOK, Core, CheckingMeansWork, Closed
  <2> QED BY <1>3, <2>2, <2>3 DEF Inv
<1> QED BY <1>1, <1>2, <1>3 DEF Closed

LEMMA LookKeeps == Inv /\ Look => Inv'
<1> SUFFICES ASSUME Inv, Look PROVE Inv'
  OBVIOUS
<1>1. CASE source # closing.hash
  <2>1. /\ child' = NoChild /\ pending' \in BOOLEAN /\ queued' \in Contents \cup {None}
        /\ timer' \in {"off", "debounce", "soon"}
        /\ child' \in [hash : Contents \cup {None}, epoch : Nat,
                       signal : {None, "term", "kill"}]
        /\ timer' = "soon"
    BY <1>1, RequeueTypes DEF Inv, TypeOK, Look
  <2>2. closing' = NoCommit /\ epoch' = epoch + 1
    BY <1>1 DEF Look
  <2>3. TypeOK'
    BY <2>1, <2>2 DEF Inv, TypeOK, Look, NoCommit, shown
  <2>4. Core'
    BY <2>1, <2>2 DEF Inv, TypeOK, Core, CheckingMeansWork, Look, NoCommit, shown
  <2> QED BY <2>3, <2>4 DEF Inv, Look, shown
<1>2. CASE source = closing.hash
  <2>1. /\ closing' = [closing EXCEPT !.does =
              IF state.verified = Drawing[closing.hash] /\ output = Drawing[closing.hash]
              THEN "keep" ELSE "rename"]
        /\ UNCHANGED <<epoch, child, pending, queued, timer>>
    BY <1>2 DEF Look
  <2>2. /\ closing'.hash = closing.hash /\ closing' # NoCommit
        /\ closing'.does = "keep" => state.verified = Drawing[closing.hash]
    BY <2>1 DEF Inv, TypeOK, NoCommit
  <2>3. TypeOK'
    BY <2>1 DEF Inv, TypeOK, Look, shown
  <2>4. Core'
    BY <2>1, <2>2 DEF Inv, TypeOK, Core, CheckingMeansWork, Look, shown
  <2> QED BY <2>3, <2>4 DEF Inv, Look, shown
<1> QED BY <1>1, <1>2

LEMMA RefusedKeeps == Inv /\ Refused => Inv'
<1> SUFFICES ASSUME Inv, Refused PROVE Inv'
  OBVIOUS
<1>1. /\ state' = NeedsFix /\ page' \in Pages /\ state' \in Messages
      /\ failed' \in Contents \cup {None} /\ (page.here => InStep(page, state))'
  <2>1. closing.hash \in Contents \cup {None}
    BY PreviewAssumption DEF Inv, TypeOK
  <2> QED BY <2>1, FailureKeeps DEF Refused
<1>2. /\ child' = NoChild /\ pending' \in BOOLEAN /\ queued' \in Contents \cup {None}
        /\ timer' \in {"off", "debounce", "soon"}
        /\ child' \in [hash : Contents \cup {None}, epoch : Nat,
                       signal : {None, "term", "kill"}]
  BY RequeueTypes DEF Inv, TypeOK, Refused
<1>3. TypeOK'
  BY <1>1, <1>2 DEF Inv, TypeOK, Refused, NoCommit
<1>4. Core'
  BY <1>1, <1>2 DEF Inv, TypeOK, Core, CheckingMeansWork, Refused, NoCommit, NeedsFix, Messages
<1> QED BY <1>1, <1>3, <1>4 DEF Inv

LEMMA PublishKeeps == Inv /\ Publish => Inv'
<1> SUFFICES ASSUME Inv, Publish PROVE Inv'
  OBVIOUS
<1> DEFINE drawn == Drawing[closing.hash]
           t == [status |-> "verified", verified |-> drawn,
                 revision |-> state.revision + (IF state.verified = drawn THEN 0 ELSE 1)]
<1>1. closing.hash \in Good /\ drawn \in Nat /\ drawn # 0 /\ state.revision \in Nat
  BY PreviewAssumption DEF Inv, TypeOK, Core, Publish, Messages
<1>2. /\ output' = (IF closing.does = "rename" THEN drawn ELSE output)
      /\ buffer' = drawn /\ lastGood' = closing.hash /\ Tell(t)
      /\ closing' = NoCommit
  BY DEF Publish, Served
<1>3. output' \in {0, drawn}
  <2>1. closing.does = "rename" \/ closing.does = "keep"
    BY DEF Inv, TypeOK, Publish
  <2> QED BY <1>2, <2>1 DEF Inv, Core
<1>4. /\ child' = NoChild /\ pending' \in BOOLEAN /\ queued' \in Contents \cup {None}
        /\ timer' \in {"off", "debounce", "soon"}
        /\ child' \in [hash : Contents \cup {None}, epoch : Nat,
                       signal : {None, "term", "kill"}]
  BY RequeueTypes, PreviewAssumption DEF Inv, TypeOK, Publish
<1>5. t \in Messages /\ Follows(state, t) /\ t.revision \in Nat
      /\ t.status = "verified" /\ t.verified = drawn
  BY <1>1 DEF Messages, Statuses, Follows
<1>6. t.revision > 0
  <2>1. CASE state.verified = drawn
    BY <2>1, <1>1 DEF Inv, Core
  <2>2. CASE state.verified # drawn
    BY <2>2, <1>1
  <2> QED BY <2>1, <2>2
<1>7. state' = t
  BY <1>2 DEF Tell
<1>8. state' \in Messages /\ page' \in Pages /\ (page.here => InStep(page, state))'
  BY <1>2, <1>5, TellKeeps DEF Inv
<1> HIDE DEF t
<1>9. TypeOK'
  BY <1>1, <1>2, <1>3, <1>4, <1>8 DEF Inv, TypeOK, Publish, NoCommit
<1>10. Core'
  BY <1>1, <1>2, <1>3, <1>5, <1>6, <1>7 DEF Inv, TypeOK, Core, CheckingMeansWork, Publish, NoCommit
<1> QED BY <1>8, <1>9, <1>10 DEF Inv

LEMMA StopKeeps == Inv /\ Stop => Inv'
<1> SUFFICES ASSUME Inv, Stop PROVE Inv'
  OBVIOUS
<1>1. page' \in Pages /\ ~page'.here
  BY DEF Inv, TypeOK, Pages, Stop
<1>2. stop' \in [asked : BOOLEAN, closed : BOOLEAN, drain : {None, "grace", "kill"},
                done : BOOLEAN] /\ stop'.asked
  BY DEF Inv, TypeOK, Stop
<1>3. TypeOK'
  BY <1>1, <1>2 DEF Inv, TypeOK, Stop, shown
<1>4. Core'
  BY <1>2 DEF Inv, TypeOK, Core, CheckingMeansWork, Stop, shown
<1> QED BY <1>1, <1>3, <1>4 DEF Inv

LEMMA ForceStopKeeps == Inv /\ ForceStop => Inv'
<1> SUFFICES ASSUME Inv, ForceStop PROVE Inv'
  OBVIOUS
<1>1. /\ stop' \in [asked : BOOLEAN, closed : BOOLEAN, drain : {None, "grace", "kill"},
                   done : BOOLEAN]
      /\ stop'.asked /\ staging' \in BOOLEAN
  BY ZenonT(30) DEF Inv, TypeOK, ForceStop, FinishStop
<1>2. child' \in [hash : Contents \cup {None}, epoch : Nat, signal : {None, "term", "kill"}]
  BY DEF Inv, TypeOK, ForceStop, NoChild, build
<1>3. Idle
  BY DEF Inv, Core, ForceStop
<1>4. TypeOK'
  BY <1>1, <1>2 DEF Inv, TypeOK, ForceStop, shown, build
<1>5. Core'
  BY <1>1, <1>3 DEF Inv, TypeOK, Core, CheckingMeansWork, ForceStop, shown, build, NoCommit
<1> QED BY <1>4, <1>5 DEF Inv, ForceStop, shown, build

LEMMA DrainKeeps == Inv /\ Drain => Inv'
<1> SUFFICES ASSUME Inv, Drain PROVE Inv'
  OBVIOUS
<1>1. /\ stop' \in [asked : BOOLEAN, closed : BOOLEAN, drain : {None, "grace", "kill"},
                   done : BOOLEAN]
      /\ stop'.asked /\ staging' \in BOOLEAN
  BY DEF Inv, TypeOK, Drain
<1>2. child' \in [hash : Contents \cup {None}, epoch : Nat, signal : {None, "term", "kill"}]
  BY DEF Inv, TypeOK, Drain, NoChild, build
<1>3. Idle
  BY DEF Inv, Core, Drain
<1>4. TypeOK'
  BY <1>1, <1>2 DEF Inv, TypeOK, Drain, shown, build
<1>5. Core'
  BY <1>1, <1>3 DEF Inv, TypeOK, Core, CheckingMeansWork, Drain, shown, build, NoCommit
<1> QED BY <1>4, <1>5 DEF Inv, Drain, shown, build

LEMMA DrainedKeeps == Inv /\ Drained => Inv'
<1> SUFFICES ASSUME Inv, Drained PROVE Inv'
  OBVIOUS
<1>1. /\ stop' \in [asked : BOOLEAN, closed : BOOLEAN, drain : {None, "grace", "kill"},
                   done : BOOLEAN]
      /\ stop'.asked /\ staging' \in BOOLEAN
  BY ZenonT(30) DEF Inv, TypeOK, Drained
<1>2. child' \in [hash : Contents \cup {None}, epoch : Nat, signal : {None, "term", "kill"}]
  BY DEF Inv, TypeOK, Drained, NoChild, build
<1>3. Idle
  BY DEF Inv, Core, Drained
<1>4. TypeOK'
  BY <1>1, <1>2 DEF Inv, TypeOK, Drained, shown, build
<1>5. Core'
  BY <1>1, <1>3 DEF Inv, TypeOK, Core, CheckingMeansWork, Drained, shown, build, NoCommit
<1> QED BY <1>4, <1>5 DEF Inv, Drained, shown, build

LEMMA ServerClosedKeeps == Inv /\ ServerClosed => Inv'
<1> SUFFICES ASSUME Inv, ServerClosed PROVE Inv'
  OBVIOUS
<1>1. /\ stop' \in [asked : BOOLEAN, closed : BOOLEAN, drain : {None, "grace", "kill"},
                   done : BOOLEAN]
      /\ stop'.asked /\ staging' \in BOOLEAN
  BY ZenonT(30) DEF Inv, TypeOK, ServerClosed, FinishStop
<1>2. child' \in [hash : Contents \cup {None}, epoch : Nat, signal : {None, "term", "kill"}]
  BY DEF Inv, TypeOK, ServerClosed, NoChild, build
<1>3. Idle
  BY DEF Inv, Core, ServerClosed
<1>4. TypeOK'
  BY <1>1, <1>2 DEF Inv, TypeOK, ServerClosed, shown, build
<1>5. Core'
  BY <1>1, <1>3 DEF Inv, TypeOK, Core, CheckingMeansWork, ServerClosed, shown, build, NoCommit
<1> QED BY <1>4, <1>5 DEF Inv, ServerClosed, shown, build

LEMMA VisitHolds == Inv /\ Visit => Inv'
<1> SUFFICES ASSUME Inv, Visit PROVE Inv'
  OBVIOUS
<1>1. page' \in Pages /\ (page'.here => InStep(page', state')) /\ state' = state
  BY VisitKeeps DEF Inv, Visit, shown
<1>2. TypeOK'
  BY <1>1 DEF Inv, TypeOK, Visit, shown, build
<1>3. Core'
  BY DEF Inv, TypeOK, Core, CheckingMeansWork, Visit, shown, build
<1> QED BY <1>1, <1>2, <1>3 DEF Inv

LEMMA RenderHolds == Inv /\ Render => Inv'
<1> SUFFICES ASSUME Inv, Render PROVE Inv'
  OBVIOUS
<1>1. page' \in Pages /\ (page'.here => InStep(page', state')) /\ state' = state
  BY RenderKeeps DEF Inv, Render, shown
<1>2. TypeOK'
  BY <1>1 DEF Inv, TypeOK, Render, shown, build
<1>3. Core'
  BY DEF Inv, TypeOK, Core, CheckingMeansWork, Render, shown, build
<1> QED BY <1>1, <1>2, <1>3 DEF Inv

LEMMA LoadHolds == Inv /\ Load => Inv'
<1> SUFFICES ASSUME Inv, Load PROVE Inv'
  OBVIOUS
<1>1. page' \in Pages /\ (page'.here => InStep(page', state')) /\ state' = state
  BY LoadKeeps DEF Inv, Load, shown
<1>2. TypeOK'
  BY <1>1 DEF Inv, TypeOK, Load, shown, build
<1>3. Core'
  BY DEF Inv, TypeOK, Core, CheckingMeansWork, Load, shown, build
<1> QED BY <1>1, <1>2, <1>3 DEF Inv

LEMMA SaveKeeps == Inv /\ Save => Inv'
<1> SUFFICES ASSUME Inv, Save PROVE Inv'
  OBVIOUS
<1>1. TypeOK'
  BY DEF Inv, TypeOK, Save, build, shown
<1>2. Core'
  BY DEF Inv, TypeOK, Core, CheckingMeansWork, Save, build, shown
<1>3. (page.here => InStep(page, state))'
  BY DEF Inv, Save, build, shown
<1> QED BY <1>1, <1>2, <1>3 DEF Inv

LEMMA ClobberKeeps == Inv /\ Clobber => Inv'
<1> SUFFICES ASSUME Inv, Clobber PROVE Inv'
  OBVIOUS
<1>1. TypeOK'
  BY DEF Inv, TypeOK, Clobber, build, shown
<1>2. Core'
  BY DEF Inv, TypeOK, Core, CheckingMeansWork, Clobber, build, shown
<1>3. (page.here => InStep(page, state))'
  BY DEF Inv, Clobber, build, shown
<1> QED BY <1>1, <1>2, <1>3 DEF Inv

LEMMA StutterKeeps == Inv /\ UNCHANGED vars => Inv'
BY DEF Inv, TypeOK, Core, CheckingMeansWork, InStep, vars, shown, build

-----------------------------------------------------------------------------
(* The inductive invariant, from which the rest follows.                   *)
THEOREM PreviewStays == Spec => []Inv
<1>1. Inv /\ [Next]_vars => Inv'
  BY ObserveKeeps, LaunchKeeps, ClosedKeeps, LookKeeps, RefusedKeeps, PublishKeeps,
     StopKeeps, ForceStopKeeps, DrainKeeps, DrainedKeeps, ServerClosedKeeps,
     VisitHolds, RenderHolds, LoadHolds, SaveKeeps, ClobberKeeps, StutterKeeps
     DEF Next, Ended
<1> QED BY <1>1, InitHolds, PTL DEF Spec

(* The state of the preview has its type, whatever happens around it.      *)
THEOREM TypeCorrect == Spec => []TypeOK
<1>1. Inv => TypeOK
  BY DEF Inv
<1> QED BY <1>1, PreviewStays, PTL

(* What is served was delivered from a source that passed, and the output  *)
(* file holds nothing else unless somebody else wrote it                   *)
(* (preview.mjs:442, commitCandidate): for any saves at any moment.        *)
THEOREM ServesWhatIsVerified == Spec => []ServedIsVerified
<1>1. Inv => ServedIsVerified
  <2> SUFFICES ASSUME Inv PROVE ServedIsVerified
    OBVIOUS
  <2> QED BY DEF Inv, Core, ServedIsVerified
<1> QED BY <1>1, PreviewStays, PTL

(* A page that has read its mail shows the state and, once the state is    *)
(* good, its newest revision; it waits only while somebody is at work.     *)
THEOREM PagesTellTheTruth == Spec => []PageTellsTheTruth
<1>1. Inv => PageTellsTheTruth
  <2> SUFFICES ASSUME Inv PROVE PageTellsTheTruth
    OBVIOUS
  <2>1. CheckingMeansWork
    BY DEF Inv, Core
  <2>2. ASSUME page.here, page.mail = <<>>, ~page.asked
        PROVE  /\ page.says = state.status
               /\ page.says = "verified" => page.frame = state.revision
    <3>1. InStep(page, state) /\ Len(page.mail) = 0
      BY <2>2 DEF Inv
    <3>2. ~\E i \in 1..Len(page.mail) : TRUE
      BY <3>1
    <3> QED BY <2>2, <3>1, <3>2 DEF InStep
  <2> QED BY <2>1, <2>2 DEF PageTellsTheTruth, PageIsCurrent
<1> QED BY <1>1, PreviewStays, PTL
=============================================================================
