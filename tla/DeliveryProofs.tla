--------------------------- MODULE DeliveryProofs ---------------------------
(***************************************************************************)
(* Theorems about what stands before and after a build of a job: the state *)
(* machine of the job and its durable boundary, for every lesson, plan and *)
(* number of attempts; the choice of takes, for every set of take numbers  *)
(* and of wordings; the review and the release of a package, for any       *)
(* number of reviewers, releasers, keys and generations.                   *)
(***************************************************************************)
EXTENDS JobLifecycle, ReviewRelease, TakeSelection, SequenceTheorems, WellFoundedInduction, TLAPS

-----------------------------------------------------------------------------
(* The job.  A document in memory is job.json, or one method away from it, or the
   unsaved next attempt; what a document says of itself is kept by every edge. *)

\* What holds of any document by itself, built or saved.
Sound(d) == ValidateDocument(d) /\ (d.preview # None => d.preview.plan = d.plan)

\* What the boundary asks of a document beside the one it replaces.
Replaces(d, former) ==
    IF former = None THEN ValidateInitialState(d) ELSE ValidateReplacement(former, d)

JobInv ==
    /\ JobTypeOK
    /\ doc # None => Sound(doc)
    /\ job # None => Sound(job)
    /\ doc # None => doc = job \/ Replaces(doc, job)

-----------------------------------------------------------------------------
(* The machine. *)

\* Where the edges lead: failure and cancellation are entered from the states that
\* coherence names, and what has rendered stays rendered until it is planned anew.
LEMMA Edges ==
  ASSUME NEW s \in JobState, NEW next, next \in Successors[s]
  PROVE  /\ next \in JobState
         /\ next = "Failed" => s \in {"Rendering", "Verifying", "Assembling"}
         /\ next = "Cancelled" => s = "Rendering"
         /\ HasRendered(s) /\ next \notin {"Planned", "Failed"} => HasRendered(next)
         /\ s = "Failed" => next \in {"Verifying", "Planned"}
         /\ s = "Cancelled" => next = "Planned"
         /\ s = "Created" => next = "Validated"
         /\ s = "Validated" => next = "Planned"
  <1>1. Successors[s] =
          CASE s = "Created"        -> {"Validated"}
            [] s = "Validated"      -> {"Planned"}
            [] s = "Planned"        -> {"Rendering"}
            [] s = "Rendering"      -> {"Rendering", "Rendered", "Failed", "Cancelled"}
            [] s = "Rendered"       -> {"Verifying"}
            [] s = "Verifying"      -> {"Verifying", "Verified", "NeedsReview", "Failed"}
            [] s = "Verified"       -> {"Assembling", "Verifying"}
            [] s = "NeedsReview"    -> {"Verified", "Planned"}
            [] s = "Assembling"     -> {"QualityChecked", "Failed"}
            [] s = "QualityChecked" -> {"Published"}
            [] s = "Failed"         -> {"Verifying", "Planned"}
            [] s = "Cancelled"      -> {"Planned"}
            [] s = "Published"      -> {}
    BY DEF Successors
  <1>2. CASE s \in {"Created", "Validated", "Planned", "Rendering"}
    BY <1>1, <1>2 DEF JobState, HasRendered
  <1>3. CASE s \in {"Rendered", "Verifying", "Verified", "NeedsReview"}
    BY <1>1, <1>3 DEF JobState, HasRendered
  <1>4. CASE s \in {"Assembling", "QualityChecked", "Failed", "Cancelled", "Published"}
    BY <1>1, <1>4 DEF JobState, HasRendered
  <1> QED BY <1>2, <1>3, <1>4 DEF JobState

\* The first attempt, or the next one over what job.json holds.
LEMMA OpenAttemptIsSound ==
  ASSUME NEW d \in Document \cup {None}, NEW lesson \in Lesson, NEW plan \in Plan,
         ~AttemptOverflows(d)
  PROVE  /\ OpenAttempt(d, lesson, plan) \in Document
         /\ Sound(OpenAttempt(d, lesson, plan))
         /\ Replaces(OpenAttempt(d, lesson, plan), d)
  <1> DEFINE new == OpenAttempt(d, lesson, plan)
  <1>1. CASE d = None
    <2>1. /\ new.attempt = 1 /\ new.state = "Created" /\ new.last = "Created"
          /\ new.abandoned = None /\ new.preview = None
      BY <1>1 DEF OpenAttempt
    <2>2. new \in Document
      BY <1>1, MaxAttemptAssumption
         DEF OpenAttempt, Document, Attempt, JobState, ReleaseStatus
    <2>3. Sound(new)
      BY <2>1 DEF Sound, ValidateDocument, AttemptsAreCoherent, StatesAreCoherent
    <2> QED BY <1>1, <2>1, <2>2, <2>3 DEF Replaces, ValidateInitialState
  <1>2. CASE d # None
    <2> DEFINE left == [attempt |-> d.attempt, state |-> d.state]
    <2>1. d \in Document /\ d.attempt \in Attempt /\ d.attempt # MaxAttempt /\ d.state \in JobState
      BY <1>2 DEF Document, AttemptOverflows
    <2>2. left \in AbandonedAttempt /\ left # None
      BY <2>1, AbsenceAssumption DEF AbandonedAttempt
    <2>3. d.attempt + 1 \in Attempt /\ d.attempt + 1 # d.attempt
      BY <2>1, MaxAttemptAssumption DEF Attempt
    <2>4. /\ new.attempt = d.attempt + 1 /\ new.state = "Created" /\ new.last = "Created"
          /\ new.abandoned = left /\ new.preview = None
      BY <1>2 DEF OpenAttempt
    <2>5. new \in Document
      BY <1>2, <2>2, <2>3 DEF OpenAttempt, Document, JobState, ReleaseStatus
    <2>6. Sound(new)
      BY <2>2, <2>4 DEF Sound, ValidateDocument, AttemptsAreCoherent, StatesAreCoherent
    <2>7. Replaces(new, d)
      BY <1>2, <2>3, <2>4 DEF Replaces, ValidateReplacement, ValidateInitialState
    <2> QED BY <2>5, <2>6, <2>7
  <1> QED BY <1>1, <1>2

\* An edge of the machine leads from a sound document to a sound document.
LEMMA TransitionIsSound ==
  ASSUME NEW d \in Document, Sound(d), NEW next, TransitionAllowed(d, next)
  PROVE  /\ Transition(d, next) \in Document
         /\ Sound(Transition(d, next))
         /\ Transition(d, next).state = next
         /\ Transition(d, next).attempt = d.attempt
         /\ Transition(d, next).abandoned = d.abandoned
  <1> DEFINE new == Transition(d, next)
  <1>1. d.state \in JobState /\ next \in Successors[d.state] /\ next \in JobState
    BY Edges DEF Document, TransitionAllowed, MayTransitionTo
  <1>2. /\ new.state = next
        /\ new.last = IF next \in {"Failed", "Cancelled"} THEN d.last ELSE next
        /\ new.preview = IF next = "Planned" THEN None ELSE d.preview
        /\ new.attempt = d.attempt /\ new.abandoned = d.abandoned
        /\ new.plan = d.plan /\ new.release = d.release
    BY DEF Transition, Document
  <1>3. new \in Document
    BY <1>1 DEF Transition, Document
  <1>4. StatesAreCoherent(new.state, new.last)
    BY <1>1, <1>2, Edges DEF Sound, ValidateDocument, StatesAreCoherent
  <1>5. new.preview # None => HasRendered(new.last)
    <2> SUFFICES ASSUME new.preview # None PROVE HasRendered(new.last)
      OBVIOUS
    <2>1. HasRendered(d.last) /\ next # "Planned"
      BY <1>2 DEF Sound, ValidateDocument
    <2>2. CASE next \in {"Failed", "Cancelled"}
      BY <1>2, <2>1, <2>2
    <2>3. CASE next \notin {"Failed", "Cancelled"}
      <3>1. CASE d.state \in {"Failed", "Cancelled"}
        BY <1>1, <1>2, <2>1, <2>3, <3>1, Edges DEF HasRendered
      <3>2. CASE d.state \notin {"Failed", "Cancelled"}
        <4>1. d.state = d.last
          BY <3>2 DEF Sound, ValidateDocument, StatesAreCoherent
        <4> QED BY <1>1, <1>2, <2>1, <2>3, <4>1, Edges
      <3> QED BY <3>1, <3>2
    <2> QED BY <2>2, <2>3
  <1>6. Sound(new)
    BY <1>2, <1>4, <1>5
       DEF Sound, ValidateDocument, AttemptsAreCoherent, TransitionAllowed
  <1> QED BY <1>2, <1>3, <1>6

-----------------------------------------------------------------------------
(* The invariant, action by action. *)

\* The next attempt replaces what job.json holds.
LEMMA OpenKeeps ==
  ASSUME JobInv, NEW lesson \in Lesson, NEW plan \in Plan, Open(lesson, plan) PROVE JobInv'
  BY OpenAttemptIsSound DEF Open, JobInv, JobTypeOK

\* One edge away from job.json, or further along in an attempt that is not saved.
LEMMA MoveKeeps == ASSUME JobInv, NEW next \in JobState, Move(next) PROVE JobInv'
  <1>1. doc \in Document /\ Sound(doc) /\ TransitionAllowed(doc, next)
    BY DEF Move, JobInv, JobTypeOK
  <1>2. /\ doc' = Transition(doc, next) /\ doc' \in Document /\ Sound(doc')
        /\ doc'.state = next /\ doc'.attempt = doc.attempt /\ doc'.abandoned = doc.abandoned
    BY <1>1, TransitionIsSound DEF Move
  <1>3. Replaces(doc', job)
    <2>1. CASE doc = job
      BY <1>1, <1>2, <2>1 DEF Move, Replaces, ValidateReplacement, TransitionAllowed
    <2>2. CASE doc # job
      <3>1. /\ ~AttemptIsSaved /\ Replaces(doc, job)
            /\ doc.state \in {"Created", "Validated"}
        BY <2>2 DEF Move, JobInv
      <3>2. next \in {"Validated", "Planned"}
        BY <1>1, <3>1, Edges DEF Document, TransitionAllowed, MayTransitionTo, JobState
      <3>3. CASE job = None
        BY <1>2, <3>2, <3>3 DEF Replaces, ValidateInitialState
      <3>4. CASE job # None
        BY <1>2, <3>1, <3>2, <3>4
           DEF AttemptIsSaved, Replaces, ValidateReplacement, ValidateInitialState
      <3> QED BY <3>3, <3>4
    <2> QED BY <2>1, <2>2
  <1> QED BY <1>2, <1>3 DEF Move, JobInv, JobTypeOK

\* A segment's status touches neither state nor attempt.
LEMMA RecordSegmentKeeps ==
  ASSUME JobInv, NEW i \in Segments, RecordSegment(i) PROVE JobInv'
  <1> DEFINE moved == Transition(doc, "Rendering")
  <1>1. doc \in Document /\ Sound(doc) /\ TransitionAllowed(doc, "Rendering") /\ doc = job
    BY DEF RecordSegment, JobInv, JobTypeOK
  <1>2. /\ moved \in Document /\ Sound(moved) /\ moved.state = "Rendering"
        /\ moved.attempt = doc.attempt /\ moved.abandoned = doc.abandoned
    BY <1>1, TransitionIsSound
  <1>3. doc' = [moved EXCEPT !.segments = @ \cup {i}]
    BY DEF RecordSegment, WithSegment
  <1> HIDE DEF moved
  <1>4. doc' \in Document
    BY <1>2, <1>3 DEF Document
  <1>5. /\ doc'.state = moved.state /\ doc'.last = moved.last /\ doc'.preview = moved.preview
        /\ doc'.attempt = moved.attempt /\ doc'.abandoned = moved.abandoned
        /\ doc'.plan = moved.plan /\ doc'.release = moved.release
    BY <1>2, <1>3 DEF Document
  <1>6. Sound(doc')
    BY <1>2, <1>5 DEF Sound, ValidateDocument, AttemptsAreCoherent
  <1>7. Replaces(doc', job)
    BY <1>1, <1>2, <1>5 DEF RecordSegment, Replaces, ValidateReplacement
  <1> QED BY <1>4, <1>6, <1>7 DEF RecordSegment, JobInv, JobTypeOK

\* The package is of the plan, and the attempt has rendered.
LEMMA RecordPreviewKeeps ==
  ASSUME JobInv, NEW m \in Manifest, RecordPreview(m) PROVE JobInv'
  <1>1. doc \in Document /\ Sound(doc) /\ doc = job
    BY DEF RecordPreview, JobInv, JobTypeOK
  <1>2. doc' = [doc EXCEPT !.preview = m] /\ m.plan = doc.plan /\ HasRendered(doc.last)
    BY DEF RecordPreview, WithPreviewPackage
  <1>3. doc' \in Document
    BY <1>1, <1>2 DEF Document
  <1>4. /\ doc'.preview = m /\ doc'.state = doc.state /\ doc'.last = doc.last
        /\ doc'.attempt = doc.attempt /\ doc'.abandoned = doc.abandoned
        /\ doc'.plan = doc.plan /\ doc'.release = doc.release
    BY <1>1, <1>2 DEF Document
  <1>5. Sound(doc')
    BY <1>1, <1>2, <1>4 DEF Sound, ValidateDocument, AttemptsAreCoherent
  <1>6. Replaces(doc', job)
    BY <1>1, <1>4 DEF RecordPreview, Replaces, ValidateReplacement
  <1> QED BY <1>3, <1>5, <1>6 DEF RecordPreview, JobInv, JobTypeOK

\* Memory and disk agree.
LEMMA SaveKeeps == ASSUME JobInv, Save PROVE JobInv'
  BY DEF Save, JobInv, JobTypeOK

-----------------------------------------------------------------------------
(* The theorems. *)

\* A document in memory is sound, and is job.json or may replace it.
THEOREM JobInvariant == JobSpec => []JobInv
  <1>1. JobInit => JobInv
    BY DEF JobInit, JobInv, JobTypeOK
  <1>2. ASSUME JobInv, [JobNext]_jobVars PROVE JobInv'
    <2>1. CASE UNCHANGED jobVars
      BY <1>2, <2>1 DEF jobVars, JobInv, JobTypeOK
    <2> QED
      BY <1>2, <2>1, OpenKeeps, MoveKeeps, RecordSegmentKeeps, RecordPreviewKeeps, SaveKeeps
         DEF JobNext
  <1> QED BY <1>1, <1>2, PTL DEF JobSpec

\* On every path of the machine, through failures, cancellations, reviews and new
\* attempts, validate_document and validate_replacement accept what open_attempt,
\* transition, with_segment and with_preview_package built, no attempt is numbered past
\* u32::MAX, and a recorded package is of the document's own plan.
THEOREM LifecycleCoheres == JobSpec => []LifecycleIsCoherent
  <1>1. JobInv => LifecycleIsCoherent
    BY DEF JobInv, LifecycleIsCoherent, BoundaryAccepts, SaveAllowed, Replaces, Sound,
           PreviewIsOfThePlan, ValidateDocument
  <1> QED BY <1>1, JobInvariant, PTL

-----------------------------------------------------------------------------
(* Review and release.  What is released was accepted by somebody for that very
   manifest, and a pruning report spares what its roots refer to, although neither
   takes a lock. *)

Accepts(m, a) == a \in recorded /\ a.manifest = m /\ a.disposition = "accepted"

\* The packages, the selection and what refers to them.
PackagesTyped ==
    /\ entries \subseteq CacheKeys
    /\ generations \in Seq(SUBSET CacheKeys) /\ Len(generations) <= MaxGenerations
    /\ selected \in 0 .. Len(generations)
    /\ releasers \in [Releasers -> [at : {"idle", "approval", "release"}, manifest : Nat,
                                    approval : Seq(ApprovalRecord)]]

\* A recorded decision is of a published manifest, and lies under its manifest's name.
DecisionsAreNamed ==
    /\ recorded \subseteq ApprovalRecord
    /\ \A a \in recorded : a.manifest \in Published
    /\ DOMAIN approvals = 1 .. MaxGenerations
    /\ \A m \in 1 .. MaxGenerations :
          approvals[m] # <<>> => \E a \in recorded : approvals[m] = <<a>> /\ a.manifest = m

\* Who is about to release has read a decision that accepts.
ReleasersKnow ==
    \A r \in Releasers :
        /\ releasers[r].at = "approval" => releasers[r].manifest \in Published
        /\ releasers[r].at = "release" =>
              \E a \in recorded : releasers[r].approval = <<a>> /\ Accepts(releasers[r].manifest, a)

ReleaseIsBacked ==
    release # <<>> =>
        \E a \in recorded : release = <<[manifest |-> a.manifest, approval |-> a]>> /\ Accepts(a.manifest, a)

\* A report in the making holds every key its roots refer to.
RootsAreLive ==
    /\ pruner.roots \in 0 .. Len(generations)
    /\ pruner.at # "idle" => \A m \in 1 .. pruner.roots : generations[m] \subseteq pruner.live
    /\ pruner.at = "reported" => pruner.candidates \cap pruner.live = {}

ReviewInv ==
    PackagesTyped /\ DecisionsAreNamed /\ ReleasersKnow /\ ReleaseIsBacked /\ RootsAreLive

-----------------------------------------------------------------------------
(* The invariant, action by action. *)

LEMMA ReviewInitHolds == ReviewInit => ReviewInv
  BY GenerationsAssumption
     DEF ReviewInit, ReviewInv, PackagesTyped, DecisionsAreNamed, ReleasersKnow, ReleaseIsBacked,
         RootsAreLive, Idle, NoReport

\* A step that changes none of the packages, decisions, releases and reports keeps all
\* that is said of them.
LEMMA BesideTheReview ==
  ASSUME ReviewInv,
         UNCHANGED <<generations, approvals, recorded, release, releasers, pruner>>,
         entries' \subseteq CacheKeys, selected' \in 0 .. Len(generations)
  PROVE  ReviewInv'
  BY DEF ReviewInv, PackagesTyped, DecisionsAreNamed, ReleasersKnow, ReleaseIsBacked, RootsAreLive,
         Accepts, Published

\* A package is added, and those that are there stay what they are.
LEMMA PublishKeeps == ASSUME ReviewInv, PublishPackage PROVE ReviewInv'
<1>1. PICK keys \in SUBSET entries : generations' = Append(generations, keys)
  BY DEF PublishPackage
<1>2. /\ generations \in Seq(SUBSET CacheKeys) /\ keys \in SUBSET CacheKeys
  BY DEF ReviewInv, PackagesTyped
<1>3. /\ generations' \in Seq(SUBSET CacheKeys)
      /\ Len(generations') = Len(generations) + 1
      /\ DOMAIN generations \subseteq DOMAIN generations'
      /\ \A m \in DOMAIN generations : generations'[m] = generations[m]
  BY <1>1, <1>2
<1>4. DOMAIN generations = 1 .. Len(generations) /\ Len(generations) \in Nat
  BY <1>2
<1>5. UNCHANGED <<selected, approvals, recorded, release, releasers, entries, pruner>>
  BY DEF PublishPackage
<1>6. PackagesTyped'
  BY <1>3, <1>4, <1>5, GenerationsAssumption DEF ReviewInv, PackagesTyped, PublishPackage
<1>7. DecisionsAreNamed'
  BY <1>3, <1>5 DEF ReviewInv, DecisionsAreNamed, Published
<1>8. ReleasersKnow' /\ ReleaseIsBacked'
  BY <1>3, <1>5 DEF ReviewInv, ReleasersKnow, ReleaseIsBacked, Accepts, Published
<1>9. RootsAreLive'
  BY <1>3, <1>4, <1>5 DEF ReviewInv, RootsAreLive
<1> QED
  BY <1>6, <1>7, <1>8, <1>9 DEF ReviewInv

\* A decision replaces the document of its manifest; the decision it replaces stays
\* on record, and so does what a releaser has read of it.
LEMMA ApproveKeeps == ASSUME ReviewInv, ApprovePreview PROVE ReviewInv'
<1>1. PICK a \in ApprovalRecord :
        /\ a.manifest \in Published
        /\ approvals' = [approvals EXCEPT ![a.manifest] = <<a>>]
        /\ recorded' = recorded \cup {a}
  BY DEF ApprovePreview, ApprovalPath, Only
<1>2. UNCHANGED <<generations, selected, release, releasers, entries, pruner>>
  BY DEF ApprovePreview
<1>3. DecisionsAreNamed'
  BY <1>1, <1>2 DEF ReviewInv, DecisionsAreNamed, Published
<1>4. ReleasersKnow' /\ ReleaseIsBacked'
  BY <1>1, <1>2 DEF ReviewInv, ReleasersKnow, ReleaseIsBacked, Accepts, Published
<1> QED
  BY <1>2, <1>3, <1>4 DEF ReviewInv, PackagesTyped, RootsAreLive

\* What one releaser does to its own place, given what it then knows.
LEMMA OneReleaserMoves ==
  ASSUME ReviewInv, NEW r \in Releasers,
         NEW place \in [at : {"idle", "approval", "release"}, manifest : Nat, approval : Seq(ApprovalRecord)],
         releasers' = [releasers EXCEPT ![r] = place],
         place.at = "approval" => place.manifest \in Published,
         place.at = "release" => \E a \in recorded : place.approval = <<a>> /\ Accepts(place.manifest, a),
         UNCHANGED <<generations, selected, approvals, recorded, entries, pruner>>
  PROVE  PackagesTyped' /\ DecisionsAreNamed' /\ ReleasersKnow' /\ RootsAreLive'
<1>1. PackagesTyped'
  BY DEF ReviewInv, PackagesTyped
<1>2. ReleasersKnow'
  BY DEF ReviewInv, PackagesTyped, ReleasersKnow, Accepts, Published
<1> QED
  BY <1>1, <1>2 DEF ReviewInv, DecisionsAreNamed, RootsAreLive, Published

LEMMA IdleTyped ==
  Idle \in [at : {"idle", "approval", "release"}, manifest : Nat, approval : Seq(ApprovalRecord)]
  BY DEF Idle

LEMMA ReadCurrentKeeps == ASSUME ReviewInv, NEW r \in Releasers, ReadCurrent(r) PROVE ReviewInv'
<1> DEFINE place == [Idle EXCEPT !.at = "approval", !.manifest = selected]
<1>1. releasers' = [releasers EXCEPT ![r] = place]
  BY DEF ReadCurrent
<1>2. selected \in Nat /\ selected \in Published
  BY DEF ReadCurrent, ReviewInv, PackagesTyped, Published
<1>3. /\ place \in [at : {"idle", "approval", "release"}, manifest : Nat, approval : Seq(ApprovalRecord)]
      /\ place.at = "approval" /\ place.manifest = selected
  BY <1>2, IdleTyped DEF Idle
<1>4. UNCHANGED <<generations, selected, approvals, recorded, release, entries, pruner>>
  BY DEF ReadCurrent
<1> HIDE DEF place
<1>5. PackagesTyped' /\ DecisionsAreNamed' /\ ReleasersKnow' /\ RootsAreLive'
  BY <1>1, <1>2, <1>3, <1>4, OneReleaserMoves
<1> QED
  BY <1>4, <1>5 DEF ReviewInv, ReleaseIsBacked, Accepts

\* The document a releaser finds is the last decision on its manifest: it goes on if
\* that accepts.
LEMMA ReadApprovalKeeps == ASSUME ReviewInv, NEW r \in Releasers, ReadApproval(r) PROVE ReviewInv'
<1> DEFINE m == releasers[r].manifest
           document == approvals[m]
           approves == document # <<>> /\ ReadApproved(m, document[1])
<1>1. releasers' = [releasers EXCEPT ![r] =
          IF approves THEN [releasers[r] EXCEPT !.at = "release", !.approval = document] ELSE Idle]
  BY DEF ReadApproval, ReviewInv, PackagesTyped
<1>2. UNCHANGED <<generations, selected, approvals, recorded, release, entries, pruner>>
  BY DEF ReadApproval
<1>3. m \in Published
  BY DEF ReadApproval, ReviewInv, ReleasersKnow
<1>4. PackagesTyped' /\ DecisionsAreNamed' /\ ReleasersKnow' /\ RootsAreLive'
  <2>1. CASE ~approves
    BY <1>1, <1>2, <2>1, OneReleaserMoves, IdleTyped DEF Idle
  <2>2. CASE approves
    <3> DEFINE place == [releasers[r] EXCEPT !.at = "release", !.approval = document]
    <3>. releasers[r] \in [at : {"idle", "approval", "release"}, manifest : Nat, approval : Seq(ApprovalRecord)]
      BY DEF ReviewInv, PackagesTyped
    <3>1. releasers' = [releasers EXCEPT ![r] = place]
      BY <1>1, <2>2
    <3>2. m \in 1 .. MaxGenerations
      BY <1>3, GenerationsAssumption DEF ReviewInv, PackagesTyped, Published
    <3>3. PICK a \in recorded : document = <<a>> /\ a.manifest = m
      BY <2>2, <3>2 DEF ReviewInv, DecisionsAreNamed
    <3>4. Accepts(m, a)
      BY <2>2, <3>3 DEF Accepts, ReadApproved
    <3>5. document \in Seq(ApprovalRecord)
      BY <3>3 DEF ReviewInv, DecisionsAreNamed
    <3>6. /\ place \in [at : {"idle", "approval", "release"}, manifest : Nat, approval : Seq(ApprovalRecord)]
          /\ place.at = "release" /\ place.manifest = m /\ place.approval = document
      BY <3>5
    <3>7. /\ place.at = "approval" => place.manifest \in Published
          /\ place.at = "release" => \E b \in recorded : place.approval = <<b>> /\ Accepts(place.manifest, b)
      BY <3>3, <3>4, <3>6
    <3> HIDE DEF place
    <3> QED
      BY <1>2, <3>1, <3>6, <3>7, OneReleaserMoves
  <2> QED
    BY <2>1, <2>2
<1> QED
  BY <1>2, <1>4 DEF ReviewInv, ReleaseIsBacked, Accepts

\* What is released is what the releaser read.
LEMMA WriteReleaseKeeps == ASSUME ReviewInv, NEW r \in Releasers, WriteRelease(r) PROVE ReviewInv'
<1>1. UNCHANGED <<generations, selected, approvals, recorded, entries, pruner>>
  BY DEF WriteRelease
<1>2. releasers' = [releasers EXCEPT ![r] = Idle]
  BY DEF WriteRelease
<1>3. PackagesTyped' /\ DecisionsAreNamed' /\ ReleasersKnow' /\ RootsAreLive'
  BY <1>1, <1>2, OneReleaserMoves, IdleTyped DEF Idle
<1>4. PICK a \in recorded : releasers[r].approval = <<a>> /\ Accepts(releasers[r].manifest, a)
  BY DEF WriteRelease, ReviewInv, ReleasersKnow
<1>5. release' = <<[manifest |-> a.manifest, approval |-> a]>>
  BY <1>4 DEF WriteRelease, Only
<1>6. ReleaseIsBacked'
  BY <1>1, <1>4, <1>5 DEF ReleaseIsBacked, Accepts
<1> QED
  BY <1>3, <1>6 DEF ReviewInv

LEMMA KillReleaserKeeps == ASSUME ReviewInv, NEW r \in Releasers, KillReleaser(r) PROVE ReviewInv'
<1>1. UNCHANGED <<generations, selected, approvals, recorded, release, entries, pruner>>
  BY DEF KillReleaser
<1>2. releasers' = [releasers EXCEPT ![r] = Idle]
  BY DEF KillReleaser
<1>3. PackagesTyped' /\ DecisionsAreNamed' /\ ReleasersKnow' /\ RootsAreLive'
  BY <1>1, <1>2, OneReleaserMoves, IdleTyped DEF Idle
<1> QED
  BY <1>1, <1>3 DEF ReviewInv, ReleaseIsBacked, Accepts

\* The roots of a report are the packages of the moment it reads them,
LEMMA ReadsRootsKeeps == ASSUME ReviewInv, PruneReadsRoots PROVE ReviewInv'
<1>1. UNCHANGED <<generations, selected, approvals, recorded, release, releasers, entries>>
  BY DEF PruneReadsRoots
<1>2. PICK kept \in {{}, accepted} :
        pruner' = [at |-> "listing", roots |-> Len(generations), live |-> LiveCacheKeys(kept), candidates |-> {}]
  BY DEF PruneReadsRoots, NoReport
<1>3. Len(generations) \in Nat /\ Published = 1 .. Len(generations)
  BY DEF ReviewInv, PackagesTyped, Published
<1>4. \A m \in 1 .. Len(generations) : generations[m] \subseteq LiveCacheKeys(kept)
  BY <1>3 DEF LiveCacheKeys, ReferencedKeys
<1>5. RootsAreLive'
  BY <1>1, <1>2, <1>3, <1>4 DEF RootsAreLive
<1> QED
  BY <1>1, <1>5 DEF ReviewInv, PackagesTyped, DecisionsAreNamed, ReleasersKnow, ReleaseIsBacked, Accepts, Published

\* and its candidates are among the entries that are not live.
LEMMA ListsEntriesKeeps == ASSUME ReviewInv, PruneListsEntries PROVE ReviewInv'
<1>1. UNCHANGED <<generations, selected, approvals, recorded, release, releasers, entries>>
  BY DEF PruneListsEntries
<1>2. \/ pruner' = NoReport
      \/ pruner' = [pruner EXCEPT !.at = "reported", !.candidates = entries \ pruner.live]
  BY DEF PruneListsEntries
<1>3. RootsAreLive'
  BY <1>1, <1>2 DEF ReviewInv, RootsAreLive, PruneListsEntries, NoReport, PackagesTyped
<1> QED
  BY <1>1, <1>3 DEF ReviewInv, PackagesTyped, DecisionsAreNamed, ReleasersKnow, ReleaseIsBacked, Accepts, Published

LEMMA ReviewStepKeeps == ReviewInv /\ [ReviewNext]_reviewVars => ReviewInv'
<1> SUFFICES ASSUME ReviewInv, [ReviewNext]_reviewVars PROVE ReviewInv'
  OBVIOUS
<1>1. CASE StageEntry
  BY <1>1, BesideTheReview DEF StageEntry, ReviewInv, PackagesTyped
<1>2. CASE PublishEntry
  <2>1. entries' \subseteq CacheKeys
    BY <1>2 DEF PublishEntry, ReviewInv, PackagesTyped
  <2> QED
    BY <1>2, <2>1, BesideTheReview DEF PublishEntry, ReviewInv, PackagesTyped
<1>3. CASE PublishPackage
  BY <1>3, PublishKeeps
<1>4. CASE SelectPackage
  <2>1. selected' \in 0 .. Len(generations)
    BY <1>4 DEF SelectPackage, ReviewInv, PackagesTyped
  <2> QED
    BY <1>4, <2>1, BesideTheReview DEF SelectPackage, ReviewInv, PackagesTyped
<1>5. CASE AcceptTheTakes
  BY <1>5, BesideTheReview DEF AcceptTheTakes, ReviewInv, PackagesTyped
<1>6. CASE ApprovePreview
  BY <1>6, ApproveKeeps
<1>7. CASE \E r \in Releasers : ReadCurrent(r) \/ ReadApproval(r) \/ WriteRelease(r) \/ KillReleaser(r)
  BY <1>7, ReadCurrentKeeps, ReadApprovalKeeps, WriteReleaseKeeps, KillReleaserKeeps
<1>8. CASE PruneReadsRoots
  BY <1>8, ReadsRootsKeeps
<1>9. CASE PruneListsEntries
  BY <1>9, ListsEntriesKeeps
<1>10. CASE UNCHANGED reviewVars
  BY <1>10, BesideTheReview DEF reviewVars, ReviewInv, PackagesTyped
<1> QED
  BY <1>1, <1>2, <1>3, <1>4, <1>5, <1>6, <1>7, <1>8, <1>9, <1>10 DEF ReviewNext

-----------------------------------------------------------------------------
\* The inductive invariant: what is said above of packages, decisions, releasers,
\* release.json and the report holds of every state (approval.rs, prune.rs).
THEOREM ReviewInvariant == ReviewSpec => []ReviewInv
<1>1. ReviewInit => ReviewInv
  BY ReviewInitHolds
<1>2. ReviewInv /\ [ReviewNext]_reviewVars => ReviewInv'
  BY ReviewStepKeeps
<1> QED
  BY <1>1, <1>2, PTL DEF ReviewSpec

\* release.json names a published manifest and a recorded decision that accepts it,
\* whoever selects, reviews and releases meanwhile (approval.rs, publish_preview_release).
THEOREM ReleasesWereAccepted == ReviewSpec => []ReleaseNamesAnAcceptance
<1>1. ReviewInv => ReleaseNamesAnAcceptance
  BY DEF ReviewInv, ReleaseIsBacked, DecisionsAreNamed, ReleaseNamesAnAcceptance, Accepts, Published, ToSet
<1> QED
  BY <1>1, ReviewInvariant, PTL

\* No report names an entry of a package that was there when it read its roots
\* (prune.rs, prune_candidates).
THEOREM ReportsSpareTheirRoots == ReviewSpec => []ReportSparesItsRoots
<1>1. ReviewInv => ReportSparesItsRoots
  BY DEF ReviewInv, RootsAreLive, ReportSparesItsRoots
<1> QED
  BY <1>1, ReviewInvariant, PTL

-----------------------------------------------------------------------------
(* The choice of takes.  An explicit package names what somebody accepted because
   every way of choosing a plan keeps the pair of a row that was offered and the
   lesson it was reconciled with, and a build that renders other audio ends. *)

-----------------------------------------------------------------------------
(* The inductive invariant. *)

\* A row of a takes file or of a package: what Selection makes, with an audio.
IsRow(r) ==
    /\ r = Selection(r.id, r.base, r.take, r.key, r.audio)
    /\ r.audio \in Nat \ {NoAudio}

\* A lesson names each of its segments once.
IsLesson(lesson) ==
    /\ lesson \in Seq([id : {"a", "b"}, wording : Wordings \cup {1, 2}, layout : {1, 2}])
    /\ lesson # <<>>
    /\ \A i, j \in DOMAIN lesson : lesson[i].id = lesson[j].id => i = j

\* A plan of the lesson: keys are those of its words, whatever takes it has.
SegmentsAreOf(lesson, plan) ==
    /\ plan.segments = [i \in DOMAIN lesson |-> plan.segments[i]]
    /\ \A i \in DOMAIN lesson :
          LET s == plan.segments[i]
          IN  s = [id |-> lesson[i].id, layout |-> lesson[i].layout, take |-> s.take,
                   base |-> Key(lesson[i].wording, BaseTake), key |-> Key(lesson[i].wording, s.take),
                   audio |-> s.audio]

\* What an explicit plan selects was offered, with its audio.
SelectsTheOffered(plan) ==
    plan.source = "explicit" =>
        \A i \in DOMAIN plan.segments :
            LET s == plan.segments[i]
            IN  s.audio # NoAudio /\ Selection(s.id, s.base, s.take, s.key, s.audio) \in offered

IsPlan(lesson, plan) == SegmentsAreOf(lesson, plan) /\ SelectsTheOffered(plan)

\* The rows of a package are those of a plan of some words, with the audio rendered.
IsPackage(package) ==
    /\ package.segments \in Seq(Range(package.segments)) /\ package.segments # <<>>
    /\ \A i \in DOMAIN package.segments :
          LET s == package.segments[i]
          IN  /\ IsRow(s)
              /\ s.base = Key(s.key[1], BaseTake) /\ s.key = Key(s.key[1], s.take)
              /\ package.source = "explicit" => s \in offered
    /\ \A i, j \in DOMAIN package.segments : package.segments[i].id = package.segments[j].id => i = j

TakesAreOffered ==
    /\ takes.document \in Seq(offered)
    /\ \A r \in offered : IsRow(r)

AudioIsHeard ==
    /\ heard \in Nat
    /\ \A key \in DOMAIN cache : cache[key] \in Nat \ {NoAudio}

RetainedIsPlanned ==
    retained # Nothing =>
        /\ retained = One(retained[1])
        /\ IsLesson(retained[1].lesson)
        /\ IsPlan(retained[1].lesson, retained[1].plan)

\* The build that runs is of the retained plan and has met no other audio.
BuildIsTrue ==
    build # Nothing =>
        /\ retained # Nothing /\ build = One(build[1])
        /\ build[1] = [command |-> build[1].command, plan |-> retained[1].plan, retakes |-> build[1].retakes,
                       before |-> build[1].before, rendered |-> build[1].rendered]
        /\ build[1].rendered \in Seq(Nat \ {NoAudio})
        /\ \A i \in DOMAIN build[1].rendered :
              i \in DOMAIN build[1].plan.segments
                => build[1].plan.segments[i].audio \in {NoAudio, build[1].rendered[i]}

CurrentIsTrue == current # Nothing => current = One(current[1]) /\ IsPackage(current[1])

TakesInv ==
    /\ IsLesson(authored) /\ TakesAreOffered /\ AudioIsHeard
    /\ RetainedIsPlanned /\ BuildIsTrue /\ CurrentIsTrue

-----------------------------------------------------------------------------
(* The operators. *)

LEMMA FirstFaultOfIsTrue ==
  ASSUME NEW n \in Nat, NEW faults, DOMAIN faults = 1 .. n, FirstFaultOf(faults) = "ok"
  PROVE  \A i \in 1 .. n : faults[i] = "ok"
  <1> DEFINE checks == [i \in 1 .. n |-> <<faults[i] # "ok", faults[i]>>]
             failing == {i \in DOMAIN checks : checks[i][1]}
  <1>1. FirstFault(checks) = "ok"
    BY DEF FirstFaultOf
  <1>2. failing = {i \in 1 .. n : faults[i] # "ok"}
    BY Zenon
  <1>3. CASE failing = {}
    BY <1>2, <1>3
  <1>4. CASE failing # {}
    <2>1. failing \subseteq Nat
      BY <1>2
    <2>2. PICK x \in failing : \A y \in failing : ~(<<y, x>> \in OpToRel(<, Nat))
      BY <1>4, <2>1, WFMin, NatLessThanWellFounded
    <2>3. \A y \in failing : x =< y
      <3>1. \A y \in failing : ~(y < x)
        BY <2>1, <2>2 DEF OpToRel
      <3>2. \A y \in failing : y \in Nat /\ x \in Nat
        BY <2>1
      <3> HIDE DEF failing
      <3> QED BY <3>1, <3>2
    <2>4. Min(failing) \in failing
      BY <2>3 DEF Min
    <2>5. FirstFault(checks) = faults[Min(failing)]
      BY <1>2, <1>4, <2>4 DEF FirstFault
    <2> QED BY <1>1, <1>2, <2>4, <2>5
  <1> QED BY <1>3, <1>4

\* ... and the other way round.
LEMMA NoFaultIsFirst ==
  ASSUME NEW n \in Nat, NEW faults, DOMAIN faults = 1 .. n, \A i \in 1 .. n : faults[i] = "ok"
  PROVE  FirstFaultOf(faults) = "ok"
  <1> DEFINE checks == [i \in 1 .. n |-> <<faults[i] # "ok", faults[i]>>]
  <1>1. {i \in DOMAIN checks : checks[i][1]} = {}
    BY Zenon
  <1> QED BY <1>1 DEF FirstFaultOf, FirstFault

LEMMA RowOfIsARow ==
  ASSUME NEW rows, NEW id \in Ids(rows)
  PROVE  \E i \in DOMAIN rows : RowOf(rows, id) = rows[i] /\ rows[i].id = id
  BY DEF Ids, RowOf

\* Without an order to choose, the row is the one that bears the id.
LEMMA RowOfTheOnlyOne ==
  ASSUME NEW rows, \A i, j \in DOMAIN rows : rows[i].id = rows[j].id => i = j,
         NEW k \in DOMAIN rows
  PROVE  rows[k].id \in Ids(rows) /\ RowOf(rows, rows[k].id) = rows[k]
  BY DEF Ids, RowOf

LEMMA PlanOfIsOfTheLesson ==
  ASSUME NEW lesson, NEW source, NEW resolved
  PROVE  /\ SegmentsAreOf(lesson, PlanOf(lesson, source, resolved))
         /\ PlanOf(lesson, source, resolved).source = source
         /\ \A i \in DOMAIN lesson : lesson[i].id \in Ids(resolved) =>
               /\ PlanOf(lesson, source, resolved).segments[i].take = RowOf(resolved, lesson[i].id).take
               /\ PlanOf(lesson, source, resolved).segments[i].audio = RowOf(resolved, lesson[i].id).audio
  BY DEF PlanOf, SegmentsAreOf

\* What select_plan lets through: a plan of the lesson, and an explicit one only when
\* each of its segments is, key by key, a row of the takes file.
LEMMA SelectPlanIsAPlan ==
  ASSUME NEW lesson, IsLesson(lesson), NEW hasTakes, NEW document \in Seq(offered), NEW retakes,
         \A r \in offered : IsRow(r),
         SelectPlan(lesson, hasTakes, document, retakes).outcome = "ok"
  PROVE  IsPlan(lesson, SelectPlan(lesson, hasTakes, document, retakes).plan)
  <1> DEFINE base == PlanOf(lesson, "implicit", <<>>)
             explicit == PlanOf(lesson, "explicit", document)
             plan == SelectPlan(lesson, hasTakes, document, retakes).plan
  <1>1. SegmentsAreOf(lesson, plan)
    BY PlanOfIsOfTheLesson DEF SelectPlan
  <1>2. SUFFICES ASSUME plan.source = "explicit" PROVE SelectsTheOffered(plan)
    BY <1>1 DEF IsPlan, SelectsTheOffered
  <1>3. /\ plan = explicit
        /\ ReconcileFault(document, base) = "ok" /\ SelectedKeysFault(document, explicit) = "ok"
    BY <1>2, PlanOfIsOfTheLesson DEF SelectPlan
  <1>4. \A i \in DOMAIN lesson :
          /\ lesson[i].id \in Ids(document)
          /\ RowOf(document, lesson[i].id).base = Key(lesson[i].wording, BaseTake)
    <2> DEFINE faults == [i \in DOMAIN base.segments |->
                 IF base.segments[i].id \notin Ids(document) THEN "UnselectedSegment"
                 ELSE IF RowOf(document, base.segments[i].id).base # base.segments[i].key
                      THEN "StaleSynthesisBaseKey" ELSE "ok"]
    <2>1. FirstFaultOf(faults) = "ok"
      BY <1>3, Zenon DEF ReconcileFault
    <2>2. /\ DOMAIN base.segments = DOMAIN lesson
          /\ \A i \in DOMAIN lesson : /\ base.segments[i].id = lesson[i].id
                                     /\ base.segments[i].key = Key(lesson[i].wording, BaseTake)
      BY DEF PlanOf, Ids
    <2>3. Len(lesson) \in Nat /\ DOMAIN faults = 1 .. Len(lesson) /\ DOMAIN lesson = 1 .. Len(lesson)
      BY <2>2, LenProperties DEF IsLesson
    <2>4. \A i \in 1 .. Len(lesson) : faults[i] = "ok"
      <3> HIDE DEF faults
      <3> QED BY <2>1, <2>3, FirstFaultOfIsTrue
    <2> QED BY <2>2, <2>3, <2>4
  <1>5. \A i \in DOMAIN lesson : RowOf(document, lesson[i].id).key = explicit.segments[i].key
    BY <1>3 DEF SelectedKeysFault, PlanOf
  <1>6. ASSUME NEW i \in DOMAIN lesson
        PROVE  LET s == explicit.segments[i]
               IN  s.audio # NoAudio /\ Selection(s.id, s.base, s.take, s.key, s.audio) \in offered
    <2>1. PICK j \in DOMAIN document : RowOf(document, lesson[i].id) = document[j] /\ document[j].id = lesson[i].id
      BY <1>4, RowOfIsARow
    <2>2. document[j] \in offered /\ IsRow(document[j])
      BY ElementOfSeq
    <2>3. LET s == explicit.segments[i]
          IN  /\ s.id = document[j].id /\ s.base = document[j].base /\ s.key = document[j].key
              /\ s.take = document[j].take /\ s.audio = document[j].audio
      <3>1. /\ explicit.segments[i].id = lesson[i].id
            /\ explicit.segments[i].base = Key(lesson[i].wording, BaseTake)
            /\ explicit.segments[i].take = RowOf(document, lesson[i].id).take
            /\ explicit.segments[i].audio = RowOf(document, lesson[i].id).audio
        BY <1>4 DEF PlanOf
      <3>2. explicit.segments[i].key = document[j].key
        BY <1>5, <2>1
      <3> QED BY <1>4, <2>1, <3>1, <3>2
    <2> QED BY <2>2, <2>3 DEF IsRow
  <1> QED BY <1>3, <1>6 DEF SelectsTheOffered, PlanOf

\* The plan a job retains, derived again, selects what it selected.
LEMMA RecoveredPlanIsAPlan ==
  ASSUME NEW lesson, IsLesson(lesson), NEW old, IsPlan(lesson, old)
  PROVE  IsPlan(lesson, RecoveredPlan(lesson, old))
  <1> DEFINE plan == RecoveredPlan(lesson, old)
  <1>1. SegmentsAreOf(lesson, plan) /\ plan.source = old.source
    BY PlanOfIsOfTheLesson DEF RecoveredPlan
  <1>2. DOMAIN old.segments = DOMAIN lesson /\ \A i \in DOMAIN lesson : old.segments[i].id = lesson[i].id
    <2>1. old.segments = [i \in DOMAIN lesson |-> old.segments[i]]
      BY DEF IsPlan, SegmentsAreOf
    <2>2. DOMAIN old.segments = DOMAIN lesson
      BY <2>1, Zenon
    <2>3. ASSUME NEW i \in DOMAIN lesson PROVE old.segments[i].id = lesson[i].id
      <3>1. old.segments[i] = [id |-> lesson[i].id, layout |-> lesson[i].layout, take |-> old.segments[i].take,
                   base |-> Key(lesson[i].wording, BaseTake),
                   key |-> Key(lesson[i].wording, old.segments[i].take), audio |-> old.segments[i].audio]
        BY DEF IsPlan, SegmentsAreOf
      <3> QED BY ONLY <3>1
    <2> QED BY <2>2, <2>3
  <1>3. ASSUME NEW i \in DOMAIN lesson
        PROVE  plan.segments[i] = old.segments[i]
    <2>1. lesson[i].id \in Ids(old.segments) /\ RowOf(old.segments, lesson[i].id) = old.segments[i]
      <3>1. \A j, k \in DOMAIN old.segments : old.segments[j].id = old.segments[k].id => j = k
        BY <1>2 DEF IsLesson
      <3> QED BY <1>2, <3>1, RowOfTheOnlyOne
    <2>2. plan.segments[i] = [id |-> lesson[i].id, layout |-> lesson[i].layout, take |-> old.segments[i].take,
                   base |-> Key(lesson[i].wording, BaseTake),
                   key |-> Key(lesson[i].wording, old.segments[i].take), audio |-> old.segments[i].audio]
      BY <2>1 DEF RecoveredPlan, PlanOf
    <2> QED BY <2>2 DEF IsPlan, SegmentsAreOf
  <1>4. DOMAIN plan.segments = DOMAIN lesson
    BY DEF RecoveredPlan, PlanOf
  <1> HIDE DEF plan
  <1>5. SelectsTheOffered(plan)
    BY <1>1, <1>2, <1>3, <1>4 DEF IsPlan, SelectsTheOffered
  <1> QED BY <1>1, <1>5 DEF IsPlan, plan

\* A function on 1 .. n is a sequence of what it holds.
LEMMA FunctionIsSeq ==
  ASSUME NEW n \in Nat, NEW f, f = [i \in 1 .. n |-> f[i]]
  PROVE  f \in Seq(Range(f)) /\ Len(f) = n
  <1>1. DOMAIN f = 1 .. n
    BY Zenon
  <1>2. f \in [1 .. n -> Range(f)]
    BY <1>1 DEF Range
  <1>3. f \in Seq(Range(f))
    BY <1>2
  <1> QED BY <1>2, <1>3, LenProperties

-----------------------------------------------------------------------------
(* The actions. *)

\* More that was offered takes nothing from what is selected.
LEMMA OfferingKeepsTakesInv ==
  ASSUME TakesInv, offered \subseteq offered', \A r \in offered' : IsRow(r),
         takes'.document \in Seq(offered'), IsLesson(authored'),
         UNCHANGED <<cache, heard, retained, build, current>>
  PROVE  TakesInv'
  <1>1. TakesAreOffered'
    BY DEF TakesAreOffered, IsRow
  <1>2. AudioIsHeard' /\ BuildIsTrue'
    BY DEF TakesInv, AudioIsHeard, BuildIsTrue
  <1>3. RetainedIsPlanned'
    <2>1. SUFFICES ASSUME retained # Nothing PROVE RetainedIsPlanned'
      BY DEF RetainedIsPlanned
    <2>2. IsPlan(retained[1].lesson, retained[1].plan)'
      BY <2>1 DEF TakesInv, RetainedIsPlanned, IsPlan, SegmentsAreOf, SelectsTheOffered
    <2> QED BY <2>1, <2>2 DEF TakesInv, RetainedIsPlanned, IsLesson
  <1>4. CurrentIsTrue'
    <2>1. SUFFICES ASSUME current # Nothing PROVE CurrentIsTrue'
      BY DEF CurrentIsTrue
    <2>2. current = One(current[1]) /\ IsPackage(current[1])
      BY <2>1 DEF TakesInv, CurrentIsTrue
    <2>3. IsPackage(current[1])'
      BY <2>2 DEF IsPackage, IsRow
    <2> QED BY <2>2, <2>3 DEF CurrentIsTrue
  <1>5. IsLesson(authored)'
    BY DEF IsLesson
  <1> QED BY <1>1, <1>2, <1>3, <1>4, <1>5 DEF TakesInv

LEMMA EditLessonTextKeepsTakesInv ==
  ASSUME TakesInv, EditLessonText
  PROVE  TakesInv'
  <1> DEFINE S == [id : {"a", "b"}, wording : Wordings \cup {1, 2}, layout : {1, 2}]
  <1>1. /\ authored \in Seq(S) /\ 1 \in DOMAIN authored /\ authored[1] \in S
        /\ Len(authored) \in Nat /\ DOMAIN authored = 1 .. Len(authored)
    <2>1. authored \in Seq(S) /\ authored # <<>>
      BY DEF TakesInv, IsLesson
    <2>2. Len(authored) \in Nat \ {0} /\ DOMAIN authored = 1 .. Len(authored)
      BY <2>1, EmptySeq, LenProperties
    <2> HIDE DEF S
    <2>3. authored[1] \in S
      BY <2>1, <2>2, ElementOfSeq
    <2> QED BY <2>1, <2>2, <2>3
  <1>2. IsLesson(authored')
    <2>1. ASSUME NEW row \in S, row.id = authored[1].id, authored' = [authored EXCEPT ![1] = row]
          PROVE  IsLesson(authored')
      <3>1. authored' \in Seq(S) /\ Len(authored') = Len(authored)
        BY <1>1, <2>1, ExceptSeq
      <3> QED BY <1>1, <2>1, <3>1, EmptySeq, LenProperties DEF TakesInv, IsLesson
    <2>2. ASSUME NEW wording \in Wordings, authored' = [authored EXCEPT ![1].wording = wording]
          PROVE  IsLesson(authored')
      <3>1. [authored[1] EXCEPT !.wording = wording] \in S
        BY <1>1
      <3> QED BY <2>1, <2>2, <3>1
    <2>3. ASSUME authored' = [authored EXCEPT ![1].layout = 3 - @]
          PROVE  IsLesson(authored')
      <3>1. [authored[1] EXCEPT !.layout = 3 - @] \in S
        BY <1>1
      <3> QED BY <2>1, <2>3, <3>1
    <2>4. ASSUME authored' = <<authored[1]>>
          PROVE  IsLesson(authored')
      BY <1>1, <2>4 DEF IsLesson
    <2> QED BY <2>2, <2>3, <2>4 DEF EditLessonText
  <1>3. /\ UNCHANGED <<takes, offered, cache, heard, retained, build, current>>
        /\ takes.document \in Seq(offered) /\ \A r \in offered : IsRow(r)
    BY DEF EditLessonText, TakesInv, TakesAreOffered
  <1> QED BY <1>2, <1>3, OfferingKeepsTakesInv

\* A document of rows is offered as a whole.
LEMMA WriteTakesKeepsTakesInv ==
  ASSUME TakesInv, NEW document, NEW R, document \in Seq(R), \A r \in ToSet(document) : IsRow(r),
         WriteTakes(document)
  PROVE  TakesInv'
  <1>1. document \in Seq(ToSet(document))
    <2>1. ToSet(document) = Range(document)
      BY DEF ToSet, Range
    <2> QED BY <2>1, SeqOfRange
  <1>2. /\ takes'.document = document /\ offered' = offered \cup ToSet(document)
        /\ UNCHANGED <<authored, cache, heard, retained, build, current>>
    BY DEF WriteTakes
  <1>3. takes'.document \in Seq(offered')
    BY <1>1, <1>2
  <1>4. \A r \in offered' : IsRow(r)
    BY <1>2 DEF TakesInv, TakesAreOffered
  <1> QED BY <1>2, <1>3, <1>4, OfferingKeepsTakesInv DEF TakesInv

\* A hand edit of a row leaves a row.
LEMMA EditedRowIsARow ==
  ASSUME NEW r, IsRow(r), NEW take, NEW key
  PROVE  IsRow([r EXCEPT !.take = take]) /\ IsRow([r EXCEPT !.take = take, !.key = key])
  <1>1. r = Selection(r.id, r.base, r.take, r.key, r.audio) /\ r.audio \in Nat \ {NoAudio}
    BY DEF IsRow
  <1>2. ASSUME NEW a, NEW b, NEW c, NEW d, NEW e, r = Selection(a, b, c, d, e)
        PROVE  /\ [r EXCEPT !.take = take] = Selection(a, b, take, d, e)
               /\ [r EXCEPT !.take = take, !.key = key] = Selection(a, b, take, key, e)
    <2>1. [r EXCEPT !.take = take] = Selection(a, b, take, d, e)
      BY <1>2 DEF Selection
    <2>2. \A q : q = Selection(a, b, take, d, e) => [q EXCEPT !.key = key] = Selection(a, b, take, key, e)
      BY DEF Selection
    <2>3. [r EXCEPT !.take = take, !.key = key] = [[r EXCEPT !.take = take] EXCEPT !.key = key]
      OBVIOUS
    <2> QED BY <2>1, <2>2, <2>3
  <1>3. /\ [r EXCEPT !.take = take] = Selection(r.id, r.base, take, r.key, r.audio)
        /\ [r EXCEPT !.take = take, !.key = key] = Selection(r.id, r.base, take, key, r.audio)
    BY <1>1, <1>2
  <1>4. \A a, b, c, d, e : e \in Nat \ {NoAudio} => IsRow(Selection(a, b, c, d, e))
    BY DEF IsRow, Selection
  <1> QED BY <1>1, <1>3, <1>4

LEMMA EditTakesKeepsTakesInv ==
  ASSUME TakesInv, EditTakes
  PROVE  TakesInv'
  <1> DEFINE document == takes.document
  <1>1. /\ document \in Seq(offered) /\ \A r \in offered : IsRow(r)
        /\ Len(document) \in Nat /\ DOMAIN document = 1 .. Len(document)
    BY LenProperties DEF TakesInv, TakesAreOffered
  <1>2. ASSUME NEW i \in DOMAIN document, NEW row, IsRow(row), WriteTakes([document EXCEPT ![i] = row])
        PROVE  TakesInv'
    <2>1. document \in Seq(offered \cup {row})
      BY <1>1, SeqMonotonic
    <2>2. [document EXCEPT ![i] = row] \in Seq(offered \cup {row})
      BY <1>1, <2>1, ExceptSeq
    <2>3. \A r \in ToSet([document EXCEPT ![i] = row]) : IsRow(r)
      <3>1. ToSet([document EXCEPT ![i] = row]) \subseteq offered \cup {row}
        BY <2>2, RangeOfSeq DEF ToSet, Range
      <3> QED BY <1>1, <1>2, <3>1
    <2> QED BY <1>2, <2>2, <2>3, WriteTakesKeepsTakesInv
  <1>3. ASSUME NEW i \in DOMAIN document
        PROVE  /\ document[i] \in offered /\ IsRow(document[i])
    BY <1>1, ElementOfSeq
  <1>4. ASSUME NEW other \in Seq(offered), WriteTakes(other)
        PROVE  TakesInv'
    <2>1. ToSet(other) \subseteq offered
      BY RangeOfSeq DEF ToSet, Range
    <2> QED BY <1>1, <1>4, <2>1, WriteTakesKeepsTakesInv
  <1>5. ASSUME takes' = [present |-> FALSE, document |-> NoTakes],
               UNCHANGED <<authored, cache, heard, retained, build, current, offered>>
        PROVE  TakesInv'
    <2>1. takes'.document \in Seq(offered')
      BY <1>5, EmptySeq DEF NoTakes
    <2> QED BY <1>1, <1>5, <2>1, OfferingKeepsTakesInv DEF TakesInv
  <1>6. ASSUME NEW i \in DOMAIN document, NEW take \in TakeNumbers,
               WriteTakes([document EXCEPT ![i].take = take])
        PROVE  TakesInv'
    <2>1. IsRow([document[i] EXCEPT !.take = take])
      BY <1>3, EditedRowIsARow
    <2> QED BY <1>2, <1>6, <2>1
  <1>7. ASSUME NEW i \in DOMAIN document, NEW take \in TakeNumbers,
               WriteTakes([document EXCEPT ![i].take = take, ![i].key = <<@[1], take>>])
        PROVE  TakesInv'
    <2> DEFINE row == [document[i] EXCEPT !.take = take, !.key = <<@[1], take>>]
    <2>1. IsRow(row)
      BY <1>3, EditedRowIsARow
    <2>2. [document EXCEPT ![i].take = take, ![i].key = <<@[1], take>>] = [document EXCEPT ![i] = row]
      BY <1>1
    <2> HIDE DEF row
    <2> QED BY <1>2, <1>7, <2>1, <2>2
  <1>8. ASSUME NEW i \in DOMAIN document, WriteTakes(Append(document, document[i]))
        PROVE  TakesInv'
    BY <1>1, <1>3, <1>4, <1>8, AppendProperties
  <1>9. ASSUME NEW i \in DOMAIN document, WriteTakes(RemoveAt(document, i))
        PROVE  TakesInv'
    <2>1. SubSeq(document, 1, i - 1) \in Seq(offered) /\ SubSeq(document, i + 1, Len(document)) \in Seq(offered)
      BY <1>1, <1>3, SubSeqProperties
    <2>2. RemoveAt(document, i) \in Seq(offered)
      BY <2>1, ConcatProperties DEF RemoveAt
    <2> QED BY <1>4, <1>9, <2>2
  <1> QED BY <1>5, <1>6, <1>7, <1>8, <1>9 DEF EditTakes

LEMMA AcceptTakesKeepsTakesInv ==
  ASSUME TakesInv, AcceptTakes
  PROVE  TakesInv'
  <1> DEFINE package == current[1]
  <1>1. current # Nothing /\ IsPackage(package) /\ WriteTakes(RecordedSelections(package))
    BY DEF AcceptTakes, TakesInv, CurrentIsTrue
  <1>2. RecordedSelections(package) = package.segments
    BY <1>1, LenProperties DEF IsPackage, IsRow, RecordedSelections
  <1>3. \A r \in ToSet(package.segments) : IsRow(r)
    BY <1>1 DEF IsPackage, ToSet
  <1>4. package.segments \in Seq(Range(package.segments))
    BY <1>1 DEF IsPackage
  <1> HIDE DEF package
  <1> QED BY <1>1, <1>2, <1>3, <1>4, WriteTakesKeepsTakesInv

LEMMA LoseEntryKeepsTakesInv ==
  ASSUME TakesInv, LoseEntry
  PROVE  TakesInv'
  <1>1. UNCHANGED <<authored, takes, heard, retained, build, current, offered>>
    BY DEF LoseEntry
  <1>2. AudioIsHeard'
    BY DEF TakesInv, AudioIsHeard, LoseEntry
  <1> QED BY <1>1, <1>2 DEF TakesInv, IsLesson, TakesAreOffered, RetainedIsPlanned, BuildIsTrue, CurrentIsTrue,
               IsPlan, SegmentsAreOf, SelectsTheOffered, IsPackage

\* A build begins with the plan that is retained, whichever command asks for it.
LEMMA BeginKeepsTakesInv ==
  ASSUME TakesInv, NEW command, NEW lesson, NEW plan, NEW retakes,
         IsLesson(lesson), IsPlan(lesson, plan), Begin(command, lesson, plan, retakes)
  PROVE  TakesInv'
  <1>1. /\ retained' = One([lesson |-> lesson, plan |-> plan])
        /\ build' = One([command |-> command, plan |-> plan, retakes |-> Ids(retakes),
                         before |-> current, rendered |-> <<>>])
        /\ UNCHANGED <<authored, takes, cache, heard, current, offered>>
    BY DEF Begin
  <1>2. RetainedIsPlanned'
    BY <1>1 DEF RetainedIsPlanned, One, Nothing, IsPlan, SelectsTheOffered, SegmentsAreOf, IsLesson
  <1>3. BuildIsTrue'
    <2>1. /\ build' = One(build'[1])
          /\ build'[1] = [command |-> command, plan |-> plan, retakes |-> Ids(retakes),
                          before |-> current, rendered |-> <<>>]
          /\ retained' # Nothing /\ retained'[1].plan = plan
      BY <1>1 DEF One, Nothing
    <2>2. build'[1].rendered \in Seq(Nat \ {NoAudio}) /\ DOMAIN build'[1].rendered = {}
      BY <2>1, EmptySeq
    <2> QED BY <2>1, <2>2 DEF BuildIsTrue
  <1> QED BY <1>1, <1>2, <1>3 DEF TakesInv, IsLesson, TakesAreOffered, AudioIsHeard, CurrentIsTrue, IsPackage

LEMMA BuildsBeginFromAPlan ==
  ASSUME TakesInv, RenderLesson \/ RetakeLesson \/ ResumeLesson
  PROVE  TakesInv'
  <1>1. /\ IsLesson(authored) /\ takes.document \in Seq(offered) /\ NoTakes \in Seq(offered)
        /\ \A r \in offered : IsRow(r)
    BY EmptySeq DEF TakesInv, TakesAreOffered, NoTakes
  <1>2. CASE RenderLesson
    <2>1. PICK retakes \in RetakesOf(authored) :
             LET choice == SelectPlan(authored, takes.present, takes.document, retakes)
             IN  choice.outcome = "ok" /\ Begin("render", authored, choice.plan, retakes)
      BY <1>2 DEF RenderLesson
    <2>2. IsPlan(authored, SelectPlan(authored, takes.present, takes.document, retakes).plan)
      BY <1>1, <2>1, SelectPlanIsAPlan
    <2> QED BY <1>1, <2>1, <2>2, BeginKeepsTakesInv
  <1>3. CASE RetakeLesson
    <2>1. PICK retakes \in RetakesOf(retained[1].lesson) \ {<<>>} :
             LET choice == SelectPlan(retained[1].lesson, FALSE, NoTakes, retakes)
             IN  choice.outcome = "ok" /\ Begin("retake", retained[1].lesson, choice.plan, retakes)
      BY <1>3 DEF RetakeLesson
    <2>2. IsLesson(retained[1].lesson)
      BY <1>3 DEF RetakeLesson, TakesInv, RetainedIsPlanned
    <2>3. IsPlan(retained[1].lesson, SelectPlan(retained[1].lesson, FALSE, NoTakes, retakes).plan)
      BY <1>1, <2>1, <2>2, SelectPlanIsAPlan
    <2> QED BY <2>1, <2>2, <2>3, BeginKeepsTakesInv
  <1>4. CASE ResumeLesson
    <2>1. IsLesson(retained[1].lesson) /\ IsPlan(retained[1].lesson, retained[1].plan)
      BY <1>4 DEF ResumeLesson, TakesInv, RetainedIsPlanned
    <2>2. Begin("resume", retained[1].lesson, RecoveredPlan(retained[1].lesson, retained[1].plan), <<>>)
      BY <1>4 DEF ResumeLesson
    <2> QED BY <2>1, <2>2, RecoveredPlanIsAPlan, BeginKeepsTakesInv
  <1> QED BY <1>2, <1>3, <1>4

LEMMA RenderSegmentKeepsTakesInv ==
  ASSUME TakesInv, RenderSegment
  PROVE  TakesInv'
  <1> DEFINE rendered == build[1].rendered
             segment == build[1].plan.segments[Len(rendered) + 1]
             hit == segment.key \in DOMAIN cache
             audio == IF hit THEN cache[segment.key] ELSE heard + 1
  <1>1. /\ build # Nothing /\ UNCHANGED <<authored, takes, retained, current, offered, budget>>
        /\ IF hit THEN UNCHANGED <<cache, heard>>
           ELSE /\ heard' = heard + 1
                /\ cache' = [k \in DOMAIN cache \cup {segment.key} |-> IF k = segment.key THEN audio ELSE cache[k]]
        /\ build' = IF segment.audio \notin {NoAudio, audio} THEN Nothing
                    ELSE One([build[1] EXCEPT !.rendered = Append(@, audio)])
    BY DEF RenderSegment
  <1>2. audio \in Nat \ {NoAudio} /\ AudioIsHeard'
    <2>1. heard \in Nat /\ \A key \in DOMAIN cache : cache[key] \in Nat \ {NoAudio}
      BY DEF TakesInv, AudioIsHeard
    <2>2. CASE hit
      BY <1>1, <2>1, <2>2 DEF AudioIsHeard
    <2>3. CASE ~hit
      <3>1. audio = heard + 1 /\ audio \in Nat \ {NoAudio}
        BY <2>1, <2>3 DEF NoAudio
      <3> HIDE DEF audio, segment
      <3> QED BY <1>1, <2>1, <2>3, <3>1 DEF AudioIsHeard
    <2> QED BY <2>2, <2>3
  <1>3. BuildIsTrue'
    <2>1. CASE segment.audio \notin {NoAudio, audio}
      BY <1>1, <2>1 DEF BuildIsTrue
    <2>2. CASE segment.audio \in {NoAudio, audio}
      <3>1. /\ retained # Nothing /\ rendered \in Seq(Nat \ {NoAudio})
            /\ build[1] = [command |-> build[1].command, plan |-> retained[1].plan, retakes |-> build[1].retakes,
                           before |-> build[1].before, rendered |-> rendered]
            /\ \A i \in DOMAIN rendered :
                 i \in DOMAIN build[1].plan.segments => build[1].plan.segments[i].audio \in {NoAudio, rendered[i]}
        BY <1>1 DEF TakesInv, BuildIsTrue
      <3>2. build' = One([build[1] EXCEPT !.rendered = Append(@, audio)])
        BY <1>1, <2>2
      <3> DEFINE next == Append(rendered, audio)
      <3>3. [build[1] EXCEPT !.rendered = Append(@, audio)]
            = [command |-> build[1].command, plan |-> retained[1].plan, retakes |-> build[1].retakes,
               before |-> build[1].before, rendered |-> next]
        <4>1. \A b, c, p, r, f, old, new :
                 b = [command |-> c, plan |-> p, retakes |-> r, before |-> f, rendered |-> old]
                   => [b EXCEPT !.rendered = new]
                      = [command |-> c, plan |-> p, retakes |-> r, before |-> f, rendered |-> new]
          OBVIOUS
        <4>2. [build[1] EXCEPT !.rendered = Append(@, audio)] = [build[1] EXCEPT !.rendered = next]
          BY Zenon
        <4> HIDE DEF next, rendered
        <4> QED BY <3>1, <4>1, <4>2
      <3>4. /\ build' = One(build'[1]) /\ build' # Nothing
            /\ build'[1] = [command |-> build[1].command, plan |-> retained[1].plan, retakes |-> build[1].retakes,
                            before |-> build[1].before, rendered |-> next]
        <4> HIDE DEF next, rendered
        <4> QED BY <3>2, <3>3 DEF One, Nothing
      <3>5. /\ next \in Seq(Nat \ {NoAudio}) /\ DOMAIN next = 1 .. Len(rendered) + 1
            /\ DOMAIN rendered = 1 .. Len(rendered) /\ Len(rendered) \in Nat
            /\ \A i \in 1 .. Len(rendered) : next[i] = rendered[i]
            /\ next[Len(rendered) + 1] = audio
        <4> HIDE DEF audio, rendered
        <4> QED BY <1>2, <3>1, AppendProperties, LenProperties
      <3>6. ASSUME NEW i \in DOMAIN next, i \in DOMAIN build[1].plan.segments
            PROVE  build[1].plan.segments[i].audio \in {NoAudio, next[i]}
        <4>1. CASE i \in DOMAIN rendered
          <5> HIDE DEF next, rendered, audio
          <5> QED BY <3>1, <3>5, <3>6, <4>1
        <4>2. CASE i = Len(rendered) + 1
          <5> HIDE DEF next, rendered, audio
          <5> QED BY <2>2, <3>5, <4>2
        <4> HIDE DEF next, rendered, audio
        <4> QED BY <3>5, <4>1, <4>2
      <3> HIDE DEF next, rendered, audio
      <3>7. build[1].plan = retained[1].plan /\ retained' = retained
        BY <1>1, <3>1
      <3> QED BY <3>1, <3>4, <3>5, <3>6, <3>7 DEF BuildIsTrue
    <2> QED BY <2>1, <2>2
  <1> QED BY <1>1, <1>2, <1>3 DEF TakesInv, IsLesson, TakesAreOffered, RetainedIsPlanned, CurrentIsTrue,
               IsPlan, SegmentsAreOf, SelectsTheOffered, IsPackage

LEMMA KillBuildKeepsTakesInv ==
  ASSUME TakesInv, KillBuild
  PROVE  TakesInv'
  BY DEF KillBuild, TakesInv, IsLesson, TakesAreOffered, AudioIsHeard, RetainedIsPlanned, BuildIsTrue,
         CurrentIsTrue, IsPlan, SegmentsAreOf, SelectsTheOffered, IsPackage

\* What a whole build publishes: the rows of its plan, with the audio it rendered,
\* which is the approved where the plan approves one.
LEMMA PackageIsAPackage ==
  ASSUME NEW lesson, IsLesson(lesson), NEW plan, IsPlan(lesson, plan),
         NEW rendered \in Seq(Nat \ {NoAudio}), Len(rendered) = Len(plan.segments),
         \A i \in DOMAIN rendered :
            i \in DOMAIN plan.segments => plan.segments[i].audio \in {NoAudio, rendered[i]}
  PROVE  IsPackage(Package(plan, rendered))
  <1> DEFINE rows == Package(plan, rendered).segments
             n == Len(lesson)
  <1>1. n \in Nat /\ n # 0 /\ DOMAIN lesson = 1 .. n
    BY EmptySeq, LenProperties DEF IsLesson
  <1>2. plan.segments = [i \in 1 .. n |-> plan.segments[i]] /\ DOMAIN plan.segments = 1 .. n
    <2>1. plan.segments = [i \in 1 .. n |-> plan.segments[i]]
      BY <1>1 DEF IsPlan, SegmentsAreOf
    <2> QED BY <2>1, Zenon
  <1>3. Len(rendered) = n /\ DOMAIN rendered = 1 .. n
    BY <1>1, <1>2, FunctionIsSeq, LenProperties
  <1>4. /\ Package(plan, rendered).source = plan.source
        /\ rows = [i \in 1 .. n |-> Selection(plan.segments[i].id, plan.segments[i].base, plan.segments[i].take,
                                              plan.segments[i].key, rendered[i])]
    BY <1>2 DEF Package
  <1>5. rows \in Seq(Range(rows)) /\ Len(rows) = n /\ DOMAIN rows = 1 .. n
    <2>1. rows = [i \in 1 .. n |-> rows[i]]
      BY <1>4
    <2> HIDE DEF rows, n
    <2> QED BY <1>1, <2>1, FunctionIsSeq, LenProperties
  <1>6. ASSUME NEW i \in 1 .. n
        PROVE  /\ IsRow(rows[i]) /\ rows[i].id = lesson[i].id
               /\ rows[i].base = Key(rows[i].key[1], BaseTake) /\ rows[i].key = Key(rows[i].key[1], rows[i].take)
               /\ plan.source = "explicit" => rows[i] \in offered
    <2>1. /\ plan.segments[i].id = lesson[i].id
          /\ plan.segments[i].base = Key(lesson[i].wording, BaseTake)
          /\ plan.segments[i].key = Key(lesson[i].wording, plan.segments[i].take)
      <3>1. plan.segments[i] = [id |-> lesson[i].id, layout |-> lesson[i].layout, take |-> plan.segments[i].take,
                   base |-> Key(lesson[i].wording, BaseTake),
                   key |-> Key(lesson[i].wording, plan.segments[i].take), audio |-> plan.segments[i].audio]
        BY <1>1 DEF IsPlan, SegmentsAreOf
      <3> QED BY ONLY <3>1
    <2>2. rendered[i] \in Nat \ {NoAudio} /\ plan.segments[i].audio \in {NoAudio, rendered[i]}
      BY <1>2, <1>3, ElementOfSeq
    <2>3. rows[i] = Selection(plan.segments[i].id, plan.segments[i].base, plan.segments[i].take,
                              plan.segments[i].key, rendered[i])
      BY <1>4
    <2>4. /\ rows[i].id = plan.segments[i].id /\ rows[i].base = plan.segments[i].base
          /\ rows[i].take = plan.segments[i].take /\ rows[i].key = plan.segments[i].key
          /\ rows[i].audio = rendered[i]
      BY <2>3 DEF Selection
    <2>5. IsRow(rows[i])
      BY <2>2, <2>3, <2>4 DEF IsRow
    <2>6. plan.source = "explicit" => rows[i] \in offered
      BY <1>2, <2>2, <2>3 DEF IsPlan, SelectsTheOffered
    <2> HIDE DEF rows
    <2> QED BY <2>1, <2>4, <2>5, <2>6 DEF Key
  <1>7. rows # <<>>
    BY <1>1, <1>5, EmptySeq
  <1>8. \A i, j \in 1 .. n : rows[i].id = rows[j].id => i = j
    <2> HIDE DEF rows
    <2> QED BY <1>1, <1>6 DEF IsLesson
  <1> QED BY <1>4, <1>5, <1>6, <1>7, <1>8 DEF IsPackage

LEMMA PublishBuildKeepsTakesInv ==
  ASSUME TakesInv, PublishBuild
  PROVE  TakesInv'
  <1>1. /\ UNCHANGED <<authored, takes, cache, heard, retained, offered>> /\ build' = Nothing
        /\ current' = current \/ current' = One(Package(build[1].plan, build[1].rendered))
    BY DEF PublishBuild
  <1>2. IsPackage(Package(build[1].plan, build[1].rendered))
    <2>1. /\ build # Nothing /\ retained # Nothing /\ build[1].plan = retained[1].plan
          /\ Len(build[1].rendered) = Len(build[1].plan.segments)
      BY DEF PublishBuild, TakesInv, BuildIsTrue
    <2>2. IsLesson(retained[1].lesson) /\ IsPlan(retained[1].lesson, build[1].plan)
      BY <2>1 DEF TakesInv, RetainedIsPlanned
    <2>3. /\ build[1].rendered \in Seq(Nat \ {NoAudio})
          /\ \A i \in DOMAIN build[1].rendered :
                i \in DOMAIN build[1].plan.segments
                  => build[1].plan.segments[i].audio \in {NoAudio, build[1].rendered[i]}
      BY <2>1 DEF TakesInv, BuildIsTrue
    <2> QED BY <2>1, <2>2, <2>3, PackageIsAPackage
  <1>3. CurrentIsTrue'
    <2>1. CASE current' = current
      BY <1>1, <2>1 DEF TakesInv, CurrentIsTrue, IsPackage
    <2>2. CASE current' = One(Package(build[1].plan, build[1].rendered))
      <3>1. current' = One(current'[1]) /\ current'[1] = Package(build[1].plan, build[1].rendered)
        BY <2>2 DEF One
      <3>2. IsPackage(current'[1])
        BY <1>2, <3>1
      <3>3. IsPackage(current[1])'
        BY <1>1, <3>2 DEF IsPackage
      <3> QED BY <3>1, <3>3 DEF CurrentIsTrue
    <2> QED BY <1>1, <2>1, <2>2
  <1> QED BY <1>1, <1>3 DEF TakesInv, IsLesson, TakesAreOffered, AudioIsHeard, RetainedIsPlanned, BuildIsTrue,
               IsPlan, SegmentsAreOf, SelectsTheOffered

-----------------------------------------------------------------------------
(* The theorems. *)

\* TakesInv is inductive: what is selected was offered, lesson by lesson and key by
\* key, whatever is edited, lost, retaken, killed or resumed.
THEOREM TakesInvariant == TakesSpec => []TakesInv
  <1>1. TakesInit => TakesInv
    <2> SUFFICES ASSUME TakesInit PROVE TakesInv
      OBVIOUS
    <2>1. IsLesson(authored)
      BY DEF TakesInit, FirstLesson, IsLesson
    <2> QED BY <2>1, EmptySeq DEF TakesInit, TakesInv, TakesAreOffered, AudioIsHeard, RetainedIsPlanned,
                 BuildIsTrue, CurrentIsTrue, NoTakes, Nothing
  <1>2. TakesInv /\ [TakesNext]_takeVars => TakesInv'
    <2> SUFFICES ASSUME TakesInv, [TakesNext]_takeVars PROVE TakesInv'
      OBVIOUS
    <2>1. CASE RenderLesson \/ RetakeLesson \/ ResumeLesson
      BY <2>1, BuildsBeginFromAPlan
    <2>2. CASE EditLessonText \/ EditTakes \/ AcceptTakes \/ LoseEntry
      BY <2>2, EditLessonTextKeepsTakesInv, EditTakesKeepsTakesInv, AcceptTakesKeepsTakesInv, LoseEntryKeepsTakesInv
    <2>3. CASE RenderSegment \/ PublishBuild \/ KillBuild
      BY <2>3, RenderSegmentKeepsTakesInv, PublishBuildKeepsTakesInv, KillBuildKeepsTakesInv
    <2>4. CASE UNCHANGED takeVars
      BY <2>4 DEF takeVars, TakesInv, IsLesson, TakesAreOffered, AudioIsHeard, RetainedIsPlanned, BuildIsTrue,
                  CurrentIsTrue, IsPlan, SegmentsAreOf, SelectsTheOffered, IsPackage
    <2> QED BY <2>1, <2>2, <2>3, <2>4 DEF TakesNext
  <1> QED BY <1>1, <1>2, PTL DEF TakesSpec

\* A package that calls its selection explicit holds only takes somebody accepted
\* (invariant I-3 of pipeline.rs).
THEOREM ExplicitWasAccepted == TakesSpec => []ExplicitMeansAccepted
  <1>1. TakesInv => ExplicitMeansAccepted
    <2> SUFFICES ASSUME TakesInv, current # Nothing, current[1].source = "explicit"
                 PROVE  ToSet(RecordedSelections(current[1])) \subseteq offered
      BY DEF ExplicitMeansAccepted
    <2> DEFINE package == current[1]
    <2>1. IsPackage(package)
      BY DEF TakesInv, CurrentIsTrue
    <2>2. \A i \in DOMAIN package.segments :
             LET s == package.segments[i] IN Selection(s.id, s.base, s.take, s.key, s.audio) \in offered
      BY <2>1 DEF IsPackage, IsRow
    <2> QED BY <2>2 DEF RecordedSelections, ToSet
  <1> QED BY <1>1, TakesInvariant, PTL

\* The takes that accept_current_takes writes of a package build that package again,
\* as an explicit one, as long as the words are the same (takes.rs, pipeline.rs).
LEMMA AcceptedSelectionHolds ==
  ASSUME NEW lesson, IsLesson(lesson), NEW package, IsPackage(package),
         [i \in DOMAIN lesson |-> <<lesson[i].id, lesson[i].wording>>]
         = [i \in DOMAIN package.segments |-> <<package.segments[i].id, package.segments[i].key[1]>>]
  PROVE  LET again == SelectPlan(lesson, TRUE, RecordedSelections(package), <<>>)
         IN  /\ again.outcome = "ok" /\ again.plan.source = "explicit"
             /\ RecordedSelections(again.plan) = RecordedSelections(package)
  <1> DEFINE rows == package.segments
             n == Len(rows)
             base == PlanOf(lesson, "implicit", <<>>)
             explicit == PlanOf(lesson, "explicit", rows)
  <1>1. RecordedSelections(package) = rows
    BY LenProperties DEF IsPackage, IsRow, RecordedSelections
  <1>2. n \in Nat /\ DOMAIN rows = 1 .. n /\ rows # <<>> /\ DOMAIN lesson = 1 .. n
    <2>1. n \in Nat /\ DOMAIN rows = 1 .. n /\ rows # <<>>
      BY LenProperties DEF IsPackage
    <2>2. DOMAIN lesson = DOMAIN rows
      BY Zenon
    <2> QED BY <2>1, <2>2
  <1>3. ASSUME NEW i \in 1 .. n
        PROVE  /\ lesson[i].id = rows[i].id /\ lesson[i].wording = rows[i].key[1]
               /\ rows[i].base = Key(lesson[i].wording, BaseTake)
               /\ rows[i].key = Key(lesson[i].wording, rows[i].take)
               /\ rows[i].id \in Ids(rows) /\ RowOf(rows, rows[i].id) = rows[i]
               /\ rows[i] = Selection(rows[i].id, rows[i].base, rows[i].take, rows[i].key, rows[i].audio)
    <2>1. <<lesson[i].id, lesson[i].wording>> = <<rows[i].id, rows[i].key[1]>>
      <3>1. [j \in DOMAIN lesson |-> <<lesson[j].id, lesson[j].wording>>][i]
            = [j \in DOMAIN rows |-> <<rows[j].id, rows[j].key[1]>>][i]
        BY Zenon
      <3> QED BY <1>2, <3>1
    <2>2. rows[i].base = Key(rows[i].key[1], BaseTake) /\ rows[i].key = Key(rows[i].key[1], rows[i].take)
      BY <1>2 DEF IsPackage
    <2>3. rows[i].id \in Ids(rows) /\ RowOf(rows, rows[i].id) = rows[i]
      BY <1>2, RowOfTheOnlyOne DEF IsPackage
    <2>4. rows[i] = Selection(rows[i].id, rows[i].base, rows[i].take, rows[i].key, rows[i].audio)
      BY <1>2 DEF IsPackage, IsRow
    <2> HIDE DEF rows
    <2> QED BY <2>1, <2>2, <2>3, <2>4
  <1>4. TakesFault(rows) = "ok"
    <2> DEFINE faults == [i \in DOMAIN rows |-> SelectionFault(rows, i)]
    <2>1. \A i \in 1 .. n : faults[i] = "ok"
      <3> SUFFICES ASSUME NEW i \in 1 .. n PROVE SelectionFault(rows, i) = "ok"
        BY <1>2
      <3>1. ~\E j \in 1 .. i - 1 : rows[j].id = rows[i].id
        BY <1>2 DEF IsPackage
      <3>2. /\ ~(rows[i].take = BaseTake /\ rows[i].key # rows[i].base)
            /\ ~(rows[i].take # BaseTake /\ rows[i].key = rows[i].base)
        <4> HIDE DEF rows
        <4> QED BY <1>3 DEF Key
      <3> HIDE DEF rows
      <3> QED BY <3>1, <3>2 DEF SelectionFault
    <2>2. DOMAIN faults = 1 .. n
      BY <1>2
    <2> HIDE DEF faults, rows
    <2>3. FirstFaultOf(faults) = "ok"
      BY <1>2, <2>1, <2>2, NoFaultIsFirst
    <2> QED BY <1>2, <2>3 DEF TakesFault, faults
  <1>5. /\ DOMAIN base.segments = 1 .. n
        /\ \A i \in 1 .. n : base.segments[i].id = lesson[i].id
                             /\ base.segments[i].key = Key(lesson[i].wording, BaseTake)
    BY <1>2 DEF PlanOf, Ids
  <1>6. ReconcileFault(rows, base) = "ok"
    <2> DEFINE faults == [i \in DOMAIN base.segments |->
                 IF base.segments[i].id \notin Ids(rows) THEN "UnselectedSegment"
                 ELSE IF RowOf(rows, base.segments[i].id).base # base.segments[i].key
                      THEN "StaleSynthesisBaseKey" ELSE "ok"]
    <2>1. \A i \in 1 .. n : faults[i] = "ok"
      <3> HIDE DEF rows, base
      <3> QED BY <1>3, <1>5
    <2>2. DOMAIN faults = 1 .. n
      BY <1>5
    <2>3. FirstFaultOf(faults) = "ok"
      <3> HIDE DEF faults, rows, base
      <3> QED BY <1>2, <2>1, <2>2, NoFaultIsFirst
    <2>4. Ids(rows) \subseteq Ids(base.segments)
      <3> HIDE DEF rows, base
      <3> QED BY <1>2, <1>3, <1>5 DEF Ids
    <2> HIDE DEF rows, base
    <2> QED BY <2>3, <2>4, Zenon DEF ReconcileFault
  <1>7. /\ DOMAIN explicit.segments = 1 .. n /\ explicit.source = "explicit"
        /\ \A i \in 1 .. n : LET s == explicit.segments[i]
                             IN  /\ s.id = rows[i].id /\ s.take = rows[i].take /\ s.base = rows[i].base
                                 /\ s.key = rows[i].key /\ s.audio = rows[i].audio
    <2> HIDE DEF rows
    <2> QED BY <1>2, <1>3 DEF PlanOf
  <1>8. SelectedKeysFault(rows, explicit) = "ok"
    <2> HIDE DEF rows, explicit
    <2> QED BY <1>3, <1>7 DEF SelectedKeysFault
  <1>9. RecordedSelections(explicit) = rows
    <2> HIDE DEF explicit
    <2>1. RecordedSelections(explicit) = [i \in 1 .. n |-> rows[i]]
      BY <1>3, <1>7 DEF RecordedSelections
    <2> QED BY <1>2, <2>1, LenProperties DEF IsPackage
  <1>10. RetakeFault(lesson, rows, <<>>) = "ok"
    BY DEF RetakeFault
  <1>11. SelectPlan(lesson, TRUE, rows, <<>>) = [outcome |-> "ok", plan |-> explicit]
    <2> HIDE DEF rows
    <2> QED BY <1>4, <1>6, <1>8, <1>10 DEF SelectPlan
  <1> DEFINE again == SelectPlan(lesson, TRUE, RecordedSelections(package), <<>>)
  <1>12. again = [outcome |-> "ok", plan |-> explicit]
    BY <1>1, <1>11
  <1>13. again.outcome = "ok" /\ again.plan = explicit
    <2> HIDE DEF again, explicit
    <2> QED BY ONLY <1>12
  <1>14. RecordedSelections(again.plan) = RecordedSelections(package)
    BY ONLY <1>1, <1>9, <1>13, Zenon
  <1>15. again.plan.source = "explicit"
    BY ONLY <1>7, <1>13, Zenon
  <1> QED BY ONLY <1>13, <1>14, <1>15, Zenon

THEOREM AcceptedCanBeBuilt == TakesSpec => []AcceptedTakesCanBeBuilt
  <1>1. TakesInv => AcceptedTakesCanBeBuilt
    <2> SUFFICES ASSUME TakesInv, NEW package \in ToSet(current),
                        [i \in DOMAIN authored |-> <<authored[i].id, authored[i].wording>>]
                        = [i \in DOMAIN package.segments |-> <<package.segments[i].id, package.segments[i].key[1]>>]
                 PROVE  LET again == SelectPlan(authored, TRUE, RecordedSelections(package), <<>>)
                        IN  /\ again.outcome = "ok" /\ again.plan.source = "explicit"
                            /\ RecordedSelections(again.plan) = RecordedSelections(package)
      BY DEF AcceptedTakesCanBeBuilt
    <2>1. IsPackage(package)
      BY DEF TakesInv, CurrentIsTrue, One, Nothing, ToSet
    <2> QED BY <2>1, AcceptedSelectionHolds DEF TakesInv
  <1> QED BY <1>1, TakesInvariant, PTL
=============================================================================
