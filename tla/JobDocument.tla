---------------------------- MODULE JobDocument ----------------------------
(***************************************************************************)
(* The authoritative job document, jobs/<job-id>/job.json, as a value: the *)
(* state machine of core/job.rs, the constructor of a build attempt, and   *)
(* the checks job_repository.rs repeats at the durable boundary.  The      *)
(* module has no variables; JobLifecycle and PreviewBuild store documents. *)
(*                                                                         *)
(* Data abstraction.  A lesson is its script, what the plan's segments are *)
(* made of, and its layout, the rest of its bytes; its digest is injective *)
(* on both.  A plan's hash is injective on the segments: the script, the   *)
(* selected takes and the synthesis environment (executor descriptor and   *)
(* voice conditioning).  A manifest's digest is injective on the plan, the *)
(* tools, the selection source and the build attempt it records.           *)
(***************************************************************************)
EXTENDS Naturals

CONSTANTS
    Scripts,      \* what a lesson's planned segments say
    Layouts,      \* the bytes of a lesson that reach no segment
    Takes,        \* take selections a takes file may record
    Envs,         \* executor descriptors with voice conditioning
    Toolsets,     \* ffmpeg/ffprobe identities with their argument profiles
    Sources,      \* take_selection_source: explicit or implicit
    NumSegments,  \* segments of a plan
    MaxAttempt,   \* u32::MAX, scaled down: the largest build_attempt
    None          \* Option::None

ASSUME NumSegmentsAssumption == NumSegments \in Nat \ {0}
ASSUME MaxAttemptAssumption == MaxAttempt \in Nat \ {0}

Segments == 1 .. NumSegments
Attempt == 1 .. MaxAttempt

Lesson == [script : Scripts, layout : Layouts]

Plan == [script : Scripts, takes : Takes, env : Envs]

Manifest ==
    [plan : Plan, tools : Toolsets, source : Sources, attempt : Attempt]

ASSUME NoneAssumption == None \notin Manifest

-----------------------------------------------------------------------------
(* The ADR-0001 6.4 state machine. *)

JobState ==
    {"Created", "Validated", "Planned", "Rendering", "Rendered", "Verifying",
     "Verified", "NeedsReview", "Assembling", "QualityChecked", "Published",
     "Failed", "Cancelled"}

\* The states may_transition_to accepts from each state.
Successors ==
    [s \in JobState |->
        CASE s = "Created"        -> {"Validated"}
          [] s = "Validated"      -> {"Planned"}
          [] s = "Planned"        -> {"Rendering"}
          [] s = "Rendering"      -> {"Rendering", "Rendered", "Failed", "Cancelled"}
          [] s = "Rendered"       -> {"Verifying"}
          [] s = "Verifying"      -> {"Verifying", "Verified", "NeedsReview", "Failed"}
          [] s = "Verified"       -> {"Assembling", "Verifying"}
          [] s = "NeedsReview"    -> {"Verified", "Planned"}
          [] s = "Assembling"     -> {"QualityChecked", "Failed"}
          [] s = "QualityChecked" -> {"Published"}
          [] s = "Failed"         -> {"Verifying", "Planned"}
          [] s = "Cancelled"      -> {"Planned"}
          [] s = "Published"      -> {}]

MayTransitionTo(s, next) == next \in Successors[s]

HasRendered(s) ==
    s \in {"Rendered", "Verifying", "Verified", "NeedsReview", "Assembling",
           "QualityChecked", "Published"}

ReleaseStatus == {"PrivatePreview", "ProductionRelease"}

AbandonedAttempt == [attempt : Attempt, state : JobState]

Document ==
    [attempt   : Attempt,
     state     : JobState,
     last      : JobState,
     abandoned : AbandonedAttempt \cup {None},
     lesson    : Lesson,
     plan      : Plan,
     segments  : SUBSET Segments,
     preview   : Manifest \cup {None},
     release   : ReleaseStatus]

\* An Option that holds nothing is neither record.
ASSUME AbsenceAssumption == None \notin AbandonedAttempt /\ None \notin Document

-----------------------------------------------------------------------------
(* Constructing and moving a document (JobDocument's methods). *)

\* Mutant: the attempt counter is taken to be unbounded.
AttemptNeverOverflows(previous) == FALSE

\* checked_add(1): no successor attempt exists past u32::MAX.
AttemptOverflows(previous) ==
    previous # None /\ previous.attempt = MaxAttempt

\* Mutant: the abandoned attempt is recorded by its last success, not its state.
OpenAttemptLastSuccess(previous, lesson, plan) ==
    [attempt   |-> IF previous = None THEN 1 ELSE previous.attempt + 1,
     state     |-> "Created",
     last      |-> "Created",
     abandoned |-> IF previous = None THEN None
                   ELSE [attempt |-> previous.attempt, state |-> previous.last],
     lesson    |-> lesson,
     plan      |-> plan,
     segments  |-> {},
     preview   |-> None,
     release   |-> "PrivatePreview"]

\* The document of the next build attempt.  Every field starts over: nothing
\* of the abandoned attempt survives but its number and its state.
OpenAttempt(previous, lesson, plan) ==
    [attempt   |-> IF previous = None THEN 1 ELSE previous.attempt + 1,
     state     |-> "Created",
     last      |-> "Created",
     abandoned |-> IF previous = None THEN None
                   ELSE [attempt |-> previous.attempt, state |-> previous.state],
     lesson    |-> lesson,
     plan      |-> plan,
     segments  |-> {},
     preview   |-> None,
     release   |-> "PrivatePreview"]

\* Whether transition() returns a document rather than a JobStateError.
TransitionAllowed(doc, next) ==
    /\ MayTransitionTo(doc.state, next)
    /\ next = "Published" => doc.release = "ProductionRelease"

\* Mutant: going back to Planned keeps the package of the plan given up.
TransitionKeepsPreview(doc, next) ==
    [doc EXCEPT
        !.last = IF next \in {"Failed", "Cancelled"} THEN @ ELSE next,
        !.state = next]

Transition(doc, next) ==
    [doc EXCEPT
        !.last = IF next \in {"Failed", "Cancelled"} THEN @ ELSE next,
        !.state = next,
        !.preview = IF next = "Planned" THEN None ELSE @]

WithSegment(doc, i) == [doc EXCEPT !.segments = @ \cup {i}]

WithPreviewPackage(doc, m) == [doc EXCEPT !.preview = m]

-----------------------------------------------------------------------------
(* Checks of the durable boundary (job_repository.rs). *)

AttemptsAreCoherent(doc) ==
    IF doc.abandoned = None
    THEN doc.attempt = 1
    ELSE doc.abandoned.attempt + 1 = doc.attempt

StatesAreCoherent(state, last) ==
    CASE state = "Failed"    -> last \in {"Rendering", "Verifying", "Assembling"}
      [] state = "Cancelled" -> last = "Rendering"
      [] OTHER               -> state = last

\* Version, job identity, segment ceiling and the equality of the two package
\* digests hold of every value of Document; what is left is what can fail.
ValidateDocument(doc) ==
    /\ doc.state = "Published" => doc.release = "ProductionRelease"
    /\ AttemptsAreCoherent(doc)
    /\ StatesAreCoherent(doc.state, doc.last)
    /\ doc.preview # None => HasRendered(doc.last)

ValidateInitialState(doc) == doc.state \in {"Created", "Validated", "Planned"}

ValidateReplacement(current, doc) ==
    IF doc.attempt = current.attempt
    THEN /\ doc.abandoned = current.abandoned
         /\ doc.state = current.state \/ MayTransitionTo(current.state, doc.state)
    ELSE /\ doc.attempt = current.attempt + 1
         /\ doc.abandoned = [attempt |-> current.attempt, state |-> current.state]
         /\ ValidateInitialState(doc)
=============================================================================
