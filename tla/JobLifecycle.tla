---------------------------- MODULE JobLifecycle ----------------------------
(***************************************************************************)
(* The whole ADR-0001 6.4 state machine of core/job.rs, driven through     *)
(* JobDocument's methods and saved through job_repository's boundary.  The *)
(* preview pipeline stops at Rendered; this module also takes the edges    *)
(* that still wait for a producer (verification, review, failure,          *)
(* cancellation), in the way the pipeline takes its own: one method in     *)
(* memory, then one durable replacement.                                   *)
(***************************************************************************)
EXTENDS JobDocument

VARIABLES
    doc,  \* the document in memory, or None before the first attempt
    job   \* job.json, or None

jobVars == <<doc, job>>

JobInit == doc = None /\ job = None

\* An attempt is opened over what job.json holds; a document that was not saved
\* is lost, as in a process that ended.
Open(lesson, plan) ==
    /\ plan.script = lesson.script
    /\ ~AttemptOverflows(job)
    /\ doc' = OpenAttempt(job, lesson, plan)
    /\ UNCHANGED job

\* Whether job.json holds an earlier state of the attempt in memory.
AttemptIsSaved == job # None /\ job.attempt = doc.attempt

\* A new attempt is walked to Planned in memory; once it is saved, every state
\* is saved before the next edge is taken.
Move(next) ==
    /\ doc # None
    /\ doc = job \/ (~AttemptIsSaved /\ doc.state \in {"Created", "Validated"})
    /\ TransitionAllowed(doc, next)
    /\ doc' = Transition(doc, next)
    /\ UNCHANGED job

\* One segment completed: the self-loop of Rendering with its status.
RecordSegment(i) ==
    /\ doc # None /\ doc = job
    /\ TransitionAllowed(doc, "Rendering")
    /\ doc.state = "Rendering"
    /\ doc' = WithSegment(Transition(doc, "Rendering"), i)
    /\ UNCHANGED job

\* A package is selected for the plan that has been rendered.
RecordPreview(m) ==
    /\ doc # None /\ doc = job
    /\ HasRendered(doc.last)
    /\ m.plan = doc.plan
    /\ doc' = WithPreviewPackage(doc, m)
    /\ UNCHANGED job

\* What replace_document asks before it writes, the log aside.
SaveAllowed(d) ==
    /\ ValidateDocument(d)
    /\ IF job = None THEN ValidateInitialState(d) ELSE ValidateReplacement(job, d)

Save ==
    /\ doc # None /\ doc # job
    /\ SaveAllowed(doc)
    /\ job' = doc
    /\ UNCHANGED doc

JobNext ==
    \/ \E lesson \in Lesson, plan \in Plan : Open(lesson, plan)
    \/ \E next \in JobState : Move(next)
    \/ \E i \in Segments : RecordSegment(i)
    \/ \E m \in Manifest : RecordPreview(m)
    \/ Save

JobSpec == JobInit /\ [][JobNext]_jobVars

-----------------------------------------------------------------------------

\* Every document that is built or saved is one job.json can hold, in particular no
\* attempt is numbered past u32::MAX.
JobTypeOK == doc \in Document \cup {None} /\ job \in Document \cup {None}

\* The durable boundary never refuses a document the methods built: the checks
\* of validate_document and validate_replacement ask for nothing that open_attempt,
\* transition, with_segment and with_preview_package do not keep on every path of
\* the machine, through failures, cancellations, reviews and new attempts.
BoundaryAccepts == doc # None => doc = job \/ SaveAllowed(doc)

\* A recorded preview belongs to the plan of the document that records it, and
\* the attempt has rendered: no edge back to planning keeps an old package.
PreviewIsOfThePlan ==
    \A d \in {doc, job} :
        d # None /\ d.preview # None => d.preview.plan = d.plan /\ HasRendered(d.last)

\* The three together: on every path of the machine a document can be numbered, can be
\* saved, and says of its package what is true.
LifecycleIsCoherent == JobTypeOK /\ BoundaryAccepts /\ PreviewIsOfThePlan
=============================================================================
