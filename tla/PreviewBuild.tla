---------------------------- MODULE PreviewBuild ----------------------------
(***************************************************************************)
(* The preview pipeline (pipeline.rs) over the job repository             *)
(* (job_repository.rs): commands that build or resume one job from several *)
(* processes.  A command claims the job lock, loads job.json, reconciles   *)
(* publication, retains its inputs, opens the next attempt, renders every  *)
(* segment, writes the package and records it, and leaves.  It may be      *)
(* killed between any two durable writes, or have any of them fail.        *)
(*                                                                         *)
(* JobLock, JobEvents, PackagePublication and JobDocument supply the       *)
(* steps; this module orders them and adds the files of the job directory. *)
(***************************************************************************)
EXTENDS JobLock, PackagePublication

VARIABLES
    job,         \* job.json, or None
    lessonFile,  \* the retained lesson.json, or None
    planFile,    \* the retained plan.json with its selection source, or None
    report,      \* jobs/<job-id>/run-report.json, or None
    pc,          \* each command's place in the pipeline
    mem          \* each command's memory and its outcome

fileVars == <<job, lessonFile, planFile, report>>
vars == <<lockVars, eventVars, pubVars, fileVars, pc, mem>>

Step ==
    {"claim", "inputs", "prepare", "preparing", "lesson", "plan", "replace",
     "append", "stage", "resolve", "write", "writing", "report", "leave"}

\* The steps between Load and the drop of the lock.
Working == Step \ {"claim", "leave"}

\* A command's memory: opened is BuildProgress::build_attempt, 0 before the attempt is
\* durable, todo are the stages still to be logged.
Blank ==
    [cmd |-> "none", lesson |-> None, plan |-> None, source |-> None, tools |-> None,
     prev |-> None, doc |-> None, opened |-> 0, todo |-> <<>>, outcome |-> "none"]

BuildInit ==
    /\ LockInit /\ EventsInit /\ PubInit
    /\ job = None /\ lessonFile = None /\ planFile = None /\ report = None
    /\ pc = [p \in Proc |-> "claim"]
    /\ mem = [p \in Proc |-> Blank]

-----------------------------------------------------------------------------
(* Helpers. *)

\* p holds the job and is at a step of the pipeline.
At(p, step) == Owns(p) /\ pc[p] = step

MoveTo(p, step) == pc' = [pc EXCEPT ![p] = step]

\* What is left of a command whose locals are gone: its outcome and its attempt.
Ended(outcome, opened) == [Blank EXCEPT !.opened = opened, !.outcome = outcome]

\* render_attempt_inner returns an error: locals are dropped, then the lock.
Refuse(p, reason) ==
    /\ pc' = [pc EXCEPT ![p] = "leave"]
    /\ mem' = [mem EXCEPT ![p] = Ended(reason, mem[p].opened)]
    /\ pub' = [pub EXCEPT ![p] = Idle]

\* BuildProgress::report.
Report(attempt, complete) == [attempt |-> attempt, complete |-> complete]

pubFiles == <<journal, stages, packages, current, quarantined, started, lastWrite>>

-----------------------------------------------------------------------------
(* Starting a command.  A build passes its gate before it claims the job: the *)
(* plan, the tools and the selection source are fixed from then on.           *)

StartBuild(p) ==
    /\ StartProcess(p)
    /\ \E lesson \in Lesson, plan \in Plan, source \in Sources, tools \in Toolsets :
          /\ plan.script = lesson.script
          /\ mem' = [mem EXCEPT ![p] =
                       [Blank EXCEPT !.cmd = "build", !.lesson = lesson, !.plan = plan,
                                     !.source = source, !.tools = tools]]
    /\ UNCHANGED <<eventVars, pubVars, fileVars, pc>>

StartResume(p) ==
    /\ StartProcess(p)
    /\ mem' = [mem EXCEPT ![p].cmd = "resume"]
    /\ UNCHANGED <<eventVars, pubVars, fileVars, pc>>

ClaimStep(p) ==
    /\ \/ /\ \/ TakeFlock(p) \/ LoseFlock(p) \/ ExamineRecord(p)
             \/ TruncateRecord(p) \/ WriteRecord(p) \/ FinishRecord(p) \/ RecordFails(p)
             \/ ClearRecord(p) \/ CloseLock(p)
          /\ UNCHANGED eventVars
       \/ LogTakeover(p)
    /\ UNCHANGED <<pubVars, fileVars, pc, mem>>

-----------------------------------------------------------------------------
(* Under the lock, before the attempt is opened. *)

\* The event log is only looked at when there is a document to trust.
Load(p) ==
    /\ At(p, "claim")
    /\ IF job # None /\ ~ValidLog THEN Refuse(p, "MalformedJobEventLog")
       ELSE IF job = None /\ mem[p].cmd = "resume" THEN Refuse(p, "NoJobToResume")
       ELSE /\ mem' = [mem EXCEPT ![p].prev = job]
            /\ MoveTo(p, IF mem[p].cmd = "resume" THEN "inputs" ELSE "prepare")
            /\ UNCHANGED pub
    /\ UNCHANGED <<lockVars, eventVars, pubFiles, fileVars>>

\* Mutant: resume looks for a takes file again instead of recovering the takes.
ResumeRediscoversTakes(p) ==
    /\ At(p, "inputs")
    /\ lessonFile # None /\ planFile # None
    /\ lessonFile = mem[p].prev.lesson
    /\ \E takes \in Takes, env \in Envs, source \in Sources, tools \in Toolsets :
          mem' = [mem EXCEPT
            ![p].lesson = lessonFile,
            ![p].plan = [script |-> lessonFile.script, takes |-> takes, env |-> env],
            ![p].source = source,
            ![p].tools = tools]
    /\ MoveTo(p, "prepare")
    /\ UNCHANGED <<lockVars, eventVars, pubVars, fileVars>>

\* resume: the retained files must agree with the document; the lesson, the
\* takes and their source come from them, the environment from the gate.
ResumeInputs(p) ==
    /\ At(p, "inputs")
    /\ LET prev == mem[p].prev IN
       IF lessonFile = None THEN Refuse(p, "NoJobToResume")
       ELSE IF lessonFile # prev.lesson THEN Refuse(p, "RetainedLessonMismatch")
       ELSE IF planFile = None THEN Refuse(p, "NoJobToResume")
       ELSE IF planFile.plan # prev.plan THEN Refuse(p, "JobPlanHashMismatch")
       ELSE /\ \E env \in Envs, tools \in Toolsets :
                 mem' = [mem EXCEPT
                   ![p].lesson = lessonFile,
                   ![p].plan = [script |-> lessonFile.script,
                                takes |-> planFile.plan.takes, env |-> env],
                   ![p].source = planFile.source,
                   ![p].tools = tools]
            /\ MoveTo(p, "prepare")
            /\ UNCHANGED pub
    /\ UNCHANGED <<lockVars, eventVars, pubFiles, fileVars>>

Prepare(p) ==
    /\ At(p, "prepare")
    /\ BeginPrepare(p)
    /\ MoveTo(p, "preparing")
    /\ UNCHANGED <<lockVars, eventVars, fileVars, mem>>

PublicationStep(p) ==
    /\ Owns(p) /\ pc[p] \in {"preparing", "writing"}
    /\ PubWork(p)
    /\ UNCHANGED <<lockVars, eventVars, fileVars, pc, mem>>

\* validate_preview_selection: a recorded completion names the selected package,
\* and that package is of the recorded plan.
SelectionMatches(prev) ==
    prev # None /\ prev.preview # None =>
        current = prev.preview /\ CurrentIsValid /\ current.plan = prev.plan

Prepared(p) ==
    /\ At(p, "preparing")
    /\ pub[p].step \in {"ready", "refused"}
    /\ IF pub[p].step = "refused" THEN Refuse(p, "CorruptPublication")
       ELSE IF ~SelectionMatches(mem[p].prev) THEN Refuse(p, "JobPreviewSelectionMismatch")
       ELSE MoveTo(p, "lesson") /\ UNCHANGED <<pub, mem>>
    /\ UNCHANGED <<lockVars, eventVars, pubFiles, fileVars>>

\* retain_inputs, first file.
RetainLesson(p) ==
    /\ At(p, "lesson")
    /\ lessonFile' = mem[p].lesson
    /\ MoveTo(p, "plan")
    /\ UNCHANGED <<lockVars, eventVars, pubVars, job, planFile, report, mem>>

\* retain_inputs, second file; then the attempt is opened and walked to Planned
\* in memory.
RetainPlan(p) ==
    /\ At(p, "plan")
    /\ planFile' = [plan |-> mem[p].plan, source |-> mem[p].source]
    /\ IF AttemptOverflows(mem[p].prev) THEN Refuse(p, "AttemptOverflow")
       ELSE LET created == OpenAttempt(mem[p].prev, mem[p].lesson, mem[p].plan)
            IN  /\ mem' = [mem EXCEPT ![p].doc =
                             Transition(Transition(created, "Validated"), "Planned")]
                /\ MoveTo(p, "replace")
                /\ UNCHANGED pub
    /\ UNCHANGED <<lockVars, eventVars, pubFiles, job, lessonFile, report>>

-----------------------------------------------------------------------------
(* replace_document: the checks and the preflight, the write, the event. *)

ReplaceAllowed(d) ==
    /\ ValidateDocument(d)
    /\ IF job = None THEN ValidateInitialState(d) ELSE ValidateReplacement(job, d)

\* Mutant: the event is appended before job.json is renamed.
ReplaceLogsFirst(p) ==
    /\ At(p, "replace")
    /\ ReplaceAllowed(mem[p].doc) /\ AppendAllowed(1)
    /\ AppendEvent(StateDurable(mem[p].doc.attempt, mem[p].doc.state))
    /\ MoveTo(p, "append")
    /\ UNCHANGED <<lockVars, pubVars, fileVars, mem>>

Replace(p) ==
    /\ At(p, "replace")
    /\ LET d == mem[p].doc IN
       IF ~ReplaceAllowed(d) THEN Refuse(p, "IllegalReplacement") /\ UNCHANGED job
       ELSE IF ~AppendAllowed(1) THEN Refuse(p, "EventLogRefused") /\ UNCHANGED job
       ELSE job' = d /\ MoveTo(p, "append") /\ UNCHANGED <<pub, mem>>
    /\ UNCHANGED <<lockVars, eventVars, pubFiles, lessonFile, planFile, report>>

\* Mutant: the build reports itself finished once everything is rendered.
AfterReplaceReportsEarly(d) ==
    CASE d.state = "Planned" -> "stage"
      [] d.state = "Rendering" -> IF d.segments = {} THEN "resolve" ELSE "stage"
      [] OTHER -> "report"

\* Where the pipeline goes on once a document is durable and logged.
AfterReplace(d) ==
    CASE d.state = "Planned" -> "stage"
      [] d.state = "Rendering" -> IF d.segments = {} THEN "resolve" ELSE "stage"
      [] OTHER -> IF d.preview = None THEN "write" ELSE "report"

\* The stages logged after a document is durable, or after the package is.
StagesAfter(d) ==
    CASE d.state = "Planned" -> <<"PlanSelected">>
      [] d.state = "Rendering" /\ d.segments # {} -> <<"SegmentResolved">>
      [] OTHER -> <<>>

AppendState(p) ==
    /\ At(p, "append")
    /\ LET d == mem[p].doc IN
       /\ AppendEvent(StateDurable(d.attempt, d.state))
       /\ mem' = [mem EXCEPT ![p].opened = d.attempt, ![p].todo = StagesAfter(d)]
       /\ MoveTo(p, AfterReplace(d))
    /\ UNCHANGED <<lockVars, pubVars, fileVars>>

\* Mutant: the completion names the package write was asked for, not the one it
\* returned.
NextDocumentNamesTarget(p) ==
    LET d == mem[p].doc IN
    CASE d.state = "Planned"  -> Transition(d, "Rendering")
      [] d.state = "Rendered" -> WithPreviewPackage(d, pub[p].target)
      [] OTHER -> IF d.segments = Segments THEN Transition(d, "Rendered") ELSE d

\* The document the pipeline saves next, when the stages are logged.
NextDocument(p) ==
    LET d == mem[p].doc IN
    CASE d.state = "Planned"  -> Transition(d, "Rendering")
      [] d.state = "Rendered" -> WithPreviewPackage(d, pub[p].got)
      [] OTHER -> IF d.segments = Segments THEN Transition(d, "Rendered") ELSE d

\* record_stage, one line at a time.
RecordStage(p) ==
    /\ At(p, "stage")
    /\ IF ~AppendAllowed(1) THEN Refuse(p, "EventLogRefused") /\ UNCHANGED eventVars
       ELSE LET d == mem[p].doc
                last == Len(mem[p].todo) = 1
            IN  /\ AppendEvent(StageEvent(d.attempt, Head(mem[p].todo)))
                /\ mem' = [mem EXCEPT ![p].todo = Tail(@),
                                      ![p].doc = IF last THEN NextDocument(p) ELSE @]
                /\ MoveTo(p, IF ~last THEN "stage"
                             ELSE IF NextDocument(p) = d THEN "resolve" ELSE "replace")
                /\ pub' = IF last /\ d.state = "Rendered"
                          THEN [pub EXCEPT ![p] = Idle] ELSE pub
    /\ UNCHANGED <<lockVars, pubFiles, fileVars>>

-----------------------------------------------------------------------------
(* Rendering, the package, and the end. *)

\* The cache resolves the next segment, by reuse or by synthesis, and the audio
\* is the approved one.
ResolveSegment(p) ==
    /\ At(p, "resolve")
    /\ LET d == mem[p].doc
           left == Segments \ d.segments
       IN  \E i \in left :
              /\ \A j \in left : i <= j
              /\ mem' = [mem EXCEPT ![p].doc = WithSegment(Transition(d, "Rendering"), i)]
    /\ MoveTo(p, "replace")
    /\ UNCHANGED <<lockVars, eventVars, pubVars, fileVars>>

\* Synthesis, validation or publication of the segment fails; the stage that
\* says so is logged if the log takes it, and an error of the append is dropped.
SegmentFails(p) ==
    /\ At(p, "resolve")
    /\ AppendInterrupted(StageEvent(mem[p].doc.attempt, "SegmentFailed"))
    /\ Refuse(p, "failed")
    /\ UNCHANGED <<lockVars, pubFiles, fileVars>>

\* Mutant: every package is numbered as the first attempt's.
PackageOfFirstAttempt(p) ==
    [plan |-> mem[p].plan, tools |-> mem[p].tools, source |-> mem[p].source, attempt |-> 1]

PackageOf(p) ==
    [plan |-> mem[p].plan, tools |-> mem[p].tools, source |-> mem[p].source,
     attempt |-> mem[p].doc.attempt]

StartWrite(p) ==
    /\ At(p, "write")
    /\ BeginWrite(p, PackageOf(p))
    /\ MoveTo(p, "writing")
    /\ UNCHANGED <<lockVars, eventVars, fileVars, mem>>

Written(p) ==
    /\ At(p, "writing")
    /\ pub[p].step \in {"done", "refused"}
    /\ IF pub[p].step = "refused" THEN Refuse(p, "CorruptPublication")
       ELSE /\ mem' = [mem EXCEPT ![p].todo =
                         IF pub[p].got = pub[p].target
                         THEN <<"PackageAssembled", "PackageEncoded", "PackagePublished">>
                         ELSE <<"PackageReused">>]
            /\ MoveTo(p, "stage")
            /\ UNCHANGED pub
    /\ UNCHANGED <<lockVars, eventVars, pubFiles, fileVars>>

RetainReport(p) ==
    /\ At(p, "report")
    /\ report' = Report(mem[p].opened, TRUE)
    /\ mem' = [mem EXCEPT ![p] = Ended("ok", mem[p].opened)]
    /\ MoveTo(p, "leave")
    /\ UNCHANGED <<lockVars, eventVars, pubVars, job, lessonFile, planFile>>

\* _job_ownership goes out of scope in render_attempt_inner.
DropLock(p) ==
    /\ pc[p] = "leave"
    /\ BeginRelease(p)
    /\ UNCHANGED <<eventVars, pubVars, fileVars, pc, mem>>

\* render_attempt, after render_attempt_inner returned and the lock is gone: a
\* failed attempt that was opened leaves its incomplete report.  The command ends.
Finish(p) ==
    /\ Exit(p)
    /\ LET outcome == IF pc[p] = "claim" THEN "NotOwner" ELSE mem[p].outcome
       IN  /\ report' = IF mem[p].opened # 0 /\ outcome # "ok"
                        THEN Report(mem[p].opened, FALSE) ELSE report
           /\ mem' = [mem EXCEPT ![p] =
                        Ended(outcome, IF outcome = "ok" THEN mem[p].opened ELSE 0)]
    /\ MoveTo(p, "leave")
    /\ UNCHANGED <<eventVars, pubVars, job, lessonFile, planFile>>

-----------------------------------------------------------------------------
(* Kills and failing writes. *)

\* What the log may be when p stops where it is.
LogInterrupted(p) ==
    IF lk[p] = "log" /\ stale[p] # NoOwner
    THEN AppendInterrupted(JobLockRecovered(stale[p]))
    ELSE IF At(p, "append")
    THEN AppendInterrupted(StateDurable(mem[p].doc.attempt, mem[p].doc.state))
    ELSE IF At(p, "stage")
    THEN AppendInterrupted(StageEvent(mem[p].doc.attempt, Head(mem[p].todo)))
    ELSE IF At(p, "resolve")
    THEN AppendInterrupted(StageEvent(mem[p].doc.attempt, "SegmentFailed"))
    ELSE UNCHANGED eventVars

KillCommand(p) ==
    /\ Die(p)
    /\ LogInterrupted(p)
    /\ pub' = [pub EXCEPT ![p] = Idle]
    /\ mem' = [mem EXCEPT ![p] = Ended("killed", 0)]
    /\ MoveTo(p, "leave")
    /\ UNCHANGED <<pubFiles, fileVars>>

\* A gate, a tool, a read or a write of the attempt returns an error.  The errors
\* of a segment are SegmentFails.
StepFails(p) ==
    /\ Owns(p) /\ pc[p] \in Working \ {"resolve"}
    /\ LogInterrupted(p)
    /\ Refuse(p, "failed")
    /\ UNCHANGED <<lockVars, pubFiles, fileVars>>

-----------------------------------------------------------------------------

\* What a command does by itself.
CommandStep(p) ==
    \/ ClaimStep(p) \/ Load(p) \/ ResumeInputs(p) \/ Prepare(p) \/ PublicationStep(p)
    \/ Prepared(p) \/ RetainLesson(p) \/ RetainPlan(p) \/ Replace(p) \/ AppendState(p)
    \/ RecordStage(p) \/ ResolveSegment(p) \/ StartWrite(p) \/ Written(p)
    \/ RetainReport(p) \/ DropLock(p) \/ Finish(p)

BuildNext ==
    \E p \in Proc :
        \/ StartBuild(p) \/ StartResume(p)
        \/ CommandStep(p)
        \/ SegmentFails(p) \/ StepFails(p)
        \/ KillCommand(p)

BuildSpec == BuildInit /\ [][BuildNext]_vars

\* The kernel schedules a command that runs; no step waits for another process.
BuildFairSpec == BuildSpec /\ \A p \in Proc : WF_vars(CommandStep(p))

-----------------------------------------------------------------------------
(* What the pipeline promises. *)

\* job.json and current.json agree: a recorded completion names the selected
\* package, and the package was built from the recorded plan.
CompletionIsSelected ==
    job # None /\ job.preview # None =>
        /\ current = job.preview
        /\ current \in packages
        /\ job.preview.plan = job.plan

\* No kill, failed write or interleaving makes a later command find records that
\* contradict each other: the checks of replace_document, of
\* validate_preview_selection and of publication only ever fire on damage.
ConsistencyChecksNeverFire ==
    \A p \in Proc :
        mem[p].outcome \notin
            {"IllegalReplacement", "JobPreviewSelectionMismatch", "CorruptPublication"}

\* While an attempt runs, the job directory is its own: nobody else's document,
\* lesson or plan appears under the lock it holds.
AttemptOwnsItsRecords ==
    \A p \in Proc :
        Owns(p) /\ mem[p].opened # 0 /\ pc[p] \in Working =>
            /\ job # None /\ job.attempt = mem[p].opened
            /\ lessonFile = job.lesson
            /\ planFile.plan = job.plan

\* ADR-0001 12.3 step 5: the log tells of durable states only, in the order of
\* the machine; one state at the end of an attempt may be missing from it.
IsState(line) == line.kind = "StateDurable"
IsLastState(i, n) ==
    /\ i \in 1 .. n /\ IsState(log[i])
    /\ \A k \in i + 1 .. n : ~IsState(log[k])
Follows(attempt, state, previous) ==
    \/ /\ attempt = previous.attempt
       /\ state = previous.state \/ MayTransitionTo(previous.state, state)
    \/ attempt > previous.attempt /\ state = "Planned"
LogFollowsTheJob ==
    /\ \A i, j \in DOMAIN log :
          IsState(log[j]) /\ IsLastState(i, j - 1) => Follows(log[j].attempt, log[j].state, log[i])
    /\ \A i \in DOMAIN log :
          IsLastState(i, Len(log)) =>
              /\ job # None
              /\ log[i].attempt < job.attempt \/ Follows(job.attempt, job.state, log[i])

\* A torn log freezes the job: no later command replaces job.json.
TornLogFreezesTheJob == [][torn => job' = job]_vars

\* resume renders what the job was rendering: the lesson and the takes of a
\* retake survive into the attempt a resume opens.
ResumeKeepsTheSelection ==
    [][\A p \in Proc :
          /\ flock = p /\ mem[p].cmd = "resume"
          /\ job' # job /\ job'.attempt # job.attempt
          => job'.lesson = job.lesson /\ job'.plan.takes = job.plan.takes]_vars

\* A report that says a build finished lies beside a job; and if it is of the attempt
\* job.json is at, that attempt has recorded its completion.
CompleteReportIsEarned ==
    report # None /\ report.complete =>
        /\ job # None
        /\ report.attempt = job.attempt => job.preview # None

\* The lock gives publication the single publisher it relies on.
ImplementsPublication == PubSpec

\* RUN-REPORT-FIELDS.md: no stale report is left "describing a build that did
\* finish".
FinishedBuildKeepsItsReport ==
    \A p \in Proc :
        mem[p].outcome = "ok" /\ job.attempt = mem[p].opened =>
            report = Report(mem[p].opened, TRUE)

\* E2-S1-INTERFACE-CHANGE-001: an attempt interrupted between retain_inputs and
\* its first document leaves "the lesson bytes ... checksum-verified identical".
ResumeFindsItsLesson == \A p \in Proc : mem[p].outcome # "RetainedLessonMismatch"
=============================================================================
