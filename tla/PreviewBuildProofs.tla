-------------------------- MODULE PreviewBuildProofs --------------------------
(***************************************************************************)
(* The preview pipeline for any number of processes, lessons, plans and    *)
(* attempts.  The invariant says, for each step of the pipeline, what the  *)
(* owner of the job knows of the job directory and of publication; a       *)
(* process outside the pipeline knows nothing, so what one command does    *)
(* under the lock can only disturb its own place.  From it follow that the *)
(* lock gives publication its single publisher, and that the records of    *)
(* the job never contradict each other.                                    *)
(***************************************************************************)
EXTENDS PreviewBuild, JobDirectoryProofs

\* How a command may end.  The three refusals that would mean damaged records are not here.
Outcomes ==
    {"none", "ok", "failed", "killed", "NotOwner", "MalformedJobEventLog", "NoJobToResume",
     "RetainedLessonMismatch", "JobPlanHashMismatch", "AttemptOverflow", "EventLogRefused"}

Memory ==
    [cmd : {"none", "build", "resume"}, lesson : Lesson \cup {None}, plan : Plan \cup {None},
     source : Sources \cup {None}, tools : Toolsets \cup {None}, prev : Document \cup {None},
     doc : Document \cup {None}, opened : Nat, todo : Seq(Stage), outcome : Outcomes]

BuildTypeOK ==
    /\ life \in [Proc -> {"new", "running", "exited", "crashed"}]
    /\ lk \in [Proc -> LockSteps]
    /\ job \in Document \cup {None}
    /\ lessonFile \in Lesson \cup {None}
    /\ planFile \in [plan : Plan, source : Sources] \cup {None}
    /\ pc \in [Proc -> Step]
    /\ mem \in [Proc -> Memory]

-----------------------------------------------------------------------------
(* What the files of the job say together. *)

\* What holds of any document by itself, built or saved.
Sound(d) == ValidateDocument(d) /\ (d.preview # None => d.preview.plan = d.plan)

\* What the boundary asks of a document beside the one it replaces.
Replaces(d, old) ==
    IF old = None THEN ValidateInitialState(d) ELSE ValidateReplacement(old, d)

\* A package that a document names is the selected one, and nothing is under way.
IsSelected(m) == current = m /\ current \in packages /\ JournalIsSettled

LastAttempt == IF job = None THEN 0 ELSE job.attempt

\* job.json is sound and its completion selected; no package was begun for an attempt
\* it does not know; a report of a finished build is not ahead of it.
RecordsAgree ==
    /\ job # None => Sound(job)
    /\ job # None /\ job.preview # None => IsSelected(job.preview)
    /\ lastWrite <= LastAttempt
    /\ report # None /\ report.complete =>
          /\ job # None /\ report.attempt \in Nat /\ report.attempt <= job.attempt
          /\ report.attempt = job.attempt => job.preview # None

-----------------------------------------------------------------------------
(* What the command at each step knows. *)

HasInputs(p) ==
    /\ mem[p].lesson \in Lesson /\ mem[p].plan \in Plan
    /\ mem[p].source \in Sources /\ mem[p].tools \in Toolsets

\* A resume works on the lesson and the takes of job.json.
KeepsSelection(p) ==
    mem[p].cmd = "resume" =>
        job # None /\ mem[p].lesson = job.lesson /\ mem[p].plan.takes = job.plan.takes

\* The pipeline runs under the lock, and publication is idle outside of it.
PlaceIsTrue(p) ==
    /\ pc[p] \in Working => Owns(p)
    /\ pub[p].step = "idle" => pub[p] = Idle
    /\ pc[p] \in {"claim", "inputs", "prepare", "leave"} => pub[p] = Idle
    /\ pc[p] \in {"claim", "inputs", "prepare", "preparing", "lesson", "plan"} =>
          mem[p].opened = 0
    /\ pc[p] = "claim" /\ life[p] = "running" /\ mem[p].cmd # "resume" => HasInputs(p)

\* Until its attempt is opened the command works from the document it loaded, which is
\* still job.json.
LoadedIsTrue(p) ==
    /\ pc[p] = "inputs" => mem[p].prev = job /\ job # None
    /\ pc[p] \in {"prepare", "preparing", "lesson", "plan"} =>
          mem[p].prev = job /\ HasInputs(p) /\ KeepsSelection(p)
    /\ pc[p] = "preparing" => pub[p].mode = "prepare"
    /\ pc[p] \in {"lesson", "plan"} => pub[p].step = "ready"
    /\ pc[p] = "plan" => lessonFile = mem[p].lesson

AttemptStep == {"replace", "append", "stage", "resolve", "write", "writing", "report"}

\* From then on the document in memory is job.json or the next to replace it, and the
\* retained files are its own.
DocumentIsTrue(p) ==
    LET d == mem[p].doc
        n == mem[p].opened IN
    pc[p] \in AttemptStep =>
        /\ d \in Document /\ Sound(d) /\ HasInputs(p)
        /\ lessonFile = d.lesson /\ planFile.plan = d.plan /\ mem[p].plan = d.plan
        /\ d.state \in {"Planned", "Rendering", "Rendered"}
        /\ d.preview # None => d.state = "Rendered"
        /\ pc[p] # "replace" => d = job
        /\ pc[p] \notin {"replace", "append"} => n = d.attempt
        /\ n # 0 => /\ job # None /\ job.attempt = n /\ d.attempt = n
                    /\ job.lesson = d.lesson /\ job.plan = d.plan
        /\ pc[p] = "replace" =>
              /\ Replaces(d, job)
              /\ n # 0 => job.preview = None
              /\ n = 0 => /\ d.preview = None /\ d.attempt = LastAttempt + 1
                          /\ mem[p].cmd = "resume" =>
                                job # None /\ d.lesson = job.lesson /\ d.plan.takes = job.plan.takes

\* The package writer is prepared and no package of this attempt begun.
WriterIsReady(p) == pub[p].step = "ready" /\ lastWrite < mem[p].doc.attempt

\* The package the writer is at or returned, is of the attempt's plan.
WriterIsOwn(p) == pub[p].mode = "write" /\ pub[p].target.plan = mem[p].doc.plan

\* The writer returned: there is a selection and no transaction is under way.
WriterIsDone == current # None /\ JournalIsSettled

\* Where publication is at each step of an attempt.
WriterIsTrue(p) ==
    LET d == mem[p].doc IN
    /\ pc[p] \in AttemptStep /\ d.preview # None => pub[p] = Idle /\ IsSelected(d.preview)
    /\ pc[p] \in {"replace", "append"} /\ d.preview = None => WriterIsReady(p)
    /\ pc[p] = "stage" =>
          /\ d.preview = None /\ mem[p].todo # <<>>
          /\ d.state # "Rendered" => WriterIsReady(p)
          /\ d.state = "Rendered" => pub[p].step = "done" /\ WriterIsOwn(p) /\ WriterIsDone
    /\ pc[p] = "resolve" =>
          d.state = "Rendering" /\ d.preview = None /\ d.segments # Segments /\ WriterIsReady(p)
    /\ pc[p] = "write" => d.state = "Rendered" /\ d.preview = None /\ WriterIsReady(p)
    /\ pc[p] = "writing" =>
          /\ d.state = "Rendered" /\ d.preview = None /\ WriterIsOwn(p)
          /\ pub[p].step = "done" => WriterIsDone
    /\ pc[p] = "report" => d.preview # None

CommandIsTrue(p) == PlaceIsTrue(p) /\ LoadedIsTrue(p) /\ DocumentIsTrue(p) /\ WriterIsTrue(p)

BuildInv ==
    /\ BuildTypeOK
    /\ RecordsAgree
    /\ HolderIsAlone
    /\ \A p \in Proc : CommandIsTrue(p)

Inv == BuildInv /\ PubInv /\ ReturnInv

-----------------------------------------------------------------------------
(* Who disturbs whom. *)

\* A process that owns the job finds every other one outside the pipeline.
LEMMA OwnerIsAlone ==
  ASSUME BuildInv, NEW p \in Proc, Owns(p), NEW q \in Proc, q # p
  PROVE  pc[q] \in {"claim", "leave"} /\ pub[q] = Idle
  <1>1. flock = p /\ ~Owns(q)
    BY DEF BuildInv, HolderIsAlone, Owns
  <1>2. pc[q] \in Step /\ PlaceIsTrue(q)
    BY DEF BuildInv, BuildTypeOK, CommandIsTrue
  <1> QED BY <1>1, <1>2 DEF PlaceIsTrue, Working

\* A process outside the pipeline promises something of itself only.
LEMMA OutsideIsKept ==
  ASSUME NEW q \in Proc, pc[q] \in {"claim", "leave"}, CommandIsTrue(q),
         pc'[q] = pc[q], mem'[q] = mem[q], pub'[q] = pub[q], life'[q] = life[q]
  PROVE  CommandIsTrue(q)'
  <1>1. PlaceIsTrue(q)'
    BY DEF CommandIsTrue, PlaceIsTrue, Working, HasInputs
  <1>2. LoadedIsTrue(q)' /\ DocumentIsTrue(q)' /\ WriterIsTrue(q)'
    BY DEF LoadedIsTrue, DocumentIsTrue, WriterIsTrue, AttemptStep
  <1> QED BY <1>1, <1>2 DEF CommandIsTrue

\* So a step of the owner has to keep what it promises itself.
LEMMA OwnerMoves ==
  ASSUME BuildInv, NEW p \in Proc, Owns(p), UNCHANGED lockVars,
         BuildTypeOK', RecordsAgree', CommandIsTrue(p)',
         \A q \in Proc : q # p => pc'[q] = pc[q] /\ mem'[q] = mem[q] /\ pub'[q] = pub[q]
  PROVE  BuildInv'
  <1>1. HolderIsAlone'
    BY DEF BuildInv, HolderIsAlone, lockVars
  <1>2. ASSUME NEW q \in Proc, q # p PROVE CommandIsTrue(q)'
    BY <1>2, OwnerIsAlone, OutsideIsKept DEF BuildInv, lockVars
  <1> QED BY <1>1, <1>2 DEF BuildInv

sharedVars == <<job, lessonFile, planFile, journal, packages, current, lastWrite>>

\* And a step that leaves the shared files alone keeps what the others promise.
LEMMA SharedIsKept ==
  ASSUME BuildInv, NEW p \in Proc, UNCHANGED sharedVars,
         BuildTypeOK', RecordsAgree', HolderIsAlone', CommandIsTrue(p)',
         \A q \in Proc : q # p =>
            /\ pc'[q] = pc[q] /\ mem'[q] = mem[q] /\ pub'[q] = pub[q]
            /\ life'[q] = life[q] /\ lk'[q] = lk[q]
  PROVE  BuildInv'
  <1>1. ASSUME NEW q \in Proc, q # p PROVE CommandIsTrue(q)'
    <2>1. /\ pc'[q] = pc[q] /\ mem'[q] = mem[q] /\ pub'[q] = pub[q]
          /\ life'[q] = life[q] /\ lk'[q] = lk[q] /\ CommandIsTrue(q)
          /\ job' = job /\ lessonFile' = lessonFile /\ planFile' = planFile
          /\ LastAttempt' = LastAttempt
      BY <1>1 DEF BuildInv, LastAttempt, sharedVars
    <2>2. PlaceIsTrue(q)'
      BY <2>1 DEF CommandIsTrue, PlaceIsTrue, HasInputs, Owns
    <2>3. LoadedIsTrue(q)'
      BY <2>1 DEF CommandIsTrue, LoadedIsTrue, HasInputs, KeepsSelection, sharedVars
    <2>4. DocumentIsTrue(q)'
      <3>1. DocumentIsTrue(q)
        BY <2>1 DEF CommandIsTrue
      <3> QED BY ONLY <2>1, <3>1 DEF DocumentIsTrue, HasInputs
    <2>5. WriterIsTrue(q)'
      BY <2>1 DEF CommandIsTrue, WriterIsTrue, WriterIsReady, WriterIsOwn, WriterIsDone,
                  IsSelected, JournalIsSettled, sharedVars
    <2> QED BY <2>2, <2>3, <2>4, <2>5 DEF CommandIsTrue
  <1> QED BY <1>1 DEF BuildInv

\* What the records say of each other needs only the shared files and the report.
LEMMA RecordsAreKept ==
  ASSUME RecordsAgree, UNCHANGED <<sharedVars, report>> PROVE RecordsAgree'
  BY DEF RecordsAgree, LastAttempt, IsSelected, JournalIsSettled, sharedVars

\* A command that ends promises that its publication is idle.
LEMMA EndedIsTrue ==
  ASSUME NEW p \in Proc, pc'[p] = "leave", pub'[p] = Idle
  PROVE  CommandIsTrue(p)'
  BY DEF CommandIsTrue, PlaceIsTrue, LoadedIsTrue, DocumentIsTrue, WriterIsTrue, AttemptStep,
         Working

LEMMA EndedIsTyped ==
  ASSUME NEW reason \in Outcomes, NEW n \in Nat
  PROVE  Ended(reason, n) \in Memory
  <1>1. Ended(reason, n) =
          [cmd |-> "none", lesson |-> None, plan |-> None, source |-> None, tools |-> None,
           prev |-> None, doc |-> None, opened |-> n, todo |-> <<>>, outcome |-> reason]
    <2>1. Ended(reason, n) = [[Blank EXCEPT !.opened = n] EXCEPT !.outcome = reason]
      BY DEF Ended
    <2>2. [Blank EXCEPT !.opened = n] =
          [cmd |-> "none", lesson |-> None, plan |-> None, source |-> None, tools |-> None,
           prev |-> None, doc |-> None, opened |-> n, todo |-> <<>>, outcome |-> "none"]
      BY DEF Blank
    <2>3. [[cmd |-> "none", lesson |-> None, plan |-> None, source |-> None, tools |-> None,
            prev |-> None, doc |-> None, opened |-> n, todo |-> <<>>, outcome |-> "none"]
             EXCEPT !.outcome = reason] =
          [cmd |-> "none", lesson |-> None, plan |-> None, source |-> None, tools |-> None,
           prev |-> None, doc |-> None, opened |-> n, todo |-> <<>>, outcome |-> reason]
      OBVIOUS
    <2> QED BY ONLY <2>1, <2>2, <2>3
  <1>2. <<>> \in Seq(Stage)
    OBVIOUS
  <1>3. /\ "none" \in {"none", "build", "resume"}
        /\ None \in Lesson \cup {None} /\ None \in Plan \cup {None} /\ None \in Sources \cup {None}
        /\ None \in Toolsets \cup {None} /\ None \in Document \cup {None}
    OBVIOUS
  <1> QED BY ONLY <1>1, <1>2, <1>3, reason \in Outcomes, n \in Nat DEF Memory

\* An error of the owner, whatever it was at, drops its locals; the files stay, but for a
\* plan that was retained.
LEMMA RefuseKeeps ==
  ASSUME Inv, NEW p \in Proc, Owns(p), NEW reason \in Outcomes, Refuse(p, reason),
         UNCHANGED <<lockVars, pubFiles, job, lessonFile, report>>,
         planFile' \in [plan : Plan, source : Sources] \cup {None}
  PROVE  BuildInv'
  <1>1. BuildInv /\ BuildTypeOK /\ mem[p] \in Memory /\ mem[p].opened \in Nat
    BY DEF Inv, BuildInv, BuildTypeOK, Memory
  <1>2. /\ pc' = [pc EXCEPT ![p] = "leave"]
        /\ mem' = [mem EXCEPT ![p] = Ended(reason, mem[p].opened)]
        /\ pub' = [pub EXCEPT ![p] = Idle] /\ pub \in [Proc -> Publisher]
    BY DEF Refuse, Inv, PubInv, PubTypeOK
  <1>3. Ended(reason, mem[p].opened) \in Memory
    BY <1>1, EndedIsTyped
  <1>4. BuildTypeOK'
    BY <1>1, <1>2, <1>3 DEF BuildTypeOK, lockVars, Step
  <1>5. RecordsAgree'
    BY <1>1 DEF BuildInv, RecordsAgree, LastAttempt, IsSelected, JournalIsSettled, pubFiles
  <1>6. CommandIsTrue(p)'
    BY <1>1, <1>2, EndedIsTrue DEF BuildTypeOK
  <1> QED BY <1>1, <1>2, <1>4, <1>5, <1>6, OwnerMoves DEF BuildTypeOK

\* The places a command can be in, and what the owner knows at them.
LEMMA OwnerKnows ==
  ASSUME Inv, NEW p \in Proc
  PROVE  /\ BuildInv /\ BuildTypeOK /\ RecordsAgree /\ PubInv /\ PubTypeOK
         /\ CommandIsTrue(p) /\ PlaceIsTrue(p) /\ LoadedIsTrue(p) /\ DocumentIsTrue(p)
         /\ WriterIsTrue(p) /\ StepIsTrue(p) /\ WriterReturnsItsOwn(p)
         /\ mem[p] \in Memory /\ pub[p] \in Publisher /\ pub[p].step # "refused"
  BY DEF Inv, BuildInv, CommandIsTrue, BuildTypeOK, PubInv, PubTypeOK, StepIsTrue, ReturnInv

-----------------------------------------------------------------------------
(* The lock gives publication one publisher: every step is a step of       *)
(* PackagePublication, or leaves its variables alone.                      *)

\* What the pipeline gives up, publication sees as a kill.
LEMMA GivingUpIsPublic ==
  ASSUME Inv, NEW p \in Proc, pub' = [pub EXCEPT ![p] = Idle], UNCHANGED pubFiles
  PROVE  [PubNext]_pubVars
  <1>1. PlaceIsTrue(p) /\ pub \in [Proc -> Publisher]
    BY OwnerKnows DEF PubTypeOK
  <1>2. CASE pub[p].step = "idle"
    <2>1. pub' = pub
      BY <1>1, <1>2 DEF PlaceIsTrue
    <2> QED BY <2>1 DEF pubFiles, pubVars
  <1>3. CASE pub[p].step # "idle"
    <2>1. PubAbort(p)
      BY DEF PubAbort, pubFiles
    <2> QED BY <1>3, <2>1 DEF PubNext
  <1> QED BY <1>2, <1>3

\* The package an attempt asks for is a manifest of its own number.
LEMMA PackageIsOwn ==
  ASSUME Inv, NEW p \in Proc, At(p, "write")
  PROVE  /\ PackageOf(p) \in Manifest
         /\ PackageOf(p).plan = mem[p].doc.plan /\ PackageOf(p).attempt = mem[p].doc.attempt
         /\ mem[p].doc.attempt \in Attempt /\ lastWrite < mem[p].doc.attempt
  <1>1. DocumentIsTrue(p) /\ WriterIsTrue(p)
    BY OwnerKnows
  <1>2. /\ mem[p].doc \in Document /\ HasInputs(p) /\ mem[p].plan = mem[p].doc.plan
        /\ lastWrite < mem[p].doc.attempt
    BY <1>1 DEF At, DocumentIsTrue, WriterIsTrue, WriterIsReady, AttemptStep
  <1>3. mem[p].doc.attempt \in Attempt
    BY <1>2 DEF Document
  <1> QED BY <1>2, <1>3 DEF PackageOf, Manifest, HasInputs

LEMMA BuildStepIsPublic == ASSUME Inv, BuildNext PROVE [PubNext]_pubVars
  <1>1. ASSUME NEW p \in Proc, UNCHANGED pubVars PROVE [PubNext]_pubVars
    BY <1>1
  <1>2. ASSUME NEW p \in Proc, NEW reason, Refuse(p, reason), UNCHANGED pubFiles
        PROVE  [PubNext]_pubVars
    BY <1>2, GivingUpIsPublic DEF Refuse
  <1>3. ASSUME NEW p \in Proc, UNCHANGED pub, UNCHANGED pubFiles PROVE [PubNext]_pubVars
    BY <1>3 DEF pubVars, pubFiles
  <1>4. ASSUME NEW p \in Proc, StartBuild(p) \/ StartResume(p) \/ ClaimStep(p) \/ AppendState(p)
                     \/ RetainLesson(p) \/ ResolveSegment(p) \/ RetainReport(p)
                     \/ DropLock(p) \/ Finish(p)
        PROVE  [PubNext]_pubVars
    BY <1>4 DEF StartBuild, StartResume, ClaimStep, AppendState, RetainLesson, ResolveSegment,
                RetainReport, DropLock, Finish
  <1>5. ASSUME NEW p \in Proc, Load(p) PROVE [PubNext]_pubVars
    BY <1>2, <1>3, <1>5 DEF Load
  <1>6. ASSUME NEW p \in Proc, ResumeInputs(p) PROVE [PubNext]_pubVars
    BY <1>2, <1>3, <1>6 DEF ResumeInputs
  <1>7. ASSUME NEW p \in Proc, Prepare(p) PROVE [PubNext]_pubVars
    <2>1. Owns(p) /\ BeginPrepare(p) /\ BuildInv
      BY <1>7, OwnerKnows DEF Prepare, At
    <2>2. Alone(p)
      BY <2>1, OwnerIsAlone DEF Alone, Idle
    <2> QED BY <2>1, <2>2 DEF PubNext
  <1>8. ASSUME NEW p \in Proc, PublicationStep(p) PROVE [PubNext]_pubVars
    BY <1>8 DEF PublicationStep, PubNext
  <1>9. ASSUME NEW p \in Proc, Prepared(p) PROVE [PubNext]_pubVars
    BY <1>2, <1>3, <1>9 DEF Prepared
  <1>10. ASSUME NEW p \in Proc, RetainPlan(p) PROVE [PubNext]_pubVars
    BY <1>2, <1>3, <1>10 DEF RetainPlan
  <1>11. ASSUME NEW p \in Proc, Replace(p) PROVE [PubNext]_pubVars
    BY <1>2, <1>3, <1>11 DEF Replace
  <1>12. ASSUME NEW p \in Proc, RecordStage(p) PROVE [PubNext]_pubVars
    BY <1>2, <1>3, <1>12, GivingUpIsPublic DEF RecordStage
  <1>13. ASSUME NEW p \in Proc, StartWrite(p) PROVE [PubNext]_pubVars
    <2>1. At(p, "write") /\ BeginWrite(p, PackageOf(p))
      BY <1>13 DEF StartWrite
    <2>2. PackageOf(p) \in Manifest /\ PackageOf(p).attempt > lastWrite
      BY <2>1, PackageIsOwn, OwnerKnows, MaxAttemptAssumption DEF PubTypeOK, Attempt
    <2> QED BY <2>1, <2>2 DEF PubNext
  <1>14. ASSUME NEW p \in Proc, Written(p) PROVE [PubNext]_pubVars
    BY <1>2, <1>3, <1>14 DEF Written
  <1>15. ASSUME NEW p \in Proc, SegmentFails(p) \/ StepFails(p) PROVE [PubNext]_pubVars
    BY <1>2, <1>15 DEF SegmentFails, StepFails
  <1>16. ASSUME NEW p \in Proc, KillCommand(p) PROVE [PubNext]_pubVars
    BY <1>16, GivingUpIsPublic DEF KillCommand
  <1> QED BY <1>4, <1>5, <1>6, <1>7, <1>8, <1>9, <1>10, <1>11, <1>12, <1>13, <1>14, <1>15, <1>16
          DEF BuildNext, CommandStep

\* What publication promises is kept by every step of the pipeline.
LEMMA PublicationIsKept ==
  ASSUME Inv, BuildNext PROVE PubInv' /\ ReturnInv'
  BY BuildStepIsPublic, NextKeeps, NextKeepsReturn DEF Inv
-----------------------------------------------------------------------------
(* Claiming and leaving: the steps of processes outside the pipeline. *)

\* A step outside the pipeline keeps the lock's exclusion, the shared files and what p
\* says of itself there.
LEMMA OutsideMoves ==
  ASSUME Inv, NEW p \in Proc, UNCHANGED <<sharedVars, report, pub>>,
         pc[p] \in {"claim", "leave"}, pc'[p] \in {"claim", "leave"},
         pc' \in [Proc -> Step], mem' \in [Proc -> Memory],
         life' \in [Proc -> {"new", "running", "exited", "crashed"}],
         lk' \in [Proc -> LockSteps], HolderIsAlone',
         \A q \in Proc : q # p => /\ pc'[q] = pc[q] /\ mem'[q] = mem[q]
                                  /\ life'[q] = life[q] /\ lk'[q] = lk[q],
         pc'[p] = "claim" => /\ mem'[p].opened = 0
                             /\ life'[p] = "running" /\ mem'[p].cmd # "resume" => HasInputs(p)'
  PROVE  BuildInv'
  <1>1. BuildInv /\ BuildTypeOK /\ RecordsAgree /\ PlaceIsTrue(p)
    BY OwnerKnows
  <1>2. BuildTypeOK'
    BY <1>1 DEF BuildTypeOK, sharedVars
  <1>3. RecordsAgree'
    BY <1>1, RecordsAreKept
  <1>4. pub'[p] = Idle
    BY <1>1 DEF PlaceIsTrue
  <1>5. CommandIsTrue(p)'
    BY <1>4 DEF CommandIsTrue, PlaceIsTrue, LoadedIsTrue, DocumentIsTrue, WriterIsTrue,
                AttemptStep, Working
  <1> QED BY <1>1, <1>2, <1>3, <1>5, SharedIsKept

\* A command that does not own the job is outside the pipeline.
LEMMA NotOwnerIsOutside ==
  ASSUME Inv, NEW p \in Proc, ~Owns(p)
  PROVE  pc[p] \in {"claim", "leave"}
  BY OwnerKnows DEF BuildTypeOK, PlaceIsTrue, Working

\* A build brings its inputs; a resume has none yet.
LEMMA StartKeeps ==
  ASSUME Inv, NEW p \in Proc, StartBuild(p) \/ StartResume(p) PROVE BuildInv'
  <1>1. /\ BuildTypeOK /\ PlaceIsTrue(p) /\ mem[p] \in Memory /\ HolderIsAlone
        /\ StartProcess(p)
    BY OwnerKnows DEF BuildInv, StartBuild, StartResume
  <1>2. /\ life' = [life EXCEPT ![p] = "running"] /\ lk' = lk /\ flock' = flock
        /\ life[p] = "new" /\ pc' = pc
        /\ UNCHANGED <<sharedVars, report, pub>>
    BY <1>1 DEF StartProcess, StartBuild, StartResume, sharedVars, pubVars, fileVars
  <1>3. pc[p] \in {"claim", "leave"}
    BY <1>2, NotOwnerIsOutside DEF Owns
  <1>4. HolderIsAlone' /\ life' \in [Proc -> {"new", "running", "exited", "crashed"}]
    BY <1>1, <1>2 DEF HolderIsAlone, BuildTypeOK
  <1>5. CASE StartBuild(p)
    <2>1. PICK lesson \in Lesson, plan \in Plan, source \in Sources, tools \in Toolsets :
            mem' = [mem EXCEPT ![p] = [Blank EXCEPT !.cmd = "build", !.lesson = lesson, !.plan = plan,
                                                    !.source = source, !.tools = tools]]
      BY <1>5 DEF StartBuild
    <2> DEFINE m1 == [Blank EXCEPT !.cmd = "build"]
               m2 == [m1 EXCEPT !.lesson = lesson]
               m3 == [m2 EXCEPT !.plan = plan]
               m4 == [m3 EXCEPT !.source = source]
               m5 == [m4 EXCEPT !.tools = tools]
    <2>2. Blank \in Memory /\ Blank.opened = 0
      <3>1. <<>> \in Seq(Stage)
        OBVIOUS
      <3> QED BY <3>1 DEF Blank, Memory, Outcomes
    <2>3. m1 \in Memory /\ m1.opened = 0
      BY <2>2 DEF Memory
    <2> HIDE DEF m1
    <2>4. m2 \in Memory /\ m2.opened = 0 /\ m2.lesson = lesson
      BY <2>3 DEF Memory
    <2> HIDE DEF m2
    <2>5. m3 \in Memory /\ m3.opened = 0 /\ m3.lesson = lesson /\ m3.plan = plan
      BY <2>4 DEF Memory
    <2> HIDE DEF m3
    <2>6. m4 \in Memory /\ m4.opened = 0 /\ m4.lesson = lesson /\ m4.plan = plan /\ m4.source = source
      BY <2>5 DEF Memory
    <2> HIDE DEF m4
    <2>7. /\ m5 \in Memory /\ m5.opened = 0
          /\ m5.lesson = lesson /\ m5.plan = plan /\ m5.source = source /\ m5.tools = tools
      BY <2>6 DEF Memory
    <2>8. [Blank EXCEPT !.cmd = "build", !.lesson = lesson, !.plan = plan, !.source = source,
                        !.tools = tools] = m5
      BY DEF m1, m2, m3, m4
    <2> HIDE DEF m5
    <2>9. mem' = [mem EXCEPT ![p] = m5]
      BY <2>1, <2>8
    <2>10. mem' \in [Proc -> Memory] /\ mem'[p] = m5 /\ \A q \in Proc : q # p => mem'[q] = mem[q]
      BY ONLY <1>1, <2>7, <2>9 DEF BuildTypeOK
    <2>11. HasInputs(p)' /\ mem'[p].opened = 0
      BY <2>7, <2>10 DEF HasInputs
    <2> QED BY <1>1, <1>2, <1>3, <1>4, <2>10, <2>11, OutsideMoves DEF BuildTypeOK
  <1>6. CASE StartResume(p)
    <2> DEFINE new == [mem[p] EXCEPT !.cmd = "resume"]
    <2>1. mem' = [mem EXCEPT ![p] = new]
      BY <1>6 DEF StartResume
    <2>2. new \in Memory /\ new.cmd = "resume" /\ new.opened = mem[p].opened
      BY <1>1 DEF Memory
    <2> HIDE DEF new
    <2>3. mem' \in [Proc -> Memory] /\ mem'[p] = new /\ \A q \in Proc : q # p => mem'[q] = mem[q]
      BY ONLY <1>1, <2>1, <2>2 DEF BuildTypeOK
    <2>4. pc'[p] = "claim" => mem'[p].opened = 0
      BY <1>1, <1>2, <2>2, <2>3 DEF PlaceIsTrue
    <2> QED BY <1>1, <1>2, <1>3, <1>4, <2>2, <2>3, <2>4, OutsideMoves DEF BuildTypeOK
  <1> QED BY <1>5, <1>6

\* A step of the lock by itself changes who holds it and nothing else.
LEMMA LockMoves ==
  ASSUME Inv, NEW p \in Proc, ~Owns(p), UNCHANGED <<sharedVars, report, pub, pc, mem, life>>,
         lk' \in [Proc -> LockSteps], \A q \in Proc : q # p => lk'[q] = lk[q],
         HolderIsAlone'
  PROVE  BuildInv'
  <1>1. pc[p] \in {"claim", "leave"} /\ BuildTypeOK /\ PlaceIsTrue(p) /\ mem[p] \in Memory
    BY NotOwnerIsOutside, OwnerKnows
  <1>2. pc'[p] = "claim" => /\ mem'[p].opened = 0
                            /\ life'[p] = "running" /\ mem'[p].cmd # "resume" => HasInputs(p)'
    BY <1>1 DEF PlaceIsTrue, HasInputs
  <1> QED BY <1>1, <1>2, OutsideMoves DEF BuildTypeOK

\* The flock goes to one process at a time, and only its holder goes on.
LEMMA ClaimKeeps == ASSUME Inv, NEW p \in Proc, ClaimStep(p) PROVE BuildInv'
  <1>1. BuildTypeOK /\ HolderIsAlone
    BY OwnerKnows DEF BuildInv
  <1>2. UNCHANGED <<sharedVars, report, pub, pc, mem>>
    BY DEF ClaimStep, sharedVars, pubVars, fileVars
  <1>3. ~Owns(p) /\ life' = life /\ \A q \in Proc : q # p => lk'[q] = lk[q]
    BY <1>1 DEF ClaimStep, TakeFlock, LoseFlock, ExamineRecord, TruncateRecord, WriteRecord,
           FinishRecord, RecordFails, ClearRecord, CloseLock, LogTakeover, Owns, BuildTypeOK
  <1>4. CASE TakeFlock(p)
    <2>1. HolderIsAlone' /\ lk' \in [Proc -> LockSteps]
      BY <1>1, <1>3, <1>4, OwnerAssumption DEF TakeFlock, HolderIsAlone, BuildTypeOK, LockSteps
    <2> QED BY <1>2, <1>3, <2>1, LockMoves
  <1>5. CASE LoseFlock(p)
    <2>1. HolderIsAlone' /\ lk' \in [Proc -> LockSteps]
      BY <1>1, <1>3, <1>5 DEF LoseFlock, HolderIsAlone, BuildTypeOK, LockSteps
    <2> QED BY <1>2, <1>3, <2>1, LockMoves
  <1>6. CASE ExamineRecord(p) \/ CloseLock(p)
    <2>1. lk[p] \notin {"none", "out"} /\ flock = p
      BY <1>1, <1>6 DEF ExamineRecord, CloseLock, HolderIsAlone
    <2>2. lk' \in [Proc -> LockSteps]
      BY <1>1, <1>6 DEF ExamineRecord, CloseLock, BuildTypeOK, LockSteps
    <2>3. lk'[p] = "out" \/ flock' = flock
      BY <1>1, <1>6 DEF ExamineRecord, CloseLock, BuildTypeOK
    <2>4. HolderIsAlone'
      BY <1>1, <1>3, <2>1, <2>3 DEF HolderIsAlone
    <2> QED BY <1>2, <1>3, <2>2, <2>4, LockMoves
  <1>7. CASE \/ TruncateRecord(p) \/ WriteRecord(p) \/ FinishRecord(p) \/ RecordFails(p)
             \/ ClearRecord(p) \/ LogTakeover(p)
    <2>1. lk[p] \notin {"none", "out"} /\ flock' = flock
      BY <1>1, <1>7 DEF TruncateRecord, WriteRecord, FinishRecord, RecordFails, ClearRecord,
                        LogTakeover, HolderIsAlone
    <2>2. lk' \in [Proc -> LockSteps]
      BY <1>1, <1>7 DEF TruncateRecord, WriteRecord, FinishRecord, RecordFails, ClearRecord,
                        LogTakeover, BuildTypeOK, LockSteps
    <2>3. HolderIsAlone'
      BY <1>1, <1>3, <2>1 DEF HolderIsAlone
    <2> QED BY <1>2, <1>3, <2>2, <2>3, LockMoves
  <1> QED BY <1>2, <1>3, <1>4, <1>5, <1>6, <1>7, LockMoves DEF ClaimStep

\* The owner begins to let go; it has left the pipeline already.
LEMMA DropLockKeeps == ASSUME Inv, NEW p \in Proc, DropLock(p) PROVE BuildInv'
  <1>1. BuildTypeOK /\ HolderIsAlone /\ PlaceIsTrue(p)
    BY OwnerKnows DEF BuildInv
  <1>2. /\ UNCHANGED <<sharedVars, report, pub, pc, mem, life, flock>> /\ pc[p] = "leave"
        /\ life[p] = "running" /\ lk[p] = "held" /\ lk' = [lk EXCEPT ![p] = "clear"]
    BY DEF DropLock, BeginRelease, sharedVars, pubVars, fileVars
  <1>3. HolderIsAlone' /\ lk' \in [Proc -> LockSteps]
    BY <1>1, <1>2 DEF HolderIsAlone, BuildTypeOK, LockSteps
  <1> QED BY <1>1, <1>2, <1>3, OutsideMoves DEF BuildTypeOK

\* A failed attempt that was opened leaves an incomplete report, which claims nothing.
LEMMA FinishKeeps == ASSUME Inv, NEW p \in Proc, Finish(p) PROVE BuildInv'
  <1>1. /\ BuildInv /\ BuildTypeOK /\ HolderIsAlone /\ PlaceIsTrue(p) /\ RecordsAgree
        /\ mem[p] \in Memory
    BY OwnerKnows DEF BuildInv
  <1>2. /\ UNCHANGED sharedVars /\ pub' = pub /\ pc' = [pc EXCEPT ![p] = "leave"]
        /\ life[p] = "running" /\ lk[p] = "out" /\ life' = [life EXCEPT ![p] = "exited"]
        /\ lk' = lk /\ flock' = flock
    BY DEF Finish, Exit, MoveTo, sharedVars, pubVars
  <1>3. PICK outcome \in Outcomes, n \in Nat :
          /\ mem' = [mem EXCEPT ![p] = Ended(outcome, n)]
          /\ report' \in {report, Report(mem[p].opened, FALSE)}
    BY <1>1 DEF Finish, Memory, Outcomes
  <1>4. BuildTypeOK'
    BY <1>1, <1>2, <1>3, EndedIsTyped DEF BuildTypeOK, Step, sharedVars
  <1>5. HolderIsAlone'
    BY <1>1, <1>2 DEF HolderIsAlone, BuildTypeOK
  <1>6. RecordsAgree'
    <2>1. CASE report' = report
      BY <1>1, <1>2, <2>1, RecordsAreKept
    <2>2. CASE report' = Report(mem[p].opened, FALSE)
      <3>1. ~report'.complete
        BY <2>2 DEF Report
      <3> QED BY <1>1, <1>2, <3>1 DEF RecordsAgree, LastAttempt, IsSelected, JournalIsSettled, sharedVars
    <2> QED BY <1>3, <2>1, <2>2
  <1>7. pc[p] \in {"claim", "leave"}
    BY <1>2, NotOwnerIsOutside DEF Owns
  <1>8. CommandIsTrue(p)'
    BY <1>1, <1>2, <1>7, EndedIsTrue DEF PlaceIsTrue, BuildTypeOK
  <1> QED BY <1>1, <1>2, <1>3, <1>4, <1>5, <1>6, <1>8, SharedIsKept DEF BuildTypeOK

\* A kill frees the flock and leaves the files as they are.
LEMMA KillCommandKeeps == ASSUME Inv, NEW p \in Proc, KillCommand(p) PROVE BuildInv'
  <1>1. /\ BuildInv /\ BuildTypeOK /\ HolderIsAlone /\ RecordsAgree /\ pub \in [Proc -> Publisher]
    BY OwnerKnows DEF BuildInv, PubTypeOK
  <1>2. /\ UNCHANGED <<sharedVars, report>> /\ pub' = [pub EXCEPT ![p] = Idle]
        /\ pc' = [pc EXCEPT ![p] = "leave"] /\ mem' = [mem EXCEPT ![p] = Ended("killed", 0)]
        /\ life' = [life EXCEPT ![p] = "crashed"] /\ lk' = [lk EXCEPT ![p] = "none"]
        /\ flock' = IF flock = p THEN NoOwner ELSE flock
    BY DEF KillCommand, Die, MoveTo, sharedVars, pubFiles, fileVars
  <1>3. BuildTypeOK'
    BY <1>1, <1>2, EndedIsTyped DEF BuildTypeOK, Step, Outcomes, LockSteps, sharedVars
  <1>4. HolderIsAlone'
    BY <1>1, <1>2 DEF HolderIsAlone, BuildTypeOK
  <1>5. RecordsAgree'
    BY <1>1, <1>2, RecordsAreKept
  <1>6. CommandIsTrue(p)'
    BY <1>1, <1>2, EndedIsTrue DEF BuildTypeOK
  <1> QED BY <1>1, <1>2, <1>3, <1>4, <1>5, <1>6, SharedIsKept DEF BuildTypeOK

-----------------------------------------------------------------------------
(* Up to the attempt. *)

\* A tool, a read, a write or a segment fails.
LEMMA FailureKeeps ==
  ASSUME Inv, NEW p \in Proc, StepFails(p) \/ SegmentFails(p) PROVE BuildInv'
  <1>1. /\ Owns(p) /\ Refuse(p, "failed")
        /\ UNCHANGED <<lockVars, pubFiles, job, lessonFile, planFile, report>>
    BY DEF StepFails, SegmentFails, At, fileVars
  <1>2. planFile \in [plan : Plan, source : Sources] \cup {None}
    BY OwnerKnows DEF BuildTypeOK
  <1> QED BY <1>1, <1>2, RefuseKeeps DEF Outcomes

\* The owner changes nothing but its own memory, its place and its publisher.
LEMMA OwnerThinks ==
  ASSUME Inv, NEW p \in Proc, Owns(p), UNCHANGED <<lockVars, sharedVars, report>>,
         NEW m \in Memory, mem' = [mem EXCEPT ![p] = m],
         NEW s \in Step, pc' = [pc EXCEPT ![p] = s],
         \A q \in Proc : q # p => pub'[q] = pub[q],
         mem'[p] = m /\ pc'[p] = s => CommandIsTrue(p)'
  PROVE  BuildInv'
  <1>1. BuildInv /\ BuildTypeOK /\ RecordsAgree
    BY OwnerKnows
  <1>2. /\ mem' \in [Proc -> Memory] /\ mem'[p] = m /\ \A q \in Proc : q # p => mem'[q] = mem[q]
        /\ pc' \in [Proc -> Step] /\ pc'[p] = s /\ \A q \in Proc : q # p => pc'[q] = pc[q]
    BY <1>1 DEF BuildTypeOK
  <1>3. BuildTypeOK'
    BY <1>1, <1>2 DEF BuildTypeOK, sharedVars, lockVars
  <1>4. RecordsAgree'
    BY <1>1, RecordsAreKept
  <1> QED BY <1>1, <1>2, <1>3, <1>4, OwnerMoves

\* job.json is loaded, or the command is refused.
LEMMA LoadKeeps == ASSUME Inv, NEW p \in Proc, Load(p) PROVE BuildInv'
  <1>1. /\ BuildTypeOK /\ PlaceIsTrue(p) /\ mem[p] \in Memory
        /\ Owns(p) /\ pc[p] = "claim" /\ UNCHANGED <<lockVars, sharedVars, report, pubFiles>>
    BY OwnerKnows DEF Load, At, pubFiles, fileVars, sharedVars
  <1>2. ASSUME NEW reason \in Outcomes, Refuse(p, reason) PROVE BuildInv'
    BY <1>1, <1>2, RefuseKeeps DEF BuildTypeOK, sharedVars
  <1>3. CASE /\ mem' = [mem EXCEPT ![p].prev = job]
             /\ MoveTo(p, IF mem[p].cmd = "resume" THEN "inputs" ELSE "prepare")
             /\ pub' = pub /\ ~(job = None /\ mem[p].cmd = "resume")
    <2> DEFINE new == [mem[p] EXCEPT !.prev = job]
               next == IF mem[p].cmd = "resume" THEN "inputs" ELSE "prepare"
    <2>1. /\ new \in Memory /\ new.prev = job /\ new.cmd = mem[p].cmd /\ new.opened = mem[p].opened
          /\ new.lesson = mem[p].lesson /\ new.plan = mem[p].plan /\ new.source = mem[p].source
          /\ new.tools = mem[p].tools
      BY <1>1 DEF BuildTypeOK, Memory
    <2>2. /\ mem' = [mem EXCEPT ![p] = new] /\ next \in Step
          /\ pc' = [pc EXCEPT ![p] = next]
      BY <1>3 DEF MoveTo, Step
    <2> HIDE DEF new
    <2>3. ASSUME mem'[p] = new, pc'[p] = next PROVE CommandIsTrue(p)'
      <3>1. Owns(p)' /\ pub'[p] = Idle /\ mem[p].opened = 0
            /\ life[p] = "running" /\ (mem[p].cmd # "resume" => HasInputs(p))
        BY <1>1, <1>3 DEF PlaceIsTrue, Owns, lockVars
      <3>2. PlaceIsTrue(p)'
        BY <2>1, <2>3, <3>1 DEF PlaceIsTrue
      <3>3. LoadedIsTrue(p)'
        BY <1>1, <1>3, <2>1, <2>3, <3>1 DEF LoadedIsTrue, HasInputs, KeepsSelection, sharedVars
      <3>4. DocumentIsTrue(p)' /\ WriterIsTrue(p)'
        BY <2>3 DEF DocumentIsTrue, WriterIsTrue, AttemptStep
      <3> QED BY <3>2, <3>3, <3>4 DEF CommandIsTrue
    <2> QED BY <1>1, <1>3, <2>1, <2>2, <2>3, OwnerThinks
  <1> QED BY <1>2, <1>3 DEF Load, Outcomes

\* A resume takes the lesson, the takes and their source from the retained files, which
\* are those of job.json.
LEMMA ResumeInputsKeeps == ASSUME Inv, NEW p \in Proc, ResumeInputs(p) PROVE BuildInv'
  <1>1. /\ BuildTypeOK /\ PlaceIsTrue(p) /\ LoadedIsTrue(p) /\ mem[p] \in Memory
        /\ Owns(p) /\ pc[p] = "inputs" /\ UNCHANGED <<lockVars, sharedVars, report, pubFiles>>
    BY OwnerKnows DEF ResumeInputs, At, pubFiles, fileVars, sharedVars
  <1>2. ASSUME NEW reason \in Outcomes, Refuse(p, reason) PROVE BuildInv'
    BY <1>1, <1>2, RefuseKeeps DEF BuildTypeOK, sharedVars
  <1>3. ASSUME NEW env \in Envs, NEW tools \in Toolsets, MoveTo(p, "prepare"), pub' = pub,
               lessonFile # None, lessonFile = mem[p].prev.lesson,
               planFile # None, planFile.plan = mem[p].prev.plan,
               mem' = [mem EXCEPT
                   ![p].lesson = lessonFile,
                   ![p].plan = [script |-> lessonFile.script,
                                takes |-> planFile.plan.takes, env |-> env],
                   ![p].source = planFile.source,
                   ![p].tools = tools]
        PROVE BuildInv'
    <2> DEFINE plan == [script |-> lessonFile.script, takes |-> planFile.plan.takes, env |-> env]
               m1 == [mem[p] EXCEPT !.lesson = lessonFile]
               m2 == [m1 EXCEPT !.plan = plan]
               m3 == [m2 EXCEPT !.source = planFile.source]
               m4 == [m3 EXCEPT !.tools = tools]
    <2>1. /\ mem[p].prev = job /\ job # None /\ job \in Document
          /\ lessonFile \in Lesson /\ planFile.plan \in Plan /\ planFile.source \in Sources
      BY <1>1, <1>3 DEF LoadedIsTrue, BuildTypeOK
    <2>2. plan \in Plan /\ plan.takes = job.plan.takes
      BY <1>3, <2>1 DEF Lesson, Plan
    <2> HIDE DEF plan
    <2>3. m1 \in Memory /\ m1.lesson = lessonFile /\ m1.prev = job /\ m1.opened = mem[p].opened
      BY <1>1, <2>1 DEF Memory
    <2> HIDE DEF m1
    <2>4. /\ m2 \in Memory /\ m2.lesson = lessonFile /\ m2.prev = job /\ m2.opened = mem[p].opened
          /\ m2.plan = plan
      BY <2>2, <2>3 DEF Memory
    <2> HIDE DEF m2
    <2>5. /\ m3 \in Memory /\ m3.lesson = lessonFile /\ m3.prev = job /\ m3.opened = mem[p].opened
          /\ m3.plan = plan /\ m3.source \in Sources
      BY <2>1, <2>4 DEF Memory
    <2> HIDE DEF m3
    <2>6. /\ m4 \in Memory /\ m4.lesson = lessonFile /\ m4.prev = job /\ m4.opened = mem[p].opened
          /\ m4.plan = plan /\ m4.source \in Sources /\ m4.tools \in Toolsets
      BY <2>5 DEF Memory
    <2>7. mem' = [mem EXCEPT ![p] = m4]
      BY <1>1, <1>3 DEF m1, m2, m3, plan, BuildTypeOK
    <2> HIDE DEF m4
    <2>8. pc' = [pc EXCEPT ![p] = "prepare"] /\ "prepare" \in Step
      BY <1>3 DEF MoveTo, Step
    <2>9. ASSUME mem'[p] = m4, pc'[p] = "prepare" PROVE CommandIsTrue(p)'
      <3>1. Owns(p)' /\ pub'[p] = Idle /\ mem[p].opened = 0
        BY <1>1, <1>3 DEF PlaceIsTrue, Owns, lockVars
      <3>2. PlaceIsTrue(p)'
        BY <2>6, <2>9, <3>1 DEF PlaceIsTrue
      <3>3. LoadedIsTrue(p)'
        BY <1>1, <1>3, <2>1, <2>2, <2>6, <2>9 DEF LoadedIsTrue, HasInputs, KeepsSelection, sharedVars
      <3>4. DocumentIsTrue(p)' /\ WriterIsTrue(p)'
        BY <2>9 DEF DocumentIsTrue, WriterIsTrue, AttemptStep
      <3> QED BY <3>2, <3>3, <3>4 DEF CommandIsTrue
    <2> QED BY <1>1, <1>3, <2>6, <2>7, <2>8, <2>9, OwnerThinks
  <1> QED BY <1>2, <1>3 DEF ResumeInputs, Outcomes

\* A step that moves the owner among the places before the attempt and leaves its memory.
LEMMA PreparingMoves ==
  ASSUME Inv, NEW p \in Proc, Owns(p), UNCHANGED <<lockVars, sharedVars, report, mem>>,
         pc[p] \in {"prepare", "preparing"}, NEW s \in {"preparing", "lesson"},
         pc' = [pc EXCEPT ![p] = s],
         \A q \in Proc : q # p => pub'[q] = pub[q],
         pub'[p].step # "idle", s = "preparing" => pub'[p].mode = "prepare",
         s = "lesson" => pub'[p].step = "ready"
  PROVE  BuildInv'
  <1>1. /\ BuildTypeOK /\ PlaceIsTrue(p) /\ LoadedIsTrue(p) /\ mem[p] \in Memory
    BY OwnerKnows
  <1>2. mem' = [mem EXCEPT ![p] = mem[p]] /\ s \in Step
    BY <1>1 DEF BuildTypeOK, Step
  <1>3. ASSUME mem'[p] = mem[p], pc'[p] = s PROVE CommandIsTrue(p)'
    <2>1. Owns(p)' /\ mem[p].opened = 0
      BY <1>1 DEF PlaceIsTrue, Owns, lockVars
    <2>2. PlaceIsTrue(p)'
      BY <1>3, <2>1 DEF PlaceIsTrue
    <2>3. LoadedIsTrue(p)'
      BY <1>1, <1>3 DEF LoadedIsTrue, HasInputs, KeepsSelection, sharedVars
    <2>4. DocumentIsTrue(p)' /\ WriterIsTrue(p)'
      BY <1>3 DEF DocumentIsTrue, WriterIsTrue, AttemptStep
    <2> QED BY <2>2, <2>3, <2>4 DEF CommandIsTrue
  <1> QED BY <1>1, <1>2, <1>3, OwnerThinks

\* prepare is entered.
LEMMA PrepareKeeps == ASSUME Inv, NEW p \in Proc, Prepare(p) PROVE BuildInv'
  <1>1. /\ Owns(p) /\ pc[p] = "prepare" /\ UNCHANGED <<lockVars, sharedVars, report, mem>>
        /\ pc' = [pc EXCEPT ![p] = "preparing"] /\ BeginPrepare(p) /\ pub \in [Proc -> Publisher]
    BY OwnerKnows DEF Prepare, At, MoveTo, BeginPrepare, fileVars, sharedVars, PubTypeOK
  <1>2. /\ \A q \in Proc : q # p => pub'[q] = pub[q]
        /\ pub'[p].step # "idle" /\ pub'[p].mode = "prepare"
    BY <1>1 DEF BeginPrepare, Idle
  <1> QED BY <1>1, <1>2, PreparingMoves

\* What prepare found agrees with what job.json records.
LEMMA PreparedKeeps == ASSUME Inv, NEW p \in Proc, Prepared(p) PROVE BuildInv'
  <1>1. /\ RecordsAgree /\ BuildTypeOK /\ LoadedIsTrue(p) /\ pub[p].step # "refused"
        /\ CurrentIsPublished
    BY OwnerKnows DEF PubInv
  <1>2. /\ Owns(p) /\ pc[p] = "preparing" /\ pub[p].step = "ready"
        /\ UNCHANGED <<lockVars, sharedVars, report>>
    BY <1>1 DEF Prepared, At, pubFiles, fileVars, sharedVars
  <1>3. SelectionMatches(mem[p].prev)
    BY <1>1, <1>2 DEF LoadedIsTrue, SelectionMatches, RecordsAgree, IsSelected, Sound, CurrentIsValid,
                      PackageIsValid
  <1>4. pc' = [pc EXCEPT ![p] = "lesson"] /\ pub' = pub /\ mem' = mem
    BY <1>2, <1>3 DEF Prepared, MoveTo
  <1> QED BY <1>2, <1>4, PreparingMoves

\* The lesson is retained first.
LEMMA RetainLessonKeeps == ASSUME Inv, NEW p \in Proc, RetainLesson(p) PROVE BuildInv'
  <1>1. /\ BuildInv /\ BuildTypeOK /\ PlaceIsTrue(p) /\ LoadedIsTrue(p) /\ RecordsAgree
    BY OwnerKnows
  <1>2. /\ Owns(p) /\ pc[p] = "lesson" /\ lessonFile' = mem[p].lesson
        /\ pc' = [pc EXCEPT ![p] = "plan"] /\ mem' = mem /\ pub' = pub
        /\ UNCHANGED <<lockVars, job, planFile, report, journal, packages, current, lastWrite>>
    BY DEF RetainLesson, At, MoveTo, pubVars
  <1>3. /\ HasInputs(p) /\ mem[p].prev = job /\ KeepsSelection(p) /\ mem[p].opened = 0
        /\ pub[p].step = "ready"
    BY <1>1, <1>2 DEF LoadedIsTrue, PlaceIsTrue
  <1>4. BuildTypeOK'
    BY <1>1, <1>2, <1>3 DEF BuildTypeOK, lockVars, HasInputs, Step
  <1>5. RecordsAgree'
    BY <1>1, <1>2 DEF RecordsAgree, LastAttempt, IsSelected, JournalIsSettled
  <1>6. CommandIsTrue(p)'
    <2>1. Owns(p)' /\ pc'[p] = "plan"
      BY <1>1, <1>2 DEF Owns, lockVars, BuildTypeOK
    <2>2. PlaceIsTrue(p)'
      BY <1>2, <1>3, <2>1 DEF PlaceIsTrue
    <2>3. LoadedIsTrue(p)'
      BY <1>2, <1>3, <2>1 DEF LoadedIsTrue, HasInputs, KeepsSelection
    <2>4. DocumentIsTrue(p)' /\ WriterIsTrue(p)'
      BY <2>1 DEF DocumentIsTrue, WriterIsTrue, AttemptStep
    <2> QED BY <2>2, <2>3, <2>4 DEF CommandIsTrue
  <1> QED BY <1>1, <1>2, <1>4, <1>5, <1>6, OwnerMoves DEF BuildTypeOK

-----------------------------------------------------------------------------
(* The document of an attempt. *)

\* A transition forward changes the two states, and forgets the package when it plans.
LEMMA TransitionMoves ==
  ASSUME NEW d \in Document, NEW next \in JobState \ {"Failed", "Cancelled"}
  PROVE  LET e == Transition(d, next) IN
         /\ e \in Document /\ e.state = next /\ e.last = next
         /\ e.preview = (IF next = "Planned" THEN None ELSE d.preview)
         /\ e.attempt = d.attempt /\ e.abandoned = d.abandoned /\ e.lesson = d.lesson
         /\ e.plan = d.plan /\ e.segments = d.segments /\ e.release = d.release
  BY DEF Transition, Document

\* The attempt after the one on disk, walked to Planned, may replace it.
LEMMA AttemptIsSound ==
  ASSUME NEW old \in Document \cup {None}, NEW lesson \in Lesson, NEW plan \in Plan,
         ~AttemptOverflows(old)
  PROVE  LET d == Transition(Transition(OpenAttempt(old, lesson, plan), "Validated"), "Planned") IN
         /\ d \in Document /\ Sound(d) /\ Replaces(d, old)
         /\ d.state = "Planned" /\ d.preview = None /\ d.lesson = lesson /\ d.plan = plan
         /\ d.attempt = (IF old = None THEN 0 ELSE old.attempt) + 1
  <1> DEFINE created == OpenAttempt(old, lesson, plan)
             left == [attempt |-> old.attempt, state |-> old.state]
             n == (IF old = None THEN 0 ELSE old.attempt) + 1
             d == Transition(Transition(created, "Validated"), "Planned")
  <1>1. n \in Attempt /\ (old # None => left \in AbandonedAttempt /\ left # None)
    BY MaxAttemptAssumption, AbsenceAssumption
       DEF AttemptOverflows, Document, Attempt, AbandonedAttempt
  <1>2. created = [attempt |-> n, state |-> "Created", last |-> "Created",
                   abandoned |-> IF old = None THEN None ELSE left,
                   lesson |-> lesson, plan |-> plan, segments |-> {}, preview |-> None,
                   release |-> "PrivatePreview"]
    BY MaxAttemptAssumption DEF OpenAttempt, Attempt
  <1>3. /\ created \in Document /\ created.attempt = n /\ created.lesson = lesson
        /\ created.plan = plan /\ created.abandoned = (IF old = None THEN None ELSE left)
    BY <1>1, <1>2 DEF Document, JobState, ReleaseStatus
  <1> HIDE DEF created
  <1> DEFINE valid == Transition(created, "Validated")
  <1>4. /\ valid \in Document /\ valid.attempt = n /\ valid.lesson = lesson /\ valid.plan = plan
        /\ valid.abandoned = (IF old = None THEN None ELSE left)
    BY <1>3, TransitionMoves DEF JobState
  <1> HIDE DEF valid
  <1>5. /\ d \in Document /\ d.attempt = n /\ d.state = "Planned" /\ d.last = "Planned"
        /\ d.preview = None /\ d.abandoned = (IF old = None THEN None ELSE left)
        /\ d.lesson = lesson /\ d.plan = plan
    BY <1>4, TransitionMoves DEF JobState, valid
  <1> HIDE DEF d
  <1>7. Sound(d)
    BY <1>1, <1>5, MaxAttemptAssumption
       DEF Sound, ValidateDocument, AttemptsAreCoherent, StatesAreCoherent, Attempt
  <1>8. Replaces(d, old)
    BY <1>1, <1>5, MaxAttemptAssumption
       DEF Replaces, ValidateReplacement, ValidateInitialState, Document, Attempt
  <1>9. /\ d \in Document /\ Sound(d) /\ Replaces(d, old)
        /\ d.state = "Planned" /\ d.preview = None /\ d.lesson = lesson /\ d.plan = plan
        /\ d.attempt = n
    BY <1>5, <1>7, <1>8
  <1> QED BY <1>9 DEF d, created

\* Rendering goes on or is over: nothing but the state changes.
LEMMA RenderingIsSound ==
  ASSUME NEW d \in Document, Sound(d), d.preview = None,
         d.state \in {"Planned", "Rendering"}, NEW next \in {"Rendering", "Rendered"},
         d.state = "Planned" => next = "Rendering"
  PROVE  LET e == Transition(d, next) IN
         /\ e \in Document /\ Sound(e) /\ Replaces(e, d)
         /\ e.state = next /\ e.preview = None /\ e.attempt = d.attempt
         /\ e.lesson = d.lesson /\ e.plan = d.plan /\ e.segments = d.segments
  <1> DEFINE e == Transition(d, next)
  <1>8. next \in JobState \ {"Failed", "Cancelled"}
    BY DEF JobState
  <1>7. /\ e \in Document /\ e.state = next /\ e.last = next
        /\ e.preview = (IF next = "Planned" THEN None ELSE d.preview)
        /\ e.attempt = d.attempt /\ e.abandoned = d.abandoned /\ e.lesson = d.lesson
        /\ e.plan = d.plan /\ e.segments = d.segments /\ e.release = d.release
    BY <1>8, TransitionMoves
  <1> HIDE DEF e
  <1>1. /\ e.state = next /\ e.last = next /\ e.preview = None /\ e.attempt = d.attempt
        /\ e.abandoned = d.abandoned /\ e.lesson = d.lesson /\ e.plan = d.plan
        /\ e.segments = d.segments /\ e.release = d.release
    BY <1>7
  <1>2. e \in Document
    BY <1>7
  <1>3. Sound(e)
    BY <1>1 DEF Sound, ValidateDocument, AttemptsAreCoherent, StatesAreCoherent
  <1>4. MayTransitionTo(d.state, next)
    BY DEF MayTransitionTo, Successors, JobState
  <1>5. Replaces(e, d)
    BY <1>1, <1>4, AbsenceAssumption DEF Replaces, ValidateReplacement
  <1>6. /\ e \in Document /\ Sound(e) /\ Replaces(e, d)
        /\ e.state = next /\ e.preview = None /\ e.attempt = d.attempt
        /\ e.lesson = d.lesson /\ e.plan = d.plan /\ e.segments = d.segments
    BY <1>1, <1>2, <1>3, <1>5
  <1> QED BY <1>6 DEF e

\* The plan is retained second, and the attempt is opened; past the last number the
\* command is refused with the plan on disk.
LEMMA RetainPlanKeeps == ASSUME Inv, NEW p \in Proc, RetainPlan(p) PROVE BuildInv'
  <1>1. /\ BuildInv /\ BuildTypeOK /\ PlaceIsTrue(p) /\ LoadedIsTrue(p) /\ RecordsAgree
        /\ mem[p] \in Memory /\ lastWrite \in Attempt \cup {0}
    BY OwnerKnows DEF PubTypeOK
  <1>2. /\ Owns(p) /\ pc[p] = "plan"
        /\ planFile' = [plan |-> mem[p].plan, source |-> mem[p].source]
        /\ UNCHANGED <<lockVars, pubFiles, job, lessonFile, report>>
    BY DEF RetainPlan, At
  <1>3. /\ HasInputs(p) /\ mem[p].prev = job /\ KeepsSelection(p) /\ mem[p].opened = 0
        /\ pub[p].step = "ready" /\ lessonFile = mem[p].lesson
    BY <1>1, <1>2 DEF LoadedIsTrue, PlaceIsTrue
  <1>4. planFile' \in [plan : Plan, source : Sources] \cup {None}
    BY <1>2, <1>3 DEF HasInputs
  <1>5. CASE AttemptOverflows(mem[p].prev)
    BY <1>2, <1>4, <1>5, RefuseKeeps DEF RetainPlan, Outcomes
  <1>6. CASE ~AttemptOverflows(mem[p].prev)
    <2> DEFINE d == Transition(Transition(OpenAttempt(mem[p].prev, mem[p].lesson, mem[p].plan),
                                          "Validated"), "Planned")
               new == [mem[p] EXCEPT !.doc = d]
    <2>1. /\ mem' = [mem EXCEPT ![p] = new] /\ pc' = [pc EXCEPT ![p] = "replace"] /\ pub' = pub
      BY <1>6 DEF RetainPlan, MoveTo
    <2>2. /\ d \in Document /\ Sound(d) /\ Replaces(d, job)
          /\ d.state = "Planned" /\ d.preview = None /\ d.lesson = mem[p].lesson
          /\ d.plan = mem[p].plan /\ d.attempt = LastAttempt + 1
      BY <1>1, <1>3, <1>6, AttemptIsSound DEF BuildTypeOK, HasInputs, LastAttempt
    <2> HIDE DEF d
    <2>3. /\ new \in Memory /\ new.doc = d /\ new.opened = 0 /\ new.cmd = mem[p].cmd
          /\ new.lesson = mem[p].lesson /\ new.plan = mem[p].plan /\ new.source = mem[p].source
          /\ new.tools = mem[p].tools
      BY <1>1, <1>3, <2>2 DEF Memory
    <2> HIDE DEF new
    <2>4. /\ mem' \in [Proc -> Memory] /\ mem'[p] = new /\ pc'[p] = "replace"
          /\ \A q \in Proc : q # p => mem'[q] = mem[q] /\ pc'[q] = pc[q] /\ pub'[q] = pub[q]
      BY <1>1, <2>1, <2>3 DEF BuildTypeOK
    <2>5. BuildTypeOK'
      BY <1>1, <1>2, <1>4, <2>1, <2>4 DEF BuildTypeOK, lockVars, Step
    <2>6. RecordsAgree'
      BY <1>1, <1>2 DEF RecordsAgree, LastAttempt, IsSelected, JournalIsSettled, pubFiles
    <2>7. CommandIsTrue(p)'
      <3>1. Owns(p)' /\ job' = job /\ lessonFile' = lessonFile /\ lastWrite' = lastWrite
            /\ LastAttempt' = LastAttempt
        BY <1>2 DEF Owns, lockVars, pubFiles, LastAttempt
      <3>2. PlaceIsTrue(p)'
        BY <1>3, <2>1, <2>4, <3>1 DEF PlaceIsTrue
      <3>3. LoadedIsTrue(p)'
        BY <2>4 DEF LoadedIsTrue
      <3>4. DocumentIsTrue(p)'
        <4>1. HasInputs(p)' /\ planFile'.plan = d.plan
          BY <1>2, <1>3, <2>2, <2>3, <2>4 DEF HasInputs
        <4>2. mem[p].cmd = "resume" => job # None /\ d.lesson = job.lesson /\ d.plan.takes = job.plan.takes
          BY <1>3, <2>2 DEF KeepsSelection
        <4> QED BY <1>3, <2>2, <2>3, <2>4, <3>1, <4>1, <4>2 DEF DocumentIsTrue
      <3>5. WriterIsTrue(p)'
        <4>1. lastWrite < d.attempt
          <5>1. LastAttempt \in Nat
            BY <1>1, MaxAttemptAssumption DEF LastAttempt, BuildTypeOK, Document, Attempt
          <5> QED BY <1>1, <2>2, <5>1, MaxAttemptAssumption DEF RecordsAgree, Attempt
        <4> QED BY <1>3, <2>1, <2>2, <2>3, <2>4, <3>1, <4>1 DEF WriterIsTrue, WriterIsReady
      <3> QED BY <3>2, <3>3, <3>4, <3>5 DEF CommandIsTrue
    <2> QED BY <1>1, <1>2, <2>4, <2>5, <2>6, <2>7, OwnerMoves
  <1> QED BY <1>5, <1>6

-----------------------------------------------------------------------------
(* The steps of an attempt. *)

\* The document in memory passes the checks of the boundary; it becomes job.json, or the
\* log refuses its line and the old one stays.
LEMMA ReplaceKeeps == ASSUME Inv, NEW p \in Proc, Replace(p) PROVE BuildInv'
  <1> DEFINE d == mem[p].doc
             n == mem[p].opened
  <1>1. /\ BuildInv /\ BuildTypeOK /\ PlaceIsTrue(p) /\ DocumentIsTrue(p) /\ WriterIsTrue(p)
        /\ RecordsAgree /\ lastWrite \in Attempt \cup {0} /\ n \in Nat
    BY OwnerKnows DEF PubTypeOK, Memory
  <1>2. /\ Owns(p) /\ pc[p] = "replace"
        /\ UNCHANGED <<lockVars, pubFiles, lessonFile, planFile, report>>
    BY DEF Replace, At
  <1>3. /\ d \in Document /\ Sound(d) /\ HasInputs(p) /\ Replaces(d, job)
        /\ lessonFile = d.lesson /\ planFile.plan = d.plan /\ mem[p].plan = d.plan
        /\ d.state \in {"Planned", "Rendering", "Rendered"}
        /\ d.preview # None => d.state = "Rendered"
        /\ n # 0 => job # None /\ job.attempt = n /\ d.attempt = n /\ job.preview = None
        /\ n = 0 => d.preview = None /\ d.attempt = LastAttempt + 1
    BY <1>1, <1>2 DEF DocumentIsTrue, AttemptStep
  <1>4. ReplaceAllowed(d)
    BY <1>3 DEF ReplaceAllowed, Sound, Replaces
  <1>5. CASE Refuse(p, "EventLogRefused") /\ job' = job
    BY <1>1, <1>2, <1>5, RefuseKeeps DEF BuildTypeOK, Outcomes
  <1>6. CASE job' = d /\ MoveTo(p, "append") /\ pub' = pub /\ mem' = mem
    <2>1. /\ d # None /\ d.attempt \in Nat /\ LastAttempt \in Nat
          /\ job # None => job.attempt \in Nat
          /\ lastWrite \in Nat /\ LastAttempt <= d.attempt
      BY <1>1, <1>3, MaxAttemptAssumption, AbsenceAssumption
         DEF Document, Attempt, LastAttempt, BuildTypeOK
    <2>2. BuildTypeOK'
      BY <1>1, <1>2, <1>3, <1>6 DEF BuildTypeOK, lockVars, MoveTo, Step
    <2>3. RecordsAgree'
      <3>1. job' # None /\ Sound(job') /\ LastAttempt' = d.attempt /\ report' = report
        BY <1>2, <1>3, <1>6, <2>1 DEF LastAttempt
      <3>2. (job # None /\ job.preview # None => IsSelected(job.preview))'
        BY <1>1, <1>2, <1>6 DEF WriterIsTrue, AttemptStep, IsSelected, JournalIsSettled, pubFiles
      <3>3. lastWrite' <= LastAttempt'
        BY <1>1, <1>2, <2>1, <3>1 DEF RecordsAgree, pubFiles
      <3>4. report # None /\ report.complete =>
              /\ report.attempt \in Nat /\ report.attempt <= job'.attempt
              /\ report.attempt # job'.attempt
        BY <1>1, <1>3, <1>6, <2>1 DEF RecordsAgree, LastAttempt
      <3> QED BY <3>1, <3>2, <3>3, <3>4 DEF RecordsAgree
    <2>4. CommandIsTrue(p)'
      <3>1. Owns(p)' /\ pc'[p] = "append"
        BY <1>1, <1>2, <1>6 DEF Owns, lockVars, MoveTo, BuildTypeOK
      <3>2. PlaceIsTrue(p)'
        BY <1>1, <1>6, <3>1 DEF PlaceIsTrue
      <3>3. LoadedIsTrue(p)'
        BY <3>1 DEF LoadedIsTrue
      <3>4. DocumentIsTrue(p)'
        BY <1>2, <1>3, <1>6, <2>1, <3>1 DEF DocumentIsTrue, HasInputs
      <3>5. WriterIsTrue(p)'
        BY <1>1, <1>2, <1>6, <3>1
           DEF WriterIsTrue, WriterIsReady, AttemptStep, IsSelected, JournalIsSettled, pubFiles
      <3> QED BY <3>2, <3>3, <3>4, <3>5 DEF CommandIsTrue
    <2> QED BY <1>1, <1>2, <1>6, <2>2, <2>3, <2>4, OwnerMoves DEF BuildTypeOK, MoveTo
  <1> QED BY <1>4, <1>5, <1>6 DEF Replace

\* Where the attempt goes on is where its document says.
LEMMA AppendStateKeeps == ASSUME Inv, NEW p \in Proc, AppendState(p) PROVE BuildInv'
  <1> DEFINE d == mem[p].doc
             todo == StagesAfter(d)
             next == AfterReplace(d)
             m1 == [mem[p] EXCEPT !.opened = d.attempt]
             m2 == [m1 EXCEPT !.todo = todo]
  <1>1. /\ BuildTypeOK /\ PlaceIsTrue(p) /\ DocumentIsTrue(p) /\ WriterIsTrue(p) /\ mem[p] \in Memory
    BY OwnerKnows
  <1>2. /\ Owns(p) /\ pc[p] = "append" /\ UNCHANGED <<lockVars, sharedVars, report, pub>>
        /\ mem' = [mem EXCEPT ![p].opened = d.attempt, ![p].todo = todo]
        /\ pc' = [pc EXCEPT ![p] = next]
    BY DEF AppendState, At, MoveTo, pubVars, fileVars, sharedVars
  <1>3. /\ d \in Document /\ Sound(d) /\ HasInputs(p) /\ d = job
        /\ lessonFile = d.lesson /\ planFile.plan = d.plan /\ mem[p].plan = d.plan
        /\ d.state \in {"Planned", "Rendering", "Rendered"}
        /\ d.preview # None => d.state = "Rendered"
    BY <1>1, <1>2 DEF DocumentIsTrue, AttemptStep
  <1>4. /\ d.preview # None => pub[p] = Idle /\ IsSelected(d.preview)
        /\ d.preview = None => pub[p].step = "ready" /\ lastWrite < d.attempt
    BY <1>1, <1>2 DEF WriterIsTrue, WriterIsReady, AttemptStep
  <1>5. d.attempt \in Nat /\ d # None
    BY <1>3, MaxAttemptAssumption, AbsenceAssumption DEF Document, Attempt
  <1>6. /\ todo \in Seq(Stage) /\ next \in {"stage", "resolve", "write", "report"}
        /\ next = "stage" => todo # <<>> /\ d.state # "Rendered"
        /\ next = "resolve" => d.state = "Rendering" /\ d.segments = {}
        /\ next = "write" => d.state = "Rendered" /\ d.preview = None
        /\ next = "report" => d.preview # None
    <2>1. /\ <<"PlanSelected">> \in Seq(Stage) /\ <<"SegmentResolved">> \in Seq(Stage)
          /\ <<>> \in Seq(Stage)
      BY DEF Stage
    <2>2. <<"PlanSelected">> # <<>> /\ <<"SegmentResolved">> # <<>>
      OBVIOUS
    <2> QED BY <1>3, <2>1, <2>2 DEF StagesAfter, AfterReplace
  <1>7. Segments # {}
    BY NumSegmentsAssumption DEF Segments
  <1> HIDE DEF todo, next
  <1>8. m1 \in Memory /\ m1.doc = d /\ m1.opened = d.attempt
        /\ m1.lesson = mem[p].lesson /\ m1.plan = mem[p].plan /\ m1.source = mem[p].source
        /\ m1.tools = mem[p].tools
    BY <1>1, <1>5 DEF Memory
  <1> HIDE DEF m1
  <1>9. mem' = [mem EXCEPT ![p] = m2]
    <2>1. mem' = [[mem EXCEPT ![p].opened = d.attempt] EXCEPT ![p].todo = todo]
      BY <1>2
    <2>2. [mem EXCEPT ![p].opened = d.attempt] = [mem EXCEPT ![p] = m1]
      BY <1>1 DEF m1, BuildTypeOK
    <2>3. [[mem EXCEPT ![p] = m1] EXCEPT ![p].todo = todo] = [mem EXCEPT ![p] = m2]
      BY <1>1, <1>8 DEF BuildTypeOK
    <2> QED BY <2>1, <2>2, <2>3
  <1>10. m2 \in Memory /\ m2.doc = d /\ m2.opened = d.attempt /\ m2.todo = todo
         /\ m2.lesson = mem[p].lesson /\ m2.plan = mem[p].plan /\ m2.source = mem[p].source
         /\ m2.tools = mem[p].tools
    BY <1>6, <1>8 DEF Memory
  <1> HIDE DEF m2
  <1>11. ASSUME mem'[p] = m2, pc'[p] = next PROVE CommandIsTrue(p)'
    <2>1. Owns(p)'
      BY <1>2 DEF Owns, lockVars
    <2>2. PlaceIsTrue(p)'
      BY <1>1, <1>2, <1>6, <1>11, <2>1 DEF PlaceIsTrue
    <2>3. LoadedIsTrue(p)'
      BY <1>6, <1>11 DEF LoadedIsTrue
    <2>4. DocumentIsTrue(p)'
      BY <1>2, <1>3, <1>5, <1>6, <1>10, <1>11 DEF DocumentIsTrue, HasInputs, sharedVars
    <2>5. WriterIsTrue(p)'
      BY <1>2, <1>3, <1>4, <1>6, <1>7, <1>10, <1>11
         DEF WriterIsTrue, WriterIsReady, IsSelected, JournalIsSettled, sharedVars
    <2> QED BY <2>2, <2>3, <2>4, <2>5 DEF CommandIsTrue
  <1> QED BY <1>2, <1>6, <1>9, <1>10, <1>11, OwnerThinks DEF Step

\* A segment is added to a document that is rendering.
LEMMA ResolveKeeps == ASSUME Inv, NEW p \in Proc, ResolveSegment(p) PROVE BuildInv'
  <1> DEFINE d == mem[p].doc
             e == Transition(d, "Rendering")
  <1>1. /\ BuildTypeOK /\ PlaceIsTrue(p) /\ DocumentIsTrue(p) /\ WriterIsTrue(p) /\ mem[p] \in Memory
    BY OwnerKnows
  <1>2. /\ Owns(p) /\ pc[p] = "resolve" /\ UNCHANGED <<lockVars, sharedVars, report, pub>>
        /\ pc' = [pc EXCEPT ![p] = "replace"]
    BY DEF ResolveSegment, At, MoveTo, pubVars, fileVars, sharedVars
  <1>3. PICK i \in Segments : mem' = [mem EXCEPT ![p].doc = WithSegment(e, i)]
    BY DEF ResolveSegment
  <1>4. /\ d \in Document /\ Sound(d) /\ HasInputs(p) /\ d = job /\ mem[p].opened = d.attempt
        /\ lessonFile = d.lesson /\ planFile.plan = d.plan /\ mem[p].plan = d.plan
        /\ d.state = "Rendering" /\ d.preview = None
        /\ pub[p].step = "ready" /\ lastWrite < d.attempt
    BY <1>1, <1>2 DEF DocumentIsTrue, AttemptStep, WriterIsTrue, WriterIsReady
  <1>5. d.attempt \in Nat \ {0} /\ d # None
    BY <1>4, MaxAttemptAssumption, AbsenceAssumption DEF Document, Attempt
  <1>6. /\ e \in Document /\ Sound(e) /\ Replaces(e, d)
        /\ e.state = "Rendering" /\ e.preview = None /\ e.attempt = d.attempt
        /\ e.lesson = d.lesson /\ e.plan = d.plan
    BY <1>4, RenderingIsSound
  <1> HIDE DEF e
  <1> DEFINE f == [e EXCEPT !.segments = @ \cup {i}]
             new == [mem[p] EXCEPT !.doc = f]
  <1>7. /\ f \in Document /\ f.state = e.state /\ f.last = e.last /\ f.preview = None
        /\ f.attempt = d.attempt /\ f.abandoned = e.abandoned /\ f.lesson = d.lesson
        /\ f.plan = d.plan /\ f.release = e.release
    BY <1>6 DEF Document
  <1>8. mem' = [mem EXCEPT ![p] = new]
    BY <1>1, <1>3 DEF WithSegment, BuildTypeOK
  <1> HIDE DEF f
  <1>9. Sound(f) /\ Replaces(f, job)
    BY <1>4, <1>5, <1>6, <1>7
       DEF Sound, ValidateDocument, AttemptsAreCoherent, Replaces, ValidateReplacement
  <1>10. /\ new \in Memory /\ new.doc = f /\ new.opened = d.attempt
         /\ new.lesson = mem[p].lesson /\ new.plan = mem[p].plan /\ new.source = mem[p].source
         /\ new.tools = mem[p].tools
    BY <1>1, <1>4, <1>7 DEF Memory
  <1> HIDE DEF new
  <1>11. ASSUME mem'[p] = new, pc'[p] = "replace" PROVE CommandIsTrue(p)'
    <2>1. Owns(p)'
      BY <1>2 DEF Owns, lockVars
    <2>2. PlaceIsTrue(p)'
      BY <1>1, <1>2, <1>11, <2>1 DEF PlaceIsTrue
    <2>3. LoadedIsTrue(p)'
      BY <1>11 DEF LoadedIsTrue
    <2>4. DocumentIsTrue(p)'
      BY <1>2, <1>4, <1>5, <1>6, <1>7, <1>9, <1>10, <1>11 DEF DocumentIsTrue, HasInputs, sharedVars
    <2>5. WriterIsTrue(p)'
      BY <1>2, <1>4, <1>7, <1>10, <1>11 DEF WriterIsTrue, WriterIsReady, sharedVars
    <2> QED BY <2>2, <2>3, <2>4, <2>5 DEF CommandIsTrue
  <1> QED BY <1>2, <1>8, <1>10, <1>11, OwnerThinks DEF Step

\* The stages are logged one by one; with the last of them the next document is made.
LEMMA RecordStageKeeps == ASSUME Inv, NEW p \in Proc, RecordStage(p) PROVE BuildInv'
  <1> DEFINE d == mem[p].doc
             todo == mem[p].todo
             last == Len(todo) = 1
             e == IF last THEN NextDocument(p) ELSE d
             next == IF ~last THEN "stage" ELSE IF NextDocument(p) = d THEN "resolve" ELSE "replace"
             m1 == [mem[p] EXCEPT !.todo = Tail(@)]
             m2 == [m1 EXCEPT !.doc = e]
  <1>1. /\ BuildTypeOK /\ PlaceIsTrue(p) /\ DocumentIsTrue(p) /\ WriterIsTrue(p)
        /\ mem[p] \in Memory /\ WriterReturnsItsOwn(p) /\ pub \in [Proc -> Publisher]
        /\ PubTypeOK /\ CurrentIsPublished
    BY OwnerKnows DEF PubTypeOK, PubInv
  <1>2. /\ Owns(p) /\ pc[p] = "stage" /\ UNCHANGED <<lockVars, sharedVars, report, pubFiles>>
    BY DEF RecordStage, At, pubFiles, fileVars, sharedVars
  <1>3. /\ d \in Document /\ Sound(d) /\ HasInputs(p) /\ d = job /\ mem[p].opened = d.attempt
        /\ lessonFile = d.lesson /\ planFile.plan = d.plan /\ mem[p].plan = d.plan
        /\ d.state \in {"Planned", "Rendering", "Rendered"}
        /\ d.preview = None /\ todo # <<>>
        /\ d.state # "Rendered" => pub[p].step = "ready" /\ lastWrite < d.attempt
        /\ d.state = "Rendered" => pub[p].step = "done" /\ WriterIsOwn(p) /\ WriterIsDone
    BY <1>1, <1>2 DEF DocumentIsTrue, AttemptStep, WriterIsTrue, WriterIsReady
  <1>4. d.attempt \in Nat \ {0} /\ d # None
    BY <1>3, MaxAttemptAssumption, AbsenceAssumption DEF Document, Attempt
  <1>5. CASE Refuse(p, "EventLogRefused")
    BY <1>1, <1>2, <1>5, RefuseKeeps DEF BuildTypeOK, Outcomes, sharedVars
  <1>6. CASE ~Refuse(p, "EventLogRefused")
    <2>1. /\ mem' = [mem EXCEPT ![p].todo = Tail(@), ![p].doc = e]
          /\ pc' = [pc EXCEPT ![p] = next]
          /\ pub' = IF last /\ d.state = "Rendered" THEN [pub EXCEPT ![p] = Idle] ELSE pub
      BY <1>6 DEF RecordStage, MoveTo
    <2>2. Tail(todo) \in Seq(Stage) /\ (~last => Tail(todo) # <<>>)
      <3>1. todo \in Seq(Stage)
        BY <1>1 DEF Memory
      <3>2. Tail(todo) \in Seq(Stage) /\ Len(Tail(todo)) = Len(todo) - 1 /\ Len(todo) \in Nat
        BY <1>3, <3>1
      <3>3. Len(<<>>) = 0
        OBVIOUS
      <3>4. ASSUME ~last PROVE Tail(todo) # <<>>
        <4>1. Len(Tail(todo)) # 0
          BY <3>2, <3>4
        <4> QED BY ONLY <3>3, <4>1
      <3> QED BY <3>2, <3>4
    <2>3. CASE ~last
      <3>1. e = d /\ next = "stage" /\ pub' = pub
        BY <2>1, <2>3
      <3> HIDE DEF e, next, last
      <3>2. /\ m1 \in Memory /\ m1.doc = d /\ m1.opened = d.attempt /\ m1.todo = Tail(todo)
            /\ m1.lesson = mem[p].lesson /\ m1.plan = mem[p].plan /\ m1.source = mem[p].source
            /\ m1.tools = mem[p].tools
        BY <1>1, <1>3, <2>2 DEF Memory
      <3> HIDE DEF m1
      <3>3. /\ m2 \in Memory /\ m2.doc = d /\ m2.opened = d.attempt /\ m2.todo = Tail(todo)
            /\ m2.lesson = mem[p].lesson /\ m2.plan = mem[p].plan /\ m2.source = mem[p].source
            /\ m2.tools = mem[p].tools
        BY <1>3, <3>1, <3>2 DEF Memory
      <3>4. mem' = [mem EXCEPT ![p] = m2]
        BY <1>1, <2>1 DEF m1, BuildTypeOK
      <3> HIDE DEF m2
      <3>5. ASSUME mem'[p] = m2, pc'[p] = next PROVE CommandIsTrue(p)'
        <4>1. Owns(p)' /\ pub'[p] = pub[p] /\ pc'[p] = "stage"
          BY <1>2, <3>1, <3>5 DEF Owns, lockVars
        <4>2. PlaceIsTrue(p)'
          BY <1>1, <4>1 DEF PlaceIsTrue
        <4>3. LoadedIsTrue(p)'
          BY <4>1 DEF LoadedIsTrue
        <4>4. DocumentIsTrue(p)'
          BY <1>2, <1>3, <1>4, <3>3, <3>5, <4>1 DEF DocumentIsTrue, HasInputs, sharedVars
        <4>5. WriterIsTrue(p)'
          BY <1>2, <1>3, <2>2, <2>3, <3>3, <3>5, <4>1
             DEF WriterIsTrue, WriterIsReady, WriterIsOwn, WriterIsDone, JournalIsSettled, sharedVars
        <4> QED BY <4>2, <4>3, <4>4, <4>5 DEF CommandIsTrue
      <3> QED BY <1>2, <2>1, <3>1, <3>3, <3>4, <3>5, OwnerThinks DEF Step
    <2>4. CASE last
      <3>1. /\ e \in Document /\ Sound(e) /\ e.lesson = d.lesson /\ e.plan = d.plan
            /\ e.attempt = d.attempt /\ e.state \in {"Rendering", "Rendered"}
            /\ \/ /\ e = d /\ next = "resolve" /\ e.state = "Rendering" /\ e.segments # Segments
                  /\ pub' = pub /\ e.preview = None
               \/ /\ Replaces(e, d) /\ next = "replace"
                  /\ \/ pub' = pub /\ e.preview = None /\ d.state # "Rendered"
                     \/ /\ pub' = [pub EXCEPT ![p] = Idle] /\ e.state = "Rendered"
                        /\ e.preview = current /\ current \in packages /\ current # None
                        /\ JournalIsSettled
        <4>1. CASE d.state = "Planned"
          <5>1. e = Transition(d, "Rendering") /\ pub' = pub
            BY <2>1, <2>4, <4>1 DEF NextDocument
          <5>2. e # d /\ next = "replace"
            BY <1>3, <2>4, <4>1, <5>1, RenderingIsSound
          <5> QED BY <1>3, <4>1, <5>1, <5>2, RenderingIsSound
        <4>2. CASE d.state = "Rendering" /\ d.segments = Segments
          <5>1. e = Transition(d, "Rendered") /\ pub' = pub
            BY <2>1, <2>4, <4>2 DEF NextDocument
          <5>2. e # d /\ next = "replace"
            BY <1>3, <2>4, <4>2, <5>1, RenderingIsSound
          <5> QED BY <1>3, <4>2, <5>1, <5>2, RenderingIsSound
        <4>3. CASE d.state = "Rendering" /\ d.segments # Segments
          <5>1. e = d /\ pub' = pub /\ next = "resolve"
            BY <2>1, <2>4, <4>3 DEF NextDocument
          <5> QED BY <1>3, <4>3, <5>1
        <4>4. CASE d.state = "Rendered"
          <5>1. e = [d EXCEPT !.preview = pub[p].got] /\ pub' = [pub EXCEPT ![p] = Idle]
            BY <2>1, <2>4, <4>4 DEF NextDocument, WithPreviewPackage
          <5>2. /\ pub[p].got = current /\ current \in Manifest /\ current \in packages
                /\ current # None /\ current.plan = d.plan /\ JournalIsSettled
            BY <1>1, <1>3, <4>4 DEF WriterReturnsItsOwn, WriterIsOwn, WriterIsDone, PubTypeOK,
                                    CurrentIsPublished
          <5>3. /\ e \in Document /\ e.preview = current /\ e.state = d.state /\ e.last = d.last
                /\ e.attempt = d.attempt /\ e.abandoned = d.abandoned /\ e.lesson = d.lesson
                /\ e.plan = d.plan /\ e.release = d.release
            BY <1>3, <5>1, <5>2 DEF Document
          <5>4. e # d /\ next = "replace"
            BY <1>3, <2>4, <5>2, <5>3, NoneAssumption
          <5> HIDE DEF e, next
          <5>5. HasRendered(d.last)
            BY <1>3, <4>4 DEF Sound, ValidateDocument, StatesAreCoherent, HasRendered
          <5>6. Sound(e) /\ Replaces(e, d)
            BY <1>3, <1>4, <5>2, <5>3, <5>5
               DEF Sound, ValidateDocument, AttemptsAreCoherent, Replaces, ValidateReplacement
          <5> QED BY <1>3, <4>4, <5>1, <5>2, <5>3, <5>4, <5>6
        <4> QED BY <1>3, <4>1, <4>2, <4>3, <4>4
      <3> HIDE DEF e, next, last
      <3>2. /\ m1 \in Memory /\ m1.opened = d.attempt
            /\ m1.lesson = mem[p].lesson /\ m1.plan = mem[p].plan /\ m1.source = mem[p].source
            /\ m1.tools = mem[p].tools
        BY <1>1, <1>3, <2>2 DEF Memory
      <3> HIDE DEF m1
      <3>3. /\ m2 \in Memory /\ m2.doc = e /\ m2.opened = d.attempt
            /\ m2.lesson = mem[p].lesson /\ m2.plan = mem[p].plan /\ m2.source = mem[p].source
            /\ m2.tools = mem[p].tools
        BY <3>1, <3>2 DEF Memory
      <3>4. mem' = [mem EXCEPT ![p] = m2]
        BY <1>1, <2>1 DEF m1, BuildTypeOK
      <3> HIDE DEF m2
      <3>5. ASSUME mem'[p] = m2, pc'[p] = next PROVE CommandIsTrue(p)'
        <4>1. Owns(p)' /\ pc'[p] \in {"resolve", "replace"}
          BY <1>2, <3>1, <3>5 DEF Owns, lockVars
        <4>2. PlaceIsTrue(p)'
          BY <1>1, <3>1, <4>1 DEF PlaceIsTrue
        <4>3. LoadedIsTrue(p)'
          BY <4>1 DEF LoadedIsTrue
        <4>4. DocumentIsTrue(p)'
          BY <1>2, <1>3, <1>4, <3>1, <3>3, <3>5, <4>1 DEF DocumentIsTrue, HasInputs, sharedVars
        <4>5. WriterIsTrue(p)'
          <5>1. mem'[p].doc = e /\ JournalIsSettled' = JournalIsSettled
            BY <1>2, <3>3, <3>5 DEF JournalIsSettled, sharedVars
          <5>2. CASE pub' = pub /\ e.preview = None /\ d.state # "Rendered"
            <6>1. WriterIsReady(p)'
              BY <1>2, <1>3, <3>1, <5>1, <5>2 DEF WriterIsReady, sharedVars
            <6> QED BY <3>1, <3>5, <4>1, <5>1, <5>2, <6>1 DEF WriterIsTrue
          <5>3. CASE /\ pub' = [pub EXCEPT ![p] = Idle] /\ e.state = "Rendered" /\ next = "replace"
                     /\ e.preview = current /\ current \in packages /\ current # None
                     /\ JournalIsSettled
            <6>1. e.preview # None
              BY <5>3
            <6>2. pub'[p] = Idle /\ IsSelected(mem[p].doc.preview)'
              BY <1>1, <1>2, <5>1, <5>3 DEF IsSelected, sharedVars
            <6> QED BY <3>5, <4>1, <5>1, <5>3, <6>1, <6>2 DEF WriterIsTrue
          <5> QED BY <1>3, <3>1, <5>2, <5>3
        <4> QED BY <4>2, <4>3, <4>4, <4>5 DEF CommandIsTrue
      <3>6. next \in Step /\ \A q \in Proc : q # p => pub'[q] = pub[q]
        BY <1>1, <3>1 DEF Step
      <3> QED BY <1>2, <2>1, <3>3, <3>4, <3>5, <3>6, OwnerThinks
    <2> QED BY <2>3, <2>4
  <1> QED BY <1>5, <1>6

-----------------------------------------------------------------------------
(* The package of an attempt, and the end. *)

\* What the publisher does between call and return: it keeps its call, it touches no
\* settled publication while it prepares, and what it returns from write is settled.
LEMMA WorkIsOwn ==
  ASSUME Inv, NEW p \in Proc, PubWork(p)
  PROVE  /\ \A q \in Proc : q # p => pub'[q] = pub[q]
         /\ pub'[p].step # "idle" /\ pub'[p].mode = pub[p].mode /\ pub'[p].target = pub[p].target
         /\ lastWrite' = lastWrite
         /\ pub'[p].step = "done" => WriterIsDone'
         /\ JournalIsSettled /\ pub[p].mode = "prepare" => UNCHANGED <<journal, packages, current>>
  <1>1. /\ StepIsTrue(p) /\ pub[p] \in Publisher /\ pub \in [Proc -> Publisher]
        /\ CurrentIsPublished
    BY OwnerKnows DEF PubTypeOK, PubInv
  <1>2. ASSUME NEW s, Goto(p, s)
        PROVE  /\ \A q \in Proc : q # p => pub'[q] = pub[q]
               /\ pub'[p].step = s /\ pub'[p].mode = pub[p].mode /\ pub'[p].target = pub[p].target
    BY <1>1, <1>2 DEF Goto, Publisher
  <1>3. CASE QuarantineOrphan(p) \/ QuarantineIncomplete(p) \/ ClearStage(p)
    BY <1>3 DEF QuarantineOrphan, QuarantineIncomplete, ClearStage
  <1>4. CASE OrphansDone(p)
    BY <1>2, <1>4 DEF OrphansDone
  <1>5. CASE AbandonTransaction(p)
    BY <1>1, <1>2, <1>5 DEF AbandonTransaction, JournalIsSettled, StepIsTrue
  <1>6. CASE AdoptStage(p)
    BY <1>1, <1>2, <1>6 DEF AdoptStage, GotoIf, JournalIsSettled, StepIsTrue
  <1>7. CASE MovePackage(p)
    BY <1>1, <1>2, <1>7 DEF MovePackage, JournalIsSettled, StepIsTrue
  <1>8. CASE MarkDurable(p)
    BY <1>1, <1>2, <1>8 DEF MarkDurable, GotoIf, JournalIsSettled, StepIsTrue
  <1>9. CASE SelectPackage(p)
    BY <1>1, <1>2, <1>9 DEF SelectPackage, GotoIf, JournalIsSettled, StepIsTrue
  <1>10. CASE MarkSelected(p)
    BY <1>1, <1>2, <1>10 DEF MarkSelected, JournalIsSettled, StepIsTrue
  <1>11. CASE MarkComplete(p)
    BY <1>1, <1>2, <1>11 DEF MarkComplete, GotoIf, JournalIsSettled, StepIsTrue
  <1>12. CASE LeaveLoop(p)
    <2>1. PICK s \in {"done", "ready", "refused"} :
            /\ pub' = [pub EXCEPT ![p].step = s, ![p].got = current]
            /\ s = "done" => pub[p].mode = "write" /\ current # None
      BY <1>12 DEF LeaveLoop
    <2>2. pub' = [[pub EXCEPT ![p].step = s] EXCEPT ![p].got = current]
      BY <2>1
    <2>3. /\ \A q \in Proc : q # p => pub'[q] = pub[q]
          /\ pub'[p].step = s /\ pub'[p].mode = pub[p].mode /\ pub'[p].target = pub[p].target
      BY <1>1, <2>2 DEF Publisher
    <2> QED BY <1>1, <1>12, <2>1, <2>3 DEF LeaveLoop, WriterIsDone, JournalIsSettled
  <1>13. CASE CreateStage(p)
    BY <1>2, <1>13 DEF CreateStage
  <1>14. CASE OpenJournal(p)
    BY <1>1, <1>2, <1>14 DEF OpenJournal, StepIsTrue
  <1>15. CASE FillStage(p)
    BY <1>2, <1>15 DEF FillStage
  <1>16. CASE SealStage(p)
    BY <1>1, <1>2, <1>16 DEF SealStage, GotoIf, StepIsTrue
  <1> QED BY <1>3, <1>4, <1>5, <1>6, <1>7, <1>8, <1>9, <1>10, <1>11, <1>12, <1>13, <1>14, <1>15,
             <1>16 DEF PubWork

\* A step inside publication: while it prepares, a recorded completion stands; while it
\* writes, there is none to disturb.
LEMMA PublicationStepKeeps == ASSUME Inv, NEW p \in Proc, PublicationStep(p) PROVE BuildInv'
  <1>1. /\ BuildInv /\ BuildTypeOK /\ PlaceIsTrue(p) /\ LoadedIsTrue(p) /\ DocumentIsTrue(p)
        /\ WriterIsTrue(p) /\ RecordsAgree
    BY OwnerKnows
  <1>2. /\ Owns(p) /\ pc[p] \in {"preparing", "writing"} /\ PubWork(p) /\ pc' = pc /\ mem' = mem
        /\ UNCHANGED <<lockVars, job, lessonFile, planFile, report>>
    BY DEF PublicationStep, fileVars
  <1>3. /\ \A q \in Proc : q # p => pub'[q] = pub[q]
        /\ pub'[p].step # "idle" /\ pub'[p].mode = pub[p].mode /\ pub'[p].target = pub[p].target
        /\ lastWrite' = lastWrite
        /\ pub'[p].step = "done" => WriterIsDone'
        /\ JournalIsSettled /\ pub[p].mode = "prepare" => UNCHANGED <<journal, packages, current>>
    BY <1>2, WorkIsOwn
  <1>4. BuildTypeOK'
    BY <1>1, <1>2 DEF BuildTypeOK, lockVars
  <1>5. RecordsAgree'
    <2>1. job # None /\ job.preview # None => IsSelected(job.preview) /\ IsSelected(job.preview)'
      <3>1. CASE pc[p] = "preparing"
        BY <1>1, <1>2, <1>3, <3>1 DEF RecordsAgree, IsSelected, JournalIsSettled, LoadedIsTrue
      <3>2. CASE pc[p] = "writing"
        BY <1>1, <3>2 DEF WriterIsTrue, DocumentIsTrue, AttemptStep
      <3> QED BY <1>2, <3>1, <3>2
    <2> QED BY <1>1, <1>2, <1>3, <2>1 DEF RecordsAgree, LastAttempt
  <1>6. CommandIsTrue(p)'
    <2>1. Owns(p)' /\ mem'[p] = mem[p] /\ pc'[p] = pc[p]
      BY <1>2 DEF Owns, lockVars
    <2>2. PlaceIsTrue(p)'
      BY <1>1, <1>2, <1>3, <2>1 DEF PlaceIsTrue
    <2>3. LoadedIsTrue(p)'
      BY <1>1, <1>2, <1>3, <2>1 DEF LoadedIsTrue, HasInputs, KeepsSelection
    <2>4. DocumentIsTrue(p)'
      BY <1>1, <1>2, <2>1 DEF DocumentIsTrue, HasInputs, LastAttempt
    <2>5. WriterIsTrue(p)'
      <3>1. CASE pc[p] = "preparing"
        BY <2>1, <3>1 DEF WriterIsTrue, AttemptStep
      <3>2. CASE pc[p] = "writing"
        <4>1. mem[p].doc.state = "Rendered" /\ mem[p].doc.preview = None /\ WriterIsOwn(p)
          BY <1>1, <3>2 DEF WriterIsTrue
        <4>2. WriterIsOwn(p)'
          BY <1>3, <2>1, <4>1 DEF WriterIsOwn
        <4> QED BY <1>3, <2>1, <3>2, <4>1, <4>2 DEF WriterIsTrue
      <3> QED BY <1>2, <3>1, <3>2
    <2> QED BY <2>2, <2>3, <2>4, <2>5 DEF CommandIsTrue
  <1> QED BY <1>1, <1>2, <1>3, <1>4, <1>5, <1>6, OwnerMoves

\* The package is begun under the number of the attempt that job.json already bears.
LEMMA StartWriteKeeps == ASSUME Inv, NEW p \in Proc, StartWrite(p) PROVE BuildInv'
  <1> DEFINE d == mem[p].doc
  <1>1. /\ BuildInv /\ BuildTypeOK /\ PlaceIsTrue(p) /\ DocumentIsTrue(p) /\ WriterIsTrue(p)
        /\ RecordsAgree /\ StepIsTrue(p) /\ pub \in [Proc -> Publisher]
    BY OwnerKnows DEF PubTypeOK
  <1>2. /\ Owns(p) /\ pc[p] = "write" /\ BeginWrite(p, PackageOf(p)) /\ mem' = mem
        /\ pc' = [pc EXCEPT ![p] = "writing"]
        /\ UNCHANGED <<lockVars, job, lessonFile, planFile, report, journal, packages, current>>
    BY DEF StartWrite, At, MoveTo, BeginWrite, fileVars
  <1>3. PackageOf(p) \in Manifest /\ PackageOf(p).plan = d.plan /\ PackageOf(p).attempt = d.attempt
    BY <1>2, PackageIsOwn DEF At
  <1>4. /\ d \in Document /\ d = job /\ d # None /\ d.attempt \in Nat
        /\ d.state = "Rendered" /\ d.preview = None /\ pub[p].step = "ready"
    BY <1>1, <1>2, MaxAttemptAssumption, AbsenceAssumption
       DEF DocumentIsTrue, WriterIsTrue, WriterIsReady, AttemptStep, Document, Attempt
  <1>5. /\ \A q \in Proc : q # p => pub'[q] = pub[q]
        /\ pub'[p].step # "idle" /\ pub'[p].mode = "write" /\ pub'[p].target = PackageOf(p)
        /\ pub'[p].step = "done" => current # None
        /\ lastWrite' = d.attempt
    BY <1>1, <1>2, <1>3 DEF BeginWrite, Reusable
  <1>6. JournalIsSettled
    BY <1>1, <1>4 DEF StepIsTrue
  <1>7. BuildTypeOK'
    BY <1>1, <1>2 DEF BuildTypeOK, lockVars, Step
  <1>8. RecordsAgree'
    BY <1>1, <1>2, <1>4, <1>5 DEF RecordsAgree, LastAttempt, IsSelected, JournalIsSettled
  <1>9. CommandIsTrue(p)'
    <2>1. Owns(p)' /\ mem'[p] = mem[p] /\ pc'[p] = "writing"
      BY <1>1, <1>2 DEF Owns, lockVars, BuildTypeOK
    <2>2. PlaceIsTrue(p)'
      BY <1>5, <2>1 DEF PlaceIsTrue
    <2>3. LoadedIsTrue(p)'
      BY <2>1 DEF LoadedIsTrue
    <2>4. DocumentIsTrue(p)'
      BY <1>1, <1>2, <2>1 DEF DocumentIsTrue, HasInputs, AttemptStep
    <2>5. WriterIsTrue(p)'
      BY <1>2, <1>3, <1>4, <1>5, <1>6, <2>1
         DEF WriterIsTrue, WriterIsOwn, WriterIsDone, JournalIsSettled
    <2> QED BY <2>2, <2>3, <2>4, <2>5 DEF CommandIsTrue
  <1> QED BY <1>1, <1>2, <1>5, <1>7, <1>8, <1>9, OwnerMoves DEF BuildTypeOK

\* write returned: its stages are to be logged.
LEMMA WrittenKeeps == ASSUME Inv, NEW p \in Proc, Written(p) PROVE BuildInv'
  <1> DEFINE d == mem[p].doc
             todo == IF pub[p].got = pub[p].target
                     THEN <<"PackageAssembled", "PackageEncoded", "PackagePublished">>
                     ELSE <<"PackageReused">>
             new == [mem[p] EXCEPT !.todo = todo]
  <1>1. /\ BuildTypeOK /\ PlaceIsTrue(p) /\ DocumentIsTrue(p) /\ WriterIsTrue(p)
        /\ mem[p] \in Memory /\ pub[p].step # "refused"
    BY OwnerKnows
  <1>2. /\ Owns(p) /\ pc[p] = "writing" /\ pub[p].step = "done"
        /\ mem' = [mem EXCEPT ![p] = new] /\ pc' = [pc EXCEPT ![p] = "stage"] /\ pub' = pub
        /\ UNCHANGED <<lockVars, sharedVars, report>>
    BY <1>1 DEF Written, At, MoveTo, pubFiles, fileVars, sharedVars
  <1>3. todo \in Seq(Stage) /\ todo # <<>>
    <2>1. /\ <<"PackageAssembled", "PackageEncoded", "PackagePublished">> \in Seq(Stage)
          /\ <<"PackageReused">> \in Seq(Stage)
      BY DEF Stage
    <2>2. <<"PackageAssembled", "PackageEncoded", "PackagePublished">> # <<>> /\ <<"PackageReused">> # <<>>
      OBVIOUS
    <2> QED BY <2>1, <2>2
  <1> HIDE DEF todo
  <1>4. /\ new \in Memory /\ new.doc = d /\ new.opened = mem[p].opened /\ new.todo = todo
        /\ new.lesson = mem[p].lesson /\ new.plan = mem[p].plan /\ new.source = mem[p].source
        /\ new.tools = mem[p].tools /\ new.cmd = mem[p].cmd
    BY <1>1, <1>3 DEF Memory
  <1> HIDE DEF new
  <1>5. ASSUME mem'[p] = new, pc'[p] = "stage" PROVE CommandIsTrue(p)'
    <2>1. Owns(p)' /\ pub'[p] = pub[p]
      BY <1>2 DEF Owns, lockVars
    <2>2. PlaceIsTrue(p)'
      BY <1>2, <1>5, <2>1 DEF PlaceIsTrue
    <2>3. LoadedIsTrue(p)'
      BY <1>5 DEF LoadedIsTrue
    <2>4. DocumentIsTrue(p)'
      BY <1>1, <1>2, <1>4, <1>5 DEF DocumentIsTrue, HasInputs, AttemptStep, sharedVars
    <2>5. WriterIsTrue(p)'
      BY <1>1, <1>2, <1>3, <1>4, <1>5, <2>1
         DEF WriterIsTrue, WriterIsOwn, WriterIsDone, JournalIsSettled, sharedVars
    <2> QED BY <2>2, <2>3, <2>4, <2>5 DEF CommandIsTrue
  <1> QED BY <1>2, <1>4, <1>5, OwnerThinks DEF Step

\* The report of a finished build is the report of the completion in job.json.
LEMMA RetainReportKeeps == ASSUME Inv, NEW p \in Proc, RetainReport(p) PROVE BuildInv'
  <1> DEFINE d == mem[p].doc
  <1>1. /\ BuildInv /\ BuildTypeOK /\ PlaceIsTrue(p) /\ DocumentIsTrue(p) /\ WriterIsTrue(p)
        /\ RecordsAgree /\ mem[p] \in Memory
    BY OwnerKnows
  <1>2. /\ Owns(p) /\ pc[p] = "report" /\ report' = Report(mem[p].opened, TRUE)
        /\ mem' = [mem EXCEPT ![p] = Ended("ok", mem[p].opened)]
        /\ pc' = [pc EXCEPT ![p] = "leave"] /\ pub' = pub
        /\ UNCHANGED <<lockVars, sharedVars>>
    BY DEF RetainReport, At, MoveTo, pubVars, sharedVars
  <1>3. /\ d \in Document /\ d = job /\ d # None /\ d.attempt \in Nat /\ mem[p].opened = d.attempt
        /\ d.preview # None /\ pub[p] = Idle
    BY <1>1, <1>2, MaxAttemptAssumption, AbsenceAssumption
       DEF DocumentIsTrue, WriterIsTrue, AttemptStep, Document, Attempt
  <1>4. BuildTypeOK'
    BY <1>1, <1>2, <1>3, EndedIsTyped DEF BuildTypeOK, lockVars, sharedVars, Step, Outcomes
  <1>5. RecordsAgree'
    <2>1. report'.attempt = job.attempt /\ job.attempt \in Nat /\ job # None /\ job.preview # None
      BY <1>2, <1>3 DEF Report
    <2>2. UNCHANGED <<job, journal, packages, current, lastWrite>>
      BY <1>2 DEF sharedVars
    <2> QED BY <1>1, <2>1, <2>2 DEF RecordsAgree, LastAttempt, IsSelected, JournalIsSettled
  <1>6. CommandIsTrue(p)'
    BY <1>1, <1>2, <1>3, EndedIsTrue DEF BuildTypeOK
  <1> QED BY <1>1, <1>2, <1>4, <1>5, <1>6, OwnerMoves DEF BuildTypeOK

-----------------------------------------------------------------------------
(* The invariant of the pipeline. *)

LEMMA BuildInitIsTrue == BuildInit => Inv
  <1> SUFFICES ASSUME BuildInit PROVE Inv
    OBVIOUS
  <1>1. PubInit /\ PubInv
    BY InitIsTrue DEF BuildInit
  <1>2. \A p \in Proc : /\ pc[p] = "claim" /\ mem[p] = Blank /\ pub[p] = Idle
                        /\ life[p] = "new" /\ lk[p] = "none"
    BY DEF BuildInit, LockInit, PubInit
  <1>3. BuildTypeOK
    <2>1. Blank \in Memory
      <3>1. <<>> \in Seq(Stage)
        OBVIOUS
      <3> QED BY <3>1 DEF Blank, Memory, Outcomes
    <2> QED BY <2>1 DEF BuildInit, LockInit, BuildTypeOK, LockSteps, Step
  <1>4. RecordsAgree
    BY DEF BuildInit, PubInit, RecordsAgree, LastAttempt
  <1>5. HolderIsAlone
    BY <1>2 DEF HolderIsAlone
  <1>6. ASSUME NEW p \in Proc PROVE CommandIsTrue(p)
    BY <1>2 DEF CommandIsTrue, PlaceIsTrue, LoadedIsTrue, DocumentIsTrue, WriterIsTrue, AttemptStep,
                Working, Blank
  <1>7. ReturnInv
    BY <1>2 DEF ReturnInv, WriterReturnsItsOwn, Idle
  <1> QED BY <1>1, <1>3, <1>4, <1>5, <1>6, <1>7 DEF Inv, BuildInv

LEMMA BuildStutters == ASSUME Inv, UNCHANGED vars PROVE Inv'
  <1>1. BuildInv /\ PubInv /\ ReturnInv /\ UNCHANGED pubVars
    BY DEF Inv, vars
  <1>2. PubInv' /\ ReturnInv'
    BY <1>1, NextKeeps, NextKeepsReturn
  <1>3. BuildTypeOK' /\ RecordsAgree' /\ HolderIsAlone'
    BY <1>1 DEF BuildInv, BuildTypeOK, HolderIsAlone, RecordsAgree, LastAttempt, IsSelected,
                JournalIsSettled, vars, lockVars, fileVars, pubVars
  <1>4. ASSUME NEW p \in Proc PROVE CommandIsTrue(p)'
    BY <1>1 DEF BuildInv, CommandIsTrue, PlaceIsTrue, LoadedIsTrue, DocumentIsTrue, WriterIsTrue,
                HasInputs, KeepsSelection, WriterIsReady, WriterIsOwn, WriterIsDone, IsSelected,
                JournalIsSettled, LastAttempt, Owns, vars, lockVars, fileVars, pubVars
  <1> QED BY <1>2, <1>3, <1>4 DEF Inv, BuildInv

LEMMA BuildNextKeeps == Inv /\ [BuildNext]_vars => Inv'
  <1> SUFFICES ASSUME Inv, [BuildNext]_vars PROVE Inv'
    OBVIOUS
  <1>1. CASE UNCHANGED vars
    BY <1>1, BuildStutters
  <1>2. CASE BuildNext
    <2>1. BuildInv'
      BY <1>2, StartKeeps, ClaimKeeps, LoadKeeps, ResumeInputsKeeps, PrepareKeeps,
         PublicationStepKeeps, PreparedKeeps, RetainLessonKeeps, RetainPlanKeeps, ReplaceKeeps,
         AppendStateKeeps, RecordStageKeeps, ResolveKeeps, StartWriteKeeps, WrittenKeeps,
         RetainReportKeeps, DropLockKeeps, FinishKeeps, FailureKeeps, KillCommandKeeps
         DEF BuildNext, CommandStep
    <2> QED BY <1>2, <2>1, PublicationIsKept DEF Inv
  <1> QED BY <1>1, <1>2

-----------------------------------------------------------------------------
(* The lock and the log under a build.                                     *)

\* What the log may get when p stops: a line about the dead, the state that is saved, or
\* a stage.
IsDue(p, line) ==
    /\ line \in Line /\ IsOfTheDead(line)
    /\ IsState(line) =>
          Owns(p) /\ pc[p] = "append" /\ line = StateDurable(job.attempt, job.state)

LEMMA InterruptedIsALine ==
  ASSUME Inv, LockInv, NEW p \in Proc, LogInterrupted(p)
  PROVE  \E line : IsDue(p, line) /\ (log' = log \/ AppendEvent(line))
  <1>1. /\ DocumentIsTrue(p) /\ WriterIsTrue(p) /\ mem[p] \in Memory
        /\ LockTyped /\ TakeoversAreOfTheDead
    BY OwnerKnows DEF LockInv
  <1>2. ASSUME NEW line, IsDue(p, line), AppendInterrupted(line) \/ UNCHANGED eventVars
        PROVE  \E l : IsDue(p, l) /\ (log' = log \/ AppendEvent(l))
    BY <1>2 DEF AppendInterrupted, eventVars
  <1>3. ASSUME NEW n \in Nat, NEW stage \in Stage \cup {"SegmentFailed"}
        PROVE  IsDue(p, StageEvent(n, stage))
    BY DEF IsDue, StageEvent, Line, IsOfTheDead, IsState
  <1>4. ASSUME pc[p] \in AttemptStep PROVE mem[p].doc.attempt \in Nat /\ mem[p].doc.state \in LoggedState
    BY <1>1, <1>4, MaxAttemptAssumption DEF DocumentIsTrue, Document, Attempt, LoggedState
  <1>5. CASE lk[p] = "log" /\ stale[p] # NoOwner
    <2>1. stale[p] \in Proc /\ life[stale[p]] \in Dead
      BY <1>1, <1>5 DEF LockTyped, TakeoversAreOfTheDead
    <2>2. IsDue(p, JobLockRecovered(stale[p]))
      BY <2>1, TakeoverIsALine DEF IsDue, IsOfTheDead, IsState
    <2> QED BY <1>2, <1>5, <2>2 DEF LogInterrupted
  <1>6. CASE ~(lk[p] = "log" /\ stale[p] # NoOwner) /\ At(p, "append")
    <2>1. Owns(p) /\ pc[p] = "append" /\ pc[p] \in AttemptStep
      BY <1>6 DEF At, AttemptStep
    <2>2. mem[p].doc = job
      BY <1>1, <2>1 DEF DocumentIsTrue
    <2>3. IsDue(p, StateDurable(mem[p].doc.attempt, mem[p].doc.state))
      BY <1>4, <2>1, <2>2 DEF IsDue, StateDurable, Line, IsOfTheDead
    <2> QED BY <1>2, <1>6, <2>3 DEF LogInterrupted
  <1>7. CASE ~(lk[p] = "log" /\ stale[p] # NoOwner) /\ At(p, "stage")
    <2>1. pc[p] \in AttemptStep /\ pc[p] = "stage"
      BY <1>7 DEF At, AttemptStep
    <2>2. mem[p].todo \in Seq(Stage) /\ mem[p].todo # <<>>
      BY <1>1, <2>1 DEF WriterIsTrue, Memory
    <2>3. Head(mem[p].todo) \in Stage
      BY <2>2
    <2>4. AppendInterrupted(StageEvent(mem[p].doc.attempt, Head(mem[p].todo)))
      BY <1>7, <2>1 DEF LogInterrupted, At
    <2> QED BY <1>2, <1>3, <1>4, <2>1, <2>3, <2>4
  <1>8. CASE ~(lk[p] = "log" /\ stale[p] # NoOwner) /\ At(p, "resolve")
    <2>1. pc[p] \in AttemptStep /\ pc[p] = "resolve"
      BY <1>8 DEF At, AttemptStep
    <2>2. AppendInterrupted(StageEvent(mem[p].doc.attempt, "SegmentFailed"))
      BY <1>8, <2>1 DEF LogInterrupted, At
    <2> QED BY <1>2, <1>3, <1>4, <2>1, <2>2
  <1>9. CASE UNCHANGED eventVars
    BY <1>2, <1>3, <1>9
  <1> QED BY <1>5, <1>6, <1>7, <1>8, <1>9 DEF LogInterrupted

\* What a command logs while it owns the job is no takeover.
LEMMA OwnLinesKeepTheLock ==
  ASSUME Inv, LockInv, NEW p \in Proc,
         \/ AppendState(p) \/ RecordStage(p) \/ SegmentFails(p) \/ StepFails(p)
  PROVE  LockInv'
  <1>1. /\ DocumentIsTrue(p) /\ WriterIsTrue(p) /\ mem[p] \in Memory
        /\ UNCHANGED lockVars
    BY OwnerKnows DEF AppendState, RecordStage, SegmentFails, StepFails
  <1>2. ASSUME pc[p] \in AttemptStep PROVE mem[p].doc.attempt \in Nat /\ mem[p].doc.state \in LoggedState
    BY <1>1, <1>2, MaxAttemptAssumption DEF DocumentIsTrue, Document, Attempt, LoggedState
  <1>3. CASE AppendState(p)
    <2> DEFINE line == StateDurable(mem[p].doc.attempt, mem[p].doc.state)
    <2>1. AppendEvent(line) /\ pc[p] \in AttemptStep
      BY <1>3 DEF AppendState, At, AttemptStep
    <2>2. line \in Line /\ IsOfTheDead(line)
      BY <1>2, <2>1 DEF StateDurable, Line, IsOfTheDead
    <2> HIDE DEF line
    <2> QED BY <1>1, <2>1, <2>2, OtherLineKeeps
  <1>4. CASE RecordStage(p)
    <2> DEFINE line == StageEvent(mem[p].doc.attempt, Head(mem[p].todo))
    <2>1. (log' = log \/ AppendEvent(line)) /\ pc[p] \in AttemptStep /\ pc[p] = "stage"
      BY <1>4 DEF RecordStage, At, AttemptStep, eventVars
    <2>2. mem[p].todo \in Seq(Stage) /\ mem[p].todo # <<>>
      BY <1>1, <2>1 DEF WriterIsTrue, Memory
    <2>3. Head(mem[p].todo) \in Stage
      BY <2>2
    <2>4. line \in Line /\ IsOfTheDead(line)
      BY <1>2, <2>1, <2>3 DEF StageEvent, Line, IsOfTheDead
    <2> HIDE DEF line
    <2> QED BY <1>1, <2>1, <2>4, OtherLineKeeps
  <1>5. CASE SegmentFails(p)
    <2> DEFINE line == StageEvent(mem[p].doc.attempt, "SegmentFailed")
    <2>1. (log' = log \/ AppendEvent(line)) /\ pc[p] \in AttemptStep
      BY <1>5 DEF SegmentFails, At, AttemptStep, AppendInterrupted, eventVars
    <2>2. line \in Line /\ IsOfTheDead(line)
      BY <1>2, <2>1 DEF StageEvent, Line, IsOfTheDead
    <2> HIDE DEF line
    <2> QED BY <1>1, <2>1, <2>2, OtherLineKeeps
  <1>6. CASE StepFails(p)
    BY <1>1, <1>6, InterruptedIsALine, OtherLineKeeps DEF StepFails, IsDue
  <1> QED BY <1>3, <1>4, <1>5, <1>6

LEMMA BuildKeepsTheLock == ASSUME Inv, LockInv, [BuildNext]_vars PROVE LockInv'
  <1>1. CASE UNCHANGED <<lockVars, eventVars>>
    BY <1>1, LockStutters
  <1>2. ASSUME NEW p \in Proc, ClaimStep(p) \/ DropLock(p) \/ Finish(p) PROVE LockInv'
    <2>1. LockStepOf(p)
      BY <1>2 DEF ClaimStep, DropLock, Finish, LockStepOf
    <2> QED BY <2>1, LockStepKeeps DEF LockNext
  <1>3. ASSUME NEW p \in Proc, StartBuild(p) \/ StartResume(p) PROVE LockInv'
    <2>1. StartProcess(p) /\ UNCHANGED eventVars
      BY <1>3, Zenon DEF StartBuild, StartResume
    <2> QED BY <2>1, StartProcessKeeps
  <1>4. ASSUME NEW p \in Proc, KillCommand(p) PROVE LockInv'
    BY <1>4, InterruptedIsALine, DieKeeps DEF KillCommand, IsDue
  <1>5. ASSUME NEW p \in Proc,
               \/ Load(p) \/ ResumeInputs(p) \/ Prepare(p) \/ PublicationStep(p) \/ Prepared(p)
               \/ RetainLesson(p) \/ RetainPlan(p) \/ Replace(p) \/ ResolveSegment(p)
               \/ StartWrite(p) \/ Written(p) \/ RetainReport(p)
        PROVE  UNCHANGED <<lockVars, eventVars>>
    <2>1. CASE Load(p) \/ ResumeInputs(p) \/ Prepare(p) \/ PublicationStep(p) \/ Prepared(p)
      BY <2>1, Zenon DEF Load, ResumeInputs, Prepare, PublicationStep, Prepared
    <2>2. CASE RetainLesson(p) \/ RetainPlan(p) \/ Replace(p) \/ ResolveSegment(p)
      BY <2>2 DEF RetainLesson, RetainPlan, Replace, ResolveSegment
    <2>3. CASE StartWrite(p) \/ Written(p) \/ RetainReport(p)
      BY <2>3 DEF StartWrite, Written, RetainReport
    <2> QED BY <1>5, <2>1, <2>2, <2>3
  <1> QED BY <1>1, <1>2, <1>3, <1>4, <1>5, OwnLinesKeepTheLock DEF BuildNext, CommandStep, vars

-----------------------------------------------------------------------------
(* The log follows the job.                                                *)

LastIsFollowed ==
    \A i \in DOMAIN log : IsLastState(i, Len(log)) => Follows(job.attempt, job.state, log[i])

LastIsSaved ==
    \A i \in DOMAIN log :
        IsLastState(i, Len(log)) => log[i].attempt = job.attempt /\ log[i].state = job.state

\* What p may append comes next; once it has appended a state, job.json and the log agree
\* until it saves the next one.
LogIsTrue(p) ==
    /\ pc[p] = "append" => LastIsFollowed
    /\ pc[p] \in AttemptStep \ {"append"} /\ mem[p].opened # 0 => LastIsSaved

LogInv == LogFollowsTheJob /\ \A p \in Proc : LogIsTrue(p)

\* What a line at the end changes of the states before it.
LEMMA AppendedLine ==
  ASSUME log \in Seq(Line), NEW line \in Line, AppendEvent(line)
  PROVE  /\ Len(log) \in Nat /\ Len(log') = Len(log) + 1
         /\ DOMAIN log = 1 .. Len(log) /\ DOMAIN log' = 1 .. Len(log')
         /\ log'[Len(log')] = line /\ \A i \in DOMAIN log : log'[i] = log[i]
         /\ \A i \in DOMAIN log, n \in 0 .. Len(log) : IsLastState(i, n)' <=> IsLastState(i, n)
         /\ \A i \in DOMAIN log' :
               IsLastState(i, Len(log))' =>
                  /\ IsState(line) => i = Len(log')
                  /\ ~IsState(line) => i \in DOMAIN log /\ IsLastState(i, Len(log))
  <1>1. log' = Append(log, line)
    BY DEF AppendEvent
  <1>2. /\ Len(log) \in Nat /\ Len(log') = Len(log) + 1
        /\ DOMAIN log = 1 .. Len(log) /\ DOMAIN log' = 1 .. Len(log')
        /\ log'[Len(log')] = line /\ \A i \in DOMAIN log : log'[i] = log[i]
    BY <1>1
  <1>3. \A i \in DOMAIN log, n \in 0 .. Len(log) : IsLastState(i, n)' <=> IsLastState(i, n)
    BY <1>2 DEF IsLastState, IsState
  <1>4. ASSUME NEW i \in DOMAIN log', IsLastState(i, Len(log))'
        PROVE  /\ IsState(line) => i = Len(log')
               /\ ~IsState(line) => i \in DOMAIN log /\ IsLastState(i, Len(log))
    BY <1>2, <1>4 DEF IsLastState, IsState
  <1> QED BY <1>2, <1>3, <1>4

\* Another line tells of no state.
LEMMA OtherLineFollows ==
  ASSUME LogFollowsTheJob, log \in Seq(Line), job' = job,
         NEW line \in Line, ~IsState(line), log' = log \/ AppendEvent(line)
  PROVE  /\ LogFollowsTheJob'
         /\ LastIsFollowed => LastIsFollowed'
         /\ LastIsSaved => LastIsSaved'
  <1>1. CASE log' = log
    BY <1>1 DEF LogFollowsTheJob, LastIsFollowed, LastIsSaved, IsLastState, IsState
  <1>2. CASE AppendEvent(line)
    <2>1. /\ Len(log) \in Nat /\ Len(log') = Len(log) + 1
          /\ DOMAIN log = 1 .. Len(log) /\ DOMAIN log' = 1 .. Len(log')
          /\ log'[Len(log')] = line /\ \A i \in DOMAIN log : log'[i] = log[i]
          /\ \A i \in DOMAIN log, n \in 0 .. Len(log) : IsLastState(i, n)' <=> IsLastState(i, n)
          /\ \A i \in DOMAIN log' :
                IsLastState(i, Len(log))' => i \in DOMAIN log /\ IsLastState(i, Len(log))
      BY <1>2, AppendedLine
    <2>2. ASSUME NEW i \in DOMAIN log', NEW j \in DOMAIN log',
                 IsState(log[j])', IsLastState(i, j - 1)'
          PROVE  Follows(log'[j].attempt, log'[j].state, log'[i])
      <3>1. j \in DOMAIN log /\ IsState(log[j])
        BY <2>1, <2>2 DEF IsState
      <3>2. i \in DOMAIN log /\ j - 1 \in 0 .. Len(log)
        BY <2>1, <2>2, <3>1 DEF IsLastState
      <3>3. IsLastState(i, j - 1)
        BY <2>1, <2>2, <3>2
      <3> QED BY <2>1, <3>1, <3>2, <3>3 DEF LogFollowsTheJob
    <2>3. ASSUME NEW i \in DOMAIN log', IsLastState(i, Len(log))'
          PROVE  i \in DOMAIN log /\ IsLastState(i, Len(log)) /\ log'[i] = log[i]
      BY <2>1, <2>3
    <2>4. LogFollowsTheJob'
      BY <2>2, <2>3 DEF LogFollowsTheJob
    <2> QED BY <2>3, <2>4 DEF LastIsFollowed, LastIsSaved
  <1> QED BY <1>1, <1>2

\* The saved state is told.
LEMMA StateLineFollows ==
  ASSUME LogFollowsTheJob, LastIsFollowed, log \in Seq(Line), job' = job, job # None,
         StateDurable(job.attempt, job.state) \in Line,
         AppendEvent(StateDurable(job.attempt, job.state))
  PROVE  LogFollowsTheJob' /\ LastIsSaved'
  <1> DEFINE line == StateDurable(job.attempt, job.state)
  <1>1. line \in Line /\ IsState(line) /\ line.attempt = job.attempt /\ line.state = job.state
        /\ AppendEvent(line)
    BY DEF StateDurable, IsState
  <1> HIDE DEF line
  <1>2. /\ Len(log) \in Nat /\ Len(log') = Len(log) + 1
        /\ DOMAIN log = 1 .. Len(log) /\ DOMAIN log' = 1 .. Len(log')
        /\ log'[Len(log')] = line /\ \A i \in DOMAIN log : log'[i] = log[i]
        /\ \A i \in DOMAIN log, n \in 0 .. Len(log) : IsLastState(i, n)' <=> IsLastState(i, n)
        /\ \A i \in DOMAIN log' : IsLastState(i, Len(log))' => i = Len(log')
    BY <1>1, AppendedLine
  <1>3. ASSUME NEW i \in DOMAIN log', NEW j \in DOMAIN log',
               IsState(log[j])', IsLastState(i, j - 1)'
        PROVE  Follows(log'[j].attempt, log'[j].state, log'[i])
    <2>1. i \in DOMAIN log /\ j - 1 \in 0 .. Len(log) /\ log'[i] = log[i]
      BY <1>2, <1>3 DEF IsLastState
    <2>2. IsLastState(i, j - 1)
      BY <1>2, <1>3, <2>1
    <2>3. CASE j \in DOMAIN log
      BY <1>2, <1>3, <2>1, <2>2, <2>3 DEF LogFollowsTheJob, IsState
    <2>4. CASE j = Len(log')
      <3>1. IsLastState(i, Len(log)) /\ log'[j] = line
        BY <1>2, <2>2, <2>4
      <3> QED BY <1>1, <2>1, <3>1 DEF LastIsFollowed
    <2> QED BY <1>2, <2>3, <2>4
  <1>4. LastIsSaved'
    BY <1>1, <1>2 DEF LastIsSaved
  <1>5. LastIsSaved' => \A i \in DOMAIN log' :
          IsLastState(i, Len(log))' => job' # None /\ Follows(job'.attempt, job'.state, log'[i])
    BY DEF LastIsSaved, Follows
  <1> QED BY <1>3, <1>4, <1>5 DEF LogFollowsTheJob

\* A place from which p says no more of the log than it did.
GoesOn(p) ==
    \/ pc'[p] \notin AttemptStep
    \/ mem'[p].opened = 0 /\ pc'[p] # "append"
    \/ mem'[p].opened = mem[p].opened /\ pc'[p] = pc[p]
    \/ mem'[p].opened = mem[p].opened /\ {pc[p], pc'[p]} \subseteq AttemptStep \ {"append"}

LEMMA LogGoesOn ==
  ASSUME LogInv, LogFollowsTheJob', LastIsFollowed => LastIsFollowed', LastIsSaved => LastIsSaved',
         \A q \in Proc : GoesOn(q)
  PROVE  LogInv'
  BY DEF LogInv, LogIsTrue, GoesOn, AttemptStep

\* Steps that neither save nor log.
LEMMA QuietStepsGoOn ==
  ASSUME Inv, NEW p \in Proc,
         \/ Load(p) \/ ResumeInputs(p) \/ Prepare(p) \/ PublicationStep(p) \/ Prepared(p)
         \/ RetainLesson(p) \/ RetainPlan(p) \/ ResolveSegment(p) \/ StartWrite(p) \/ Written(p)
         \/ RetainReport(p) \/ StartBuild(p) \/ StartResume(p) \/ DropLock(p) \/ Finish(p)
  PROVE  log' = log /\ job' = job /\ \A q \in Proc : GoesOn(q)
  <1>1. /\ pc \in [Proc -> Step] /\ mem \in [Proc -> Memory] /\ PlaceIsTrue(p)
    BY OwnerKnows DEF BuildTypeOK
  <1>2. ASSUME NEW s \in {"inputs", "prepare", "preparing", "lesson", "plan", "leave"},
               pc' = [pc EXCEPT ![p] = s],
               Owns(p) \/ \A q \in Proc : q # p => mem'[q].opened = mem[q].opened
        PROVE  \A q \in Proc : GoesOn(q)
    <2> SUFFICES ASSUME NEW q \in Proc PROVE GoesOn(q)
      OBVIOUS
    <2>1. CASE q = p
      BY <1>1, <1>2, <2>1 DEF GoesOn, AttemptStep
    <2>2. CASE q # p /\ Owns(p)
      <3>1. pc[q] \in {"claim", "leave"}
        BY <2>2, OwnerIsAlone, OwnerKnows
      <3> QED BY <1>1, <1>2, <2>2, <3>1 DEF GoesOn, AttemptStep
    <2>3. CASE q # p /\ ~Owns(p)
      BY <1>1, <1>2, <2>3 DEF GoesOn
    <2> QED BY <2>1, <2>2, <2>3
  <1>3. ASSUME pc' = pc, \A q \in Proc : mem'[q].opened = mem[q].opened
        PROVE  \A q \in Proc : GoesOn(q)
    BY <1>3 DEF GoesOn
  <1> DEFINE OthersStay == \A q \in Proc : q # p => mem'[q] = mem[q]
  <1>4. CASE Load(p)
    <2>1. /\ log' = log /\ job' = job /\ OthersStay
          /\ \E s \in {"inputs", "prepare", "leave"} : pc' = [pc EXCEPT ![p] = s]
      BY <1>1, <1>4 DEF Load, Refuse, MoveTo, eventVars, fileVars
    <2> QED BY <1>2, <2>1
  <1>5. CASE ResumeInputs(p)
    <2>1. log' = log /\ job' = job /\ Owns(p)
      <3>1. At(p, "inputs") /\ UNCHANGED eventVars /\ UNCHANGED fileVars
        BY <1>5, Zenon DEF ResumeInputs
      <3> QED BY <3>1 DEF At, eventVars, fileVars
    <2>2. pc' = [pc EXCEPT ![p] = "prepare"] \/ pc' = [pc EXCEPT ![p] = "leave"]
      BY <1>5, Zenon DEF ResumeInputs, Refuse, MoveTo
    <2> QED BY <1>2, <2>1, <2>2
  <1>6. CASE Prepare(p) \/ PublicationStep(p) \/ Prepared(p) \/ RetainLesson(p)
    <2>1. /\ log' = log /\ job' = job /\ OthersStay
          /\ \/ pc' = pc /\ mem' = mem
             \/ \E s \in {"preparing", "lesson", "plan", "leave"} : pc' = [pc EXCEPT ![p] = s]
      BY <1>1, <1>6
         DEF Prepare, PublicationStep, Prepared, RetainLesson, Refuse, MoveTo, eventVars, fileVars
    <2> QED BY <1>2, <1>3, <2>1
  <1>7. CASE RetainPlan(p)
    <2>1. /\ log' = log /\ job' = job /\ OthersStay /\ pc[p] = "plan" /\ mem[p].opened = 0
      BY <1>1, <1>7 DEF RetainPlan, Refuse, At, PlaceIsTrue, eventVars
    <2>2. CASE pc' = [pc EXCEPT ![p] = "leave"]
      BY <1>2, <2>1, <2>2
    <2>3. CASE ~AttemptOverflows(mem[p].prev)
      <3>1. pc' = [pc EXCEPT ![p] = "replace"] /\ mem'[p].opened = mem[p].opened
        BY <1>1, <1>7, <2>3 DEF RetainPlan, MoveTo, Memory
      <3> QED BY <1>1, <2>1, <3>1 DEF GoesOn
    <2> QED BY <1>7, <2>2, <2>3 DEF RetainPlan, Refuse
  <1>8. CASE ResolveSegment(p) \/ StartWrite(p) \/ Written(p)
    <2>1. /\ log' = log /\ job' = job /\ OthersStay /\ pc[p] \in AttemptStep \ {"append"}
          /\ \/ pc' = [pc EXCEPT ![p] = "leave"]
             \/ /\ \E s \in AttemptStep \ {"append"} : pc' = [pc EXCEPT ![p] = s]
                /\ mem'[p].opened = mem[p].opened
      BY <1>1, <1>8
         DEF ResolveSegment, StartWrite, Written, Refuse, MoveTo, At, AttemptStep, Memory,
             eventVars, fileVars
    <2> QED BY <1>1, <1>2, <2>1 DEF GoesOn
  <1>9. CASE RetainReport(p) \/ Finish(p)
    <2>1. /\ log' = log /\ job' = job /\ OthersStay /\ pc' = [pc EXCEPT ![p] = "leave"]
      BY <1>1, <1>9 DEF RetainReport, Finish, MoveTo, eventVars
    <2> QED BY <1>2, <2>1
  <1>10. CASE StartBuild(p) \/ StartResume(p) \/ DropLock(p)
    <2>1. log' = log /\ job' = job /\ OthersStay /\ pc' = pc /\ pc[p] \notin AttemptStep
      <3>1. CASE StartBuild(p) \/ StartResume(p)
        <4>1. StartProcess(p) /\ UNCHANGED <<eventVars, fileVars, pc>>
          BY <3>1, Zenon DEF StartBuild, StartResume
        <4>2. OthersStay
          <5>1. \E m : mem' = [mem EXCEPT ![p] = m]
            BY <1>1, <3>1, Zenon DEF StartBuild, StartResume
          <5> QED BY <1>1, <5>1
        <4>3. pc[p] \notin AttemptStep
          BY <4>1, NotOwnerIsOutside DEF StartProcess, Owns, AttemptStep
        <4> QED BY <4>1, <4>2, <4>3 DEF eventVars, fileVars
      <3>2. CASE DropLock(p)
        BY <3>2 DEF DropLock, eventVars, fileVars, AttemptStep
      <3> QED BY <1>10, <3>1, <3>2
    <2> QED BY <2>1 DEF GoesOn
  <1> QED BY <1>4, <1>5, <1>6, <1>7, <1>8, <1>9, <1>10

LEMMA ReplaceFollows == ASSUME Inv, LockInv, LogInv, NEW p \in Proc, Replace(p) PROVE LogInv'
  <1> DEFINE d == mem[p].doc
             n == mem[p].opened
  <1>1. /\ Owns(p) /\ pc[p] = "replace" /\ log' = log /\ BuildInv /\ DocumentIsTrue(p)
        /\ pc \in [Proc -> Step] /\ mem \in [Proc -> Memory] /\ job \in Document \cup {None}
        /\ log \in Seq(Line)
    BY OwnerKnows DEF Replace, At, eventVars, BuildTypeOK, LockInv, LockTyped
  <1>2. ASSUME NEW q \in Proc, q # p PROVE pc'[q] = pc[q] /\ pc[q] \in {"claim", "leave"}
    <2>1. pc'[q] = pc[q]
      BY <1>1, <1>2 DEF Replace, Refuse, MoveTo
    <2> QED BY <1>1, <1>2, <2>1, OwnerIsAlone
  <1>3. CASE job' = job /\ pc' = [pc EXCEPT ![p] = "leave"]
    <2>1. \A q \in Proc : GoesOn(q)
      BY <1>1, <1>2, <1>3 DEF GoesOn, AttemptStep
    <2>2. LogFollowsTheJob' /\ (LastIsFollowed => LastIsFollowed') /\ (LastIsSaved => LastIsSaved')
      BY <1>1, <1>3 DEF LogInv, LogFollowsTheJob, LastIsFollowed, LastIsSaved, IsLastState, IsState
    <2> QED BY <2>1, <2>2, LogGoesOn
  <1>4. CASE job' = d /\ pc' = [pc EXCEPT ![p] = "append"]
    <2>1. /\ d \in Document /\ d.attempt \in Nat /\ d # None
          /\ d.state \in {"Planned", "Rendering", "Rendered"} /\ Replaces(d, job)
          /\ n # 0 => job # None /\ job.attempt = n /\ d.attempt = n
          /\ n = 0 => d.attempt = LastAttempt + 1
      BY <1>1, MaxAttemptAssumption, AbsenceAssumption
         DEF DocumentIsTrue, AttemptStep, Document, Attempt
    <2>2. ASSUME NEW i \in DOMAIN log, IsLastState(i, Len(log))
          PROVE  Follows(d.attempt, d.state, log[i])
      <3>1. /\ job # None /\ job.attempt \in Nat /\ log[i].attempt \in Nat
            /\ log[i].attempt < job.attempt \/ Follows(job.attempt, job.state, log[i])
        BY <1>1, <2>2, MaxAttemptAssumption
           DEF LogInv, LogFollowsTheJob, Document, Attempt, Line, IsLastState, IsState
      <3>2. CASE n = 0
        <4>1. log[i].attempt <= job.attempt
          BY <3>1 DEF Follows
        <4>2. d.attempt = job.attempt + 1 /\ d.state = "Planned"
          BY <2>1, <3>1, <3>2 DEF LastAttempt, Replaces, ValidateReplacement, ValidateInitialState
        <4> QED BY <3>1, <4>1, <4>2 DEF Follows
      <3>3. CASE n # 0
        <4>1. log[i].attempt = job.attempt /\ log[i].state = job.state
          BY <1>1, <2>2, <3>3 DEF LogInv, LogIsTrue, LastIsSaved, AttemptStep
        <4>2. d.attempt = job.attempt /\ (d.state = job.state \/ MayTransitionTo(job.state, d.state))
          BY <2>1, <3>1, <3>3 DEF Replaces, ValidateReplacement
        <4> QED BY <4>1, <4>2 DEF Follows
      <3> QED BY <3>2, <3>3
    <2>3. LogFollowsTheJob' /\ LastIsFollowed'
      <3>1. ASSUME NEW i \in DOMAIN log', IsLastState(i, Len(log))'
            PROVE  Follows(job'.attempt, job'.state, log'[i])
        BY <1>1, <1>4, <2>2, <3>1 DEF IsLastState, IsState
      <3>2. \A i, j \in DOMAIN log' :
              IsState(log[j])' /\ IsLastState(i, j - 1)' =>
                  Follows(log'[j].attempt, log'[j].state, log'[i])
        BY <1>1 DEF LogInv, LogFollowsTheJob, IsLastState, IsState
      <3> QED BY <1>4, <2>1, <3>1, <3>2 DEF LogFollowsTheJob, LastIsFollowed
    <2>4. ASSUME NEW q \in Proc PROVE LogIsTrue(q)'
      BY <1>1, <1>2, <1>4, <2>3 DEF LogIsTrue, AttemptStep
    <2> QED BY <2>3, <2>4 DEF LogInv
  <1> QED BY <1>3, <1>4 DEF Replace, Refuse, MoveTo

LEMMA AppendFollows == ASSUME Inv, LockInv, LogInv, NEW p \in Proc, AppendState(p) PROVE LogInv'
  <1>1. /\ Owns(p) /\ pc[p] = "append" /\ job' = job /\ BuildInv /\ DocumentIsTrue(p)
        /\ pc \in [Proc -> Step] /\ log \in Seq(Line)
        /\ AppendEvent(StateDurable(mem[p].doc.attempt, mem[p].doc.state))
        /\ pc' = [pc EXCEPT ![p] = AfterReplace(mem[p].doc)]
    BY OwnerKnows DEF AppendState, At, MoveTo, fileVars, BuildTypeOK, LockInv, LockTyped
  <1>2. /\ mem[p].doc = job /\ job # None /\ job.attempt \in Nat /\ job.state \in LoggedState
    BY <1>1, MaxAttemptAssumption, AbsenceAssumption
       DEF DocumentIsTrue, AttemptStep, Document, Attempt, LoggedState
  <1>3. StateDurable(job.attempt, job.state) \in Line
    BY <1>2 DEF StateDurable, Line
  <1>4. LogFollowsTheJob' /\ LastIsSaved'
    BY <1>1, <1>2, <1>3, StateLineFollows DEF LogInv, LogIsTrue
  <1>5. ASSUME NEW q \in Proc PROVE pc'[q] # "append"
    <2>1. CASE q = p
      BY <1>1, <2>1 DEF AfterReplace
    <2>2. CASE q # p
      BY <1>1, <2>2, OwnerIsAlone
    <2> QED BY <2>1, <2>2
  <1> QED BY <1>4, <1>5 DEF LogInv, LogIsTrue

\* An append that another step makes, or that p does not survive.
LEMMA LinesFollow ==
  ASSUME Inv, LockInv, LogInv, NEW p \in Proc,
         \/ ClaimStep(p) \/ RecordStage(p) \/ SegmentFails(p) \/ StepFails(p) \/ KillCommand(p)
  PROVE  LogInv'
  <1>1. /\ pc \in [Proc -> Step] /\ mem \in [Proc -> Memory] /\ log \in Seq(Line)
        /\ BuildInv /\ DocumentIsTrue(p) /\ WriterIsTrue(p) /\ LogFollowsTheJob
    BY OwnerKnows DEF BuildTypeOK, LockInv, LockTyped, LogInv
  <1>2. ASSUME job' = job, \A q \in Proc : GoesOn(q),
               NEW line, IsDue(p, line), ~IsState(line), log' = log \/ AppendEvent(line)
        PROVE  LogInv'
    <2>1. line \in Line
      BY <1>2 DEF IsDue
    <2> QED BY <1>1, <1>2, <2>1, OtherLineFollows, LogGoesOn
  <1>3. ASSUME NEW n \in Nat, NEW stage \in Stage \cup {"SegmentFailed"}
        PROVE  IsDue(p, StageEvent(n, stage)) /\ ~IsState(StageEvent(n, stage))
    BY DEF IsDue, StageEvent, Line, IsOfTheDead, IsState
  <1>4. ASSUME pc[p] \in AttemptStep PROVE mem[p].doc.attempt \in Nat
    BY <1>1, <1>4, MaxAttemptAssumption DEF DocumentIsTrue, Document, Attempt
  <1>5. CASE ClaimStep(p)
    <2>1. job' = job /\ \A q \in Proc : GoesOn(q)
      BY <1>5 DEF ClaimStep, GoesOn, fileVars
    <2>2. CASE log' = log
      BY <1>2, <1>3, <2>1, <2>2
    <2>3. CASE stale[p] # NoOwner /\ AppendEvent(JobLockRecovered(stale[p]))
      <3>1. stale[p] \in Proc /\ life[stale[p]] \in Dead
        BY <2>3 DEF LockInv, LockTyped, TakeoversAreOfTheDead
      <3>2. IsDue(p, JobLockRecovered(stale[p])) /\ ~IsState(JobLockRecovered(stale[p]))
        BY <3>1, TakeoverIsALine DEF IsDue, IsOfTheDead, IsState
      <3> QED BY <1>2, <2>1, <2>3, <3>2
    <2> QED BY <1>5, <2>2, <2>3 DEF ClaimStep, LogTakeover, eventVars
  <1>6. CASE RecordStage(p)
    <2>1. /\ Owns(p) /\ pc[p] = "stage" /\ job' = job
          /\ log' = log \/ AppendEvent(StageEvent(mem[p].doc.attempt, Head(mem[p].todo)))
      BY <1>6 DEF RecordStage, At, fileVars, eventVars
    <2>2. mem[p].todo \in Seq(Stage) /\ mem[p].todo # <<>>
      BY <1>1, <2>1 DEF WriterIsTrue, Memory
    <2>3. Head(mem[p].todo) \in Stage
      BY <2>2
    <2>4. GoesOn(p)
      <3>1. CASE Refuse(p, "EventLogRefused")
        BY <1>1, <3>1 DEF Refuse, GoesOn, AttemptStep
      <3>2. CASE ~Refuse(p, "EventLogRefused")
        <4>1. /\ \E s \in {"stage", "resolve", "replace"} : pc' = [pc EXCEPT ![p] = s]
              /\ \E t, d : mem' = [mem EXCEPT ![p].todo = t, ![p].doc = d]
          BY <1>6, <3>2 DEF RecordStage, MoveTo
        <4> QED BY <1>1, <2>1, <4>1 DEF GoesOn, AttemptStep, Memory
      <3> QED BY <3>1, <3>2
    <2>5. ASSUME NEW q \in Proc, q # p PROVE GoesOn(q)
      <3>1. pc[q] \in {"claim", "leave"}
        BY <1>1, <2>1, <2>5, OwnerIsAlone
      <3>2. pc'[q] = pc[q]
        BY <1>1, <1>6, <2>5 DEF RecordStage, Refuse, MoveTo
      <3> QED BY <3>1, <3>2 DEF GoesOn, AttemptStep
    <2>6. \A q \in Proc : GoesOn(q)
      BY <2>4, <2>5
    <2>7. pc[p] \in AttemptStep
      BY <2>1 DEF AttemptStep
    <2> QED BY <1>2, <1>3, <1>4, <2>1, <2>3, <2>6, <2>7
  <1>7. CASE SegmentFails(p) \/ StepFails(p) \/ KillCommand(p)
    <2>1. job' = job /\ pc' = [pc EXCEPT ![p] = "leave"]
      BY <1>7 DEF SegmentFails, StepFails, KillCommand, Refuse, MoveTo, fileVars
    <2>2. PICK line : IsDue(p, line) /\ (log' = log \/ AppendEvent(line))
      <3>1. CASE SegmentFails(p)
        <4>1. /\ pc[p] \in AttemptStep
              /\ AppendInterrupted(StageEvent(mem[p].doc.attempt, "SegmentFailed"))
          BY <3>1 DEF SegmentFails, At, AttemptStep
        <4> QED BY <1>3, <1>4, <4>1 DEF AppendInterrupted, eventVars
      <3> QED BY <1>7, <3>1, InterruptedIsALine DEF StepFails, KillCommand
    <2>3. ASSUME Owns(p) \/ \A q \in Proc : q # p => mem'[q] = mem[q]
          PROVE  \A q \in Proc : GoesOn(q)
      <3> SUFFICES ASSUME NEW q \in Proc PROVE GoesOn(q)
        OBVIOUS
      <3>1. CASE q = p
        BY <1>1, <2>1, <3>1 DEF GoesOn, AttemptStep
      <3>2. CASE q # p /\ Owns(p)
        BY <1>1, <2>1, <3>2, OwnerIsAlone DEF GoesOn, AttemptStep
      <3>3. CASE q # p /\ ~Owns(p)
        BY <1>1, <2>1, <2>3, <3>3 DEF GoesOn
      <3> QED BY <3>1, <3>2, <3>3
    <2>4. \A q \in Proc : GoesOn(q)
      BY <1>1, <1>7, <2>3 DEF SegmentFails, StepFails, KillCommand, At
    <2>5. CASE ~IsState(line) \/ log' = log
      <3>1. \E l : IsDue(p, l) /\ ~IsState(l) /\ (log' = log \/ AppendEvent(l))
        BY <1>3, <2>2, <2>5
      <3> QED BY <1>2, <2>1, <2>4, <3>1
    <2>6. CASE IsState(line) /\ AppendEvent(line)
      <3>1. Owns(p) /\ pc[p] = "append" /\ line = StateDurable(job.attempt, job.state) /\ line \in Line
        BY <2>2, <2>6 DEF IsDue
      <3>2. job # None /\ LastIsFollowed
        BY <1>1, <3>1, AbsenceAssumption DEF DocumentIsTrue, AttemptStep, LogInv, LogIsTrue
      <3>3. LogFollowsTheJob' /\ LastIsSaved'
        BY <1>1, <2>1, <2>6, <3>1, <3>2, StateLineFollows
      <3>4. \A q \in Proc : pc'[q] # "append"
        BY <1>1, <2>1, <3>1, OwnerIsAlone
      <3> QED BY <3>3, <3>4 DEF LogInv, LogIsTrue
    <2> QED BY <2>2, <2>5, <2>6
  <1> QED BY <1>5, <1>6, <1>7

LEMMA LogInvIsKept == Inv /\ LockInv /\ LogInv /\ [BuildNext]_vars => LogInv'
  <1> SUFFICES ASSUME Inv, LockInv, LogInv, [BuildNext]_vars PROVE LogInv'
    OBVIOUS
  <1>1. ASSUME log' = log, job' = job, \A q \in Proc : GoesOn(q) PROVE LogInv'
    <2>1. LogFollowsTheJob' /\ (LastIsFollowed => LastIsFollowed') /\ (LastIsSaved => LastIsSaved')
      BY <1>1 DEF LogInv, LogFollowsTheJob, LastIsFollowed, LastIsSaved, IsLastState, IsState
    <2> QED BY <1>1, <2>1, LogGoesOn
  <1>2. CASE UNCHANGED vars
    BY <1>1, <1>2 DEF vars, eventVars, fileVars, GoesOn
  <1> QED BY <1>1, <1>2, QuietStepsGoOn, ReplaceFollows, AppendFollows, LinesFollow
             DEF BuildNext, CommandStep

-----------------------------------------------------------------------------
(* The theorems. *)

\* In every reachable state each command knows what its step of the pipeline relies on,
\* and the records of the job and of publication agree.
THEOREM BuildInvariant == BuildSpec => []Inv
  BY BuildInitIsTrue, BuildNextKeeps, PTL DEF BuildSpec

\* The lock gives publication the one publisher it relies on, whatever is killed or fails:
\* the pipeline takes no step of publication that PackagePublication does not allow, so
\* all that is proved there holds here.
THEOREM BuildImplementsPublication == BuildSpec => ImplementsPublication
  <1>1. BuildInit => PubInit
    BY DEF BuildInit
  <1>2. Inv /\ [BuildNext]_vars => [PubNext]_pubVars
    BY BuildStepIsPublic DEF vars
  <1> QED BY <1>1, <1>2, BuildInvariant, PTL DEF BuildSpec, PubSpec, ImplementsPublication

\* job.json and current.json agree: a recorded completion names the selected package,
\* which is published whole and was built from the recorded plan.
THEOREM CompletionsAreSelected == BuildSpec => []CompletionIsSelected
  <1>1. Inv => CompletionIsSelected
    BY DEF Inv, BuildInv, RecordsAgree, IsSelected, Sound, CompletionIsSelected
  <1> QED BY <1>1, BuildInvariant, PTL

\* No later command finds records that contradict each other: the checks of
\* replace_document, of validate_preview_selection and of publication only ever fire on
\* damage from outside.
THEOREM ChecksNeverFire == BuildSpec => []ConsistencyChecksNeverFire
  <1>1. Inv => ConsistencyChecksNeverFire
    BY DEF Inv, BuildInv, BuildTypeOK, Memory, Outcomes, ConsistencyChecksNeverFire
  <1> QED BY <1>1, BuildInvariant, PTL

\* While an attempt runs job.json is at it, and lesson and plan are the ones it records.
THEOREM AttemptsOwnTheirRecords == BuildSpec => []AttemptOwnsItsRecords
  <1>1. ASSUME Inv, NEW p \in Proc, Owns(p), mem[p].opened # 0, pc[p] \in Working
        PROVE  job # None /\ job.attempt = mem[p].opened /\ lessonFile = job.lesson
               /\ planFile.plan = job.plan
    <2>1. PlaceIsTrue(p) /\ DocumentIsTrue(p)
      BY <1>1, OwnerKnows
    <2>2. pc[p] \in AttemptStep
      BY <1>1, <2>1 DEF PlaceIsTrue, AttemptStep, Working, Step
    <2> QED BY <1>1, <2>1, <2>2 DEF DocumentIsTrue
  <1>2. Inv => AttemptOwnsItsRecords
    BY <1>1 DEF AttemptOwnsItsRecords
  <1> QED BY <1>2, BuildInvariant, PTL

\* A report that says a build finished, and is of the attempt job.json is at, is the
\* report of a recorded completion.
THEOREM CompleteReportsAreEarned == BuildSpec => []CompleteReportIsEarned
  <1>1. Inv => CompleteReportIsEarned
    BY DEF Inv, BuildInv, RecordsAgree, CompleteReportIsEarned
  <1> QED BY <1>1, BuildInvariant, PTL

\* A torn log freezes the job: Replace asks the log before it writes, and nothing else
\* writes job.json.
THEOREM TornLogsFreeze == BuildSpec => TornLogFreezesTheJob
  <1>1. ASSUME BuildNext, torn PROVE job' = job
    <2>1. ASSUME NEW p \in Proc, CommandStep(p) PROVE job' = job
      BY <1>1, <2>1
         DEF CommandStep, ClaimStep, Load, ResumeInputs, Prepare, PublicationStep, Prepared,
             RetainLesson, RetainPlan, Replace, AppendState, RecordStage, ResolveSegment, StartWrite,
             Written, RetainReport, DropLock, Finish, AppendAllowed, ValidLog, fileVars
    <2>2. ASSUME NEW p \in Proc, \/ StartBuild(p) \/ StartResume(p) \/ SegmentFails(p) \/ StepFails(p)
                                 \/ KillCommand(p)
          PROVE  job' = job
      BY <2>2 DEF StartBuild, StartResume, SegmentFails, StepFails, KillCommand, fileVars
    <2> QED BY <1>1, <2>1, <2>2 DEF BuildNext
  <1>2. [BuildNext]_vars => [torn => job' = job]_vars
    BY <1>1
  <1> QED BY <1>2, PTL DEF BuildSpec, TornLogFreezesTheJob

\* resume renders what the job was rendering: an attempt that a resume opens has the lesson
\* and the takes of the attempt before it.
THEOREM ResumesKeepTheSelection == BuildSpec => ResumeKeepsTheSelection
  <1> DEFINE Kept == \A p \in Proc :
                       /\ flock = p /\ mem[p].cmd = "resume"
                       /\ job' # job /\ job'.attempt # job.attempt
                       => job'.lesson = job.lesson /\ job'.plan.takes = job.plan.takes
  <1>1. ASSUME Inv, BuildNext PROVE Kept
    <2> SUFFICES ASSUME NEW p \in Proc, flock = p, mem[p].cmd = "resume",
                        job' # job, job'.attempt # job.attempt
                 PROVE  job'.lesson = job.lesson /\ job'.plan.takes = job.plan.takes
      OBVIOUS
    <2>1. PICK q \in Proc : Replace(q)
      <3>1. ASSUME NEW q \in Proc, CommandStep(q), ~Replace(q) PROVE job' = job
        BY <3>1
           DEF CommandStep, ClaimStep, Load, ResumeInputs, Prepare, PublicationStep, Prepared,
               RetainLesson, RetainPlan, AppendState, RecordStage, ResolveSegment, StartWrite,
               Written, RetainReport, DropLock, Finish, fileVars
      <3>2. ASSUME NEW q \in Proc, \/ StartBuild(q) \/ StartResume(q) \/ SegmentFails(q)
                                   \/ StepFails(q) \/ KillCommand(q)
            PROVE  job' = job
        BY <3>2 DEF StartBuild, StartResume, SegmentFails, StepFails, KillCommand, fileVars
      <3> QED BY <1>1, <3>1, <3>2 DEF BuildNext
    <2>2. Owns(q) /\ pc[q] = "replace" /\ job' = mem[q].doc /\ DocumentIsTrue(q) /\ HolderIsAlone
      BY <1>1, <2>1, OwnerKnows DEF Replace, At, BuildInv
    <2>3. q = p
      BY <2>2 DEF HolderIsAlone, Owns
    <2> QED BY <2>2, <2>3 DEF DocumentIsTrue, AttemptStep
  <1>2. Inv /\ [BuildNext]_vars => [Kept]_vars
    BY <1>1
  <1> QED BY <1>2, BuildInvariant, PTL DEF BuildSpec, ResumeKeepsTheSelection

\* The log and the lock's record are what the steps of a build suppose, too.
THEOREM LogInvariant == BuildSpec => [](LockInv /\ LogInv)
  <1>1. BuildInit => LockInv /\ LogInv
    <2>1. BuildInit => LockInv
      BY LockInitHolds DEF BuildInit, LockAndLogInit
    <2>2. BuildInit => LogInv
      BY DEF BuildInit, EventsInit, LogInv, LogFollowsTheJob, LogIsTrue, AttemptStep
    <2> QED BY <2>1, <2>2
  <1>2. Inv /\ LockInv /\ LogInv /\ [BuildNext]_vars => (LockInv /\ LogInv)'
    BY BuildKeepsTheLock, LogInvIsKept
  <1> QED BY <1>1, <1>2, BuildInvariant, PTL DEF BuildSpec

\* The log tells what was saved, in order: a kill or a failed append may leave out the
\* last state of an attempt, and nothing else.
THEOREM LogsFollowTheJob == BuildSpec => []LogFollowsTheJob
  BY LogInvariant, PTL DEF LogInv

\* What JobDirectoryProofs shows of the lock alone holds under the pipeline, which interrupts
\* it, shares its log and releases it.
THEOREM BuildersAreAccountedFor == BuildSpec => []OwnershipIsAccountedFor
  BY OwnersAreTold, LogInvariant, PTL

\* No command of a build replaces a live process's record, or one nobody can read.
THEOREM BuildsKeepTheEvidence == BuildSpec => EvidenceIsPreserved
  <1> DEFINE Kept == /\ record \in Proc /\ record # flock /\ record' # record => ~OwnerIsLive(record)
                     /\ record = Partial /\ flock = NoOwner => record' = Partial
  <1>1. ASSUME LockInv, [BuildNext]_vars PROVE Kept
    <2>1. ASSUME record' # record PROVE \E p \in Proc : WritesRecord(p)
      <3>1. ASSUME NEW p \in Proc, ClaimStep(p) PROVE WritesRecord(p)
        BY <2>1, <3>1 DEF ClaimStep, WritesRecord, TakeFlock, LoseFlock, ExamineRecord, RecordFails,
                          CloseLock, LogTakeover
      <3>2. ASSUME NEW p \in Proc, StartBuild(p) \/ StartResume(p) PROVE FALSE
        <4>1. StartProcess(p)
          BY <3>2, Zenon DEF StartBuild, StartResume
        <4> QED BY <2>1, <4>1 DEF StartProcess
      <3>3. ASSUME NEW p \in Proc, KillCommand(p) \/ DropLock(p) \/ Finish(p) PROVE FALSE
        BY <2>1, <3>3 DEF KillCommand, Die, DropLock, BeginRelease, Finish, Exit
      <3>4. ASSUME NEW p \in Proc, CommandStep(p) \/ SegmentFails(p) \/ StepFails(p),
                   ~ClaimStep(p), ~DropLock(p), ~Finish(p)
            PROVE  FALSE
        <4>1. UNCHANGED lockVars
          BY <3>4, Zenon
             DEF CommandStep, SegmentFails, StepFails, Load, ResumeInputs, Prepare, PublicationStep,
                 Prepared, RetainLesson, RetainPlan, Replace, AppendState, RecordStage,
                 ResolveSegment, StartWrite, Written, RetainReport
        <4> QED BY <2>1, <4>1 DEF lockVars
      <3>5. BuildNext
        BY <1>1, <2>1 DEF vars, lockVars
      <3> QED BY <3>1, <3>2, <3>3, <3>4, <3>5 DEF BuildNext
    <2> QED BY <1>1, <2>1, WritePreservesEvidence
  <1>2. LockInv /\ [BuildNext]_vars => [Kept]_<<lockVars, eventVars>>
    BY <1>1
  <1>3. BuildSpec => [][Kept]_<<lockVars, eventVars>>
    BY <1>2, LogInvariant, PTL DEF BuildSpec
  <1> QED BY <1>3 DEF EvidenceIsPreserved
=============================================================================
