----------------------------- MODULE MCDelivery -----------------------------
(***************************************************************************)
(* A bounded instance of what stands before and after a build of a job: a   *)
(* lesson is authored, compiled and read; its takes are selected; a         *)
(* segment's audio is conditioned; the job moves through its states; the    *)
(* package is described, reused, reviewed and released; the manifest of a   *)
(* production release is judged; a command answers.  These parts meet in    *)
(* files that are read whole, never in memory: each is explored from its    *)
(* own initial states, with the variables of the others at theirs.          *)
(***************************************************************************)
EXTENDS JobLifecycle, SourceCompiler, TakeSelection, AudioEdges, PackageManifest,
        ReviewRelease, ProductionManifest, Refusals

VARIABLE phase

textVars == <<phase, authorVars>>
soundVars == <<takeVars, audioVars>>
jobsVars == <<jobVars, packageVars, reviewVars>>
answerVars == <<manifest, answer>>
vars == <<textVars, soundVars, jobsVars, answerVars>>

\* The lesson's three ways in: a document somebody wrote, a source that is compiled
\* once, and an author who goes back and forth.
TextInit ==
    \/ phase = "lesson" /\ LessonInit /\ source = <<>> /\ request = OneTeacher /\ told = "nothing"
    \/ phase = "source" /\ SourceInit
    \/ phase = "author" /\ AuthorInit

NothingAuthored == source = <<>> /\ request = OneTeacher /\ lesson = NoLesson /\ told = "nothing"

Init ==
    /\ \/ TextInit /\ manifest = SoundManifest
       \/ phase = "production" /\ NothingAuthored /\ ManifestInit
       \/ phase \in {"takes", "audio", "job", "package", "review", "answer"} /\ NothingAuthored /\ manifest = SoundManifest
    /\ TakesInit /\ AudioInit /\ JobInit /\ PackageInit /\ ReviewInit /\ RefusalsInit

LessonPhase ==
    /\ phase = "lesson" /\ EditLesson
    /\ UNCHANGED <<phase, source, request, told, soundVars, jobsVars, answerVars>>

AuthorPhase ==
    /\ phase = "author" /\ AuthorNext
    /\ UNCHANGED <<phase, soundVars, jobsVars, answerVars>>

TakesPhase ==
    /\ phase = "takes" /\ TakesNext
    /\ UNCHANGED <<textVars, audioVars, jobsVars, answerVars>>

AudioPhase ==
    /\ phase = "audio" /\ AudioNext
    /\ UNCHANGED <<textVars, takeVars, jobsVars, answerVars>>

JobPhase ==
    /\ phase = "job" /\ JobNext
    /\ UNCHANGED <<textVars, soundVars, packageVars, reviewVars, answerVars>>

PackagePhase ==
    /\ phase = "package" /\ PackageNext
    /\ UNCHANGED <<textVars, soundVars, jobVars, reviewVars, answerVars>>

ReviewPhase ==
    /\ phase = "review" /\ ReviewNext
    /\ UNCHANGED <<textVars, soundVars, jobVars, packageVars, answerVars>>

ProductionPhase ==
    /\ phase = "production" /\ EditManifest
    /\ UNCHANGED <<textVars, soundVars, jobsVars, answer>>

AnswerPhase ==
    /\ phase = "answer" /\ RunCommand
    /\ UNCHANGED <<textVars, soundVars, jobsVars, manifest>>

Next ==
    \/ LessonPhase \/ AuthorPhase \/ TakesPhase \/ AudioPhase \/ JobPhase
    \/ PackagePhase \/ ReviewPhase \/ ProductionPhase \/ AnswerPhase

Spec == Init /\ [][Next]_vars
=============================================================================
