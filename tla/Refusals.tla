------------------------------- MODULE Refusals -------------------------------
(***************************************************************************)
(* What the command line answers: every refusal the runtime can make       *)
(* (runtime/error), the class and the owner each routes to, and the exit   *)
(* status and recovery command the CLI derives from them (cli/exit.rs,     *)
(* cli/recovery.rs, main.rs).  A refusal is its variant; its fields and    *)
(* its wording are left out.                                               *)
(***************************************************************************)
EXTENDS Integers

\* The variants of one enum, as refusals of BuildError's variant `of`.
Of(of, variants) == {[of |-> of, variant |-> v] : v \in variants}

IoError == Of("Io", {"ReadFile", "LessonNotRegularFile", "DestinationExists", "FileSystem", "AudioAt", "WriteJson"})

\* LessonError's variants are LessonDocument's, CompileError's SourceCompiler's and
\* TakesError's TakeSelection's: their route does not depend on the variant.
Authored == Of("Lesson", {"LessonDiagnostic"}) \cup Of("Compile", {"CompileError"}) \cup Of("Takes", {"TakesError"})

PlanError == Of("Plan", {"UnresolvedSpeaker", "UnplannedRetake", "RetakeUsesSelectedTake",
                         "BaseTakeKeyMismatch", "RetakeUsesBaseKey"})

VoiceRecordFaults == Of("Voice", {"InvalidJson", "UnsupportedSchema", "MissingField"})
ConsentFaults == Of("Voice", {"MalformedChecksum", "ConsentNotGranted", "ProfileNotApproved",
                              "ConsentScopeExcluded", "ConsentChecksumDisagreement"})

VoiceProfileError == Of("VoiceProfile", {
    "MissingVoiceRecord", "VoiceRecordNotRegularFile", "VoiceRecordUnreadable", "MissingVoiceProfileDirectory",
    "VoiceProfileNotDirectory", "VoiceProfileIdMismatch", "VoiceProfileNameNotUtf8", "VoiceChecksumMismatch"})

RightsError == Of("Rights", {"UnresolvedContentRights", "InvalidRightsDeclaration", "MissingContentRightsDeclaration",
                             "MissingVoiceProfileDeclaration", "EmptyManifestIdentifier"})

GateFaults == Of("Publication", {"MissingGateEvidence", "ProductionGatesUnavailable"})
UnreadableProduction == Of("Publication", {"UnsupportedProductionManifest"})
UnearnedProduction == Of("Publication", {"PrivateProfileCannotClaimProduction", "MalformedProductionManifest",
                                         "ManifestNotProductionRelease", "ImplicitTakeSelection"})

UncontainedStage == Of("Cache", {"UncontainedStagedFile"})
CacheIntegrity == Of("Cache", {"UnusableCacheEntry", "UnrecognizedCacheEntry", "PackageArtifactCountMismatch",
                               "PackageArtifactPlanMismatch"})

UnusableAudio == Of("Audio", {"UnusableAudio"})
WorkerReports == Of("Audio", {"SynthesizerReportMismatch", "SynthesizerIdentityMismatch",
                              "ConditioningIdentityContradiction"})
AssemblyMismatch == Of("Audio", {"AssembledLengthMismatch"})
FrameOverflows == Of("Audio", {"PauseFrameOverflow", "PlannedLengthOverflow", "AssembledLengthOverflow"})

CaptureFaults == Of("Tool", {
    "ToolTimedOut", "ToolOutputOverflow", "ToolPipeUnavailable", "ToolCaptureConfigurationFailed",
    "ToolCaptureStartFailed", "ToolCaptureReadFailed", "ToolCaptureChannelClosed", "ToolCaptureThreadPanicked",
    "ToolCaptureShutdownTimedOut", "ToolCaptureIncomplete"})
ToolContainment == Of("Tool", {
    "ToolCleanupFailed", "ToolChildInspectionFailed", "ToolTerminationSignalFailed",
    "ToolContainmentInspectionFailed", "ToolContainmentSignalFailed", "ToolChildReapFailed",
    "ToolTerminationTimedOut", "ToolReaperStartFailed", "ToolCaptureReaperStartFailed"})
LoudnessJudgment == Of("Tool", {"LoudnessNotLinear"})
EncodeFaults == Of("Tool", {"UnreadableProbeResponse", "UnreadableLoudnessReport", "LoudnessChangedLength",
                            "UnexpectedEncodedStreamCount", "UnexpectedEncodedStream"})
ToolEnvironment == Of("Tool", {"Ffmpeg", "StartFfmpeg", "MissingTool", "MissingEncoder", "InspectTool",
                               "ToolProbeFailed", "Ffprobe"})

PathContainment == Of("ManagedPath", {"InvalidManagedName", "ManagedPathEscape"})
UnrootedDestination == Of("ManagedPath", {"UnrootedDestination"})

\* DurableStateError, by the record that is refused.
LiveLock == Of("DurableState", {"LiveJobLock"})
LockRecord == Of("DurableState", {"MalformedJobLock", "IncompatibleJobLock"})
JobRecord == Of("DurableState", {
    "MalformedJobSnapshot", "MalformedJobEventLog", "DurableRecordTooLarge", "JobEventLineTooLarge",
    "JobSnapshotIdentityMismatch", "JobSnapshotSegmentCountExceeded", "JobSnapshotAttemptMismatch",
    "JobReplacementPredecessorMismatch"})
JobStates == Of("DurableState", {
    "JobSnapshotLastSuccessfulStateMismatch", "JobSnapshotSelectionMismatch", "JobSnapshotPackageIdentityMismatch",
    "JobPreviewSelectionMismatch", "IllegalJobTransition", "JobAttemptOverflow"})
RetainedInputs == Of("DurableState", {
    "RetainedLessonMismatch", "RetainedLessonIdentityMismatch", "MalformedRetainedPlan",
    "RetainedPlanIdentityMismatch", "RetainedPlanHashMismatch", "RetainedPlanSegmentCountExceeded",
    "JobPlanHashMismatch"})
NoJob == Of("DurableState", {"NoJobToResume", "NoJobToRetake"})
CacheLock == Of("DurableState", {"CacheLockTimeout"})
Selections == Of("DurableState", {
    "MalformedPublicationJournal", "MalformedCurrentPreview", "UnsupportedDurableRecord", "CurrentLessonMismatch",
    "PublicationJournalLessonMismatch", "InvalidCurrentPackageReference", "MissingPackageDirectory",
    "MissingPackageManifest"})
Packages == Of("DurableState", {
    "MalformedPackageManifest", "UnsupportedPackageManifest", "MalformedPackageRunReport",
    "PackageRunReportSegmentCountExceeded", "PackageRunReportIncomplete", "PackageRunReportIdentityMismatch",
    "PackageRunReportSegmentMismatch", "PackageRunReportJoinMismatch", "PackageReleaseStatusMismatch"})
PackageContents == Of("DurableState", {
    "PackageLessonMismatch", "EmptyPackageSegmentId", "EmptyPackageSegmentAudio", "IncoherentPackageTimeline",
    "UnexpectedPackageArtifactPath", "PackageArtifactChecksumMismatch", "MissingPackageToolArguments"})
ApprovalRecords == Of("DurableState", {"UnsupportedApproval", "MalformedApproval", "ApprovalManifestMismatch"})
Unreviewed == Of("DurableState", {"PreviewNotApproved", "ApprovedPackageMissing"})
PublishedState == Of("DurableState", {
    "UnredactedPackageToolArgument", "PackageManifestChecksumMismatch", "MalformedDurableDigest",
    "MissingCurrentPreview", "JournalSelectionMismatch", "PackagePlanMismatch", "InvalidJobDirectoryName",
    "PublicationConflict"})
Quarantine == Of("DurableState", {"QuarantineFailed"})

BackendError == Of("Synthesis", {"InvalidRequest", "Destination", "Execution", "Timeout", "Protocol", "IdentityDrift"})

BundleInputs == Of("WorkerBundle", {
    "MissingDeclaredInput", "UndeclaredModule", "UndeclaredRequiredInput", "UndeclaredImportRoot",
    "UnreadableBundleManifest", "UnsupportedBundleManifest"})
BundleEnvironment == Of("WorkerBundle", {
    "RuntimeIdentityMismatch", "UnreadableRuntimeIdentity", "EnvironmentDoesNotMatchLock",
    "RequirementsDisagreeWithLock", "UnreadableWorkerLockfile", "UnreadableLauncher", "UnsupportedLauncher",
    "DeclaredInputTooLarge", "ProtocolFakeNamedAGovernedRoot"})

ModelArtifactError == Of("ModelArtifacts", {"MissingModelArtifact", "ModelArtifactNotRegularFile",
                                            "ModelArtifactSizeMismatch", "ModelArtifactChecksumMismatch"})

BuildError ==
    IoError \cup Authored \cup PlanError \cup VoiceRecordFaults \cup ConsentFaults \cup VoiceProfileError
    \cup RightsError \cup GateFaults \cup UnreadableProduction \cup UnearnedProduction
    \cup UncontainedStage \cup CacheIntegrity \cup UnusableAudio \cup WorkerReports \cup AssemblyMismatch
    \cup FrameOverflows \cup CaptureFaults \cup ToolContainment \cup LoudnessJudgment \cup EncodeFaults
    \cup ToolEnvironment \cup PathContainment \cup UnrootedDestination
    \cup LiveLock \cup LockRecord \cup JobRecord \cup JobStates \cup RetainedInputs \cup NoJob \cup CacheLock
    \cup Selections \cup Packages \cup PackageContents \cup ApprovalRecords \cup Unreviewed
    \cup PublishedState \cup Quarantine \cup BackendError \cup BundleInputs \cup BundleEnvironment
    \cup ModelArtifactError

-----------------------------------------------------------------------------
\* BuildError::class.
ClassOf(error) == IF error.of = "Compile" THEN "Lesson" ELSE error.of

\* RemedyAdvice: an owner, and the row of the failure-routing table or "none".
Advice(owner, routing) == [owner |-> owner, routing |-> routing]
NoAdvice == Advice("nobody", "none")

Corruption == "State or checksum corruption"
Containment == "Worker protocol or containment failure"
InvalidAudio == "Invalid or over-range audio"
Finding == "Human review finding"

CacheRemedy(error) ==
    IF error \in UncontainedStage THEN Advice("WorkerRuntime", Containment) ELSE Advice("Runtime", Corruption)

AudioRemedy(error) ==
    CASE error \in UnusableAudio -> Advice("AudioRuntime", InvalidAudio)
      [] error \in WorkerReports -> Advice("WorkerRuntime", Containment)
      [] error \in AssemblyMismatch -> Advice("Runtime", Corruption)
      [] error \in FrameOverflows -> NoAdvice

ToolRemedy(error) ==
    CASE error \in LoudnessJudgment -> Advice("HumanReview", Finding)
      [] error \in EncodeFaults -> Advice("AudioRuntime", InvalidAudio)
      [] error \in ToolContainment -> Advice("WorkerRuntime", Containment)
      [] error \in CaptureFaults \cup ToolEnvironment -> NoAdvice

DurableStateRemedy(error) ==
    CASE error \in LiveLock \cup NoJob -> NoAdvice
      [] error \in CacheLock \cup Quarantine \cup ApprovalRecords -> Advice("Runtime", "none")
      [] error \in Unreviewed -> Advice("ProjectOwner", "none")
      [] OTHER -> Advice("Runtime", Corruption)

PublicationRemedy(error) ==
    CASE error \in GateFaults -> Advice("GateOwner", "Failed release gate")
      [] error \in UnearnedProduction -> Advice("ProjectOwner", "none")
      [] error \in UnreadableProduction -> NoAdvice

\* BuildError::remedy.
Remedy(error) ==
    CASE error.of \in {"Io", "Lesson", "Compile", "Plan", "Synthesis", "Takes", "ModelArtifacts"} -> NoAdvice
      [] error.of \in {"Voice", "VoiceProfile"} ->
            IF error \in VoiceRecordFaults THEN NoAdvice
            ELSE Advice("ProjectOwner", "Voice consent/checksum mismatch")
      [] error.of = "Rights" -> Advice("ProjectOwner", "Missing rights classification")
      [] error.of = "Publication" -> PublicationRemedy(error)
      [] error.of = "Cache" -> CacheRemedy(error)
      [] error.of = "Audio" -> AudioRemedy(error)
      [] error.of = "Tool" -> ToolRemedy(error)
      [] error.of = "ManagedPath" ->
            IF error \in PathContainment THEN Advice("WorkerRuntime", Containment) ELSE NoAdvice
      [] error.of = "DurableState" -> DurableStateRemedy(error)
      [] error.of = "WorkerBundle" -> Advice("WorkerRuntime", Containment)

-----------------------------------------------------------------------------
\* ExitClass.
InvalidInput == 2
MissingDependency == 3
IncompatibleEnvironment == 4
WorkerFailure == 5
AudioQualityFailure == 6
InternalError == 8

OfOwner(owner) ==
    CASE owner \in {"ProjectOwner", "GateOwner"} -> InvalidInput
      [] owner = "Runtime" -> IncompatibleEnvironment
      [] owner \in {"AudioRuntime", "HumanReview"} -> AudioQualityFailure
      [] owner = "WorkerRuntime" -> WorkerFailure

OfIo(error) ==
    IF error.variant \in {"ReadFile", "LessonNotRegularFile", "DestinationExists"}
    THEN InvalidInput ELSE IncompatibleEnvironment

OfClass(class) ==
    CASE class \in {"Lesson", "Takes", "Voice", "VoiceProfile", "Rights", "Publication"} -> InvalidInput
      [] class \in {"Tool", "ModelArtifacts", "WorkerBundle"} -> MissingDependency
      [] class \in {"Io", "ManagedPath", "DurableState"} -> IncompatibleEnvironment
      [] class \in {"Synthesis", "Cache"} -> WorkerFailure
      [] class = "Audio" -> AudioQualityFailure
      [] class = "Plan" -> InternalError

\* ExitClass::of.
ExitOf(error) ==
    IF ClassOf(error) = "WorkerBundle" THEN MissingDependency
    ELSE IF Remedy(error) # NoAdvice THEN OfOwner(Remedy(error).owner)
    ELSE IF error.of = "Io" THEN OfIo(error)
    ELSE OfClass(ClassOf(error))

\* RECOVERY: a command for the rows that have one.
Recovery(routing) ==
    CASE routing \in {Containment, InvalidAudio} -> "resume"
      [] routing = Finding -> "retake"
      [] routing = Corruption -> "inspect"
      [] OTHER -> "none"

\* Mutant: a bundle that cannot be loaded is answered by its row, with a resume.
CommandForItsRow(error) == Recovery(Remedy(error).routing)

\* command_for.
CommandFor(error) == IF ClassOf(error) = "WorkerBundle" THEN "none" ELSE Recovery(Remedy(error).routing)

-----------------------------------------------------------------------------
REQUIRED_PRODUCTION_GATES == {
    "long_form_soak", "content_integrity_review", "asr_triage_recorded", "worker_unloaded_before_verification",
    "explicit_take_selection", "frozen_loudness_references", "voice_identity_and_format",
    "automated_audio_checks", "package_provenance", "offline_render_verified", "rights_and_licensing",
    "clean_machine_operations"}

\* ReleaseClaim, and the one claim the program makes.
PrivatePreview == [status |-> "private_preview", gates |-> {}]

ValidateAsProduction(claim) ==
    IF claim.status # "production_release" THEN "PrivateProfileCannotClaimProduction"
    ELSE IF ~REQUIRED_PRODUCTION_GATES \subseteq claim.gates THEN "MissingGateEvidence" ELSE "ok"

\* Command::name.
CommandName == {"lesson new", "lesson validate", "lesson compile", "publish", "cache prune", "cache verify",
                "takes accept", "doctor", "inspect", "report", "review", "render", "resume", "retake"}

\* The refusals a command can make, by the modules it calls.  `publish` makes one,
\* doctor reports what it finds and refuses a path that cannot be made absolute, and
\* only the commands that build start a worker or a tool.
RefusalsOf(command) ==
    LET from(classes) == {e \in BuildError : e.of \in classes}
        durable == {"Io", "ManagedPath", "DurableState"}
    IN  CASE command = "publish" -> Of("Publication", {ValidateAsProduction(PrivatePreview)})
          [] command = "doctor" -> Of("Io", {"FileSystem"})
          [] command \in {"lesson new", "lesson validate"} -> from({"Io", "ManagedPath", "Lesson"})
          [] command = "lesson compile" -> from({"Io", "ManagedPath", "Lesson", "Compile"})
          [] command \in {"inspect", "report", "review"} -> from(durable)
          [] command = "takes accept" -> from(durable \cup {"Takes"})
          [] command \in {"cache prune", "cache verify"} -> from(durable \cup {"Takes", "Cache"})
          [] command \in {"render", "resume", "retake"} -> BuildError

VARIABLE answer  \* what the last command said: its name, its status, the line it tries

NoAnswer == [command |-> "none", refusal |-> [of |-> "none", variant |-> "none"], status |-> 0, line |-> "none"]

RefusalsInit == answer = NoAnswer

\* A command returns its report; `publish` never does.
CommandSucceeds(command) ==
    /\ command # "publish"
    /\ answer' = [NoAnswer EXCEPT !.command = command]

\* main: the refusal, its status and the command that answers it.
CommandRefuses(command) ==
    \E error \in RefusalsOf(command) :
        answer' = [command |-> command, refusal |-> error, status |-> ExitOf(error), line |-> CommandFor(error)]

RunCommand == answer = NoAnswer /\ \E command \in CommandName : CommandSucceeds(command) \/ CommandRefuses(command)

-----------------------------------------------------------------------------
\* The status and the line a refusal is answered with are read from one table: a
\* refusal whose status sends the operator to their own input, to an installation or
\* to a defect is never answered by a command that runs the build again; `inspect`
\* answers what reconciliation owns, `retake` the one judgment a person makes, and
\* `resume` what failed in the worker or in the audio.
StatusAgreesWithTheLine ==
    /\ answer.status \in {0, InvalidInput, MissingDependency, InternalError} => answer.line = "none"
    /\ answer.line = "inspect" => answer.status = IncompatibleEnvironment
    /\ answer.line = "retake" <=> answer.refusal \in LoudnessJudgment
    /\ answer.line = "resume" => answer.status \in {WorkerFailure, AudioQualityFailure}

\* docs/architecture/E2-S5-INTERFACE-CHANGE-001.md:47 gives the statuses: containment
\* and durable state are an incompatible environment, a worker that failed and a
\* cache entry that did not validate are a worker failure.
StatusIsDocumented ==
    /\ answer.refusal \in PathContainment => answer.status = IncompatibleEnvironment
    /\ answer.refusal \in Of("Cache", {"UnusableCacheEntry"}) => answer.status = WorkerFailure
=============================================================================
