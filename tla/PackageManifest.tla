---------------------------- MODULE PackageManifest ----------------------------
(***************************************************************************)
(* What is in a package: the audio the tools make of the cached segments   *)
(* (package_port.rs, assembly.rs, export.rs), the documents beside it      *)
(* (timeline.rs), the run report and the manifest that bind them, and      *)
(* validate_package, by which a later build decides whether it can reuse   *)
(* the selected package (manifest.rs, preview.rs).                         *)
(*                                                                         *)
(* A file holds what it was made of, which is also its digest.  An entry's *)
(* audio is a recording of one take: the same take may be recorded anew    *)
(* under the same key.  Where a package is and how it is published is      *)
(* PackagePublication's.                                                   *)
(***************************************************************************)
EXTENDS Integers, Sequences, FiniteSets, SequencesExt, Functions, Checks

CONSTANTS
    Pauses,           \* pause_after_ms of a segment
    Versions,         \* the versions of a tool, of an argument profile, of the text renderer
    PackageAttempts,  \* the attempts that can write a package
    MaxChanges        \* bound: changes of the plan, the tools and the package

LessonId == "lesson"
PlannedIds == <<"a", "b">>
FramesPerMs == 24

PACKAGE_ARTIFACT_NAMES ==
    <<"lesson.wav", "lesson.m4a", "lesson.mp3", "transcript.txt", "transcript.vtt", "chapters.ffmetadata",
      "run-report.json">>
Profiles == {"encoders", "measure", "apply", "probe", "m4a", "mp3"}

\* A take's audio: the first recording of it that was cached, or the one made after
\* that was lost.
Audio(id, take, recording) == <<id, take, recording>>
Recordings == {1, 2}

\* What an entry's audio measures: frames, level and spoken characters.
Performance(audio) ==
    LET first == CASE audio[1] = "a" /\ audio[2] = 0 -> [frames |-> 480, level |-> 4, characters |-> 10]
                   [] audio[1] = "a" /\ audio[2] = 1 -> [frames |-> 600, level |-> 9, characters |-> 10]
                   [] audio[1] = "b" /\ audio[2] = 0 -> [frames |-> 480, level |-> 4, characters |-> 10]
                   [] audio[1] = "b" /\ audio[2] = 1 -> [frames |-> 240, level |-> 0, characters |-> 0]
    IN  IF audio[3] = 1 THEN first ELSE [first EXCEPT !.frames = @ + 24, !.level = @ + 1]

\* The validated entries a plan is built from, and what the cache holds of each take.
CachedArtifacts(plan, cached) ==
    [i \in DOMAIN plan.segments |->
        LET segment == plan.segments[i]
        IN  [id |-> segment.id, take |-> segment.take, pause_after_ms |-> segment.pause_after_ms,
             audio |-> cached[<<segment.id, segment.take>>]]]

-----------------------------------------------------------------------------
\* expected_frames and assemble: each segment starts where the one before it and
\* its pause ended.
Timeline(segments) ==
    LET audio(i) == Performance(segments[i].audio).frames
        pause(i) == segments[i].pause_after_ms * FramesPerMs
        start[i \in 1 .. Len(segments) + 1] == IF i = 1 THEN 0 ELSE start[i - 1] + audio(i - 1) + pause(i - 1)
    IN  [segments |-> [i \in DOMAIN segments |->
             [start_frame |-> start[i], frames |-> audio(i), pause_frames |-> pause(i)]],
         total |-> start[Len(segments) + 1]]

\* JoinContinuity::provisional_tolerance of the ratio of two measurements.
Comparable(x, y) == x > 0 /\ y > 0
WithinRatio(x, y) == 2 * x >= y /\ x <= 2 * y
JoinTolerance(earlier, later) ==
    LET rate(p, other) == p.frames * other.characters
    IN  IF ~Comparable(earlier.level, later.level) \/ ~Comparable(rate(earlier, later), rate(later, earlier))
        THEN "NotComparable"
        ELSE IF WithinRatio(earlier.level, later.level) /\ WithinRatio(rate(later, earlier), rate(earlier, later))
        THEN "Within" ELSE "Outside"

\* assess_replacement_joins: the joins beside a segment whose take is not the base.
Joins(segments) ==
    LET beside == {i \in 1 .. Len(segments) - 1 : segments[i].take # 0 \/ segments[i + 1].take # 0}
        join(i) == [earlier |-> segments[i].id, later |-> segments[i + 1].id,
                    continuity |-> JoinTolerance(Performance(segments[i].audio), Performance(segments[i + 1].audio))]
    IN  [k \in 1 .. Cardinality(beside) |-> join(SetToSortSeq(beside, <)[k])]

\* advisory_join_findings, of the writer and of the reader.
JoinFindings(joins) ==
    LET outside == SelectSeq(joins, LAMBDA j : j.continuity = "Outside")
    IN  [k \in DOMAIN outside |-> <<outside[k].earlier, outside[k].later>>]

-----------------------------------------------------------------------------
\* write_with_timings: every tool execution in the order it is performed, with the
\* profile of its arguments.
Performed(tools) ==
    LET ran(tool, profile) == [tool |-> tool, profile |-> tools.profiles[profile], arguments |-> "placeholder"]
    IN  <<ran("ffmpeg", "encoders"), ran("ffmpeg", "measure"), ran("ffmpeg", "apply"), ran("ffprobe", "probe"),
          ran("ffmpeg", "m4a"), ran("ffprobe", "probe"), ran("ffmpeg", "mp3"), ran("ffprobe", "probe")>>

\* What a tool can do to a build, and the refusal of it.
ToolRefusal == [
    none |-> "ok", start |-> "StartFfmpeg", status |-> "Ffmpeg", loudness |-> "UnreadableLoudnessReport",
    dynamic |-> "LoudnessNotLinear", length |-> "LoudnessChangedLength", probe |-> "UnreadableProbeResponse",
    streams |-> "UnexpectedEncodedStreamCount", stream |-> "UnexpectedEncodedStream"]

\* The stage at which a fault can come up, the stages before it having passed.
Stages == <<"measure", "apply", "probe master", "encode m4a", "probe m4a", "encode mp3", "probe mp3">>
FaultsOf(stage) ==
    CASE stage \in {"measure", "apply"} ->
            {"none", "start", "status", "loudness"} \cup (IF stage = "apply" THEN {"dynamic", "length"} ELSE {})
      [] stage \in {"encode m4a", "encode mp3"} -> {"none", "start", "status"}
      [] OTHER -> {"none", "status", "probe", "streams", "stream"}

\* What each file of a package is made of: the audio, or the words and where they are.
FileOf(name, artifacts, tools) ==
    LET master == <<artifacts, tools.ffmpeg, tools.profiles["measure"], tools.profiles["apply"]>>
    IN  CASE name = "lesson.wav" -> master
          [] name = "lesson.m4a" -> <<master, tools.profiles["m4a"]>>
          [] name = "lesson.mp3" -> <<master, tools.profiles["mp3"]>>
          [] OTHER -> <<[i \in DOMAIN artifacts |-> artifacts[i].id], Timeline(artifacts), tools.renderer>>

\* A row of the report: a segment that was synthesized or reused.
ReportRow(id, take, frames) == [id |-> id, take |-> take, outcome |-> "made", frames |-> frames]

\* The report of a complete build.
ReportOf(plan, artifacts, attempt) == [
    layout |-> "current", completion |-> "complete", job |-> LessonId, lesson |-> LessonId,
    plan_hash |-> plan.segments, attempt |-> attempt,
    segments |-> [i \in DOMAIN artifacts |->
        ReportRow(artifacts[i].id, artifacts[i].take, Performance(artifacts[i].audio).frames)],
    findings |-> JoinFindings(Joins(artifacts))]

\* The files a build leaves in its stage, the manifest apart.
FilesOf(plan, artifacts, tools, attempt) ==
    [name \in Range(PACKAGE_ARTIFACT_NAMES) |->
        IF name = "run-report.json" THEN ReportOf(plan, artifacts, attempt)
        ELSE FileOf(name, artifacts, tools)]

\* manifest::write: a row is a segment of the plan, the entry it was made of and
\* its place.
ManifestOf(plan, artifacts, tools, attempt, files) == [
    version |-> "4.0", shape |-> "4.0", status |-> "private_preview", lesson |-> LessonId, attempt |-> attempt,
    plan_hash |-> plan.segments, source |-> plan.source, renderer |-> tools.renderer,
    total |-> Timeline(artifacts).total,
    segments |-> [i \in DOMAIN artifacts |->
        artifacts[i] @@ Timeline(artifacts).segments[i]
        @@ [cache_key |-> <<artifacts[i].id, artifacts[i].take>>, synthesis_base_key |-> <<artifacts[i].id, 0>>]],
    joins |-> Joins(artifacts),
    artifacts |-> [name \in DOMAIN files |-> [path |-> name, digest |-> files[name]]],
    ffmpeg |-> tools.ffmpeg, ffprobe |-> tools.ffprobe, executions |-> Performed(tools)]

\* selected: the manifest current.json names by its digest.
SelectedPackage(manifest, files) == [manifest |-> manifest, files |-> files, selected |-> manifest]
Sealed(package) == SelectedPackage(package.manifest, package.files)

Written(plan, artifacts, tools, attempt) ==
    LET files == FilesOf(plan, artifacts, tools, attempt)
    IN  SelectedPackage(ManifestOf(plan, artifacts, tools, attempt, files), files)

-----------------------------------------------------------------------------
\* The layouts that earlier builds wrote, as that build would have written this
\* package.  A field that a layout does not have is
\* NotRecorded or NoNumber.
NotRecorded == "not recorded"
NoNumber == -1
ShapeOf(version) == IF version = "3.0" THEN "4.0" ELSE version

Older(package, version) ==
    LET m == package.manifest
        only(names) == [name \in names |-> m.artifacts[name]]
        named == [m EXCEPT !.version = version, !.shape = ShapeOf(version),
                           !.executions = [i \in DOMAIN @ |-> [@[i] EXCEPT !.arguments = "absolute"]]]
        unreported == [named EXCEPT !.attempt = NoNumber, !.joins = <<>>,
                                    !.artifacts = only(DOMAIN @ \ {"run-report.json"})]
        first == [unreported EXCEPT
                     !.source = NotRecorded, !.renderer = NotRecorded, !.total = NoNumber,
                     !.artifacts = only({"lesson.wav", "lesson.m4a"}),
                     !.executions = [i \in 1 .. 2 |-> IF version = "0.1" THEN [@[i + 4] EXCEPT !.profile = NotRecorded]
                                                      ELSE @[i + 4]]]
        manifest == CASE version = "3.0" -> named [] version = "2.0" -> unreported [] OTHER -> first
    IN  SelectedPackage(manifest, [name \in DOMAIN manifest.artifacts |-> package.files[name]])

\* An execution kept a path of the host that wrote it.
RecordsAbsoluteArgument(m) == \E i \in DOMAIN m.executions : m.executions[i].arguments = "absolute"

\* parse_stored_manifest: the version selects the shape, and the current one must have
\* redacted its arguments.
ParseFault(m) ==
    IF m.version \notin {"0.1", "0.2", "2.0", "3.0", "4.0"} THEN "UnsupportedPackageManifest"
    ELSE IF m.shape # ShapeOf(m.version) THEN "MalformedPackageManifest"
    ELSE IF m.version = "4.0" /\ RecordsAbsoluteArgument(m)
    THEN "UnredactedPackageToolArgument" ELSE "ok"

\* validate_written_timeline: the positions tile the master, and the silence is the
\* pause that was declared.
TimelineIsIncoherent(m) ==
    LET position(i) == m.segments[i].start_frame
        ending(i) == position(i) + m.segments[i].frames + m.segments[i].pause_frames
    IN  /\ m.total # NoNumber
        /\ \/ \E i \in DOMAIN m.segments :
                 \/ position(i) # (IF i = 1 THEN 0 ELSE ending(i - 1))
                 \/ m.segments[i].pause_frames # m.segments[i].pause_after_ms * FramesPerMs
           \/ m.total # ending(Len(m.segments))

\* join_run_report, the report against the manifest.
ReportChecks(report, m) ==
    <<<<report.completion # "complete", "PackageRunReportIncomplete">>,
      <<report.job # m.lesson \/ report.lesson # m.lesson, "PackageRunReportIdentityMismatch">>,
      <<report.plan_hash # m.plan_hash, "PackageRunReportIdentityMismatch">>,
      <<report.attempt # m.attempt, "PackageRunReportIdentityMismatch">>,
      <<report.segments # [i \in DOMAIN m.segments |->
            ReportRow(m.segments[i].id, m.segments[i].take, m.segments[i].frames)],
        "PackageRunReportSegmentMismatch">>,
      <<report.findings # JoinFindings(m.joins), "PackageRunReportJoinMismatch">>>>

\* validate_run_report: only a manifest that records an attempt has one to read.
RunReportChecks(package) ==
    LET report == package.files["run-report.json"]
    IN  IF package.manifest.attempt = NoNumber THEN <<>>
        ELSE <<<<report.layout = "unknown", "MalformedPackageRunReport">>>> \o ReportChecks(report, package.manifest)

\* validate_artifact, for each recorded artifact.
ArtifactChecks(package) ==
    LET recorded(name) == package.manifest.artifacts[name]
        names == SelectSeq(PACKAGE_ARTIFACT_NAMES, LAMBDA name : name \in DOMAIN package.manifest.artifacts)
    IN  FlattenSeq([i \in DOMAIN names |->
            <<<<recorded(names[i]).path # names[i], "UnexpectedPackageArtifactPath">>,
              <<names[i] \notin DOMAIN package.files, "ReadFile">>,
              <<names[i] \in DOMAIN package.files /\ package.files[names[i]] # recorded(names[i]).digest,
                "PackageArtifactChecksumMismatch">>>>])

\* validate_package, without expectations.
PackageFault(package) ==
    LET m == package.manifest
    IN  IF ParseFault(m) # "ok" THEN ParseFault(m)
        ELSE LET first == FirstFault(
                     <<<<m.status # "private_preview", "PackageReleaseStatusMismatch">>,
                       <<m.lesson # LessonId, "PackageLessonMismatch">>,
                       <<\E i \in DOMAIN m.segments : m.segments[i].id = "", "EmptyPackageSegmentId">>,
                       <<\E i \in DOMAIN m.segments : m.segments[i].frames = 0, "EmptyPackageSegmentAudio">>,
                       <<TimelineIsIncoherent(m), "IncoherentPackageTimeline">>>> \o ArtifactChecks(package))
             IN  IF first # "ok" THEN first
                 ELSE FirstFault(RunReportChecks(package)
                      \o <<<<\E i \in DOMAIN m.executions : m.executions[i].arguments = "none",
                             "MissingPackageToolArguments">>>>)

\* expected_executions, a list of its own beside the writer's.
ExpectedExecutions(profiles) == <<
    <<"ffmpeg", profiles["encoders"]>>, <<"ffmpeg", profiles["measure"]>>, <<"ffmpeg", profiles["apply"]>>,
    <<"ffprobe", profiles["probe"]>>, <<"ffmpeg", profiles["m4a"]>>, <<"ffprobe", profiles["probe"]>>,
    <<"ffmpeg", profiles["mp3"]>>, <<"ffprobe", profiles["probe"]>>>>

\* Mutant: the recorded executions are counted and not compared.
ToolsMatchByCount(m, tools) ==
    /\ m.ffmpeg = tools.ffmpeg /\ m.ffprobe = tools.ffprobe
    /\ Len(m.executions) = Len(ExpectedExecutions(tools.profiles))

\* tools_match: the versions, and the profiles in their order.
ToolsMatch(m, tools) ==
    /\ m.ffmpeg = tools.ffmpeg /\ m.ffprobe = tools.ffprobe
    /\ [i \in DOMAIN m.executions |-> <<m.executions[i].tool, m.executions[i].profile>>]
       = ExpectedExecutions(tools.profiles)

\* By name, not by count.
RecordsEveryArtifact(m) == Range(PACKAGE_ARTIFACT_NAMES) \subseteq DOMAIN m.artifacts

\* validate_package, with the expectations of current_for_build.
Reusable(package, plan, tools) ==
    LET m == package.manifest
    IN  /\ PackageFault(package) = "ok"
        /\ m.plan_hash = plan.segments
        /\ m.attempt # NoNumber => package.files["run-report.json"].layout = "current"
        /\ m.version = "4.0"
        /\ RecordsEveryArtifact(m)
        /\ ToolsMatch(m, tools)
        /\ m.renderer = tools.renderer /\ m.source = plan.source

\* read_current: the package is validated, then its manifest compared with the digest
\* current.json names.
ReadCurrentFault(package) ==
    FirstFault(<<<<PackageFault(package) # "ok", PackageFault(package)>>,
                 <<package.manifest # package.selected, "PackageManifestChecksumMismatch">>>>)

\* current_for_build
CurrentForBuild(package, plan, tools) ==
    IF ReadCurrentFault(package) # "ok" THEN ReadCurrentFault(package)
    ELSE IF Reusable(package, plan, tools) THEN "reuse" ELSE "stale"

-----------------------------------------------------------------------------
VARIABLES
    wanted,     \* the plan of the next build: its source, its segments, the audio accepted
    cached,     \* the audio the cache holds of each take
    toolchain,  \* the tools of the next build
    stored,     \* the package current.json selects, one or none
    refused,    \* what the last build was refused for, or "ok"
    changes     \* how many changes there have been

packageVars == <<wanted, cached, toolchain, stored, refused, changes>>

PlanFor(source, takes, pauses, accepted) == [
    source |-> source, accepted |-> accepted,
    segments |-> [i \in DOMAIN PlannedIds |-> [id |-> PlannedIds[i], take |-> takes[i], pause_after_ms |-> pauses[i]]]]

OldVersion == CHOOSE v \in Versions : TRUE
FirstCached == [t \in Range(PlannedIds) \X {0, 1} |-> Audio(t[1], t[2], 1)]
FirstPlan == PlanFor("implicit", <<0, 0>>, <<5, 5>>, FirstCached)
FirstTools == [ffmpeg |-> OldVersion, ffprobe |-> OldVersion, renderer |-> OldVersion,
               profiles |-> [p \in Profiles |-> OldVersion]]

PackageInit ==
    /\ wanted = FirstPlan /\ cached = FirstCached /\ toolchain = FirstTools
    /\ stored = <<>> /\ refused = "ok" /\ changes = 0

\* Another take or pause, or takes that were accepted as the cache holds them.
ChangePlan ==
    /\ changes < MaxChanges /\ changes' = changes + 1
    /\ \E source \in {"implicit", "explicit"}, takes \in [1 .. 2 -> {0, 1}], pause \in Pauses :
          wanted' = PlanFor(source, takes, <<pause, 5>>, IF source = "explicit" THEN cached ELSE FirstCached)
    /\ UNCHANGED <<cached, toolchain, stored, refused>>

\* An entry was lost, and its take is synthesized anew.
Resynthesize ==
    /\ changes < MaxChanges /\ changes' = changes + 1
    /\ \E t \in DOMAIN cached, recording \in Recordings :
          cached' = [cached EXCEPT ![t] = Audio(t[1], t[2], recording)]
    /\ UNCHANGED <<wanted, toolchain, stored, refused>>

\* Another ffmpeg or ffprobe, or another version of the program.
ChangeTools ==
    /\ changes < MaxChanges /\ changes' = changes + 1
    /\ \E v \in Versions :
          \/ \E part \in {"ffmpeg", "ffprobe", "renderer"} : toolchain' = [toolchain EXCEPT ![part] = v]
          \/ \E p \in Profiles : toolchain' = [toolchain EXCEPT !.profiles[p] = v]
    /\ UNCHANGED <<wanted, cached, stored, refused>>

\* An earlier version of the program selected a package of its own.
OlderBuild ==
    /\ changes < MaxChanges /\ changes' = changes + 1
    /\ \E version \in {"0.1", "0.2", "2.0", "3.0"} :
          stored' = <<Older(Written(wanted, CachedArtifacts(wanted, cached), toolchain, 1), version)>>
    /\ UNCHANGED <<wanted, cached, toolchain, refused>>

\* A manifest, or a report checksummed by it, that holds something else.
Altered(package) ==
    LET m == package.manifest
        with(field, v) == [package EXCEPT !.manifest[field] = v]
        segment(field, v) == [package EXCEPT !.manifest.segments[2][field] = v]
        ran(field, v) == [package EXCEPT !.manifest.executions[1][field] = v]
        wav(field, v) == [package EXCEPT !.manifest.artifacts["lesson.wav"][field] = v]
        report(field, v) == [package EXCEPT !.files["run-report.json"][field] = v,
                                            !.manifest.artifacts["run-report.json"].digest[field] = v]
    IN  {with("version", v) : v \in {"0.1", "3.0", "4.0", "5.0"}}
        \cup {with("status", "production_release"), with("lesson", "other"), with("joins", <<>>),
              with("ffmpeg", "other"), with("renderer", "other"), wav("path", "other"), wav("digest", <<"another">>),
              ran("profile", "other"), ran("arguments", "absolute"), ran("arguments", "none"),
              segment("audio", <<"other">>), segment("cache_key", <<"other">>), segment("synthesis_base_key", <<"other">>),
              segment("id", ""), segment("frames", 0), segment("start_frame", 1), segment("pause_frames", 1)}
        \cup (IF m.attempt = NoNumber \/ "run-report.json" \notin DOMAIN package.files
                 \/ package.files["run-report.json"] # m.artifacts["run-report.json"].digest THEN {}
              ELSE {with("attempt", 0), segment("take", 2),
                    report("layout", "legacy"), report("layout", "unknown"), report("completion", "incomplete"),
                    report("job", "other"), report("plan_hash", <<>>), report("attempt", 0),
                    report("segments", <<>>), report("findings", <<>>)})

\* The digest in current.json is that of the altered manifest, or of the one before it.
DamagePackage ==
    /\ changes < MaxChanges /\ changes' = changes + 1
    /\ \E package \in ToSet(stored) :
          \/ \E damaged \in Altered(package) : stored' \in {<<damaged>>, <<Sealed(damaged)>>}
          \/ \E name \in DOMAIN package.files :
                \/ stored' = <<[package EXCEPT !.files[name] =
                       IF name = "run-report.json" THEN [layout |-> "torn"] ELSE <<"other">>]>>
                \/ stored' = <<[package EXCEPT !.files = [n \in DOMAIN @ \ {name} |-> @[n]]]>>
    /\ UNCHANGED <<wanted, cached, toolchain, refused>>

\* render_attempt: audio an explicit selection accepted is the audio that is built.
AudioIsAccepted ==
    wanted.source = "explicit" =>
        CachedArtifacts(wanted, cached) = CachedArtifacts(wanted, wanted.accepted)

\* write_with_timings: a damaged selection refuses the build, one that can be reused
\* is kept, and otherwise the package is made, unless a tool fails at some stage.
Make ==
    \E stage \in DOMAIN Stages, attempt \in PackageAttempts : \E fault \in FaultsOf(Stages[stage]) :
        /\ refused' = ToolRefusal[fault]
        /\ stored' = IF fault = "none"
                     THEN <<Written(wanted, CachedArtifacts(wanted, cached), toolchain, attempt)>>
                     ELSE stored

WritePackage ==
    LET current == IF stored = <<>> THEN "stale" ELSE CurrentForBuild(stored[1], wanted, toolchain)
    IN  /\ AudioIsAccepted
        /\ \/ current = "stale" /\ Make
           \/ current = "reuse" /\ refused' = "ok" /\ UNCHANGED stored
           \/ current \notin {"stale", "reuse"} /\ refused' = current /\ UNCHANGED stored
        /\ UNCHANGED <<wanted, cached, toolchain, changes>>

PackageNext == ChangePlan \/ Resynthesize \/ ChangeTools \/ OlderBuild \/ DamagePackage \/ WritePackage

-----------------------------------------------------------------------------
\* What the reuse of a package compares of its manifest: everything but the
\* measurements of the joins and the entries of the rows.
Compared(m) ==
    [m EXCEPT !.joins = JoinFindings(@),
              !.segments = [i \in DOMAIN @ |-> [@[i] EXCEPT !.audio = "", !.cache_key = "", !.synthesis_base_key = ""]]]

\* The selected package is reused exactly when it is, file by file and record by
\* record, what the plan and the tools of the next build make of some recordings of
\* the takes it selects: not when a tool, an argument profile, the renderer, the source
\* of the selection, a take or a pause has changed, not in an older layout, not with
\* anything damaged nor with a manifest other than the selected one.  The recordings
\* need not be the ones the cache holds now: no digest of an entry is compared, and
\* a package survives the loss of an entry it was made of.
ReuseIsExact ==
    \A package \in ToSet(stored) :
        CurrentForBuild(package, wanted, toolchain) = "reuse" <=>
            /\ package.manifest = package.selected
            /\ \E a, b \in Recordings :
                  LET then == [t \in DOMAIN cached |-> Audio(t[1], t[2], IF t[1] = "a" THEN a ELSE b)]
                      made == Written(wanted, CachedArtifacts(wanted, then), toolchain, package.manifest.attempt)
                  IN  package.files = made.files /\ Compared(package.manifest) = Compared(made.manifest)
=============================================================================
