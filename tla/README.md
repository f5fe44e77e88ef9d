# Verification of technical-tts

TLA+ models of `study-tts`, a command-line program that turns a lesson into an
audio study guide: it compiles and validates a lesson, selects a take for each
segment, synthesizes each one through a cache and a Python worker, assembles a
preview package, publishes it, and lets it be reviewed and released. Three things
make the program hard, and the models are about them:

- *The workspace on disk.* Several commands share it, and each may be killed between
  any two writes. The next command must find records that agree, lose no evidence,
  and never show a reader a package that is not whole.
- *The processes around it.* A worker and external tools fork, stall, flood, answer
  late and outlive their parent; gates decide in one language what the worker decides
  again in another.
- *Decisions that are made twice.* A check before a write and a check before reuse, a
  record of what was chosen and the choice made anew, four tables that describe one
  refusal: each pair has to agree for all inputs, and a test sees a few.

Paths below are relative to `src/crates/study-tts-runtime/src/` unless they name
another directory; `core/` stands for `src/crates/study-tts-core/src/`, `cli/` for
`src/crates/study-tts-cli/src/`.

## 1. Inventory

| Component | State it keeps | Operations | Talks to | Hard because | Correct when |
|---|---|---|---|---|---|
| Job document (`core/job.rs`) | the value of `job.json`: attempt, state, last success, abandoned attempt, digests, segments, package | `open_attempt`, `transition`, `with_segment`, `with_preview_package` | saved by the repository | 13 states, edges that go back, an attempt counter that ends | the durable boundary never refuses what the methods build; a package never outlives its plan |
| Job repository (`job_repository.rs`) | `job.json`, `lesson.json`, `plan.json`, `run-report.json` | `claim`, `load`, `replace`, `record_stage`, `retain_inputs`, `retained_lesson`, `retained_plan`, `retain_run_report`, `validate_preview_selection` | job lock, event log, publication | four files written one after another | the files are one attempt's; a resume continues the recorded lesson and takes |
| Job event log (`job_events.rs`) | `events.ndjson` | `preflight_append`, `append_event`, `validate_event_file` | repository, lock | torn lines, a ceiling, no repair | tells only of durable states, in order; a torn log stops the job |
| Job lock (`locking.rs`) | `build.lock`: kernel flock and an owner record | `acquire_job_lock`, `Drop` | `/proc`, event log | two facts that change at different times; kills inside a rewrite | one owner, its record intact; evidence kept; takeovers logged; no one waits for ever |
| Package publication (`preview.rs`, `package_port.rs`) | `publication.json`, `jobs/<id>/staging`, `previews/<id>/packages`, `current.json`, `quarantine/` | `reconcile`, `start_transaction`, `publish_transaction`, `current_for_build` | pipeline, package writer | a journal with six states, any of which a kill may leave | the selection is whole, moves forward, and recovery never contradicts itself |
| Preview pipeline (`pipeline.rs`) | a command's locals | `build_preview`, `resume_preview`, `select_plan`, `validate_production_manifest` | all of the above | orders some 15 durable writes over six files | completion names the selected package; reports tell the truth; an explicit selection was accepted |
| Segment cache (`cache.rs`, `cache_port.rs`) | cache entries, `.cache-stage-*`, key locks, quarantine | `resolve`, `synthesize_transaction`, `reconcile_stages`, `quarantine` | pipeline, executor | lock-free first load, two-phase publication, a 30 s key lock | one producer per key; an entry is whole; no stage lost; what is published is read again |
| Takes (`core/plan.rs`, `core/takes.rs`, `takes_accept.rs`) | `takes.json` beside the lesson | plan, `accept_current_takes`, retake | pipeline, cache, selection | lessons, entries and takes change independently | accepted takes can be built, and explicit means accepted |
| Pruning report (`prune.rs`) | none | `live_cache_keys`, `prune_candidates` | cache, manifests | reads at different times without locks | an entry of a package is no candidate |
| Approval and release (`approval.rs`) | `approvals/<manifest>.json`, `release.json` | `approve_preview`, `approved_package`, `publish_preview_release` | publication | follows `current.json` without the job lock | a release names a decision that accepted its package |
| Worker client and executor (`worker_client.rs`, `worker_executor.rs`, `worker_protocol.rs`) | child process, one request in flight, poison flag, depth-one channel | `spawn`, `request`, `shutdown`; `synthesize` | Python worker | timeout against a late answer; shutdown against full pipes; identities that change after the gate | no answer is taken for another request's; a timeout leaves no writer; calls return |
| Process supervision (`process.rs`) | the known tree of one child | `run`, `refresh`, `terminate`, capture threads, reaper | ffmpeg, ffprobe, probes, worker | forks between a scan and a kill | an Ok has all of the output; nothing met is left alive |
| Python worker (`src/worker/`) | its loop and the loaded model | handshake, synthesize, shutdown | client | protocol order | one answer per request; refuses what the client refuses |
| Gates (`worker_bundle.rs`, `worker_environment.rs`, `voice_gate.rs`, `model_gate.rs`, `core/voice.rs`, `core/rights.rs`) | none | `for_bundle`, `verified_hash`, `parse_lockfile`, `admit_voice_root` | worker | a skip list in Rust mirrors one in Python; a stateful scanner | what passed is what the worker loads |
| Lesson (`core/lesson.rs`) | the lesson document | `from_json` | CLI, pipeline | some forty rules in an order | accepts the sound ones, points at the fault |
| Authoring (`core/markdown.rs`, `authoring.rs`) | a draft lesson | `parse_source`, `compile_source`, review commands | lesson | nesting of blocks | each text of prose is spoken once |
| Audio (`audio_edges.rs`, `assembly.rs`, `timeline.rs`, `export.rs`) | none | condition, assemble, place, encode | cache, package writer | sample arithmetic, measured and checked by different formulas | an entry passes the checks of reuse |
| Manifest, run report (`manifest.rs`, `run_report.rs`) | documents inside a package | write, `validate_package` | publication | many fields, three layouts | a package is reused exactly when the build would make it again |
| Command line (`cli/main.rs`, `cli/exit.rs`, `cli/recovery.rs`, `error/`) | none | refusal to class, owner, status, recovery line | a shell, an operator | four tables with exceptions | status and advice agree |
| Doctor, schemas, test kit | none | read-only checks, generated documents | | | |

How they interact: one CLI command is one process. `build` passes its gate,
claims the job lock, loads `job.json`, reconciles publication, retains its
inputs, opens attempt *N+1*, resolves every segment, writes the package, records
it and leaves. `resume` claims first and takes its inputs from the job directory.
Everything between the claim and the drop of the lock is under the job lock; the
gate of a build before it and the incomplete report of a failed attempt after it
are not. `approve`, `release` and `prune` take no lock. A build's segments that are
not in the cache go to one worker, which is started with what the gate verified.

`PROJECT.json` lists every component with its status and every hazard with its
line and the properties that watch it.

## 2. Modules

Workspace:

| Module | Models | State and actions |
|---|---|---|
| `Processes`, `Checks` | the commands; a function that refuses at the first check that fails | the constant `Proc`; `FirstFault` |
| `JobDocument` | `core/job.rs` and the checks of `job_repository.rs`, as operators | no state: `Successors`, `OpenAttempt`, `Transition`, `ValidateDocument`, `ValidateReplacement`, ... |
| `JobLifecycle` | the whole state machine, including the verification, review and publication edges that no command takes yet | `doc` (in memory), `job` (on disk); one action per method, and `Save` |
| `JobEvents` | `job_events.rs` | `log`, `torn`; append, and an append that is interrupted (no line, a torn one, a whole one) |
| `JobLock` | `locking.rs`, job lock | `life`, `flock`, `record`, `lk`, `stale`; one action per system call of `acquire_job_lock` and of `Drop`; `Die` |
| `PreviewStore` | what a reader of `previews/<id>` is promised | `packages`, `current`; `Publish`, `Select` |
| `PackagePublication` | `preview.rs`, and `prepare`/`write` of `package_port.rs` | `journal`, `stages`, `packages`, `current`, and each publisher's place `pub`; one action per durable step and per arm of `reconcile` |
| `PreviewBuild` | `pipeline.rs` over `job_repository.rs`; extends `JobLock` and `PackagePublication` | adds `job`, `lessonFile`, `planFile`, `report`, `pc`, `mem`; one action per durable step of a command |
| `CacheStore` | what the cache promises, at one key, to a reader without a lock | `content`; `Appear`, `Rot`, `Retire` |
| `SegmentCache` | `cache.rs` and the cache-key lock, at one key | `entry`, `stages`, `keyLock`, and each process's place `resolver`; one action per read of an entry, per directory move and per step of `synthesize_transaction` |
| `ReviewRelease` | `approval.rs`, `prune.rs`, `published_entries` | packages with their keys, `selected`, `approvals`, `release`, what each releaser has read, the report in the making; one action per read and per write |

The worker and its processes:

| Module | Models | State and actions |
|---|---|---|
| `ProcessTree` | `ProcessOwnership` and `terminate` of `process.rs`, and the processes themselves | `tree`, `owned`, `term`; forks, escapes, exits, reparenting; one action per scan, signal and wait |
| `CommandSupervision` | `process::run` | `cmd`, `reader`; setup, poll, deadline, termination, capture, join, reaper |
| `WorkerLockfile` | `parse_lockfile`, and the grammar it should accept | operators: the scanner, a line at a time |
| `WorkerEnvironment` | `worker_environment.rs` and `runtime_probe.py` | operators: what the probe reports of what is installed, and the checks of it |
| `VoiceGate` | `voice_gate.rs`, `core/voice.rs`, and the worker's reading of a voice root | operators: which profiles each end loads or refuses |
| `WorkerGate` | `WorkerConfiguration::for_bundle` down to the launcher | `gate`; one action per check, which meets its file whatever it holds |
| `WorkerProtocol` | frames, `parse_worker_request`, `read_request` | `received`; a request line read by both ends |
| `WorkerSession` | `worker_executor.rs` over `worker_client.rs`, the pipes, the reader thread, the worker's loop; extends `ProcessTree` | `client`, `stdin`, `wire`, `responses`, `listener`, `worker`, `staged`, `record`; one action per step that blocks or that another can see |

Before and after a build:

| Module | Models | State and actions |
|---|---|---|
| `LessonDocument` | `ValidatedLesson::from_json` | `lesson`, edited field by field; the checks in their order, and the reference `LessonIsSound` |
| `SourceCompiler` | `core/markdown.rs`, `authoring.rs`, the lesson commands | `source` as the parser's events, `request`, `told`; blocks and segments as a fold over events |
| `TakeSelection` | `core/plan.rs`, `core/takes.rs`, `select_plan`, `takes_accept.rs` | `authored`, takes, entries, `current`, `build`; edit, build, retake, resume, kill, accept, lose an entry |
| `AudioEdges` | `audio_edges.rs` and the checks of an entry's audio in `cache.rs` | `spoken`, `entry`; a performance is recorded, checked, conditioned, published |
| `PackageManifest` | `package_port.rs`, `assembly.rs`, `timeline.rs`, `export.rs` as what each file is made of; `validate_package`, `read_current`, `current_for_build` | `stored`, `wanted`, `cached`, `toolchain`; write or reuse, change an input, synthesize an entry anew, damage, an older layout |
| `ProductionManifest` | `validate_production_manifest` | `manifest`, edited field by field |
| `Refusals` | `error/`, `cli/exit.rs`, `cli/recovery.rs` | `answer`; a command runs and is refused, or not |

The modules whose names end in `Proofs` hold theorems (section 4):

| Module | Theorems about |
|---|---|
| `JobDirectoryProofs` | `PackagePublication`, `JobLock` |
| `PreviewBuildProofs` | `PreviewBuild`, on top of `JobDirectoryProofs` |
| `SegmentCacheProofs` | `SegmentCache` |
| `ChildProcessProofs` | `ProcessTree`, `CommandSupervision`, `WorkerSession` |
| `DeliveryProofs` | `JobLifecycle`, `ReviewRelease`, `TakeSelection` |
| `ChecksProofs` | `Checks`: lemmas on lists of checks, for the next two |
| `WorkerProofs` | `WorkerLockfile`, `WorkerGate`, `WorkerProtocol` |
| `ContentProofs` | `AudioEdges`, `ProductionManifest`, `LessonDocument` |

`MCPackagePublication`, `MCPreviewBuild`,
`MCSegmentCache`, `MCWorker` and `MCDelivery` are bounded instances, with symmetry
sets, named bounds, and for the last two the composition of modules that meet in
files only: each part runs from its own initial states with the variables of the
others at rest.

The variables `quarantined`, `started` and `lastWrite` of `PackagePublication` are
counters of what happened, not files; guards read only `lastWrite`, and only in
`PubNext`, where it stands for the attempts a pipeline hands out in order.
In `SegmentCache`, `quarantined`, `started`, `published` and `damages` are such
counters, too; `recorded` of `ReviewRelease`, `offered` of `TakeSelection` and
`client.last` of `WorkerSession` are histories of the same kind.
`PreviewBuild` does not use that guard: `ImplementsPublication` shows that the
attempts it hands out are in order.

### What is abstracted

- *Digests are injective* on what they cover. A lesson is its script (what reaches
  the segments) and its layout (the other bytes, which reach its digest and no
  segment); a plan's hash is injective on script, takes and environment; a
  manifest's digest on plan, tools, selection source and build attempt. In the gates
  and in `PackageManifest` a content stands for a file and for its digest.
- *Values are classes.* A field of a lesson, a request or a manifest is one of the
  classes its checks tell apart (absent, of another type, empty, too long, unknown,
  ...), an event of Markdown is its tag, a sample is its magnitude, a refusal its variant.
- *Writes.* `write_json_atomically`, `write_bytes_atomically` and the no-replace
  rename are single steps, because each becomes visible in one rename. What is not
  written by a rename is modelled in its parts: `build.lock` is truncated, half
  written and finished; a line of the event log may be torn.
- *Kills.* A killed process loses its memory and its flock and keeps what it wrote.
  A power loss, which may also lose unsynchronized data, is not modelled.
- *A staging directory* is absent, incomplete, or complete; making the artifacts is
  one step of publication, since only the manifest, written last, makes a stage
  complete. Quarantine is counted, not stored.
- *The cache* is modelled at one key, because lock, entry and staging directories
  are all named after it. An entry is its artifact record and its audio, read by
  path in three reads (`artifact.json`, the samples, their digest). Spoiled audio may
  or may not pass the checks on samples; only its digest tells. The failures of one
  resolve are `ProduceFails` (settles its stage) and `ResolveFails` (leaves it).
- *Process identity* is (pid, start time): a reused pid is another process.
- *Time.* A deadline or a grace may pass at any moment at which the code waits for it.
- *Errors.* Each step may fail with an I/O, tool or gate error (`StepFails`,
  `RecordFails`, `SegmentFails`, `PubAbort`). Errors that mean two records disagree
  are outcomes of their own, because properties are about them.
- *Refusals of damaged or foreign files* (schema versions, sizes, symlinks, other
  job's identity) are left out of the workspace modules: nothing in the system writes
  such files.
- *A worker that outlives a killed `study-tts`* and writes on into a stage is not
  modelled; one that outlives its own timeout is (`WorkerSession`).
- *Request lines* of the other methods hold an identity and a path and fit the pipe; a
  `synthesize` may or may not fit it (`MAX_SEGMENT_TEXT_BYTES` alone is as long as a
  pipe), and one that does not blocks its writer until a worker that waits for a request
  takes the rest (`WriteRest`). A worker stopped in the middle of that read is not modelled.
- *Audio of a package* is a recording of a take. The same take may be recorded again
  under the same key, with another length and level.
- *Encodings of a request*: a raw frame names what either reader tells apart, those
  that only one of them reads included (an array in place of an object, `-0`, a lone
  surrogate).

## 3. Runs

| Run | Instance | What it shows |
|---|---|---|
| `publication` | 1 publisher, 2 scripts, 2 selection sources, 4 attempts; about 29,000 states | wherever a publisher stops: the selection is a whole package; no validation of `reconcile` or of `write` fails afterwards; every staging directory is staged, published or quarantined; a reader sees `PreviewStore`; `write` returns what the caller asked for; a publisher that goes on returns: `CurrentIsPublished`, `CrashNeverCorrupts`, `NoStageLost`, `WriteReturnsSelection`, `ImplementsStore`, `PublisherReturns` |
| `build_faults` | 3 commands, at most 2 at a time, 2 kills or failures anywhere, 2 attempts, a log of 14 lines; about 1 million states | the lock's owner, record and log agree; the files of the job directory agree under interleaving, faults and a full or torn log: `OwnershipIsAccountedFor`, `ConsistencyChecksNeverFire`, `AttemptOwnsItsRecords`, `LogFollowsTheJob`, `CompleteReportIsEarned`, `TornLogFreezesTheJob`, `EvidenceIsPreserved` |
| `build_inputs` | 3 commands in sequence, one killed anywhere, 2 layouts, 2 takes, 2 environments, 3 attempts; about 220,000 states | completion names the selected package; resume keeps lesson and takes; the pipeline is a legal single publisher (`PubSpec`): `CompletionIsSelected`, `ResumeKeepsTheSelection`, `ImplementsPublication` |
| `build_ends` | 2 concurrent commands with faults; about 96,000 states | under fair scheduling every command ends: `CommandsEnd` |
| `segment_cache` | 3 processes, 2 digests, 2 damages; about 35,000 states | a resolve returns audio that was published whole; a stage is settled only after its maker is gone, and no entry appears beside its work; no directory is lost; a reader without a lock sees `CacheStore`: `HitWasPublished`, `SynthesizerIsAlone`, `NoCacheEvidenceLost`, `ImplementsCacheStore` |
| `worker` | a request frame; a command with one descendant; a gate and a session of 2 syntheses with one fault; about 640,000 states | both ends judge a frame alike, but for the encodings only one of them reads; a command's tree and streams are accounted for; the lockfile scanner accepts its grammar; what passed the gate is what the worker loads; an answer is its request's and the verified model's; a timeout leaves no writer; calls return, with two exceptions (below): `CommandIsContained`, `LockScannerIsTheGrammar`, `GatesProveTheWorker`, `BothEndsAgree`, `AnswerIsOwn`, `TimeoutLeavesNoWriter`, `WorkerCallsReturn` |
| `delivery` | ten parts, each from its own initial states; about 750,000 states | lesson diagnostics, the spoken text of a source, drafts, accepted takes, conditioned audio, the state machine of a job, reuse of a package, reviews, releases and pruning, production manifests, exit statuses: `RefusalIsAtTheFault`, `ProseIsSpokenOnce`, `ApprovedDraftIsALesson`, `ExplicitMeansAccepted`, `AcceptedTakesCanBeBuilt`, `ConditionedSpeechIsUsable`, `LifecycleIsCoherent`, `ReuseIsExact`, `ReleaseNamesAnAcceptance`, `ReportSparesItsRoots`, `GatesAreTheLastObstacle`, `StatusAgreesWithTheLine` |
| `late_report` | 2 commands | finding 1: `FinishedBuildKeepsItsReport` |
| `resume_lesson` | 3 commands in sequence, 2 layouts | finding 2: `ResumeFindsItsLesson` |
| `cache_race` | as `segment_cache` | finding 3: `LoadRefusesAsUnusable` |
| `lost_prose` | as `delivery` | finding 4: `NoProseIsLost` |
| `edge_silence` | as `delivery` | finding 5: `EntryIsReadAgain` |

### Bounds, and why they are enough

- `MaxAttempt` stands for `u32::MAX`. `delivery` (three) and `build_faults` (two)
  reach it and ask for one attempt more, so its refusal is exercised. Three attempts
  are one to be killed, one to recover it and one to find both. `publication` has
  four, so that a stage of the first plan can meet a later transaction of the same
  name after a transaction of another plan.
- `MaxEvents` stands for the log's ceiling in lines. An undisturbed build with one
  segment writes 10 lines, or 8 when it reuses a package, so with 14 the log fills
  up during the second attempt, at one of many steps that depends on where the first
  was stopped, a takeover's line among them. 40 never binds, where the question is
  another one.
- `NumSegments` is 1: segments are resolved in order, each by the same three steps,
  and no property tells the second from the first.
- `MaxDamage` is 2: one damage of the first entry, and one of the entry that
  replaces it while the first's reader is still at work. Two digests tell a new
  entry from an old one. Three processes are a reader, a synthesizer and one that
  meets what the synthesizer left.
- `TwoFaults` and `OneKillInSequence` are state constraints of `MCPreviewBuild`. The
  first allows two faults and leaves the third command undisturbed, so that what
  the faults left is met by a complete command; the lock is contended by two
  commands, and a third contender behaves as the second, as `JobDirectoryProofs` shows for
  any number. The second drops concurrency, which `build_faults` covers,
  to pay for inputs that change.
- `worker`: one descendant (`MaxDescendants`) can fork, leave the group, keep the
  pipes and outlive the child; a second adds only more of the same to scan, at five
  times the states. `MaxLines` 4 is a marker, its pin, a directive and one line more.
  `MaxSyntheses` 2 is an answer and a later request to take it for, with a restart in
  between. `PipeFrames` 2 and a channel of one make a worker that writes three lines
  block. `MaxFaults` 1: a fork, a frame nobody asked for, a replaced model, or a read
  that fails.
- `delivery`: a lesson differs from a sound one in up to two fields of three segments,
  enough for one fault to hide another. A source is one top-level block, with a heading
  before it or without, and then perhaps one paragraph or empty item after it, of at most
  7 blocks in all (`SourceBlocks`): enough for a list in an item with text on both sides, or a
  table of two rows. Three builds, one edit
  and one lost entry let a take be accepted, its words changed and its entry lost
  before it is used. A performance is up to 7 samples at 5 levels, so that leading and
  trailing silence, a partial frame and both ramps meet in every way; `MaxSegment` 13
  is the ceiling that the longest of them pass when they are padded. Two generations, two reviews and two releasers let a
  decision be replaced, and a package superseded, between each read and write.
- Symmetry over processes and over the values of one input is used in runs that
  check safety only. These values are compared for equality and nothing else.
- `CHECK_DEADLOCK FALSE` in the runs with processes and in those whose parts end
  (a frame is read, a manifest judged): each process is one command,
  and when all have ended the system rightly stops. That none stops before its end
  is `CommandsEnd` and `WorkerCallsReturn`. `publication` checks deadlock.

### Fairness

Weak fairness of each process's own steps (`PubWork`, `LockStepOf`, `CommandStep`):
a process the kernel has not killed is scheduled. No step of a command waits for
another process: `acquire_job_file_lock` gives up after its grace, so a contended
claim is a step (`LoseFlock`), not a wait. Kills, failing steps and the start of
commands are never fair.

In `worker`, weak fairness of the client's thread (`ClientStep`), of its reader thread
(`ListenerMoves`) and of `run` (`RunStep`): threads of one live process. Nothing is
asked of the worker, of its descendants or of the caller. That calls return all the
same rests on deadlines, which are steps of the client. `WorkerCallsReturn` excepts two
situations. One the code admits to (`worker_client.rs:535-537`): a process that left the
worker's group before it was met, or that cannot be killed, keeps the pipes open, and
the join of the reader waits for it. The other is a smaller disagreement below: a request
longer than the pipe, and a worker that never comes to read it.

### Findings

1. **A late incomplete report** (`late_report`). `render_attempt` writes a failed
   attempt's report after `render_attempt_inner` has dropped the job lock. A second
   command can finish its build and write its complete report in between; the late
   write replaces it. `docs/observability/RUN-REPORT-FIELDS.md:90-92` says the
   finished build writes the file so that no stale report is left "describing a
   build that did finish".
2. **A resume that refuses its lesson** (`resume_lesson`). `retain_inputs` replaces
   `lesson.json` first. A build of a changed lesson killed right after it leaves a
   job whose `resume` refuses with `RetainedLessonMismatch`.
   `docs/architecture/E2-S1-INTERFACE-CHANGE-001.md:177-182` describes the window
   between the retained files and `job.json` as one in which the lesson bytes are
   identical and the refusal is `JobPlanHashMismatch`. As there, a fresh build
   repairs the job.
3. **A cache load that fails instead of waiting** (`cache_race`). `load_validated` is
   documented to refuse an entry with `UnusableCacheEntry` (`cache.rs:928-931`), the
   one error on which `resolve` goes on to the key lock. Its `hash_file` opens the
   audio again and passes an I/O error on. If another process quarantines a spoiled
   entry between the two, the first one's `resolve` fails with a filesystem error.
   The next command repairs it.
4. **Prose that is dropped** (`lost_prose`). The builder of `core/markdown.rs` keeps
   one open block. In a tight list the end of a nested item closes the block of the
   outer one, and the outer item's text after the nested list belongs to no block. The
   comment at `core/markdown.rs:402-404` says nothing is lost there.
5. **An entry that every later build refuses** (`edge_silence`). Where the leading and
   the trailing silence of a short performance overlap, `audio_edges.rs:615`
   subtracts a larger boundary from a smaller one. The wrapped ramp length is declared
   in the published entry, and `check_declared_conditioning` refuses it whenever it is
   read. `cache.rs:1358-1360` says conditioning satisfies that check by construction.

Smaller disagreements, stated in the modules and checked in no run. Added to
`MCDelivery.cfg` as an INVARIANT, TLC finds each of the first four violated:

- `RetakeKeepsNeighbours`: `pipeline.rs:73-76` says the segments beside a retake keep
  their identity; the command `retake` (`cli/main.rs:502-520`) renders the lesson with
  the takes that are accepted then, so a neighbour whose take was not accepted, or was
  accepted anew, changes.
- `StatusIsDocumented`: `docs/architecture/E2-S5-INTERFACE-CHANGE-001.md:47-52` puts
  containment under status 4 and a cache entry that did not validate under 5;
  `cli/exit.rs:155-178` answers some of them with another status.
- `ReleaseNamesTheDocument`: `approval.rs:229-231` says the digest in `release.json`
  names the document a reader will open; a review recorded between the read and the
  write replaces that document. That the release names an acceptance still holds.
- `ReportIsUnreferenced`: `prune.rs:82` promises entries no root refers to; a package
  published between the two reads refers to entries that were candidates.
- `authoring.rs:171-176` says that besides an unapproved segment every refusal of a
  compiled draft is a defect of the compiler; a blank segment and an undeclared
  speaker of the request lie behind the first unapproved segment, and are written.
- `core/markdown.rs:11-13` keeps code apart from prose; a code block inside an item or
  a quotation is appended to its text and spoken.
- A package is reused after an entry it was made of was lost and synthesized anew: the
  package keeps the earlier audio, the cache holds the later. `ReuseIsExact` therefore
  says that a reused package holds what the build makes of *some* recordings of its takes.
- `worker_client.rs:279-283` says the deadline bounds the whole exchange; it is
  computed after the request has been written and flushed (`worker_client.rs:271-277`),
  and a request longer than the pipe waits there without a limit for a worker that does
  not read, or that died and left a descendant with its end of the pipe.
- `worker_protocol.rs:10-24` says `protocol.py` applies every rule of the Rust reader. The
  derived readers of serde also take an array for the frame, its parameters or its trace
  context, which `protocol.py` refuses; `protocol.py` takes `-0` for a seed or a take, and
  lone surrogates in texts, which serde_json refuses. No writer of the project produces
  these; `BothEndsAgree` names them and says which end refuses.

## 4. Proofs

Every theorem below is for all values of the constants: any sets of processes, lessons,
plans, tools and digests, any number of attempts, segments, kills and failures. Each
module states its inductive invariant as a conjunction of named parts, has one lemma per
action that keeps it, and derives the properties from it. TLC checked each invariant on
the instance of its run before it was proved.

### Publication (`JobDirectoryProofs`)

- `PubInvariant`: `PubSpec => []PubInv`
- `PubTypes`, `SelectionIsPublished`, `RecoveryNeverRefuses`: `PubTypeOK`,
  `CurrentIsPublished`, `CrashNeverCorrupts`
- `NoStageIsLost`: `NoStageLost`
- `WriteReturnsItsSelection`: `WriteReturnsSelection`
- `PublicationImplementsStore`: `PubSpec => ImplementsStore`

*Assumptions*: `None` is no manifest and no journal, `Incomplete` is neither a
manifest nor `None`, and the two numbers are positive.

*Argument.* `CurrentIsPublished` and `CrashNeverCorrupts` are not inductive: that
`SelectPackage` may write `current.json` rests on the package having been moved,
which only the journal remembers. `PubInv` therefore says what the disk holds for
each state of the journal (`JournalIsTrue`), that a complete stage bears its own
name (`StagesAreNamed`), and what a process inside knows of the journal at each of
its steps (`StepIsTrue`). A kill forgets `StepIsTrue` and changes nothing on disk,
so it keeps the invariant at once; the work is in the steps of `reconcile`, each of
which has to find, from `JournalIsTrue` alone, that its validation holds.
`OneInside`, which the job lock provides, keeps a second process from changing the
journal under the first. The lemma of an action (`MovePackageKeeps`, ...) shows
that it keeps the disk's conjuncts and its own process's; `OneProcessMoves` adds
the other processes.

Three invariants rest on `PubInv`. Evidence is counted: what was started is what is
staged, published or quarantined, and each rename moves one. `ReturnInv` follows a
writer's target from `BeginWrite` to what it returns. The refinement needs an order:
that a selection is never replaced by an older package holds because a complete stage
is newer than every package, a writer is ahead of all of them, and the journal's own
package is the only one that may be published and not yet selected (`OrderInv`).

### Segment cache (`SegmentCacheProofs`)

- `CacheInvariant`: `CacheSpec => []CacheInv`
- `CacheTypes`, `SynthesizersAreAlone`, `HitsWerePublished`: `CacheTypeOK`,
  `SynthesizerIsAlone`, `HitWasPublished`
- `EvidenceInvariant`: `CacheSpec => [](LoadInv /\ StageInv)`
- `NoEvidenceIsLost`: `NoCacheEvidenceLost`
- `CacheImplementsStore`: `CacheSpec => ImplementsCacheStore`

*Assumptions*: `Absent` and `Damaged` are two values and no digests, `Nobody` is no
process, `NoDir` is no directory.

*Argument.* `CacheInv` says which steps belong under the key lock and that whoever is
at one holds it (`LockIsHeld`); a process that settles a stage therefore knows that
no other process owns one (`OwnersHaveStages`), and no entry can appear between the
look under the lock and the publication (`NoEntryMeanwhile`), so that the branch of
`synthesize_transaction` for a lost race is a precaution. Even the types rest on that: an
artifact record is written into a stage that must still be there. An entry's audio is
either published audio or damaged (`EntryIsPublished`), and a load compares a digest
it read with one it read earlier, so what it returns is published, even when the
directory was replaced between the two reads (`ResultIsPublished`). The evidence is
counted as in publication. For the refinement, every step maps to `Appear`, `Rot`,
`Retire` or a stutter, and what has to be shown is that `Publish` meets no entry.

### Job lock (`JobDirectoryProofs`)

- `LockInvariant`: `LockSpec => []LockInv`
- `OwnersAreAccountedFor`: `LockSpec => []OwnershipIsAccountedFor`
- `EvidenceIsKept`: `LockSpec => EvidenceIsPreserved`

*Assumptions*: `NoOwner` and `Partial` are two values and no processes.

*Argument.* Flock and record are two facts that change apart, and `OwnershipIsAccountedFor`
speaks of moments at which they agree. `LockInv` says that whoever is between its flock
and the close of the file is alive and alone (`HolderIsAlone`), what the file holds at
each of its steps (`RecordIsTrue`), and that a record that was found belonged to a
process that is dead and is in the log by the time the job is owned
(`TakeoversAreOfTheDead`). The dead stay dead, so what was found under a free flock
needs no second look; a kill leaves `record` as `RecordIsTrue` described it for a
process that no longer counts. The action property follows step by step: only
`TruncateRecord` touches another's record, and it comes after `ExamineRecord`.
The invariant admits a log with the lines of a build, so that the pipeline's proof can
cite it (`OtherLineKeeps`, `DieKeeps`).

### Job document (`DeliveryProofs`)

- `JobInvariant`: `JobSpec => []JobInv`
- `LifecycleCoheres`: `JobSpec => []LifecycleIsCoherent`

*Assumptions*: `None` is no abandoned attempt, no document and no manifest
(`AbsenceAssumption`, `NoneAssumption`), and the two numbers are positive.

*Argument.* What the repository checks before a save is about two documents. `JobInv`
says that each of them is sound by itself (`Sound`: the coherence of attempt, state and
last success, and a preview of its own plan) and that the one in memory replaces the one
on disk legally (`Replaces`). An operation changes the first and keeps the second part
because it takes an edge of the machine from a state that already was a legal
replacement. Two steps without a save between them are two edges, which would not be one;
the model, as the code, saves after each.

### Preview pipeline (`PreviewBuildProofs`)

- `BuildInvariant`: `BuildSpec => []Inv`
- `BuildImplementsPublication`: `BuildSpec => ImplementsPublication`
- `CompletionsAreSelected`, `ChecksNeverFire`, `AttemptsOwnTheirRecords`,
  `CompleteReportsAreEarned`: `CompletionIsSelected`, `ConsistencyChecksNeverFire`,
  `AttemptOwnsItsRecords`, `CompleteReportIsEarned`
- `TornLogsFreeze`, `ResumesKeepTheSelection`: the action properties
  `TornLogFreezesTheJob`, `ResumeKeepsTheSelection`
- `LogInvariant`: `BuildSpec => [](LockInv /\ LogInv)`
- `LogsFollowTheJob`, `BuildersAreAccountedFor`: `LogFollowsTheJob`,
  `OwnershipIsAccountedFor`
- `BuildsKeepTheEvidence`: `BuildSpec => EvidenceIsPreserved`

*Assumptions*: those of the lock, of publication and of the job document.

*Argument.* `Inv` is `PubInv` and `ReturnInv` of publication and a `BuildInv` of its own:
types, `HolderIsAlone` of the lock, what the files of the job say of each other whoever
is at work (`RecordsAgree`), and what each command knows at its place (`CommandIsTrue`:
where it is, what it loaded, which document it has in hand, how far its writer is). A
process outside the pipeline promises nothing of the files (`OutsideIsKept`), and two
cannot be inside (`OwnerIsAlone`), so a step of the owner disturbs only its own promise
(`OwnerMoves`), and a kill or an error makes it an outsider.

Two facts carry the rest. Every step of the pipeline on publication's variables is a
step of `PackagePublication` (`BuildStepIsPublic`), where a command that gives up looks
like a publisher that is killed: so `PubInv` carries over, and the attempts are in order
without the guard `PubNext` has for them. And a recorded completion implies that the
journal is settled, so the recovery of the next command finds nothing to do and
the selection stays the recorded one until a new attempt has replaced `job.json`. The
document in hand either is `job.json` or replaces it legally (`DocumentIsTrue`); hence
no check of the repository fires and the retained files are the attempt's.

For the log, `LogInv` relates the last state line to `job.json`: between a save and its
line the log is one step behind, everywhere else in an attempt they agree, and once the
attempt is given up the log may stay behind, which the next attempt's `Planned` makes
good. The property speaks of positions in the log instead of a filtered sequence,
because the filter is recursive. `LockInv` is kept because each step of a command is
one of the lock's, or a line the owner adds, or a kill in the middle of a line.

### Review, release, pruning (`DeliveryProofs`)

- `ReviewInvariant`: `ReviewSpec => []ReviewInv`
- `ReleasesWereAccepted`: `ReviewSpec => []ReleaseNamesAnAcceptance`
- `ReportsSpareTheirRoots`: `ReviewSpec => []ReportSparesItsRoots`

*Assumption*: `MaxGenerations` is a natural number.

*Argument.* Nothing holds a lock here, so what a releaser has read may be replaced
before it writes. What it read is still a decision that somebody recorded of the
manifest it read first (`ReleasersKnow`), because a decision's document is named by its
manifest (`DecisionsAreNamed`) and packages are only added. The report keeps what its
roots referred to among the live keys until it lists the entries (`RootsAreLive`); a
package published meanwhile is not among its roots, which is where the stronger
`ReportIsUnreferenced` fails.

### Takes (`DeliveryProofs`)

- `TakesInvariant`: `TakesSpec => []TakesInv`
- `ExplicitWasAccepted`: `TakesSpec => []ExplicitMeansAccepted`
- `AcceptedCanBeBuilt`: `TakesSpec => []AcceptedTakesCanBeBuilt`

*Assumptions*: none.

*Argument.* A row of a takes file is copied, dropped, retained and read back, and the
audio it names may be gone by then. The history `offered` holds every row a takes file
has had. `TakesInv` says that a plan's segments are the lesson's, in order
(`SegmentsAreOf`), that an explicit plan selects offered rows only, and that this holds of
the retained plan, of the plan being built and of the current package. A build refuses
audio that is not the row's, so what it has rendered is what was offered
(`BuildIsTrue`), and a resume takes the plan that was retained (`RetainedIsPlanned`).
For `AcceptedTakesCanBeBuilt` each check of `select_plan` is shown to pass on the rows
`accept_current_takes` writes, for lessons of any length.

### Commands and the worker session (`ChildProcessProofs`)

- `CommandInvariant`: `CommandSpec => []CommandInv`
- `CommandsAreContained`: `CommandSpec => []CommandIsContained`
- `SessionInvariant`: `SessionSpec => []SessionInv`
- `AnswersAreOwn`: `SessionSpec => []AnswerIsOwn`
- `TimeoutsAreContained`: `SessionSpec => []TimeoutLeavesNoWriter`

*Assumptions*: `MaxDescendants` is a natural number, and `SessionAssumption` on the
bounds of the pipes and the set of revisions.

*Argument.* Both need that `terminate` tells the truth: when it has ended without an
error, nothing it knows of is alive (`TreeInv`), for whatever forks, leaves the group and
is reparented meanwhile. For a command, each thing it has learned is true of the process
or stream it is about (`CaptureIsTrue`, `ExitIsTrue`, `FailureIsTold`), which the
outcome is put together from (`OutcomeIsTrue`). For a session, an answer passes five
places between the worker's loop and the client, and each may still hold one to an
earlier call: `RequestIsKnown` says that whatever the worker was asked it was asked by
this client since its start, `FrameIsTrue` that whatever is under way to the client
answers such a request with what the verified model rendered for it. A timeout
poisons the session, and a new worker starts with empty pipes. `ShutdownIsTrue` ties the
client's termination to `TreeInv`.

### Lists of checks (`ChecksProofs`)

Gates, readers of requests, manifests and lessons refuse at the first check that fails.
`FirstFaultOfChecks` says what `FirstFault` answers for a list of any length: nothing
when no check fails, and otherwise what a failing check says that has no failing one
before it. `RefusedBefore` puts two lists together, so that a function with sixteen
checks is understood part by part (`ListOfACheck` ... `ListOfSix`), and what a refusal says
is a rule that is broken (`FirstFaultIsBroken`, `OneRule` ... `SixRules`). They rest on
`FirstPosition`, that a non-empty set of naturals has a least member, which is
the library's well-foundedness of `<` (`WFMin`).

### Gates and the worker's protocol (`WorkerProofs`)

- `GateInvariant`: `GateSpec => []GateInv`
- `LockfileIsItsGrammar`: `GateSpec => []LockScannerIsTheGrammar`
- `WorkerIsProved`: `GateSpec => []GatesProveTheWorker`
- `EveryFrameIsReadAlike`: for every `r \in RawRequest`; `ReadersOfAFrameAgree`:
  `ProtocolSpec => []BothEndsAgree`

*Assumptions*: `LockfileAssumption` (the governed distribution is one, `NoCommit` is no
commit) and `EnvironmentAssumption` (`NoDigest` is no code and no distribution).

*Argument.* `parse_lockfile` forgets each line once it has read it; the grammar looks at
all of them. `GateInv` says what the scanner's four locals know of the lines so far
(`ReadsTheLines`): every line is well formed, `seen` holds the directives that were read,
each once (`DirectivesAreSeen`), `governed` and `pending` say where governed pin and
marker are (`MarkersArePending`), and the pins are those of the lines in their order
(`ArePinsOf`). Once a line has been refused the locals mean nothing, and that is no
invariant to build on; what is true then is that the lines have a fault which no
continuation mends (`IsBeyondMending`), so that refusing at once refuses no lockfile.
One lemma per kind of line keeps both. From there on each gate has proved what
the next one starts from: the code of the locked pins is what is installed, every module
that can be imported is in the bundle hash, every profile the worker loads is among
those Rust admitted. The proof assumes nothing of `MaxLines`, which bounds the
lines of a run.

For frames, what each reader accepts is written as a conjunction of the parts of a
frame, in Rust from serde's refusals and the checks after it (`RustReads`), in Python from
the order of `read_request` (`PythonReads`). The parameters are judged by two definitions,
`DerivedReadersRefuse` after the derived readers and `ParametersFail` after the checks of
`protocol.py`, and so is the presence of a trace (`UsesTrace`, `CarriesTrace`);
`ParametersAreReadAlike` and `TraceIsSeenAlike` say that where they differ the encoding is one
that only one end reads. The run sends frames that differ from a sound one in up to two
places; `EveryFrameIsReadAlike` has every combination.

### Audio, production manifests, lessons (`ContentProofs`)

- `AudioInvariant`: `AudioSpec => []AudioInv`
- `SpeechIsUsable`: `AudioSpec => []ConditionedSpeechIsUsable`
- `GatesAreLast`: for every `m` of `IsManifest`; `GatesAreLastOfEveryEdit`:
  `ManifestSpec => []GatesAreTheLastObstacle`
- `EveryRefusalIsAtTheFault`: for every `l \in LessonFields`; `RefusalsAreAtTheFault`:
  `LessonSpec => []RefusalIsAtTheFault`

*Assumptions*: `AudioAssumption` (magnitudes are naturals, as is `MaxSegment`) and
`LessonAssumption` (the bound on segments is a natural number).

*Argument, audio.* Both silences are counts of samples, the trailing one taken of the
reversed recording; when the two do not meet, boundaries and ramp are differences of
naturals (`SilenceIsWithin`, `SpeechIsBetween`). What is published is then zeros, a fade, the
recorded speech, a fade and zeros (`SpeechIsKept`). `check_declared_conditioning` bounds
the ramp by other formulas, from the length of what is published and from its first and
last sample that is not zero; `DeclarationIsConsistent` shows the ramp within both bounds,
wherever those samples lie. Endpoints and edge silence are checked of the same samples before
publication, and a fade raises no sample above full scale (`WavIsInRange`). The theorem is for
recordings of any length and level; the run has up to 7 samples at 5 levels. The scale (full
scale, analysis frame, ramp, threshold) is the model's.

*Argument, manifests.* The checks are six of the document, the declarations of two
sections and the two last; each part refuses exactly what its rule forbids and none
of them says `ProductionGatesUnavailable`, so that this answer means all have passed.
`IsManifest` allows two declarations in a section, which is what `DeclarationChecks` is
written out for, in any combination with everything else; the run changes two fields.

*Argument, lessons.* `from_json` first has the shape read, then the document's rules, then
those of one segment after the other with the ids seen so far. That it accepts exactly the
sound lessons follows part by part (`EveryLessonIsJudged`), the segments by the first one
that is refused. `IsFaultOf` lists everything that is wrong with a lesson, in no order, as
refusals with their places; what `from_json` answers is one of them (`FaultsAreLocated`).
That the field named is at fault means more than that some value of it changes the
answer: a value of it must exist with which the lesson is accepted, or refused only for
another fault it had before. The proof gives for each refusal a value of that field
that breaks no rule itself (`DocumentIsMended`, `SegmentIsMended`), and shows that whatever the
lesson so mended still breaks it had broken before (`DocumentIsRewritten`,
`SegmentIsRewritten`). The count of segments, and a speaker where no binding is left, are not one
field's to correct and are excepted by name. The theorem is for any number of segments, any
bound on it, and faults in any number of fields; the run has three segments and two faults.

### What is only model-checked

- *Liveness*: `PublisherReturns`, `CommandsEnd`, `WorkerCallsReturn`. TLAPS proves nothing
  about fairness and `ENABLED`.
- *What a fold computes*: `ProseIsSpokenOnce` and `ApprovedDraftIsALesson` say what
  `core/markdown.rs` makes of a sequence of parser events, which the model folds over.
  A library fold is known only by its recursion, and reasoning about it for every length
  takes an induction rule with an operator as its parameter, for which the installed
  provers have no instance. A set has a least member without such a rule, which is why
  scanners and lists of checks, modelled step by step or by their first failure, are
  proved. `LockScannerIsTheGrammar` is in reach because the scanner is a step of the gate.
- `ReuseIsExact`: the artifacts of a package are concatenations and folds over its
  segments, and that no sound package is refused depends on which damages and older
  layouts can be met, which the run enumerates.
- *A table*: `StatusAgreesWithTheLine` ranges over a finite set of refusals that no
  constant parameterises. TLC enumerates it, which is a proof.

## 5. Plan

Done: the job directory (`JobDocument`, `JobLifecycle`, `JobEvents`,
`JobLock`, `PackagePublication`, `PreviewStore`, `PreviewBuild`), the segment cache,
review, release and pruning, the worker with its processes, gates and protocol, the
lesson and its compiler, takes, audio edges, the contents of a package, production
manifests and refusals; the proofs of section 4, among them the refinements of
`PreviewStore`, of `CacheStore` and of `PackagePublication`. In this order, what is next:

1. Proofs: of `ReuseIsExact` the half that needs no fold (a package that differs from the
   build in one input is not reused); the four smaller disagreements of section 3 restated
   as the weaker properties that hold, and those proved.
2. A stage damaged by a power loss, in `PackagePublication`.
3. A worker that outlives a killed command beside the next command's resolve:
   `ProcessTree` composed with `SegmentCache`.
4. Frame accounting of `assembly.rs` and `timeline.rs` in numbers, as operators against a
   reference.

### Not modelled

- *Measurements*: stage timings, synthesis totals, resource samples and the paths of
  resolved executables, which no other part reads back (the run report carries them).
- *`doctor.rs`*: it calls the checks modelled under the gates and prints each finding.
  *`core/verification.rs`*: a key nothing computes yet.
- *Argument parsing, progress and wording* of the command line (`cli/output.rs`,
  `cli/progress.rs`), and the version probes of `tools.rs`.
- *Bytes*: canonical encoding, JSON text, digests, WAV and FLAC, language heuristics,
  Markdown's own grammar (its events are taken as given).
- *Signals*: resampling, loudness, encodings and the speech model itself.
- *Power loss*, temporary files, fsync and path containment.
- *Generated schemas and the test kit.*
