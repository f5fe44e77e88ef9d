------------------------------ MODULE WorkerGate ------------------------------
(***************************************************************************)
(* WorkerConfiguration::for_bundle (worker_executor.rs): the checks before *)
(* a worker is started.  WorkerBundle::load and verified_hash              *)
(* (worker_bundle.rs) read the bundle manifest, the lockfile, the          *)
(* requirements and the environment and hash the declared inputs;          *)
(* verify_model_artifacts (model_gate.rs) reads the weights,               *)
(* admit_voice_root the voices, WorkerLauncher::read the launcher.  Each   *)
(* file is met as the gate reaches it, whatever it may hold, and forgotten *)
(* after the check that it is for.                                         *)
(***************************************************************************)
EXTENDS WorkerEnvironment, VoiceGate

CONSTANT MaxLines  \* bound: lines of the lockfile

VARIABLE gate

\* The declared inputs of a bundle, and the files below its import root.
InputName == {"manifest", "launcher", "lockfile", "schema", "entry", "requirements", "helper"}
RequiredInputs == {"manifest", "launcher", "lockfile", "schema", "entry"}
Module == {"entry", "helper", "stray"}

\* fields: the optional fields present in the JSON; rooted: import_roots names
\* REQUIRED_IMPORT_ROOT.
BundleManifest ==
    [schema_version : {"1.0", "1.1", "1.2", "other"}, fields : SUBSET {"startup", "records"},
     inputs : SUBSET InputName, rooted : BOOLEAN, python : Runtimes,
     startup_modules : SUBSET Code, record_digests : [Distributions -> Code \cup {NoDigest}]]

\* WorkerBundle::load: the version decides which fields there may be.
LoadManifest(raw) ==
    FirstFault(
      << <<raw.schema_version = "other", "UnsupportedBundleManifest">>,
         <<raw.schema_version = "1.0" /\ raw.fields # {}, "UnreadableBundleManifest">>,
         <<raw.schema_version = "1.1" /\ "records" \in raw.fields, "UnreadableBundleManifest">>,
         <<raw.schema_version = "1.2" /\ "records" \notin raw.fields,
           "UnreadableBundleManifest">> >>)

\* check_required_declarations, then resolve and read_bounded for each input, then
\* check_import_roots_declared with what modules_under finds.
HashBundle(manifest, unreadable, modules) ==
    FirstFault(<< <<~(RequiredInputs \subseteq manifest.inputs), "UndeclaredRequiredInput">>,
                  <<~manifest.rooted, "UndeclaredImportRoot">>,
                  <<unreadable \cap manifest.inputs # {}, "MissingDeclaredInput">>,
                  <<~(modules \subseteq manifest.inputs), "UndeclaredModule">> >>)

\* verify_artifact, for one of DECLARED_MODEL_ARTIFACTS; sound: its SHA-256 is the
\* declared one.
Artifact == [kind : {"missing", "file", "other"}, sized : BOOLEAN, sound : BOOLEAN]
VerifyArtifact(found) ==
    FirstFault(<< <<found.kind = "missing", "MissingModelArtifact">>,
                  <<found.kind = "other", "ModelArtifactNotRegularFile">>,
                  <<~found.sized, "ModelArtifactSizeMismatch">>,
                  <<~found.sound, "ModelArtifactChecksumMismatch">> >>)

\* WorkerLauncher::read
LauncherFile == [readable : BOOLEAN, ours : BOOLEAN, wellFormed : BOOLEAN]
ReadLauncher(file) ==
    FirstFault(<< <<~file.readable, "UnreadableLauncher">>,
                  <<~file.ours, "UnsupportedLauncher">>,
                  <<~file.wellFormed, "UnreadableLauncher">> >>)

-----------------------------------------------------------------------------
(* What the gate may find.  Each is a sound one that differs in one place. *)

SoundManifest ==
    [schema_version |-> "1.2", fields |-> {"startup", "records"}, inputs |-> InputName,
     rooted |-> TRUE, python |-> CHOOSE r \in Runtimes : TRUE,
     startup_modules |-> {CHOOSE x \in Code : TRUE},
     record_digests |-> [d \in Distributions |-> CHOOSE x \in Code : TRUE]]

Undeclared == [d \in Distributions |-> NoDigest]

Manifests ==
    {[SoundManifest EXCEPT !.fields = f] : f \in SUBSET {"startup", "records"}}
    \cup {[SoundManifest EXCEPT !.schema_version = v, !.fields = f,
                                !.record_digests = Undeclared] :
            v \in {"1.0", "1.1", "other"}, f \in SUBSET {"startup", "records"}}
    \cup {[SoundManifest EXCEPT !.inputs = InputName \ {i}] : i \in InputName}
    \cup {[SoundManifest EXCEPT !.rooted = FALSE]}
    \cup {[SoundManifest EXCEPT !.startup_modules = {}]}
    \cup {[SoundManifest EXCEPT !.record_digests[d] = x] :
            d \in Distributions, x \in Code \cup {NoDigest}}

\* Environments that differ from the locked one in one distribution, one hook,
\* one startup module, or the interpreter.
Environments(manifest, pins) ==
    LET code(name) == IF manifest.record_digests[name] = NoDigest THEN CHOOSE x \in Code : TRUE
                      ELSE manifest.record_digests[name]
        asLocked(pin) ==
          [name |-> pin.name, version |-> pin.version,
           source |-> IF pin.commit = NoCommit THEN "index" ELSE pin.commit,
           record |-> code(pin.name), rows |-> "good", files |-> code(pin.name)]
        locked == {asLocked(pins[i]) : i \in DOMAIN pins}
        sound == [runtime |-> manifest.python, installed |-> locked, hooks |-> {{Governed}},
                  startup |-> {}]
    IN  {[sound EXCEPT !.installed = locked \ {d}] : d \in locked}
        \cup {[sound EXCEPT !.installed = locked \cup {d}] : d \in InstalledDistribution}
        \cup (UNION {{[sound EXCEPT !.installed = (locked \ {d}) \cup {e}] :
                        e \in {x \in InstalledDistribution : x.name = d.name}} : d \in locked})
        \cup {[sound EXCEPT !.hooks = {h}] : h \in PathHook}
        \cup {[sound EXCEPT !.startup = {m}] : m \in StartupModule}
        \cup {[sound EXCEPT !.runtime = r] : r \in Runtimes}

SoundVoice(name) ==
    LET s == CHOOSE x \in Sounds : TRUE
    IN  [kind |-> "directory", name |-> name, utf8 |-> TRUE,
         profile |-> [file |-> "regular", valid |-> TRUE, profile_id |-> name, reference |-> s,
                      conditionals |-> s, approval |-> "approved"],
         consent |-> [file |-> "regular", valid |-> TRUE, status |-> "granted",
                      permitted |-> {"private_synthesis"}, reference |-> s],
         reference |-> s, conditionals |-> s]

VoiceEntries(name) ==
    LET v == SoundVoice(name)
    IN  {[v EXCEPT !.kind = k] : k \in {"directory", "link", "file"}}
        \cup {[v EXCEPT !.utf8 = FALSE]}
        \cup {[v EXCEPT !.profile = p] :
                p \in {q \in VoiceProfile : q.file = "regular" => q.valid}}
        \cup {[v EXCEPT !.profile.valid = FALSE]}
        \cup {[v EXCEPT !.consent = c] :
                c \in {d \in VoiceConsent : d.file = "regular" => d.valid}}
        \cup {[v EXCEPT !.consent.valid = FALSE]}
        \cup {[v EXCEPT !.reference = s, !.conditionals = t] :
                s \in Sounds \cup {"missing"}, t \in Sounds \cup {"missing"}}

\* One profile as it should be, or none, beside one that may be anything.
VoiceRoots ==
    LET one == CHOOSE n \in ProfileNames : TRUE
        two == CHOOSE n \in ProfileNames \ {one} : TRUE
    IN  {{}} \cup UNION {{{e}, {e, SoundVoice(two)}} : e \in VoiceEntries(one)}

-----------------------------------------------------------------------------
(* The gate, in the order of for_bundle. *)

NoGate ==
    [step |-> "manifest", manifest |-> NoDigest, lines |-> <<>>, scan |-> EmptyScan,
     found |-> NoDigest, outcome |-> "none"]

GateRefuses(error) == gate' = [NoGate EXCEPT !.step = "end", !.outcome = error]

\* The interpreter, a file or a root cannot be read.
GateFails ==
    /\ gate.step # "end"
    /\ GateRefuses("unreadable")

ReadManifest ==
    /\ gate.step = "manifest"
    /\ \E raw \in Manifests :
         IF LoadManifest(raw) # "ok" THEN GateRefuses(LoadManifest(raw))
         ELSE gate' = [gate EXCEPT !.step = "lock", !.manifest = raw]

ReadLockLine ==
    /\ gate.step = "lock" /\ ~gate.scan.refused /\ Len(gate.lines) < MaxLines
    /\ \E line \in LockLine :
         gate' = [gate EXCEPT !.lines = Append(@, line), !.scan = ScanLine(@, line)]

EndLockfile ==
    /\ gate.step = "lock"
    /\ IF ScanAccepts(gate.scan)
       THEN gate' = [gate EXCEPT !.step = "requirements", !.lines = <<>>]
       ELSE GateRefuses("UnreadableWorkerLockfile")

\* requirements_bytes: only a declared pyproject.toml is compared.
CheckRequirements ==
    /\ gate.step = "requirements"
    /\ \E r \in {{}} \cup {{q} : q \in Requirement} :
         LET result == IF "requirements" \in gate.manifest.inputs
                       THEN CheckRequirementsMatchLock(r, gate.scan.pins) ELSE "ok"
         IN  IF result # "ok" THEN GateRefuses(result)
             ELSE gate' = [gate EXCEPT !.step = "environment"]

\* probe_runtime runs under process::run; when that fails or the output is not a
\* report, the gate fails (GateFails).
CheckInstalled ==
    /\ gate.step = "environment"
    /\ \E env \in Environments(gate.manifest, gate.scan.pins) :
         LET result == CheckEnvironment(gate.manifest, gate.scan.pins,
                                        Probe(env, Locked(gate.scan.pins)))
         IN  IF result # "ok" THEN GateRefuses(result)
             ELSE gate' = [gate EXCEPT !.step = "inputs", !.found = env]

HashInputs ==
    /\ gate.step = "inputs"
    /\ \E unreadable \in {{}} \cup {{i} : i \in InputName}, modules \in SUBSET Module :
         LET result == HashBundle(gate.manifest, unreadable, modules)
         IN  IF result # "ok" THEN GateRefuses(result)
             ELSE gate' = [gate EXCEPT !.step = "model", !.found = modules]

VerifyModel ==
    /\ gate.step = "model"
    /\ \E found \in Artifact :
         IF VerifyArtifact(found) # "ok" THEN GateRefuses(VerifyArtifact(found))
         ELSE gate' = [NoGate EXCEPT !.step = "voices"]

AdmitVoices ==
    /\ gate.step = "voices"
    /\ \E root \in VoiceRoots, requested \in VoiceUse :
         LET result == AdmitVoiceRoot(root, requested)
         IN  IF result # "ok" THEN GateRefuses(result)
             ELSE gate' = [gate EXCEPT !.step = "launcher",
                                       !.found = [root |-> root, requested |-> requested]]

LaunchReads ==
    /\ gate.step = "launcher"
    /\ \E file \in LauncherFile :
         IF ReadLauncher(file) # "ok" THEN GateRefuses(ReadLauncher(file))
         ELSE gate' = [NoGate EXCEPT !.step = "end", !.outcome = "ok"]

GateStep ==
    \/ ReadManifest \/ ReadLockLine \/ EndLockfile \/ CheckRequirements \/ CheckInstalled
    \/ HashInputs \/ VerifyModel \/ AdmitVoices \/ LaunchReads \/ GateFails

GateInit == gate = NoGate
GateSpec == GateInit /\ [][GateStep]_gate

-----------------------------------------------------------------------------
(* Properties. *)

\* parse_lockfile accepts exactly the well-formed lockfiles and returns their pins,
\* and what it has refused no further line could mend.
LockScannerIsTheGrammar ==
    gate.step = "lock" =>
      IF gate.scan.refused
      THEN \A line \in LockLine :
             ~WellFormedLock(gate.lines) /\ ~WellFormedLock(Append(gate.lines, line))
      ELSE /\ ScanAccepts(gate.scan) <=> WellFormedLock(gate.lines)
           /\ ScanAccepts(gate.scan) => ArePinsOf(gate.scan.pins, gate.lines)

\* What each gate lets pass is what the build relies on: the code installed is the
\* code the manifest declares; every module the worker can import is in the bundle
\* hash; the worker loads a voice root that holds a profile, and every profile it
\* loads is approved, consented to for the requested use, and holds the audio and the
\* conditioning its records state.
GatesProveTheWorker ==
    /\ gate.step = "inputs" => Authenticated(gate.manifest, gate.scan.pins, gate.found)
    /\ gate.step = "model" =>
         gate.found \cup RequiredInputs \subseteq gate.manifest.inputs
    /\ gate.step = "launcher" /\ WorkerLoads(gate.found.root) # {} =>
         ~WorkerRefusesVoices(gate.found.root)
    /\ gate.step = "launcher" =>
         \A e \in WorkerLoads(gate.found.root) :
           /\ e.profile.profile_id = e.name /\ e.profile.approval = "approved"
           /\ e.consent.status = "granted" /\ gate.found.requested \in e.consent.permitted
           /\ e.reference = e.consent.reference /\ e.conditionals = e.profile.conditionals
=============================================================================
