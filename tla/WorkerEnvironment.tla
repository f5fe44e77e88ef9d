-------------------------- MODULE WorkerEnvironment --------------------------
(***************************************************************************)
(* What is installed beside the worker's interpreter, what                 *)
(* runtime_probe.py reports of it, and the checks of worker_environment.rs *)
(* that compare the report with the lockfile and the bundle manifest.      *)
(*                                                                         *)
(* A distribution's RECORD lists hashed code files.  Code stands for the   *)
(* bytes of those files, and for the digest of the rows that state their   *)
(* hashes: record is what the rows say, files is what is on disk.          *)
(***************************************************************************)
EXTENDS Checks, WorkerLockfile

CONSTANTS
    Code,      \* contents of the hashed files of a distribution or startup module
    Runtimes,  \* interpreter identities
    NoDigest   \* no digest, no owner, no declaration

ASSUME EnvironmentAssumption == NoDigest \notin Code \cup Distributions

\* direct_url.json: absent (installed from an index), without a commit, or with one.
InstalledDistribution ==
    [name : Distributions, version : Versions,
     source : {"index", "unrevisioned"} \cup Commits,
     record : {"none"} \cup Code, rows : {"good", "malformed", "unsafe"},
     files : Code \cup {"missing"}]

\* claims: the distributions whose RECORD lists the .pth file.
PathHook == SUBSET Distributions
\* executes: not switched off by no_user_site; claimed: by a hashed row of a RECORD.
StartupModule ==
    [executes : BOOLEAN, claimed : Distributions \cup {NoDigest}, content : Code]

-----------------------------------------------------------------------------
(* runtime_probe.py, with the locked names as arguments *)

ProbedDistribution(d, locked) ==
    [name |-> d.name, version |-> d.version,
     recordedSource |-> d.source # "index",
     commit |-> IF d.source \in Commits THEN d.source ELSE NoCommit,
     record_digest |-> IF d.name \in locked /\ d.record # "none" THEN d.record ELSE NoDigest]

\* report_fault keeps the first fault; rows are checked before files are hashed.
FaultOf(d) ==
    FirstFault(<< <<d.record = "none", "UnrecordedDistribution">>,
                  <<d.rows = "malformed", "MalformedDistributionRecord">>,
                  <<d.rows = "unsafe", "UnsafeDistributionRecord">>,
                  <<d.files = "missing", "MissingDistributionFile">>,
                  <<d.files # d.record, "ModifiedDistributionFile">> >>)

\* A hook claimed by two distributions has no owner; only locked distributions
\* claim startup modules.
Probe(env, locked) ==
    LET faulty == {d \in env.installed : d.name \in locked /\ FaultOf(d) # "ok"}
    IN  [runtime |-> env.runtime,
         distributions |-> {ProbedDistribution(d, locked) : d \in env.installed},
         ambiguous |-> \E d, e \in env.installed : d # e /\ d.name = e.name,
         path_hooks |-> {IF \E o \in h : h = {o} THEN CHOOSE o \in h : TRUE ELSE NoDigest :
                           h \in env.hooks},
         fault |-> IF faulty = {} THEN "ok" ELSE FaultOf(CHOOSE d \in faulty : TRUE),
         startup |-> {[m EXCEPT !.claimed = IF @ \in locked THEN @ ELSE NoDigest] :
                        m \in env.startup}]

-----------------------------------------------------------------------------
(* worker_environment.rs *)

Locked(pins) == {pins[i].name : i \in DOMAIN pins}

\* An entry of project.dependencies; op none: nothing the check reads as a pin.
Requirement == [name : Distributions, op : {"==", "other", "none"}, version : Versions]

RequirementFault(r, pins) ==
    LET named == {i \in DOMAIN pins : pins[i].name = r.name}
    IN  FirstFault(<< <<r.op = "other", "NotAnExactPin">>,
                      <<r.op = "==" /\ named = {}, "NotLocked">>,
                      <<r.op = "==" /\ named # {} /\ pins[Min(named)].version # r.version,
                        "LockedAtAnotherVersion">> >>)

CheckRequirementsMatchLock(requirements, pins) ==
    IF \E r \in requirements : RequirementFault(r, pins) # "ok"
    THEN RequirementFault(CHOOSE r \in requirements : RequirementFault(r, pins) # "ok", pins)
    ELSE "ok"

PinFault(pin, probe) ==
    LET found == {d \in probe.distributions : d.name = pin.name}
        d == CHOOSE x \in found : TRUE
    IN  IF found = {} THEN "Absent"
        ELSE FirstFault(
          << <<d.version # pin.version, "Version">>,
             <<pin.commit # NoCommit /\ d.commit = NoCommit /\ d.recordedSource,
               "WithoutRecordedRevision">>,
             <<pin.commit # NoCommit /\ d.commit = NoCommit, "FromIndex">>,
             <<pin.commit # NoCommit /\ d.commit # pin.commit, "FromAnotherRevision">> >>)

CheckPathHooksArePinned(pins, probe) ==
    FirstFault(<< <<NoDigest \in probe.path_hooks, "UnownedPathHook">>,
                  <<~(probe.path_hooks \subseteq Locked(pins)), "UnlockedPathHook">> >>)

\* digests: record_digests of the manifest, by distribution.
RecordFault(pin, digests, probe) ==
    LET observed == {d.record_digest : d \in {x \in probe.distributions : x.name = pin.name}}
    IN  FirstFault(<< <<observed \subseteq {NoDigest}, "UnrecordedDistribution">>,
                      <<digests[pin.name] = NoDigest, "UndeclaredDistributionRecord">>,
                      <<observed # {digests[pin.name]}, "ModifiedDistributionRecord">> >>)

CheckRecordsMatchTheirDeclarations(digests, pins, probe) ==
    LET faults == [i \in DOMAIN pins |-> RecordFault(pins[i], digests, probe)]
    IN  FirstFault([i \in DOMAIN pins |-> <<faults[i] # "ok", faults[i]>>])

\* declared: startup_modules of the manifest, by digest.
CheckStartupModulesAreAccounted(declared, pins, probe) ==
    IF \A m \in probe.startup :
         ~m.executes \/ m.claimed \in Locked(pins) \/ m.content \in declared
    THEN "ok" ELSE "UnaccountedStartupModule"

\* check and check_environment_matches_lock, after the probe.
CheckEnvironment(manifest, pins, probe) ==
    LET pinFaults == [i \in DOMAIN pins |-> PinFault(pins[i], probe)]
        results == << FirstFault([i \in DOMAIN pins |-> <<pinFaults[i] # "ok", pinFaults[i]>>]),
                      CheckPathHooksArePinned(pins, probe),
                      CheckRecordsMatchTheirDeclarations(manifest.record_digests, pins, probe),
                      probe.fault,
                      CheckStartupModulesAreAccounted(manifest.startup_modules, pins, probe) >>
    IN  IF probe.runtime # manifest.python THEN "RuntimeIdentityMismatch"
        ELSE IF probe.ambiguous THEN "AmbiguousDistribution"
        ELSE FirstFault([i \in DOMAIN results |-> <<results[i] # "ok", results[i]>>])

\* What an accepted environment is: each pin installed once, at its version and
\* from its commit, its files those the manifest declares; and no other code
\* that the interpreter runs at startup.
Authenticated(manifest, pins, env) ==
    /\ \A i \in DOMAIN pins :
         \E d \in env.installed :
           /\ \A e \in env.installed : e.name = pins[i].name <=> e = d
           /\ d.version = pins[i].version
           /\ pins[i].commit # NoCommit => d.source = pins[i].commit
           /\ d.files = manifest.record_digests[pins[i].name]
    /\ \A m \in env.startup :
         m.executes => m.claimed \in Locked(pins) \/ m.content \in manifest.startup_modules
=============================================================================
