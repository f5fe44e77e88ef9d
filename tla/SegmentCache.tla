---------------------------- MODULE SegmentCache ----------------------------
(***************************************************************************)
(* The synthesis cache (cache.rs) at one cache key.  resolve first reads   *)
(* the published entry without a lock; when there is none, or none it can  *)
(* use, it takes the key lock, reads again, moves an unusable entry to     *)
(* quarantine, settles the staging directories of dead processes, and      *)
(* synthesizes into a staging directory of its own, which becomes the      *)
(* entry by a rename that replaces nothing.                                *)
(*                                                                         *)
(* Keys do not interact: lock, entry and stages are named after the key.   *)
(* An entry is read path by path, so its files may be moved or replaced    *)
(* between two reads.  A digest stands for audio and for all that the      *)
(* artifact record says of it.                                             *)
(***************************************************************************)
EXTENDS Processes, Naturals, FiniteSets

CONSTANTS
    Digests,    \* audio a worker may produce for the key
    MaxDamage,  \* bound: how often an entry is damaged from outside
    NoDir,      \* no such directory
    Absent,     \* a file that is missing, or that says nothing acceptable
    Damaged,    \* audio that no artifact record describes
    Nobody      \* a free key lock

ASSUME DigestAssumption ==
    /\ Absent \notin Digests /\ Damaged \notin Digests /\ Absent # Damaged
    /\ Nobody \notin Proc
    /\ MaxDamage \in Nat

VARIABLES
    entry,        \* the published entry's directory, or NoDir
    stages,       \* .cache-stage-<key>-*: the staging directory each process made
    keyLock,      \* holder of locks/<key>.lock, or Nobody
    quarantined,  \* directories moved to quarantine/
    started,      \* staging directories ever created
    published,    \* the audio ever published
    damages,      \* how often an entry was damaged
    resolver      \* each process's place in resolve

cacheVars ==
    <<entry, stages, keyLock, quarantined, started, published, damages, resolver>>

Directory ==
    [artifact : Digests \cup {Absent}, audio : Digests \cup {Absent, Damaged}]

ASSUME NoDirAssumption == NoDir \notin Directory

\* load_validated accepts it.
Whole(dir) == dir.artifact # Absent /\ dir.audio = dir.artifact

\* phase: which load is under way, and so what an unusable entry leads to.
ResolveStep ==
    {"start", "artifact", "samples", "hash", "lock", "look", "quarantine",
     "reconcile", "stage", "produce", "record", "publish", "end"}
Phase == {"free", "locked", "adopted", "own"}
ResolveOutcome ==
    {"none", "ok", "killed", "failed", "UnusableCacheEntry", "CacheLockTimeout", "FileSystem"}
Resolver ==
    [step : ResolveStep, phase : Phase, artifact : Digests \cup {Absent},
     got : Digests \cup {Absent}, outcome : ResolveOutcome]

\* The directories and each resolver's locals are of their types: in particular
\* no resolve returns audio that is not a producer's.
CacheTypeOK ==
    /\ entry \in Directory \cup {NoDir}
    /\ stages \in [Proc -> Directory \cup {NoDir}]
    /\ keyLock \in Proc \cup {Nobody}
    /\ quarantined \in Nat /\ started \in Nat /\ damages \in 0 .. MaxDamage
    /\ published \subseteq Digests
    /\ resolver \in [Proc -> Resolver]

CacheInit ==
    /\ entry = NoDir
    /\ stages = [p \in Proc |-> NoDir]
    /\ keyLock = Nobody
    /\ quarantined = 0 /\ started = 0 /\ damages = 0
    /\ published = {}
    /\ resolver = [p \in Proc |->
         [step |-> "start", phase |-> "free", artifact |-> Absent, got |-> Absent,
          outcome |-> "none"]]

-----------------------------------------------------------------------------
(* Helpers. *)

ResolveTo(p, step) == resolver' = [resolver EXCEPT ![p].step = step]

\* load_entry begins.
LoadIn(p, phase) ==
    resolver' = [resolver EXCEPT ![p].step = "artifact", ![p].phase = phase]

\* resolve returns, and _key_lock with it.
EndResolve(p, outcome, digest) ==
    /\ keyLock' = IF keyLock = p THEN Nobody ELSE keyLock
    /\ resolver' = [resolver EXCEPT ![p].step = "end", ![p].outcome = outcome,
                                    ![p].got = digest]

\* load_validated refuses: what resolve does about it depends on which load it is.
Unusable(p) ==
    CASE resolver[p].phase = "free"   -> ResolveTo(p, "lock") /\ UNCHANGED keyLock
      [] resolver[p].phase = "locked" -> ResolveTo(p, "quarantine") /\ UNCHANGED keyLock
      [] OTHER                        -> EndResolve(p, "UnusableCacheEntry", Absent)

directories == <<entry, stages, quarantined, started, published, damages>>

-----------------------------------------------------------------------------
(* Reading an entry: artifact.json, the samples, the samples' digest. *)

StartResolve(p) ==
    /\ resolver[p].step = "start"
    /\ IF entry # NoDir THEN LoadIn(p, "free") ELSE ResolveTo(p, "lock")
    /\ UNCHANGED <<directories, keyLock>>

ReadArtifact(p) ==
    /\ resolver[p].step = "artifact"
    /\ IF entry = NoDir \/ entry.artifact = Absent THEN Unusable(p)
       ELSE /\ resolver' = [resolver EXCEPT ![p].step = "samples",
                                            ![p].artifact = entry.artifact]
            /\ UNCHANGED keyLock
    /\ UNCHANGED directories

\* validate_wav and the edge, silence and conditioning checks.  Audio other than
\* the recorded one may pass them all.
ReadSamples(p) ==
    /\ resolver[p].step = "samples"
    /\ LET readable == entry # NoDir /\ entry.audio # Absent
       IN  \/ /\ readable
              /\ ResolveTo(p, "hash") /\ UNCHANGED keyLock
           \/ /\ readable => entry.audio # resolver[p].artifact
              /\ Unusable(p)
    /\ UNCHANGED directories

\* Mutant: the digest is taken, but not compared with the recorded one.
HashAudioUncompared(p) ==
    /\ resolver[p].step = "hash"
    /\ IF entry = NoDir \/ entry.audio = Absent THEN EndResolve(p, "FileSystem", Absent)
       ELSE EndResolve(p, "ok", entry.audio)
    /\ UNCHANGED directories

\* hash_file opens the path again; an error of it is no UnusableCacheEntry.
HashAudio(p) ==
    /\ resolver[p].step = "hash"
    /\ IF entry = NoDir \/ entry.audio = Absent THEN EndResolve(p, "FileSystem", Absent)
       ELSE IF entry.audio = resolver[p].artifact THEN EndResolve(p, "ok", entry.audio)
       ELSE Unusable(p)
    /\ UNCHANGED directories

-----------------------------------------------------------------------------
(* Under the key lock. *)

\* Mutant: the wait for the lock ends by going on without it.
TakeKeyLockOrGoOn(p) ==
    /\ resolver[p].step = "lock"
    /\ keyLock' = p
    /\ ResolveTo(p, "look")
    /\ UNCHANGED directories

TakeKeyLock(p) ==
    /\ resolver[p].step = "lock"
    /\ keyLock = Nobody
    /\ keyLock' = p
    /\ ResolveTo(p, "look")
    /\ UNCHANGED directories

\* 30 seconds have passed: a synthesis may take longer than that.
KeyLockTimeout(p) ==
    /\ resolver[p].step = "lock"
    /\ keyLock # Nobody
    /\ EndResolve(p, "CacheLockTimeout", Absent)
    /\ UNCHANGED directories

LookAgain(p) ==
    /\ resolver[p].step = "look"
    /\ IF entry # NoDir THEN LoadIn(p, "locked") ELSE ResolveTo(p, "reconcile")
    /\ UNCHANGED <<directories, keyLock>>

QuarantineEntry(p) ==
    /\ resolver[p].step = "quarantine"
    /\ entry # NoDir
    /\ entry' = NoDir
    /\ quarantined' = quarantined + 1
    /\ ResolveTo(p, "reconcile")
    /\ UNCHANGED <<stages, keyLock, started, published, damages>>

Stages == {q \in Proc : stages[q] # NoDir}

QuarantineStage(q) ==
    /\ stages' = [stages EXCEPT ![q] = NoDir]
    /\ quarantined' = quarantined + 1
    /\ UNCHANGED <<entry, published>>

\* The rename that replaces nothing, with the entry absent.
PublishStage(q) ==
    /\ stages' = [stages EXCEPT ![q] = NoDir]
    /\ entry' = stages[q]
    /\ published' = published \cup ({stages[q].audio} \cap Digests)
    /\ UNCHANGED quarantined

\* Mutant: an incomplete staging directory is deleted.
ReconcileStageDeleting(p) ==
    /\ resolver[p].step = "reconcile"
    /\ \E q \in Stages :
          IF entry = NoDir /\ Whole(stages[q]) THEN PublishStage(q)
          ELSE /\ stages' = [stages EXCEPT ![q] = NoDir]
               /\ UNCHANGED <<entry, quarantined, published>>
    /\ UNCHANGED <<keyLock, started, damages, resolver>>

\* A dead process's stage becomes the entry if it is complete and there is none,
\* and evidence otherwise.
ReconcileStage(p) ==
    /\ resolver[p].step = "reconcile"
    /\ \E q \in Stages :
          IF entry = NoDir /\ Whole(stages[q]) THEN PublishStage(q) ELSE QuarantineStage(q)
    /\ UNCHANGED <<keyLock, started, damages, resolver>>

ReconcileDone(p) ==
    /\ resolver[p].step = "reconcile"
    /\ Stages = {}
    /\ IF entry # NoDir THEN LoadIn(p, "adopted") ELSE ResolveTo(p, "stage")
    /\ UNCHANGED <<directories, keyLock>>

-----------------------------------------------------------------------------
(* synthesize_transaction. *)

CreateCacheStage(p) ==
    /\ resolver[p].step = "stage"
    /\ stages' = [stages EXCEPT ![p] = [artifact |-> Absent, audio |-> Absent]]
    /\ started' = started + 1
    /\ ResolveTo(p, "produce")
    /\ UNCHANGED <<entry, keyLock, quarantined, published, damages>>

\* The worker writes the audio, the report and identity gates pass, the edges
\* are conditioned in place.  Synthesis need not be repeatable.
Produce(p) ==
    /\ resolver[p].step = "produce"
    /\ \E digest \in Digests : stages' = [stages EXCEPT ![p].audio = digest]
    /\ ResolveTo(p, "record")
    /\ UNCHANGED <<entry, keyLock, quarantined, started, published, damages>>

\* Synthesis fails, or a gate refuses what it wrote: quarantine_failed_attempt,
\* which may fail itself and leave the stage.
ProduceFails(p) ==
    /\ resolver[p].step = "produce"
    /\ \/ QuarantineStage(p)
       \/ /\ stages' = [stages EXCEPT ![p].audio = Damaged]
          /\ UNCHANGED <<entry, quarantined, published>>
    /\ EndResolve(p, "failed", Absent)
    /\ UNCHANGED <<started, damages>>

\* Mutant: the directory is renamed before its artifact record is written.
RecordAfterPublish(p) ==
    /\ resolver[p].step = "record"
    /\ ResolveTo(p, "publish")
    /\ UNCHANGED <<directories, keyLock>>

RecordArtifact(p) ==
    /\ resolver[p].step = "record"
    /\ stages' = [stages EXCEPT ![p].artifact = stages[p].audio]
    /\ ResolveTo(p, "publish")
    /\ UNCHANGED <<entry, keyLock, quarantined, started, published, damages>>

\* DestinationExists returns the winner and keeps the stage as evidence.  It is one
\* step here, because the key lock keeps it from happening (SynthesizerIsAlone).
PublishEntry(p) ==
    /\ resolver[p].step = "publish"
    /\ IF entry = NoDir
       THEN PublishStage(p) /\ LoadIn(p, "own") /\ UNCHANGED keyLock
       ELSE IF Whole(entry)
            THEN QuarantineStage(p) /\ EndResolve(p, "ok", entry.audio)
            ELSE /\ EndResolve(p, "UnusableCacheEntry", Absent)
                 /\ UNCHANGED <<entry, stages, quarantined, published>>
    /\ UNCHANGED <<started, damages>>

-----------------------------------------------------------------------------
(* Failures, kills, and damage from outside. *)

\* A read, a write, a sync or a move reports an error; what is staged stays.
ResolveFails(p) ==
    /\ resolver[p].step \notin {"start", "end"}
    /\ EndResolve(p, "failed", Absent)
    /\ UNCHANGED directories

KillResolver(p) ==
    /\ resolver[p].step \notin {"start", "end"}
    /\ EndResolve(p, "killed", Absent)
    /\ UNCHANGED directories

\* A disk or a person spoils a file of a published entry: its bytes, or what makes
\* artifact.json acceptable.  The audio stays in its place, so that HashAudio can
\* only miss it when the program itself has moved the directory.
Damage ==
    /\ entry # NoDir /\ Whole(entry)
    /\ damages < MaxDamage
    /\ damages' = damages + 1
    /\ entry' \in {[entry EXCEPT !.audio = Damaged], [entry EXCEPT !.artifact = Absent]}
    /\ UNCHANGED <<stages, keyLock, quarantined, started, published, resolver>>

ResolveStepOf(p) ==
    \/ StartResolve(p) \/ ReadArtifact(p) \/ ReadSamples(p) \/ HashAudio(p)
    \/ TakeKeyLock(p) \/ KeyLockTimeout(p) \/ LookAgain(p) \/ QuarantineEntry(p)
    \/ ReconcileStage(p) \/ ReconcileDone(p)
    \/ CreateCacheStage(p) \/ Produce(p) \/ RecordArtifact(p) \/ PublishEntry(p)

CacheNext ==
    \/ \E p \in Proc :
          ResolveStepOf(p) \/ ProduceFails(p) \/ ResolveFails(p) \/ KillResolver(p)
    \/ Damage

CacheSpec == CacheInit /\ [][CacheNext]_cacheVars

-----------------------------------------------------------------------------
(* What the cache promises. *)

\* A resolve that succeeds returns audio that was published whole under the key,
\* whatever was moved, replaced or damaged between its three reads.
HitWasPublished ==
    \A p \in Proc : resolver[p].outcome = "ok" => resolver[p].got \in published

\* A live synthesizer's stage is nobody else's: reconcile_stages, which takes every
\* stage of the key for a dead process's, only ever meets those; and no entry appears
\* while it works, so that nothing is synthesized twice.
SynthesizerIsAlone ==
    \A p \in Proc :
        resolver[p].step \in {"produce", "record", "publish"} =>
            stages[p] # NoDir /\ keyLock = p /\ entry = NoDir

\* ADR-0001 12.6: nothing is overwritten or deleted.  Every staging directory ever
\* created is still staged, is the entry, or is in quarantine.
NoCacheEvidenceLost ==
    started = Cardinality(Stages) + quarantined + (IF entry = NoDir THEN 0 ELSE 1)

\* A reader without a lock sees the abstract store: entries appear whole, are never
\* changed or moved while whole, and are replaced after damage only.
Content ==
    IF entry = NoDir THEN NoDir ELSE IF Whole(entry) THEN entry.audio ELSE Damaged
EntryStore == INSTANCE CacheStore WITH Nothing <- NoDir, Broken <- Damaged, content <- Content
ImplementsCacheStore == EntryStore!CacheStoreSpec

\* load_validated's comment: an entry that cannot be used is refused with
\* UnusableCacheEntry, on which resolve relies to go on to the key lock.
LoadRefusesAsUnusable == \A p \in Proc : resolver[p].outcome # "FileSystem"
=============================================================================
