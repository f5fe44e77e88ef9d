------------------------- MODULE SegmentCacheProofs -------------------------
(***************************************************************************)
(* Theorems about SegmentCache, for any number of processes and digests    *)
(* and any amount of damage: whoever works on the key holds its lock, so a *)
(* live synthesizer's stage stays, and what a resolve returns was          *)
(* published whole.  What a load under the lock knows of the entry gives   *)
(* the refinement of CacheStore, and an account of every directory.        *)
(***************************************************************************)
EXTENDS SegmentCache, TLAPS, FiniteSetTheorems

Reading(p) == resolver[p].step \in {"artifact", "samples", "hash"}

\* p is at a step that resolve takes under the key lock.
UnderLock(p) ==
    \/ resolver[p].step \in {"look", "quarantine", "reconcile", "stage", "produce",
                             "record", "publish"}
    \/ Reading(p) /\ resolver[p].phase # "free"

\* p has made a stage and not yet settled it.
OwnsStage(p) == resolver[p].step \in {"produce", "record", "publish"}

\* Whoever is at such a step holds the lock.
LockIsHeld == \A p \in Proc : UnderLock(p) => keyLock = p

\* An owner's stage is there, and what is about to be recorded is a producer's.
OwnersHaveStages ==
    \A p \in Proc :
        /\ OwnsStage(p) => stages[p] # NoDir
        /\ resolver[p].step = "record" => stages[p].audio \in Digests

\* No entry appears once reconciliation has ended without one.
NoEntryMeanwhile ==
    \A p \in Proc : resolver[p].step = "stage" \/ OwnsStage(p) => entry = NoDir

\* Damage aside, the audio of an entry is audio that was published.
EntryIsPublished ==
    entry # NoDir /\ entry.audio \in Digests => entry.audio \in published

\* What a resolve returns was published.
ResultIsPublished ==
    \A p \in Proc :
        resolver[p].outcome = "ok" => resolver[p].got \in published

CacheInv ==
    CacheTypeOK /\ LockIsHeld /\ OwnersHaveStages /\ NoEntryMeanwhile
    /\ EntryIsPublished /\ ResultIsPublished

-----------------------------------------------------------------------------
(* The invariant, action by action. *)

\* Nothing is there, and nobody has begun.
LEMMA InitHolds == CacheInit => CacheInv
  BY DigestAssumption, NoDirAssumption
     DEF CacheInit, CacheInv, CacheTypeOK, LockIsHeld, OwnersHaveStages,
         NoEntryMeanwhile, EntryIsPublished, ResultIsPublished, UnderLock, OwnsStage, Reading, Resolver,
         ResolveStep, Phase, ResolveOutcome

\* A resolve that ends keeps the types of the lock and of its locals.
LEMMA EndResolveTyped ==
  ASSUME CacheTypeOK, NEW p \in Proc, NEW outcome \in ResolveOutcome,
         NEW digest \in Digests \cup {Absent}, EndResolve(p, outcome, digest)
  PROVE  keyLock' \in Proc \cup {Nobody} /\ resolver' \in [Proc -> Resolver]
  <1> DEFINE ended == [resolver[p] EXCEPT !.step = "end", !.outcome = outcome, !.got = digest]
  <1>1. resolver[p] \in Resolver BY DEF CacheTypeOK
  <1>2. ended \in Resolver BY <1>1 DEF Resolver, ResolveStep
  <1>3. resolver' = [resolver EXCEPT ![p] = ended] BY DEF EndResolve
  <1>4. resolver' \in [Proc -> Resolver] BY <1>2, <1>3 DEF CacheTypeOK
  <1> QED BY <1>4 DEF EndResolve, CacheTypeOK

\* The load without the lock begins, or the lock is next: p holds nothing yet.
LEMMA StartResolveKeeps ==
  ASSUME CacheInv, NEW p \in Proc, StartResolve(p) PROVE CacheInv'
  <1>1. CacheTypeOK'
    BY DEF StartResolve, LoadIn, ResolveTo, directories, CacheInv, CacheTypeOK,
           Resolver, ResolveStep, Phase
  <1>2. LockIsHeld'
    BY DEF StartResolve, LoadIn, ResolveTo, CacheInv, CacheTypeOK, LockIsHeld,
           UnderLock, Reading, Resolver
  <1>3. OwnersHaveStages'
    BY DEF StartResolve, LoadIn, ResolveTo, directories, CacheInv, CacheTypeOK,
           OwnersHaveStages, OwnsStage, Reading, Resolver
  <1>4. EntryIsPublished'
    BY DEF StartResolve, directories, CacheInv, EntryIsPublished
  <1>5. ResultIsPublished'
    BY DEF StartResolve, LoadIn, ResolveTo, directories, CacheInv, CacheTypeOK,
           ResultIsPublished, Resolver
  <1>6. NoEntryMeanwhile'
    BY DEF StartResolve, LoadIn, directories, CacheInv, CacheTypeOK, NoEntryMeanwhile,
           OwnsStage, Resolver
  <1> QED BY <1>1, <1>2, <1>3, <1>4, <1>5, <1>6 DEF CacheInv

\* A read changes nothing on disk; what it leads to is as much under the lock as it.
LEMMA ReadArtifactKeeps ==
  ASSUME CacheInv, NEW p \in Proc, ReadArtifact(p) PROVE CacheInv'
  <1>1. CacheTypeOK'
    BY NoDirAssumption
       DEF ReadArtifact, Unusable, directories, EndResolve, ResolveTo, CacheInv,
           CacheTypeOK, Resolver, ResolveStep
  <1>2. LockIsHeld'
    BY DEF ReadArtifact, Unusable, EndResolve, ResolveTo, CacheInv, CacheTypeOK,
           LockIsHeld, UnderLock, Reading, Resolver
  <1>3. OwnersHaveStages'
    BY DigestAssumption
       DEF ReadArtifact, Unusable, directories, EndResolve, ResolveTo, CacheInv,
           CacheTypeOK, OwnersHaveStages, OwnsStage, Reading, Resolver
  <1>4. EntryIsPublished'
    BY DEF ReadArtifact, directories, CacheInv, EntryIsPublished
  <1>5. ResultIsPublished'
    BY DEF ReadArtifact, Unusable, directories, EndResolve, ResolveTo, CacheInv,
           CacheTypeOK, ResultIsPublished, Resolver
  <1>6. NoEntryMeanwhile'
    BY DEF ReadArtifact, Unusable, directories, EndResolve, ResolveTo, CacheInv,
           CacheTypeOK, NoEntryMeanwhile, OwnsStage, Resolver
  <1> QED BY <1>1, <1>2, <1>3, <1>4, <1>5, <1>6 DEF CacheInv

\* As ReadArtifact.
LEMMA ReadSamplesKeeps ==
  ASSUME CacheInv, NEW p \in Proc, ReadSamples(p) PROVE CacheInv'
  <1>1. CacheTypeOK'
    BY DEF ReadSamples, Unusable, ResolveTo, directories, EndResolve, CacheInv,
           CacheTypeOK, Resolver, ResolveStep
  <1>2. LockIsHeld'
    BY DEF ReadSamples, Unusable, ResolveTo, EndResolve, CacheInv, CacheTypeOK,
           LockIsHeld, UnderLock, Reading, Resolver
  <1>3. OwnersHaveStages'
    BY DEF ReadSamples, Unusable, ResolveTo, directories, EndResolve, CacheInv,
           CacheTypeOK, OwnersHaveStages, OwnsStage, Reading, Resolver
  <1>4. EntryIsPublished'
    BY DEF ReadSamples, directories, CacheInv, EntryIsPublished
  <1>5. ResultIsPublished'
    BY DEF ReadSamples, Unusable, EndResolve, ResolveTo, directories, CacheInv,
           CacheTypeOK, ResultIsPublished, Resolver
  <1>6. NoEntryMeanwhile'
    BY DEF ReadSamples, Unusable, ResolveTo, directories, EndResolve, CacheInv,
           CacheTypeOK, NoEntryMeanwhile, OwnsStage, Resolver
  <1> QED BY <1>1, <1>2, <1>3, <1>4, <1>5, <1>6 DEF CacheInv

\* The digest read is the recorded one, which is no Damaged, so it was published.
LEMMA HashAudioKeeps ==
  ASSUME CacheInv, NEW p \in Proc, HashAudio(p) PROVE CacheInv'
  <1>1. CacheTypeOK'
    BY DEF HashAudio, Unusable, EndResolve, directories, ResolveTo, CacheInv,
           CacheTypeOK, Resolver, ResolveStep
  <1>2. LockIsHeld'
    BY DEF HashAudio, Unusable, EndResolve, ResolveTo, CacheInv, CacheTypeOK,
           LockIsHeld, UnderLock, Reading, Resolver
  <1>3. OwnersHaveStages'
    BY DEF HashAudio, Unusable, EndResolve, directories, ResolveTo, CacheInv,
           CacheTypeOK, OwnersHaveStages, OwnsStage, Reading, Resolver
  <1>4. EntryIsPublished'
    BY DEF HashAudio, directories, CacheInv, EntryIsPublished
  <1>5. ResultIsPublished'
    BY DEF HashAudio, Unusable, EndResolve, directories, ResolveTo, CacheInv,
           CacheTypeOK, EntryIsPublished, ResultIsPublished, Resolver
  <1>6. NoEntryMeanwhile'
    BY DEF HashAudio, Unusable, EndResolve, directories, ResolveTo, CacheInv, CacheTypeOK,
           NoEntryMeanwhile, OwnsStage, Resolver
  <1> QED BY <1>1, <1>2, <1>3, <1>4, <1>5, <1>6 DEF CacheInv

\* Nobody held the lock, so nobody else was under it.
LEMMA TakeKeyLockKeeps ==
  ASSUME CacheInv, NEW p \in Proc, TakeKeyLock(p) PROVE CacheInv'
  <1>1. CacheTypeOK'
    BY DEF TakeKeyLock, ResolveTo, directories, CacheInv, CacheTypeOK, Resolver,
           ResolveStep
  <1>2. LockIsHeld'
    BY DigestAssumption
       DEF TakeKeyLock, ResolveTo, CacheInv, LockIsHeld, UnderLock, Reading
  <1>3. OwnersHaveStages'
    BY DEF TakeKeyLock, ResolveTo, directories, CacheInv, OwnersHaveStages, OwnsStage,
           Reading
  <1>4. EntryIsPublished'
    BY DEF TakeKeyLock, directories, CacheInv, EntryIsPublished
  <1>5. ResultIsPublished'
    BY DEF TakeKeyLock, ResolveTo, directories, CacheInv, ResultIsPublished
  <1>6. NoEntryMeanwhile'
    BY DEF TakeKeyLock, ResolveTo, directories, CacheInv, NoEntryMeanwhile, OwnsStage
  <1> QED BY <1>1, <1>2, <1>3, <1>4, <1>5, <1>6 DEF CacheInv

\* p leaves without having held anything.
LEMMA KeyLockTimeoutKeeps ==
  ASSUME CacheInv, NEW p \in Proc, KeyLockTimeout(p) PROVE CacheInv'
  <1>1. CacheTypeOK'
    <2>1. EndResolve(p, "CacheLockTimeout", Absent)
      BY DEF KeyLockTimeout
    <2>2. "CacheLockTimeout" \in ResolveOutcome
      BY DEF ResolveOutcome
    <2>3. Absent \in Digests \cup {Absent}
      OBVIOUS
    <2>4. keyLock' \in Proc \cup {Nobody} /\ resolver' \in [Proc -> Resolver]
      BY <2>1, <2>2, EndResolveTyped DEF CacheInv
    <2> QED
      BY <2>4 DEF CacheInv, CacheTypeOK, KeyLockTimeout, directories
  <1>2. LockIsHeld'
    BY DEF KeyLockTimeout, EndResolve, CacheInv, CacheTypeOK, LockIsHeld, UnderLock,
           Reading
  <1>3. OwnersHaveStages'
    BY DEF KeyLockTimeout, EndResolve, directories, CacheInv, CacheTypeOK,
           OwnersHaveStages, OwnsStage, Reading
  <1>4. EntryIsPublished'
    BY DEF KeyLockTimeout, directories, CacheInv, EntryIsPublished
  <1>5. ResultIsPublished'
    BY DEF KeyLockTimeout, EndResolve, directories, CacheInv, CacheTypeOK,
           ResultIsPublished
  <1>6. NoEntryMeanwhile'
    BY DEF KeyLockTimeout, EndResolve, directories, CacheInv, CacheTypeOK,
           NoEntryMeanwhile, OwnsStage
  <1> QED BY <1>1, <1>2, <1>3, <1>4, <1>5, <1>6 DEF CacheInv

\* A load under the lock, or the reconciliation.
LEMMA LookAgainKeeps ==
  ASSUME CacheInv, NEW p \in Proc, LookAgain(p) PROVE CacheInv'
  <1>1. CacheTypeOK'
    BY DEF LookAgain, LoadIn, ResolveTo, directories, CacheInv, CacheTypeOK, Resolver,
           ResolveStep
  <1>2. LockIsHeld'
    BY DEF LookAgain, LoadIn, ResolveTo, CacheInv, CacheTypeOK, LockIsHeld, UnderLock,
           Reading
  <1>3. OwnersHaveStages'
    BY DEF LookAgain, LoadIn, ResolveTo, CacheInv, CacheTypeOK, LockIsHeld, UnderLock,
           OwnersHaveStages, OwnsStage, Reading, Resolver
  <1>4. EntryIsPublished'
    BY DEF LookAgain, directories, CacheInv, EntryIsPublished
  <1>5. ResultIsPublished'
    BY DEF LookAgain, LoadIn, ResolveTo, directories, CacheInv, CacheTypeOK,
           ResultIsPublished, Resolver
  <1>6. NoEntryMeanwhile'
    BY DEF LookAgain, LoadIn, directories, CacheInv, CacheTypeOK, NoEntryMeanwhile,
           OwnsStage, Resolver
  <1> QED BY <1>1, <1>2, <1>3, <1>4, <1>5, <1>6 DEF CacheInv

\* No entry is no claim about its audio.
LEMMA QuarantineEntryKeeps ==
  ASSUME CacheInv, NEW p \in Proc, QuarantineEntry(p) PROVE CacheInv'
  <1>1. CacheTypeOK'
    BY DEF QuarantineEntry, ResolveTo, CacheInv, CacheTypeOK, Resolver, ResolveStep
  <1>2. LockIsHeld'
    BY DEF QuarantineEntry, ResolveTo, CacheInv, LockIsHeld, UnderLock, Reading
  <1>3. OwnersHaveStages'
    BY DEF QuarantineEntry, ResolveTo, CacheInv, OwnersHaveStages, OwnsStage, Reading
  <1>4. EntryIsPublished'
    BY DEF QuarantineEntry, EntryIsPublished
  <1>5. ResultIsPublished'
    BY DEF QuarantineEntry, ResolveTo, CacheInv, ResultIsPublished
  <1>6. NoEntryMeanwhile'
    BY DEF QuarantineEntry, NoEntryMeanwhile
  <1> QED BY <1>1, <1>2, <1>3, <1>4, <1>5, <1>6 DEF CacheInv

\* p holds the lock, so the stage it settles has no live owner.
LEMMA ReconcileStageKeeps ==
  ASSUME CacheInv, NEW p \in Proc, ReconcileStage(p) PROVE CacheInv'
  <1>1. CacheTypeOK'
    BY DEF ReconcileStage, QuarantineStage, PublishStage, Stages, CacheInv, CacheTypeOK
  <1>2. LockIsHeld'
    BY DEF ReconcileStage, CacheInv, LockIsHeld, UnderLock, Reading
  <1>3. OwnersHaveStages'
    BY DEF ReconcileStage, CacheInv, LockIsHeld, UnderLock, OwnersHaveStages, OwnsStage,
           Reading
  <1>4. EntryIsPublished'
    BY DEF ReconcileStage, QuarantineStage, PublishStage, CacheInv, EntryIsPublished
  <1>5. ResultIsPublished'
    BY DEF ReconcileStage, QuarantineStage, PublishStage, CacheInv, ResultIsPublished
  <1>6. NoEntryMeanwhile'
    BY DEF ReconcileStage, CacheInv, NoEntryMeanwhile, LockIsHeld, UnderLock, OwnsStage
  <1> QED BY <1>1, <1>2, <1>3, <1>4, <1>5, <1>6 DEF CacheInv

\* p adopts the entry, or is about to make its stage.
LEMMA ReconcileDoneKeeps ==
  ASSUME CacheInv, NEW p \in Proc, ReconcileDone(p) PROVE CacheInv'
  <1>1. CacheTypeOK'
    BY DEF ReconcileDone, LoadIn, ResolveTo, directories, CacheInv, CacheTypeOK,
           Resolver, ResolveStep
  <1>2. LockIsHeld'
    BY DEF ReconcileDone, LoadIn, ResolveTo, CacheInv, CacheTypeOK, LockIsHeld,
           UnderLock, Reading
  <1>3. OwnersHaveStages'
    BY DEF ReconcileDone, LoadIn, ResolveTo, CacheInv, CacheTypeOK, LockIsHeld,
           UnderLock, OwnersHaveStages, OwnsStage, Reading, Resolver
  <1>4. EntryIsPublished'
    BY DEF ReconcileDone, directories, CacheInv, EntryIsPublished
  <1>5. ResultIsPublished'
    BY DEF ReconcileDone, LoadIn, ResolveTo, directories, CacheInv, CacheTypeOK,
           ResultIsPublished, Resolver
  <1>6. NoEntryMeanwhile'
    BY DEF ReconcileDone, LoadIn, directories, CacheInv, CacheTypeOK, NoEntryMeanwhile,
           OwnsStage, Resolver
  <1> QED BY <1>1, <1>2, <1>3, <1>4, <1>5, <1>6 DEF CacheInv

\* p owns a stage from here on.
LEMMA CreateCacheStageKeeps ==
  ASSUME CacheInv, NEW p \in Proc, CreateCacheStage(p) PROVE CacheInv'
  <1>1. CacheTypeOK'
    BY DEF CreateCacheStage, ResolveTo, CacheInv, CacheTypeOK, Resolver, ResolveStep,
           Directory
  <1>2. LockIsHeld'
    BY DEF CreateCacheStage, ResolveTo, CacheInv, LockIsHeld, UnderLock, Reading
  <1>3. OwnersHaveStages'
    BY NoDirAssumption
       DEF CreateCacheStage, ResolveTo, CacheInv, CacheTypeOK, OwnersHaveStages,
           OwnsStage, Reading, Directory
  <1>4. EntryIsPublished'
    BY DEF CreateCacheStage, CacheInv, EntryIsPublished
  <1>5. ResultIsPublished'
    BY DEF CreateCacheStage, ResolveTo, CacheInv, ResultIsPublished
  <1>6. NoEntryMeanwhile'
    BY DEF CreateCacheStage, CacheInv, NoEntryMeanwhile
  <1> QED BY <1>1, <1>2, <1>3, <1>4, <1>5, <1>6 DEF CacheInv

\* The audio in the stage is a producer's.
LEMMA ProduceKeeps ==
  ASSUME CacheInv, NEW p \in Proc, Produce(p) PROVE CacheInv'
  <1>1. CacheTypeOK'
    <2>1. stages[p] \in Directory
      BY DEF Produce, CacheInv, CacheTypeOK, OwnersHaveStages, OwnsStage
    <2>2. PICK digest \in Digests : stages' = [stages EXCEPT ![p].audio = digest]
      BY DEF Produce
    <2>3. [stages[p] EXCEPT !.audio = digest] \in Directory
      BY <2>1, <2>2 DEF Directory
    <2>4. stages' \in [Proc -> Directory \cup {NoDir}]
      BY <2>2, <2>3 DEF CacheInv, CacheTypeOK
    <2>5. resolver' \in [Proc -> Resolver]
      BY DEF Produce, ResolveTo, CacheInv, CacheTypeOK, Resolver, ResolveStep
    <2> QED BY <2>4, <2>5 DEF Produce, CacheInv, CacheTypeOK
  <1>2. LockIsHeld'
    BY DEF Produce, ResolveTo, CacheInv, LockIsHeld, UnderLock, Reading
  <1>3. OwnersHaveStages'
    BY NoDirAssumption
       DEF Produce, ResolveTo, CacheInv, CacheTypeOK, OwnersHaveStages, OwnsStage,
           Reading, Directory
  <1>4. EntryIsPublished'
    BY DEF Produce, CacheInv, EntryIsPublished
  <1>5. ResultIsPublished'
    BY DEF Produce, ResolveTo, CacheInv, ResultIsPublished
  <1>6. NoEntryMeanwhile'
    BY DEF Produce, CacheInv, NoEntryMeanwhile, OwnsStage
  <1> QED BY <1>1, <1>2, <1>3, <1>4, <1>5, <1>6 DEF CacheInv

\* p settles or leaves its stage, and ends.
LEMMA ProduceFailsKeeps ==
  ASSUME CacheInv, NEW p \in Proc, ProduceFails(p) PROVE CacheInv'
  <1>1. CacheTypeOK'
    <2>1. EndResolve(p, "failed", Absent)
      BY DEF ProduceFails
    <2>2. "failed" \in ResolveOutcome
      BY DEF ResolveOutcome
    <2>3. Absent \in Digests \cup {Absent}
      OBVIOUS
    <2>4. keyLock' \in Proc \cup {Nobody} /\ resolver' \in [Proc -> Resolver]
      BY <2>1, <2>2, EndResolveTyped DEF CacheInv
    <2> QED
      BY <2>4
         DEF CacheInv, CacheTypeOK, OwnersHaveStages, OwnsStage, Directory,
             ProduceFails, QuarantineStage
  <1>2. LockIsHeld'
    BY DEF ProduceFails, EndResolve, CacheInv, CacheTypeOK, LockIsHeld, UnderLock,
           Reading
  <1>3. OwnersHaveStages'
    BY DEF ProduceFails, EndResolve, CacheInv, CacheTypeOK, LockIsHeld, UnderLock,
           OwnersHaveStages, OwnsStage, Reading
  <1>4. EntryIsPublished'
    BY DEF ProduceFails, QuarantineStage, CacheInv, EntryIsPublished
  <1>5. ResultIsPublished'
    BY DEF ProduceFails, EndResolve, QuarantineStage, CacheInv, CacheTypeOK,
           ResultIsPublished
  <1>6. NoEntryMeanwhile'
    BY DEF ProduceFails, QuarantineStage, CacheInv, NoEntryMeanwhile, OwnsStage
  <1> QED BY <1>1, <1>2, <1>3, <1>4, <1>5, <1>6 DEF CacheInv

\* The record describes the audio that Produce wrote.
LEMMA RecordArtifactKeeps ==
  ASSUME CacheInv, NEW p \in Proc, RecordArtifact(p) PROVE CacheInv'
  <1>1. CacheTypeOK'
    <2> DEFINE recorded == [stages[p] EXCEPT !.artifact = stages[p].audio]
    <2>1. stages[p] \in Directory /\ stages[p].audio \in Digests
      BY DEF RecordArtifact, CacheInv, CacheTypeOK, OwnersHaveStages, OwnsStage
    <2>2. recorded \in Directory BY <2>1 DEF Directory
    <2>3. stages' = [stages EXCEPT ![p] = recorded]
      BY DEF RecordArtifact
    <2>4. stages' \in [Proc -> Directory \cup {NoDir}]
      BY <2>2, <2>3 DEF CacheInv, CacheTypeOK
    <2>5. resolver' \in [Proc -> Resolver]
      BY DEF RecordArtifact, ResolveTo, CacheInv, CacheTypeOK, Resolver, ResolveStep
    <2> QED
      BY <2>4, <2>5 DEF CacheInv, CacheTypeOK, RecordArtifact
  <1>2. LockIsHeld'
    BY DEF RecordArtifact, ResolveTo, CacheInv, LockIsHeld, UnderLock, Reading
  <1>3. OwnersHaveStages'
    BY NoDirAssumption
       DEF RecordArtifact, ResolveTo, CacheInv, CacheTypeOK, OwnersHaveStages,
           OwnsStage, Reading, Directory
  <1>4. EntryIsPublished'
    BY DEF RecordArtifact, CacheInv, EntryIsPublished
  <1>5. ResultIsPublished'
    BY DEF RecordArtifact, ResolveTo, CacheInv, ResultIsPublished
  <1>6. NoEntryMeanwhile'
    BY DEF RecordArtifact, CacheInv, NoEntryMeanwhile, OwnsStage
  <1> QED BY <1>1, <1>2, <1>3, <1>4, <1>5, <1>6 DEF CacheInv

\* There is no winner: p held the lock since it found no entry.  The stage becomes
\* the entry, and its audio published.
LEMMA PublishEntryKeeps ==
  ASSUME CacheInv, NEW p \in Proc, PublishEntry(p) PROVE CacheInv'
  <1>1. entry = NoDir /\ stages[p] # NoDir
    BY DEF PublishEntry, CacheInv, NoEntryMeanwhile, OwnersHaveStages, OwnsStage
  <1>2. PublishStage(p) /\ LoadIn(p, "own") /\ UNCHANGED <<keyLock, started, damages>>
    BY <1>1 DEF PublishEntry
  <1>3. CacheTypeOK'
    <2>1. stages[p] \in Directory
      BY <1>1 DEF CacheInv, CacheTypeOK
    <2> DEFINE reading == [resolver[p] EXCEPT !.step = "artifact", !.phase = "own"]
    <2>2. reading \in Resolver
      BY DEF CacheInv, CacheTypeOK, Resolver, ResolveStep, Phase
    <2>3. resolver' = [resolver EXCEPT ![p] = reading]
      BY <1>2 DEF LoadIn
    <2>4. resolver' \in [Proc -> Resolver]
      BY <2>2, <2>3 DEF CacheInv, CacheTypeOK
    <2> QED
      BY <1>2, <2>1, <2>4 DEF PublishStage, CacheInv, CacheTypeOK
  <1>4. LockIsHeld'
    BY <1>2 DEF PublishEntry, LoadIn, CacheInv, CacheTypeOK, LockIsHeld, UnderLock, Reading
  <1>5. OwnersHaveStages' /\ NoEntryMeanwhile'
    BY <1>2 DEF PublishEntry, LoadIn, PublishStage, CacheInv, CacheTypeOK, LockIsHeld,
                UnderLock, OwnersHaveStages, NoEntryMeanwhile, OwnsStage, Resolver
  <1>6. EntryIsPublished'
    BY <1>2 DEF PublishStage, EntryIsPublished
  <1>7. ResultIsPublished'
    BY <1>2 DEF LoadIn, PublishStage, CacheInv, CacheTypeOK, ResultIsPublished, Resolver
  <1> QED BY <1>3, <1>4, <1>5, <1>6, <1>7 DEF CacheInv

\* p ends; what it holds, it gives up.
LEMMA ResolveFailsKeeps ==
  ASSUME CacheInv, NEW p \in Proc, ResolveFails(p) PROVE CacheInv'
  <1>1. CacheTypeOK'
    <2>1. EndResolve(p, "failed", Absent)
      BY DEF ResolveFails
    <2>2. "failed" \in ResolveOutcome
      BY DEF ResolveOutcome
    <2>3. Absent \in Digests \cup {Absent}
      OBVIOUS
    <2>4. keyLock' \in Proc \cup {Nobody} /\ resolver' \in [Proc -> Resolver]
      BY <2>1, <2>2, EndResolveTyped DEF CacheInv
    <2> QED
      BY <2>4 DEF CacheInv, CacheTypeOK, ResolveFails, directories
  <1>2. LockIsHeld'
    BY DEF ResolveFails, EndResolve, CacheInv, CacheTypeOK, LockIsHeld, UnderLock,
           Reading
  <1>3. OwnersHaveStages'
    BY DEF ResolveFails, EndResolve, directories, CacheInv, CacheTypeOK,
           OwnersHaveStages, OwnsStage, Reading
  <1>4. EntryIsPublished'
    BY DEF ResolveFails, directories, CacheInv, EntryIsPublished
  <1>5. ResultIsPublished'
    BY DEF ResolveFails, EndResolve, directories, CacheInv, CacheTypeOK,
           ResultIsPublished
  <1>6. NoEntryMeanwhile'
    BY DEF ResolveFails, EndResolve, directories, CacheInv, CacheTypeOK, NoEntryMeanwhile,
           OwnsStage
  <1> QED BY <1>1, <1>2, <1>3, <1>4, <1>5, <1>6 DEF CacheInv

\* As ResolveFails.
LEMMA KillResolverKeeps ==
  ASSUME CacheInv, NEW p \in Proc, KillResolver(p) PROVE CacheInv'
  <1>1. CacheTypeOK'
    <2>1. EndResolve(p, "killed", Absent)
      BY DEF KillResolver
    <2>2. "killed" \in ResolveOutcome
      BY DEF ResolveOutcome
    <2>3. Absent \in Digests \cup {Absent}
      OBVIOUS
    <2>4. keyLock' \in Proc \cup {Nobody} /\ resolver' \in [Proc -> Resolver]
      BY <2>1, <2>2, EndResolveTyped DEF CacheInv
    <2> QED
      BY <2>4 DEF CacheInv, CacheTypeOK, KillResolver, directories
  <1>2. LockIsHeld'
    BY DEF KillResolver, EndResolve, CacheInv, CacheTypeOK, LockIsHeld, UnderLock,
           Reading
  <1>3. OwnersHaveStages'
    BY DEF KillResolver, EndResolve, directories, CacheInv, CacheTypeOK,
           OwnersHaveStages, OwnsStage, Reading
  <1>4. EntryIsPublished'
    BY DEF KillResolver, directories, CacheInv, EntryIsPublished
  <1>5. ResultIsPublished'
    BY DEF KillResolver, EndResolve, directories, CacheInv, CacheTypeOK,
           ResultIsPublished
  <1>6. NoEntryMeanwhile'
    BY DEF KillResolver, EndResolve, directories, CacheInv, CacheTypeOK, NoEntryMeanwhile,
           OwnsStage
  <1> QED BY <1>1, <1>2, <1>3, <1>4, <1>5, <1>6 DEF CacheInv

\* Damaged audio is no digest, and a spoiled record leaves the audio as it was.
LEMMA DamageKeeps == ASSUME CacheInv, Damage PROVE CacheInv'
  <1>1. CacheTypeOK'
    BY DigestAssumption DEF Damage, CacheInv, CacheTypeOK, Directory
  <1>2. LockIsHeld' /\ OwnersHaveStages' /\ NoEntryMeanwhile'
    BY DEF Damage, CacheInv, LockIsHeld, UnderLock, OwnersHaveStages, NoEntryMeanwhile,
           OwnsStage, Reading
  <1>3. EntryIsPublished' /\ ResultIsPublished'
    BY DigestAssumption, NoDirAssumption
       DEF Damage, CacheInv, CacheTypeOK, EntryIsPublished, ResultIsPublished,
           Directory
  <1> QED BY <1>1, <1>2, <1>3 DEF CacheInv

\* A step of somebody else.
LEMMA StutterKeeps == ASSUME CacheInv, UNCHANGED cacheVars PROVE CacheInv'
  BY DEF cacheVars, CacheInv, CacheTypeOK, LockIsHeld, UnderLock, OwnersHaveStages,
         NoEntryMeanwhile, OwnsStage, Reading, EntryIsPublished, ResultIsPublished

-----------------------------------------------------------------------------
(* The theorems. *)

\* Lock, stages, entry and results are in step in every reachable state.
THEOREM CacheInvariant == CacheSpec => []CacheInv
  <1>1. ASSUME CacheInv, [CacheNext]_cacheVars PROVE CacheInv'
    <2>1. CASE Damage BY <1>1, <2>1, DamageKeeps
    <2>2. CASE UNCHANGED cacheVars BY <1>1, <2>2, StutterKeeps
    <2>3. ASSUME NEW p \in Proc,
                 ResolveStepOf(p) \/ ProduceFails(p) \/ ResolveFails(p) \/ KillResolver(p)
          PROVE CacheInv'
      BY <1>1, <2>3, StartResolveKeeps, ReadArtifactKeeps, ReadSamplesKeeps,
         HashAudioKeeps, TakeKeyLockKeeps, KeyLockTimeoutKeeps, LookAgainKeeps,
         QuarantineEntryKeeps, ReconcileStageKeeps, ReconcileDoneKeeps,
         CreateCacheStageKeeps, ProduceKeeps, ProduceFailsKeeps, RecordArtifactKeeps,
         PublishEntryKeeps, ResolveFailsKeeps, KillResolverKeeps
         DEF ResolveStepOf
    <2> QED
      BY <1>1, <2>1, <2>2, <2>3 DEF CacheNext
  <1> QED BY <1>1, InitHolds, PTL DEF CacheSpec

\* Directories and locals keep their types: no artifact record ever describes audio
\* that no producer made.
THEOREM CacheTypes == CacheSpec => []CacheTypeOK
  <1>1. CacheInv => CacheTypeOK
    BY DEF CacheInv
  <1> QED BY <1>1, CacheInvariant, PTL

\* reconcile_stages never takes the staging directory of a live synthesizer, and no
\* entry appears beside its work: resolve's branch DestinationExists is not reached.
THEOREM SynthesizersAreAlone == CacheSpec => []SynthesizerIsAlone
  <1>1. CacheInv => SynthesizerIsAlone
    BY DEF CacheInv, SynthesizerIsAlone, LockIsHeld, OwnersHaveStages, NoEntryMeanwhile,
           OwnsStage, UnderLock
  <1> QED BY <1>1, CacheInvariant, PTL

\* What resolve returns was published whole under the key, with or without the lock.
THEOREM HitsWerePublished == CacheSpec => []HitWasPublished
  <1>1. CacheInv => HitWasPublished
    BY DEF CacheInv, ResultIsPublished, HitWasPublished
  <1> QED BY <1>1, CacheInvariant, PTL

-----------------------------------------------------------------------------
(* What a load under the key lock knows of the entry, and so which entries *)
(* are moved away and which stages become one.                             *)

LoadsLocked(p) == Reading(p) /\ resolver[p].phase = "locked"

\* Only damage can reach the entry while p loads it under the lock; what p is about
\* to quarantine cannot be used; what p is about to publish can.
LoadIsTrue(p) ==
    /\ LoadsLocked(p) \/ resolver[p].step = "quarantine" => entry # NoDir
    /\ LoadsLocked(p) /\ resolver[p].step # "artifact" /\ Whole(entry) =>
          entry.artifact = resolver[p].artifact
    /\ resolver[p].step = "quarantine" => ~Whole(entry)
    /\ resolver[p].step = "publish" => Whole(stages[p])

LoadInv == \A p \in Proc : LoadIsTrue(p)

\* One process at a time is under the key lock.
LEMMA OneUnderLock ==
  ASSUME CacheInv, NEW p \in Proc, NEW q \in Proc, UnderLock(p), UnderLock(q)
  PROVE  p = q
  BY DEF CacheInv, LockIsHeld

\* A step of p that leaves the directories alone leaves other loads alone.
LEMMA LookingKeepsLoads ==
  ASSUME LoadInv, NEW p \in Proc, UNCHANGED directories, LoadIsTrue(p)',
         \A q \in Proc : q # p => resolver'[q] = resolver[q]
  PROVE  LoadInv'
  BY DEF LoadInv, LoadIsTrue, LoadsLocked, Reading, directories, Whole

\* A step of p under the lock meets no other load under the lock.
LEMMA HoldingKeepsLoads ==
  ASSUME CacheInv, LoadInv, NEW p \in Proc, UnderLock(p), LoadIsTrue(p)',
         \A q \in Proc : q # p => resolver'[q] = resolver[q]
  PROVE  LoadInv'
  <1>1. \A q \in Proc : q # p => ~UnderLock(q)
    BY OneUnderLock
  <1> QED
    BY <1>1 DEF LoadInv, LoadIsTrue, LoadsLocked, Reading, UnderLock

\* A resolve that ends loads nothing.
LEMMA EndedLoadsNothing ==
  ASSUME CacheTypeOK, NEW p \in Proc, NEW outcome, NEW digest, EndResolve(p, outcome, digest)
  PROVE  LoadIsTrue(p)' /\ \A q \in Proc : q # p => resolver'[q] = resolver[q]
  BY DEF EndResolve, LoadIsTrue, LoadsLocked, Reading, CacheTypeOK, Resolver

\* Reading: what makes a load under the lock refuse the entry is not whole.
LEMMA ReadingKeepsLoads ==
  ASSUME CacheInv, LoadInv, NEW p \in Proc,
         StartResolve(p) \/ ReadArtifact(p) \/ ReadSamples(p) \/ HashAudio(p)
  PROVE  LoadInv'
  <1>1. CacheTypeOK /\ LoadIsTrue(p)
    BY DEF CacheInv, LoadInv
  <1>2. UNCHANGED directories
    BY DEF StartResolve, ReadArtifact, ReadSamples, HashAudio
  <1>3. LoadIsTrue(p)' /\ \A q \in Proc : q # p => resolver'[q] = resolver[q]
    <2>1. CASE StartResolve(p)
      BY <1>1, <2>1 DEF StartResolve, LoadIn, ResolveTo, LoadIsTrue, LoadsLocked, Reading,
                        CacheTypeOK, Resolver
    <2>2. CASE ReadArtifact(p)
      BY <1>1, <1>2, <2>2
         DEF ReadArtifact, Unusable, EndResolve, ResolveTo, LoadIsTrue, LoadsLocked, Reading,
             CacheTypeOK, Resolver, Whole, directories
    <2>3. CASE ReadSamples(p)
      BY <1>1, <1>2, <2>3, NoDirAssumption
         DEF ReadSamples, Unusable, EndResolve, ResolveTo, LoadIsTrue, LoadsLocked, Reading,
             CacheTypeOK, Resolver, Whole, directories
    <2>4. CASE HashAudio(p)
      BY <1>1, <1>2, <2>4
         DEF HashAudio, Unusable, EndResolve, ResolveTo, LoadIsTrue, LoadsLocked, Reading,
             CacheTypeOK, Resolver, Whole, directories
    <2> QED BY <2>1, <2>2, <2>3, <2>4
  <1> QED BY <1>1, <1>2, <1>3, LookingKeepsLoads

\* Waiting, looking again, ending: the entry stays.
LEMMA WaitingKeepsLoads ==
  ASSUME CacheInv, LoadInv, NEW p \in Proc,
         TakeKeyLock(p) \/ LookAgain(p) \/ ReconcileDone(p)
  PROVE  LoadInv'
  <1>1. UNCHANGED directories
    BY DEF TakeKeyLock, LookAgain, ReconcileDone
  <1>2. LoadIsTrue(p)' /\ \A q \in Proc : q # p => resolver'[q] = resolver[q]
    BY DEF TakeKeyLock, LookAgain, ReconcileDone, LoadIn, ResolveTo, LoadIsTrue,
           LoadsLocked, Reading, CacheInv, CacheTypeOK, Resolver, directories
  <1> QED BY <1>1, <1>2, LookingKeepsLoads

\* A timeout, a failure or a kill.
LEMMA EndingKeepsLoads ==
  ASSUME CacheInv, LoadInv, NEW p \in Proc,
         KeyLockTimeout(p) \/ ResolveFails(p) \/ KillResolver(p)
  PROVE  LoadInv'
  <1>1. UNCHANGED directories
    BY DEF KeyLockTimeout, ResolveFails, KillResolver
  <1>2. PICK outcome \in ResolveOutcome : EndResolve(p, outcome, Absent)
    BY DEF KeyLockTimeout, ResolveFails, KillResolver, ResolveOutcome
  <1>3. LoadIsTrue(p)' /\ \A q \in Proc : q # p => resolver'[q] = resolver[q]
    BY <1>2, EndedLoadsNothing DEF CacheInv
  <1> QED BY <1>1, <1>3, LookingKeepsLoads

\* The transaction under the lock: the record that is written makes the stage whole.
LEMMA WorkingKeepsLoads ==
  ASSUME CacheInv, LoadInv, NEW p \in Proc,
         \/ QuarantineEntry(p) \/ ReconcileStage(p) \/ CreateCacheStage(p) \/ Produce(p)
         \/ ProduceFails(p) \/ RecordArtifact(p) \/ PublishEntry(p)
  PROVE  LoadInv'
  <1>1. CacheTypeOK /\ LoadIsTrue(p)
    BY DEF CacheInv, LoadInv
  <1>2. UnderLock(p)
    BY DEF UnderLock, QuarantineEntry, ReconcileStage, CreateCacheStage, Produce,
           ProduceFails, RecordArtifact, PublishEntry
  <1>3. LoadIsTrue(p)' /\ \A q \in Proc : q # p => resolver'[q] = resolver[q]
    <2>1. CASE QuarantineEntry(p) \/ CreateCacheStage(p) \/ Produce(p)
      BY <1>1, <2>1 DEF QuarantineEntry, CreateCacheStage, Produce, ResolveTo, LoadIsTrue,
                        LoadsLocked, Reading, CacheTypeOK, Resolver
    <2>2. CASE ReconcileStage(p)
      BY <1>1, <2>2 DEF ReconcileStage, LoadIsTrue, LoadsLocked, Reading
    <2>3. CASE ProduceFails(p)
      BY <1>1, <2>3, EndedLoadsNothing DEF ProduceFails
    <2>4. CASE RecordArtifact(p)
      <3>1. stages[p] \in Directory /\ stages[p].audio \in Digests
        BY <1>1, <2>4 DEF RecordArtifact, CacheInv, CacheTypeOK, OwnersHaveStages, OwnsStage
      <3>2. Whole(stages'[p])
        BY <1>1, <2>4, <3>1, DigestAssumption DEF RecordArtifact, Whole, Directory, CacheTypeOK
      <3> QED
        BY <1>1, <2>4, <3>2
           DEF RecordArtifact, ResolveTo, LoadIsTrue, LoadsLocked, Reading, CacheTypeOK,
               Resolver
    <2>5. CASE PublishEntry(p)
      <3>1. entry = NoDir
        BY <2>5 DEF PublishEntry, CacheInv, NoEntryMeanwhile, OwnsStage
      <3>2. LoadIn(p, "own")
        BY <2>5, <3>1 DEF PublishEntry
      <3> QED
        BY <1>1, <3>2 DEF LoadIn, LoadIsTrue, LoadsLocked, Reading, CacheTypeOK, Resolver
    <2> QED BY <2>1, <2>2, <2>3, <2>4, <2>5, <1>2
  <1> QED BY <1>1, <1>2, <1>3, HoldingKeepsLoads

\* A damaged entry is there, and not whole.
LEMMA DamageKeepsLoads == ASSUME CacheInv, LoadInv, Damage PROVE LoadInv'
  <1>1. entry \in Directory /\ entry.artifact \in Digests /\ entry.audio = entry.artifact
    BY DEF Damage, Whole, CacheInv, CacheTypeOK, Directory
  <1>2. entry' \in Directory /\ ~Whole(entry')
    BY <1>1, DigestAssumption DEF Damage, Whole, Directory
  <1> QED
    BY <1>2, NoDirAssumption DEF Damage, LoadInv, LoadIsTrue, LoadsLocked, Reading

\* Every step keeps what the loads know.
LEMMA NextKeepsLoads == ASSUME CacheInv, LoadInv, [CacheNext]_cacheVars PROVE LoadInv'
  <1>1. CASE Damage BY <1>1, DamageKeepsLoads
  <1>2. CASE UNCHANGED cacheVars
    BY <1>2 DEF cacheVars, LoadInv, LoadIsTrue, LoadsLocked, Reading
  <1>3. ASSUME NEW p \in Proc,
               ResolveStepOf(p) \/ ProduceFails(p) \/ ResolveFails(p) \/ KillResolver(p)
        PROVE LoadInv'
    BY <1>3, ReadingKeepsLoads, WaitingKeepsLoads, EndingKeepsLoads, WorkingKeepsLoads
       DEF ResolveStepOf
  <1> QED BY <1>1, <1>2, <1>3 DEF CacheNext

-----------------------------------------------------------------------------
(* The abstract store. *)

\* What a reader without the lock sees of a directory.
LEMMA ContentOfDirectories ==
  ASSUME CacheTypeOK
  PROVE  /\ entry # NoDir /\ Whole(entry) => Content \in Digests
         /\ entry # NoDir /\ ~Whole(entry) => Content = Damaged
         /\ entry = NoDir => Content = NoDir
  BY DEF CacheTypeOK, Whole, Content, Directory

\* A whole stage becomes an entry that appears whole.
LEMMA PublishingAppears ==
  ASSUME CacheTypeOK, NEW q \in Proc, stages[q] # NoDir, Whole(stages[q]), entry = NoDir,
         PublishStage(q)
  PROVE  EntryStore!Appear
  <1>1. entry' = stages[q] /\ stages[q] \in Directory /\ stages[q].audio \in Digests
    BY DEF PublishStage, CacheTypeOK, Whole, Directory
  <1>2. Content' = stages[q].audio
    BY <1>1, NoDirAssumption DEF Content, Whole
  <1> QED BY <1>1, <1>2 DEF EntryStore!Appear, Content

\* Every step is one of the abstract store's, or changes nothing a reader sees.
LEMMA NextRefinesStore ==
  ASSUME CacheInv, LoadInv, [CacheNext]_cacheVars
  PROVE  [EntryStore!Appear \/ EntryStore!Rot \/ EntryStore!Retire]_Content
  <1>1. CASE UNCHANGED entry
    BY <1>1 DEF Content, Whole
  <1>2. CASE Damage
    <2>1. entry # NoDir /\ Content \in Digests /\ entry.artifact \in Digests
      BY <1>2 DEF Damage, CacheInv, CacheTypeOK, Whole, Content, Directory
    <2>2. entry' \in Directory /\ ~Whole(entry')
      BY <1>2, <2>1, DigestAssumption DEF Damage, CacheInv, CacheTypeOK, Whole, Directory
    <2>3. Content' = Damaged
      BY <2>2, NoDirAssumption DEF Content, Whole
    <2> QED BY <2>1, <2>3 DEF EntryStore!Rot
  <1>3. ASSUME NEW p \in Proc, QuarantineEntry(p)
        PROVE  EntryStore!Retire
    BY <1>3 DEF QuarantineEntry, LoadInv, LoadIsTrue, EntryStore!Retire, Content
  <1>4. ASSUME NEW p \in Proc, ReconcileStage(p)
        PROVE  EntryStore!Appear \/ UNCHANGED Content
    BY <1>4, PublishingAppears
       DEF ReconcileStage, Stages, QuarantineStage, CacheInv, Content, Whole
  <1>5. ASSUME NEW p \in Proc, PublishEntry(p)
        PROVE  EntryStore!Appear
    BY <1>5, PublishingAppears
       DEF PublishEntry, CacheInv, NoEntryMeanwhile, OwnersHaveStages, OwnsStage, LoadInv,
           LoadIsTrue
  <1>6. \/ UNCHANGED entry \/ Damage
        \/ \E p \in Proc : QuarantineEntry(p) \/ ReconcileStage(p) \/ PublishEntry(p)
    BY DEF CacheNext, cacheVars, ResolveStepOf, StartResolve, ReadArtifact, ReadSamples,
           HashAudio, TakeKeyLock, KeyLockTimeout, LookAgain, ReconcileDone,
           CreateCacheStage, Produce, ProduceFails, QuarantineStage, RecordArtifact,
           ResolveFails, KillResolver, directories
  <1> QED BY <1>1, <1>2, <1>3, <1>4, <1>5, <1>6

-----------------------------------------------------------------------------
(* Where every staging directory went. *)

\* Whoever is about to make a stage has found none, and nobody else makes one.
NoStageYet == \A p \in Proc : resolver[p].step = "stage" => Stages = {}

StageInv == IsFiniteSet(Stages) /\ NoStageYet /\ NoCacheEvidenceLost

\* One stage less.
LEMMA CacheStageGoes ==
  ASSUME CacheTypeOK, IsFiniteSet(Stages), NEW q \in Proc, stages[q] # NoDir,
         stages' = [stages EXCEPT ![q] = NoDir]
  PROVE  /\ IsFiniteSet(Stages') /\ Cardinality(Stages) \in Nat
         /\ Cardinality(Stages') \in Nat /\ Cardinality(Stages') = Cardinality(Stages) - 1
         /\ Stages' \subseteq Stages
  <1>1. Stages' = Stages \ {q} /\ q \in Stages
    BY DEF CacheTypeOK, Stages
  <1> QED
    BY <1>1, FS_RemoveElement, FS_CardinalityType

\* A stage that is moved away is in quarantine, or is the entry.
LEMMA MovingKeepsEvidence ==
  ASSUME CacheInv, StageInv, NEW q \in Proc, stages[q] # NoDir, UNCHANGED started,
         \/ QuarantineStage(q)
         \/ entry = NoDir /\ PublishStage(q)
  PROVE  IsFiniteSet(Stages') /\ Stages' \subseteq Stages /\ NoCacheEvidenceLost'
  <1>1. stages' = [stages EXCEPT ![q] = NoDir]
    BY DEF QuarantineStage, PublishStage
  <1>2. /\ IsFiniteSet(Stages') /\ Cardinality(Stages) \in Nat
        /\ Cardinality(Stages') \in Nat /\ Cardinality(Stages') = Cardinality(Stages) - 1
        /\ Stages' \subseteq Stages
    BY <1>1, CacheStageGoes DEF CacheInv, StageInv
  <1>3. CASE QuarantineStage(q)
    BY <1>2, <1>3 DEF QuarantineStage, StageInv, NoCacheEvidenceLost, CacheInv, CacheTypeOK
  <1>4. CASE entry = NoDir /\ PublishStage(q)
    BY <1>2, <1>4 DEF PublishStage, StageInv, NoCacheEvidenceLost, CacheInv, CacheTypeOK
  <1> QED BY <1>2, <1>3, <1>4

\* The stages that are there stay there, and nothing else moves.
LEMMA KeptStagesKeepEvidence ==
  ASSUME StageInv, Stages' = Stages, UNCHANGED <<quarantined, started>>,
         entry = NoDir <=> entry' = NoDir
  PROVE  IsFiniteSet(Stages') /\ NoCacheEvidenceLost'
  BY DEF StageInv, NoCacheEvidenceLost

\* Nobody but p comes to the step before a stage is made.
LEMMA OnlyReconcileDoneIsBeforeStage ==
  ASSUME CacheInv, NEW p \in Proc,
         ResolveStepOf(p) \/ ProduceFails(p) \/ ResolveFails(p) \/ KillResolver(p),
         NEW q \in Proc, resolver'[q].step = "stage", resolver[q].step # "stage"
  PROVE  q = p /\ ReconcileDone(p)
  BY DEF ResolveStepOf, StartResolve, ReadArtifact, ReadSamples, HashAudio, TakeKeyLock,
         KeyLockTimeout, LookAgain, QuarantineEntry, ReconcileStage, ReconcileDone,
         CreateCacheStage, Produce, ProduceFails, RecordArtifact, PublishEntry,
         ResolveFails, KillResolver, Unusable, EndResolve, ResolveTo, LoadIn, CacheInv,
         CacheTypeOK, Resolver

\* Whoever makes the first stage is alone under the lock.
LEMMA CreateStageKeepsStages ==
  ASSUME CacheInv, StageInv, NEW p \in Proc, CreateCacheStage(p) PROVE StageInv'
  <1>1. Stages = {} /\ Stages' = {p}
    BY NoDirAssumption DEF CreateCacheStage, StageInv, NoStageYet, Stages, CacheInv,
                           CacheTypeOK, Directory
  <1>2. Cardinality(Stages) = 0 /\ Cardinality(Stages') = 1 /\ IsFiniteSet(Stages')
    BY <1>1, FS_EmptySet, FS_Singleton
  <1>3. NoCacheEvidenceLost'
    BY <1>2 DEF CreateCacheStage, StageInv, NoCacheEvidenceLost, CacheInv, CacheTypeOK
  <1>4. NoStageYet'
    BY OneUnderLock DEF CreateCacheStage, ResolveTo, NoStageYet, UnderLock, CacheInv,
                        CacheTypeOK, Resolver
  <1> QED BY <1>2, <1>3, <1>4 DEF StageInv

\* Every step of a resolve accounts for every staging directory.
LEMMA ResolveKeepsStages ==
  ASSUME CacheInv, LoadInv, StageInv, NEW p \in Proc,
         ResolveStepOf(p) \/ ProduceFails(p) \/ ResolveFails(p) \/ KillResolver(p)
  PROVE  StageInv'
  <1>1. CASE CreateCacheStage(p)
    BY <1>1, CreateStageKeepsStages
  <1>2. CASE /\ Stages' \subseteq Stages /\ IsFiniteSet(Stages') /\ NoCacheEvidenceLost'
             /\ ~CreateCacheStage(p)
    <2>1. NoStageYet'
      BY <1>2, OnlyReconcileDoneIsBeforeStage
         DEF StageInv, NoStageYet, ReconcileDone
    <2> QED BY <1>2, <2>1 DEF StageInv
  <1>3. CASE QuarantineEntry(p)
    <2>1. Stages' = Stages /\ Cardinality(Stages) \in Nat
      BY <1>3, FS_CardinalityType DEF QuarantineEntry, Stages, StageInv
    <2>2. NoCacheEvidenceLost'
      BY <1>3, <2>1 DEF QuarantineEntry, StageInv, NoCacheEvidenceLost, CacheInv, CacheTypeOK
    <2> QED BY <1>2, <1>3, <2>1, <2>2 DEF StageInv, QuarantineEntry, CreateCacheStage
  <1>4. CASE ReconcileStage(p)
    <2>1. PICK q \in Proc : /\ stages[q] # NoDir
                            /\ QuarantineStage(q) \/ (entry = NoDir /\ PublishStage(q))
      BY <1>4 DEF ReconcileStage, Stages
    <2>2. IsFiniteSet(Stages') /\ Stages' \subseteq Stages /\ NoCacheEvidenceLost'
      BY <1>4, <2>1, MovingKeepsEvidence DEF ReconcileStage
    <2> QED BY <1>2, <1>4, <2>2 DEF ReconcileStage, CreateCacheStage
  <1>5. CASE PublishEntry(p)
    <2>1. stages[p] # NoDir /\ entry = NoDir
      BY <1>5 DEF PublishEntry, CacheInv, OwnersHaveStages, NoEntryMeanwhile, OwnsStage
    <2>2. IsFiniteSet(Stages') /\ Stages' \subseteq Stages /\ NoCacheEvidenceLost'
      BY <1>5, <2>1, MovingKeepsEvidence DEF PublishEntry
    <2> QED BY <1>2, <1>5, <2>2 DEF PublishEntry, CreateCacheStage
  <1>6. CASE ProduceFails(p)
    <2>1. stages[p] # NoDir /\ stages[p] \in Directory
      BY <1>6 DEF ProduceFails, CacheInv, CacheTypeOK, OwnersHaveStages, OwnsStage
    <2>2. CASE QuarantineStage(p)
      <3>1. IsFiniteSet(Stages') /\ Stages' \subseteq Stages /\ NoCacheEvidenceLost'
        BY <1>6, <2>1, <2>2, MovingKeepsEvidence DEF ProduceFails
      <3> QED BY <1>2, <1>6, <3>1 DEF ProduceFails, CreateCacheStage
    <2>3. CASE /\ stages' = [stages EXCEPT ![p].audio = Damaged]
               /\ UNCHANGED <<entry, quarantined, published>>
      <3>1. stages'[p] \in Directory
        BY <2>1, <2>3 DEF CacheInv, CacheTypeOK, Directory
      <3>2. Stages' = Stages
        BY <2>1, <2>3, <3>1, NoDirAssumption DEF Stages, CacheInv, CacheTypeOK
      <3>3. IsFiniteSet(Stages') /\ NoCacheEvidenceLost'
        BY <1>6, <2>3, <3>2, KeptStagesKeepEvidence DEF ProduceFails
      <3> QED BY <1>2, <1>6, <3>2, <3>3 DEF ProduceFails, CreateCacheStage
    <2> QED BY <1>6, <2>2, <2>3 DEF ProduceFails
  <1>7. CASE Produce(p) \/ RecordArtifact(p)
    <2>1. stages[p] # NoDir /\ stages[p] \in Directory
      BY <1>7 DEF Produce, RecordArtifact, CacheInv, CacheTypeOK, OwnersHaveStages, OwnsStage
    <2>2. CacheTypeOK'
      BY <1>7, ProduceKeeps, RecordArtifactKeeps DEF CacheInv
    <2>3. /\ UNCHANGED <<entry, quarantined, started>>
          /\ \E d : stages' = [stages EXCEPT ![p].audio = d] \/ stages' = [stages EXCEPT ![p].artifact = d]
      BY <1>7 DEF Produce, RecordArtifact
    <2>4. stages'[p] # NoDir /\ \A q \in Proc : q # p => stages'[q] = stages[q]
      <3>1. OwnersHaveStages' /\ OwnsStage(p)'
        BY <1>7, ProduceKeeps, RecordArtifactKeeps
           DEF CacheInv, CacheTypeOK, Produce, RecordArtifact, ResolveTo, OwnsStage, Resolver
      <3> QED BY <2>3, <3>1 DEF OwnersHaveStages, CacheInv, CacheTypeOK
    <2>5. Stages' = Stages
      BY <2>1, <2>4 DEF Stages
    <2>6. IsFiniteSet(Stages') /\ NoCacheEvidenceLost'
      BY <2>3, <2>5, KeptStagesKeepEvidence
    <2> QED BY <1>2, <1>7, <2>5, <2>6 DEF Produce, RecordArtifact, CreateCacheStage
  <1>8. CASE UNCHANGED directories
    <2>1. Stages' = Stages /\ IsFiniteSet(Stages') /\ NoCacheEvidenceLost'
      BY <1>8 DEF directories, Stages, StageInv, NoCacheEvidenceLost
    <2>2. CASE ~CreateCacheStage(p)
      BY <1>2, <2>1, <2>2
    <2> QED BY <1>1, <2>2
  <1> QED
    BY <1>1, <1>3, <1>4, <1>5, <1>6, <1>7, <1>8
       DEF ResolveStepOf, StartResolve, ReadArtifact, ReadSamples, HashAudio, TakeKeyLock,
           KeyLockTimeout, LookAgain, ReconcileDone, ResolveFails, KillResolver

\* Damage moves nothing.
LEMMA DamageKeepsStages == ASSUME CacheInv, StageInv, Damage PROVE StageInv'
  <1>1. entry' # NoDir
    <2>1. CacheTypeOK'
      BY DamageKeeps DEF CacheInv
    <2> QED
      BY NoDirAssumption, DigestAssumption DEF Damage, CacheInv, CacheTypeOK, Directory
  <1>2. Stages' = Stages
    BY DEF Damage, Stages
  <1>3. IsFiniteSet(Stages') /\ NoCacheEvidenceLost'
    BY <1>1, <1>2, KeptStagesKeepEvidence DEF Damage
  <1> QED
    BY <1>2, <1>3 DEF StageInv, NoStageYet, Damage

-----------------------------------------------------------------------------

\* Loads, stages and evidence are in step in every reachable state.
THEOREM EvidenceInvariant == CacheSpec => [](LoadInv /\ StageInv)
  <1>1. CacheInit => LoadInv /\ StageInv
    <2> SUFFICES ASSUME CacheInit PROVE LoadInv /\ StageInv
      OBVIOUS
    <2>1. LoadInv
      BY DEF CacheInit, LoadInv, LoadIsTrue, LoadsLocked, Reading
    <2>2. Stages = {} /\ IsFiniteSet(Stages) /\ Cardinality(Stages) = 0
      BY FS_EmptySet DEF CacheInit, Stages
    <2> QED
      BY <2>1, <2>2 DEF CacheInit, StageInv, NoStageYet, NoCacheEvidenceLost
  <1>2. ASSUME CacheInv, LoadInv, StageInv, [CacheNext]_cacheVars
        PROVE  LoadInv' /\ StageInv'
    <2>1. LoadInv'
      BY <1>2, NextKeepsLoads
    <2>2. CASE UNCHANGED cacheVars
      BY <1>2, <2>1, <2>2 DEF cacheVars, StageInv, Stages, NoStageYet, NoCacheEvidenceLost
    <2> QED
      BY <1>2, <2>1, <2>2, ResolveKeepsStages, DamageKeepsStages DEF CacheNext
  <1> QED BY <1>1, <1>2, CacheInvariant, PTL DEF CacheSpec

\* quarantine, publish and reconcile_stages only ever move a directory: every staging
\* directory ever created is still staged, is the entry, or is evidence.
THEOREM NoEvidenceIsLost == CacheSpec => []NoCacheEvidenceLost
  <1>1. LoadInv /\ StageInv => NoCacheEvidenceLost
    BY DEF StageInv
  <1> QED BY <1>1, EvidenceInvariant, PTL

\* A reader without the lock sees the abstract store: an entry appears whole, and only
\* after damage from outside does resolve move it away and synthesize another.
THEOREM CacheImplementsStore == CacheSpec => ImplementsCacheStore
  <1>1. CacheInit => EntryStore!CacheStoreInit
    BY DEF CacheInit, EntryStore!CacheStoreInit, Content
  <1>2. ASSUME CacheInv, LoadInv, [CacheNext]_cacheVars
        PROVE  [EntryStore!Appear \/ EntryStore!Rot \/ EntryStore!Retire]_Content
    BY <1>2, NextRefinesStore
  <1> QED
    BY <1>1, <1>2, CacheInvariant, EvidenceInvariant, PTL
       DEF CacheSpec, ImplementsCacheStore, EntryStore!CacheStoreSpec
=============================================================================
