----------------------------- MODULE ReviewRelease -----------------------------
(***************************************************************************)
(* What happens to a package after it is selected: a person reviews it     *)
(* (approve_preview), its preview is released (publish_preview_release),   *)
(* and cache prune reports the entries no package or takes file refers to. *)
(* None of the three takes the job lock, so each runs beside a build that  *)
(* publishes the next generation, and beside the others.                   *)
(*                                                                         *)
(* A manifest's digest stands for its package, an approval for the bytes   *)
(* of its document and for their digest.                                   *)
(***************************************************************************)
EXTENDS Integers, Sequences, FiniteSets, SequencesExt

CONSTANTS
    Reviewers,       \* who can review
    Releasers,       \* processes that release
    CacheKeys,       \* cache keys of the segments
    MaxGenerations,  \* bound: packages that are published
    MaxReviews       \* bound: decisions that are recorded

ASSUME GenerationsAssumption == MaxGenerations \in Nat

ApprovalDisposition == {"accepted", "rejected"}

ApprovalRecord == [manifest : 1 .. MaxGenerations, reviewer : Reviewers, disposition : ApprovalDisposition]

VARIABLES
    generations,  \* the published packages, each with the cache keys its manifest records
    selected,     \* the generation current.json names, 0 while there is none
    approvals,    \* the documents under approvals/: the last one of each manifest
    recorded,     \* every approval that was ever written
    release,      \* release.json: none or one record
    releasers,    \* releaser -> what it has read
    entries,      \* published cache entries
    stages,       \* whether a .cache-stage-* directory is in a shard
    accepted,     \* the keys of the accepted takes files
    pruner        \* the report that is being made, or was, and how many packages it read

reviewVars == <<generations, selected, approvals, recorded, release, releasers, entries, stages, accepted, pruner>>

Published == DOMAIN generations

Idle == [at |-> "idle", manifest |-> 0, approval |-> <<>>]
NoReport == [at |-> "idle", roots |-> 0, live |-> {}, candidates |-> {}]

\* A document in a sequence of at most one.
Only(record) == <<record>>

ReviewInit ==
    /\ generations = <<>> /\ selected = 0
    /\ approvals = [m \in 1 .. MaxGenerations |-> <<>>] /\ recorded = {}
    /\ release = <<>> /\ releasers = [r \in Releasers |-> Idle]
    /\ entries = {} /\ stages = FALSE /\ accepted = {} /\ pruner = NoReport

-----------------------------------------------------------------------------
\* The build beside them (SegmentCache, PackagePublication).

\* A synthesizer stages an entry, and renames its stage to the entry.
StageEntry ==
    /\ ~stages /\ stages' = TRUE
    /\ UNCHANGED <<generations, selected, approvals, recorded, release, releasers, entries, accepted, pruner>>

PublishEntry ==
    /\ stages /\ stages' = FALSE
    /\ \E key \in CacheKeys \ entries : entries' = entries \cup {key}
    /\ UNCHANGED <<generations, selected, approvals, recorded, release, releasers, accepted, pruner>>

\* A package's manifest refers to entries that are there.
PublishPackage ==
    /\ Len(generations) < MaxGenerations
    /\ \E keys \in SUBSET entries \ {{}} : generations' = Append(generations, keys)
    /\ UNCHANGED <<selected, approvals, recorded, release, releasers, entries, stages, accepted, pruner>>

SelectPackage ==
    /\ selected < Len(generations) /\ selected' = Len(generations)
    /\ UNCHANGED <<generations, approvals, recorded, release, releasers, entries, stages, accepted, pruner>>

\* accept_current_takes writes a takes file of the selected package.
AcceptTheTakes ==
    /\ selected # 0 /\ accepted' = accepted \cup generations[selected]
    /\ UNCHANGED <<generations, selected, approvals, recorded, release, releasers, entries, stages, pruner>>

-----------------------------------------------------------------------------
\* approval_path.
ApprovalPath(record) == record.manifest

\* approve_preview: the package directory must be there.  The document replaces the
\* one the manifest had.
ApprovePreview ==
    /\ Cardinality(recorded) < MaxReviews
    /\ \E record \in ApprovalRecord :
        /\ record.manifest \in Published
        /\ approvals' = [approvals EXCEPT ![ApprovalPath(record)] = Only(record)]
        /\ recorded' = recorded \cup {record}
    /\ UNCHANGED <<generations, selected, release, releasers, entries, stages, accepted, pruner>>

\* read_current.
ReadCurrent(r) ==
    /\ releasers[r].at = "idle" /\ selected # 0
    /\ releasers' = [releasers EXCEPT ![r] = [Idle EXCEPT !.at = "approval", !.manifest = selected]]
    /\ UNCHANGED <<generations, selected, approvals, recorded, release, entries, stages, accepted, pruner>>

\* Mutant: whatever decision is on record is taken for an approval.
AcceptsAnyDecision(published, approval) == approval.manifest = published

\* read_approved, of the bytes that were read once.
ReadApproved(published, approval) ==
    /\ approval.manifest = published  \* ApprovalManifestMismatch
    /\ approval.disposition = "accepted"

\* The approval of the manifest that was read, whatever is selected by now; without
\* one, or with one that does not accept, PreviewNotApproved.
ReadApproval(r) ==
    /\ releasers[r].at = "approval"
    /\ LET document == approvals[releasers[r].manifest]
           approves == document # <<>> /\ ReadApproved(releasers[r].manifest, document[1])
       IN  releasers' = [releasers EXCEPT ![r] =
               IF approves THEN [@ EXCEPT !.at = "release", !.approval = document] ELSE Idle]
    /\ UNCHANGED <<generations, selected, approvals, recorded, release, entries, stages, accepted, pruner>>

\* publish_preview_release: release.json is replaced.
WriteRelease(r) ==
    /\ releasers[r].at = "release"
    /\ release' = Only([manifest |-> releasers[r].approval[1].manifest, approval |-> releasers[r].approval[1]])
    /\ releasers' = [releasers EXCEPT ![r] = Idle]
    /\ UNCHANGED <<generations, selected, approvals, recorded, entries, stages, accepted, pruner>>

\* The process of a releaser ends.
KillReleaser(r) ==
    /\ releasers[r].at # "idle" /\ releasers' = [releasers EXCEPT ![r] = Idle]
    /\ UNCHANGED <<generations, selected, approvals, recorded, release, entries, stages, accepted, pruner>>

-----------------------------------------------------------------------------
\* referenced_cache_keys of every published manifest.
ReferencedKeys == UNION {generations[m] : m \in Published}

\* Mutant: the manifest of the selected package is the one root.
SelectedKeysLive(takes) == takes \cup IF selected = 0 THEN {} ELSE generations[selected]

\* live_cache_keys, with the takes files the command is given.
LiveCacheKeys(takes) == takes \cup ReferencedKeys

\* prune_candidates reads the roots,
PruneReadsRoots ==
    /\ pruner.at # "listing"
    /\ \E takes \in {{}, accepted} :
          pruner' = [NoReport EXCEPT !.at = "listing", !.roots = Len(generations), !.live = LiveCacheKeys(takes)]
    /\ UNCHANGED <<generations, selected, approvals, recorded, release, releasers, entries, stages, accepted>>

\* and then lists the entries; a stage in a shard is an UnrecognizedCacheEntry.
PruneListsEntries ==
    /\ pruner.at = "listing"
    /\ pruner' = IF stages THEN NoReport
                 ELSE [pruner EXCEPT !.at = "reported", !.candidates = entries \ pruner.live]
    /\ UNCHANGED <<generations, selected, approvals, recorded, release, releasers, entries, stages, accepted>>

ReviewNext ==
    \/ StageEntry \/ PublishEntry \/ PublishPackage \/ SelectPackage \/ AcceptTheTakes
    \/ ApprovePreview
    \/ \E r \in Releasers : ReadCurrent(r) \/ ReadApproval(r) \/ WriteRelease(r) \/ KillReleaser(r)
    \/ PruneReadsRoots \/ PruneListsEntries

ReviewSpec == ReviewInit /\ [][ReviewNext]_reviewVars

-----------------------------------------------------------------------------
\* What is released was accepted: release.json names a generation that was published,
\* and the digest of an approval that somebody recorded of that very manifest and
\* that accepts it, whatever was selected, reviewed or released in between.
ReleaseNamesAnAcceptance ==
    \A r \in ToSet(release) :
        /\ r.manifest \in Published
        /\ r.approval \in recorded
        /\ r.approval.manifest = r.manifest /\ r.approval.disposition = "accepted"

\* A published package keeps its entries: no report names an entry that a package
\* refers to, selected or superseded, if the package was there when the report began.
ReportSparesItsRoots ==
    pruner.at = "reported" => \A m \in 1 .. pruner.roots : pruner.candidates \cap generations[m] = {}

\* approval.rs:229 says that the release's digest names the document a reader will
\* open.
ReleaseNamesTheDocument ==
    \A r \in ToSet(release) : approvals[r.manifest] = Only(r.approval)

\* prune.rs:82 says that the report names the entries no retention root refers to.
ReportIsUnreferenced ==
    pruner.at = "reported" => pruner.candidates \cap ReferencedKeys = {}
=============================================================================
