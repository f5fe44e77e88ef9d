------------------------- MODULE PackagePublication -------------------------
(***************************************************************************)
(* Publication of a preview package (preview.rs, package_port.rs): a       *)
(* package is staged, moved to a content-addressed directory without       *)
(* replacing anything, and selected by current.json, each step recorded in *)
(* the publication journal first or after so that reconcile can finish or  *)
(* abandon whatever a killed process left.  The caller holds the job lock. *)
(*                                                                         *)
(* A staging directory is absent, incomplete, or holds a complete package  *)
(* named by its manifest, which is written last.  Quarantine only counts.  *)
(***************************************************************************)
EXTENDS JobDocument, Processes, FiniteSets

CONSTANT Incomplete  \* a staging directory without a manifest

ASSUME IncompleteAssumption == Incomplete \notin Manifest \cup {None}

VARIABLES
    journal,      \* publication.json, or None
    stages,       \* jobs/<job-id>/staging/<transaction>: None, Incomplete or a manifest
    packages,     \* previews/<job-id>/packages: the manifests published there
    current,      \* current.json: the selected manifest, or None
    quarantined,  \* staging directories moved to quarantine/
    started,      \* staging directories ever created
    lastWrite,    \* the last attempt that began to write a package
    pub           \* each process's place in reconcile and in write

pubVars == <<journal, stages, packages, current, quarantined, started, lastWrite, pub>>

\* transaction_identity: what a staging directory is named after.
Transaction == [plan : Plan, tools : Toolsets]
TransactionOf(m) == [plan |-> m.plan, tools |-> m.tools]

PublicationState ==
    {"Staging", "CompleteStaged", "PackageDurable", "Selected", "Complete", "Abandoned"}

Journal ==
    [txn : Transaction, state : PublicationState, manifest : Manifest \cup {None}]

ASSUME JournalAssumption == None \notin Journal

\* mode: which entry point runs, prepare (reconcile) or write; target: the
\* package write is to produce; got: the package it returns.  "ready" is the
\* successful end of prepare, "done" that of write.
PubStep ==
    {"idle", "orphans", "loop", "selected", "ready", "start", "opened", "fill",
     "seal", "done", "refused"}
Publisher ==
    [step : PubStep, mode : {"prepare", "write"},
     target : Manifest \cup {None}, got : Manifest \cup {None}]

Idle == [step |-> "idle", mode |-> "prepare", target |-> None, got |-> None]

\* The journal, the staging area, the packages and each publisher's locals are of
\* their types; a stage's manifest never records an attempt past u32::MAX.
PubTypeOK ==
    /\ journal \in Journal \cup {None}
    /\ stages \in [Transaction -> Manifest \cup {None, Incomplete}]
    /\ packages \in SUBSET Manifest
    /\ current \in Manifest \cup {None}
    /\ quarantined \in Nat
    /\ started \in Nat
    /\ lastWrite \in Attempt \cup {0}
    /\ pub \in [Proc -> Publisher]

PubInit ==
    /\ journal = None
    /\ stages = [t \in Transaction |-> None]
    /\ packages = {}
    /\ current = None
    /\ quarantined = 0
    /\ started = 0
    /\ lastWrite = 0
    /\ pub = [p \in Proc |-> Idle]

-----------------------------------------------------------------------------
(* Helpers. *)

\* validate_package_checksum: the directory is there and complete.
PackageIsValid(m) == m \in packages

\* read_current succeeds: no selection, or one whose package validates.
CurrentIsValid == current = None \/ PackageIsValid(current)

\* validate_selected_checksum: the journal and current.json agree.
SelectedIsValid ==
    /\ current # None
    /\ PackageIsValid(current)
    /\ current = journal.manifest
    /\ current.plan = journal.txn.plan

\* Mutant: the directory is deleted instead of kept.
DiscardStage(t) ==
    /\ stages' = [stages EXCEPT ![t] = None]
    /\ UNCHANGED quarantined

Quarantine(t) ==
    /\ stages' = [stages EXCEPT ![t] = None]
    /\ quarantined' = quarantined + 1

JournalTo(state, m) ==
    journal' = [journal EXCEPT !.state = state, !.manifest = m]

Goto(p, step) == pub' = [pub EXCEPT ![p].step = step]

\* Move to a step when a validation holds, else leave with its error.
GotoIf(p, ok, step) == Goto(p, IF ok THEN step ELSE "refused")

-----------------------------------------------------------------------------
(* reconcile: called by prepare before an attempt is opened. *)

BeginPrepare(p) ==
    /\ pub[p].step = "idle"
    /\ pub' = [pub EXCEPT ![p] =
                 [Idle EXCEPT !.step = IF CurrentIsValid THEN "orphans" ELSE "refused"]]
    /\ UNCHANGED <<journal, stages, packages, current, quarantined, started, lastWrite>>

\* Staging directories the journal does not name.
Orphans == {t \in Transaction : stages[t] # None /\ (journal # None => journal.txn # t)}

QuarantineOrphan(p) ==
    /\ pub[p].step = "orphans"
    /\ \E t \in Orphans : Quarantine(t)
    /\ UNCHANGED <<journal, packages, current, started, lastWrite, pub>>

\* Mutant: reconcile looks at orphans only and leaves the journal alone.
OrphansDoneOnly(p) ==
    /\ pub[p].step = "orphans"
    /\ Orphans = {}
    /\ Goto(p, "ready")
    /\ UNCHANGED <<journal, stages, packages, current, quarantined, started, lastWrite>>

OrphansDone(p) ==
    /\ pub[p].step = "orphans"
    /\ Orphans = {}
    /\ Goto(p, IF journal = None THEN "ready" ELSE "loop")
    /\ UNCHANGED <<journal, stages, packages, current, quarantined, started, lastWrite>>

\* Staging, and the directory is incomplete: it is evidence, not a package.
QuarantineIncomplete(p) ==
    /\ pub[p].step = "loop" /\ journal.state = "Staging"
    /\ stages[journal.txn] = Incomplete
    /\ Quarantine(journal.txn)
    /\ UNCHANGED <<journal, packages, current, started, lastWrite, pub>>

\* Staging, and there is no directory (any more).
AbandonTransaction(p) ==
    /\ pub[p].step = "loop" /\ journal.state = "Staging"
    /\ stages[journal.txn] = None
    /\ JournalTo("Abandoned", None)
    /\ Goto(p, "ready")
    /\ UNCHANGED <<stages, packages, current, quarantined, started, lastWrite>>

\* Staging, and the directory holds a complete package: the killed process had
\* finished producing it.
AdoptStage(p) ==
    /\ pub[p].step = "loop" /\ journal.state = "Staging"
    /\ stages[journal.txn] \in Manifest
    /\ LET m == stages[journal.txn]
           ok == m.plan = journal.txn.plan
       IN  /\ GotoIf(p, ok, "loop")
           /\ IF ok THEN JournalTo("CompleteStaged", m) ELSE UNCHANGED journal
    /\ UNCHANGED <<stages, packages, current, quarantined, started, lastWrite>>

-----------------------------------------------------------------------------
(* The chain reconcile and publish_transaction share. *)

\* finish_package_move with the staging directory present.  When the package
\* exists already, the winner is validated and the stage quarantined.
MovePackage(p) ==
    /\ pub[p].step = "loop" /\ journal.state = "CompleteStaged"
    /\ stages[journal.txn] # None
    /\ IF stages[journal.txn] = journal.manifest
       THEN /\ stages' = [stages EXCEPT ![journal.txn] = None]
            /\ packages' = packages \cup {journal.manifest}
            /\ quarantined' = quarantined + (IF journal.manifest \in packages THEN 1 ELSE 0)
            /\ UNCHANGED pub
       ELSE Goto(p, "refused") /\ UNCHANGED <<stages, packages, quarantined>>
    /\ UNCHANGED <<journal, current, started, lastWrite>>

\* Mutant: reconcile insists on the staging directory it would have to move.
MarkDurableNeedsStage(p) ==
    /\ pub[p].step = "loop" /\ journal.state = "CompleteStaged"
    /\ stages[journal.txn] = None
    /\ LET ok == pub[p].mode = "write"
       IN  /\ GotoIf(p, ok, "loop")
           /\ IF ok THEN JournalTo("PackageDurable", journal.manifest) ELSE UNCHANGED journal
    /\ UNCHANGED <<stages, packages, current, quarantined, started, lastWrite>>

\* finish_package_move with the directory gone, and the journal write after it.
MarkDurable(p) ==
    /\ pub[p].step = "loop" /\ journal.state = "CompleteStaged"
    /\ stages[journal.txn] = None
    /\ LET ok == PackageIsValid(journal.manifest)
       IN  /\ GotoIf(p, ok, "loop")
           /\ IF ok THEN JournalTo("PackageDurable", journal.manifest) ELSE UNCHANGED journal
    /\ UNCHANGED <<stages, packages, current, quarantined, started, lastWrite>>

\* Mutant: the selection is written before the package has moved.
SelectBeforeMove(p) ==
    /\ pub[p].step = "loop" /\ journal.state \in {"CompleteStaged", "PackageDurable"}
    /\ current' = journal.manifest
    /\ Goto(p, "selected")
    /\ UNCHANGED <<journal, stages, packages, quarantined, started, lastWrite>>

SelectPackage(p) ==
    /\ pub[p].step = "loop" /\ journal.state = "PackageDurable"
    /\ LET ok == PackageIsValid(journal.manifest) /\ CurrentIsValid
       IN  /\ GotoIf(p, ok, "selected")
           /\ current' = IF ok THEN journal.manifest ELSE current
    /\ UNCHANGED <<journal, stages, packages, quarantined, started, lastWrite>>

\* Mutant: the journal is not advanced after the selection.
ForgetSelected(p) ==
    /\ pub[p].step = "selected"
    /\ Goto(p, "loop")
    /\ UNCHANGED <<journal, stages, packages, current, quarantined, started, lastWrite>>

MarkSelected(p) ==
    /\ pub[p].step = "selected"
    /\ JournalTo("Selected", journal.manifest)
    /\ Goto(p, "loop")
    /\ UNCHANGED <<stages, packages, current, quarantined, started, lastWrite>>

\* reconcile validates the selection first; publish_transaction just made it.
MarkComplete(p) ==
    /\ pub[p].step = "loop" /\ journal.state = "Selected"
    /\ LET ok == pub[p].mode = "prepare" => SelectedIsValid
       IN  /\ GotoIf(p, ok, "loop")
           /\ IF ok THEN JournalTo("Complete", journal.manifest) ELSE UNCHANGED journal
    /\ UNCHANGED <<stages, packages, current, quarantined, started, lastWrite>>

\* Complete or Abandoned: the loop ends by reading current.json.
LeaveLoop(p) ==
    /\ pub[p].step = "loop" /\ journal.state \in {"Complete", "Abandoned"}
    /\ LET ok == /\ CurrentIsValid
                 /\ pub[p].mode = "prepare" /\ journal.state = "Complete" => SelectedIsValid
                 /\ pub[p].mode = "write" => current # None
           end == IF pub[p].mode = "write" THEN "done" ELSE "ready"
       IN  pub' = [pub EXCEPT ![p].step = IF ok THEN end ELSE "refused",
                              ![p].got = current]
    /\ UNCHANGED <<journal, stages, packages, current, quarantined, started, lastWrite>>

-----------------------------------------------------------------------------
(* write: reuse the selected package, or stage and publish a new one. *)

\* Mutant: the selection source is not compared.
ReusableAnySource(target) ==
    /\ current # None
    /\ current.plan = target.plan
    /\ current.tools = target.tools

\* current_for_build: the selected package was built from this plan with these
\* tools under this selection source.
Reusable(target) ==
    /\ current # None
    /\ current.plan = target.plan
    /\ current.tools = target.tools
    /\ current.source = target.source

BeginWrite(p, target) ==
    /\ pub[p].step = "ready"
    /\ lastWrite' = target.attempt
    /\ pub' = [pub EXCEPT ![p] =
                 [step   |-> IF ~CurrentIsValid THEN "refused"
                             ELSE IF Reusable(target) THEN "done" ELSE "start",
                  mode   |-> "write",
                  target |-> target,
                  got    |-> IF Reusable(target) THEN current ELSE None]]
    /\ UNCHANGED <<journal, stages, packages, current, quarantined, started>>

\* start_transaction finds a directory of the same name and keeps it as evidence.
ClearStage(p) ==
    /\ pub[p].step = "start"
    /\ stages[TransactionOf(pub[p].target)] # None
    /\ Quarantine(TransactionOf(pub[p].target))
    /\ UNCHANGED <<journal, packages, current, started, lastWrite, pub>>

CreateStage(p) ==
    /\ pub[p].step = "start"
    /\ stages[TransactionOf(pub[p].target)] = None
    /\ stages' = [stages EXCEPT ![TransactionOf(pub[p].target)] = Incomplete]
    /\ started' = started + 1
    /\ Goto(p, "opened")
    /\ UNCHANGED <<journal, packages, current, quarantined, lastWrite>>

OpenJournal(p) ==
    /\ pub[p].step = "opened"
    /\ journal' = [txn |-> TransactionOf(pub[p].target), state |-> "Staging", manifest |-> None]
    /\ Goto(p, "fill")
    /\ UNCHANGED <<stages, packages, current, quarantined, started, lastWrite>>

\* Mutant: the manifest records the attempt after the one that built it.
FillStageNextAttempt(p) ==
    /\ pub[p].step = "fill"
    /\ stages' = [stages EXCEPT ![journal.txn] = [pub[p].target EXCEPT !.attempt = @ + 1]]
    /\ Goto(p, "seal")
    /\ UNCHANGED <<journal, packages, current, quarantined, started, lastWrite>>

\* Assembly, normalization, documents, encodes, run report, and the manifest last.
FillStage(p) ==
    /\ pub[p].step = "fill"
    /\ stages' = [stages EXCEPT ![journal.txn] = pub[p].target]
    /\ Goto(p, "seal")
    /\ UNCHANGED <<journal, packages, current, quarantined, started, lastWrite>>

\* publish_transaction validates and syncs the stage, then journals its digest.
SealStage(p) ==
    /\ pub[p].step = "seal"
    /\ LET m == stages[journal.txn]
           ok == m \in Manifest /\ m.plan = journal.txn.plan
       IN  /\ GotoIf(p, ok, "loop")
           /\ IF ok THEN JournalTo("CompleteStaged", m) ELSE UNCHANGED journal
    /\ UNCHANGED <<stages, packages, current, quarantined, started, lastWrite>>

-----------------------------------------------------------------------------

\* The caller is through with its package writer, or gives up.
PubReturn(p) ==
    /\ pub[p].step \in {"ready", "done", "refused"}
    /\ pub' = [pub EXCEPT ![p] = Idle]
    /\ UNCHANGED <<journal, stages, packages, current, quarantined, started, lastWrite>>

\* The process is killed, or a step returns an I/O or tool error (an assembly,
\* an encode, a full disk): what it knew is gone, what it wrote stays.
PubAbort(p) ==
    /\ pub' = [pub EXCEPT ![p] = Idle]
    /\ UNCHANGED <<journal, stages, packages, current, quarantined, started, lastWrite>>

\* The steps between the call and its return.
PubWork(p) ==
    \/ QuarantineOrphan(p) \/ OrphansDone(p) \/ QuarantineIncomplete(p)
    \/ AbandonTransaction(p) \/ AdoptStage(p)
    \/ MovePackage(p) \/ MarkDurable(p) \/ SelectPackage(p) \/ MarkSelected(p)
    \/ MarkComplete(p) \/ LeaveLoop(p)
    \/ ClearStage(p) \/ CreateStage(p) \/ OpenJournal(p) \/ FillStage(p)
    \/ SealStage(p)

\* No other process is inside: what the job lock guarantees.
Alone(p) == \A q \in Proc \ {p} : pub[q].step = "idle"

PubNext ==
    \E p \in Proc :
        \/ Alone(p) /\ BeginPrepare(p)
        \/ \E target \in Manifest :
              target.attempt > lastWrite /\ BeginWrite(p, target)
        \/ PubWork(p)
        \/ PubReturn(p)
        \/ pub[p].step # "idle" /\ PubAbort(p)

PubSpec == PubInit /\ [][PubNext]_pubVars

\* A publisher that is not killed keeps taking steps.
PubFairSpec == PubSpec /\ \A p \in Proc : WF_pubVars(PubWork(p))

-----------------------------------------------------------------------------
(* What publication promises. *)

\* current.json never names a package that is not published whole, whatever
\* step of publish_transaction or of reconcile a process was killed in.
CurrentIsPublished == current # None => current \in packages

\* No crash leaves a state in which reconcile or write fails its own
\* validation: MissingPackageDirectory, PackageManifestChecksumMismatch,
\* JournalSelectionMismatch, PackagePlanMismatch and MissingCurrentPreview
\* need damage from outside.
CrashNeverCorrupts == \A p \in Proc : pub[p].step # "refused"

\* Every staging directory ever created is still staged, was published, or is
\* in quarantine: reconciliation loses and duplicates no evidence.
NoStageLost ==
    started = Cardinality({t \in Transaction : stages[t] # None})
                + Cardinality(packages) + quarantined

\* A package that write returns is the selected one, and it was built from the
\* plan, the tools and the selection source of the caller, whether write made it
\* or found it (current_for_build).
WriteReturnsSelection ==
    \A p \in Proc :
        pub[p].step = "done" =>
            /\ pub[p].got = current
            /\ current.plan = pub[p].target.plan
            /\ current.tools = pub[p].target.tools
            /\ current.source = pub[p].target.source

\* A reader of previews/<job-id> sees the abstract store: packages in attempt
\* order, none left unselected when the next appears, no move back, even when
\* reconcile publishes what a killed process had staged.
Store == INSTANCE PreviewStore
ImplementsStore == Store!StoreSpec

\* A publisher that is not killed reaches an end of prepare or of write.
PublisherReturns ==
    \A p \in Proc :
        pub[p].step \in {"orphans", "loop", "selected", "start", "opened", "seal"}
            ~> pub[p].step \in {"idle", "ready", "fill", "done", "refused"}
=============================================================================
