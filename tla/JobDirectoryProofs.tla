------------------------- MODULE JobDirectoryProofs -------------------------
(***************************************************************************)
(* Theorems about what a job directory and the packages beside it hold,    *)
(* for any set of processes, plans, tools and attempts: the publication of *)
(* a package by the one process inside it, and the lock that lets it in.   *)
(***************************************************************************)
EXTENDS PackagePublication, JobLock, FiniteSetTheorems, TLAPS

-----------------------------------------------------------------------------
(* Publication.  The invariant says, for each state of the journal, what the staging
   directory, the packages and the selection are; every kill leaves one of these
   states, which is why reconcile can always go on.  Three more invariants rest on
   it: the order of the packages, whose selection write returns, and where every
   staging directory went. *)

\* The job lock's share: one process at a time is inside prepare or write.
OneInside ==
    \A p, q \in Proc : pub[p].step # "idle" /\ pub[q].step # "idle" => p = q

\* A complete staging directory is the one its manifest names.
StagesAreNamed ==
    \A t \in Transaction : stages[t] \in Manifest => TransactionOf(stages[t]) = t

\* What the disk holds at each state of the journal.
JournalIsTrue ==
    journal # None =>
        /\ journal.state \in {"CompleteStaged", "PackageDurable", "Selected", "Complete"} =>
              journal.manifest \in Manifest /\ TransactionOf(journal.manifest) = journal.txn
        /\ journal.state = "CompleteStaged" =>
              \/ stages[journal.txn] = journal.manifest
              \/ stages[journal.txn] = None /\ journal.manifest \in packages
        /\ journal.state \in {"PackageDurable", "Selected", "Complete"} =>
              journal.manifest \in packages
        /\ journal.state \in {"Selected", "Complete"} => current = journal.manifest

\* No transaction is under way.
JournalIsSettled == journal = None \/ journal.state \in {"Complete", "Abandoned"}

\* What a process knows of the journal at each of its steps.
StepIsTrue(p) ==
    /\ pub[p].step # "refused"
    /\ pub[p].step = "orphans" => pub[p].mode = "prepare"
    /\ pub[p].step \in {"start", "opened", "fill", "seal"} =>
          pub[p].mode = "write" /\ pub[p].target \in Manifest
    /\ pub[p].step \in {"ready", "start", "opened"} => JournalIsSettled
    /\ pub[p].step \in {"fill", "seal", "loop", "selected"} => journal # None
    /\ pub[p].step \in {"fill", "seal"} =>
          journal.state = "Staging" /\ journal.txn = TransactionOf(pub[p].target)
    /\ pub[p].step = "seal" => stages[journal.txn] = pub[p].target
    /\ pub[p].step = "loop" /\ pub[p].mode = "write" =>
          journal.state \in {"CompleteStaged", "PackageDurable", "Selected", "Complete"}
    /\ pub[p].step = "selected" =>
          journal.state = "PackageDurable" /\ current = journal.manifest

PubInv ==
    /\ PubTypeOK
    /\ OneInside
    /\ StagesAreNamed
    /\ CurrentIsPublished
    /\ JournalIsTrue
    /\ \A p \in Proc : StepIsTrue(p)

-----------------------------------------------------------------------------
(* What the two helpers that every action uses do to their variable. *)

\* Goto moves one process and nothing else about it.
LEMMA GotoMoves ==
    ASSUME pub \in [Proc -> Publisher], NEW p \in Proc, NEW s \in PubStep, Goto(p, s)
    PROVE  /\ pub' \in [Proc -> Publisher]
           /\ pub'[p].step = s
           /\ pub'[p].mode = pub[p].mode
           /\ pub'[p].target = pub[p].target
           /\ pub'[p].got = pub[p].got
           /\ \A q \in Proc : q # p => pub'[q] = pub[q]
<1>1. pub[p] \in Publisher
  OBVIOUS
<1>2. pub'[p] = [pub[p] EXCEPT !.step = s]
  BY DEF Goto
<1>3. pub'[p] \in Publisher /\ pub'[p].step = s /\ pub'[p].mode = pub[p].mode
      /\ pub'[p].target = pub[p].target /\ pub'[p].got = pub[p].got
  BY <1>2 DEF Publisher
<1>4. \A q \in Proc : q # p => pub'[q] = pub[q]
  BY DEF Goto
<1>5. DOMAIN pub' = Proc /\ pub' = [q \in Proc |-> pub'[q]]
  BY DEF Goto
<1>6. \A q \in Proc : pub'[q] \in Publisher
  BY <1>3, <1>4
<1>7. QED
  BY <1>3, <1>4, <1>5

\* JournalTo changes the state and the manifest of a journal, never its transaction.
LEMMA JournalAdvances ==
    ASSUME journal \in Journal, NEW s \in PublicationState,
           NEW m \in Manifest \cup {None}, JournalTo(s, m)
    PROVE  /\ journal' \in Journal
           /\ journal' # None
           /\ journal'.state = s
           /\ journal'.manifest = m
           /\ journal'.txn = journal.txn
<1>1. journal' = [txn |-> journal.txn, state |-> s, manifest |-> m]
  BY DEF JournalTo, Journal
<1>2. journal' \in Journal
  BY <1>1 DEF Journal
<1>3. QED
  BY <1>1, <1>2, JournalAssumption

\* The other processes are outside, so a step of p has to keep only what p, the
\* journal and the disk promise.
LEMMA OneProcessMoves ==
    ASSUME PubInv, NEW p \in Proc, pub[p].step # "idle",
           \A q \in Proc : q # p => pub'[q] = pub[q],
           PubTypeOK', StagesAreNamed', CurrentIsPublished', JournalIsTrue',
           StepIsTrue(p)'
    PROVE  PubInv'
<1>1. \A q \in Proc : q # p => pub[q].step = "idle"
  BY DEF PubInv, OneInside
<1>2. OneInside'
  BY <1>1 DEF OneInside
<1>3. \A q \in Proc : q # p => StepIsTrue(q)'
  BY <1>1 DEF StepIsTrue
<1>4. QED
  BY <1>2, <1>3 DEF PubInv

\* A manifest names a transaction.
LEMMA ManifestsAreNamed == \A m \in Manifest : TransactionOf(m) \in Transaction
  BY DEF TransactionOf, Transaction, Manifest

\* One staging directory changes, and what it comes to hold bears its name.
LEMMA StageChanges ==
    ASSUME PubTypeOK, StagesAreNamed, NEW t \in Transaction,
           NEW v \in Manifest \cup {None, Incomplete},
           v \in Manifest => TransactionOf(v) = t,
           stages' = [stages EXCEPT ![t] = v]
    PROVE  /\ stages' \in [Transaction -> Manifest \cup {None, Incomplete}]
           /\ stages'[t] = v
           /\ \A u \in Transaction : u # t => stages'[u] = stages[u]
           /\ StagesAreNamed'
<1>1. stages \in [Transaction -> Manifest \cup {None, Incomplete}]
  BY DEF PubTypeOK
<1>2. stages' \in [Transaction -> Manifest \cup {None, Incomplete}]
  BY <1>1
<1>3. stages'[t] = v /\ \A u \in Transaction : u # t => stages'[u] = stages[u]
  BY <1>1
<1>4. StagesAreNamed'
  BY DEF StagesAreNamed
<1>5. QED
  BY <1>2, <1>4

-----------------------------------------------------------------------------
(* Every action keeps the invariant. *)

\* An orphan is not the journal's directory, so nothing the journal promises changes.
LEMMA QuarantineOrphanKeeps == ASSUME PubInv, NEW p \in Proc, QuarantineOrphan(p) PROVE PubInv'
<1>1. pub[p].step # "idle" /\ pub \in [Proc -> Publisher]
  BY DEF QuarantineOrphan, PubInv, PubTypeOK
<1>2. StepIsTrue(p) /\ JournalIsTrue /\ StagesAreNamed /\ CurrentIsPublished /\ PubTypeOK
  BY DEF PubInv
<1>3. PICK t \in Orphans : Quarantine(t)
  BY DEF QuarantineOrphan
<1>4. stages' = [stages EXCEPT ![t] = None]
  BY <1>3 DEF Quarantine
<1>5. /\ stages' \in [Transaction -> Manifest \cup {None, Incomplete}]
      /\ stages'[t] = None
      /\ \A u \in Transaction : u # t => stages'[u] = stages[u]
      /\ StagesAreNamed'
  BY <1>2, <1>4, StageChanges, NoneAssumption DEF Orphans
<1>6. /\ pub' \in [Proc -> Publisher]
      /\ \A q \in Proc : q # p => pub'[q] = pub[q]
  BY <1>1 DEF QuarantineOrphan
<1>7. PubTypeOK'
  BY <1>2 DEF QuarantineOrphan, Quarantine, Orphans, PubTypeOK
<1>8. CurrentIsPublished'
  BY <1>2 DEF QuarantineOrphan, CurrentIsPublished
<1>9. JournalIsTrue'
  BY <1>2 DEF QuarantineOrphan, Quarantine, Orphans, JournalIsTrue
<1>10. StepIsTrue(p)'
  BY <1>2 DEF QuarantineOrphan, StepIsTrue
<1>11. QED
  BY <1>1, <1>5, <1>6, <1>7, <1>8, <1>9, <1>10, OneProcessMoves

\* With no orphan left the caller is ready when there is no journal, and recovers otherwise.
LEMMA OrphansDoneKeeps == ASSUME PubInv, NEW p \in Proc, OrphansDone(p) PROVE PubInv'
<1>1. pub[p].step # "idle" /\ pub \in [Proc -> Publisher]
  BY DEF OrphansDone, PubInv, PubTypeOK
<1>2. StepIsTrue(p) /\ JournalIsTrue /\ StagesAreNamed /\ CurrentIsPublished /\ PubTypeOK
  BY DEF PubInv
<1>3. Goto(p, IF journal = None THEN "ready" ELSE "loop")
  BY DEF OrphansDone
<1>4. /\ pub' \in [Proc -> Publisher]
      /\ pub'[p].step = (IF journal = None THEN "ready" ELSE "loop")
      /\ pub'[p].mode = pub[p].mode
      /\ pub'[p].target = pub[p].target
      /\ \A q \in Proc : q # p => pub'[q] = pub[q]
  BY <1>1, <1>3, GotoMoves DEF PubStep
<1>5. PubTypeOK'
  BY <1>2, <1>4 DEF OrphansDone, PubTypeOK
<1>6. StagesAreNamed'
  BY <1>2 DEF OrphansDone, StagesAreNamed
<1>7. CurrentIsPublished'
  BY <1>2 DEF OrphansDone, CurrentIsPublished
<1>8. JournalIsTrue'
  BY <1>2 DEF OrphansDone, JournalIsTrue
<1>9. StepIsTrue(p)'
  <2>1. CASE journal = None
    BY <1>4, <2>1 DEF OrphansDone, StepIsTrue, JournalIsSettled
  <2>2. CASE journal # None
    BY <1>2, <1>4, <2>2 DEF OrphansDone, StepIsTrue
  <2>3. QED
    BY <2>1, <2>2
<1>10. QED
  BY <1>1, <1>4, <1>5, <1>6, <1>7, <1>8, <1>9, OneProcessMoves

\* A journal in Staging promises nothing of its directory.
LEMMA QuarantineIncompleteKeeps ==
  ASSUME PubInv, NEW p \in Proc, QuarantineIncomplete(p) PROVE PubInv'
<1>1. pub[p].step # "idle" /\ pub \in [Proc -> Publisher]
  BY DEF QuarantineIncomplete, PubInv, PubTypeOK
<1>2. StepIsTrue(p) /\ JournalIsTrue /\ StagesAreNamed /\ CurrentIsPublished /\ PubTypeOK
  BY DEF PubInv
<1>3. journal \in Journal /\ journal # None /\ journal.txn \in Transaction
  BY <1>2 DEF QuarantineIncomplete, PubTypeOK, StepIsTrue, Journal
<1>4. stages' = [stages EXCEPT ![journal.txn] = None]
  BY DEF QuarantineIncomplete, Quarantine
<1>5. /\ stages' \in [Transaction -> Manifest \cup {None, Incomplete}]
      /\ stages'[journal.txn] = None
      /\ \A u \in Transaction : u # journal.txn => stages'[u] = stages[u]
      /\ StagesAreNamed'
  BY <1>2, <1>3, <1>4, StageChanges, NoneAssumption
<1>6. /\ pub' \in [Proc -> Publisher]
      /\ \A q \in Proc : q # p => pub'[q] = pub[q]
  BY <1>1 DEF QuarantineIncomplete
<1>7. PubTypeOK'
  BY <1>2, <1>5 DEF QuarantineIncomplete, Quarantine, PubTypeOK
<1>8. CurrentIsPublished'
  BY <1>2 DEF QuarantineIncomplete, CurrentIsPublished
<1>9. JournalIsTrue'
  BY DEF QuarantineIncomplete, JournalIsTrue
<1>10. StepIsTrue(p)'
  BY <1>2 DEF QuarantineIncomplete, StepIsTrue
<1>11. QED
  BY <1>1, <1>5, <1>6, <1>7, <1>8, <1>9, <1>10, OneProcessMoves

\* An abandoned transaction is settled.
LEMMA AbandonTransactionKeeps ==
  ASSUME PubInv, NEW p \in Proc, AbandonTransaction(p) PROVE PubInv'
<1>1. pub[p].step # "idle" /\ pub \in [Proc -> Publisher]
  BY DEF AbandonTransaction, PubInv, PubTypeOK
<1>2. StepIsTrue(p) /\ JournalIsTrue /\ StagesAreNamed /\ CurrentIsPublished /\ PubTypeOK
  BY DEF PubInv
<1>3. journal \in Journal /\ journal # None /\ journal.txn \in Transaction
  BY <1>2 DEF AbandonTransaction, PubTypeOK, StepIsTrue, Journal
<1>4. None \in Manifest \cup {None}
  BY DEF StepIsTrue
<1>5. Goto(p, "ready") /\ JournalTo("Abandoned", None)
  BY DEF AbandonTransaction
<1>6. /\ pub' \in [Proc -> Publisher]
      /\ pub'[p].step = ("ready")
      /\ pub'[p].mode = pub[p].mode
      /\ pub'[p].target = pub[p].target
      /\ \A q \in Proc : q # p => pub'[q] = pub[q]
  BY <1>1, <1>5, GotoMoves DEF PubStep
<1>7. /\ journal' \in Journal
      /\ journal' # None
      /\ journal'.state = "Abandoned"
      /\ journal'.manifest = None
      /\ journal'.txn = journal.txn
  BY <1>3, <1>5, JournalAdvances DEF PublicationState
<1>8. PubTypeOK'
  BY <1>2, <1>6, <1>7 DEF AbandonTransaction, PubTypeOK
<1>9. StagesAreNamed'
  BY <1>2 DEF AbandonTransaction, StagesAreNamed
<1>10. CurrentIsPublished'
  BY <1>2 DEF AbandonTransaction, CurrentIsPublished
<1>11. JournalIsTrue'
  BY <1>7 DEF JournalIsTrue
<1>12. StepIsTrue(p)'
  BY <1>6, <1>7 DEF StepIsTrue, JournalIsSettled
<1>13. QED
  BY <1>1, <1>6, <1>8, <1>9, <1>10, <1>11, <1>12, OneProcessMoves

\* The adopted directory bears the name of the journal's transaction, so the plan check passes.
LEMMA AdoptStageKeeps == ASSUME PubInv, NEW p \in Proc, AdoptStage(p) PROVE PubInv'
<1>1. pub[p].step # "idle" /\ pub \in [Proc -> Publisher]
  BY DEF AdoptStage, PubInv, PubTypeOK
<1>2. StepIsTrue(p) /\ JournalIsTrue /\ StagesAreNamed /\ CurrentIsPublished /\ PubTypeOK
  BY DEF PubInv
<1>3. journal \in Journal /\ journal # None /\ journal.txn \in Transaction
  BY <1>2 DEF AdoptStage, PubTypeOK, StepIsTrue, Journal
<1>4. stages[journal.txn] \in Manifest \cup {None} /\ stages[journal.txn] # None
  BY NoneAssumption DEF AdoptStage
<1>5. Goto(p, "loop") /\ JournalTo("CompleteStaged", stages[journal.txn])
  BY <1>2, <1>3 DEF AdoptStage, GotoIf, TransactionOf, StagesAreNamed
<1>6. /\ pub' \in [Proc -> Publisher]
      /\ pub'[p].step = ("loop")
      /\ pub'[p].mode = pub[p].mode
      /\ pub'[p].target = pub[p].target
      /\ \A q \in Proc : q # p => pub'[q] = pub[q]
  BY <1>1, <1>5, GotoMoves DEF PubStep
<1>7. /\ journal' \in Journal
      /\ journal' # None
      /\ journal'.state = "CompleteStaged"
      /\ journal'.manifest = stages[journal.txn]
      /\ journal'.txn = journal.txn
  BY <1>3, <1>4, <1>5, JournalAdvances DEF PublicationState
<1>8. PubTypeOK'
  BY <1>2, <1>6, <1>7 DEF AdoptStage, PubTypeOK
<1>9. StagesAreNamed'
  BY <1>2 DEF AdoptStage, StagesAreNamed
<1>10. CurrentIsPublished'
  BY <1>2 DEF AdoptStage, CurrentIsPublished
<1>11. JournalIsTrue'
  BY <1>2, <1>7 DEF AdoptStage, JournalIsTrue, Journal, StagesAreNamed
<1>12. StepIsTrue(p)'
  BY <1>6, <1>7 DEF StepIsTrue
<1>13. QED
  BY <1>1, <1>6, <1>8, <1>9, <1>10, <1>11, <1>12, OneProcessMoves

\* The directory that is there is the sealed one, so the digest check passes.
LEMMA MovePackageKeeps == ASSUME PubInv, NEW p \in Proc, MovePackage(p) PROVE PubInv'
<1>1. pub[p].step # "idle" /\ pub \in [Proc -> Publisher]
  BY DEF MovePackage, PubInv, PubTypeOK
<1>2. StepIsTrue(p) /\ JournalIsTrue /\ StagesAreNamed /\ CurrentIsPublished /\ PubTypeOK
  BY DEF PubInv
<1>3. journal \in Journal /\ journal # None /\ journal.txn \in Transaction
  BY <1>2 DEF MovePackage, PubTypeOK, StepIsTrue, Journal
<1>4. /\ stages[journal.txn] = journal.manifest /\ journal.manifest \in Manifest
      /\ TransactionOf(journal.manifest) = journal.txn
  BY <1>2, <1>3 DEF MovePackage, JournalIsTrue
<1>5. pub' = pub /\ journal' = journal /\ current' = current
      /\ packages' = packages \cup {journal.manifest}
      /\ quarantined' \in Nat /\ started' = started /\ lastWrite' = lastWrite
  BY <1>2, <1>4 DEF MovePackage, PubTypeOK
<1>6. stages' = [stages EXCEPT ![journal.txn] = None]
  BY <1>4 DEF MovePackage
<1>7. /\ stages' \in [Transaction -> Manifest \cup {None, Incomplete}]
      /\ stages'[journal.txn] = None
      /\ \A u \in Transaction : u # journal.txn => stages'[u] = stages[u]
      /\ StagesAreNamed'
  BY <1>2, <1>3, <1>6, StageChanges, NoneAssumption
<1>8. /\ pub' \in [Proc -> Publisher]
      /\ \A q \in Proc : q # p => pub'[q] = pub[q]
  BY <1>1, <1>7 DEF MovePackage
<1>9. PubTypeOK'
  BY <1>2, <1>4 DEF MovePackage, PubTypeOK
<1>10. CurrentIsPublished'
  BY <1>2 DEF MovePackage, CurrentIsPublished
<1>11. JournalIsTrue'
  BY <1>2 DEF MovePackage, PubTypeOK, JournalIsTrue
<1>12. StepIsTrue(p)'
  BY <1>3, <1>4 DEF MovePackage, StepIsTrue
<1>13. QED
  BY <1>1, <1>7, <1>8, <1>9, <1>10, <1>11, <1>12, OneProcessMoves

\* A sealed directory that is gone has been published.
LEMMA MarkDurableKeeps == ASSUME PubInv, NEW p \in Proc, MarkDurable(p) PROVE PubInv'
<1>1. pub[p].step # "idle" /\ pub \in [Proc -> Publisher]
  BY DEF MarkDurable, PubInv, PubTypeOK
<1>2. StepIsTrue(p) /\ JournalIsTrue /\ StagesAreNamed /\ CurrentIsPublished /\ PubTypeOK
  BY DEF PubInv
<1>3. journal \in Journal /\ journal # None /\ journal.txn \in Transaction
  BY <1>2 DEF MarkDurable, PubTypeOK, StepIsTrue, Journal
<1>4. journal.manifest \in Manifest \cup {None} /\ journal.manifest # None
  BY <1>2, NoneAssumption DEF MarkDurable, JournalIsTrue, StepIsTrue
<1>5. Goto(p, "loop") /\ JournalTo("PackageDurable", journal.manifest)
  BY <1>2, NoneAssumption DEF MarkDurable, GotoIf, PackageIsValid, JournalIsTrue, StepIsTrue
<1>6. /\ pub' \in [Proc -> Publisher]
      /\ pub'[p].step = ("loop")
      /\ pub'[p].mode = pub[p].mode
      /\ pub'[p].target = pub[p].target
      /\ \A q \in Proc : q # p => pub'[q] = pub[q]
  BY <1>1, <1>5, GotoMoves DEF PubStep
<1>7. /\ journal' \in Journal
      /\ journal' # None
      /\ journal'.state = "PackageDurable"
      /\ journal'.manifest = journal.manifest
      /\ journal'.txn = journal.txn
  BY <1>3, <1>4, <1>5, JournalAdvances DEF PublicationState
<1>8. PubTypeOK'
  BY <1>2, <1>6, <1>7 DEF MarkDurable, PubTypeOK
<1>9. StagesAreNamed'
  BY <1>2 DEF MarkDurable, StagesAreNamed
<1>10. CurrentIsPublished'
  BY <1>2 DEF MarkDurable, CurrentIsPublished
<1>11. JournalIsTrue'
  BY <1>2, <1>3, <1>7, NoneAssumption DEF MarkDurable, JournalIsTrue
<1>12. StepIsTrue(p)'
  BY <1>6, <1>7 DEF StepIsTrue
<1>13. QED
  BY <1>1, <1>6, <1>8, <1>9, <1>10, <1>11, <1>12, OneProcessMoves

\* A durable package and the selection before it both validate.
LEMMA SelectPackageKeeps == ASSUME PubInv, NEW p \in Proc, SelectPackage(p) PROVE PubInv'
<1>1. pub[p].step # "idle" /\ pub \in [Proc -> Publisher]
  BY DEF SelectPackage, PubInv, PubTypeOK
<1>2. StepIsTrue(p) /\ JournalIsTrue /\ StagesAreNamed /\ CurrentIsPublished /\ PubTypeOK
  BY DEF PubInv
<1>3. journal \in Journal /\ journal # None /\ journal.txn \in Transaction
  BY <1>2 DEF SelectPackage, PubTypeOK, StepIsTrue, Journal
<1>4. Goto(p, "selected")
  BY <1>2, <1>3
     DEF SelectPackage, GotoIf, PackageIsValid, CurrentIsValid, CurrentIsPublished,
         JournalIsTrue
<1>5. /\ pub' \in [Proc -> Publisher]
      /\ pub'[p].step = ("selected")
      /\ pub'[p].mode = pub[p].mode
      /\ pub'[p].target = pub[p].target
      /\ \A q \in Proc : q # p => pub'[q] = pub[q]
  BY <1>1, <1>4, GotoMoves DEF PubStep
<1>6. PubTypeOK'
  BY <1>2, <1>5 DEF SelectPackage, PackageIsValid, PubTypeOK
<1>7. StagesAreNamed'
  BY <1>2 DEF SelectPackage, StagesAreNamed
<1>8. CurrentIsPublished'
  BY <1>2, <1>3 DEF SelectPackage, CurrentIsPublished, JournalIsTrue
<1>9. JournalIsTrue'
  BY <1>2 DEF SelectPackage, JournalIsTrue
<1>10. StepIsTrue(p)'
  BY <1>2, <1>5
     DEF SelectPackage, PackageIsValid, CurrentIsValid, CurrentIsPublished, StepIsTrue,
         JournalIsTrue
<1>11. QED
  BY <1>1, <1>5, <1>6, <1>7, <1>8, <1>9, <1>10, OneProcessMoves

\* The journal follows the selection.
LEMMA MarkSelectedKeeps == ASSUME PubInv, NEW p \in Proc, MarkSelected(p) PROVE PubInv'
<1>1. pub[p].step # "idle" /\ pub \in [Proc -> Publisher]
  BY DEF MarkSelected, PubInv, PubTypeOK
<1>2. StepIsTrue(p) /\ JournalIsTrue /\ StagesAreNamed /\ CurrentIsPublished /\ PubTypeOK
  BY DEF PubInv
<1>3. journal \in Journal /\ journal # None /\ journal.txn \in Transaction
  BY <1>2 DEF MarkSelected, PubTypeOK, StepIsTrue, Journal
<1>4. journal.manifest \in Manifest \cup {None} /\ journal.manifest # None
  BY <1>2, NoneAssumption DEF MarkSelected, JournalIsTrue, StepIsTrue
<1>5. Goto(p, "loop") /\ JournalTo("Selected", journal.manifest)
  BY DEF MarkSelected
<1>6. /\ pub' \in [Proc -> Publisher]
      /\ pub'[p].step = ("loop")
      /\ pub'[p].mode = pub[p].mode
      /\ pub'[p].target = pub[p].target
      /\ \A q \in Proc : q # p => pub'[q] = pub[q]
  BY <1>1, <1>5, GotoMoves DEF PubStep
<1>7. /\ journal' \in Journal
      /\ journal' # None
      /\ journal'.state = "Selected"
      /\ journal'.manifest = journal.manifest
      /\ journal'.txn = journal.txn
  BY <1>3, <1>4, <1>5, JournalAdvances DEF PublicationState
<1>8. PubTypeOK'
  BY <1>2, <1>6, <1>7 DEF MarkSelected, PubTypeOK
<1>9. StagesAreNamed'
  BY <1>2 DEF MarkSelected, StagesAreNamed
<1>10. CurrentIsPublished'
  BY <1>2 DEF MarkSelected, CurrentIsPublished
<1>11. JournalIsTrue'
  BY <1>2, <1>7 DEF MarkSelected, JournalIsTrue, StepIsTrue
<1>12. StepIsTrue(p)'
  BY <1>6, <1>7 DEF StepIsTrue
<1>13. QED
  BY <1>1, <1>6, <1>8, <1>9, <1>10, <1>11, <1>12, OneProcessMoves

\* The selection of a Selected journal is its own package.
LEMMA MarkCompleteKeeps == ASSUME PubInv, NEW p \in Proc, MarkComplete(p) PROVE PubInv'
<1>1. pub[p].step # "idle" /\ pub \in [Proc -> Publisher]
  BY DEF MarkComplete, PubInv, PubTypeOK
<1>2. StepIsTrue(p) /\ JournalIsTrue /\ StagesAreNamed /\ CurrentIsPublished /\ PubTypeOK
  BY DEF PubInv
<1>3. journal \in Journal /\ journal # None /\ journal.txn \in Transaction
  BY <1>2 DEF MarkComplete, PubTypeOK, StepIsTrue, Journal
<1>4. journal.manifest \in Manifest \cup {None} /\ journal.manifest # None
  BY <1>2, NoneAssumption DEF MarkComplete, JournalIsTrue, StepIsTrue
<1>5. Goto(p, "loop") /\ JournalTo("Complete", journal.manifest)
  BY <1>2, NoneAssumption
     DEF MarkComplete, GotoIf, SelectedIsValid, PackageIsValid, TransactionOf,
         JournalIsTrue, StepIsTrue
<1>6. /\ pub' \in [Proc -> Publisher]
      /\ pub'[p].step = ("loop")
      /\ pub'[p].mode = pub[p].mode
      /\ pub'[p].target = pub[p].target
      /\ \A q \in Proc : q # p => pub'[q] = pub[q]
  BY <1>1, <1>5, GotoMoves DEF PubStep
<1>7. /\ journal' \in Journal
      /\ journal' # None
      /\ journal'.state = "Complete"
      /\ journal'.manifest = journal.manifest
      /\ journal'.txn = journal.txn
  BY <1>3, <1>4, <1>5, JournalAdvances DEF PublicationState
<1>8. PubTypeOK'
  BY <1>2, <1>6, <1>7 DEF MarkComplete, PubTypeOK
<1>9. StagesAreNamed'
  BY <1>2 DEF MarkComplete, StagesAreNamed
<1>10. CurrentIsPublished'
  BY <1>2 DEF MarkComplete, CurrentIsPublished
<1>11. JournalIsTrue'
  BY <1>2, <1>3, <1>7 DEF MarkComplete, JournalIsTrue
<1>12. StepIsTrue(p)'
  BY <1>6, <1>7 DEF StepIsTrue
<1>13. QED
  BY <1>1, <1>6, <1>8, <1>9, <1>10, <1>11, <1>12, OneProcessMoves

\* At the end of the loop the selection reads back, so it ends in success.
LEMMA LeaveLoopKeeps == ASSUME PubInv, NEW p \in Proc, LeaveLoop(p) PROVE PubInv'
<1>1. pub[p].step # "idle" /\ pub \in [Proc -> Publisher]
  BY DEF LeaveLoop, PubInv, PubTypeOK
<1>2. StepIsTrue(p) /\ JournalIsTrue /\ StagesAreNamed /\ CurrentIsPublished /\ PubTypeOK
  BY DEF PubInv
<1>3. journal \in Journal /\ journal # None /\ journal.txn \in Transaction
  BY <1>2 DEF LeaveLoop, PubTypeOK, StepIsTrue, Journal
<1>4. CurrentIsValid /\ (journal.state = "Complete" => SelectedIsValid)
  BY <1>2, <1>3, NoneAssumption
     DEF CurrentIsValid, SelectedIsValid, PackageIsValid, CurrentIsPublished,
         JournalIsTrue, TransactionOf
<1>5. pub[p].mode = "write" => current # None
  BY <1>2, NoneAssumption DEF LeaveLoop, StepIsTrue, JournalIsTrue
<1>6. pub' = [pub EXCEPT ![p].step = IF pub[p].mode = "write" THEN "done" ELSE "ready",
                       ![p].got = current]
  BY <1>4, <1>5 DEF LeaveLoop
<1>7. /\ pub[p] \in Publisher
      /\ pub'[p] = [pub[p] EXCEPT !.step = IF pub[p].mode = "write" THEN "done" ELSE "ready",
                                  !.got = current]
  BY <1>1, <1>6
<1>8. pub'[p] \in Publisher /\ pub'[p].step \in {"done", "ready"}
  BY <1>2, <1>7 DEF Publisher, PubStep, PubTypeOK
<1>9. /\ pub' \in [Proc -> Publisher]
      /\ \A q \in Proc : q # p => pub'[q] = pub[q]
  BY <1>1, <1>6, <1>8
<1>10. PubTypeOK'
  BY <1>2, <1>9 DEF LeaveLoop, PubTypeOK
<1>11. StagesAreNamed'
  BY <1>2 DEF LeaveLoop, StagesAreNamed
<1>12. CurrentIsPublished'
  BY <1>2 DEF LeaveLoop, CurrentIsPublished
<1>13. JournalIsTrue'
  BY <1>2 DEF LeaveLoop, JournalIsTrue
<1>14. StepIsTrue(p)'
  BY <1>8 DEF LeaveLoop, StepIsTrue, JournalIsSettled
<1>15. QED
  BY <1>1, <1>9, <1>10, <1>11, <1>12, <1>13, <1>14, OneProcessMoves

\* A settled journal says nothing of the directories.
LEMMA ClearStageKeeps == ASSUME PubInv, NEW p \in Proc, ClearStage(p) PROVE PubInv'
<1>1. pub[p].step # "idle" /\ pub \in [Proc -> Publisher]
  BY DEF ClearStage, PubInv, PubTypeOK
<1>2. StepIsTrue(p) /\ JournalIsTrue /\ StagesAreNamed /\ CurrentIsPublished /\ PubTypeOK
  BY DEF PubInv
<1>3. /\ pub[p].target \in Manifest
      /\ TransactionOf(pub[p].target) \in Transaction
      /\ JournalIsSettled
  BY <1>2, ManifestsAreNamed DEF ClearStage, StepIsTrue
<1>4. stages' = [stages EXCEPT ![TransactionOf(pub[p].target)] = None]
  BY DEF ClearStage, Quarantine
<1>5. /\ stages' \in [Transaction -> Manifest \cup {None, Incomplete}]
      /\ stages'[TransactionOf(pub[p].target)] = None
      /\ \A u \in Transaction : u # TransactionOf(pub[p].target) => stages'[u] = stages[u]
      /\ StagesAreNamed'
  BY <1>2, <1>3, <1>4, StageChanges, NoneAssumption
<1>6. /\ pub' \in [Proc -> Publisher]
      /\ \A q \in Proc : q # p => pub'[q] = pub[q]
  BY <1>1 DEF ClearStage
<1>7. PubTypeOK'
  BY <1>2, <1>5 DEF ClearStage, Quarantine, PubTypeOK
<1>8. CurrentIsPublished'
  BY <1>2 DEF ClearStage, CurrentIsPublished
<1>9. JournalIsTrue'
  BY <1>2, <1>3 DEF ClearStage, JournalIsTrue, JournalIsSettled
<1>10. StepIsTrue(p)'
  BY <1>2 DEF ClearStage, StepIsTrue, JournalIsSettled
<1>11. QED
  BY <1>1, <1>5, <1>6, <1>7, <1>8, <1>9, <1>10, OneProcessMoves

\* A settled journal says nothing of the directories.
LEMMA CreateStageKeeps == ASSUME PubInv, NEW p \in Proc, CreateStage(p) PROVE PubInv'
<1>1. pub[p].step # "idle" /\ pub \in [Proc -> Publisher]
  BY DEF CreateStage, PubInv, PubTypeOK
<1>2. StepIsTrue(p) /\ JournalIsTrue /\ StagesAreNamed /\ CurrentIsPublished /\ PubTypeOK
  BY DEF PubInv
<1>3. /\ pub[p].target \in Manifest
      /\ TransactionOf(pub[p].target) \in Transaction
      /\ JournalIsSettled
  BY <1>2, ManifestsAreNamed DEF CreateStage, StepIsTrue
<1>4. stages' = [stages EXCEPT ![TransactionOf(pub[p].target)] = Incomplete]
  BY DEF CreateStage
<1>5. /\ stages' \in [Transaction -> Manifest \cup {None, Incomplete}]
      /\ stages'[TransactionOf(pub[p].target)] = Incomplete
      /\ \A u \in Transaction : u # TransactionOf(pub[p].target) => stages'[u] = stages[u]
      /\ StagesAreNamed'
  BY <1>2, <1>3, <1>4, StageChanges, IncompleteAssumption
<1>6. Goto(p, "opened")
  BY DEF CreateStage
<1>7. /\ pub' \in [Proc -> Publisher]
      /\ pub'[p].step = ("opened")
      /\ pub'[p].mode = pub[p].mode
      /\ pub'[p].target = pub[p].target
      /\ \A q \in Proc : q # p => pub'[q] = pub[q]
  BY <1>1, <1>6, GotoMoves DEF PubStep
<1>8. PubTypeOK'
  BY <1>2, <1>5, <1>7 DEF CreateStage, PubTypeOK
<1>9. CurrentIsPublished'
  BY <1>2 DEF CreateStage, CurrentIsPublished
<1>10. JournalIsTrue'
  BY <1>2, <1>3 DEF CreateStage, JournalIsTrue, JournalIsSettled
<1>11. StepIsTrue(p)'
  BY <1>2, <1>7 DEF CreateStage, StepIsTrue, JournalIsSettled
<1>12. QED
  BY <1>1, <1>5, <1>7, <1>8, <1>9, <1>10, <1>11, OneProcessMoves

\* The journal names the caller's transaction.
LEMMA OpenJournalKeeps == ASSUME PubInv, NEW p \in Proc, OpenJournal(p) PROVE PubInv'
<1>1. pub[p].step # "idle" /\ pub \in [Proc -> Publisher]
  BY DEF OpenJournal, PubInv, PubTypeOK
<1>2. StepIsTrue(p) /\ JournalIsTrue /\ StagesAreNamed /\ CurrentIsPublished /\ PubTypeOK
  BY DEF PubInv
<1>3. /\ pub[p].target \in Manifest
      /\ TransactionOf(pub[p].target) \in Transaction
      /\ JournalIsSettled
  BY <1>2, ManifestsAreNamed DEF OpenJournal, StepIsTrue
<1>4. Goto(p, "fill")
  BY DEF OpenJournal
<1>5. /\ pub' \in [Proc -> Publisher]
      /\ pub'[p].step = ("fill")
      /\ pub'[p].mode = pub[p].mode
      /\ pub'[p].target = pub[p].target
      /\ \A q \in Proc : q # p => pub'[q] = pub[q]
  BY <1>1, <1>4, GotoMoves DEF PubStep
<1>6. /\ journal' \in Journal
      /\ journal' # None
      /\ journal'.state = "Staging"
      /\ journal'.txn = TransactionOf(pub[p].target)
  BY <1>3, JournalAssumption DEF OpenJournal, Journal, PublicationState
<1>7. PubTypeOK'
  BY <1>2, <1>5, <1>6 DEF OpenJournal, PubTypeOK
<1>8. StagesAreNamed'
  BY <1>2 DEF OpenJournal, StagesAreNamed
<1>9. CurrentIsPublished'
  BY <1>2 DEF OpenJournal, CurrentIsPublished
<1>10. JournalIsTrue'
  BY DEF OpenJournal, JournalIsTrue
<1>11. StepIsTrue(p)'
  BY <1>2, <1>5, <1>6 DEF OpenJournal, StepIsTrue
<1>12. QED
  BY <1>1, <1>5, <1>7, <1>8, <1>9, <1>10, <1>11, OneProcessMoves

\* The manifest written last names the directory it is written in.
LEMMA FillStageKeeps == ASSUME PubInv, NEW p \in Proc, FillStage(p) PROVE PubInv'
<1>1. pub[p].step # "idle" /\ pub \in [Proc -> Publisher]
  BY DEF FillStage, PubInv, PubTypeOK
<1>2. StepIsTrue(p) /\ JournalIsTrue /\ StagesAreNamed /\ CurrentIsPublished /\ PubTypeOK
  BY DEF PubInv
<1>3. journal \in Journal /\ journal # None /\ journal.txn \in Transaction
  BY <1>2 DEF FillStage, PubTypeOK, StepIsTrue, Journal
<1>4. /\ pub[p].target \in Manifest
      /\ TransactionOf(pub[p].target) \in Transaction
      /\ journal.state = "Staging" /\ journal.txn = TransactionOf(pub[p].target)
  BY <1>2, ManifestsAreNamed DEF FillStage, StepIsTrue
<1>5. stages' = [stages EXCEPT ![journal.txn] = pub[p].target]
  BY DEF FillStage
<1>6. /\ stages' \in [Transaction -> Manifest \cup {None, Incomplete}]
      /\ stages'[journal.txn] = pub[p].target
      /\ \A u \in Transaction : u # journal.txn => stages'[u] = stages[u]
      /\ StagesAreNamed'
  BY <1>2, <1>3, <1>4, <1>5, StageChanges
<1>7. Goto(p, "seal")
  BY DEF FillStage
<1>8. /\ pub' \in [Proc -> Publisher]
      /\ pub'[p].step = ("seal")
      /\ pub'[p].mode = pub[p].mode
      /\ pub'[p].target = pub[p].target
      /\ \A q \in Proc : q # p => pub'[q] = pub[q]
  BY <1>1, <1>7, GotoMoves DEF PubStep
<1>9. PubTypeOK'
  BY <1>2, <1>6, <1>8 DEF FillStage, PubTypeOK
<1>10. CurrentIsPublished'
  BY <1>2 DEF FillStage, CurrentIsPublished
<1>11. JournalIsTrue'
  BY <1>4 DEF FillStage, JournalIsTrue
<1>12. StepIsTrue(p)'
  BY <1>2, <1>6, <1>8 DEF FillStage, StepIsTrue
<1>13. QED
  BY <1>1, <1>6, <1>8, <1>9, <1>10, <1>11, <1>12, OneProcessMoves

\* The stage holds the caller's package, so the seal passes.
LEMMA SealStageKeeps == ASSUME PubInv, NEW p \in Proc, SealStage(p) PROVE PubInv'
<1>1. pub[p].step # "idle" /\ pub \in [Proc -> Publisher]
  BY DEF SealStage, PubInv, PubTypeOK
<1>2. StepIsTrue(p) /\ JournalIsTrue /\ StagesAreNamed /\ CurrentIsPublished /\ PubTypeOK
  BY DEF PubInv
<1>3. journal \in Journal /\ journal # None /\ journal.txn \in Transaction
  BY <1>2 DEF SealStage, PubTypeOK, StepIsTrue, Journal
<1>4. stages[journal.txn] \in Manifest \cup {None} /\ stages[journal.txn] # None
  BY <1>2, NoneAssumption DEF SealStage, StepIsTrue
<1>5. Goto(p, "loop") /\ JournalTo("CompleteStaged", stages[journal.txn])
  BY <1>2 DEF SealStage, GotoIf, TransactionOf, StepIsTrue
<1>6. /\ pub' \in [Proc -> Publisher]
      /\ pub'[p].step = ("loop")
      /\ pub'[p].mode = pub[p].mode
      /\ pub'[p].target = pub[p].target
      /\ \A q \in Proc : q # p => pub'[q] = pub[q]
  BY <1>1, <1>5, GotoMoves DEF PubStep
<1>7. /\ journal' \in Journal
      /\ journal' # None
      /\ journal'.state = "CompleteStaged"
      /\ journal'.manifest = stages[journal.txn]
      /\ journal'.txn = journal.txn
  BY <1>3, <1>4, <1>5, JournalAdvances DEF PublicationState
<1>8. PubTypeOK'
  BY <1>2, <1>6, <1>7 DEF SealStage, PubTypeOK
<1>9. StagesAreNamed'
  BY <1>2 DEF SealStage, StagesAreNamed
<1>10. CurrentIsPublished'
  BY <1>2 DEF SealStage, CurrentIsPublished
<1>11. JournalIsTrue'
  BY <1>2, <1>7 DEF SealStage, JournalIsTrue, Journal, StagesAreNamed
<1>12. StepIsTrue(p)'
  BY <1>6, <1>7 DEF StepIsTrue
<1>13. QED
  BY <1>1, <1>6, <1>8, <1>9, <1>10, <1>11, <1>12, OneProcessMoves

\* Entering prepare needs the job lock: nobody else may be inside.
LEMMA BeginPrepareKeeps ==
    ASSUME PubInv, NEW p \in Proc, Alone(p), BeginPrepare(p)
    PROVE  PubInv'
<1>1. CurrentIsPublished /\ PubTypeOK /\ JournalIsTrue /\ StagesAreNamed
  BY DEF PubInv
<1>2. pub' = [pub EXCEPT ![p] = [Idle EXCEPT !.step = "orphans"]]
  BY <1>1 DEF BeginPrepare, CurrentIsValid, PackageIsValid, CurrentIsPublished
<1>3. /\ pub' \in [Proc -> Publisher]
      /\ pub'[p].step = "orphans" /\ pub'[p].mode = "prepare"
      /\ \A q \in Proc : q # p => pub'[q].step = "idle"
  BY <1>1, <1>2 DEF PubTypeOK, Publisher, PubStep, Idle, Alone
<1>4. PubTypeOK' /\ StagesAreNamed' /\ CurrentIsPublished' /\ JournalIsTrue'
  BY <1>1, <1>3
     DEF BeginPrepare, PubTypeOK, StagesAreNamed, CurrentIsPublished, JournalIsTrue
<1>5. OneInside'
  BY <1>3 DEF OneInside
<1>6. \A q \in Proc : StepIsTrue(q)'
  BY <1>3 DEF StepIsTrue
<1>7. QED
  BY <1>4, <1>5, <1>6 DEF PubInv

\* The caller that prepared goes on to write.
LEMMA BeginWriteKeeps ==
    ASSUME PubInv, NEW p \in Proc, NEW target \in Manifest, BeginWrite(p, target)
    PROVE  PubInv'
<1>1. /\ CurrentIsPublished /\ PubTypeOK /\ JournalIsTrue /\ StagesAreNamed
      /\ pub[p].step = "ready" /\ StepIsTrue(p)
  BY DEF PubInv, BeginWrite
<1>2. JournalIsSettled
  BY <1>1 DEF StepIsTrue
<1>3. CurrentIsValid
  BY <1>1 DEF CurrentIsValid, PackageIsValid, CurrentIsPublished
<1>4. target.attempt \in Attempt
  BY DEF Manifest
<1>5. PICK s \in {"done", "start"}, g \in Manifest \cup {None} :
         pub' = [pub EXCEPT ![p] =
                   [step |-> s, mode |-> "write", target |-> target, got |-> g]]
  <2>1. CASE Reusable(target)
    BY <1>1, <1>3 DEF BeginWrite, PubTypeOK
  <2>2. CASE ~Reusable(target)
    BY <1>3, <2>2 DEF BeginWrite
  <2>3. QED
    BY <2>1, <2>2
<1>6. /\ pub' \in [Proc -> Publisher]
      /\ pub'[p].step \in {"done", "start"}
      /\ pub'[p].mode = "write" /\ pub'[p].target = target
      /\ \A q \in Proc : q # p => pub'[q] = pub[q]
  BY <1>1, <1>5 DEF PubTypeOK, Publisher, PubStep
<1>7. PubTypeOK' /\ StagesAreNamed' /\ CurrentIsPublished' /\ JournalIsTrue'
  BY <1>1, <1>4, <1>6
     DEF BeginWrite, PubTypeOK, StagesAreNamed, CurrentIsPublished, JournalIsTrue
<1>8. StepIsTrue(p)'
  BY <1>2, <1>6 DEF BeginWrite, StepIsTrue, JournalIsSettled
<1>9. QED
  BY <1>1, <1>6, <1>7, <1>8, OneProcessMoves

\* A process that returns or is killed leaves the disk as it is, and the disk by
\* itself is a state reconcile can go on from.
LEMMA LeavingKeeps ==
    ASSUME PubInv, NEW p \in Proc, pub' = [pub EXCEPT ![p] = Idle],
           UNCHANGED <<journal, stages, packages, current, quarantined, started, lastWrite>>
    PROVE  PubInv'
<1>1. CurrentIsPublished /\ PubTypeOK /\ JournalIsTrue /\ StagesAreNamed
  BY DEF PubInv
<1>2. /\ pub' \in [Proc -> Publisher]
      /\ pub'[p].step = "idle"
      /\ \A q \in Proc : q # p => pub'[q] = pub[q]
  BY <1>1 DEF PubTypeOK, Publisher, PubStep, Idle
<1>3. PubTypeOK' /\ StagesAreNamed' /\ CurrentIsPublished' /\ JournalIsTrue'
  BY <1>1, <1>2 DEF PubTypeOK, StagesAreNamed, CurrentIsPublished, JournalIsTrue
<1>4. OneInside'
  BY <1>2 DEF PubInv, OneInside
<1>5. \A q \in Proc : StepIsTrue(q)'
  BY <1>2 DEF PubInv, StepIsTrue, JournalIsSettled
<1>6. QED
  BY <1>3, <1>4, <1>5 DEF PubInv

-----------------------------------------------------------------------------
(* The theorems. *)

\* The invariant holds in an empty workspace.
LEMMA InitIsTrue == ASSUME PubInit PROVE PubInv
<1>1. \A p \in Proc : pub[p] = Idle
  BY DEF PubInit
<1>2. PubTypeOK
  BY DEF PubInit, PubTypeOK, Idle, Publisher, PubStep
<1>3. OneInside /\ \A p \in Proc : StepIsTrue(p)
  BY <1>1 DEF OneInside, StepIsTrue, Idle
<1>4. StagesAreNamed /\ CurrentIsPublished /\ JournalIsTrue
  BY NoneAssumption DEF PubInit, StagesAreNamed, CurrentIsPublished, JournalIsTrue
<1>5. QED
  BY <1>2, <1>3, <1>4 DEF PubInv

\* Every step of every process keeps the invariant.
LEMMA NextKeeps == ASSUME PubInv, [PubNext]_pubVars PROVE PubInv'
<1>1. CASE UNCHANGED pubVars
  BY <1>1 DEF pubVars, PubInv, PubTypeOK, OneInside, StagesAreNamed, CurrentIsPublished,
              JournalIsTrue, StepIsTrue, JournalIsSettled
<1>2. ASSUME NEW p \in Proc, Alone(p), BeginPrepare(p) PROVE PubInv'
  BY <1>2, BeginPrepareKeeps
<1>3. ASSUME NEW p \in Proc, NEW target \in Manifest, BeginWrite(p, target) PROVE PubInv'
  BY <1>3, BeginWriteKeeps
<1>4. ASSUME NEW p \in Proc, PubWork(p) PROVE PubInv'
  BY <1>4, QuarantineOrphanKeeps, OrphansDoneKeeps, QuarantineIncompleteKeeps,
     AbandonTransactionKeeps, AdoptStageKeeps, MovePackageKeeps, MarkDurableKeeps,
     SelectPackageKeeps, MarkSelectedKeeps, MarkCompleteKeeps, LeaveLoopKeeps,
     ClearStageKeeps, CreateStageKeeps, OpenJournalKeeps, FillStageKeeps, SealStageKeeps
     DEF PubWork
<1>5. ASSUME NEW p \in Proc, PubReturn(p) \/ PubAbort(p) PROVE PubInv'
  BY <1>5, LeavingKeeps DEF PubReturn, PubAbort
<1>6. QED
  BY <1>1, <1>2, <1>3, <1>4, <1>5 DEF PubNext

\* What the disk and every publisher promise at each step of the protocol holds
\* in every reachable state.
THEOREM PubInvariant == PubSpec => []PubInv
<1>1. PubInit => PubInv
  BY InitIsTrue
<1>2. PubInv /\ [PubNext]_pubVars => PubInv'
  BY NextKeeps
<1>3. QED
  BY <1>1, <1>2, PTL DEF PubSpec

\* The variables keep their types: no manifest is made of anything but what a
\* caller asked write for.
THEOREM PubTypes == PubSpec => []PubTypeOK
<1>1. PubInv => PubTypeOK
  BY DEF PubInv
<1>2. QED
  BY <1>1, PubInvariant, PTL

\* current.json never names a package that is not published whole, whatever step
\* of publish_transaction or of reconcile a process is killed in.
THEOREM SelectionIsPublished == PubSpec => []CurrentIsPublished
<1>1. PubInv => CurrentIsPublished
  BY DEF PubInv
<1>2. QED
  BY <1>1, PubInvariant, PTL

\* No kill leaves a state in which reconcile or write refuses to go on: none of
\* their validations of journal, stage, package and selection ever fails.
THEOREM RecoveryNeverRefuses == PubSpec => []CrashNeverCorrupts
<1>1. PubInv => CrashNeverCorrupts
  BY DEF PubInv, StepIsTrue, CrashNeverCorrupts
<1>2. QED
  BY <1>1, PubInvariant, PTL

-----------------------------------------------------------------------------
(* The order in which packages are staged, published and selected.  Build  *)
(* attempts only grow, so what is staged is newer than what is published,  *)
(* and one package at most waits for its selection.                        *)

\* A package that has moved is not selected yet.
Pending ==
    /\ journal # None /\ journal.state \in {"CompleteStaged", "PackageDurable"}
    /\ journal.manifest \in packages

Newest(m) == \A n \in packages \ {m} : n.attempt < m.attempt

\* A complete stage belongs to the open transaction and is newer than any package.
CompleteStagesAreNewest ==
    \A t \in Transaction : stages[t] \in Manifest =>
        /\ journal # None /\ journal.txn = t
        /\ journal.state \in {"Staging", "CompleteStaged"}
        /\ stages[t].attempt <= lastWrite
        /\ \A n \in packages : n.attempt < stages[t].attempt

PackagesAreWritten == \A n \in packages : n.attempt <= lastWrite

SelectionFollows == IF Pending THEN Newest(journal.manifest) ELSE Store!AllSelected

\* A process that is making a package makes one newer than any package.
WritingSteps == {"start", "opened", "fill", "seal"}
WriterIsAhead(p) ==
    pub[p].step \in WritingSteps =>
        /\ pub[p].target.attempt <= lastWrite
        /\ \A n \in packages : n.attempt < pub[p].target.attempt

OrderInv ==
    /\ CompleteStagesAreNewest /\ PackagesAreWritten /\ SelectionFollows
    /\ \A p \in Proc : WriterIsAhead(p)

\* Build attempts are numbers.
LEMMA AttemptsAreNumbers == \A m \in Manifest : m.attempt \in Nat
  BY MaxAttemptAssumption DEF Manifest, Attempt

\* The writers of the next state are writers of this one, with their targets.
WritersStay ==
    \A q \in Proc : pub'[q].step \in WritingSteps =>
        pub[q].step \in WritingSteps /\ pub'[q].target = pub[q].target

\* Nothing becomes complete, and neither journal, packages nor selection change.
LEMMA QuietStepKeepsOrder ==
    ASSUME PubTypeOK, OrderInv, UNCHANGED <<journal, packages, current, lastWrite>>, WritersStay,
           \A t \in Transaction : stages'[t] \in Manifest => stages'[t] = stages[t]
    PROVE  OrderInv'
<1>1. CompleteStagesAreNewest' /\ PackagesAreWritten'
  BY DEF OrderInv, CompleteStagesAreNewest, PackagesAreWritten
<1>2. SelectionFollows'
  BY DEF OrderInv, SelectionFollows, Pending, Newest, Store!AllSelected
<1>3. \A q \in Proc : WriterIsAhead(q)'
  BY DEF OrderInv, WriterIsAhead, WritersStay
<1>4. QED
  BY <1>1, <1>2, <1>3 DEF OrderInv

\* Goto to a step that makes no package, or from one such step to another.
LEMMA GotoKeepsWriters ==
    ASSUME pub \in [Proc -> Publisher], NEW p \in Proc, NEW s \in PubStep, Goto(p, s),
           s \in WritingSteps => pub[p].step \in WritingSteps
    PROVE  WritersStay
  BY GotoMoves DEF WritersStay

\* A step of reconcile or of write that neither seals, publishes nor selects.
LEMMA QuietStepsKeepOrder ==
    ASSUME PubInv, OrderInv, NEW p \in Proc,
           \/ QuarantineOrphan(p) \/ OrphansDone(p) \/ QuarantineIncomplete(p)
           \/ ClearStage(p) \/ CreateStage(p)
    PROVE  OrderInv'
<1>1. PubTypeOK /\ StepIsTrue(p)
  BY DEF PubInv
<1>2. UNCHANGED <<journal, packages, current, lastWrite>>
  BY DEF QuarantineOrphan, OrphansDone, QuarantineIncomplete, ClearStage, CreateStage
<1>3. \A t \in Transaction : stages'[t] \in Manifest => stages'[t] = stages[t]
  <2>1. \/ stages' = stages
        \/ \E t \in Transaction, v \in {None, Incomplete} : stages' = [stages EXCEPT ![t] = v]
    <3>1. CASE QuarantineOrphan(p)
      BY <3>1 DEF QuarantineOrphan, Quarantine, Orphans
    <3>2. CASE OrphansDone(p)
      BY <3>2 DEF OrphansDone
    <3>3. CASE QuarantineIncomplete(p)
      BY <1>1, <3>3 DEF QuarantineIncomplete, Quarantine, PubTypeOK, StepIsTrue, Journal
    <3>4. CASE ClearStage(p) \/ CreateStage(p)
      BY <1>1, <3>4, ManifestsAreNamed DEF ClearStage, CreateStage, Quarantine, StepIsTrue
    <3>5. QED
      BY <3>1, <3>2, <3>3, <3>4
  <2>2. QED
    BY <1>1, <2>1, NoneAssumption, IncompleteAssumption DEF PubTypeOK
<1>4. WritersStay
  <2>1. CASE QuarantineOrphan(p) \/ QuarantineIncomplete(p) \/ ClearStage(p)
    BY <2>1 DEF QuarantineOrphan, QuarantineIncomplete, ClearStage, WritersStay
  <2>2. CASE OrphansDone(p)
    BY <1>1, <2>2, GotoKeepsWriters DEF OrphansDone, PubTypeOK, PubStep, WritingSteps
  <2>3. CASE CreateStage(p)
    BY <1>1, <2>3, GotoKeepsWriters DEF CreateStage, PubTypeOK, PubStep, WritingSteps
  <2>4. QED
    BY <2>1, <2>2, <2>3
<1>5. QED
  BY <1>1, <1>2, <1>3, <1>4, QuietStepKeepsOrder

\* A process that enters prepare, leaves the loop, returns or is killed.
LEMMA ComingAndGoingKeepsOrder ==
    ASSUME PubInv, OrderInv, NEW p \in Proc,
           BeginPrepare(p) \/ LeaveLoop(p) \/ PubReturn(p) \/ PubAbort(p)
    PROVE  OrderInv'
<1>1. PubTypeOK
  BY DEF PubInv
<1>2. UNCHANGED <<journal, stages, packages, current, lastWrite>>
  BY DEF BeginPrepare, LeaveLoop, PubReturn, PubAbort
<1>3. /\ \A q \in Proc : q # p => pub'[q] = pub[q]
      /\ pub'[p].step \in {"idle", "orphans", "refused", "done", "ready"}
  <2>1. CASE BeginPrepare(p)
    BY <1>1, <2>1 DEF BeginPrepare, PubTypeOK, Idle
  <2>2. CASE LeaveLoop(p)
    BY <1>1, <2>2 DEF LeaveLoop, PubTypeOK, Publisher
  <2>3. CASE PubReturn(p) \/ PubAbort(p)
    BY <1>1, <2>3 DEF PubReturn, PubAbort, PubTypeOK, Idle
  <2>4. QED
    BY <2>1, <2>2, <2>3
<1>4. WritersStay
  BY <1>3 DEF WritersStay, WritingSteps
<1>5. QED
  BY <1>1, <1>2, <1>4, QuietStepKeepsOrder

\* Neither packages nor selection change while the journal moves on without a package
\* to wait for.
LEMMA JournalStepKeepsOrder ==
    ASSUME PubTypeOK, OrderInv, UNCHANGED <<stages, packages, current, lastWrite>>, WritersStay,
           journal' # None,
           \A t \in Transaction : stages[t] \in Manifest =>
               journal'.txn = t /\ journal'.state \in {"Staging", "CompleteStaged"},
           IF Pending' THEN Newest(journal'.manifest) ELSE Store!AllSelected
    PROVE  OrderInv'
<1>1. CompleteStagesAreNewest' /\ PackagesAreWritten'
  BY DEF OrderInv, CompleteStagesAreNewest, PackagesAreWritten
<1>2. SelectionFollows'
  BY DEF SelectionFollows, Pending, Newest, Store!AllSelected
<1>3. \A q \in Proc : WriterIsAhead(q)'
  BY DEF OrderInv, WriterIsAhead, WritersStay
<1>4. QED
  BY <1>1, <1>2, <1>3 DEF OrderInv

\* No directory was there, so no stage is complete, and no package waits.
LEMMA AbandonKeepsOrder ==
    ASSUME PubInv, OrderInv, NEW p \in Proc, AbandonTransaction(p) PROVE OrderInv'
<1>1. PubTypeOK /\ journal \in Journal /\ journal # None
  BY DEF PubInv, PubTypeOK, AbandonTransaction, StepIsTrue
<1>2. WritersStay
  BY <1>1, GotoKeepsWriters DEF AbandonTransaction, PubTypeOK, PubStep, WritingSteps
<1>3. journal' # None /\ journal'.state = "Abandoned" /\ journal'.txn = journal.txn
  BY <1>1, JournalAdvances DEF AbandonTransaction, PublicationState
<1>4. \A t \in Transaction : stages[t] \notin Manifest
  BY NoneAssumption DEF OrderInv, CompleteStagesAreNewest, AbandonTransaction
<1>5. ~Pending' /\ Store!AllSelected
  BY <1>3 DEF Pending, OrderInv, SelectionFollows, AbandonTransaction
<1>6. QED
  BY <1>1, <1>2, <1>3, <1>4, <1>5, JournalStepKeepsOrder DEF AbandonTransaction

\* The stage that reconcile adopts, or that a publisher seals, is newer than any
\* package, so it is none of them and nothing waits yet.
LEMMA SealingKeepsOrder ==
    ASSUME PubInv, OrderInv, NEW p \in Proc, AdoptStage(p) \/ SealStage(p) PROVE OrderInv'
<1>1. PubTypeOK /\ journal \in Journal /\ journal # None /\ journal.state = "Staging"
      /\ StepIsTrue(p) /\ journal.txn \in Transaction
  BY DEF PubInv, PubTypeOK, AdoptStage, SealStage, StepIsTrue, Journal
<1>2. stages[journal.txn] \in Manifest
  BY <1>1 DEF AdoptStage, SealStage, StepIsTrue
<1>3. Goto(p, "loop") /\ JournalTo("CompleteStaged", stages[journal.txn])
      /\ UNCHANGED <<stages, packages, current, lastWrite>>
  BY <1>1, <1>2 DEF AdoptStage, SealStage, GotoIf, TransactionOf, StagesAreNamed, PubInv
<1>4. WritersStay
  BY <1>1, <1>3, GotoKeepsWriters DEF PubTypeOK, PubStep, WritingSteps
<1>5. /\ journal' # None /\ journal'.state = "CompleteStaged"
      /\ journal'.txn = journal.txn /\ journal'.manifest = stages[journal.txn]
  BY <1>1, <1>2, <1>3, JournalAdvances DEF PublicationState
<1>6. \A t \in Transaction : stages[t] \in Manifest => journal'.txn = t
  BY <1>5 DEF OrderInv, CompleteStagesAreNewest
<1>7. stages[journal.txn] \notin packages
  BY <1>1, <1>2, AttemptsAreNumbers DEF OrderInv, CompleteStagesAreNewest
<1>8. ~Pending' /\ Store!AllSelected
  BY <1>1, <1>3, <1>5, <1>7 DEF Pending, OrderInv, SelectionFollows
<1>9. QED
  BY <1>1, <1>3, <1>4, <1>5, <1>6, <1>8, JournalStepKeepsOrder

\* The package that has moved waits on.
LEMMA MarkDurableKeepsOrder ==
    ASSUME PubInv, OrderInv, NEW p \in Proc, MarkDurable(p) PROVE OrderInv'
<1>1. PubTypeOK /\ journal \in Journal /\ journal # None /\ JournalIsTrue
  BY DEF PubInv, PubTypeOK, MarkDurable, StepIsTrue
<1>2. journal.manifest \in Manifest /\ journal.manifest \in packages
  BY <1>1, NoneAssumption DEF MarkDurable, JournalIsTrue
<1>3. Goto(p, "loop") /\ JournalTo("PackageDurable", journal.manifest)
      /\ UNCHANGED <<stages, packages, current, lastWrite>>
  BY <1>2 DEF MarkDurable, GotoIf, PackageIsValid
<1>4. WritersStay
  BY <1>1, <1>3, GotoKeepsWriters DEF PubTypeOK, PubStep, WritingSteps
<1>5. journal' # None /\ journal'.state = "PackageDurable" /\ journal'.manifest = journal.manifest
  BY <1>1, <1>2, <1>3, JournalAdvances DEF PublicationState
<1>6. \A t \in Transaction : stages[t] \notin Manifest
  BY NoneAssumption DEF OrderInv, CompleteStagesAreNewest, MarkDurable
<1>7. Pending /\ Newest(journal.manifest)
  BY <1>1, <1>2 DEF Pending, OrderInv, SelectionFollows, MarkDurable
<1>8. QED
  BY <1>1, <1>2, <1>3, <1>4, <1>5, <1>6, <1>7, JournalStepKeepsOrder DEF Pending

\* What waited is selected, and every other package is older.
LEMMA MarkSelectedKeepsOrder ==
    ASSUME PubInv, OrderInv, NEW p \in Proc, MarkSelected(p) PROVE OrderInv'
<1>1. /\ PubTypeOK /\ journal \in Journal /\ journal # None /\ JournalIsTrue
      /\ journal.state = "PackageDurable" /\ current = journal.manifest
  BY DEF PubInv, PubTypeOK, MarkSelected, StepIsTrue
<1>2. journal.manifest \in Manifest /\ journal.manifest \in packages
  BY <1>1 DEF JournalIsTrue
<1>3. Goto(p, "loop") /\ JournalTo("Selected", journal.manifest)
      /\ UNCHANGED <<stages, packages, current, lastWrite>>
  BY DEF MarkSelected
<1>4. WritersStay
  BY <1>1, <1>3, GotoKeepsWriters DEF PubTypeOK, PubStep, WritingSteps
<1>5. journal' # None /\ journal'.state = "Selected"
  BY <1>1, <1>2, <1>3, JournalAdvances DEF PublicationState
<1>6. \A t \in Transaction : stages[t] \notin Manifest
  BY <1>1 DEF OrderInv, CompleteStagesAreNewest
<1>7. Newest(current) /\ ~Pending'
  BY <1>1, <1>2, <1>5 DEF Pending, OrderInv, SelectionFollows
<1>8. Store!AllSelected
  BY <1>1, <1>2, <1>7, NoneAssumption DEF Newest, Store!AllSelected
<1>9. QED
  BY <1>1, <1>3, <1>4, <1>5, <1>6, <1>7, <1>8, JournalStepKeepsOrder

\* The transaction ends; no package waits for it.
LEMMA MarkCompleteKeepsOrder ==
    ASSUME PubInv, OrderInv, NEW p \in Proc, MarkComplete(p) PROVE OrderInv'
<1>1. PubTypeOK /\ journal \in Journal /\ journal # None /\ JournalIsTrue
  BY DEF PubInv, PubTypeOK, MarkComplete, StepIsTrue
<1>2. /\ journal.manifest \in Manifest /\ journal.manifest \in packages
      /\ current = journal.manifest /\ TransactionOf(journal.manifest) = journal.txn
  BY <1>1 DEF JournalIsTrue, MarkComplete
<1>3. Goto(p, "loop") /\ JournalTo("Complete", journal.manifest)
      /\ UNCHANGED <<stages, packages, current, lastWrite>>
  BY <1>2, NoneAssumption DEF MarkComplete, GotoIf, SelectedIsValid, PackageIsValid, TransactionOf
<1>4. WritersStay
  BY <1>1, <1>3, GotoKeepsWriters DEF PubTypeOK, PubStep, WritingSteps
<1>5. journal' # None /\ journal'.state = "Complete"
  BY <1>1, <1>2, <1>3, JournalAdvances DEF PublicationState
<1>6. \A t \in Transaction : stages[t] \notin Manifest
  BY DEF OrderInv, CompleteStagesAreNewest, MarkComplete
<1>7. Store!AllSelected /\ ~Pending'
  BY <1>5 DEF Pending, OrderInv, SelectionFollows, MarkComplete
<1>8. QED
  BY <1>1, <1>3, <1>4, <1>5, <1>6, <1>7, JournalStepKeepsOrder

\* A settled journal leaves no complete stage and no waiting package behind.
LEMMA OpenJournalKeepsOrder ==
    ASSUME PubInv, OrderInv, NEW p \in Proc, OpenJournal(p) PROVE OrderInv'
<1>1. PubTypeOK /\ JournalIsSettled
  BY DEF PubInv, OpenJournal, StepIsTrue
<1>2. Goto(p, "fill") /\ UNCHANGED <<stages, packages, current, lastWrite>>
  BY DEF OpenJournal
<1>3. WritersStay
  BY <1>1, <1>2, GotoKeepsWriters DEF OpenJournal, PubTypeOK, PubStep, WritingSteps
<1>4. \A t \in Transaction : stages[t] \notin Manifest
  BY <1>1 DEF OrderInv, CompleteStagesAreNewest, JournalIsSettled
<1>5. journal'.state = "Staging" /\ journal' # None
  <2>1. pub[p].target \in Manifest
    BY DEF PubInv, OpenJournal, StepIsTrue
  <2>2. journal' \in Journal
    BY <2>1, ManifestsAreNamed DEF OpenJournal, Journal, PublicationState
  <2>3. QED
    BY <2>2, JournalAssumption DEF OpenJournal
<1>6. Store!AllSelected /\ ~Pending'
  BY <1>1, <1>5 DEF Pending, OrderInv, SelectionFollows, JournalIsSettled
<1>7. QED
  BY <1>1, <1>2, <1>3, <1>4, <1>5, <1>6, JournalStepKeepsOrder

\* The package moves: it is newer than the rest, and all of these were selected.
LEMMA MovePackageKeepsOrder ==
    ASSUME PubInv, OrderInv, NEW p \in Proc, MovePackage(p)
    PROVE  OrderInv' /\ Store!Publish
<1>1. /\ PubTypeOK /\ journal \in Journal /\ journal # None /\ JournalIsTrue
      /\ journal.txn \in Transaction /\ journal.state = "CompleteStaged"
  BY DEF PubInv, PubTypeOK, MovePackage, StepIsTrue, Journal
<1>2. stages[journal.txn] = journal.manifest /\ journal.manifest \in Manifest
  BY <1>1 DEF MovePackage, JournalIsTrue
<1>3. /\ stages' = [stages EXCEPT ![journal.txn] = None]
      /\ packages' = packages \cup {journal.manifest}
      /\ UNCHANGED <<journal, current, lastWrite, pub>>
  BY <1>2 DEF MovePackage
<1>4. /\ \A n \in packages : n.attempt < journal.manifest.attempt
      /\ journal.manifest.attempt <= lastWrite
  BY <1>1, <1>2 DEF OrderInv, CompleteStagesAreNewest
<1>5. Store!AllSelected
  BY <1>1, <1>2, <1>4, AttemptsAreNumbers DEF OrderInv, SelectionFollows, Pending
<1>6. Store!Publish
  BY <1>2, <1>3, <1>4, <1>5 DEF Store!Publish
<1>7. CompleteStagesAreNewest'
  <2>1. \A t \in Transaction : stages'[t] \notin Manifest
    BY <1>1, <1>3, NoneAssumption DEF OrderInv, CompleteStagesAreNewest, PubTypeOK
  <2>2. QED
    BY <2>1 DEF CompleteStagesAreNewest
<1>8. PackagesAreWritten'
  BY <1>3, <1>4 DEF OrderInv, PackagesAreWritten
<1>9. SelectionFollows'
  BY <1>1, <1>3, <1>4 DEF SelectionFollows, Pending, Newest
<1>10. \A q \in Proc : WriterIsAhead(q)'
  <2>1. \A q \in Proc : q # p => pub[q].step = "idle"
    BY DEF PubInv, OneInside, MovePackage
  <2>2. QED
    BY <1>3, <2>1 DEF MovePackage, WriterIsAhead, WritingSteps
<1>11. QED
  BY <1>6, <1>7, <1>8, <1>9, <1>10 DEF OrderInv

\* The selection moves to the package that waits, the newest one.
LEMMA SelectPackageKeepsOrder ==
    ASSUME PubInv, OrderInv, NEW p \in Proc, SelectPackage(p)
    PROVE  OrderInv' /\ (Store!Select \/ UNCHANGED <<packages, current>>)
<1>1. /\ PubTypeOK /\ journal \in Journal /\ journal # None /\ JournalIsTrue
      /\ journal.state = "PackageDurable"
  BY DEF PubInv, PubTypeOK, SelectPackage, StepIsTrue
<1>2. journal.manifest \in packages /\ Pending /\ Newest(journal.manifest)
  BY <1>1 DEF JournalIsTrue, Pending, OrderInv, SelectionFollows
<1>3. /\ Goto(p, "selected") /\ current' = journal.manifest
      /\ UNCHANGED <<journal, stages, packages, lastWrite>>
  BY <1>2 DEF SelectPackage, GotoIf, PackageIsValid, CurrentIsValid, CurrentIsPublished, PubInv
<1>4. Store!Select \/ UNCHANGED <<packages, current>>
  BY <1>2, <1>3 DEF Store!Select, Newest
<1>5. WritersStay
  BY <1>1, <1>3, GotoKeepsWriters DEF PubTypeOK, PubStep, WritingSteps
<1>6. CompleteStagesAreNewest' /\ PackagesAreWritten'
  BY <1>3 DEF OrderInv, CompleteStagesAreNewest, PackagesAreWritten
<1>7. SelectionFollows'
  BY <1>2, <1>3 DEF SelectionFollows, Pending, Newest
<1>8. \A q \in Proc : WriterIsAhead(q)'
  BY <1>3, <1>5 DEF OrderInv, WriterIsAhead, WritersStay
<1>9. QED
  BY <1>4, <1>6, <1>7, <1>8 DEF OrderInv

\* The stage that is completed holds the writer's package, which is ahead.
LEMMA FillStageKeepsOrder ==
    ASSUME PubInv, OrderInv, NEW p \in Proc, FillStage(p) PROVE OrderInv'
<1>1. /\ PubTypeOK /\ journal \in Journal /\ journal # None /\ journal.state = "Staging"
      /\ journal.txn \in Transaction /\ pub[p].target \in Manifest
  BY DEF PubInv, PubTypeOK, FillStage, StepIsTrue, Journal
<1>2. /\ stages' = [stages EXCEPT ![journal.txn] = pub[p].target] /\ Goto(p, "seal")
      /\ UNCHANGED <<journal, packages, current, lastWrite>>
  BY DEF FillStage
<1>3. WritersStay
  BY <1>1, <1>2, GotoKeepsWriters DEF FillStage, PubTypeOK, PubStep, WritingSteps
<1>4. CompleteStagesAreNewest'
  BY <1>1, <1>2 DEF FillStage, OrderInv, CompleteStagesAreNewest, WriterIsAhead, WritingSteps, PubTypeOK
<1>5. PackagesAreWritten' /\ SelectionFollows'
  BY <1>2 DEF OrderInv, PackagesAreWritten, SelectionFollows, Pending, Newest, Store!AllSelected
<1>6. \A q \in Proc : WriterIsAhead(q)'
  BY <1>2, <1>3 DEF OrderInv, WriterIsAhead, WritersStay
<1>7. QED
  BY <1>4, <1>5, <1>6 DEF OrderInv

\* A package that is begun is newer than all that were written.
LEMMA BeginWriteKeepsOrder ==
    ASSUME PubInv, OrderInv, NEW p \in Proc, NEW target \in Manifest,
           target.attempt > lastWrite, BeginWrite(p, target)
    PROVE  OrderInv'
<1>1. PubTypeOK /\ packages \subseteq Manifest /\ lastWrite \in Nat /\ target.attempt \in Nat
  BY MaxAttemptAssumption, AttemptsAreNumbers DEF PubInv, PubTypeOK, Attempt
<1>2. lastWrite' = target.attempt /\ UNCHANGED <<journal, stages, packages, current>>
  BY DEF BeginWrite
<1>3. /\ pub'[p].target = target
      /\ \A q \in Proc : q # p => pub'[q] = pub[q] /\ pub[q].step = "idle"
  BY <1>1 DEF BeginWrite, PubTypeOK, PubInv, OneInside
<1>4. CompleteStagesAreNewest' /\ PackagesAreWritten'
  BY <1>1, <1>2, AttemptsAreNumbers DEF OrderInv, CompleteStagesAreNewest, PackagesAreWritten
<1>5. SelectionFollows'
  BY <1>2 DEF OrderInv, SelectionFollows, Pending, Newest, Store!AllSelected
<1>6. \A q \in Proc : WriterIsAhead(q)'
  BY <1>1, <1>2, <1>3, AttemptsAreNumbers DEF OrderInv, PackagesAreWritten, WriterIsAhead, WritingSteps
<1>7. QED
  BY <1>4, <1>5, <1>6 DEF OrderInv

\* Every step keeps the order, and a reader of previews/<job-id> sees it as a step of
\* the store or as none.
LEMMA NextKeepsOrder ==
    ASSUME PubInv, OrderInv, [PubNext]_pubVars
    PROVE  OrderInv' /\ [Store!StoreNext]_<<packages, current>>
<1>1. CASE UNCHANGED pubVars
  <2>1. PubTypeOK /\ WritersStay
    BY <1>1 DEF PubInv, pubVars, WritersStay
  <2>2. QED
    BY <1>1, <2>1, QuietStepKeepsOrder DEF pubVars
<1>2. ASSUME NEW p \in Proc, NEW target \in Manifest, target.attempt > lastWrite, BeginWrite(p, target)
      PROVE  OrderInv' /\ UNCHANGED <<packages, current>>
  BY <1>2, BeginWriteKeepsOrder DEF BeginWrite
<1>3. ASSUME NEW p \in Proc, BeginPrepare(p) \/ LeaveLoop(p) \/ PubReturn(p) \/ PubAbort(p)
      PROVE  OrderInv' /\ UNCHANGED <<packages, current>>
  BY <1>3, ComingAndGoingKeepsOrder DEF BeginPrepare, LeaveLoop, PubReturn, PubAbort
<1>4. ASSUME NEW p \in Proc,
             \/ QuarantineOrphan(p) \/ OrphansDone(p) \/ QuarantineIncomplete(p)
             \/ ClearStage(p) \/ CreateStage(p)
      PROVE  OrderInv' /\ UNCHANGED <<packages, current>>
  BY <1>4, QuietStepsKeepOrder
     DEF QuarantineOrphan, OrphansDone, QuarantineIncomplete, ClearStage, CreateStage
<1>5. ASSUME NEW p \in Proc,
             \/ AbandonTransaction(p) \/ AdoptStage(p) \/ SealStage(p) \/ MarkDurable(p)
             \/ MarkSelected(p) \/ MarkComplete(p) \/ OpenJournal(p)
      PROVE  OrderInv' /\ UNCHANGED <<packages, current>>
  BY <1>5, AbandonKeepsOrder, SealingKeepsOrder, MarkDurableKeepsOrder, MarkSelectedKeepsOrder,
     MarkCompleteKeepsOrder, OpenJournalKeepsOrder
     DEF AbandonTransaction, AdoptStage, SealStage, MarkDurable, MarkSelected, MarkComplete, OpenJournal
<1>6. ASSUME NEW p \in Proc, FillStage(p) PROVE OrderInv' /\ UNCHANGED <<packages, current>>
  BY <1>6, FillStageKeepsOrder DEF FillStage
<1>7. ASSUME NEW p \in Proc, MovePackage(p) \/ SelectPackage(p)
      PROVE  OrderInv' /\ [Store!StoreNext]_<<packages, current>>
  BY <1>7, MovePackageKeepsOrder, SelectPackageKeepsOrder DEF Store!StoreNext
<1>8. QED
  BY <1>1, <1>2, <1>3, <1>4, <1>5, <1>6, <1>7 DEF PubNext, PubWork, pubVars

-----------------------------------------------------------------------------
(* What write returns. *)

\* The package a publisher carries through the loop is its target, and the one it
\* returns is selected and of its plan, tools and source.
WriterReturnsItsOwn(p) ==
    /\ pub[p].mode = "write" /\ pub[p].step \in {"loop", "selected"} =>
          journal.manifest = pub[p].target
    /\ pub[p].step = "done" =>
          /\ pub[p].got = current
          /\ current.plan = pub[p].target.plan
          /\ current.tools = pub[p].target.tools
          /\ current.source = pub[p].target.source

ReturnInv == \A p \in Proc : WriterReturnsItsOwn(p)

\* Whoever moves is alone inside, so its own claim is the only one.
LEMMA OneWriterReturns ==
    ASSUME PubInv, NEW p \in Proc, pub[p].step # "idle",
           \A q \in Proc : q # p => pub'[q] = pub[q], WriterReturnsItsOwn(p)'
    PROVE  ReturnInv'
  BY DEF PubInv, OneInside, ReturnInv, WriterReturnsItsOwn

\* Along the loop and at its end the package is the writer's.
LEMMA WorkKeepsReturn ==
    ASSUME PubInv, PubInv', ReturnInv, NEW p \in Proc, PubWork(p) PROVE ReturnInv'
<1>1. /\ PubTypeOK /\ PubTypeOK' /\ StepIsTrue(p) /\ StepIsTrue(p)' /\ WriterReturnsItsOwn(p)
      /\ JournalIsTrue /\ pub \in [Proc -> Publisher] /\ pub[p] \in Publisher
  BY DEF PubInv, ReturnInv, PubTypeOK
<1>2. pub[p].step # "idle"
  BY DEF PubWork, QuarantineOrphan, OrphansDone, QuarantineIncomplete, AbandonTransaction,
         AdoptStage, MovePackage, MarkDurable, SelectPackage, MarkSelected, MarkComplete,
         LeaveLoop, ClearStage, CreateStage, OpenJournal, FillStage, SealStage
<1>3. CASE QuarantineOrphan(p) \/ QuarantineIncomplete(p) \/ ClearStage(p)
  BY <1>3 DEF QuarantineOrphan, QuarantineIncomplete, ClearStage, ReturnInv, WriterReturnsItsOwn
<1>4. CASE LeaveLoop(p)
  <2>1. /\ \A q \in Proc : q # p => pub'[q] = pub[q]
        /\ pub'[p].got = current /\ pub'[p].step \in {"done", "ready", "refused"}
        /\ pub'[p].target = pub[p].target
        /\ pub'[p].step = "done" => pub[p].mode = "write"
    BY <1>1, <1>4 DEF LeaveLoop, Publisher
  <2>2. pub'[p].step = "done" => current = pub[p].target
    <3>1. pub'[p].step = "done" => journal.state = "Complete" /\ journal.manifest = pub[p].target
      BY <1>1, <1>4, <2>1 DEF LeaveLoop, StepIsTrue, WriterReturnsItsOwn
    <3>2. QED
      BY <1>1, <1>4, <3>1 DEF LeaveLoop, StepIsTrue, JournalIsTrue
  <2>3. WriterReturnsItsOwn(p)'
    BY <1>4, <2>1, <2>2 DEF LeaveLoop, WriterReturnsItsOwn
  <2>4. QED
    BY <1>2, <2>1, <2>3, OneWriterReturns
<1>5. ASSUME NEW s \in PubStep, Goto(p, s), s # "done",
             pub[p].mode = "write" /\ s \in {"loop", "selected"} => journal'.manifest = pub[p].target
      PROVE  ReturnInv'
  <2>1. /\ \A q \in Proc : q # p => pub'[q] = pub[q]
        /\ pub'[p].step = s /\ pub'[p].mode = pub[p].mode /\ pub'[p].target = pub[p].target
    BY <1>1, <1>5, GotoMoves
  <2>2. WriterReturnsItsOwn(p)'
    BY <1>5, <2>1 DEF WriterReturnsItsOwn
  <2>3. QED
    BY <1>2, <2>1, <2>2, OneWriterReturns
<1>6. CASE OrphansDone(p)
  BY <1>1, <1>5, <1>6 DEF OrphansDone, StepIsTrue, PubStep
<1>7. CASE AbandonTransaction(p)
  BY <1>5, <1>7 DEF AbandonTransaction, PubStep
<1>8. CASE AdoptStage(p)
  <2>1. pub[p].mode # "write"
    BY <1>1, <1>8 DEF AdoptStage, StepIsTrue
  <2>2. PICK s \in {"loop", "refused"} : Goto(p, s)
    BY <1>8 DEF AdoptStage, GotoIf
  <2>3. QED
    BY <1>5, <2>1, <2>2 DEF PubStep
<1>9. CASE SealStage(p)
  <2>1. stages[journal.txn] = pub[p].target /\ pub[p].target \in Manifest /\ journal \in Journal
        /\ journal.txn = TransactionOf(pub[p].target)
    BY <1>1, <1>9 DEF SealStage, StepIsTrue, PubTypeOK
  <2>2. Goto(p, "loop") /\ JournalTo("CompleteStaged", pub[p].target)
    BY <2>1, <1>9 DEF SealStage, GotoIf, TransactionOf
  <2>3. journal'.manifest = pub[p].target
    BY <2>1, <2>2, JournalAdvances DEF PublicationState
  <2>4. QED
    BY <1>5, <2>2, <2>3 DEF PubStep
<1>10. CASE MovePackage(p)
  <2>1. UNCHANGED <<journal, current>> /\ (pub' = pub \/ Goto(p, "refused"))
    BY <1>10 DEF MovePackage
  <2>2. CASE pub' = pub
    BY <2>1, <2>2 DEF ReturnInv, WriterReturnsItsOwn
  <2>3. QED
    BY <1>5, <2>1, <2>2 DEF PubStep
<1>11. CASE MarkDurable(p) \/ MarkComplete(p) \/ MarkSelected(p) \/ SelectPackage(p)
  <2>1. PICK s \in {"loop", "selected", "refused"} : Goto(p, s)
    BY <1>11 DEF MarkDurable, MarkComplete, MarkSelected, SelectPackage, GotoIf
  <2>2. journal'.manifest = journal.manifest
    <3>1. journal \in Journal /\ journal.manifest \in Manifest \cup {None}
      BY <1>1, <1>11
         DEF MarkDurable, MarkComplete, MarkSelected, SelectPackage, StepIsTrue, PubTypeOK, Journal
    <3>2. journal' = journal \/ \E t \in PublicationState : JournalTo(t, journal.manifest)
      BY <1>11 DEF MarkDurable, MarkComplete, MarkSelected, SelectPackage, PublicationState
    <3>3. QED
      BY <3>1, <3>2, JournalAdvances
  <2>3. pub[p].mode = "write" => journal.manifest = pub[p].target
    BY <1>1, <1>11 DEF MarkDurable, MarkComplete, MarkSelected, SelectPackage, WriterReturnsItsOwn
  <2>4. QED
    BY <1>5, <2>1, <2>2, <2>3 DEF PubStep
<1>12. CASE CreateStage(p)
  BY <1>5, <1>12 DEF CreateStage, PubStep
<1>13. CASE OpenJournal(p) \/ FillStage(p)
  BY <1>5, <1>13 DEF OpenJournal, FillStage, PubStep
<1>14. QED
  BY <1>3, <1>4, <1>6, <1>7, <1>8, <1>9, <1>10, <1>11, <1>12, <1>13 DEF PubWork

\* write finds the selected package or goes on to make one.
LEMMA NextKeepsReturn ==
    ASSUME PubInv, PubInv', ReturnInv, [PubNext]_pubVars PROVE ReturnInv'
<1>1. CASE UNCHANGED pubVars
  BY <1>1 DEF pubVars, ReturnInv, WriterReturnsItsOwn
<1>2. ASSUME NEW p \in Proc, NEW target \in Manifest, BeginWrite(p, target) PROVE ReturnInv'
  <2>1. /\ pub[p].step # "idle" /\ \A q \in Proc : q # p => pub'[q] = pub[q]
        /\ pub'[p].target = target /\ pub'[p].step \in {"refused", "done", "start"}
        /\ (pub'[p].step = "done" => Reusable(target) /\ pub'[p].got = current)
    BY <1>2 DEF BeginWrite, PubInv, PubTypeOK
  <2>2. WriterReturnsItsOwn(p)'
    BY <1>2, <2>1 DEF BeginWrite, Reusable, WriterReturnsItsOwn
  <2>3. QED
    BY <2>1, <2>2, OneWriterReturns
<1>3. ASSUME NEW p \in Proc, Alone(p), BeginPrepare(p) PROVE ReturnInv'
  <2>1. \A q \in Proc : pub'[q].step \in {"idle", "orphans", "refused"}
    BY <1>3 DEF BeginPrepare, Alone, PubInv, PubTypeOK, Idle
  <2>2. QED
    BY <2>1 DEF ReturnInv, WriterReturnsItsOwn
<1>4. ASSUME NEW p \in Proc, pub[p].step # "idle", PubReturn(p) \/ PubAbort(p) PROVE ReturnInv'
  <2>1. pub'[p].step = "idle" /\ \A q \in Proc : q # p => pub'[q] = pub[q]
    BY <1>4 DEF PubReturn, PubAbort, PubInv, PubTypeOK, Idle
  <2>2. QED
    BY <1>4, <2>1, OneWriterReturns DEF WriterReturnsItsOwn
<1>5. QED
  BY <1>1, <1>2, <1>3, <1>4, WorkKeepsReturn DEF PubNext, PubReturn

-----------------------------------------------------------------------------
(* The staging directories that were ever created. *)

Staged == {t \in Transaction : stages[t] # None}

\* A transaction that is opened keeps its directory until it is filled.
WriterHasStage(p) ==
    pub[p].step \in {"opened", "fill"} => stages[TransactionOf(pub[p].target)] # None

EvidenceInv ==
    /\ IsFiniteSet(Staged) /\ IsFiniteSet(packages)
    /\ started = Cardinality(Staged) + Cardinality(packages) + quarantined
    /\ \A p \in Proc : WriterHasStage(p)

\* Whether a directory is there, one directory at a time.
LEMMA StageGoes ==
    ASSUME PubTypeOK, IsFiniteSet(Staged), NEW t \in Transaction, stages[t] # None,
           stages' = [stages EXCEPT ![t] = None]
    PROVE  /\ IsFiniteSet(Staged') /\ Cardinality(Staged) \in Nat
           /\ Cardinality(Staged') \in Nat /\ Cardinality(Staged') = Cardinality(Staged) - 1
<1>1. Staged' = Staged \ {t} /\ t \in Staged
  BY DEF PubTypeOK, Staged
<1>2. QED
  BY <1>1, FS_RemoveElement, FS_CardinalityType

\* A directory appears where none was: one more.
LEMMA StageComes ==
    ASSUME PubTypeOK, IsFiniteSet(Staged), NEW t \in Transaction, stages[t] = None,
           NEW v, v # None, stages' = [stages EXCEPT ![t] = v]
    PROVE  /\ IsFiniteSet(Staged') /\ Cardinality(Staged) \in Nat
           /\ Cardinality(Staged') = Cardinality(Staged) + 1
<1>1. Staged' = Staged \cup {t} /\ t \notin Staged
  BY DEF PubTypeOK, Staged
<1>2. QED
  BY <1>1, FS_AddElement, FS_CardinalityType

\* A directory that is filled stays one directory.
LEMMA StageIsFilled ==
    ASSUME PubTypeOK, NEW t \in Transaction, stages[t] # None,
           NEW v, v # None, stages' = [stages EXCEPT ![t] = v]
    PROVE  Staged' = Staged
  BY DEF PubTypeOK, Staged

\* Only the one process inside can have a directory of its own.
LEMMA OneWriterHasStage ==
    ASSUME PubInv, NEW p \in Proc, pub[p].step # "idle",
           \A q \in Proc : q # p => pub'[q] = pub[q], WriterHasStage(p)'
    PROVE  \A q \in Proc : WriterHasStage(q)'
  BY DEF PubInv, OneInside, WriterHasStage

\* A directory goes to quarantine.
LEMMA QuarantiningKeepsEvidence ==
    ASSUME PubInv, EvidenceInv, NEW p \in Proc,
           QuarantineOrphan(p) \/ QuarantineIncomplete(p) \/ ClearStage(p)
    PROVE  EvidenceInv'
<1>1. PubTypeOK /\ StepIsTrue(p)
  BY DEF PubInv
<1>2. PICK t \in Transaction : stages[t] # None /\ Quarantine(t)
  <2>1. CASE QuarantineOrphan(p)
    BY <2>1 DEF QuarantineOrphan, Orphans
  <2>2. CASE QuarantineIncomplete(p)
    BY <1>1, <2>2, IncompleteAssumption DEF QuarantineIncomplete, PubTypeOK, StepIsTrue, Journal
  <2>3. CASE ClearStage(p)
    BY <1>1, <2>3, ManifestsAreNamed DEF ClearStage, StepIsTrue
  <2>4. QED
    BY <2>1, <2>2, <2>3
<1>3. stages' = [stages EXCEPT ![t] = None] /\ quarantined' = quarantined + 1
      /\ UNCHANGED <<packages, started, pub>>
  BY <1>2 DEF Quarantine, QuarantineOrphan, QuarantineIncomplete, ClearStage
<1>4. /\ IsFiniteSet(Staged') /\ Cardinality(Staged) \in Nat
      /\ Cardinality(Staged') \in Nat /\ Cardinality(Staged') = Cardinality(Staged) - 1
  BY <1>1, <1>2, <1>3, StageGoes DEF EvidenceInv
<1>5. IsFiniteSet(packages') /\ Cardinality(packages) \in Nat
  BY <1>3, FS_CardinalityType DEF EvidenceInv
<1>6. started' = Cardinality(Staged') + Cardinality(packages') + quarantined'
  BY <1>1, <1>3, <1>4, <1>5 DEF EvidenceInv, PubTypeOK
<1>7. pub[p].step \in {"orphans", "loop", "start"}
  BY DEF QuarantineOrphan, QuarantineIncomplete, ClearStage
<1>8. \A q \in Proc : WriterHasStage(q)'
  BY <1>3, <1>7, OneWriterHasStage DEF WriterHasStage
<1>9. QED
  BY <1>4, <1>5, <1>6, <1>8 DEF EvidenceInv

\* A directory appears.
LEMMA CreateStageKeepsEvidence ==
    ASSUME PubInv, EvidenceInv, NEW p \in Proc, CreateStage(p) PROVE EvidenceInv'
<1>1. PubTypeOK /\ TransactionOf(pub[p].target) \in Transaction
  BY ManifestsAreNamed DEF PubInv, StepIsTrue, CreateStage
<1>2. stages' = [stages EXCEPT ![TransactionOf(pub[p].target)] = Incomplete]
      /\ stages[TransactionOf(pub[p].target)] = None /\ Incomplete # None
      /\ started' = started + 1 /\ UNCHANGED <<packages, quarantined>> /\ Goto(p, "opened")
  BY IncompleteAssumption DEF CreateStage
<1>3. /\ IsFiniteSet(Staged') /\ Cardinality(Staged) \in Nat
      /\ Cardinality(Staged') = Cardinality(Staged) + 1
  BY <1>1, <1>2, StageComes DEF EvidenceInv
<1>4. IsFiniteSet(packages') /\ Cardinality(packages) \in Nat
  BY <1>2, FS_CardinalityType DEF EvidenceInv
<1>5. started' = Cardinality(Staged') + Cardinality(packages') + quarantined'
  BY <1>1, <1>2, <1>3, <1>4 DEF EvidenceInv, PubTypeOK
<1>6. pub'[p].target = pub[p].target /\ \A q \in Proc : q # p => pub'[q] = pub[q]
  BY <1>1, <1>2, GotoMoves DEF PubTypeOK, PubStep
<1>7. WriterHasStage(p)'
  BY <1>1, <1>2, <1>6 DEF WriterHasStage, PubTypeOK
<1>8. \A q \in Proc : WriterHasStage(q)'
  BY <1>6, <1>7, OneWriterHasStage DEF CreateStage
<1>9. QED
  BY <1>3, <1>4, <1>5, <1>8 DEF EvidenceInv

\* The directory becomes a package, or evidence when the package exists already.
LEMMA MovePackageKeepsEvidence ==
    ASSUME PubInv, EvidenceInv, NEW p \in Proc, MovePackage(p) PROVE EvidenceInv'
<1>1. PubTypeOK /\ journal # None /\ journal \in Journal /\ journal.txn \in Transaction /\ JournalIsTrue
  BY DEF PubInv, PubTypeOK, MovePackage, StepIsTrue, Journal
<1>2. stages[journal.txn] = journal.manifest /\ stages[journal.txn] # None
  BY <1>1 DEF MovePackage, JournalIsTrue
<1>3. /\ stages' = [stages EXCEPT ![journal.txn] = None]
      /\ packages' = packages \cup {journal.manifest}
      /\ quarantined' = quarantined + (IF journal.manifest \in packages THEN 1 ELSE 0)
      /\ UNCHANGED <<started, pub>>
  BY <1>2 DEF MovePackage
<1>4. /\ IsFiniteSet(Staged') /\ Cardinality(Staged) \in Nat
      /\ Cardinality(Staged') \in Nat /\ Cardinality(Staged') = Cardinality(Staged) - 1
  BY <1>1, <1>2, <1>3, StageGoes DEF EvidenceInv
<1>5. /\ IsFiniteSet(packages') /\ Cardinality(packages) \in Nat
      /\ Cardinality(packages') =
            IF journal.manifest \in packages THEN Cardinality(packages) ELSE Cardinality(packages) + 1
  BY <1>3, FS_AddElement, FS_CardinalityType DEF EvidenceInv
<1>6. started' = Cardinality(Staged') + Cardinality(packages') + quarantined'
  BY <1>1, <1>3, <1>4, <1>5 DEF EvidenceInv, PubTypeOK
<1>7. \A q \in Proc : WriterHasStage(q)'
  BY <1>3, OneWriterHasStage DEF WriterHasStage, MovePackage
<1>8. QED
  BY <1>4, <1>5, <1>6, <1>7 DEF EvidenceInv

\* The manifest is written into the directory that is there.
LEMMA FillStageKeepsEvidence ==
    ASSUME PubInv, EvidenceInv, NEW p \in Proc, FillStage(p) PROVE EvidenceInv'
<1>1. /\ PubTypeOK /\ pub[p].target \in Manifest /\ journal.txn = TransactionOf(pub[p].target)
      /\ journal.txn \in Transaction /\ stages[journal.txn] # None
  BY ManifestsAreNamed DEF PubInv, StepIsTrue, FillStage, EvidenceInv, WriterHasStage
<1>2. stages' = [stages EXCEPT ![journal.txn] = pub[p].target] /\ Goto(p, "seal")
      /\ UNCHANGED <<packages, quarantined, started>>
  BY DEF FillStage
<1>3. Staged' = Staged
  BY <1>1, <1>2, StageIsFilled, NoneAssumption
<1>4. pub'[p].step = "seal" /\ \A q \in Proc : q # p => pub'[q] = pub[q]
  BY <1>1, <1>2, GotoMoves DEF PubTypeOK, PubStep
<1>5. \A q \in Proc : WriterHasStage(q)'
  BY <1>4, OneWriterHasStage DEF FillStage, WriterHasStage
<1>6. QED
  BY <1>2, <1>3, <1>5 DEF EvidenceInv

\* A step that touches no directory and takes up no open transaction.
LEMMA OtherStepsKeepEvidence ==
    ASSUME EvidenceInv, UNCHANGED <<stages, packages, quarantined, started>>,
           \A q \in Proc : pub'[q].step \in {"opened", "fill"} =>
               pub[q].step \in {"opened", "fill"} /\ pub'[q].target = pub[q].target
    PROVE  EvidenceInv'
  BY DEF EvidenceInv, Staged, WriterHasStage

\* As OtherStepsKeepEvidence, for a process that only goes on.
LEMMA GotoKeepsEvidence ==
    ASSUME PubTypeOK, EvidenceInv, NEW p \in Proc, NEW s \in PubStep, Goto(p, s),
           s \in {"opened", "fill"} => pub[p].step \in {"opened", "fill"},
           UNCHANGED <<stages, packages, quarantined, started>>
    PROVE  EvidenceInv'
<1>1. \A q \in Proc : pub'[q].step \in {"opened", "fill"} =>
          pub[q].step \in {"opened", "fill"} /\ pub'[q].target = pub[q].target
  BY GotoMoves DEF PubTypeOK
<1>2. QED
  BY <1>1, OtherStepsKeepEvidence

\* Every step accounts for every directory.
LEMMA NextKeepsEvidence ==
    ASSUME PubInv, EvidenceInv, [PubNext]_pubVars PROVE EvidenceInv'
<1>1. PubTypeOK
  BY DEF PubInv
<1>2. CASE UNCHANGED pubVars
  BY <1>2, OtherStepsKeepEvidence DEF pubVars
<1>3. ASSUME NEW p \in Proc, NEW target \in Manifest, BeginWrite(p, target) PROVE EvidenceInv'
  <2>1. \A q \in Proc : q # p => pub'[q] = pub[q]
    BY <1>1, <1>3 DEF BeginWrite, PubTypeOK
  <2>2. pub'[p].step \notin {"opened", "fill"}
    BY <1>1, <1>3 DEF BeginWrite, PubTypeOK
  <2>3. QED
    BY <1>3, <2>1, <2>2, OtherStepsKeepEvidence DEF BeginWrite
<1>4. ASSUME NEW p \in Proc, BeginPrepare(p) \/ LeaveLoop(p) \/ PubReturn(p) \/ PubAbort(p)
      PROVE  EvidenceInv'
  <2>1. \A q \in Proc : q # p => pub'[q] = pub[q]
    BY <1>1, <1>4 DEF BeginPrepare, LeaveLoop, PubReturn, PubAbort, PubTypeOK
  <2>2. pub'[p].step \notin {"opened", "fill"}
    <3>1. CASE BeginPrepare(p)
      BY <1>1, <3>1 DEF BeginPrepare, PubTypeOK, Idle
    <3>2. CASE LeaveLoop(p)
      BY <1>1, <3>2 DEF LeaveLoop, PubTypeOK, Publisher
    <3>3. CASE PubReturn(p) \/ PubAbort(p)
      BY <1>1, <3>3 DEF PubReturn, PubAbort, PubTypeOK, Idle
    <3>4. QED
      BY <1>4, <3>1, <3>2, <3>3
  <2>3. QED
    BY <1>4, <2>1, <2>2, OtherStepsKeepEvidence DEF BeginPrepare, LeaveLoop, PubReturn, PubAbort
<1>5. ASSUME NEW p \in Proc,
             \/ OrphansDone(p) \/ AbandonTransaction(p) \/ AdoptStage(p) \/ SealStage(p)
             \/ MarkDurable(p) \/ MarkSelected(p) \/ MarkComplete(p) \/ SelectPackage(p)
             \/ OpenJournal(p)
      PROVE  EvidenceInv'
  <2>1. PICK s \in PubStep : /\ Goto(p, s)
                             /\ s \in {"opened", "fill"} => pub[p].step = "opened"
    BY <1>5 DEF OrphansDone, AbandonTransaction, AdoptStage, SealStage, MarkDurable, MarkSelected,
                MarkComplete, SelectPackage, OpenJournal, GotoIf, PubStep
  <2>2. UNCHANGED <<stages, packages, quarantined, started>>
    BY <1>5 DEF OrphansDone, AbandonTransaction, AdoptStage, SealStage, MarkDurable, MarkSelected,
                MarkComplete, SelectPackage, OpenJournal
  <2>3. QED
    BY <1>1, <2>1, <2>2, GotoKeepsEvidence
<1>6. ASSUME NEW p \in Proc, PubWork(p) PROVE EvidenceInv'
  BY <1>4, <1>5, <1>6, QuarantiningKeepsEvidence, CreateStageKeepsEvidence, MovePackageKeepsEvidence,
     FillStageKeepsEvidence DEF PubWork
<1>7. QED
  BY <1>2, <1>3, <1>4, <1>6 DEF PubNext

-----------------------------------------------------------------------------
(* What follows from them. *)

\* Every staging directory ever created is staged, published or in quarantine.
THEOREM NoStageIsLost == PubSpec => []NoStageLost
<1>1. PubInit => EvidenceInv
  <2>1. ASSUME PubInit PROVE Staged = {} /\ packages = {}
    BY <2>1 DEF PubInit, Staged
  <2>2. QED
    BY <2>1, FS_EmptySet DEF PubInit, EvidenceInv, WriterHasStage, Idle
<1>2. PubInv /\ EvidenceInv /\ [PubNext]_pubVars => EvidenceInv'
  BY NextKeepsEvidence
<1>3. EvidenceInv => NoStageLost
  BY DEF EvidenceInv, NoStageLost, Staged
<1>4. QED
  BY <1>1, <1>2, <1>3, PubInvariant, PTL DEF PubSpec

\* What write returns is the selected package, made from the caller's plan and tools
\* under the caller's selection source.
THEOREM WriteReturnsItsSelection == PubSpec => []WriteReturnsSelection
<1>1. PubInit => ReturnInv
  BY DEF PubInit, ReturnInv, WriterReturnsItsOwn, Idle
<1>2. PubInv /\ PubInv' /\ ReturnInv /\ [PubNext]_pubVars => ReturnInv'
  BY NextKeepsReturn
<1>3. ReturnInv => WriteReturnsSelection
  BY DEF ReturnInv, WriterReturnsItsOwn, WriteReturnsSelection
<1>4. QED
  BY <1>1, <1>2, <1>3, PubInvariant, PTL DEF PubSpec

\* Whoever reads previews/<job-id> sees PreviewStore: packages appear in the order of
\* their attempts, each is selected before the next appears, and none is selected again
\* after a newer one, wherever publishers are killed.
THEOREM PublicationImplementsStore == PubSpec => ImplementsStore
<1>1. PubInit => OrderInv /\ Store!StoreInit
  <2>1. ASSUME PubInit PROVE OrderInv /\ Store!StoreInit
    <3>1. CompleteStagesAreNewest /\ PackagesAreWritten
      BY <2>1, NoneAssumption DEF PubInit, CompleteStagesAreNewest, PackagesAreWritten
    <3>2. SelectionFollows /\ Store!StoreInit
      BY <2>1 DEF PubInit, SelectionFollows, Pending, Store!AllSelected, Store!StoreInit
    <3>3. \A p \in Proc : WriterIsAhead(p)
      BY <2>1 DEF PubInit, WriterIsAhead, WritingSteps, Idle
    <3>4. QED
      BY <3>1, <3>2, <3>3 DEF OrderInv
  <2>2. QED
    BY <2>1
<1>2. PubInv /\ OrderInv /\ [PubNext]_pubVars => OrderInv' /\ [Store!StoreNext]_Store!storeVars
  BY NextKeepsOrder DEF Store!storeVars
<1>3. QED
  BY <1>1, <1>2, PubInvariant, PTL DEF PubSpec, ImplementsStore, Store!StoreSpec

-----------------------------------------------------------------------------
(* The lock.  The owner of a job is the one its record and its flock name, no
   takeover is silent, and evidence of the living is never replaced. *)

Dead == {"exited", "crashed"}
LockSteps ==
    {"none", "examine", "truncate", "write", "finish", "log", "held", "clear", "close", "out"}

\* What the log may hold.  A takeover is logged by whoever acquires the lock; whoever
\* owns it logs states and stages of a build.  The invariant admits these lines, too, so
\* that PreviewBuildProofs can cite it for the whole log.
LoggedState == {"Planned", "Rendering", "Rendered"}
Stage ==
    {"PlanSelected", "SegmentResolved", "PackageAssembled", "PackageEncoded", "PackagePublished",
     "PackageReused"}
Line ==
    [kind : {"JobLockRecovered"}, owner : Proc]
        \cup [kind : {"StateDurable"}, attempt : Nat, state : LoggedState]
        \cup [kind : {"Stage"}, attempt : Nat, stage : Stage \cup {"SegmentFailed"}]

LockTyped ==
    /\ life \in [Proc -> {"new", "running"} \cup Dead]
    /\ flock \in Proc \cup {NoOwner}
    /\ record \in Proc \cup {NoOwner, Partial}
    /\ lk \in [Proc -> LockSteps]
    /\ stale \in [Proc -> Proc \cup {NoOwner}]
    /\ log \in Seq(Line)

\* Whoever is between its flock and the close of the file is alive and has the flock.
HolderIsAlone == \A p \in Proc : lk[p] \notin {"none", "out"} => life[p] = "running" /\ flock = p

\* What the file holds at each step of the one that has the flock.
RecordIsTrue ==
    /\ record \in Proc => life[record] # "new"
    /\ \A p \in Proc :
          /\ lk[p] = "truncate" => record = stale[p]
          /\ lk[p] = "write" => record = NoOwner
          /\ lk[p] = "finish" => record = Partial
          /\ lk[p] \in {"log", "held"} => record = p
          /\ lk[p] \in {"clear", "close"} => record \in {p, NoOwner, Partial, stale[p]}

\* A line about a takeover names a process that is gone.
IsOfTheDead(line) ==
    line.kind = "JobLockRecovered" => line.owner \in Proc /\ life[line.owner] \in Dead

\* A record that was found belonged to the dead, and the log knows it by the time
\* the job is owned.
TakeoversAreOfTheDead ==
    /\ \A p \in Proc : stale[p] # NoOwner => life[stale[p]] \in Dead
    /\ \A i \in DOMAIN log : IsOfTheDead(log[i])
    /\ \A p \in Proc : lk[p] = "held" /\ stale[p] # NoOwner =>
          \E i \in DOMAIN log : log[i] = JobLockRecovered(stale[p])

LockInv == LockTyped /\ HolderIsAlone /\ RecordIsTrue /\ TakeoversAreOfTheDead

-----------------------------------------------------------------------------
(* The invariant, action by action. *)

LEMMA LockInitHolds == LockAndLogInit => LockInv
  BY OwnerAssumption
     DEF LockAndLogInit, LockInit, EventsInit, LockInv, LockTyped, HolderIsAlone, RecordIsTrue,
         TakeoversAreOfTheDead, LockSteps, Dead

\* A line is added to the log.
LEMMA LineIsKept ==
  ASSUME LockInv, NEW line \in Line, AppendEvent(line)
  PROVE  /\ log' \in Seq(Line)
         /\ \A i \in DOMAIN log : i \in DOMAIN log' /\ log'[i] = log[i]
         /\ \E i \in DOMAIN log' : log'[i] = line
         /\ \A i \in DOMAIN log' : i \in DOMAIN log \/ log'[i] = line
  <1>1. log \in Seq(Line) /\ log' = Append(log, line)
    BY DEF LockInv, LockTyped, AppendEvent
  <1>2. /\ Len(log') = Len(log) + 1 /\ Len(log) \in Nat
        /\ DOMAIN log = 1 .. Len(log) /\ DOMAIN log' = 1 .. Len(log')
        /\ log'[Len(log) + 1] = line
        /\ \A i \in 1 .. Len(log) : log'[i] = log[i]
    BY <1>1
  <1> QED BY <1>1, <1>2

LEMMA TakeoverIsALine ==
  ASSUME NEW q \in Proc
  PROVE  /\ JobLockRecovered(q) \in Line /\ JobLockRecovered(q).owner = q
         /\ JobLockRecovered(q).kind = "JobLockRecovered"
  BY DEF JobLockRecovered, Line

\* The flock was free, so nobody else is inside.
LEMMA TakeFlockKeeps ==
  ASSUME LockInv, NEW p \in Proc, TakeFlock(p), UNCHANGED eventVars PROVE LockInv'
  <1>1. LockTyped'
    BY OwnerAssumption DEF TakeFlock, LockInv, LockTyped, LockSteps, Dead, eventVars
  <1>2. HolderIsAlone'
    BY OwnerAssumption DEF TakeFlock, LockInv, LockTyped, HolderIsAlone
  <1>3. RecordIsTrue'
    BY OwnerAssumption
       DEF TakeFlock, LockInv, LockTyped, HolderIsAlone, RecordIsTrue,
           TakeoversAreOfTheDead, Dead
  <1>4. TakeoversAreOfTheDead'
    BY OwnerAssumption
       DEF TakeFlock, LockInv, LockTyped, HolderIsAlone, RecordIsTrue,
           TakeoversAreOfTheDead, IsOfTheDead, Dead, eventVars
  <1> QED BY <1>1, <1>2, <1>3, <1>4 DEF LockInv

\* A refused acquisition holds nothing.
LEMMA LoseFlockKeeps ==
  ASSUME LockInv, NEW p \in Proc, LoseFlock(p), UNCHANGED eventVars PROVE LockInv'
  <1>1. LockTyped'
    BY OwnerAssumption DEF LoseFlock, LockInv, LockTyped, LockSteps, Dead, eventVars
  <1>2. HolderIsAlone'
    BY OwnerAssumption DEF LoseFlock, LockInv, LockTyped, HolderIsAlone
  <1>3. RecordIsTrue'
    BY OwnerAssumption
       DEF LoseFlock, LockInv, LockTyped, HolderIsAlone, RecordIsTrue,
           TakeoversAreOfTheDead, Dead
  <1>4. TakeoversAreOfTheDead'
    BY OwnerAssumption
       DEF LoseFlock, LockInv, LockTyped, HolderIsAlone, RecordIsTrue,
           TakeoversAreOfTheDead, IsOfTheDead, Dead, eventVars
  <1> QED BY <1>1, <1>2, <1>3, <1>4 DEF LockInv

\* A record that may be replaced is empty or names a dead process, which existed.
LEMMA ExamineRecordKeeps ==
  ASSUME LockInv, NEW p \in Proc, ExamineRecord(p), UNCHANGED eventVars PROVE LockInv'
  <1>1. LockTyped'
    BY OwnerAssumption
       DEF ExamineRecord, LockInv, LockTyped, LockSteps, Dead, eventVars,
           RecordIsReplaceable, OwnerIsLive
  <1>2. HolderIsAlone'
    BY OwnerAssumption
       DEF ExamineRecord, LockInv, LockTyped, HolderIsAlone, RecordIsReplaceable,
           OwnerIsLive
  <1>3. RecordIsTrue'
    BY OwnerAssumption
       DEF ExamineRecord, LockInv, LockTyped, HolderIsAlone, RecordIsTrue,
           TakeoversAreOfTheDead, Dead, RecordIsReplaceable, OwnerIsLive
  <1>4. TakeoversAreOfTheDead'
    BY OwnerAssumption
       DEF ExamineRecord, LockInv, LockTyped, HolderIsAlone, RecordIsTrue,
           TakeoversAreOfTheDead, IsOfTheDead, Dead, eventVars, RecordIsReplaceable,
           OwnerIsLive
  <1> QED BY <1>1, <1>2, <1>3, <1>4 DEF LockInv

\* What was there is remembered in stale.
LEMMA TruncateRecordKeeps ==
  ASSUME LockInv, NEW p \in Proc, TruncateRecord(p), UNCHANGED eventVars PROVE LockInv'
  <1>1. LockTyped'
    BY OwnerAssumption DEF TruncateRecord, LockInv, LockTyped, LockSteps, Dead, eventVars
  <1>2. HolderIsAlone'
    BY OwnerAssumption DEF TruncateRecord, LockInv, LockTyped, HolderIsAlone
  <1>3. RecordIsTrue'
    BY OwnerAssumption
       DEF TruncateRecord, LockInv, LockTyped, HolderIsAlone, RecordIsTrue,
           TakeoversAreOfTheDead, Dead
  <1>4. TakeoversAreOfTheDead'
    BY OwnerAssumption
       DEF TruncateRecord, LockInv, LockTyped, HolderIsAlone, RecordIsTrue,
           TakeoversAreOfTheDead, IsOfTheDead, Dead, eventVars
  <1> QED BY <1>1, <1>2, <1>3, <1>4 DEF LockInv

\* The file was empty.
LEMMA WriteRecordKeeps ==
  ASSUME LockInv, NEW p \in Proc, WriteRecord(p), UNCHANGED eventVars PROVE LockInv'
  <1>1. LockTyped'
    BY OwnerAssumption DEF WriteRecord, LockInv, LockTyped, LockSteps, Dead, eventVars
  <1>2. HolderIsAlone'
    BY OwnerAssumption DEF WriteRecord, LockInv, LockTyped, HolderIsAlone
  <1>3. RecordIsTrue'
    BY OwnerAssumption
       DEF WriteRecord, LockInv, LockTyped, HolderIsAlone, RecordIsTrue,
           TakeoversAreOfTheDead, Dead
  <1>4. TakeoversAreOfTheDead'
    BY OwnerAssumption
       DEF WriteRecord, LockInv, LockTyped, HolderIsAlone, RecordIsTrue,
           TakeoversAreOfTheDead, IsOfTheDead, Dead, eventVars
  <1> QED BY <1>1, <1>2, <1>3, <1>4 DEF LockInv

\* The record names its writer, which is alive.
LEMMA FinishRecordKeeps ==
  ASSUME LockInv, NEW p \in Proc, FinishRecord(p), UNCHANGED eventVars PROVE LockInv'
  <1>1. LockTyped'
    BY OwnerAssumption DEF FinishRecord, LockInv, LockTyped, LockSteps, Dead, eventVars
  <1>2. HolderIsAlone'
    BY OwnerAssumption DEF FinishRecord, LockInv, LockTyped, HolderIsAlone
  <1>3. RecordIsTrue'
    BY OwnerAssumption
       DEF FinishRecord, LockInv, LockTyped, HolderIsAlone, RecordIsTrue,
           TakeoversAreOfTheDead, Dead
  <1>4. TakeoversAreOfTheDead'
    BY OwnerAssumption
       DEF FinishRecord, LockInv, LockTyped, HolderIsAlone, RecordIsTrue,
           TakeoversAreOfTheDead, IsOfTheDead, Dead, eventVars
  <1> QED BY <1>1, <1>2, <1>3, <1>4 DEF LockInv

\* Whatever the failure left is not another live process's record.
LEMMA RecordFailsKeeps ==
  ASSUME LockInv, NEW p \in Proc, RecordFails(p), UNCHANGED eventVars PROVE LockInv'
  <1>1. LockTyped'
    BY OwnerAssumption DEF RecordFails, LockInv, LockTyped, LockSteps, Dead, eventVars
  <1>2. HolderIsAlone'
    BY OwnerAssumption DEF RecordFails, LockInv, LockTyped, HolderIsAlone
  <1>3. RecordIsTrue'
    BY OwnerAssumption
       DEF RecordFails, LockInv, LockTyped, HolderIsAlone, RecordIsTrue,
           TakeoversAreOfTheDead, Dead
  <1>4. TakeoversAreOfTheDead'
    BY OwnerAssumption
       DEF RecordFails, LockInv, LockTyped, HolderIsAlone, RecordIsTrue,
           TakeoversAreOfTheDead, IsOfTheDead, Dead, eventVars
  <1> QED BY <1>1, <1>2, <1>3, <1>4 DEF LockInv

\* The record is still the owner's.
LEMMA BeginReleaseKeeps ==
  ASSUME LockInv, NEW p \in Proc, BeginRelease(p), UNCHANGED eventVars PROVE LockInv'
  <1>1. LockTyped'
    BY OwnerAssumption DEF BeginRelease, LockInv, LockTyped, LockSteps, Dead, eventVars
  <1>2. HolderIsAlone'
    BY OwnerAssumption DEF BeginRelease, LockInv, LockTyped, HolderIsAlone
  <1>3. RecordIsTrue'
    BY OwnerAssumption
       DEF BeginRelease, LockInv, LockTyped, HolderIsAlone, RecordIsTrue,
           TakeoversAreOfTheDead, Dead
  <1>4. TakeoversAreOfTheDead'
    BY OwnerAssumption
       DEF BeginRelease, LockInv, LockTyped, HolderIsAlone, RecordIsTrue,
           TakeoversAreOfTheDead, IsOfTheDead, Dead, eventVars
  <1> QED BY <1>1, <1>2, <1>3, <1>4 DEF LockInv

\* The record is its own, the dead owner's, or none.
LEMMA ClearRecordKeeps ==
  ASSUME LockInv, NEW p \in Proc, ClearRecord(p), UNCHANGED eventVars PROVE LockInv'
  <1>1. LockTyped'
    BY OwnerAssumption DEF ClearRecord, LockInv, LockTyped, LockSteps, Dead, eventVars
  <1>2. HolderIsAlone'
    BY OwnerAssumption DEF ClearRecord, LockInv, LockTyped, HolderIsAlone
  <1>3. RecordIsTrue'
    BY OwnerAssumption
       DEF ClearRecord, LockInv, LockTyped, HolderIsAlone, RecordIsTrue,
           TakeoversAreOfTheDead, Dead
  <1>4. TakeoversAreOfTheDead'
    BY OwnerAssumption
       DEF ClearRecord, LockInv, LockTyped, HolderIsAlone, RecordIsTrue,
           TakeoversAreOfTheDead, IsOfTheDead, Dead, eventVars
  <1> QED BY <1>1, <1>2, <1>3, <1>4 DEF LockInv

\* The flock is free, and nobody else was inside.
LEMMA CloseLockKeeps ==
  ASSUME LockInv, NEW p \in Proc, CloseLock(p), UNCHANGED eventVars PROVE LockInv'
  <1>1. LockTyped'
    BY OwnerAssumption DEF CloseLock, LockInv, LockTyped, LockSteps, Dead, eventVars
  <1>2. HolderIsAlone'
    BY OwnerAssumption DEF CloseLock, LockInv, LockTyped, HolderIsAlone
  <1>3. RecordIsTrue'
    BY OwnerAssumption
       DEF CloseLock, LockInv, LockTyped, HolderIsAlone, RecordIsTrue,
           TakeoversAreOfTheDead, Dead
  <1>4. TakeoversAreOfTheDead'
    BY OwnerAssumption
       DEF CloseLock, LockInv, LockTyped, HolderIsAlone, RecordIsTrue,
           TakeoversAreOfTheDead, IsOfTheDead, Dead, eventVars
  <1> QED BY <1>1, <1>2, <1>3, <1>4 DEF LockInv

\* A process that returns is outside.
LEMMA ExitKeeps ==
  ASSUME LockInv, NEW p \in Proc, Exit(p), UNCHANGED eventVars PROVE LockInv'
  <1>1. LockTyped'
    BY OwnerAssumption DEF Exit, LockInv, LockTyped, LockSteps, Dead, eventVars
  <1>2. HolderIsAlone'
    BY OwnerAssumption DEF Exit, LockInv, LockTyped, HolderIsAlone
  <1>3. RecordIsTrue'
    BY OwnerAssumption
       DEF Exit, LockInv, LockTyped, HolderIsAlone, RecordIsTrue, TakeoversAreOfTheDead,
           Dead
  <1>4. TakeoversAreOfTheDead'
    BY OwnerAssumption
       DEF Exit, LockInv, LockTyped, HolderIsAlone, RecordIsTrue, TakeoversAreOfTheDead,
           IsOfTheDead, Dead, eventVars
  <1> QED BY <1>1, <1>2, <1>3, <1>4 DEF LockInv

\* A new process is outside, and no record names it.
LEMMA StartProcessKeeps ==
  ASSUME LockInv, NEW p \in Proc, StartProcess(p), UNCHANGED eventVars PROVE LockInv'
  <1>1. LockTyped'
    BY OwnerAssumption DEF StartProcess, LockInv, LockTyped, LockSteps, Dead, eventVars
  <1>2. HolderIsAlone'
    BY OwnerAssumption DEF StartProcess, LockInv, LockTyped, HolderIsAlone
  <1>3. RecordIsTrue'
    BY OwnerAssumption
       DEF StartProcess, LockInv, LockTyped, HolderIsAlone, RecordIsTrue,
           TakeoversAreOfTheDead, Dead
  <1>4. TakeoversAreOfTheDead'
    BY OwnerAssumption
       DEF StartProcess, LockInv, LockTyped, HolderIsAlone, RecordIsTrue,
           TakeoversAreOfTheDead, IsOfTheDead, Dead, eventVars
  <1> QED BY <1>1, <1>2, <1>3, <1>4 DEF LockInv

\* Nothing but the place of the process and the log changes: the place as said, the
\* log by a line about the dead owner that was found.
LEMMA LogTakeoverKeeps ==
  ASSUME LockInv, NEW p \in Proc, LogTakeover(p) PROVE LockInv'
  <1>1. UNCHANGED <<life, flock, record, stale>>
    BY DEF LogTakeover
  <1>2. lk[p] = "log" /\ \E step \in {"held", "clear"} : lk' = [lk EXCEPT ![p] = step]
    BY DEF LogTakeover
  <1>3. HolderIsAlone'
    BY <1>1, <1>2 DEF LockInv, LockTyped, HolderIsAlone
  <1>4. RecordIsTrue'
    BY <1>1, <1>2 DEF LockInv, LockTyped, HolderIsAlone, RecordIsTrue
  <1>5. lk' \in [Proc -> LockSteps]
    BY <1>2 DEF LockInv, LockTyped, LockSteps
  <1>6. CASE stale[p] # NoOwner /\ AppendAllowed(1)
    <2> DEFINE line == JobLockRecovered(stale[p])
    <2>1. stale[p] \in Proc /\ AppendEvent(line) /\ lk' = [lk EXCEPT ![p] = "held"]
      BY <1>6 DEF LogTakeover, LockInv, LockTyped
    <2>2. line \in Line /\ line.owner = stale[p]
      BY <2>1, TakeoverIsALine
    <2>3. life[stale[p]] \in Dead
      BY <1>6 DEF LockInv, TakeoversAreOfTheDead
    <2> HIDE DEF line
    <2>4. /\ log' \in Seq(Line)
          /\ \A i \in DOMAIN log : i \in DOMAIN log' /\ log'[i] = log[i]
          /\ \E i \in DOMAIN log' : log'[i] = line
          /\ \A i \in DOMAIN log' : i \in DOMAIN log \/ log'[i] = line
      BY <2>1, <2>2, LineIsKept
    <2>5. LockTyped'
      BY <1>1, <1>5, <2>4 DEF LockInv, LockTyped
    <2>6. \A i \in DOMAIN log' : IsOfTheDead(log[i])'
      BY <1>1, <2>1, <2>2, <2>3, <2>4 DEF LockInv, TakeoversAreOfTheDead, IsOfTheDead
    <2>7. \A q \in Proc : lk'[q] = "held" /\ stale'[q] # NoOwner =>
            \E i \in DOMAIN log' : log'[i] = JobLockRecovered(stale'[q])
      <3> SUFFICES ASSUME NEW q \in Proc, lk'[q] = "held", stale'[q] # NoOwner
                   PROVE  \E i \in DOMAIN log' : log'[i] = JobLockRecovered(stale'[q])
        OBVIOUS
      <3>1. CASE q = p
        BY <1>1, <2>4, <3>1 DEF line
      <3>2. CASE q # p
        <4>1. lk[q] = "held" /\ stale[q] # NoOwner
          BY <1>1, <2>1, <3>2 DEF LockInv, LockTyped
        <4> QED BY <1>1, <2>4, <4>1 DEF LockInv, TakeoversAreOfTheDead
      <3> QED BY <3>1, <3>2
    <2>8. TakeoversAreOfTheDead'
      BY <1>1, <2>6, <2>7 DEF LockInv, TakeoversAreOfTheDead
    <2> QED BY <1>3, <1>4, <2>5, <2>8 DEF LockInv
  <1>7. CASE ~(stale[p] # NoOwner /\ AppendAllowed(1))
    <2>1. /\ UNCHANGED eventVars
          /\ lk' = [lk EXCEPT ![p] = "held"] => stale[p] = NoOwner
      BY <1>7 DEF LogTakeover, LockInv, LockTyped
    <2>2. LockTyped'
      BY <1>1, <1>5, <2>1 DEF LockInv, LockTyped, eventVars
    <2>3. TakeoversAreOfTheDead'
      BY <1>1, <1>2, <2>1
         DEF LockInv, LockTyped, TakeoversAreOfTheDead, IsOfTheDead, eventVars
    <2> QED BY <1>3, <1>4, <2>2, <2>3 DEF LockInv
  <1> QED BY <1>6, <1>7

\* The kernel takes the flock of the dead and leaves their record, which is that of a
\* process that existed.  The log may have got the line that was being written.
LEMMA DieKeeps ==
  ASSUME LockInv, NEW p \in Proc, Die(p),
         NEW line \in Line, IsOfTheDead(line), log' = log \/ AppendEvent(line)
  PROVE  LockInv'
  <1>1. HolderIsAlone'
    BY OwnerAssumption DEF Die, LockInv, LockTyped, HolderIsAlone
  <1>2. RecordIsTrue'
    BY OwnerAssumption DEF Die, LockInv, LockTyped, HolderIsAlone, RecordIsTrue
  <1>3. /\ life' \in [Proc -> {"new", "running"} \cup Dead] /\ flock' \in Proc \cup {NoOwner}
        /\ record' \in Proc \cup {NoOwner, Partial} /\ lk' \in [Proc -> LockSteps]
        /\ stale' \in [Proc -> Proc \cup {NoOwner}]
    BY DEF Die, LockInv, LockTyped, LockSteps, Dead
  <1>4. \A q \in Proc : life[q] \in Dead => life'[q] \in Dead
    BY DEF Die, LockInv, LockTyped, Dead
  <1>5. \A q \in Proc : (stale'[q] # NoOwner => stale'[q] = stale[q]) /\ (lk'[q] = "held" => lk[q] = "held")
    BY DEF Die, LockInv, LockTyped
  <1>6. /\ log' \in Seq(Line)
        /\ \A i \in DOMAIN log : i \in DOMAIN log' /\ log'[i] = log[i]
        /\ \A i \in DOMAIN log' : i \in DOMAIN log \/ log'[i] = line
    <2>1. CASE log' = log
      BY <2>1 DEF LockInv, LockTyped
    <2>2. CASE AppendEvent(line)
      BY <2>2, LineIsKept
    <2> QED BY <2>1, <2>2
  <1>7. LockTyped'
    BY <1>3, <1>6 DEF LockTyped
  <1>8. \A i \in DOMAIN log' : IsOfTheDead(log[i])'
    BY <1>4, <1>6 DEF LockInv, TakeoversAreOfTheDead, IsOfTheDead
  <1>9. TakeoversAreOfTheDead'
    BY <1>3, <1>4, <1>5, <1>6, <1>8 DEF LockInv, LockTyped, TakeoversAreOfTheDead
  <1> QED BY <1>1, <1>2, <1>7, <1>9 DEF LockInv

LEMMA KillKeeps ==
  ASSUME LockInv, NEW p \in Proc, Kill(p) PROVE LockInv'
  <1>1. Die(p)
    BY DEF Kill
  <1>2. CASE log' = log
    <2>1. PICK line \in Line : line.kind = "Stage"
      <3>1. [kind |-> "Stage", attempt |-> 1, stage |-> "SegmentFailed"] \in Line
        BY DEF Line, Stage
      <3> QED BY <3>1
    <2>2. IsOfTheDead(line)
      BY <2>1 DEF IsOfTheDead
    <2> QED BY <1>1, <1>2, <2>2, DieKeeps
  <1>3. CASE stale[p] # NoOwner /\ AppendEvent(JobLockRecovered(stale[p]))
    <2>1. stale[p] \in Proc /\ life[stale[p]] \in Dead
      BY <1>3 DEF LockInv, LockTyped, TakeoversAreOfTheDead
    <2>2. JobLockRecovered(stale[p]) \in Line /\ IsOfTheDead(JobLockRecovered(stale[p]))
      BY <2>1, TakeoverIsALine DEF IsOfTheDead
    <2> QED BY <1>1, <1>3, <2>2, DieKeeps
  <1> QED BY <1>2, <1>3 DEF Kill, AppendInterrupted, eventVars

\* The owner logs something else.
LEMMA OtherLineKeeps ==
  ASSUME LockInv, UNCHANGED lockVars,
         NEW line \in Line, IsOfTheDead(line), log' = log \/ AppendEvent(line)
  PROVE  LockInv'
  <1>1. /\ log' \in Seq(Line)
        /\ \A i \in DOMAIN log : i \in DOMAIN log' /\ log'[i] = log[i]
        /\ \A i \in DOMAIN log' : i \in DOMAIN log \/ log'[i] = line
    <2>1. CASE log' = log
      BY <2>1 DEF LockInv, LockTyped
    <2>2. CASE AppendEvent(line)
      BY <2>2, LineIsKept
    <2> QED BY <2>1, <2>2
  <1>2. LockTyped' /\ HolderIsAlone' /\ RecordIsTrue'
    BY <1>1 DEF lockVars, LockInv, LockTyped, HolderIsAlone, RecordIsTrue
  <1>3. TakeoversAreOfTheDead'
    BY <1>1 DEF lockVars, LockInv, TakeoversAreOfTheDead, IsOfTheDead
  <1> QED BY <1>2, <1>3 DEF LockInv

LEMMA LockStutters == ASSUME LockInv, UNCHANGED <<lockVars, eventVars>> PROVE LockInv'
  BY DEF lockVars, eventVars, LockInv, LockTyped, HolderIsAlone, RecordIsTrue,
         TakeoversAreOfTheDead, IsOfTheDead

LEMMA LockStepKeeps == LockInv /\ [LockNext]_<<lockVars, eventVars>> => LockInv'
  <1> SUFFICES ASSUME LockInv, [LockNext]_<<lockVars, eventVars>> PROVE LockInv'
    OBVIOUS
  <1>1. ASSUME NEW p \in Proc, LockStepOf(p) PROVE LockInv'
    BY <1>1, TakeFlockKeeps, LoseFlockKeeps, ExamineRecordKeeps, TruncateRecordKeeps, WriteRecordKeeps,
       FinishRecordKeeps, RecordFailsKeeps, BeginReleaseKeeps, ClearRecordKeeps, CloseLockKeeps, ExitKeeps,
       LogTakeoverKeeps DEF LockStepOf
  <1>2. ASSUME NEW p \in Proc, StartProcess(p), UNCHANGED eventVars PROVE LockInv'
    BY <1>2, StartProcessKeeps
  <1>3. ASSUME NEW p \in Proc, Kill(p) PROVE LockInv'
    BY <1>3, KillKeeps
  <1> QED BY <1>1, <1>2, <1>3, LockStutters DEF LockNext

\* The steps that write build.lock.
WritesRecord(p) == TruncateRecord(p) \/ WriteRecord(p) \/ FinishRecord(p) \/ ClearRecord(p)

\* Whoever changes the record has the flock, and replaces its own, none or a dead
\* process's.
LEMMA WritePreservesEvidence ==
  ASSUME LockInv, record' # record => \E p \in Proc : WritesRecord(p)
  PROVE  /\ record \in Proc /\ record # flock /\ record' # record => ~OwnerIsLive(record)
         /\ record = Partial /\ flock = NoOwner => record' = Partial
  <1>1. CASE record' = record
    BY <1>1
  <1>2. CASE record' # record
    <2>1. PICK p \in Proc : WritesRecord(p)
      BY <1>2
    <2>2. lk[p] \in {"truncate", "write", "finish", "clear"}
      BY <2>1 DEF WritesRecord, TruncateRecord, WriteRecord, FinishRecord, ClearRecord
    <2>3. flock = p /\ record \in {p, NoOwner, Partial, stale[p]}
      BY <2>2 DEF LockInv, HolderIsAlone, RecordIsTrue
    <2>4. stale[p] # NoOwner => ~OwnerIsLive(stale[p])
      BY DEF LockInv, TakeoversAreOfTheDead, Dead, OwnerIsLive
    <2> QED BY <2>3, <2>4, OwnerAssumption
  <1> QED BY <1>1, <1>2

LEMMA StepPreservesEvidence ==
  ASSUME LockInv, [LockNext]_<<lockVars, eventVars>>
  PROVE  /\ record \in Proc /\ record # flock /\ record' # record => ~OwnerIsLive(record)
         /\ record = Partial /\ flock = NoOwner => record' = Partial
  <1>1. record' # record => \E p \in Proc : WritesRecord(p)
    BY DEF LockNext, LockStepOf, TakeFlock, LoseFlock, ExamineRecord, RecordFails, BeginRelease,
           CloseLock, Exit, StartProcess, Kill, Die, LogTakeover, WritesRecord, lockVars
  <1> QED BY <1>1, WritePreservesEvidence

\* What the invariant says of the lock in a state.
LEMMA OwnersAreTold == LockInv => OwnershipIsAccountedFor
  <1>1. LockInv => OwnerIsRecorded
    BY DEF LockInv, LockTyped, HolderIsAlone, RecordIsTrue, OwnerIsRecorded, Owns
  <1>2. LockInv => TakeoversAreLogged
    BY DEF LockInv, TakeoversAreOfTheDead, IsOfTheDead, TakeoversAreLogged, Owns, Dead
  <1> QED BY <1>1, <1>2 DEF OwnershipIsAccountedFor

-----------------------------------------------------------------------------
\* The inductive invariant: at each step of acquire_job_lock and of Drop the flock,
\* the file and the log are as the step supposes (locking.rs).
THEOREM LockInvariant == LockSpec => []LockInv
  <1>1. LockAndLogInit => LockInv
    BY LockInitHolds
  <1>2. LockInv /\ [LockNext]_<<lockVars, eventVars>> => LockInv'
    BY LockStepKeeps
  <1> QED BY <1>1, <1>2, PTL DEF LockSpec

\* The record and the flock name the owner, and the log every dead owner it replaced
\* (locking.rs, acquire_job_lock).
THEOREM OwnersAreAccountedFor == LockSpec => []OwnershipIsAccountedFor
  BY OwnersAreTold, LockInvariant, PTL

\* A live process's record is never replaced by another, and what nobody can read is
\* left as it is (locking.rs, validate_existing_record; ADR-0001 12.3).
THEOREM EvidenceIsKept == LockSpec => EvidenceIsPreserved
  <1>1. LockInv /\ [LockNext]_<<lockVars, eventVars>> =>
          [/\ record \in Proc /\ record # flock /\ record' # record => ~OwnerIsLive(record)
           /\ record = Partial /\ flock = NoOwner => record' = Partial]_<<lockVars, eventVars>>
    BY StepPreservesEvidence
  <1> QED BY <1>1, LockInvariant, PTL DEF LockSpec, EvidenceIsPreserved
=============================================================================
