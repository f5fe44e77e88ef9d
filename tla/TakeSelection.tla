--------------------------- MODULE TakeSelection ---------------------------
(***************************************************************************)
(* Which take of each segment a build renders: the plan (core/plan.rs), the *)
(* accepted takes beside the lesson (core/takes.rs), select_plan in the     *)
(* pipeline, and the commands that build, retake, resume and accept.        *)
(*                                                                         *)
(* A segment's text stands for all that its cache key is made of but the    *)
(* take, its layout for what only the plan's hash is made of.               *)
(***************************************************************************)
EXTENDS Integers, Sequences, FiniteSets, SequencesExt, Checks

CONSTANTS
    TakeNumbers,  \* the takes that can be asked for; 0 is BASE_TAKE
    Wordings,     \* what a segment can say
    MaxEdits,     \* bound: changes of the lesson and hand edits of its takes
    MaxBuilds,    \* bound: builds
    MaxLosses     \* bound: cache entries lost

BaseTake == 0
NoAudio == 0

\* synthesis_digest.
Key(wording, take) == <<wording, take>>

Selection(id, base, take, key, audio) ==
    [id |-> id, base |-> base, take |-> take, key |-> key, audio |-> audio]

\* A selection that names no audio: what a build that accepted nothing resolves to.
NoTakes == <<>>

Ids(rows) == {rows[i].id : i \in DOMAIN rows}
RowOf(rows, id) == rows[CHOOSE i \in DOMAIN rows : rows[i].id = id]

-----------------------------------------------------------------------------
\* Mutant: the base key is derived at the selected take.
PlanBasedOnItsTake(lesson, source, resolved) == [
    source |-> source,
    segments |-> [i \in DOMAIN lesson |->
        LET chosen == IF lesson[i].id \in Ids(resolved)
                      THEN RowOf(resolved, lesson[i].id)
                      ELSE [take |-> BaseTake, audio |-> NoAudio]
            key == Key(lesson[i].wording, chosen.take)
        IN  [id |-> lesson[i].id, layout |-> lesson[i].layout, take |-> chosen.take,
             base |-> key, key |-> key, audio |-> chosen.audio]]]

\* RenderPlan::for_lesson_with_takes: resolved gives the take and the approved
\* audio of the segments it selects, in rows with an id.
PlanOf(lesson, source, resolved) == [
    source |-> source,
    segments |-> [i \in DOMAIN lesson |->
        LET chosen == IF lesson[i].id \in Ids(resolved)
                      THEN RowOf(resolved, lesson[i].id)
                      ELSE [take |-> BaseTake, audio |-> NoAudio]
        IN  [id |-> lesson[i].id, layout |-> lesson[i].layout, take |-> chosen.take,
             base |-> Key(lesson[i].wording, BaseTake), key |-> Key(lesson[i].wording, chosen.take),
             audio |-> chosen.audio]]]

\* with_retakes: the segment's row replaced by the take that is asked for.
WithRetakes(resolved, retakes) ==
    SelectSeq(resolved, LAMBDA row : row.id \notin Ids(retakes)) \o retakes

RetakeFault(lesson, resolved, retakes) ==
    LET selected(id) == IF id \in Ids(resolved) THEN RowOf(resolved, id).take ELSE BaseTake
    IN  IF \E i \in DOMAIN retakes : retakes[i].id \notin Ids(lesson) THEN "UnplannedRetake"
        ELSE IF \E i \in DOMAIN retakes : retakes[i].take = selected(retakes[i].id)
             THEN "RetakeUsesSelectedTake" ELSE "ok"

\* TakesDocument::validate, selection by selection.
SelectionFault(document, i) ==
    LET s == document[i]
    IN  CASE \E j \in 1 .. i - 1 : document[j].id = s.id -> "DuplicateSelection"
          [] s.take = BaseTake /\ s.key # s.base -> "BaseTakeKeyMismatch"
          [] s.take # BaseTake /\ s.key = s.base -> "RetakeUsesBaseKey"
          [] OTHER -> "ok"

FirstFaultOf(faults) == FirstFault([i \in DOMAIN faults |-> <<faults[i] # "ok", faults[i]>>])

TakesFault(document) ==
    IF document = <<>> THEN "MissingSelections"
    ELSE FirstFaultOf([i \in DOMAIN document |-> SelectionFault(document, i)])

\* reconcile_with_plan, against the plan at its base takes.
ReconcileFault(document, base) ==
    LET of(segment) == IF segment.id \notin Ids(document) THEN "UnselectedSegment"
                       ELSE IF RowOf(document, segment.id).base # segment.key
                            THEN "StaleSynthesisBaseKey" ELSE "ok"
        planned == FirstFaultOf([i \in DOMAIN base.segments |-> of(base.segments[i])])
    IN  IF planned = "ok" /\ ~Ids(document) \subseteq Ids(base.segments) THEN "UnplannedSelection" ELSE planned

\* verify_selected_keys, against the plan at the selected takes.
SelectedKeysFault(document, selected) ==
    IF \E i \in DOMAIN selected.segments :
          RowOf(document, selected.segments[i].id).key # selected.segments[i].key
    THEN "SelectedCacheKeyMismatch" ELSE "ok"

\* select_plan for a build from the lesson's own path: document is the takes file
\* beside it, or NoTakes.
SelectPlan(lesson, hasTakes, document, retakes) ==
    LET base == PlanOf(lesson, "implicit", <<>>)
        explicit == PlanOf(lesson, "explicit", document)
        resolved == IF hasTakes THEN document ELSE <<>>
        read == IF ~hasTakes THEN "ok"
                ELSE IF TakesFault(document) # "ok" THEN TakesFault(document)
                ELSE IF ReconcileFault(document, base) # "ok" THEN ReconcileFault(document, base)
                ELSE SelectedKeysFault(document, explicit)
        fault == IF read = "ok" THEN RetakeFault(lesson, resolved, retakes) ELSE read
    IN  [outcome |-> fault,
         plan |-> IF fault # "ok" THEN base
                  ELSE IF retakes # <<>> THEN PlanOf(lesson, "implicit", WithRetakes(resolved, retakes))
                  ELSE IF hasTakes THEN explicit ELSE base]

\* Mutant: a recovered selection keeps the takes and forgets the approved audio.
RecoveredTakesOnly(lesson, old) ==
    PlanOf(lesson, old.source, [i \in DOMAIN old.segments |-> [old.segments[i] EXCEPT !.audio = NoAudio]])

\* TakeSelection::recovered, and verify_recorded_selection before it.
RecoveredPlan(lesson, old) == PlanOf(lesson, old.source, old.segments)

RecordedSelectionHolds(plan) ==
    \A i \in DOMAIN plan.segments :
        (plan.segments[i].take = BaseTake) <=> (plan.segments[i].base = plan.segments[i].key)

\* recorded_selections of a package.
RecordedSelections(package) ==
    [i \in DOMAIN package.segments |->
        LET s == package.segments[i] IN Selection(s.id, s.base, s.take, s.key, s.audio)]

-----------------------------------------------------------------------------
VARIABLES
    authored,  \* the lesson at its author's path
    takes,     \* [present, document]: the takes file beside it
    cache,     \* key -> audio, for the entries there are
    heard,     \* how many performances have been synthesized
    retained,  \* the lesson and plan the job directory retains, one or none
    build,     \* the build that runs, one or none
    current,   \* the selected package, one or none
    offered,   \* every selection a takes file has held
    budget     \* what is left of the bounds

takeVars == <<authored, takes, cache, heard, retained, build, current, offered, budget>>

\* A record in a sequence of at most one.
One(x) == <<x>>
Nothing == <<>>

FirstLesson == << [id |-> "a", wording |-> 1, layout |-> 1], [id |-> "b", wording |-> 2, layout |-> 1] >>

TakesInit ==
    /\ authored = FirstLesson
    /\ takes = [present |-> FALSE, document |-> NoTakes]
    /\ cache = <<>> /\ heard = 0 /\ retained = Nothing /\ build = Nothing /\ current = Nothing
    /\ offered = {} /\ budget = [edits |-> MaxEdits, builds |-> MaxBuilds, losses |-> MaxLosses]

Spend(what) == budget[what] > 0 /\ budget' = [budget EXCEPT ![what] = @ - 1]

\* The author changes what a segment says or how it is laid out, or cuts the lesson.
EditLessonText ==
    /\ Spend("edits")
    /\ \/ \E wording \in Wordings : authored' = [authored EXCEPT ![1].wording = wording]
       \/ authored' = [authored EXCEPT ![1].layout = 3 - @]
       \/ authored' = <<authored[1]>>
    /\ authored' # authored
    /\ UNCHANGED <<takes, cache, heard, retained, build, current, offered>>

WriteTakes(document) ==
    /\ takes' = [present |-> TRUE, document |-> document]
    /\ offered' = offered \cup ToSet(document)
    /\ UNCHANGED <<authored, cache, heard, retained, build, current>>

\* The takes file is edited by hand, or removed.
EditTakes ==
    /\ takes.present /\ Spend("edits")
    /\ \/ \E i \in DOMAIN takes.document, take \in TakeNumbers :
            \/ WriteTakes([takes.document EXCEPT ![i].take = take])
            \/ WriteTakes([takes.document EXCEPT ![i].take = take, ![i].key = <<@[1], take>>])
            \/ WriteTakes(Append(takes.document, takes.document[i]))
            \/ WriteTakes(RemoveAt(takes.document, i))
       \/ /\ takes' = [present |-> FALSE, document |-> NoTakes]
          /\ UNCHANGED <<authored, cache, heard, retained, build, current, offered>>

\* accept_current_takes.
AcceptTakes ==
    /\ current # Nothing
    /\ TakesFault(RecordedSelections(current[1])) = "ok"
    /\ WriteTakes(RecordedSelections(current[1]))
    /\ takes' # takes
    /\ UNCHANGED budget

\* The entries an operator deletes.
LoseEntry ==
    /\ Spend("losses")
    /\ \E key \in DOMAIN cache : cache' = [k \in DOMAIN cache \ {key} |-> cache[k]]
    /\ UNCHANGED <<authored, takes, heard, retained, build, current, offered>>

\* The gate lets a plan through: the job retains the lesson and the plan.
Begin(command, lesson, plan, retakes) ==
    /\ build = Nothing /\ Spend("builds")
    /\ retained' = One([lesson |-> lesson, plan |-> plan])
    /\ build' = One([command |-> command, plan |-> plan, retakes |-> Ids(retakes),
                     before |-> current, rendered |-> <<>>])
    /\ UNCHANGED <<authored, takes, cache, heard, current, offered>>

RetakesOf(lesson) ==
    {<<>>} \cup {<<[id |-> id, take |-> take, audio |-> NoAudio]>> : id \in Ids(FirstLesson), take \in TakeNumbers}

\* `render`, with or without --retake.
RenderLesson ==
    \E retakes \in RetakesOf(authored) :
        LET selected == SelectPlan(authored, takes.present, takes.document, retakes)
        IN  selected.outcome = "ok" /\ Begin("render", authored, selected.plan, retakes)

\* `retake`: a build of the lesson the job retains.  Its sibling takes file would be
\* jobs/<id>/lesson.takes.json, which nothing writes.
RetakeLesson ==
    /\ retained # Nothing
    /\ \E retakes \in RetakesOf(retained[1].lesson) \ {<<>>} :
          LET selected == SelectPlan(retained[1].lesson, FALSE, NoTakes, retakes)
          IN  selected.outcome = "ok" /\ Begin("retake", retained[1].lesson, selected.plan, retakes)

\* `resume`: the retained plan, derived again.
ResumeLesson ==
    /\ retained # Nothing
    /\ RecordedSelectionHolds(retained[1].plan)
    /\ Begin("resume", retained[1].lesson, RecoveredPlan(retained[1].lesson, retained[1].plan), <<>>)

\* The next segment: its entry is reused or synthesized, and audio other than the
\* approved refuses the build.
RenderSegment ==
    /\ build # Nothing /\ Len(build[1].rendered) < Len(build[1].plan.segments)
    /\ LET segment == build[1].plan.segments[Len(build[1].rendered) + 1]
           hit == segment.key \in DOMAIN cache
           audio == IF hit THEN cache[segment.key] ELSE heard + 1
       IN  /\ IF hit THEN UNCHANGED <<cache, heard>>
              ELSE /\ heard' = heard + 1
                   /\ cache' = [k \in DOMAIN cache \cup {segment.key} |-> IF k = segment.key THEN audio ELSE cache[k]]
           /\ build' = IF segment.audio \notin {NoAudio, audio} THEN Nothing
                       ELSE One([build[1] EXCEPT !.rendered = Append(@, audio)])
    /\ UNCHANGED <<authored, takes, retained, current, offered, budget>>

\* plan_digest: neither the base key nor the approved audio is part of it.
PlanHash(plan) ==
    [i \in DOMAIN plan.segments |->
        LET s == plan.segments[i] IN <<s.id, s.layout, s.take, s.key>>]

\* What the manifest records of the plan and of each segment.
Package(plan, rendered) == [
    source |-> plan.source, hash |-> PlanHash(plan),
    segments |-> [i \in DOMAIN plan.segments |->
        LET s == plan.segments[i] IN Selection(s.id, s.base, s.take, s.key, rendered[i])]]

\* current_for_build: whether the selected package is this plan's already.
IsCurrent(plan) ==
    \E package \in ToSet(current) :
        package.hash = PlanHash(plan) /\ package.source = plan.source

\* write_with_timings: the selected package is kept, or replaced.
PublishBuild ==
    /\ build # Nothing /\ Len(build[1].rendered) = Len(build[1].plan.segments)
    /\ current' = IF IsCurrent(build[1].plan) THEN current
                  ELSE One(Package(build[1].plan, build[1].rendered))
    /\ build' = Nothing
    /\ UNCHANGED <<authored, takes, cache, heard, retained, offered, budget>>

\* The process ends.
KillBuild ==
    /\ build # Nothing /\ build' = Nothing
    /\ UNCHANGED <<authored, takes, cache, heard, retained, current, offered, budget>>

TakesNext ==
    \/ EditLessonText \/ EditTakes \/ AcceptTakes \/ LoseEntry
    \/ RenderLesson \/ RetakeLesson \/ ResumeLesson
    \/ RenderSegment \/ PublishBuild \/ KillBuild

TakesSpec == TakesInit /\ [][TakesNext]_takeVars

-----------------------------------------------------------------------------
\* A package whose selection is explicit, the one production asks for, holds for each
\* segment exactly the take, the keys and the audio of a selection somebody accepted:
\* through edits of the lesson and of the takes, lost cache entries, retakes, kills
\* and resumed plans (invariant I-3 of pipeline.rs).
ExplicitMeansAccepted ==
    current # Nothing /\ current[1].source = "explicit" =>
        ToSet(RecordedSelections(current[1])) \subseteq offered

\* What accept_current_takes writes of the selected package, the next build of the
\* same words reads: it selects the same entries and calls them explicit.
AcceptedTakesCanBeBuilt ==
    \A package \in ToSet(current) :
        LET same == [i \in DOMAIN authored |-> <<authored[i].id, authored[i].wording>>]
                    = [i \in DOMAIN package.segments |-> <<package.segments[i].id, package.segments[i].key[1]>>]
            again == SelectPlan(authored, TRUE, RecordedSelections(package), <<>>)
        IN  same => /\ again.outcome = "ok" /\ again.plan.source = "explicit"
                    /\ RecordedSelections(again.plan) = RecordedSelections(package)

\* pipeline.rs:75 says that a retake is per segment and that the segments beside it
\* keep their identity: the command `retake` builds the other segments of the
\* selected package from the entries it had.
RetakeKeepsNeighbours ==
    \A b \in ToSet(build) : b.command = "retake" /\ b.before # Nothing =>
        \A i \in DOMAIN b.plan.segments :
            LET s == b.plan.segments[i]
            IN  \A old \in ToSet(b.before[1].segments) :
                    old.id = s.id /\ old.base = s.base /\ s.id \notin b.retakes => s.key = old.key
=============================================================================
