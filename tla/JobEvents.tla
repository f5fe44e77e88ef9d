----------------------------- MODULE JobEvents -----------------------------
(***************************************************************************)
(* jobs/<job-id>/events.ndjson: the diagnostic log, one line per durable   *)
(* fact, appended by the owner of the job lock.  A kill in the middle of   *)
(* write_all leaves a line without its newline, which every later reader   *)
(* refuses; the log is never repaired.                                     *)
(***************************************************************************)
EXTENDS Naturals, Sequences

CONSTANT MaxEvents  \* MAX_JOB_EVENT_LOG_BYTES, counted in lines

ASSUME MaxEventsAssumption == MaxEvents \in Nat \ {0}

VARIABLES
    log,   \* the whole lines, oldest first
    torn   \* whether a partial line follows them

eventVars == <<log, torn>>

EventsInit == log = <<>> /\ torn = FALSE

StateDurable(attempt, state) ==
    [kind |-> "StateDurable", attempt |-> attempt, state |-> state]

StageEvent(attempt, stage) ==
    [kind |-> "Stage", attempt |-> attempt, stage |-> stage]

JobLockRecovered(owner) == [kind |-> "JobLockRecovered", owner |-> owner]

\* Mutant: a torn last line is passed over.
TornTailIsSkipped == TRUE

\* validate_event_file: every line is whole and parses.
ValidLog == ~torn

\* What preflight_append and append_event check before anything is written.
AppendAllowed(n) == ValidLog /\ Len(log) + n <= MaxEvents

\* append_event, once AppendAllowed holds.
AppendEvent(e) == log' = Append(log, e) /\ UNCHANGED torn

\* append_event does not return: its process is killed, or write_all or sync_data
\* fails.  The log has no line, a torn one or a whole one.
AppendInterrupted(e) ==
    \/ UNCHANGED eventVars
    \/ AppendAllowed(1) /\ torn' = TRUE /\ UNCHANGED log
    \/ AppendAllowed(1) /\ AppendEvent(e)
=============================================================================
