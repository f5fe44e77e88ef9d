------------------------------ MODULE JobLock ------------------------------
(***************************************************************************)
(* Ownership of one job: jobs/<job-id>/build.lock (locking.rs).  Exclusion *)
(* is the kernel's flock on the open file, which dies with the process;    *)
(* the file's content is a record of who owns it.  A record found under a  *)
(* free flock is verified against /proc before it is replaced, and the     *)
(* takeover is logged.  A process is one (pid, start time) pair, so a      *)
(* reused pid is another process and never passes for the recorded one.    *)
(***************************************************************************)
EXTENDS JobEvents, Processes

CONSTANTS
    NoOwner,  \* no process: a free flock, an empty record file
    Partial   \* a record file holding part of a record

ASSUME OwnerAssumption == NoOwner \notin Proc /\ Partial \notin Proc /\ NoOwner # Partial

VARIABLES
    life,    \* whether each process exists: new, running, exited or crashed
    flock,   \* the process holding the advisory lock, or NoOwner
    record,  \* content of build.lock: empty (NoOwner), Partial, or its writer
    lk,      \* each process's place in acquire_job_lock and in Drop
    stale    \* the recorded owner acquire_job_lock found dead, or NoOwner

lockVars == <<life, flock, record, lk, stale>>

LockInit ==
    /\ life = [p \in Proc |-> "new"]
    /\ flock = NoOwner
    /\ record = NoOwner
    /\ lk = [p \in Proc |-> "none"]
    /\ stale = [p \in Proc |-> NoOwner]

-----------------------------------------------------------------------------
(* Acquisition. *)

\* recorded_owner_is_live: the process named by a record still exists.
OwnerIsLive(q) == life[q] = "running"

\* Mutant: the record alone decides, and the flock is not consulted.
TakeFlockUnchecked(p) ==
    /\ life[p] = "running" /\ lk[p] = "none"
    /\ flock' = p
    /\ lk' = [lk EXCEPT ![p] = "examine"]
    /\ UNCHANGED <<life, record, stale>>

\* acquire_job_file_lock, not contended.
TakeFlock(p) ==
    /\ life[p] = "running" /\ lk[p] = "none"
    /\ flock = NoOwner
    /\ flock' = p
    /\ lk' = [lk EXCEPT ![p] = "examine"]
    /\ UNCHANGED <<life, record, stale>>

\* acquire_job_file_lock, contended past the grace: LiveJobLock, or
\* MalformedJobLock when the holder is between truncation and its write.
LoseFlock(p) ==
    /\ life[p] = "running" /\ lk[p] = "none"
    /\ flock \notin {p, NoOwner}
    /\ lk' = [lk EXCEPT ![p] = "out"]
    /\ UNCHANGED <<life, flock, record, stale>>

\* Mutant: a record on a free flock is taken for a dead owner's.
AnyRecordIsReplaceable == record \in Proc \cup {NoOwner}

\* The record may be replaced: it is empty, or whole and its writer is gone.
RecordIsReplaceable == record = NoOwner \/ (record \in Proc /\ ~OwnerIsLive(record))

\* Mutant: an unreadable record is taken for a dead owner's.
ExamineRecordLeniently(p) ==
    /\ life[p] = "running" /\ lk[p] = "examine"
    /\ stale' = [stale EXCEPT ![p] = record]
    /\ lk' = [lk EXCEPT ![p] = "truncate"]
    /\ UNCHANGED <<life, flock, record>>

\* Mutant: a refused acquisition retries for as long as the record stays.
ExamineRecordAgain(p) ==
    /\ life[p] = "running" /\ lk[p] = "examine"
    /\ RecordIsReplaceable
    /\ stale' = [stale EXCEPT ![p] = record]
    /\ lk' = [lk EXCEPT ![p] = "truncate"]
    /\ UNCHANGED <<life, flock, record>>

\* validate_existing_record and the liveness check.  A refusal closes the file,
\* which frees the flock and preserves the record.
ExamineRecord(p) ==
    /\ life[p] = "running" /\ lk[p] = "examine"
    /\ IF RecordIsReplaceable
       THEN /\ stale' = [stale EXCEPT ![p] = record]
            /\ lk' = [lk EXCEPT ![p] = "truncate"]
            /\ UNCHANGED flock
       ELSE /\ lk' = [lk EXCEPT ![p] = "out"]
            /\ flock' = NoOwner
            /\ UNCHANGED stale
    /\ UNCHANGED <<life, record>>

\* set_len(0), then the serializer's writes, then the newline and the sync.
TruncateRecord(p) ==
    /\ life[p] = "running" /\ lk[p] = "truncate"
    /\ record' = NoOwner
    /\ lk' = [lk EXCEPT ![p] = "write"]
    /\ UNCHANGED <<life, flock, stale>>

WriteRecord(p) ==
    /\ life[p] = "running" /\ lk[p] = "write"
    /\ record' = Partial
    /\ lk' = [lk EXCEPT ![p] = "finish"]
    /\ UNCHANGED <<life, flock, stale>>

FinishRecord(p) ==
    /\ life[p] = "running" /\ lk[p] = "finish"
    /\ record' = p
    /\ lk' = [lk EXCEPT ![p] = "log"]
    /\ UNCHANGED <<life, flock, stale>>

\* set_len, a write or a sync fails: the lock already exists, so Drop runs.
RecordFails(p) ==
    /\ life[p] = "running" /\ lk[p] \in {"truncate", "write", "finish"}
    /\ lk' = [lk EXCEPT ![p] = "clear"]
    /\ UNCHANGED <<life, flock, record, stale>>

\* Mutant: a log that is full or torn does not fail the acquisition.
LogTakeoverBestEffort(p) ==
    /\ life[p] = "running" /\ lk[p] = "log"
    /\ lk' = [lk EXCEPT ![p] = "held"]
    /\ IF stale[p] # NoOwner /\ AppendAllowed(1)
       THEN AppendEvent(JobLockRecovered(stale[p])) ELSE UNCHANGED eventVars
    /\ UNCHANGED <<life, flock, record, stale>>

\* The takeover is logged once the new record is durable.  A log that cannot
\* accept the line fails the acquisition, and Drop then clears the record.
LogTakeover(p) ==
    /\ life[p] = "running" /\ lk[p] = "log"
    /\ \/ /\ stale[p] = NoOwner
          /\ lk' = [lk EXCEPT ![p] = "held"]
          /\ UNCHANGED eventVars
       \/ /\ stale[p] # NoOwner
          /\ IF AppendAllowed(1)
             THEN /\ AppendEvent(JobLockRecovered(stale[p]))
                  /\ lk' = [lk EXCEPT ![p] = "held"]
             ELSE /\ lk' = [lk EXCEPT ![p] = "clear"]
                  /\ UNCHANGED eventVars
    /\ UNCHANGED <<life, flock, record, stale>>

-----------------------------------------------------------------------------
(* Release and death. *)

\* The owner drops its JobLock: the build returned, with or without an error.
BeginRelease(p) ==
    /\ life[p] = "running" /\ lk[p] = "held"
    /\ lk' = [lk EXCEPT ![p] = "clear"]
    /\ UNCHANGED <<life, flock, record, stale>>

\* Drop clears the record; a failed set_len is ignored.
ClearRecord(p) ==
    /\ life[p] = "running" /\ lk[p] = "clear"
    /\ record' \in {record, NoOwner}
    /\ lk' = [lk EXCEPT ![p] = "close"]
    /\ UNCHANGED <<life, flock, stale>>

\* The descriptor closes.
CloseLock(p) ==
    /\ life[p] = "running" /\ lk[p] = "close"
    /\ flock' = NoOwner
    /\ lk' = [lk EXCEPT ![p] = "out"]
    /\ stale' = [stale EXCEPT ![p] = NoOwner]
    /\ UNCHANGED <<life, record>>

\* The command returns to the shell.
Exit(p) ==
    /\ life[p] = "running" /\ lk[p] = "out"
    /\ life' = [life EXCEPT ![p] = "exited"]
    /\ UNCHANGED <<flock, record, lk, stale>>

\* The process is killed: the kernel drops its flock, the record stays.
Die(p) ==
    /\ life[p] = "running"
    /\ life' = [life EXCEPT ![p] = "crashed"]
    /\ flock' = IF flock = p THEN NoOwner ELSE flock
    /\ lk' = [lk EXCEPT ![p] = "none"]
    /\ stale' = [stale EXCEPT ![p] = NoOwner]
    /\ UNCHANGED record

Owns(p) == life[p] = "running" /\ lk[p] = "held"

-----------------------------------------------------------------------------
(* The lock by itself: any process may start, own the job and leave. *)

StartProcess(p) ==
    /\ life[p] = "new"
    /\ life' = [life EXCEPT ![p] = "running"]
    /\ UNCHANGED <<flock, record, lk, stale>>

\* A kill; one inside the append of the takeover may tear the log.
Kill(p) ==
    /\ Die(p)
    /\ IF lk[p] = "log" /\ stale[p] # NoOwner
       THEN AppendInterrupted(JobLockRecovered(stale[p]))
       ELSE UNCHANGED eventVars

LockStepOf(p) ==
    \/ /\ \/ TakeFlock(p) \/ LoseFlock(p) \/ ExamineRecord(p)
          \/ TruncateRecord(p) \/ WriteRecord(p) \/ FinishRecord(p) \/ RecordFails(p)
          \/ BeginRelease(p) \/ ClearRecord(p) \/ CloseLock(p) \/ Exit(p)
       /\ UNCHANGED eventVars
    \/ LogTakeover(p)

LockNext ==
    \E p \in Proc :
        \/ LockStepOf(p)
        \/ StartProcess(p) /\ UNCHANGED eventVars
        \/ Kill(p)

LockAndLogInit == LockInit /\ EventsInit

LockSpec == LockAndLogInit /\ [][LockNext]_<<lockVars, eventVars>>

\* A command that was not killed keeps running, and the kernel schedules it.
LockFairSpec ==
    LockSpec /\ \A p \in Proc : WF_<<lockVars, eventVars>>(LockStepOf(p))

-----------------------------------------------------------------------------
(* What the lock promises. *)

\* The owner's record names it for as long as it owns the job: nobody else
\* truncates or rewrites build.lock, and the flock is its own.
OwnerIsRecorded == \A p \in Proc : Owns(p) => record = p /\ flock = p

\* ADR-0001 12.3: a record is evidence.  Whoever replaces the record of another
\* process has a dead one before it, and a record that cannot be read is never
\* replaced once its writer is gone.
EvidenceIsPreserved ==
    [][/\ record \in Proc /\ record # flock /\ record' # record => ~OwnerIsLive(record)
       /\ record = Partial /\ flock = NoOwner => record' = Partial]_<<lockVars, eventVars>>

\* No takeover is silent: an owner that found a dead owner's record has logged
\* it, and every logged takeover names a process that is gone.
TakeoversAreLogged ==
    /\ \A p \in Proc :
          Owns(p) /\ stale[p] # NoOwner =>
              \E i \in DOMAIN log : log[i] = JobLockRecovered(stale[p])
    /\ \A i \in DOMAIN log :
          log[i].kind = "JobLockRecovered" => life[log[i].owner] \in {"exited", "crashed"}

\* The two together: at any moment the record, the flock and the log tell who owns
\* the job and whose death made room for it.
OwnershipIsAccountedFor == OwnerIsRecorded /\ TakeoversAreLogged

\* A command never waits for the lock without end: it owns the job and leaves,
\* is refused, or is killed.
CommandsEnd == \A p \in Proc : life[p] = "running" ~> life[p] \in {"exited", "crashed"}
=============================================================================
