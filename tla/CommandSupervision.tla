-------------------------- MODULE CommandSupervision --------------------------
(***************************************************************************)
(* process::run: one external command (ffmpeg, ffprobe, a version probe,   *)
(* the worker's environment probe) under a deadline, its two streams read  *)
(* by two capture threads.  Whatever happens, run ends by killing the      *)
(* process group and every descendant it has met, and by collecting or     *)
(* giving up the capture threads.                                          *)
(*                                                                         *)
(* Times are not modelled: a deadline or a grace may pass at any moment    *)
(* at which the code is waiting for it.  Left out as unreachable: a PID    *)
(* overflow, pipes missing from a child spawned with pipes, a capture      *)
(* thread that panics, a channel closed before both threads reported.      *)
(***************************************************************************)
EXTENDS ProcessTree

VARIABLES
    cmd,     \* the call of run
    reader   \* each stream's capture thread, and the CaptureEvent it sent last

commandVars == <<cmd, reader>>

Stream == {"stdout", "stderr"}
\* failed: the stream could not be read, or passed its limit.
CaptureEvent == {"complete", "failed", "cancelled"}
Reader == {"absent", "reading"} \cup CaptureEvent
Capture == {"open", "complete", "done"}

\* failures: the original error, and what cleaning up added (preserve_failure).
CommandStep ==
    {"idle", "setup", "watch", "terminate", "capture", "join", "end"}
CommandFailure == {"start", "original", "termination", "capture"}
CommandState ==
    [step : CommandStep, setUp : BOOLEAN, exited : BOOLEAN, cancel : BOOLEAN,
     failures : SUBSET CommandFailure, capture : [Stream -> Capture],
     outcome : {"none", "ok", "failed"}]

NoCommand ==
    [step |-> "idle", setUp |-> FALSE, exited |-> FALSE, cancel |-> FALSE, failures |-> {},
     capture |-> [s \in Stream |-> "open"], outcome |-> "none"]
NoReaders == [s \in Stream |-> "absent"]

CaptureIsDone == \A s \in Stream : cmd.capture[s] # "open"
ReadersFinished == \A s \in Stream : reader[s] # "reading"

CommandTo(step) == cmd' = [cmd EXCEPT !.step = step]
CommandFails(step, failure) ==
    cmd' = [cmd EXCEPT !.step = step, !.failures = @ \cup {failure}]

-----------------------------------------------------------------------------
(* run_with_capture_spawner *)

SpawnCommand ==
    /\ cmd.step = "idle"
    /\ \/ CommandTo("setup") /\ tree' = FreshTree
       \/ /\ cmd' = [cmd EXCEPT !.step = "end", !.failures = {"start"}, !.outcome = "failed"]
          /\ UNCHANGED tree
    /\ owned' = {} /\ term' = Idle /\ UNCHANGED reader

CaptureStarts ==
    /\ cmd.step = "setup"
    /\ reader' = [s \in Stream |-> "reading"]
    /\ cmd' = [cmd EXCEPT !.step = "watch", !.setUp = TRUE]
    /\ UNCHANGED treeVars

\* A pipe cannot be configured or a thread not be started: cleanup_setup_failure.
SetupFails ==
    /\ cmd.step = "setup"
    /\ \E started \in {{}, {"stdout"}} :
         reader' = [s \in Stream |-> IF s \in started THEN "reading" ELSE "absent"]
    /\ CommandFails("terminate", "original") /\ BeginTerminate
    /\ UNCHANGED <<tree, owned>>

-----------------------------------------------------------------------------
(* spawn_capture_pipe *)

ReadStream(s) ==
    /\ reader[s] = "reading"
    /\ \E event \in CaptureEvent :
         /\ event = "complete" => ~PipesAreOpen
         /\ event = "cancelled" => cmd.cancel
         /\ reader' = [reader EXCEPT ![s] = event]
    /\ UNCHANGED <<cmd, treeVars>>

-----------------------------------------------------------------------------
(* supervise *)

SuperviseRefresh ==
    /\ cmd.step = "watch" /\ Refreshed # owned
    /\ owned' = Refreshed /\ UNCHANGED <<tree, term, commandVars>>

\* CaptureState::apply, from supervise and from finish_capture.
ApplyEvent(s) ==
    LET broken == reader[s] = "failed"
        took == [cmd EXCEPT !.capture[s] = IF reader[s] = "complete" THEN "complete" ELSE "done"]
    IN  /\ cmd.step \in {"watch", "capture"}
        /\ reader[s] \in CaptureEvent /\ cmd.capture[s] = "open"
        /\ IF broken /\ cmd.step = "watch"
           THEN /\ cmd' = [took EXCEPT !.step = "terminate", !.failures = @ \cup {"original"}]
                /\ BeginTerminate
           ELSE /\ cmd' = [took EXCEPT !.failures = @ \cup IF broken THEN {"capture"} ELSE {}]
                /\ UNCHANGED term
        /\ UNCHANGED <<reader, tree, owned>>

SeeExit ==
    /\ cmd.step = "watch" /\ ~cmd.exited /\ tree[Root].life = "zombie"
    /\ cmd' = [cmd EXCEPT !.exited = TRUE]
    /\ UNCHANGED <<reader, treeVars>>

\* The deadline passes, or /proc or the child cannot be inspected.
SuperviseFails ==
    /\ cmd.step = "watch"
    /\ CommandFails("terminate", "original") /\ BeginTerminate
    /\ UNCHANGED <<reader, tree, owned>>

\* Mutant: a command whose streams have ended is taken to have exited.
SuperviseEndsWithStreams ==
    /\ cmd.step = "watch" /\ (cmd.exited \/ CaptureIsDone)
    /\ CommandTo("terminate") /\ BeginTerminate
    /\ UNCHANGED <<reader, tree, owned>>

\* The child has exited, and both streams have ended or the grace for
\* descendants that keep them open is over.
SuperviseEnds ==
    /\ cmd.step = "watch" /\ cmd.exited
    /\ CommandTo("terminate") /\ BeginTerminate
    /\ UNCHANGED <<reader, tree, owned>>

CommandTerminates ==
    cmd.step = "terminate" /\ TerminateStep /\ UNCHANGED commandVars

\* finish cancels the capture at once after any failure; cleanup_setup_failure
\* always, and then only joins the threads.
AfterTerminate ==
    LET failures == cmd.failures \cup IF term.failed THEN {"termination"} ELSE {}
    IN  /\ cmd.step = "terminate" /\ term.step = "done"
        /\ cmd' = [cmd EXCEPT !.step = IF cmd.setUp THEN "capture" ELSE "join",
                              !.failures = failures,
                              !.cancel = ~cmd.setUp \/ failures # {}]
        /\ UNCHANGED <<reader, treeVars>>

-----------------------------------------------------------------------------
(* finish_capture, finish_capture_workers, and the end of finish *)

CaptureEnds ==
    /\ cmd.step = "capture" /\ CaptureIsDone
    /\ CommandTo("join")
    /\ UNCHANGED <<reader, treeVars>>

CaptureTimesOut ==
    /\ cmd.step = "capture" /\ ~CaptureIsDone
    /\ cmd' = [cmd EXCEPT !.step = "join", !.cancel = TRUE,
                          !.failures = @ \cup {"capture"}]
    /\ UNCHANGED <<reader, treeVars>>

\* The threads are joined, or left to handoff_capture_reaper; into_output
\* gives an output only when both streams were read to their end.
RunReturns ==
    LET failures == cmd.failures \cup IF ReadersFinished THEN {} ELSE {"capture"}
        whole == \A s \in Stream : cmd.capture[s] = "complete"
    IN  /\ cmd.step = "join"
        /\ cmd' = [cmd EXCEPT !.step = "end", !.failures = failures,
                              !.outcome = IF failures = {} /\ whole THEN "ok" ELSE "failed"]
        /\ UNCHANGED <<reader, treeVars>>

RunStep ==
    \/ SpawnCommand \/ CaptureStarts \/ SetupFails
    \/ SuperviseRefresh \/ SeeExit \/ SuperviseFails \/ SuperviseEnds
    \/ CommandTerminates \/ AfterTerminate
    \/ CaptureEnds \/ CaptureTimesOut \/ RunReturns
    \/ \E s \in Stream : ApplyEvent(s) \/ ReadStream(s)

CommandIsActive == cmd.step \notin {"idle", "end"}

\* The command itself, and the kernel, while run is at work.
CommandMoves ==
    /\ CommandIsActive
    /\ \E p \in TreeProc :
         Fork(p) \/ LeaveGroup(p) \/ ClosePipes(p) \/ ExitItself(p) \/ DieOfSignal(p)
    /\ UNCHANGED <<owned, term, commandVars>>

CommandInit == TreeInit /\ cmd = NoCommand /\ reader = NoReaders
CommandSpec == CommandInit /\ [][RunStep \/ CommandMoves]_<<treeVars, commandVars>>

-----------------------------------------------------------------------------
(* Properties. *)

\* An Ok of run carries the command's own exit status and both streams to their
\* end, and unless run reports that termination failed, no member of the process
\* group and no descendant it has met is alive when it returns.
CommandIsContained ==
    cmd.step = "end" /\ "start" \notin cmd.failures =>
      /\ cmd.outcome = "ok" =>
           /\ tree[Root].exited = "itself"
           /\ \A s \in Stream : reader[s] = "complete"
           /\ ~PipesAreOpen
      /\ "termination" \notin cmd.failures => TreeIsContained
=============================================================================
