------------------------ MODULE ChildProcessProofs ------------------------
(***************************************************************************)
(* Theorems about the two supervisors of a child process: process::run     *)
(* (CommandSupervision) and the executor of a worker (WorkerSession), for  *)
(* any number of descendants, requests and faults.  Both rest on what      *)
(* terminate achieves in the process tree they share.  The worker's        *)
(* answers are followed from the request that is asked to the file that is *)
(* left.                                                                   *)
(***************************************************************************)
EXTENDS CommandSupervision, WorkerSession, SequenceTheorems, WellFoundedInduction, TLAPS

-----------------------------------------------------------------------------
(* The process tree. *)

TreeTypeOK ==
    /\ tree \in [TreeProc -> ProcessRecord]
    /\ owned \subseteq Descendants
    /\ term \in [step : TermStep, failed : BOOLEAN]

\* Only descendants that were met are owned, so a process forked later is not.
OwnedAreBorn == \A p \in owned : tree[p].life # "unborn"

\* What a terminate knows of the tree at its last steps, and after it.
TerminateIsTrue ==
    /\ term.step = "contain" => tree[Root].life = "gone"
    /\ term.step = "done" /\ ~term.failed => TreeIsContained

TreeInv == TreeTypeOK /\ OwnedAreBorn /\ TerminateIsTrue

\* A step of the processes themselves.
TreeMoves ==
    \E p \in TreeProc :
        Fork(p) \/ LeaveGroup(p) \/ ClosePipes(p) \/ ExitItself(p) \/ DieOfSignal(p)

\* The root is no descendant.
LEMMA RootIsNoDescendant ==
  Root \notin Descendants /\ Root \in TreeProc /\ Descendants \subseteq TreeProc
  BY DescendantAssumption DEF Root, Descendants, TreeProc

\* A process that is forked.
LEMMA Newborns ==
  ASSUME NEW r \in ProcessRecord, NEW p \in TreeProc
  PROVE  LET n == Newborn(p, r.grouped, r.piped)
         IN  /\ n \in ProcessRecord /\ n.life = "live"
             /\ n.grouped = r.grouped /\ n.piped = r.piped
  BY DEF Newborn, Unborn, ProcessRecord

\* A process that loses its parent.
LEMMA Orphans ==
  ASSUME NEW r \in ProcessRecord
  PROVE  LET n == [r EXCEPT !.parent = InitProcess]
         IN  /\ n \in ProcessRecord /\ n.life = r.life /\ n.exited = r.exited
             /\ n.grouped = r.grouped /\ n.piped = r.piped /\ n.doomed = r.doomed
  BY DEF ProcessRecord

\* A process that leaves its group, closes its pipes, or is killed.
LEMMA Flags ==
  ASSUME NEW r \in ProcessRecord
  PROVE  /\ LET n == [r EXCEPT !.grouped = FALSE]
            IN  /\ n \in ProcessRecord /\ n.life = r.life /\ n.exited = r.exited
                /\ n.grouped = FALSE /\ n.piped = r.piped /\ n.doomed = r.doomed
         /\ LET n == [r EXCEPT !.piped = FALSE]
            IN  /\ n \in ProcessRecord /\ n.life = r.life /\ n.exited = r.exited
                /\ n.grouped = r.grouped /\ n.piped = FALSE /\ n.doomed = r.doomed
         /\ LET n == [r EXCEPT !.doomed = TRUE]
            IN  /\ n \in ProcessRecord /\ n.life = r.life /\ n.exited = r.exited
                /\ n.grouped = r.grouped /\ n.piped = r.piped
  <1>1. LET n == [r EXCEPT !.grouped = FALSE]
        IN  /\ n \in ProcessRecord /\ n.life = r.life /\ n.exited = r.exited
            /\ n.grouped = FALSE /\ n.piped = r.piped /\ n.doomed = r.doomed
    BY DEF ProcessRecord
  <1>2. LET n == [r EXCEPT !.piped = FALSE]
        IN  /\ n \in ProcessRecord /\ n.life = r.life /\ n.exited = r.exited
            /\ n.grouped = r.grouped /\ n.piped = FALSE /\ n.doomed = r.doomed
    BY DEF ProcessRecord
  <1>3. LET n == [r EXCEPT !.doomed = TRUE]
        IN  /\ n \in ProcessRecord /\ n.life = r.life /\ n.exited = r.exited
            /\ n.grouped = r.grouped /\ n.piped = r.piped
    BY DEF ProcessRecord
  <1> QED BY <1>1, <1>2, <1>3

\* What a step of the processes leaves of a process: it is not revived, joins no group
\* and opens no pipe; it ends by itself unless it was killed; and once it has ended, it
\* is as it was.
IsModest(new, old) ==
    /\ new.life = old.life \/ (old.life = "live" /\ new.life \in {"zombie", "gone"})
    /\ new.grouped => old.grouped
    /\ new.piped => old.piped
    /\ new.doomed = old.doomed
    /\ \/ new.exited = old.exited /\ (new.life = old.life)
       \/ old.life = "live" /\ (new.exited = "itself" \/ old.doomed)

\* One step of the processes: a fork, or what each process may do to itself and, by
\* ending, to its children.
LEMMA TreeMoveIsModest ==
  ASSUME TreeTypeOK, TreeMoves
  PROVE  /\ tree' \in [TreeProc -> ProcessRecord]
         /\ \A q \in TreeProc :
              \/ IsModest(tree'[q], tree[q])
              \/ /\ q \in Descendants /\ tree[q].life = "unborn" /\ tree'[q].life = "live"
                 /\ \E p \in TreeProc : /\ tree[p].life = "live"
                                        /\ tree'[q].grouped => tree[p].grouped
                                        /\ tree'[q].piped => tree[p].piped
  <1>1. PICK p \in TreeProc :
          Fork(p) \/ LeaveGroup(p) \/ ClosePipes(p) \/ ExitItself(p) \/ DieOfSignal(p)
    BY DEF TreeMoves
  <1>2. \A q \in TreeProc : tree[q] \in ProcessRecord
    BY DEF TreeTypeOK
  <1>3. \A q \in TreeProc : IsModest(tree[q], tree[q])
    BY DEF IsModest
  <1>4. CASE Fork(p)
    <2>1. PICK d \in Descendants :
             /\ Running(p) /\ tree[d].life = "unborn"
             /\ tree' = [tree EXCEPT ![d] = Newborn(p, tree[p].grouped, tree[p].piped)]
      BY <1>4 DEF Fork
    <2> DEFINE new == Newborn(p, tree[p].grouped, tree[p].piped)
    <2>2. /\ new \in ProcessRecord /\ new.life = "live"
          /\ new.grouped = tree[p].grouped /\ new.piped = tree[p].piped
      BY <1>2, Newborns
    <2> HIDE DEF new
    <2>3. tree' = [tree EXCEPT ![d] = new] /\ tree[p].life = "live"
      BY <2>1 DEF new, Running, Live
    <2>4. tree' \in [TreeProc -> ProcessRecord]
      BY <2>2, <2>3 DEF TreeTypeOK
    <2>5. tree'[d] = new /\ \A q \in TreeProc : q # d => tree'[q] = tree[q]
      BY <2>3, RootIsNoDescendant DEF TreeTypeOK
    <2> QED
      BY <1>3, <2>1, <2>2, <2>3, <2>4, <2>5, RootIsNoDescendant
  <1>5. CASE LeaveGroup(p) \/ ClosePipes(p)
    <2>1. PICK new \in {[tree[p] EXCEPT !.grouped = FALSE], [tree[p] EXCEPT !.piped = FALSE]} :
             tree' = [tree EXCEPT ![p] = new]
      BY <1>5 DEF LeaveGroup, ClosePipes
    <2>2. new \in ProcessRecord /\ IsModest(new, tree[p])
      <3>1. tree[p] \in ProcessRecord
        BY <1>2
      <3>2. CASE new = [tree[p] EXCEPT !.grouped = FALSE]
        BY <3>1, <3>2, Flags DEF IsModest
      <3>3. CASE new = [tree[p] EXCEPT !.piped = FALSE]
        BY <3>1, <3>3, Flags DEF IsModest
      <3> QED BY <3>2, <3>3
    <2>3. tree'[p] = new /\ \A q \in TreeProc : q # p => tree'[q] = tree[q]
      BY <2>1 DEF TreeTypeOK
    <2> QED
      BY <1>3, <2>1, <2>2, <2>3 DEF TreeTypeOK
  <1>6. CASE ExitItself(p) \/ DieOfSignal(p)
    <2>1. PICK how \in {"itself", "signal"} :
             /\ tree' = Ended(p, how) /\ tree[p].life = "live"
             /\ how = "itself" \/ tree[p].doomed
      BY <1>6 DEF ExitItself, DieOfSignal, Running, Live
    <2>2. PICK life \in {"zombie", "gone"} : life = IF p = Root THEN "zombie" ELSE "gone"
      OBVIOUS
    <2> DEFINE last == [tree[p] EXCEPT !.life = life, !.exited = how]
               orphan(q) == [tree[q] EXCEPT !.parent = InitProcess]
    <2>3. last \in ProcessRecord /\ IsModest(last, tree[p])
      <3>1. tree[p] \in ProcessRecord
        BY <1>2
      <3>2. /\ last \in ProcessRecord /\ last.life = life /\ last.exited = how
            /\ last.grouped = tree[p].grouped /\ last.piped = tree[p].piped
            /\ last.doomed = tree[p].doomed
        BY <3>1 DEF ProcessRecord
      <3>3. /\ tree[p].life = "live" /\ last.life \in {"zombie", "gone"} /\ last.life # "live"
            /\ last.exited = "itself" \/ tree[p].doomed
        BY <2>1, <3>2
      <3> HIDE DEF last
      <3> QED BY <3>2, <3>3 DEF IsModest
    <2>4. \A q \in TreeProc : orphan(q) \in ProcessRecord /\ IsModest(orphan(q), tree[q])
      BY <1>2, Orphans DEF IsModest
    <2>5. \A q \in TreeProc : tree'[q] = last \/ tree'[q] = orphan(q) \/ tree'[q] = tree[q]
      BY <2>1, <2>2 DEF Ended
    <2>6. \A q \in TreeProc : q # p => tree'[q] = orphan(q) \/ tree'[q] = tree[q]
      BY <2>1, <2>2 DEF Ended
    <2>7. tree'[p] = last
      BY <2>1, <2>2 DEF Ended
    <2> HIDE DEF last, orphan
    <2>8. \A q \in TreeProc : tree'[q] \in ProcessRecord /\ IsModest(tree'[q], tree[q])
      BY <1>2, <1>3, <2>3, <2>4, <2>6, <2>7
    <2> QED
      BY <2>1, <2>8 DEF Ended
  <1> QED BY <1>1, <1>4, <1>5, <1>6

\* A contained tree stays contained, and pipes that are closed stay closed.
LEMMA TreeMoveKeeps ==
  ASSUME TreeInv, TreeMoves, UNCHANGED <<owned, term>>
  PROVE  /\ TreeInv'
         /\ TreeIsContained => TreeIsContained'
         /\ ~PipesAreOpen => ~PipesAreOpen'
  <1>1. TreeTypeOK' /\ OwnedAreBorn'
    BY TreeMoveIsModest, RootIsNoDescendant DEF TreeInv, TreeTypeOK, OwnedAreBorn, IsModest
  <1>2. tree[Root].life = "gone" => tree'[Root].life = "gone"
    BY TreeMoveIsModest, RootIsNoDescendant DEF TreeInv, IsModest
  <1>3. ~HasLiveDescendants => ~HasLiveDescendants'
    BY TreeMoveIsModest, RootIsNoDescendant
       DEF TreeInv, TreeTypeOK, OwnedAreBorn, HasLiveDescendants, IsModest, Live
  <1>4. ~GroupExists => ~GroupExists'
    BY TreeMoveIsModest DEF TreeInv, GroupExists, IsModest
  <1>5. ~PipesAreOpen => ~PipesAreOpen'
    BY TreeMoveIsModest DEF TreeInv, PipesAreOpen, IsModest, Live
  <1> QED
    BY <1>1, <1>2, <1>3, <1>4, <1>5 DEF TreeInv, TerminateIsTrue, TreeIsContained

\* A kill leaves every process in its group and at its pipes.
LEMMA KillIsModest ==
  ASSUME TreeTypeOK, NEW victims, tree' = Killed(victims)
  PROVE  /\ tree' \in [TreeProc -> ProcessRecord]
         /\ \A q \in TreeProc : /\ tree'[q].life = tree[q].life
                                /\ tree'[q].piped = tree[q].piped
                                /\ tree'[q].exited = tree[q].exited
  <1> DEFINE doomed(q) == [tree[q] EXCEPT !.doomed = TRUE]
  <1>1. \A q \in TreeProc : tree'[q] = tree[q] \/ tree'[q] = doomed(q)
    BY DEF Killed
  <1>2. \A q \in TreeProc : /\ tree[q] \in ProcessRecord /\ doomed(q) \in ProcessRecord
                            /\ doomed(q).life = tree[q].life
                            /\ doomed(q).piped = tree[q].piped
                            /\ doomed(q).exited = tree[q].exited
    BY Flags DEF TreeTypeOK
  <1> HIDE DEF doomed
  <1> QED
    BY <1>1, <1>2 DEF Killed

\* What refresh meets is alive.
LEMMA RefreshedAreBorn ==
  ASSUME TreeTypeOK, OwnedAreBorn
  PROVE  Refreshed \subseteq Descendants /\ \A p \in Refreshed : tree[p].life # "unborn"
  BY DEF TreeTypeOK, OwnedAreBorn, Refreshed, Live

\* A terminate that reports no failure has reaped the root and seen nobody else alive.
LEMMA TerminateKeeps ==
  ASSUME TreeInv, TerminateStep
  PROVE  /\ TreeInv'
         /\ ~PipesAreOpen => ~PipesAreOpen'
         /\ tree'[Root].exited = tree[Root].exited
         /\ tree[Root].life \in {"zombie", "gone"} => tree'[Root].life \in {"zombie", "gone"}
  <1>0. Root \in TreeProc
    BY RootIsNoDescendant
  <1>1. CASE TerminateRefresh
    <2>1. tree' = tree /\ (owned' = owned \/ owned' = Refreshed)
      BY <1>1 DEF TerminateRefresh
    <2>2. term' \in [step : {"kill"}, failed : BOOLEAN]
      <3>1. term.failed \in BOOLEAN
        BY DEF TreeInv, TreeTypeOK
      <3>2. PICK fault \in BOOLEAN : TermTo("kill", fault)
        BY <1>1 DEF TerminateRefresh
      <3> QED BY <3>1, <3>2 DEF TermTo
    <2>3. TreeInv'
      BY <2>1, <2>2, RefreshedAreBorn
         DEF TreeInv, TreeTypeOK, OwnedAreBorn, TerminateIsTrue, TermStep
    <2> QED BY <2>1, <2>3 DEF PipesAreOpen, Live
  <1>2. CASE TerminateGroup \/ TerminateOwned
    <2>1. PICK victims : tree' = Killed(victims)
      BY <1>2 DEF TerminateGroup, TerminateOwned
    <2>2. /\ tree' \in [TreeProc -> ProcessRecord]
          /\ \A q \in TreeProc : /\ tree'[q].life = tree[q].life
                                 /\ tree'[q].piped = tree[q].piped
                                 /\ tree'[q].exited = tree[q].exited
      BY <2>1, KillIsModest DEF TreeInv
    <2>3. owned' = owned /\ term' \in [step : {"descendants", "exit"}, failed : BOOLEAN]
      <3>1. term.failed \in BOOLEAN /\ \A v : (v # owned) \in BOOLEAN
        BY DEF TreeInv, TreeTypeOK
      <3>2. PICK step \in {"descendants", "exit"}, fault \in BOOLEAN : TermTo(step, fault)
        BY <1>2, <3>1 DEF TerminateGroup, TerminateOwned
      <3> QED BY <1>2, <3>1, <3>2 DEF TerminateGroup, TerminateOwned, TermTo
    <2>4. TreeInv'
      BY <2>2, <2>3, RootIsNoDescendant
         DEF TreeInv, TreeTypeOK, OwnedAreBorn, TerminateIsTrue, TermStep
    <2> QED BY <1>0, <2>2, <2>4 DEF PipesAreOpen, Live
  <1>3. CASE ReapChild
    <2>1. /\ tree' = [tree EXCEPT ![Root].life = "gone"] /\ owned' = owned
          /\ term' = [step |-> "contain", failed |-> term.failed \/ FALSE]
      BY <1>3 DEF ReapChild, TermTo
    <2>2. tree' \in [TreeProc -> ProcessRecord] /\ tree'[Root].life = "gone"
      BY <1>0, <2>1 DEF TreeInv, TreeTypeOK, ProcessRecord
    <2>3. OwnedAreBorn'
      BY <1>0, <2>1, RootIsNoDescendant DEF TreeInv, TreeTypeOK, OwnedAreBorn
    <2>4. TreeInv'
      BY <2>1, <2>2, <2>3 DEF TreeInv, TreeTypeOK, TerminateIsTrue, TermStep
    <2> QED
      BY <1>0, <2>1, <2>2, <2>4 DEF TreeInv, TreeTypeOK, ProcessRecord, PipesAreOpen, Live
  <1>4. CASE ExitTimesOut
    BY <1>4
       DEF ExitTimesOut, TermTo, TreeInv, TreeTypeOK, OwnedAreBorn, TerminateIsTrue,
           PipesAreOpen, Live, TermStep
  <1>5. CASE WaitForContainment
    <2>1. tree' = tree /\ owned' = owned /\ tree[Root].life = "gone"
      BY <1>5 DEF WaitForContainment, TreeInv, TerminateIsTrue
    <2>2. /\ term'.step = "done" /\ term'.failed \in BOOLEAN
          /\ term' \in [step : TermStep, failed : BOOLEAN]
          /\ ~term'.failed => ~(GroupExists \/ HasLiveDescendants)
      <3>1. (GroupExists \/ HasLiveDescendants) \in BOOLEAN
        BY DEF GroupExists, HasLiveDescendants
      <3> QED BY <1>5, <3>1 DEF WaitForContainment, TermTo, TreeInv, TreeTypeOK, TermStep
    <2> QED
      BY <2>1, <2>2
         DEF TreeInv, TreeTypeOK, OwnedAreBorn, TerminateIsTrue, TreeIsContained,
             GroupExists, HasLiveDescendants, PipesAreOpen, Live
  <1> QED BY <1>1, <1>2, <1>3, <1>4, <1>5 DEF TerminateStep

\* A terminate begins.
LEMMA BeginTerminateKeeps ==
  ASSUME TreeInv, BeginTerminate, UNCHANGED <<tree, owned>> PROVE TreeInv'
  BY DEF TreeInv, TreeTypeOK, OwnedAreBorn, TerminateIsTrue, BeginTerminate, TermStep

\* A child is spawned.
LEMMA SpawningKeeps ==
  ASSUME TreeTypeOK, tree' \in {tree, FreshTree}, owned' = {}, term' = Idle PROVE TreeInv'
  <1>1. FreshTree \in [TreeProc -> ProcessRecord]
    BY RootIsNoDescendant DEF FreshTree, NoTree, Newborn, Unborn, ProcessRecord
  <1> QED
    BY <1>1 DEF TreeInv, TreeTypeOK, OwnedAreBorn, TerminateIsTrue, Idle, TermStep

\* Nobody touches the tree.
LEMMA SameTree ==
  ASSUME TreeInv, UNCHANGED treeVars
  PROVE  TreeInv' /\ (PipesAreOpen' <=> PipesAreOpen)
  BY DEF treeVars, TreeInv, TreeTypeOK, OwnedAreBorn, TerminateIsTrue, TreeIsContained,
         GroupExists, HasLiveDescendants, PipesAreOpen, Live

\* Nothing runs yet.
LEMMA TreeInitHolds == TreeInit => TreeInv
  <1>1. NoTree \in [TreeProc -> ProcessRecord]
    BY DEF NoTree, Unborn, ProcessRecord
  <1> QED
    BY <1>1 DEF TreeInit, TreeInv, TreeTypeOK, OwnedAreBorn, TerminateIsTrue, Idle, TermStep

-----------------------------------------------------------------------------
(* process::run. *)

CommandTypeOK == cmd \in CommandState /\ reader \in [Stream -> Reader]

\* Nothing is captured yet.
BeforeCapture ==
    cmd.step \in {"idle", "setup"} =>
        /\ cmd.failures = {} /\ ~cmd.exited /\ reader = NoReaders
        /\ \A s \in Stream : cmd.capture[s] = "open"

\* A stream whose end was taken was read to its end, and then nobody holds its pipe.
CaptureIsTrue ==
    /\ \A s \in Stream : cmd.capture[s] = "complete" => reader[s] = "complete"
    /\ (\E s \in Stream : reader[s] = "complete") => ~PipesAreOpen

\* Nobody kills the command before the supervision ends, so the exit that is seen is
\* the command's own; whatever follows has that exit or a failure behind it.
ExitIsTrue ==
    /\ cmd.step \in {"setup", "watch"} =>
          /\ ~tree[Root].doomed /\ tree[Root].life # "unborn" /\ term = Idle
          /\ tree[Root].life # "live" => tree[Root].exited = "itself"
    /\ cmd.exited => tree[Root].life \in {"zombie", "gone"} /\ tree[Root].exited = "itself"
    /\ cmd.step \notin {"idle", "setup", "watch"} => cmd.exited \/ cmd.failures # {}

\* A terminate that failed is among the failures.
FailureIsTold ==
    cmd.step \in {"capture", "join", "end"} /\ "start" \notin cmd.failures =>
        term.step = "done" /\ (term.failed => "termination" \in cmd.failures)

OutcomeIsTrue ==
    cmd.outcome = "ok" =>
        cmd.step = "end" /\ cmd.exited /\ \A s \in Stream : cmd.capture[s] = "complete"

CommandInv ==
    /\ TreeInv /\ CommandTypeOK
    /\ BeforeCapture /\ CaptureIsTrue /\ ExitIsTrue /\ FailureIsTold /\ OutcomeIsTrue

\* The command is spawned, or is not.
LEMMA SpawnCommandKeeps == ASSUME CommandInv, SpawnCommand PROVE CommandInv'
  <1>1. TreeInv'
    BY SpawningKeeps DEF CommandInv, TreeInv, SpawnCommand
  <1>2. CASE cmd' = [cmd EXCEPT !.step = "setup"] /\ tree' = FreshTree
    <2>1. /\ tree'[Root].life = "live" /\ ~tree'[Root].doomed /\ reader' = reader
      BY <1>2, RootIsNoDescendant DEF SpawnCommand, FreshTree, NoTree, Newborn, Unborn
    <2>2. CommandTypeOK' /\ BeforeCapture'
      BY <1>2, <2>1 DEF SpawnCommand, CommandInv, CommandTypeOK, BeforeCapture, CommandState,
                        CommandStep
    <2>3. CaptureIsTrue'
      BY <2>1, <2>2, <1>2 DEF CaptureIsTrue, BeforeCapture, NoReaders, CommandInv, CommandTypeOK,
                              CommandState
    <2>4. ExitIsTrue' /\ FailureIsTold' /\ OutcomeIsTrue'
      BY <1>2, <2>1, <2>2
         DEF SpawnCommand, CommandInv, CommandTypeOK, CommandState, BeforeCapture, ExitIsTrue,
             FailureIsTold, OutcomeIsTrue
    <2> QED BY <1>1, <2>2, <2>3, <2>4 DEF CommandInv
  <1>3. CASE /\ cmd' = [cmd EXCEPT !.step = "end", !.failures = {"start"}, !.outcome = "failed"]
             /\ UNCHANGED tree
    BY <1>1, <1>3
       DEF SpawnCommand, CommandInv, CommandTypeOK, CommandState, CommandStep, CommandFailure,
           BeforeCapture, CaptureIsTrue, ExitIsTrue, FailureIsTold, OutcomeIsTrue, PipesAreOpen,
           Live
  <1> QED BY <1>2, <1>3 DEF SpawnCommand, CommandTo

\* The capture threads start: nothing is read yet.
LEMMA CaptureStartsKeeps == ASSUME CommandInv, CaptureStarts PROVE CommandInv'
  <1>1. TreeInv' /\ UNCHANGED <<tree, owned, term>>
    BY SameTree DEF CommandInv, CaptureStarts, treeVars
  <1>2. /\ cmd.step = "setup" /\ cmd' = [cmd EXCEPT !.step = "watch", !.setUp = TRUE]
        /\ reader' = [s \in Stream |-> "reading"]
    BY DEF CaptureStarts
  <1>3. cmd \in CommandState
    BY DEF CommandInv, CommandTypeOK
  <1>4. /\ cmd' \in CommandState /\ cmd'.step = "watch" /\ cmd'.exited = cmd.exited
        /\ cmd'.failures = cmd.failures /\ cmd'.capture = cmd.capture /\ cmd'.outcome = cmd.outcome
    BY <1>2, <1>3 DEF CommandState, CommandStep
  <1>5. CommandTypeOK'
    BY <1>2, <1>4 DEF CommandTypeOK, Reader
  <1>6. BeforeCapture' /\ CaptureIsTrue' /\ FailureIsTold' /\ OutcomeIsTrue'
    BY <1>2, <1>4 DEF CommandInv, BeforeCapture, CaptureIsTrue, FailureIsTold, OutcomeIsTrue
  <1>7. ExitIsTrue'
    BY <1>1, <1>2, <1>4 DEF CommandInv, ExitIsTrue
  <1> QED BY <1>1, <1>5, <1>6, <1>7 DEF CommandInv

\* They do not start.
LEMMA SetupFailsKeeps == ASSUME CommandInv, SetupFails PROVE CommandInv'
  <1>1. TreeInv'
    BY BeginTerminateKeeps DEF CommandInv, SetupFails
  <1>2. /\ cmd.step = "setup" /\ tree' = tree
        /\ cmd' = [cmd EXCEPT !.step = "terminate", !.failures = @ \cup {"original"}]
        /\ reader' \in [Stream -> {"reading", "absent"}]
    BY DEF SetupFails, CommandFails
  <1>3. cmd \in CommandState
    BY DEF CommandInv, CommandTypeOK
  <1>4. /\ cmd' \in CommandState /\ cmd'.step = "terminate" /\ cmd'.exited = cmd.exited
        /\ "original" \in cmd'.failures /\ cmd'.capture = cmd.capture
        /\ cmd'.outcome = cmd.outcome
    BY <1>2, <1>3 DEF CommandState, CommandStep, CommandFailure
  <1>5. CommandTypeOK'
    BY <1>2, <1>4 DEF CommandTypeOK, Reader
  <1>6. BeforeCapture' /\ CaptureIsTrue' /\ FailureIsTold' /\ OutcomeIsTrue'
    BY <1>2, <1>4 DEF CommandInv, BeforeCapture, CaptureIsTrue, FailureIsTold, OutcomeIsTrue
  <1>7. ExitIsTrue'
    BY <1>2, <1>4 DEF CommandInv, ExitIsTrue
  <1> QED BY <1>1, <1>5, <1>6, <1>7 DEF CommandInv

\* A stream ends when nobody holds its pipe any more.
LEMMA ReadStreamKeeps == ASSUME CommandInv, NEW s \in Stream, ReadStream(s) PROVE CommandInv'
  <1>1. TreeInv' /\ UNCHANGED <<cmd, tree, owned, term>>
    BY SameTree DEF CommandInv, ReadStream, treeVars
  <1>2. PICK event \in CaptureEvent :
          /\ event = "complete" => ~PipesAreOpen
          /\ reader' = [reader EXCEPT ![s] = event]
    BY DEF ReadStream
  <1>3. reader[s] = "reading" /\ cmd.step \notin {"idle", "setup"}
    BY DEF ReadStream, CommandInv, BeforeCapture, NoReaders
  <1> QED
    BY <1>1, <1>2, <1>3
       DEF CommandInv, CommandTypeOK, Reader, BeforeCapture, CaptureIsTrue, ExitIsTrue,
           FailureIsTold, OutcomeIsTrue, PipesAreOpen, Live

\* The supervision meets a descendant.
LEMMA SuperviseRefreshKeeps == ASSUME CommandInv, SuperviseRefresh PROVE CommandInv'
  <1>1. UNCHANGED <<tree, term, cmd, reader>> /\ owned' = Refreshed /\ cmd.step = "watch"
    BY DEF SuperviseRefresh, commandVars
  <1>2. TreeInv'
    BY <1>1, RefreshedAreBorn
       DEF CommandInv, TreeInv, TreeTypeOK, OwnedAreBorn, TerminateIsTrue, ExitIsTrue, Idle
  <1> QED
    BY <1>1, <1>2
       DEF CommandInv, CommandTypeOK, BeforeCapture, CaptureIsTrue, ExitIsTrue, FailureIsTold,
           OutcomeIsTrue, PipesAreOpen, Live

\* It sees the exit: nobody has killed the command, so the exit is its own.
LEMMA SeeExitKeeps == ASSUME CommandInv, SeeExit PROVE CommandInv'
  <1>1. TreeInv' /\ UNCHANGED <<tree, owned, term>> /\ PipesAreOpen' = PipesAreOpen
    BY SameTree DEF CommandInv, SeeExit, treeVars, PipesAreOpen, Live
  <1>2. /\ cmd.step = "watch" /\ cmd' = [cmd EXCEPT !.exited = TRUE] /\ reader' = reader
        /\ tree[Root].life = "zombie"
    BY DEF SeeExit
  <1>3. cmd \in CommandState
    BY DEF CommandInv, CommandTypeOK
  <1>4. /\ cmd' \in CommandState /\ cmd'.step = "watch" /\ cmd'.exited
        /\ cmd'.failures = cmd.failures /\ cmd'.capture = cmd.capture /\ cmd'.outcome = cmd.outcome
    BY <1>2, <1>3 DEF CommandState
  <1>5. CommandTypeOK' /\ BeforeCapture' /\ CaptureIsTrue' /\ FailureIsTold' /\ OutcomeIsTrue'
    BY <1>1, <1>2, <1>4
       DEF CommandInv, CommandTypeOK, BeforeCapture, CaptureIsTrue, FailureIsTold, OutcomeIsTrue
  <1>6. ExitIsTrue'
    BY <1>1, <1>2, <1>4 DEF CommandInv, ExitIsTrue
  <1> QED BY <1>1, <1>5, <1>6 DEF CommandInv

\* It ends, with the exit or with a failure: terminate begins.
LEMMA SuperviseEndsKeeps == ASSUME CommandInv, SuperviseFails \/ SuperviseEnds PROVE CommandInv'
  <1>1. TreeInv' /\ tree' = tree /\ reader' = reader
    BY BeginTerminateKeeps DEF CommandInv, SuperviseFails, SuperviseEnds
  <1>2. PipesAreOpen' = PipesAreOpen
    BY <1>1 DEF PipesAreOpen, Live
  <1>3. cmd \in CommandState
    BY DEF CommandInv, CommandTypeOK
  <1>4. /\ cmd' \in CommandState /\ cmd'.step = "terminate" /\ cmd'.exited = cmd.exited
        /\ (cmd'.exited \/ cmd'.failures # {}) /\ cmd'.capture = cmd.capture
        /\ cmd'.outcome = cmd.outcome /\ cmd.step = "watch"
    <2>1. CASE SuperviseFails
      BY <1>3, <2>1 DEF SuperviseFails, CommandFails, CommandState, CommandStep, CommandFailure
    <2>2. CASE SuperviseEnds
      BY <1>3, <2>2 DEF SuperviseEnds, CommandTo, CommandState, CommandStep
    <2> QED BY <2>1, <2>2
  <1>5. CommandTypeOK' /\ BeforeCapture' /\ CaptureIsTrue' /\ FailureIsTold' /\ OutcomeIsTrue'
    BY <1>1, <1>2, <1>4
       DEF CommandInv, CommandTypeOK, BeforeCapture, CaptureIsTrue, FailureIsTold, OutcomeIsTrue
  <1>6. ExitIsTrue'
    BY <1>1, <1>4 DEF CommandInv, ExitIsTrue
  <1> QED BY <1>1, <1>5, <1>6 DEF CommandInv

\* The event of a capture thread is taken.
LEMMA ApplyEventKeeps == ASSUME CommandInv, NEW s \in Stream, ApplyEvent(s) PROVE CommandInv'
  <1>1. TreeInv' /\ tree' = tree /\ reader' = reader
    BY BeginTerminateKeeps, SameTree DEF CommandInv, ApplyEvent, treeVars
  <1>2. PipesAreOpen' = PipesAreOpen
    BY <1>1 DEF PipesAreOpen, Live
  <1>3. cmd \in CommandState /\ cmd.step \in {"watch", "capture"}
    BY DEF CommandInv, CommandTypeOK, ApplyEvent
  <1> DEFINE to == IF reader[s] = "complete" THEN "complete" ELSE "done"
             took == [cmd EXCEPT !.capture[s] = to]
  <1>4. /\ took \in CommandState /\ took.step = cmd.step /\ took.exited = cmd.exited
        /\ took.failures = cmd.failures /\ took.outcome = cmd.outcome
        /\ took.capture = [cmd.capture EXCEPT ![s] = to]
    BY <1>3 DEF CommandState, Capture
  <1>5. \A t \in Stream : took.capture[t] = "complete" => reader[t] = "complete"
    BY <1>3, <1>4 DEF CommandInv, CaptureIsTrue, CommandState
  <1> HIDE DEF to, took
  <1>6. /\ cmd' \in CommandState /\ cmd'.exited = cmd.exited
        /\ cmd'.outcome = cmd.outcome /\ cmd'.capture = took.capture
        /\ cmd.failures \subseteq cmd'.failures
        /\ \/ cmd.step = "watch" /\ cmd'.step = "terminate" /\ cmd'.failures # {}
           \/ cmd'.step = cmd.step /\ term' = term
    <2>1. CASE reader[s] = "failed" /\ cmd.step = "watch"
      <3>1. cmd' = [took EXCEPT !.step = "terminate", !.failures = @ \cup {"original"}]
        BY <2>1 DEF ApplyEvent, took, to
      <3> QED
        BY <1>4, <2>1, <3>1 DEF CommandState, CommandStep, CommandFailure
    <2>2. CASE ~(reader[s] = "failed" /\ cmd.step = "watch")
      <3> DEFINE more == IF reader[s] = "failed" THEN {"capture"} ELSE {}
      <3>1. cmd' = [took EXCEPT !.failures = @ \cup more] /\ term' = term
        BY <2>2 DEF ApplyEvent, took, to
      <3>2. more \subseteq {"capture"}
        OBVIOUS
      <3> HIDE DEF more
      <3> QED
        BY <1>4, <3>1, <3>2 DEF CommandState, CommandFailure
    <2> QED BY <2>1, <2>2
  <1>7. CommandTypeOK' /\ BeforeCapture' /\ CaptureIsTrue' /\ OutcomeIsTrue'
    BY <1>1, <1>2, <1>3, <1>5, <1>6
       DEF CommandInv, CommandTypeOK, BeforeCapture, CaptureIsTrue, OutcomeIsTrue
  <1>8. FailureIsTold'
    BY <1>3, <1>6 DEF CommandInv, FailureIsTold
  <1>9. ExitIsTrue'
    BY <1>1, <1>3, <1>6 DEF CommandInv, ExitIsTrue
  <1> QED BY <1>1, <1>7, <1>8, <1>9 DEF CommandInv

\* A step of terminate ends nobody's exit and opens no pipe.
LEMMA CommandTerminatesKeeps == ASSUME CommandInv, CommandTerminates PROVE CommandInv'
  <1>1. UNCHANGED <<cmd, reader>> /\ cmd.step = "terminate" /\ TerminateStep
    BY DEF CommandTerminates, commandVars
  <1>2. /\ TreeInv' /\ (~PipesAreOpen => ~PipesAreOpen')
        /\ tree'[Root].exited = tree[Root].exited
        /\ tree[Root].life \in {"zombie", "gone"} => tree'[Root].life \in {"zombie", "gone"}
    BY <1>1, TerminateKeeps DEF CommandInv
  <1>3. CommandTypeOK' /\ BeforeCapture' /\ CaptureIsTrue' /\ FailureIsTold' /\ OutcomeIsTrue'
    BY <1>1, <1>2
       DEF CommandInv, CommandTypeOK, BeforeCapture, CaptureIsTrue, FailureIsTold, OutcomeIsTrue
  <1>4. ExitIsTrue'
    BY <1>1, <1>2 DEF CommandInv, ExitIsTrue
  <1> QED BY <1>2, <1>3, <1>4 DEF CommandInv

\* What follows terminate only moves on, and forgets neither the exit nor a failure.
LEMMA EndingKeeps ==
  ASSUME CommandInv, AfterTerminate \/ CaptureEnds \/ CaptureTimesOut \/ RunReturns
  PROVE  CommandInv'
  <1>1. TreeInv' /\ UNCHANGED <<tree, owned, term, reader>> /\ PipesAreOpen' = PipesAreOpen
    BY SameTree
       DEF CommandInv, AfterTerminate, CaptureEnds, CaptureTimesOut, RunReturns, treeVars,
           PipesAreOpen, Live
  <1>2. cmd \in CommandState
    BY DEF CommandInv, CommandTypeOK
  <1>3. /\ cmd' \in CommandState /\ cmd'.step \in {"capture", "join", "end"}
        /\ cmd.step \in {"terminate", "capture", "join"}
        /\ cmd'.exited = cmd.exited /\ cmd.failures \subseteq cmd'.failures
        /\ cmd'.capture = cmd.capture
    <2>1. CASE AfterTerminate
      BY <1>2, <2>1 DEF AfterTerminate, CommandState, CommandStep, CommandFailure
    <2>2. CASE CaptureEnds
      BY <1>2, <2>2 DEF CaptureEnds, CommandTo, CommandState, CommandStep
    <2>3. CASE CaptureTimesOut
      BY <1>2, <2>3 DEF CaptureTimesOut, CommandState, CommandStep, CommandFailure
    <2>4. CASE RunReturns
      BY <1>2, <2>4 DEF RunReturns, CommandState, CommandStep, CommandFailure
    <2> QED BY <2>1, <2>2, <2>3, <2>4
  <1>4. FailureIsTold'
    <2>1. CASE AfterTerminate
      <3>1. term.step = "done" /\ (term.failed => "termination" \in cmd'.failures)
        BY <1>2, <2>1 DEF AfterTerminate, CommandState
      <3> QED BY <1>1, <3>1 DEF FailureIsTold
    <2>2. CASE ~AfterTerminate
      <3>1. cmd.step \in {"capture", "join"}
        BY <2>2 DEF CaptureEnds, CaptureTimesOut, RunReturns
      <3> QED BY <1>1, <1>3, <3>1 DEF CommandInv, FailureIsTold
    <2> QED BY <2>1, <2>2
  <1>5. OutcomeIsTrue'
    <2>1. CASE RunReturns /\ cmd'.outcome = "ok"
      <3>1. /\ cmd'.failures = {} /\ cmd'.step = "end"
            /\ \A s \in Stream : cmd'.capture[s] = "complete"
        BY <1>2, <2>1 DEF RunReturns, CommandState
      <3>2. cmd'.exited
        BY <1>3, <3>1 DEF CommandInv, ExitIsTrue
      <3> QED BY <3>1, <3>2 DEF OutcomeIsTrue
    <2>2. CASE ~RunReturns
      <3>1. cmd'.outcome = cmd.outcome
        BY <1>2, <2>2 DEF AfterTerminate, CaptureEnds, CommandTo, CaptureTimesOut, CommandState
      <3> QED BY <1>3, <3>1 DEF CommandInv, OutcomeIsTrue
    <2> QED BY <2>1, <2>2 DEF OutcomeIsTrue
  <1>6. CommandTypeOK' /\ BeforeCapture' /\ CaptureIsTrue'
    BY <1>1, <1>3 DEF CommandInv, CommandTypeOK, BeforeCapture, CaptureIsTrue
  <1>7. ExitIsTrue'
    BY <1>1, <1>3 DEF CommandInv, ExitIsTrue
  <1> QED BY <1>1, <1>4, <1>5, <1>6, <1>7 DEF CommandInv

\* The processes may do as they like: an exit that is seen stays, and so does a closed pipe.
LEMMA CommandMovesKeep == ASSUME CommandInv, CommandMoves PROVE CommandInv'
  <1>1. UNCHANGED <<owned, term, cmd, reader>> /\ TreeMoves
    BY DEF CommandMoves, commandVars, TreeMoves
  <1>2. TreeInv' /\ (~PipesAreOpen => ~PipesAreOpen')
    BY <1>1, TreeMoveKeeps DEF CommandInv
  <1>3. IsModest(tree'[Root], tree[Root])
    BY <1>1, TreeMoveIsModest, RootIsNoDescendant DEF CommandInv, TreeInv
  <1>4. CommandTypeOK' /\ BeforeCapture' /\ CaptureIsTrue' /\ FailureIsTold' /\ OutcomeIsTrue'
    BY <1>1, <1>2
       DEF CommandInv, CommandTypeOK, BeforeCapture, CaptureIsTrue, FailureIsTold, OutcomeIsTrue
  <1>5. ExitIsTrue'
    BY <1>1, <1>3 DEF CommandInv, ExitIsTrue, IsModest
  <1> QED BY <1>2, <1>4, <1>5 DEF CommandInv

\* process::run keeps its invariant: terminate is always behind it, its failures are told,
\* and an output is that of a command that exited by itself.
THEOREM CommandInvariant == CommandSpec => []CommandInv
  <1>1. CommandInit => CommandInv
    BY TreeInitHolds
       DEF CommandInit, NoCommand, NoReaders, CommandInv, CommandTypeOK, CommandState,
           CommandStep, CommandFailure, Capture, Reader, BeforeCapture, CaptureIsTrue,
           ExitIsTrue, FailureIsTold, OutcomeIsTrue, Stream
  <1>2. CommandInv /\ [RunStep \/ CommandMoves]_<<treeVars, commandVars>> => CommandInv'
    <2> SUFFICES ASSUME CommandInv, [RunStep \/ CommandMoves]_<<treeVars, commandVars>>
                 PROVE  CommandInv'
      OBVIOUS
    <2>1. CASE RunStep
      BY <2>1, SpawnCommandKeeps, CaptureStartsKeeps, SetupFailsKeeps, SuperviseRefreshKeeps,
         SeeExitKeeps, SuperviseEndsKeeps, CommandTerminatesKeeps, EndingKeeps,
         ApplyEventKeeps, ReadStreamKeeps
         DEF RunStep
    <2>2. CASE CommandMoves
      BY <2>2, CommandMovesKeep
    <2>3. CASE UNCHANGED <<treeVars, commandVars>>
      <3>1. TreeInv' /\ (PipesAreOpen' <=> PipesAreOpen)
        BY <2>3, SameTree DEF CommandInv
      <3> QED
        BY <2>3, <3>1
           DEF treeVars, commandVars, CommandInv, CommandTypeOK, BeforeCapture, CaptureIsTrue,
               ExitIsTrue, FailureIsTold, OutcomeIsTrue
    <2> QED BY <2>1, <2>2, <2>3
  <1> QED BY <1>1, <1>2, PTL DEF CommandSpec

\* What process::run returns as a success is the command's own exit with both streams
\* read to their end; and unless it reports that termination failed, nobody it has met
\* survives it.
THEOREM CommandsAreContained == CommandSpec => []CommandIsContained
  <1>1. CommandInv => CommandIsContained
    <2> SUFFICES ASSUME CommandInv, cmd.step = "end", "start" \notin cmd.failures
                 PROVE  /\ cmd.outcome = "ok" =>
                             /\ tree[Root].exited = "itself"
                             /\ \A s \in Stream : reader[s] = "complete"
                             /\ ~PipesAreOpen
                        /\ "termination" \notin cmd.failures => TreeIsContained
      BY DEF CommandIsContained
    <2>1. "termination" \notin cmd.failures => TreeIsContained
      BY DEF CommandInv, FailureIsTold, TreeInv, TerminateIsTrue
    <2>2. ASSUME cmd.outcome = "ok"
          PROVE  cmd.exited /\ \A s \in Stream : reader[s] = "complete"
      BY <2>2 DEF CommandInv, OutcomeIsTrue, CaptureIsTrue
    <2>3. cmd.outcome = "ok" => ~PipesAreOpen
      BY <2>2 DEF CommandInv, CaptureIsTrue, Stream
    <2> QED BY <2>1, <2>2, <2>3 DEF CommandInv, ExitIsTrue
  <1> QED BY <1>1, CommandInvariant, PTL

-----------------------------------------------------------------------------
(* The session: types. *)

RequestMethod == {"none", "initialize", "capabilities", "synthesize", "shutdown"}
Identity == Nat \X {"none", "initialize", "capabilities", "segment", "shutdown"}
FrameEvent ==
    {"none", "initialized", "capabilities", "progress", "synthesis_succeeded", "failure",
     "shutdown"} \cup BrokenEvents
FailureCode == {"internal", "initialization_failed", "synthesis_failed"}
Kind ==
    {"none", "started", "protocol", "invalid", "execution", "drift", "destination", "ok",
     "timeout", "timeout, uncontained"}

RequestType ==
    [method : RequestMethod, id : Identity, voice : Voices \cup {NoVoice},
     output : 0 .. MaxSyntheses]
FrameType ==
    [event : FrameEvent, id : Identity, revision : Revisions \cup {Nothing} \cup FailureCode,
     voice : Voices \cup {NoVoice}, raw : RawResponse]
FileType ==
    [id : Identity, voice : Voices \cup {NoVoice}, revision : Revisions \cup {Nothing, Partial}]
ClientType ==
    [step : {"idle", "send", "write", "await", "ready", "close", "wait", "terminate", "epilogue", "join",
             "over"},
     request : RequestType, poisoned : BOOLEAN, exchanges : 0 .. MaxSyntheses, child : BOOLEAN,
     cause : {"close", "timeout"}, inspection : BOOLEAN, answered : BOOLEAN,
     epilogue : {"ok", "Epilogue", "Containment"},
     last : [kind : Kind, request : RequestType]]
WorkerType ==
    [step : {"boot", "read", "work", "write", "leave", "dead"}, loaded : Revisions \cup {Nothing},
     job : RequestType, reply : FrameType]

PipesTypeOK ==
    /\ stdin \in [open : BOOLEAN, lines : Seq(RequestType)]
    /\ wire \in Seq(FrameType) /\ responses \in Seq(FrameType)
    /\ listener \in [step : {"reading", "holding", "done"}, item : FrameType]
FilesTypeOK == staged \in [0 .. MaxSyntheses -> FileType] /\ record \in Revisions
SessionTypeOK == client \in ClientType /\ PipesTypeOK /\ worker \in WorkerType /\ FilesTypeOK

Elements(s) == {s[i] : i \in 1 .. Len(s)}

\* The requests the client makes that name no file.
StartRequests == {NoRequest, InitializeRequest, CapabilitiesRequest}

LEMMA ElementsOf ==
  ASSUME NEW S, NEW s \in Seq(S)
  PROVE  /\ \A e \in S : /\ Append(s, e) \in Seq(S)
                         /\ Elements(Append(s, e)) = Elements(s) \cup {e}
         /\ s # <<>> => /\ Head(s) \in S /\ Tail(s) \in Seq(S)
                        /\ Head(s) \in Elements(s) /\ Elements(Tail(s)) \subseteq Elements(s)
         /\ <<>> \in Seq(S) /\ Elements(<<>>) = {}
  <1>1. ASSUME NEW e \in S
        PROVE  Append(s, e) \in Seq(S) /\ Elements(Append(s, e)) = Elements(s) \cup {e}
    <2>1. /\ Append(s, e) \in Seq(S) /\ Len(Append(s, e)) = Len(s) + 1 /\ Len(s) \in Nat
          /\ \A i \in 1 .. Len(s) : Append(s, e)[i] = s[i]
          /\ Append(s, e)[Len(s) + 1] = e
      OBVIOUS
    <2>2. 1 .. Len(s) + 1 = (1 .. Len(s)) \cup {Len(s) + 1}
      BY <2>1
    <2> QED BY <2>1, <2>2 DEF Elements
  <1>2. ASSUME s # <<>>
        PROVE  /\ Head(s) \in S /\ Tail(s) \in Seq(S)
               /\ Head(s) \in Elements(s) /\ Elements(Tail(s)) \subseteq Elements(s)
    <2>1. Len(s) \in Nat /\ Len(s) >= 1 /\ Head(s) = s[1]
      BY <1>2, EmptySeq
    <2>2. /\ Head(s) \in S /\ Tail(s) \in Seq(S) /\ Len(Tail(s)) = Len(s) - 1
          /\ \A i \in 1 .. Len(Tail(s)) : Tail(s)[i] = s[i + 1]
      BY <1>2, HeadTailProperties
    <2>3. \A i \in 1 .. Len(Tail(s)) : i + 1 \in 1 .. Len(s)
      BY <2>1, <2>2
    <2> QED BY <2>1, <2>2, <2>3 DEF Elements
  <1>3. <<>> \in Seq(S) /\ Elements(<<>>) = {}
    BY DEF Elements
  <1> QED BY <1>1, <1>2, <1>3

LEMMA NoElements == ASSUME NEW S PROVE <<>> \in Seq(S) /\ Elements(<<>>) = {}
  BY DEF Elements

\* The requests that belong to no synthesis.
LEMMA StartRequestsAre ==
  /\ StartRequests \subseteq RequestType /\ ShutdownRequest \in RequestType
  /\ \A r \in StartRequests : r.output = 0 /\ r.method # "synthesize"
  /\ ShutdownRequest.method # "synthesize" /\ NoRequest.id = <<0, "none">>
  /\ NoRequest.voice = NoVoice
  <1>1. 0 \in 0 .. MaxSyntheses /\ 0 \in Nat
    BY SessionAssumption
  <1>2. NoRequest \in RequestType /\ NoRequest.output = 0 /\ NoRequest.method # "synthesize"
    BY <1>1 DEF NoRequest, Request, RequestType, RequestMethod, Identity
  <1>3. /\ InitializeRequest \in RequestType /\ InitializeRequest.output = 0
        /\ InitializeRequest.method # "synthesize"
    BY <1>1 DEF InitializeRequest, Request, RequestType, RequestMethod, Identity
  <1>4. /\ CapabilitiesRequest \in RequestType /\ CapabilitiesRequest.output = 0
        /\ CapabilitiesRequest.method # "synthesize"
    BY <1>1 DEF CapabilitiesRequest, Request, RequestType, RequestMethod, Identity
  <1>5. ShutdownRequest \in RequestType /\ ShutdownRequest.method # "synthesize"
    BY <1>1 DEF ShutdownRequest, Request, RequestType, RequestMethod, Identity
  <1>6. NoRequest.id = <<0, "none">> /\ NoRequest.voice = NoVoice
    BY DEF NoRequest, Request
  <1> QED BY <1>2, <1>3, <1>4, <1>5, <1>6 DEF StartRequests

LEMMA SoundResponseIsRaw == SoundResponse \in RawResponse
  BY DEF SoundResponse, RawResponse, Version

LEMMA StreamEventsAre ==
  ASSUME NEW event \in FrameEvent
  PROVE  StreamEvent(event) \in FrameType /\ StreamEvent(event).event = event
  <1>1. NoRequest.id \in Identity
    BY DEF NoRequest, Request, Identity
  <1>2. NoVoice \in Voices \cup {NoVoice} /\ Nothing \in Revisions \cup {Nothing} \cup FailureCode
    OBVIOUS
  <1> QED BY <1>1, <1>2, SoundResponseIsRaw DEF StreamEvent, Frame, FrameType

\* A frame with another revision, voice or progress is the same answer.
LEMMA FramesChanged ==
  ASSUME NEW f \in FrameType
  PROVE  /\ \A r \in Revisions \cup {Nothing} \cup FailureCode :
              LET g == [f EXCEPT !.revision = r]
              IN  g \in FrameType /\ g.event = f.event /\ g.id = f.id /\ g.revision = r
         /\ \A v \in Voices \cup {NoVoice} :
              LET g == [f EXCEPT !.voice = v]
              IN  /\ g \in FrameType /\ g.event = f.event /\ g.id = f.id
                  /\ g.revision = f.revision /\ g.voice = v
         /\ LET g == [f EXCEPT !.raw.outside = TRUE]
            IN  g \in FrameType /\ g.event = f.event
  <1>1. ASSUME NEW r \in Revisions \cup {Nothing} \cup FailureCode
        PROVE  LET g == [f EXCEPT !.revision = r]
               IN  g \in FrameType /\ g.event = f.event /\ g.id = f.id /\ g.revision = r
    BY DEF FrameType
  <1>2. ASSUME NEW v \in Voices \cup {NoVoice}
        PROVE  LET g == [f EXCEPT !.voice = v]
               IN  /\ g \in FrameType /\ g.event = f.event /\ g.id = f.id
                   /\ g.revision = f.revision /\ g.voice = v
    BY DEF FrameType
  <1>3. LET g == [f EXCEPT !.raw.outside = TRUE]
        IN  g \in FrameType /\ g.event = f.event
    BY DEF FrameType, RawResponse
  <1> QED BY <1>1, <1>2, <1>3

\* A list of checks passes only if none of them fails.
LEMMA FirstFaultIsTrue ==
  ASSUME NEW Words, "ok" \notin Words, NEW checks \in Seq(BOOLEAN \X Words)
  PROVE  /\ FirstFault(checks) \in Words \cup {"ok"}
         /\ FirstFault(checks) = "ok" <=> \A i \in DOMAIN checks : ~checks[i][1]
  <1> DEFINE failing == {i \in DOMAIN checks : checks[i][1]}
  <1>1. CASE failing = {}
    <2>1. FirstFault(checks) = "ok"
      BY <1>1 DEF FirstFault
    <2>2. \A i \in DOMAIN checks : ~checks[i][1]
      BY <1>1
    <2> QED BY <2>1, <2>2
  <1>2. CASE failing # {}
    <2>1. failing \subseteq Nat
      BY LenProperties
    <2>2. \E x \in failing : \A y \in failing : ~(<<y, x>> \in OpToRel(<, Nat))
      BY <1>2, <2>1, WFMin, NatLessThanWellFounded
    <2>3. \E x \in failing : \A y \in failing : x =< y
      <3>1. PICK x \in failing : \A y \in failing : ~(<<y, x>> \in OpToRel(<, Nat))
        BY <2>2
      <3>2. \A y \in failing : ~(y < x)
        BY <2>1, <3>1 DEF OpToRel
      <3>3. \A y \in failing : y \in Nat /\ x \in Nat
        BY <2>1
      <3> HIDE DEF failing
      <3> QED BY <3>2, <3>3
    <2>4. Min(failing) \in failing
      BY <2>3 DEF Min
    <2>5. checks[Min(failing)] \in BOOLEAN \X Words
      BY <2>4, LenProperties
    <2> QED BY <1>2, <2>4, <2>5 DEF FirstFault
  <1> QED BY <1>1, <1>2

-----------------------------------------------------------------------------
(* The session: the answer is to the request. *)

Asked == {worker.job} \cup Elements(stdin.lines)
InFlight == {worker.reply, listener.item} \cup Elements(wire) \cup Elements(responses)

\* The executor's request is one of start, or the synthesis it counted last.
OwnRequest ==
    /\ \/ client.request \in StartRequests
       \/ /\ client.request.output = client.exchanges /\ client.request.output # 0
          /\ client.request.id = <<client.exchanges, "segment">>
    /\ client.step \in {"send", "write", "await"} => client.request # NoRequest

\* A synthesis the worker may still work on was numbered by this client, and if it has the
\* number of the request that is open, it is that request.
RequestIsKnown(r) ==
    r.method = "synthesize" =>
      /\ r.output \in 1 .. client.exchanges /\ r.id = <<r.output, "segment">>
      /\ r.output = client.request.output => r = client.request

\* A success on its way names a synthesis of this client; and if that is the one that is
\* open, with its voice and the verified model, the file is there and is what it says.
FrameIsTrue(f) ==
    f.event = "synthesis_succeeded" =>
      \E n \in 1 .. client.exchanges :
        /\ f.id = <<n, "segment">>
        /\ f.revision = Verified /\ n = client.request.output /\ f.voice = client.request.voice =>
             staged[n] = Rendered(client.request, Verified)

LastIsTrue ==
    client.last.kind = "ok" =>
      /\ client.last.request.output # 0
      /\ client.last.request.id = <<client.last.request.output, "segment">>
      /\ staged[client.last.request.output] = Rendered(client.last.request, Verified)

AnswerInv ==
    /\ OwnRequest /\ LastIsTrue
    /\ \A r \in Asked : RequestIsKnown(r)
    /\ \A f \in InFlight : FrameIsTrue(f)

\* The open request is known like the others.
LEMMA OpenRequestIsKnown == ASSUME SessionTypeOK, OwnRequest PROVE RequestIsKnown(client.request)
  BY StartRequestsAre, SessionAssumption
     DEF OwnRequest, RequestIsKnown, SessionTypeOK, ClientType, RequestType

\* A step that changes no file, counts no synthesis and opens none keeps all of it, when
\* what it puts on the way was true before.
LEMMA QuietStep ==
  ASSUME SessionTypeOK, AnswerInv, staged' = staged, client'.exchanges = client.exchanges,
         client'.request \in {client.request} \cup StartRequests,
         \/ client' = client
         \/ client'.step \notin {"send", "write", "await"} \/ client'.request # NoRequest,
         LastIsTrue',
         \A r : r \in Asked' => RequestIsKnown(r),
         \A f : f \in InFlight' => FrameIsTrue(f)
  PROVE  AnswerInv'
  <1>1. client.request.output \in Nat /\ client.exchanges \in Nat
    BY SessionAssumption DEF SessionTypeOK, ClientType, RequestType
  <1>2. \A r \in StartRequests : r.output = 0
    BY StartRequestsAre
  <1>3. OwnRequest'
    BY <1>2 DEF AnswerInv, OwnRequest
  <1>4. ASSUME NEW r, r \in Asked' PROVE RequestIsKnown(r)'
    BY <1>1, <1>2, <1>4 DEF RequestIsKnown
  <1>5. ASSUME NEW f, f \in InFlight' PROVE FrameIsTrue(f)'
    BY <1>1, <1>2, <1>5 DEF FrameIsTrue
  <1> QED BY <1>3, <1>4, <1>5 DEF AnswerInv

\* An event that is no success is true.
LEMMA OtherEvents == ASSUME NEW f, f.event # "synthesis_succeeded" PROVE FrameIsTrue(f)
  BY DEF FrameIsTrue

\* A request that is no synthesis is known.
LEMMA OtherRequests == ASSUME NEW r, r.method # "synthesize" PROVE RequestIsKnown(r)
  BY DEF RequestIsKnown

SessionInv == SessionTypeOK /\ AnswerInv

-----------------------------------------------------------------------------
(* What each step of the worker leaves on the pipes. *)

\* A step that answers nothing: the worker moves on, reads a line, or ends.
LEMMA WorkerQuiet ==
  ASSUME SessionInv, WorkerBoots \/ WorkerReads \/ WorkerWrites \/ WorkerLeaves \/ WorkerDies,
         UNCHANGED <<client, responses, listener, record>>
  PROVE  SessionInv'
  <1>0. /\ worker \in WorkerType /\ staged' = staged
        /\ stdin \in [open : BOOLEAN, lines : Seq(RequestType)] /\ wire \in Seq(FrameType)
    BY DEF SessionInv, SessionTypeOK, PipesTypeOK, WorkerBoots, WorkerReads, WorkerWrites,
           WorkerLeaves, WorkerDies
  <1>1. NoRequest \in RequestType /\ NoRequest.method # "synthesize"
    BY StartRequestsAre DEF StartRequests
  <1>2. NoFrame \in FrameType /\ NoFrame.event # "synthesis_succeeded"
    BY StreamEventsAre DEF NoFrame, FrameEvent
  <1>3. /\ StreamEvent("unterminated") \in FrameType
        /\ StreamEvent("unterminated").event # "synthesis_succeeded"
    BY StreamEventsAre DEF FrameEvent, BrokenEvents
  <1>4. DeadWorker \in WorkerType /\ DeadWorker.job = NoRequest /\ DeadWorker.reply = NoFrame
    BY <1>1, <1>2 DEF DeadWorker, NewWorker, WorkerType
  <1>5. /\ worker' \in WorkerType /\ stdin' \in [open : BOOLEAN, lines : Seq(RequestType)]
        /\ wire' \in Seq(FrameType)
        /\ worker'.job \in Asked \cup {NoRequest} /\ worker'.reply \in {worker.reply, NoFrame}
        /\ Elements(stdin'.lines) \subseteq Elements(stdin.lines)
        /\ Elements(wire') \subseteq Elements(wire) \cup {worker.reply, StreamEvent("unterminated")}
    <2>1. CASE WorkerBoots
      BY <1>0, <2>1 DEF WorkerBoots, WorkerTo, WorkerType, Asked
    <2>2. CASE WorkerReads
      <3>1. /\ stdin.lines \in Seq(RequestType) /\ stdin.lines # <<>>
            /\ worker' = [worker EXCEPT !.step = "work", !.job = Head(stdin.lines)]
            /\ stdin' = [stdin EXCEPT !.lines = Tail(@)] /\ wire' = wire
        BY <1>0, <2>2 DEF WorkerReads
      <3>2. /\ Head(stdin.lines) \in RequestType /\ Tail(stdin.lines) \in Seq(RequestType)
            /\ Head(stdin.lines) \in Elements(stdin.lines)
            /\ Elements(Tail(stdin.lines)) \subseteq Elements(stdin.lines)
        BY <3>1, ElementsOf
      <3> QED BY <1>0, <3>1, <3>2 DEF WorkerType, Asked
    <2>3. CASE WorkerWrites
      <3>1. worker.reply \in FrameType
        BY <1>0 DEF WorkerType
      <3>2. /\ Append(wire, worker.reply) \in Seq(FrameType)
            /\ Elements(Append(wire, worker.reply)) = Elements(wire) \cup {worker.reply}
        BY <1>0, <3>1, ElementsOf
      <3> QED BY <1>0, <1>1, <1>2, <2>3, <3>2 DEF WorkerWrites, WorkerType
    <2>4. CASE WorkerLeaves \/ WorkerDies
      <3>1. /\ Append(wire, StreamEvent("unterminated")) \in Seq(FrameType)
            /\ Elements(Append(wire, StreamEvent("unterminated")))
                 = Elements(wire) \cup {StreamEvent("unterminated")}
        BY <1>0, <1>3, ElementsOf
      <3> QED BY <1>0, <1>4, <2>4, <3>1 DEF WorkerLeaves, WorkerDies
    <2> QED BY <2>1, <2>2, <2>3, <2>4
  <1>6. SessionTypeOK'
    BY <1>0, <1>5 DEF SessionInv, SessionTypeOK, PipesTypeOK, FilesTypeOK
  <1>7. ASSUME NEW r, r \in Asked' PROVE RequestIsKnown(r)
    BY <1>1, <1>5, <1>7, OtherRequests DEF Asked, SessionInv, AnswerInv
  <1>8. ASSUME NEW f, f \in InFlight' PROVE FrameIsTrue(f)
    BY <1>2, <1>3, <1>5, <1>8, OtherEvents DEF InFlight, SessionInv, AnswerInv
  <1>9. LastIsTrue'
    BY <1>0 DEF SessionInv, AnswerInv, LastIsTrue
  <1> QED BY <1>0, <1>6, <1>7, <1>8, <1>9, QuietStep DEF SessionInv

\* A refusal, or the answer to a request that is no synthesis.
LEMMA AnswersAre ==
  ASSUME worker \in WorkerType, record \in Revisions
  PROVE  /\ \A event \in FrameEvent : /\ Answer(event) \in FrameType
                                      /\ Answer(event).event = event
                                      /\ Answer(event).id = worker.job.id
         /\ \A code \in FailureCode : /\ Refusal(code) \in FrameType
                                      /\ Refusal(code).event = "failure"
         /\ LET loaded == [Answer("initialized") EXCEPT !.revision = record]
            IN  loaded \in FrameType /\ loaded.event = "initialized"
  <1>1. worker.job.id \in Identity /\ NoVoice \in Voices \cup {NoVoice}
    BY DEF WorkerType, RequestType
  <1>2. ASSUME NEW event \in FrameEvent
        PROVE  /\ Answer(event) \in FrameType /\ Answer(event).event = event
               /\ Answer(event).id = worker.job.id
    BY <1>1, SoundResponseIsRaw DEF Answer, Frame, FrameType
  <1>3. "failure" \in FrameEvent /\ "initialized" \in FrameEvent
    BY DEF FrameEvent
  <1>4. ASSUME NEW code \in FailureCode
        PROVE  Refusal(code) \in FrameType /\ Refusal(code).event = "failure"
    <2>1. PICK f \in FrameType : f = Answer("failure") /\ f.event = "failure"
      BY <1>2, <1>3
    <2>2. Refusal(code) = [f EXCEPT !.revision = code]
      BY <2>1 DEF Refusal
    <2> QED BY <2>1, <2>2 DEF FrameType
  <1>5. LET loaded == [Answer("initialized") EXCEPT !.revision = record]
        IN  loaded \in FrameType /\ loaded.event = "initialized"
    <2>1. PICK f \in FrameType : f = Answer("initialized") /\ f.event = "initialized"
      BY <1>2, <1>3
    <2> QED BY <2>1 DEF FrameType
  <1> QED BY <1>2, <1>4, <1>5

\* The replies that are no success of a synthesis.
LEMMA ReplyIsQuiet ==
  ASSUME SessionInv,
         RespondInitialize \/ RespondCapabilities \/ RespondShutdown,
         UNCHANGED <<client, responses, listener, record>>
  PROVE  SessionInv'
  <1>0. /\ worker \in WorkerType /\ record \in Revisions
        /\ UNCHANGED <<client, staged, stdin, wire, responses, listener, record>>
    BY DEF SessionInv, SessionTypeOK, FilesTypeOK, RespondInitialize, RespondCapabilities,
           RespondShutdown
  <1>1. PICK reply \in FrameType, loaded \in Revisions \cup {Nothing} :
          reply.event # "synthesis_succeeded" /\ WorkerReply(reply, loaded)
    <2>1. CASE RespondInitialize
      <3>1. "internal" \in FailureCode /\ "initialization_failed" \in FailureCode
        BY DEF FailureCode
      <3> QED BY <1>0, <2>1, <3>1, AnswersAre DEF RespondInitialize, WorkerType
    <2>2. CASE RespondCapabilities \/ RespondShutdown
      <3>1. "capabilities" \in FrameEvent /\ "shutdown" \in FrameEvent
        BY DEF FrameEvent
      <3> QED
        BY <1>0, <2>2, <3>1, AnswersAre DEF RespondCapabilities, RespondShutdown, WorkerType
    <2> QED BY <2>1, <2>2
  <1>2. worker' \in WorkerType /\ worker'.job = worker.job /\ worker'.reply = reply
    BY <1>0, <1>1 DEF WorkerReply, WorkerType
  <1>3. SessionTypeOK'
    BY <1>0, <1>2 DEF SessionInv, SessionTypeOK, PipesTypeOK, FilesTypeOK
  <1>4. ASSUME NEW r, r \in Asked' PROVE RequestIsKnown(r)
    BY <1>0, <1>2, <1>4 DEF Asked, SessionInv, AnswerInv
  <1>5. ASSUME NEW f, f \in InFlight' PROVE FrameIsTrue(f)
    BY <1>0, <1>1, <1>2, <1>5, OtherEvents DEF InFlight, SessionInv, AnswerInv
  <1>6. LastIsTrue'
    BY <1>0 DEF SessionInv, AnswerInv, LastIsTrue
  <1> QED BY <1>0, <1>3, <1>4, <1>5, <1>6, QuietStep DEF SessionInv

\* The reply to a synthesis: the only step that writes a file, and never over one.
LEMMA RespondSynthesizeKeeps ==
  ASSUME SessionInv, RespondSynthesize, UNCHANGED <<client, responses, listener, record>>
  PROVE  SessionInv'
  <1> DEFINE job == worker.job
             done == Frame("synthesis_succeeded", job.id, worker.loaded, job.voice)
             file == Rendered(job, worker.loaded)
             part == Rendered(job, Partial)
  <1>0. /\ worker \in WorkerType /\ record \in Revisions /\ client \in ClientType
        /\ staged \in [0 .. MaxSyntheses -> FileType]
        /\ UNCHANGED <<client, stdin, wire, responses, listener, record>>
        /\ job.method = "synthesize" /\ job \in RequestType
    BY DEF SessionInv, SessionTypeOK, FilesTypeOK, RespondSynthesize, WorkerType
  <1>1. RequestIsKnown(job)
    BY DEF SessionInv, AnswerInv, Asked
  <1>2. job.output \in 1 .. client.exchanges /\ job.id = <<job.output, "segment">>
    BY <1>0, <1>1 DEF RequestIsKnown
  <1>3. client.exchanges \in 0 .. MaxSyntheses
    BY <1>0 DEF ClientType
  <1>4. job.output \in 0 .. MaxSyntheses
    BY <1>0 DEF RequestType
  <1>5. /\ done \in FrameType /\ done.event = "synthesis_succeeded" /\ done.id = job.id
        /\ done.revision = worker.loaded
    BY <1>0, SoundResponseIsRaw DEF Frame, FrameType, WorkerType, RequestType, FrameEvent
  <1>6. file \in FileType /\ part \in FileType
    BY <1>0 DEF Rendered, FileType, WorkerType, RequestType
  <1>7. \A code \in FailureCode : Refusal(code) \in FrameType /\ Refusal(code).event = "failure"
    BY <1>0, AnswersAre
  <1>8. "initialization_failed" \in FailureCode /\ "synthesis_failed" \in FailureCode
    BY DEF FailureCode
  <1>9. \A reply \in FrameType :
          WorkerReply(reply, worker.loaded) =>
            worker' \in WorkerType /\ worker'.job = job /\ worker'.reply = reply
    BY <1>0 DEF WorkerReply, WorkerType
  <1> HIDE DEF done, file, part
  <1>10. CASE UNCHANGED staged
    <2>1. PICK code \in FailureCode : WorkerReply(Refusal(code), worker.loaded)
      <3>1. \/ WorkerReply(Refusal("initialization_failed"), worker.loaded)
            \/ WorkerReply(Refusal("synthesis_failed"), worker.loaded)
            \/ staged[job.output] = NoFile /\ staged' = [staged EXCEPT ![job.output] = file]
            \/ staged[job.output] = NoFile /\ staged' = [staged EXCEPT ![job.output] = part]
        BY DEF RespondSynthesize, file, part
      <3>2. file # NoFile /\ part # NoFile
        BY <1>2 DEF file, part, NoFile, NoRequest, Request, Rendered
      <3> QED BY <1>0, <1>4, <1>8, <1>10, <3>1, <3>2
    <2>2. worker' \in WorkerType /\ worker'.job = job /\ worker'.reply.event = "failure"
      BY <1>7, <1>9, <2>1
    <2>3. SessionTypeOK'
      BY <1>0, <1>10, <2>2 DEF SessionInv, SessionTypeOK, PipesTypeOK, FilesTypeOK
    <2>4. ASSUME NEW r, r \in Asked' PROVE RequestIsKnown(r)
      BY <1>0, <2>2, <2>4 DEF Asked, SessionInv, AnswerInv
    <2>5. ASSUME NEW f, f \in InFlight' PROVE FrameIsTrue(f)
      BY <1>0, <2>2, <2>5, OtherEvents DEF InFlight, SessionInv, AnswerInv
    <2>6. LastIsTrue'
      BY <1>0, <1>10 DEF SessionInv, AnswerInv, LastIsTrue
    <2> QED BY <1>0, <1>10, <2>3, <2>4, <2>5, <2>6, QuietStep DEF SessionInv
  <1>11. CASE ~UNCHANGED staged
    <2>1. /\ staged[job.output] = NoFile
          /\ \/ staged' = [staged EXCEPT ![job.output] = file] /\ WorkerReply(done, worker.loaded)
             \/ /\ staged' = [staged EXCEPT ![job.output] = part]
                /\ WorkerReply(Refusal("synthesis_failed"), worker.loaded)
      BY <1>11 DEF RespondSynthesize, done, file, part
    <2>2. /\ worker' \in WorkerType /\ worker'.job = job
          /\ \/ worker'.reply = done /\ staged'[job.output] = file
             \/ worker'.reply.event = "failure"
          /\ staged' \in [0 .. MaxSyntheses -> FileType]
          /\ \A n \in 0 .. MaxSyntheses : n # job.output => staged'[n] = staged[n]
      BY <1>0, <1>4, <1>5, <1>6, <1>7, <1>8, <1>9, <2>1
    <2>3. SessionTypeOK'
      BY <1>0, <2>2 DEF SessionInv, SessionTypeOK, PipesTypeOK, FilesTypeOK
    \* A file that is claimed is none of those that are not there.
    <2>4. \A r : r.id = <<r.output, "segment">> => Rendered(r, Verified) # NoFile
      BY DEF NoFile, NoRequest, Request, Rendered
    <2>5. OwnRequest' /\ (\A r \in Asked' : RequestIsKnown(r)')
      BY <1>0, <2>2 DEF SessionInv, AnswerInv, OwnRequest, Asked, RequestIsKnown
    <2>6. LastIsTrue'
      <3>1. SUFFICES ASSUME client.last.kind = "ok" PROVE LastIsTrue'
        BY <1>0 DEF LastIsTrue
      <3>2. /\ client.last.request.output # 0
            /\ client.last.request.id = <<client.last.request.output, "segment">>
            /\ staged[client.last.request.output] = Rendered(client.last.request, Verified)
        BY <3>1 DEF SessionInv, AnswerInv, LastIsTrue
      <3>3. client.last.request.output \in 0 .. MaxSyntheses
        BY <1>0 DEF ClientType, RequestType
      <3>4. client.last.request.output # job.output
        BY <2>1, <2>4, <3>2
      <3> QED BY <1>0, <2>2, <3>2, <3>3, <3>4 DEF LastIsTrue
    <2>7. ASSUME NEW f \in InFlight PROVE FrameIsTrue(f)'
      <3>1. SUFFICES ASSUME f.event = "synthesis_succeeded" PROVE FrameIsTrue(f)'
        BY DEF FrameIsTrue
      <3>2. PICK n \in 1 .. client.exchanges :
               /\ f.id = <<n, "segment">>
               /\ f.revision = Verified /\ n = client.request.output
                    /\ f.voice = client.request.voice =>
                      staged[n] = Rendered(client.request, Verified)
        BY <3>1 DEF SessionInv, AnswerInv, FrameIsTrue
      <3>3. ASSUME f.revision = Verified, n = client.request.output, f.voice = client.request.voice
            PROVE  staged'[n] = Rendered(client.request, Verified)
        <4>1. client.request.id = <<n, "segment">>
          BY <3>2, <3>3, StartRequestsAre DEF SessionInv, AnswerInv, OwnRequest
        <4>2. n # job.output
          BY <2>1, <2>4, <3>2, <3>3, <4>1
        <4>3. n \in 0 .. MaxSyntheses
          BY <1>3, SessionAssumption
        <4> QED BY <2>2, <3>2, <3>3, <4>2, <4>3
      <3> QED BY <1>0, <3>2, <3>3 DEF FrameIsTrue
    <2>8. ASSUME NEW f, f = done, staged'[job.output] = file PROVE FrameIsTrue(f)'
      <3>1. ASSUME f.revision = Verified, job.output = client.request.output
            PROVE  staged'[job.output] = Rendered(client.request, Verified)
        BY <1>0, <1>1, <1>5, <2>8, <3>1 DEF RequestIsKnown, file
      <3> QED BY <1>0, <1>2, <1>5, <2>8, <3>1 DEF FrameIsTrue
    <2>9. ASSUME NEW f, f \in InFlight' PROVE FrameIsTrue(f)'
      <3>1. CASE f \in InFlight
        BY <2>7, <3>1
      <3>2. CASE f = worker'.reply
        <4>1. CASE f.event = "failure"
          BY <4>1 DEF FrameIsTrue
        <4>2. CASE f = done /\ staged'[job.output] = file
          BY <2>8, <4>2
        <4> QED BY <2>2, <3>2, <4>1, <4>2
      <3> QED BY <1>0, <2>9, <3>1, <3>2 DEF InFlight
    <2> QED BY <2>3, <2>5, <2>6, <2>9 DEF SessionInv, AnswerInv
  <1> QED BY <1>10, <1>11

\* A frame nobody asked for: no success of the open request with its voice and the verified
\* model, unless it is the reply itself.
LEMMA StrayFramesAre ==
  ASSUME SessionInv, worker.job.method = "synthesize", NEW frame \in StrayFrames
  PROVE  frame \in FrameType /\ FrameIsTrue(frame)
  <1> DEFINE job == worker.job
             progress == Answer("progress")
             done == Frame("synthesis_succeeded", job.id, Verified, job.voice)
  <1>0. worker \in WorkerType /\ record \in Revisions /\ job \in RequestType
    BY DEF SessionInv, SessionTypeOK, FilesTypeOK, WorkerType
  <1>1. RequestIsKnown(job)
    BY DEF SessionInv, AnswerInv, Asked
  <1>2. /\ job.output \in 1 .. client.exchanges /\ job.id = <<job.output, "segment">>
        /\ job.output = client.request.output => job = client.request
    BY <1>1 DEF RequestIsKnown
  <1>3. /\ done \in FrameType /\ done.event = "synthesis_succeeded" /\ done.id = job.id
        /\ done.revision = Verified /\ done.voice = job.voice
    BY <1>0, SessionAssumption, SoundResponseIsRaw DEF Frame, FrameType, RequestType, FrameEvent
  <1>4. progress \in FrameType /\ progress.event = "progress"
    <2>1. "progress" \in FrameEvent
      BY DEF FrameEvent
    <2> QED BY <1>0, <2>1, AnswersAre
  <1> HIDE DEF done, progress
  <1>5. CASE frame = worker.reply
    BY <1>0, <1>5 DEF SessionInv, AnswerInv, InFlight, WorkerType
  <1>6. CASE frame \in {progress, [progress EXCEPT !.raw.outside = TRUE]}
    <2>1. [progress EXCEPT !.raw.outside = TRUE] \in FrameType
      BY <1>4, FramesChanged
    <2>2. [progress EXCEPT !.raw.outside = TRUE].event = "progress"
      BY <1>4, FramesChanged
    <2>3. frame \in FrameType /\ frame.event # "synthesis_succeeded"
      BY <1>4, <1>6, <2>1, <2>2
    <2> QED BY <2>3, OtherEvents
  <1>7. CASE frame = StreamEvent("oversized")
    <2>1. frame \in FrameType /\ frame.event # "synthesis_succeeded"
      BY <1>7, StreamEventsAre DEF FrameEvent, BrokenEvents
    <2> QED BY <2>1, OtherEvents
  <1>8. ASSUME NEW r \in Revisions \ {Verified}, frame = [done EXCEPT !.revision = r]
        PROVE  frame \in FrameType /\ FrameIsTrue(frame)
    <2>1. /\ frame \in FrameType /\ frame.event = done.event /\ frame.id = job.id
          /\ frame.revision = r
      BY <1>3, <1>8 DEF FrameType
    <2> QED BY <1>2, <2>1 DEF FrameIsTrue
  <1>9. ASSUME NEW v \in (Voices \cup {NoVoice}) \ {job.voice}, frame = [done EXCEPT !.voice = v]
        PROVE  frame \in FrameType /\ FrameIsTrue(frame)
    <2>1. frame \in FrameType /\ frame.event = done.event /\ frame.id = job.id /\ frame.voice = v
      BY <1>3, <1>9 DEF FrameType
    <2>2. job.output = client.request.output => frame.voice # client.request.voice
      BY <1>2, <2>1
    <2> QED BY <1>2, <2>1, <2>2 DEF FrameIsTrue
  <1>10. \/ frame = worker.reply \/ frame \in {progress, [progress EXCEPT !.raw.outside = TRUE]}
         \/ frame = StreamEvent("oversized")
         \/ \E r \in Revisions \ {Verified} : frame = [done EXCEPT !.revision = r]
         \/ \E v \in (Voices \cup {NoVoice}) \ {job.voice} : frame = [done EXCEPT !.voice = v]
    BY <1>3 DEF StrayFrames, done, progress
  <1> QED BY <1>5, <1>6, <1>7, <1>8, <1>9, <1>10

LEMMA WorkerStraysKeeps ==
  ASSUME SessionInv, WorkerStrays, UNCHANGED <<client, responses, listener, record>>
  PROVE  SessionInv'
  <1>1. PICK frame \in StrayFrames : wire' = Append(wire, frame)
    BY DEF WorkerStrays
  <1>2. frame \in FrameType /\ FrameIsTrue(frame)
    BY <1>1, StrayFramesAre DEF WorkerStrays
  <1>3. UNCHANGED <<client, worker, stdin, staged, responses, listener, record>>
    BY DEF WorkerStrays
  <1>4. wire' \in Seq(FrameType) /\ Elements(wire') = Elements(wire) \cup {frame}
    BY <1>1, <1>2, ElementsOf DEF SessionInv, SessionTypeOK, PipesTypeOK
  <1>5. SessionTypeOK'
    BY <1>3, <1>4 DEF SessionInv, SessionTypeOK, PipesTypeOK, FilesTypeOK
  <1>6. ASSUME NEW r, r \in Asked' PROVE RequestIsKnown(r)
    BY <1>3, <1>6 DEF Asked, SessionInv, AnswerInv
  <1>7. ASSUME NEW f, f \in InFlight' PROVE FrameIsTrue(f)
    BY <1>2, <1>3, <1>4, <1>7 DEF InFlight, SessionInv, AnswerInv
  <1>8. LastIsTrue'
    BY <1>3 DEF SessionInv, AnswerInv, LastIsTrue
  <1> QED BY <1>3, <1>5, <1>6, <1>7, <1>8, QuietStep DEF SessionInv

\* Any move of the worker.
LEMMA WorkerMovesKeep == ASSUME SessionInv, WorkerMoves PROVE SessionInv'
  BY WorkerQuiet, ReplyIsQuiet, RespondSynthesizeKeeps, WorkerStraysKeeps DEF WorkerMoves

\* The reader thread carries frames and makes none but that its stream is unreadable.
LEMMA ListenerMovesKeep == ASSUME SessionInv, ListenerMoves PROVE SessionInv'
  <1>0. UNCHANGED <<client, stdin, worker, staged, record>>
    BY DEF ListenerMoves
  <1>1. wire \in Seq(FrameType) /\ responses \in Seq(FrameType) /\ listener.item \in FrameType
    BY DEF SessionInv, SessionTypeOK, PipesTypeOK
  <1>2. /\ NoFrame \in FrameType /\ NoFrame.event # "synthesis_succeeded"
        /\ StreamEvent("unreadable") \in FrameType
        /\ StreamEvent("unreadable").event # "synthesis_succeeded"
    BY StreamEventsAre DEF NoFrame, FrameEvent, BrokenEvents
  <1>3. /\ wire' \in Seq(FrameType) /\ responses' \in Seq(FrameType)
        /\ listener' \in [step : {"reading", "holding", "done"}, item : FrameType]
        /\ Elements(wire') \cup Elements(responses') \cup {listener'.item}
             \subseteq InFlight \cup {NoFrame, StreamEvent("unreadable")}
    <2>1. CASE ListenerReads
      <3>1. /\ wire # <<>> /\ responses' = responses /\ wire' = Tail(wire)
            /\ listener' = [step |-> "holding", item |-> Head(wire)]
        BY <2>1 DEF ListenerReads
      <3>2. /\ Head(wire) \in FrameType /\ Tail(wire) \in Seq(FrameType)
            /\ Head(wire) \in Elements(wire) /\ Elements(Tail(wire)) \subseteq Elements(wire)
        BY <1>1, <3>1, ElementsOf
      <3> QED BY <1>1, <3>1, <3>2 DEF InFlight
    <2>2. CASE ListenerSeesEnd \/ ListenerFails
      BY <1>1, <1>2, <2>2 DEF ListenerSeesEnd, ListenerFails, InFlight
    <2>3. CASE ListenerSends
      <3>1. /\ wire' = wire /\ responses' \in {responses, Append(responses, listener.item)}
            /\ listener' \in [step : {"reading", "done"}, item : {NoFrame}]
        BY <2>3 DEF ListenerSends
      <3>2. /\ Append(responses, listener.item) \in Seq(FrameType)
            /\ Elements(Append(responses, listener.item))
                 = Elements(responses) \cup {listener.item}
        BY <1>1, ElementsOf
      <3> QED BY <1>1, <1>2, <3>1, <3>2 DEF InFlight
    <2> QED BY <2>1, <2>2, <2>3 DEF ListenerMoves
  <1>4. SessionTypeOK'
    BY <1>0, <1>3 DEF SessionInv, SessionTypeOK, PipesTypeOK, FilesTypeOK
  <1>5. ASSUME NEW r, r \in Asked' PROVE RequestIsKnown(r)
    BY <1>0, <1>5 DEF Asked, SessionInv, AnswerInv
  <1>6. ASSUME NEW f, f \in InFlight' PROVE FrameIsTrue(f)
    <2>1. f \in InFlight \cup {NoFrame, StreamEvent("unreadable")}
      BY <1>0, <1>3, <1>6 DEF InFlight
    <2> QED BY <1>2, <2>1, OtherEvents DEF SessionInv, AnswerInv
  <1>7. LastIsTrue'
    BY <1>0 DEF SessionInv, AnswerInv, LastIsTrue
  <1> QED BY <1>0, <1>4, <1>5, <1>6, <1>7, QuietStep DEF SessionInv

-----------------------------------------------------------------------------
(* The client. *)

\* The executor's side changes: the client moves on, sends its request or a shutdown, takes
\* a frame, or throws the pipes away.
LEMMA ClientQuiet ==
  ASSUME SessionInv, UNCHANGED <<worker, listener, staged, record>>,
         client' \in ClientType, client'.exchanges = client.exchanges,
         client'.request \in {client.request} \cup StartRequests,
         client'.step \notin {"send", "write", "await"} \/ client'.request # NoRequest,
         client'.last = client.last \/ (client'.last.kind = "ok" => LastIsTrue'),
         stdin' \in [open : BOOLEAN, lines : Seq(RequestType)],
         Elements(stdin'.lines) \subseteq
           Elements(stdin.lines) \cup {client.request, ShutdownRequest},
         wire' \in Seq(FrameType), Elements(wire') \subseteq Elements(wire),
         responses' \in Seq(FrameType), Elements(responses') \subseteq Elements(responses)
  PROVE  SessionInv'
  <1>1. SessionTypeOK'
    BY DEF SessionInv, SessionTypeOK, PipesTypeOK, FilesTypeOK
  <1>2. ASSUME NEW r, r \in Asked' PROVE RequestIsKnown(r)
    <2>1. r \in Asked \cup {client.request, ShutdownRequest}
      BY <1>2 DEF Asked
    <2>2. RequestIsKnown(client.request) /\ RequestIsKnown(ShutdownRequest)
      BY OpenRequestIsKnown, OtherRequests, StartRequestsAre DEF SessionInv, AnswerInv
    <2> QED BY <2>1, <2>2 DEF SessionInv, AnswerInv
  <1>3. ASSUME NEW f, f \in InFlight' PROVE FrameIsTrue(f)
    BY <1>3 DEF InFlight, SessionInv, AnswerInv
  <1>4. LastIsTrue'
    BY DEF SessionInv, AnswerInv, LastIsTrue
  <1> QED BY <1>1, <1>2, <1>3, <1>4, QuietStep DEF SessionInv

\* A call that fails, or one that synthesize returns from.
LEMMA CallFailsTo ==
  ASSUME client \in ClientType, NEW kind \in Kind, NEW poisoned \in BOOLEAN,
         CallFails(kind, poisoned)
  PROVE  /\ client' \in ClientType /\ client'.step \in {"close", "ready"}
         /\ client'.exchanges = client.exchanges /\ client'.child = client.child
         /\ client'.last = [kind |-> kind, request |-> client.request]
         /\ client'.request \in {client.request} \cup StartRequests
  <1>1. NoRequest \in RequestType
    BY StartRequestsAre DEF StartRequests
  <1>2. [kind |-> kind, request |-> client.request] \in [kind : Kind, request : RequestType]
    BY DEF ClientType
  <1> QED
    BY <1>1, <1>2 DEF CallFails, Outcome, ClientType, StartRequests

\* The steps of a shutdown, and the calls that wait.
LEMMA ClientMovesOn ==
  ASSUME SessionInv,
         \/ ResponseTimesOut \/ Close \/ ShutdownAgain \/ WaitForVoluntaryExit
         \/ ClientTerminates
  PROVE  SessionInv'
  <1>0. /\ UNCHANGED <<stdin, wire, responses, listener, worker, staged, record>>
        /\ client \in ClientType
        /\ stdin \in [open : BOOLEAN, lines : Seq(RequestType)]
        /\ wire \in Seq(FrameType) /\ responses \in Seq(FrameType)
    BY DEF SessionInv, SessionTypeOK, PipesTypeOK, ResponseTimesOut, Close, ShutdownAgain,
           WaitForVoluntaryExit, ClientTerminates
  <1>1. /\ client' \in ClientType /\ client'.exchanges = client.exchanges
        /\ client'.request = client.request /\ client'.last = client.last
        /\ client'.step \notin {"send", "write", "await"}
    <2>1. CASE ResponseTimesOut \/ Close
      BY <1>0, <2>1 DEF ResponseTimesOut, Close, ClientType
    <2>2. CASE ShutdownAgain \/ WaitForVoluntaryExit
      BY <1>0, <2>2 DEF ShutdownAgain, WaitForVoluntaryExit, ClientType
    <2>3. CASE ClientTerminates
      BY <1>0, <2>3 DEF ClientTerminates, ClientType
    <2> QED BY <2>1, <2>2, <2>3
  <1> QED BY <1>0, <1>1, ClientQuiet

LEMMA SendingKeeps == ASSUME SessionInv, SendRequest \/ WriteRest \/ BeginShutdown PROVE SessionInv'
  <1>0. /\ UNCHANGED <<wire, responses, listener, worker, staged, record>>
        /\ client \in ClientType /\ client.request \in RequestType
        /\ stdin \in [open : BOOLEAN, lines : Seq(RequestType)]
        /\ stdin.lines \in Seq(RequestType)
        /\ wire \in Seq(FrameType) /\ responses \in Seq(FrameType)
    BY DEF SessionInv, SessionTypeOK, PipesTypeOK, SendRequest, WriteRest, BeginShutdown, ClientType
  <1>1. ShutdownRequest \in RequestType
    BY StartRequestsAre
  <1>2. \A r \in {client.request, ShutdownRequest} :
           /\ Append(stdin.lines, r) \in Seq(RequestType)
           /\ Elements(Append(stdin.lines, r)) = Elements(stdin.lines) \cup {r}
    BY <1>0, <1>1, ElementsOf
  <1>3. CASE SendRequest \/ WriteRest
    <2>1. CASE CallFails("protocol", TRUE) /\ UNCHANGED stdin
      <3>1. "protocol" \in Kind /\ TRUE \in BOOLEAN
        BY DEF Kind
      <3>2. /\ client' \in ClientType /\ client'.exchanges = client.exchanges
            /\ client'.last = [kind |-> "protocol", request |-> client.request]
            /\ client'.request \in {client.request} \cup StartRequests
            /\ client'.step \notin {"send", "write", "await"}
        BY <1>0, <2>1, <3>1, CallFailsTo
      <3> QED BY <1>0, <2>1, <3>2, ClientQuiet
    <2>2. CASE /\ \E step \in {"write", "await"}, poisoned \in BOOLEAN :
                    client' = [client EXCEPT !.step = step, !.poisoned = poisoned]
               /\ stdin' \in {stdin, [stdin EXCEPT !.lines = Append(@, client.request)]}
      <3>1. client.request # NoRequest
        BY <1>3 DEF SessionInv, AnswerInv, OwnRequest, SendRequest, WriteRest
      <3>2. /\ client' \in ClientType /\ client'.exchanges = client.exchanges
            /\ client'.last = client.last /\ client'.request = client.request
        BY <1>0, <2>2 DEF ClientType
      <3>3. /\ stdin' \in [open : BOOLEAN, lines : Seq(RequestType)]
            /\ stdin'.lines \in {stdin.lines, Append(stdin.lines, client.request)}
        BY <1>0, <1>2, <2>2
      <3> QED BY <1>0, <1>2, <3>1, <3>2, <3>3, ClientQuiet
    <2>3. CASE SendRequest
      BY <2>1, <2>2, <2>3 DEF SendRequest
    <2>4. CASE WriteRest
      <3>1. client' = [client EXCEPT !.step = "await"] => client' = [client EXCEPT !.step = "await", !.poisoned = client.poisoned]
        BY <1>0 DEF ClientType
      <3>2. client.poisoned \in BOOLEAN
        BY <1>0 DEF ClientType
      <3> QED BY <2>1, <2>2, <2>4, <3>1, <3>2 DEF WriteRest
    <2> QED BY <1>3, <2>3, <2>4
  <1>4. CASE BeginShutdown
    <2>1. /\ client' \in ClientType /\ client'.exchanges = client.exchanges
          /\ client'.last = client.last /\ client'.request = client.request
          /\ client'.step = "wait"
      BY <1>0, <1>4 DEF BeginShutdown, ClientType
    <2>2. PICK lines \in {stdin.lines, Append(stdin.lines, ShutdownRequest)} :
             stdin' = [open |-> FALSE, lines |-> lines]
      BY <1>4 DEF BeginShutdown
    <2>3. /\ stdin' \in [open : BOOLEAN, lines : Seq(RequestType)]
          /\ stdin'.lines \in {stdin.lines, Append(stdin.lines, ShutdownRequest)}
      BY <1>0, <1>2, <2>2
    <2> QED BY <1>0, <1>2, <2>1, <2>3, ClientQuiet
  <1> QED BY <1>3, <1>4

\* check_identity and the destination pass only for a success with the voice and the model
\* that were asked for.
LEMMA CheckedIdentity ==
  ASSUME NEW frame
  PROVE  /\ CheckIdentity(frame) \in Kind /\ CheckIdentity(frame) # "timeout"
         /\ CheckIdentity(frame) = "ok" =>
              /\ frame.event = "synthesis_succeeded" /\ frame.revision = Verified
              /\ frame.voice = client.request.voice
  <1> DEFINE checks ==
        << <<frame.event # "synthesis_succeeded", "protocol">>,
           <<frame.revision # Verified, "drift">>,
           <<frame.voice # client.request.voice, "drift">>,
           <<staged[client.request.output] = NoFile, "destination">> >>
             Words == {"protocol", "drift", "destination"}
  <1>1. checks \in Seq(BOOLEAN \X Words)
    <2>1. /\ <<frame.event # "synthesis_succeeded", "protocol">> \in BOOLEAN \X Words
          /\ <<frame.revision # Verified, "drift">> \in BOOLEAN \X Words
          /\ <<frame.voice # client.request.voice, "drift">> \in BOOLEAN \X Words
          /\ <<staged[client.request.output] = NoFile, "destination">> \in BOOLEAN \X Words
      OBVIOUS
    <2>2. \A S : \A a, b, c, d \in S : <<a, b, c, d>> \in Seq(S)
      OBVIOUS
    <2> QED BY <2>1, <2>2
  <1>2. "ok" \notin Words
    OBVIOUS
  <1>3. DOMAIN checks = 1 .. 4
    OBVIOUS
  <1>4. /\ checks[1][1] = (frame.event # "synthesis_succeeded")
        /\ checks[2][1] = (frame.revision # Verified)
        /\ checks[3][1] = (frame.voice # client.request.voice)
    OBVIOUS
  <1>5. CheckIdentity(frame) = FirstFault(checks)
    BY DEF CheckIdentity
  <1> HIDE DEF checks
  <1>6. /\ FirstFault(checks) \in Words \cup {"ok"}
        /\ FirstFault(checks) = "ok" <=> \A i \in DOMAIN checks : ~checks[i][1]
    BY <1>1, <1>2, FirstFaultIsTrue
  <1>7. CheckIdentity(frame) \in Kind /\ CheckIdentity(frame) # "timeout"
    BY <1>5, <1>6 DEF Kind
  <1>8. FirstFault(checks) = "ok" => ~checks[1][1] /\ ~checks[2][1] /\ ~checks[3][1]
    BY <1>3, <1>6
  <1> QED BY <1>4, <1>5, <1>7, <1>8

\* What an answer makes of the client: it returns success only for a success with the
\* identity of the open request, the voice and the model that were asked for.
LEMMA ReceivedTo ==
  ASSUME SessionInv, ReceiveResponse
  PROVE  /\ client' \in ClientType /\ client'.exchanges = client.exchanges
         /\ client'.child = client.child /\ client'.step \in {"send", "await", "ready", "close"}
         /\ client'.request \in {client.request} \cup StartRequests
         /\ client'.step \notin {"send", "write", "await"} \/ client'.request # NoRequest
         /\ \/ client'.last = client.last
            \/ /\ client'.last.kind \in Kind \ {"timeout", "ok"}
            \/ /\ client'.last = [kind |-> "ok", request |-> client.request]
               /\ client.request.output # 0 /\ Head(responses).id = client.request.id
               /\ Head(responses).event = "synthesis_succeeded"
               /\ Head(responses).revision = Verified
               /\ Head(responses).voice = client.request.voice
  <1> DEFINE frame == Head(responses)
             failing(kind, poisoned) ==
               /\ client' \in ClientType /\ client'.exchanges = client.exchanges
               /\ client'.child = client.child /\ client'.step \in {"ready", "close"}
               /\ client'.request \in {client.request} \cup StartRequests
               /\ client'.last = [kind |-> kind, request |-> client.request]
  <1>0. client \in ClientType /\ client.step = "await"
    BY DEF SessionInv, SessionTypeOK, ReceiveResponse
  <1>1. ASSUME NEW kind \in Kind, NEW poisoned \in BOOLEAN, CallFails(kind, poisoned)
        PROVE  failing(kind, poisoned)
    BY <1>0, <1>1, CallFailsTo
  <1>2. /\ "protocol" \in Kind \ {"timeout", "ok"} /\ "execution" \in Kind \ {"timeout", "ok"}
        /\ "invalid" \in Kind \ {"timeout", "ok"} /\ "started" \in Kind \ {"timeout", "ok"}
        /\ TRUE \in BOOLEAN /\ FALSE \in BOOLEAN
    BY DEF Kind
  <1>3. ASSUME NEW kind \in Kind \ {"timeout", "ok"}, NEW poisoned \in BOOLEAN,
               CallFails(kind, poisoned)
        PROVE  /\ client' \in ClientType /\ client'.exchanges = client.exchanges
               /\ client'.child = client.child /\ client'.step \in {"ready", "close"}
               /\ client'.request \in {client.request} \cup StartRequests
               /\ client'.last.kind \in Kind \ {"timeout", "ok"}
    <2>1. kind \in Kind /\ client'.last \in [kind : {kind}, request : {client.request}]
      BY <1>0, <1>3 DEF CallFails, Outcome, ClientType
    <2>2. failing(kind, poisoned)
      BY <1>1, <1>3, <2>1
    <2> QED BY <1>3, <2>1, <2>2
  <1>7. CASE CallFails("protocol", TRUE)
    BY <1>2, <1>3, <1>7
  <1>8. CASE CallFails("execution", FALSE)
    BY <1>2, <1>3, <1>8
  <1>4. CASE UNCHANGED client
    BY <1>0, <1>4 DEF SessionInv, AnswerInv, OwnRequest
  <1>5. CASE client.request.output = 0 /\ StartAccepts(frame)
    <2>1. CASE CallFails("protocol", FALSE)
      BY <1>2, <1>3, <2>1
    <2>5. CASE CallFails("invalid", FALSE)
      BY <1>2, <1>3, <2>5
    <2>2. CASE client' = [client EXCEPT !.step = "send", !.poisoned = FALSE,
                                        !.request = CapabilitiesRequest]
      <3>1. CapabilitiesRequest \in RequestType
        BY StartRequestsAre DEF StartRequests
      <3>2. CapabilitiesRequest # NoRequest
        BY DEF CapabilitiesRequest, NoRequest, Request
      <3> QED BY <1>0, <2>2, <3>1, <3>2 DEF ClientType, StartRequests
    <2>3. CASE client' = [client EXCEPT !.step = "ready", !.poisoned = FALSE,
                                        !.last = Outcome("started"), !.request = NoRequest]
      <3>1. NoRequest \in RequestType
        BY StartRequestsAre DEF StartRequests
      <3>2. Outcome("started") \in [kind : Kind \ {"timeout", "ok"}, request : RequestType]
        BY <1>0, <1>2 DEF Outcome, ClientType
      <3> QED BY <1>0, <2>3, <3>1, <3>2 DEF ClientType, StartRequests
    <2>4. client.request.method \in {"initialize", "capabilities"}
      <3>1. client.request \in {InitializeRequest, CapabilitiesRequest}
        BY <1>0, <1>5 DEF SessionInv, AnswerInv, OwnRequest, StartRequests
      <3> QED BY <3>1 DEF InitializeRequest, CapabilitiesRequest, Request
    <2>6. \/ CallFails("protocol", FALSE) \/ CallFails("invalid", FALSE)
          \/ client' = [client EXCEPT !.step = "send", !.poisoned = FALSE,
                                      !.request = CapabilitiesRequest]
          \/ client' = [client EXCEPT !.step = "ready", !.poisoned = FALSE,
                                      !.last = Outcome("started"), !.request = NoRequest]
      BY <1>5, <2>4 DEF StartAccepts
    <2> QED BY <2>1, <2>2, <2>3, <2>5, <2>6
  <1>6. CASE /\ client.request.output # 0 /\ frame.id = client.request.id
             /\ CallFails(CheckIdentity(frame), FALSE)
    <2>1. PICK kind \in Kind : /\ kind = CheckIdentity(frame) /\ kind # "timeout"
                               /\ kind = "ok" => /\ frame.event = "synthesis_succeeded"
                                                 /\ frame.revision = Verified
                                                 /\ frame.voice = client.request.voice
      BY CheckedIdentity
    <2>2. failing(kind, FALSE)
      BY <1>1, <1>2, <1>6, <2>1
    <2> QED BY <1>6, <2>1, <2>2
  <1> QED
    BY <1>4, <1>5, <1>6, <1>7, <1>8 DEF ReceiveResponse, CallAccepts

\* The answer that is returned as a success was on its way, so the file is there.
LEMMA ReceiveKeeps == ASSUME SessionInv, ReceiveResponse PROVE SessionInv'
  <1>0. /\ UNCHANGED <<stdin, wire, listener, worker, staged, record>> /\ client \in ClientType
        /\ stdin \in [open : BOOLEAN, lines : Seq(RequestType)]
        /\ wire \in Seq(FrameType) /\ responses \in Seq(FrameType)
        /\ responses # <<>> /\ responses' = Tail(responses)
    BY DEF SessionInv, SessionTypeOK, PipesTypeOK, ReceiveResponse
  <1>1. /\ Head(responses) \in Elements(responses) /\ responses' \in Seq(FrameType)
        /\ Elements(responses') \subseteq Elements(responses)
    BY <1>0, ElementsOf
  <1>2. PICK frame : frame = Head(responses)
    OBVIOUS
  <1>3. FrameIsTrue(frame)
    BY <1>1, <1>2 DEF SessionInv, AnswerInv, InFlight
  <1>4. client'.last = client.last \/ (client'.last.kind = "ok" => LastIsTrue')
    <2>1. SUFFICES ASSUME client'.last = [kind |-> "ok", request |-> client.request],
                          client.request.output # 0, frame.id = client.request.id,
                          frame.event = "synthesis_succeeded", frame.revision = Verified,
                          frame.voice = client.request.voice
                   PROVE  LastIsTrue'
      BY <1>2, ReceivedTo
    <2>2. /\ client.request.output = client.exchanges
          /\ client.request.id = <<client.exchanges, "segment">>
      BY <2>1, StartRequestsAre DEF SessionInv, AnswerInv, OwnRequest
    <2>3. PICK n \in 1 .. client.exchanges :
             /\ frame.id = <<n, "segment">>
             /\ n = client.request.output => staged[n] = Rendered(client.request, Verified)
      BY <1>3, <2>1 DEF FrameIsTrue
    <2>4. n = client.exchanges
      BY <2>1, <2>2, <2>3
    <2> QED BY <1>0, <2>1, <2>2, <2>3, <2>4 DEF LastIsTrue
  <1> QED BY <1>0, <1>1, <1>4, ReceivedTo, ClientQuiet

\* The stream ends, and the end of a shutdown.
LEMMA ClientEnds ==
  ASSUME SessionInv, ResponsesDisconnect \/ Epilogue \/ JoinReaders PROVE SessionInv'
  <1>0. /\ UNCHANGED <<listener, worker, staged, record>> /\ client \in ClientType
        /\ stdin \in [open : BOOLEAN, lines : Seq(RequestType)]
        /\ stdin.lines \in Seq(RequestType)
        /\ wire \in Seq(FrameType) /\ responses \in Seq(FrameType)
        /\ client.last \in [kind : Kind, request : RequestType]
    BY DEF SessionInv, SessionTypeOK, PipesTypeOK, ResponsesDisconnect, Epilogue, JoinReaders,
           ClientType
  <1>1. CASE ResponsesDisconnect
    <2>1. "protocol" \in Kind /\ TRUE \in BOOLEAN
      BY DEF Kind
    <2>2. /\ client' \in ClientType /\ client'.exchanges = client.exchanges
          /\ client'.last = [kind |-> "protocol", request |-> client.request]
          /\ client'.request \in {client.request} \cup StartRequests
          /\ client'.step \notin {"send", "write", "await"}
      <3>1. CallFails("protocol", TRUE)
        BY <1>1 DEF ResponsesDisconnect
      <3> QED BY <1>0, <2>1, <3>1, CallFailsTo
    <2> QED BY <1>0, <1>1, <2>2, ClientQuiet DEF ResponsesDisconnect
  <1>2. CASE Epilogue
    <2>1. /\ client' \in ClientType /\ client'.exchanges = client.exchanges
          /\ client'.last = client.last /\ client'.request = client.request
          /\ client'.step \in {"epilogue", "join"}
      <3>1. \/ client' = [client EXCEPT !.answered = TRUE] /\ client.step = "epilogue"
            \/ \E how \in {"Epilogue", "ok", "Containment"} :
                  client' = [client EXCEPT !.step = "join", !.epilogue = how]
        BY <1>2 DEF Epilogue
      <3> QED BY <1>0, <3>1 DEF ClientType
    <2>2. responses' \in Seq(FrameType) /\ Elements(responses') \subseteq Elements(responses)
      <3>1. responses # <<>> =>
              Tail(responses) \in Seq(FrameType) /\ Elements(Tail(responses)) \subseteq Elements(responses)
        BY <1>0, ElementsOf
      <3>2. responses' = responses \/ (responses # <<>> /\ responses' = Tail(responses))
        BY <1>2 DEF Epilogue
      <3> QED BY <1>0, <3>1, <3>2
    <2> QED BY <1>0, <1>2, <2>1, <2>2, ClientQuiet DEF Epilogue
  <1>3. CASE JoinReaders
    <2>1. /\ client' \in ClientType /\ client'.exchanges = client.exchanges
          /\ client'.request = NoRequest /\ client'.step \in {"ready", "over"}
          /\ client'.last = client.last \/ client'.last.kind # "ok"
      <3>1. NoRequest \in RequestType
        BY StartRequestsAre DEF StartRequests
      <3>2. /\ Outcome("timeout") \in [kind : Kind, request : RequestType]
            /\ Outcome("timeout, uncontained") \in [kind : Kind, request : RequestType]
            /\ Outcome("timeout").kind # "ok" /\ Outcome("timeout, uncontained").kind # "ok"
        BY <1>0 DEF Outcome, Kind, ClientType
      <3>3. PICK last \in {client.last, Outcome("timeout"), Outcome("timeout, uncontained")},
                 step \in {"ready", "over"} :
              client' = [client EXCEPT !.child = FALSE, !.step = step, !.request = NoRequest,
                                       !.inspection = FALSE, !.answered = FALSE,
                                       !.epilogue = "ok", !.last = last]
        BY <1>3 DEF JoinReaders
      <3>4. last \in [kind : Kind, request : RequestType] /\ (last = client.last \/ last.kind # "ok")
        BY <1>0, <3>2, <3>3
      <3> QED BY <1>0, <3>1, <3>3, <3>4 DEF ClientType
    <2>2. /\ stdin' \in [open : BOOLEAN, lines : Seq(RequestType)] /\ stdin'.lines = <<>>
          /\ wire' = <<>> /\ responses' = <<>>
      BY <1>0, <1>3, ElementsOf DEF JoinReaders
    <2>3. /\ Elements(<<>>) = {} /\ <<>> \in Seq(FrameType)
      BY NoElements
    <2>4. NoRequest \in StartRequests
      BY DEF StartRequests
    <2> QED BY <1>0, <2>1, <2>2, <2>3, <2>4, ClientQuiet
  <1> QED BY <1>1, <1>2, <1>3

LEMMA SpawnKeeps == ASSUME SessionInv, Spawn PROVE SessionInv'
  <1>0. /\ UNCHANGED <<stdin, wire, responses, listener, worker, staged, record>>
        /\ client \in ClientType
        /\ stdin \in [open : BOOLEAN, lines : Seq(RequestType)]
        /\ wire \in Seq(FrameType) /\ responses \in Seq(FrameType)
    BY DEF SessionInv, SessionTypeOK, PipesTypeOK, Spawn
  <1>1. /\ InitializeRequest \in RequestType /\ InitializeRequest \in StartRequests
        /\ InitializeRequest # NoRequest
    BY StartRequestsAre DEF StartRequests, InitializeRequest, NoRequest, Request
  <1>2. Outcome("protocol") \in [kind : Kind \ {"ok"}, request : RequestType]
    BY <1>0 DEF Outcome, Kind, ClientType
  <1>3. /\ client' \in ClientType /\ client'.exchanges = client.exchanges
        /\ client'.request \in {client.request} \cup StartRequests
        /\ client'.step \notin {"send", "write", "await"} \/ client'.request # NoRequest
        /\ client'.last = client.last \/ client'.last.kind # "ok"
    <2>1. CASE client' = [client EXCEPT !.step = "send", !.child = TRUE,
                                        !.request = InitializeRequest]
      BY <1>0, <1>1, <2>1 DEF ClientType
    <2>2. CASE client' = [client EXCEPT !.step = "over", !.last = Outcome("protocol")]
      BY <1>0, <1>2, <2>2 DEF ClientType
    <2> QED BY <2>1, <2>2 DEF Spawn
  <1> QED BY <1>0, <1>3, ClientQuiet

\* A synthesis opens with a number of its own, so nothing on its way is an answer to it.
LEMMA SynthesizeKeeps == ASSUME SessionInv, Synthesize PROVE SessionInv'
  <1> DEFINE n == client.exchanges + 1
  <1>0. /\ UNCHANGED <<stdin, wire, responses, listener, worker, staged, record>>
        /\ client \in ClientType /\ client.exchanges \in Nat /\ n \in 0 .. MaxSyntheses
    BY SessionAssumption DEF SessionInv, SessionTypeOK, Synthesize, ClientType
  <1>1. PICK voice \in Voices :
          client' = [client EXCEPT
                       !.step = "send", !.exchanges = n,
                       !.request = Request("synthesize", NextRequestId(n, "segment"), voice, n)]
    BY DEF Synthesize
  <1>2. PICK request \in RequestType :
          /\ request = Request("synthesize", NextRequestId(n, "segment"), voice, n)
          /\ request.output = n /\ request.id = <<n, "segment">>
    <2>1. Request("synthesize", NextRequestId(n, "segment"), voice, n) \in RequestType
      BY <1>0 DEF Request, NextRequestId, RequestType, RequestMethod, Identity
    <2> QED BY <2>1 DEF Request, NextRequestId
  <1> HIDE DEF n
  <1>3. /\ client' \in ClientType /\ client'.exchanges = n /\ client'.request = request
        /\ client'.last = client.last
    BY <1>0, <1>1, <1>2 DEF ClientType
  <1>4. n = client.exchanges + 1 /\ n # 0
    BY <1>0 DEF n
  <1>5. SessionTypeOK'
    BY <1>0, <1>3 DEF SessionInv, SessionTypeOK, PipesTypeOK, FilesTypeOK
  <1>6. OwnRequest'
    <2>1. request # NoRequest
      BY <1>2, <1>4, StartRequestsAre DEF StartRequests
    <2> QED BY <1>2, <1>3, <1>4, <2>1 DEF OwnRequest
  <1>7. LastIsTrue'
    BY <1>0, <1>3 DEF SessionInv, AnswerInv, LastIsTrue
  <1>8. ASSUME NEW r, r \in Asked' PROVE RequestIsKnown(r)'
    <2>1. RequestIsKnown(r)
      BY <1>0, <1>8 DEF Asked, SessionInv, AnswerInv
    <2> QED BY <1>0, <1>3, <1>4, <1>2, <2>1 DEF RequestIsKnown
  <1>9. ASSUME NEW f, f \in InFlight' PROVE FrameIsTrue(f)'
    <2>1. FrameIsTrue(f)
      BY <1>0, <1>9 DEF InFlight, SessionInv, AnswerInv
    <2> QED BY <1>0, <1>2, <1>3, <1>4, <2>1 DEF FrameIsTrue
  <1> QED BY <1>5, <1>6, <1>7, <1>8, <1>9 DEF SessionInv, AnswerInv

\* The processes and the operator say nothing on the pipes; a worker that dies says no more.
LEMMA OthersKeep == ASSUME SessionInv, ProcessesMove \/ ModelIsReplaced PROVE SessionInv'
  <1>0. /\ UNCHANGED <<client, stdin, wire, responses, listener, staged>>
        /\ worker \in WorkerType /\ record' \in Revisions
    BY DEF SessionInv, SessionTypeOK, FilesTypeOK, ProcessesMove, ModelIsReplaced
  <1>1. NoRequest \in RequestType /\ NoRequest.method # "synthesize"
    BY StartRequestsAre DEF StartRequests
  <1>2. NoFrame \in FrameType /\ NoFrame.event # "synthesis_succeeded"
    BY StreamEventsAre DEF NoFrame, FrameEvent
  <1>3. DeadWorker \in WorkerType /\ DeadWorker.job = NoRequest /\ DeadWorker.reply = NoFrame
    BY <1>1, <1>2 DEF DeadWorker, NewWorker, WorkerType
  <1>4. worker' = worker \/ worker' = DeadWorker
    BY DEF ProcessesMove, ModelIsReplaced
  <1>5. SessionTypeOK'
    BY <1>0, <1>3, <1>4 DEF SessionInv, SessionTypeOK, PipesTypeOK, FilesTypeOK
  <1>6. ASSUME NEW r, r \in Asked' PROVE RequestIsKnown(r)
    BY <1>0, <1>1, <1>3, <1>4, <1>6, OtherRequests DEF Asked, SessionInv, AnswerInv
  <1>7. ASSUME NEW f, f \in InFlight' PROVE FrameIsTrue(f)
    BY <1>0, <1>2, <1>3, <1>4, <1>7, OtherEvents DEF InFlight, SessionInv, AnswerInv
  <1>8. LastIsTrue'
    BY <1>0 DEF SessionInv, AnswerInv, LastIsTrue
  <1> QED BY <1>0, <1>5, <1>6, <1>7, <1>8, QuietStep DEF SessionInv

LEMMA SessionInitHolds == SessionInit => SessionInv
  <1> SUFFICES ASSUME SessionInit PROVE SessionInv
    OBVIOUS
  <1>1. NoRequest \in RequestType /\ NoRequest \in StartRequests
    BY StartRequestsAre DEF StartRequests
  <1>2. NoFrame \in FrameType /\ NoFrame.event # "synthesis_succeeded"
    BY StreamEventsAre DEF NoFrame, FrameEvent
  <1>3. NoFile \in FileType
    BY DEF NoFile, Rendered, NoRequest, Request, FileType, Identity
  <1>4. client \in ClientType /\ client.last.kind = "none" /\ client.request = NoRequest
        /\ client.step = "idle"
    BY <1>1, SessionAssumption DEF SessionInit, NoClient, ClientType, Kind
  <1>5. worker \in WorkerType /\ worker.job = NoRequest /\ worker.reply = NoFrame
    BY <1>1, <1>2 DEF SessionInit, NewWorker, WorkerType
  <1>6. <<>> \in Seq(RequestType) /\ <<>> \in Seq(FrameType) /\ Elements(<<>>) = {}
    BY NoElements
  <1>7. PipesTypeOK /\ listener.item = NoFrame /\ stdin.lines = <<>>
    BY <1>2, <1>6 DEF SessionInit, PipesTypeOK, NoListener
  <1>8. FilesTypeOK
    BY <1>3, SessionAssumption DEF SessionInit, FilesTypeOK
  <1>9. Asked = {NoRequest} /\ InFlight = {NoFrame}
    BY <1>5, <1>6, <1>7 DEF SessionInit, Asked, InFlight
  <1>10. AnswerInv
    BY <1>1, <1>2, <1>4, <1>9, OtherEvents, OtherRequests, StartRequestsAre
       DEF AnswerInv, OwnRequest, LastIsTrue
  <1> QED BY <1>4, <1>5, <1>7, <1>8, <1>10 DEF SessionInv, SessionTypeOK

\* What each end knows of the requests and answers on the pipes, for any number of
\* syntheses, faults and lines a pipe holds.
THEOREM SessionInvariant == SessionSpec => []SessionInv
  <1>1. SessionInit => SessionInv
    BY SessionInitHolds
  <1>2. SessionInv /\ [SessionNext]_<<sessionVars, treeVars>> => SessionInv'
    <2> SUFFICES ASSUME SessionInv, [SessionNext]_<<sessionVars, treeVars>> PROVE SessionInv'
      OBVIOUS
    <2>1. CASE ClientStep
      BY <2>1, SendingKeeps, ReceiveKeeps, ClientEnds, ClientMovesOn DEF ClientStep
    <2>2. CASE ClientCalls
      BY <2>2, SpawnKeeps, SynthesizeKeeps, ClientMovesOn DEF ClientCalls
    <2>3. CASE ListenerMoves \/ WorkerMoves \/ ProcessesMove \/ ModelIsReplaced
      BY <2>3, ListenerMovesKeep, WorkerMovesKeep, OthersKeep
    <2>4. CASE UNCHANGED <<sessionVars, treeVars>>
      BY <2>4 DEF sessionVars, SessionInv, SessionTypeOK, PipesTypeOK, FilesTypeOK, AnswerInv,
                  OwnRequest, LastIsTrue, Asked, InFlight, RequestIsKnown, FrameIsTrue
    <2> QED BY <2>1, <2>2, <2>3, <2>4 DEF SessionNext
  <1> QED BY <1>1, <1>2, PTL DEF SessionSpec

\* A success that synthesize returns has its own file: rendered for that request, with its
\* voice, by the model the gate verified.
THEOREM AnswersAreOwn == SessionSpec => []AnswerIsOwn
  <1>1. SessionInv => AnswerIsOwn
    BY DEF SessionInv, AnswerInv, LastIsTrue, AnswerIsOwn
  <1> QED BY <1>1, SessionInvariant, PTL

-----------------------------------------------------------------------------
(* What a shutdown leaves of the tree. *)

\* A shutdown has the child in hand and terminates the tree once; a timeout is returned
\* without a word about containment only when that terminate contained the tree and the
\* pipes are closed, and the child is not spawned again.
ShutdownIsTrue ==
    /\ client.step \in {"wait", "terminate", "epilogue", "join"} => client.child
    /\ client.child /\ client.step \in {"send", "write", "await", "ready", "close", "wait"} => term = Idle
    /\ client.step \in {"epilogue", "join"} => term.step = "done"
    /\ client.last.kind = "timeout" =>
         /\ ~client.child /\ client.step \notin {"idle", "write", "await"}
         /\ TreeIsContained /\ ~PipesAreOpen

ShutdownInv == TreeInv /\ ShutdownIsTrue

\* The same tree is as contained as it was, and its pipes are as open.
LEMMA SameTreeIsContained ==
  ASSUME UNCHANGED treeVars
  PROVE  (TreeIsContained <=> TreeIsContained') /\ (PipesAreOpen <=> PipesAreOpen')
  BY DEF treeVars, TreeIsContained, GroupExists, HasLiveDescendants, PipesAreOpen, Live

\* The client moves on, to no timeout and into no later step of the shutdown, and keeps or
\* loses its child only as it says.
LEMMA ClientStepsKeep ==
  ASSUME SessionInv, ShutdownInv,
         \/ SendRequest \/ WriteRest \/ ReceiveResponse \/ ResponsesDisconnect
         \/ ResponseTimesOut
         \/ Synthesize \/ Close \/ ShutdownAgain
  PROVE  ShutdownInv'
  <1>0. UNCHANGED treeVars /\ client \in ClientType
    BY DEF SessionInv, SessionTypeOK, SendRequest, WriteRest, ReceiveResponse, ResponsesDisconnect,
           ResponseTimesOut, Synthesize, Close, ShutdownAgain
  <1>1. TreeInv'
    BY <1>0, SameTree DEF ShutdownInv
  <1>2. /\ client.step \in {"send", "write", "await", "ready", "close"}
        /\ client'.step \in {"send", "write", "await", "ready", "close", "over"}
        /\ client'.child = client.child
        /\ client'.last = client.last \/ client'.last.kind # "timeout"
        /\ client'.step \in {"write", "await"} => client'.last.kind # "timeout"
    <2>1. CASE SendRequest \/ WriteRest
      <3>1. CASE CallFails("protocol", TRUE)
        <4>1. "protocol" \in Kind /\ TRUE \in BOOLEAN
          BY DEF Kind
        <4>2. /\ client'.step \in {"close", "ready"} /\ client'.child = client.child
              /\ client'.last = [kind |-> "protocol", request |-> client.request]
          BY <1>0, <3>1, <4>1, CallFailsTo
        <4>3. client.step \in {"send", "write"}
          BY <2>1 DEF SendRequest, WriteRest
        <4>4. client'.last.kind = "protocol"
          BY <4>2
        <4> QED BY <4>2, <4>3, <4>4
      <3>2. CASE SendRequest /\ ~CallFails("protocol", TRUE)
        <4>1. client.step = "send" /\ PipesAreOpen
          BY <3>2 DEF SendRequest
        <4>2. client.last.kind # "timeout"
          BY <4>1 DEF ShutdownInv, ShutdownIsTrue
        <4>3. \E step \in {"write", "await"} : client' = [client EXCEPT !.step = step, !.poisoned = TRUE]
          BY <3>2 DEF SendRequest
        <4> QED BY <1>0, <4>1, <4>2, <4>3 DEF ClientType
      <3>3. CASE WriteRest /\ ~CallFails("protocol", TRUE)
        <4>1. client.step = "write" /\ client' = [client EXCEPT !.step = "await"]
          BY <3>3 DEF WriteRest
        <4>2. client.last.kind # "timeout"
          BY <4>1 DEF ShutdownInv, ShutdownIsTrue
        <4> QED BY <1>0, <4>1, <4>2 DEF ClientType
      <3> QED BY <2>1, <3>1, <3>2, <3>3
    <2>2. CASE ReceiveResponse
      <3>1. client.step = "await" /\ client.last.kind # "timeout"
        BY <2>2 DEF ReceiveResponse, ShutdownInv, ShutdownIsTrue
      <3> QED BY <2>2, <3>1, ReceivedTo
    <2>3. CASE ResponsesDisconnect
      <3>1. "protocol" \in Kind /\ TRUE \in BOOLEAN
        BY DEF Kind
      <3>2. CallFails("protocol", TRUE) /\ client.step = "await"
        BY <2>3 DEF ResponsesDisconnect
      <3>3. /\ client'.step \in {"close", "ready"} /\ client'.child = client.child
            /\ client'.last = [kind |-> "protocol", request |-> client.request]
        BY <1>0, <3>1, <3>2, CallFailsTo
      <3> QED BY <3>2, <3>3
    <2>4. CASE ResponseTimesOut \/ Close \/ ShutdownAgain
      BY <1>0, <2>4 DEF ResponseTimesOut, Close, ShutdownAgain, ClientType
    <2>5. CASE Synthesize
      BY <1>0, <2>5 DEF Synthesize, ClientType
    <2> QED BY <2>1, <2>2, <2>3, <2>4, <2>5
  <1>3. ShutdownIsTrue'
    BY <1>0, <1>2, SameTreeIsContained DEF ShutdownInv, ShutdownIsTrue, treeVars
  <1> QED BY <1>1, <1>3 DEF ShutdownInv

\* The child is spawned once: no timeout was returned before.
LEMMA SpawnIsFirst == ASSUME SessionInv, ShutdownInv, Spawn PROVE ShutdownInv'
  <1>0. /\ client \in ClientType /\ owned' = {} /\ term' = Idle
        /\ tree' \in {tree, FreshTree} /\ client.step = "idle"
    BY DEF SessionInv, SessionTypeOK, Spawn
  <1>1. TreeInv'
    BY <1>0, SpawningKeeps DEF ShutdownInv, TreeInv
  <1>2. client'.step \in {"send", "over"} /\ client'.last.kind # "timeout"
    <2>1. client.last.kind # "timeout"
      BY <1>0 DEF ShutdownInv, ShutdownIsTrue
    <2>2. CASE client' = [client EXCEPT !.step = "send", !.child = TRUE,
                                        !.request = InitializeRequest]
      BY <1>0, <2>1, <2>2 DEF ClientType
    <2>3. CASE client' = [client EXCEPT !.step = "over", !.last = Outcome("protocol")]
      BY <1>0, <2>3 DEF ClientType, Outcome
    <2> QED BY <2>2, <2>3 DEF Spawn
  <1> QED BY <1>0, <1>1, <1>2 DEF ShutdownInv, ShutdownIsTrue

LEMMA ShutdownStepsKeep ==
  ASSUME SessionInv, ShutdownInv,
         BeginShutdown \/ WaitForVoluntaryExit \/ ClientTerminates \/ Epilogue
  PROVE  ShutdownInv'
  <1>0. client \in ClientType
    BY DEF SessionInv, SessionTypeOK
  <1>1. /\ client.child /\ client'.child /\ client'.last = client.last
        /\ client'.step \in {"wait", "terminate", "epilogue", "join"}
    <2>1. CASE BeginShutdown
      BY <1>0, <2>1 DEF BeginShutdown, ClientType
    <2>2. CASE WaitForVoluntaryExit
      BY <1>0, <2>2 DEF WaitForVoluntaryExit, ClientType, ShutdownInv, ShutdownIsTrue
    <2>3. CASE ClientTerminates
      BY <1>0, <2>3 DEF ClientTerminates, ClientType, ShutdownInv, ShutdownIsTrue
    <2>4. CASE Epilogue
      <3>1. \/ client' = [client EXCEPT !.answered = TRUE]
            \/ \E how \in {"Epilogue", "ok", "Containment"} :
                  client' = [client EXCEPT !.step = "join", !.epilogue = how]
        BY <2>4 DEF Epilogue
      <3>2. client.step = "epilogue" /\ client.child
        BY <2>4 DEF Epilogue, ShutdownInv, ShutdownIsTrue
      <3> QED BY <1>0, <3>1, <3>2 DEF ClientType
    <2> QED BY <2>1, <2>2, <2>3, <2>4
  <1>2. client'.last.kind # "timeout"
    BY <1>1 DEF ShutdownInv, ShutdownIsTrue
  <1>3. /\ TreeInv' /\ (client'.step = "wait" => term' = Idle)
        /\ client'.step \in {"epilogue", "join"} => term'.step = "done"
    <2>1. CASE BeginShutdown
      <3>1. tree' = tree /\ term' = term /\ owned' \in {owned, Refreshed} /\ term = Idle
        BY <2>1 DEF BeginShutdown, ShutdownInv, ShutdownIsTrue
      <3>2. TreeInv'
        BY <3>1, RefreshedAreBorn
           DEF ShutdownInv, TreeInv, TreeTypeOK, OwnedAreBorn, TerminateIsTrue, Idle
      <3>3. client'.step = "wait"
        BY <1>0, <2>1 DEF BeginShutdown, ClientType
      <3> QED BY <3>1, <3>2, <3>3
    <2>2. CASE WaitForVoluntaryExit
      <3>1. client'.step = "terminate"
        BY <1>0, <2>2 DEF WaitForVoluntaryExit, ClientType
      <3> QED BY <2>2, <3>1, BeginTerminateKeeps DEF WaitForVoluntaryExit, ShutdownInv
    <2>3. CASE ClientTerminates
      <3>1. CASE TerminateStep /\ UNCHANGED client
        BY <2>3, <3>1, TerminateKeeps DEF ClientTerminates, ShutdownInv
      <3>2. CASE term.step = "done" /\ UNCHANGED treeVars
        BY <1>0, <2>3, <3>2, SameTree DEF ClientTerminates, ShutdownInv, ClientType, treeVars
      <3>3. \/ TerminateStep /\ UNCHANGED client
            \/ term.step = "done" /\ UNCHANGED treeVars
        BY <2>3 DEF ClientTerminates
      <3>4. CASE UNCHANGED treeVars /\ term.step = "done" /\ client'.step = "epilogue"
        BY <3>4, SameTree DEF ShutdownInv, treeVars
      <3> QED BY <3>1, <3>2, <3>3
    <2>4. CASE Epilogue
      <3>1. client'.step \in {"epilogue", "join"}
        BY <1>0, <2>4 DEF Epilogue, ClientType
      <3> QED
        BY <2>4, <3>1, SameTree DEF Epilogue, ShutdownInv, ShutdownIsTrue, treeVars
    <2> QED BY <2>1, <2>2, <2>3, <2>4
  <1> QED BY <1>1, <1>2, <1>3 DEF ShutdownInv, ShutdownIsTrue

\* The readers are joined, so nobody holds the pipes, and the result of the shutdown is
\* behind the timeout.
LEMMA JoinKeeps == ASSUME SessionInv, ShutdownInv, JoinReaders PROVE ShutdownInv'
  <1>0. /\ client \in ClientType /\ UNCHANGED treeVars /\ client.step = "join" /\ ~PipesAreOpen
        /\ client.child /\ term.step = "done"
    BY DEF SessionInv, SessionTypeOK, JoinReaders, ShutdownInv, ShutdownIsTrue
  <1>1. TreeInv'
    BY <1>0, SameTree DEF ShutdownInv
  <1> DEFINE timeout ==
               IF ShutdownResult = "Containment" THEN "timeout, uncontained" ELSE "timeout"
  <1>2. PICK last \in {client.last, Outcome(timeout)}, step \in {"ready", "over"} :
          client' = [client EXCEPT !.child = FALSE, !.step = step, !.request = NoRequest,
                                   !.inspection = FALSE, !.answered = FALSE,
                                   !.epilogue = "ok", !.last = last]
    BY DEF JoinReaders
  <1>3. client'.child = FALSE /\ client'.step \in {"ready", "over"} /\ client'.last = last
    BY <1>0, <1>2 DEF ClientType
  <1>4. client.last.kind # "timeout"
    BY <1>0 DEF ShutdownInv, ShutdownIsTrue
  <1>5. last.kind = "timeout" => TreeIsContained
    <2>1. SUFFICES ASSUME last.kind = "timeout" PROVE ~term.failed
      BY <1>0 DEF ShutdownInv, TreeInv, TerminateIsTrue
    <2>2. last = Outcome(timeout)
      BY <1>2, <1>4, <2>1
    <2>3. ShutdownResult # "Containment"
      BY <2>1, <2>2 DEF Outcome
    <2> QED BY <2>3 DEF ShutdownResult
  <1> QED
    BY <1>0, <1>1, <1>3, <1>5, SameTreeIsContained DEF ShutdownInv, ShutdownIsTrue, treeVars

\* The processes, the worker, the reader thread and the operator.
LEMMA OthersShutdownKeep ==
  ASSUME ShutdownInv, ListenerMoves \/ WorkerMoves \/ ProcessesMove \/ ModelIsReplaced
  PROVE  ShutdownInv'
  <1>1. UNCHANGED <<client, owned, term>>
    BY DEF ListenerMoves, WorkerMoves, ProcessesMove, ModelIsReplaced, treeVars
  <1>2. CASE TreeMoves
    BY <1>1, <1>2, TreeMoveKeeps DEF ShutdownInv, ShutdownIsTrue
  <1>3. CASE UNCHANGED tree
    <2>1. UNCHANGED treeVars
      BY <1>1, <1>3 DEF treeVars
    <2> QED
      BY <1>1, <2>1, SameTree, SameTreeIsContained DEF ShutdownInv, ShutdownIsTrue
  <1>4. TreeMoves \/ UNCHANGED tree
    <2>1. Root \in TreeProc /\ Descendants \subseteq TreeProc
      BY RootIsNoDescendant
    <2>2. CASE ListenerMoves \/ ModelIsReplaced
      BY <2>2 DEF ListenerMoves, ModelIsReplaced, treeVars
    <2>3. CASE WorkerMoves
      <3>1. CASE WorkerLeaves \/ WorkerDies
        BY <2>1, <3>1 DEF WorkerLeaves, WorkerDies, WorkerMay, TreeMoves, ExitItself
      <3>2. CASE ~(WorkerLeaves \/ WorkerDies)
        BY <2>3, <3>2
           DEF WorkerMoves, WorkerBoots, WorkerReads, RespondInitialize, RespondCapabilities,
               RespondSynthesize, RespondShutdown, WorkerWrites, WorkerStrays
      <3> QED BY <3>1, <3>2
    <2>4. CASE ProcessesMove
      BY <2>1, <2>4 DEF ProcessesMove, TreeMoves
    <2> QED BY <2>2, <2>3, <2>4
  <1> QED BY <1>2, <1>3, <1>4

\* A timeout that does not say the tree was not contained leaves nobody who could still
\* write to the assigned path.
THEOREM TimeoutsAreContained == SessionSpec => []TimeoutLeavesNoWriter
  <1>1. SessionInit => ShutdownInv
    BY TreeInitHolds DEF SessionInit, ShutdownInv, ShutdownIsTrue, NoClient
  <1>2. SessionInv /\ ShutdownInv /\ [SessionNext]_<<sessionVars, treeVars>> => ShutdownInv'
    <2> SUFFICES ASSUME SessionInv, ShutdownInv, [SessionNext]_<<sessionVars, treeVars>>
                 PROVE  ShutdownInv'
      OBVIOUS
    <2>1. CASE ClientStep \/ ClientCalls
      BY <2>1, ClientStepsKeep, SpawnIsFirst, ShutdownStepsKeep, JoinKeeps
         DEF ClientStep, ClientCalls
    <2>2. CASE ListenerMoves \/ WorkerMoves \/ ProcessesMove \/ ModelIsReplaced
      BY <2>2, OthersShutdownKeep
    <2>3. CASE UNCHANGED <<sessionVars, treeVars>>
      BY <2>3, SameTree, SameTreeIsContained
         DEF sessionVars, treeVars, ShutdownInv, ShutdownIsTrue
    <2> QED BY <2>1, <2>2, <2>3 DEF SessionNext
  <1>3. ShutdownInv => TimeoutLeavesNoWriter
    BY DEF ShutdownInv, ShutdownIsTrue, TimeoutLeavesNoWriter
  <1> QED BY <1>1, <1>2, <1>3, SessionInvariant, PTL DEF SessionSpec
=============================================================================
