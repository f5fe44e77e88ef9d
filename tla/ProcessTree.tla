----------------------------- MODULE ProcessTree -----------------------------
(***************************************************************************)
(* The processes behind one child of study-tts, and what process.rs knows  *)
(* of them.  The child leads a process group of its own.  Its descendants  *)
(* inherit the group and the child's pipes, and may leave both; whoever    *)
(* loses its parent becomes a child of init.  ProcessOwnership records the *)
(* descendants it has met in /proc, each by a pidfd that survives reuse of *)
(* the pid.                                                                *)
(***************************************************************************)
EXTENDS Integers

CONSTANT MaxDescendants  \* bound: processes the child and its descendants fork

ASSUME DescendantAssumption == MaxDescendants \in Nat

VARIABLES
    tree,   \* the kernel's process table, as far as it is about this child
    owned,  \* ProcessOwnership::descendants
    term    \* a call of terminate: its step, and whether something failed

treeVars == <<tree, owned, term>>

Root == 0
Descendants == 1 .. MaxDescendants
TreeProc == {Root} \cup Descendants
InitProcess == -1

\* doomed: a SIGKILL is pending; such a process runs no more code of its own.
\* exited: how it ended.  The root is a zombie until study-tts reaps it.
ProcessRecord ==
    [life : {"unborn", "live", "zombie", "gone"}, parent : TreeProc \cup {InitProcess},
     grouped : BOOLEAN, piped : BOOLEAN, doomed : BOOLEAN,
     exited : {"no", "itself", "signal"}]

Unborn ==
    [life |-> "unborn", parent |-> InitProcess, grouped |-> FALSE, piped |-> FALSE,
     doomed |-> FALSE, exited |-> "no"]

Newborn(parent, grouped, piped) ==
    [Unborn EXCEPT !.life = "live", !.parent = parent, !.grouped = grouped, !.piped = piped]

NoTree == [p \in TreeProc |-> Unborn]

\* spawn, with configure_process_group and piped standard streams.
FreshTree == [NoTree EXCEPT ![Root] = Newborn(InitProcess, TRUE, TRUE)]

Live(p) == tree[p].life = "live"
Running(p) == Live(p) /\ ~tree[p].doomed
PipesAreOpen == \E p \in TreeProc : Live(p) /\ tree[p].piped
GroupExists == \E p \in TreeProc : tree[p].life \in {"live", "zombie"} /\ tree[p].grouped
HasLiveDescendants == \E p \in owned : Live(p)

-----------------------------------------------------------------------------
(* What the processes do. *)

Fork(p) ==
    \E d \in Descendants :
        /\ Running(p)
        /\ tree[d].life = "unborn" /\ \A e \in 1 .. d - 1 : tree[e].life # "unborn"
        /\ tree' = [tree EXCEPT ![d] = Newborn(p, tree[p].grouped, tree[p].piped)]

\* setsid or setpgid: out of the group that a kill of the group reaches.
LeaveGroup(p) ==
    /\ p # Root /\ Running(p) /\ tree[p].grouped
    /\ tree' = [tree EXCEPT ![p].grouped = FALSE]

ClosePipes(p) ==
    /\ Running(p) /\ tree[p].piped
    /\ tree' = [tree EXCEPT ![p].piped = FALSE]

\* Its children become init's, and init or a parent that waits reaps a descendant.
Ended(p, how) ==
    [q \in TreeProc |->
        IF q = p THEN [tree[p] EXCEPT !.life = IF p = Root THEN "zombie" ELSE "gone",
                                      !.exited = how]
        ELSE IF tree[q].parent = p THEN [tree[q] EXCEPT !.parent = InitProcess]
        ELSE tree[q]]

ExitItself(p) == Running(p) /\ tree' = Ended(p, "itself")
DieOfSignal(p) == Live(p) /\ tree[p].doomed /\ tree' = Ended(p, "signal")

-----------------------------------------------------------------------------
(* ProcessOwnership, and terminate *)

\* refresh: the live children of the root, of the live processes already owned,
\* and of the children found on the way.
Refreshed ==
    LET found[n \in 0 .. MaxDescendants] ==
          IF n = 0 THEN {Root} \cup {p \in owned : Live(p)}
          ELSE found[n - 1] \cup
               {p \in Descendants : Live(p) /\ tree[p].parent \in found[n - 1]}
    IN  owned \cup {p \in Descendants : Live(p) /\ p \in found[MaxDescendants]}

Killed(victims) ==
    [p \in TreeProc |-> IF p \in victims /\ Live(p) THEN [tree[p] EXCEPT !.doomed = TRUE]
                        ELSE tree[p]]

TermStep == {"idle", "refresh", "kill", "descendants", "exit", "contain", "done"}
Idle == [step |-> "idle", failed |-> FALSE]
TreeInit == tree = NoTree /\ owned = {} /\ term = Idle
BeginTerminate == term' = [step |-> "refresh", failed |-> FALSE]

TermTo(step, fault) == term' = [step |-> step, failed |-> term.failed \/ fault]

\* signal_owned_processes: refresh, kill the group, kill each owned descendant.
\* Each part may fail, and the next one is tried all the same; when the group
\* cannot be killed, the child alone is.
TerminateRefresh ==
    /\ term.step = "refresh"
    /\ \/ owned' = Refreshed /\ TermTo("kill", FALSE)
       \/ owned' = owned /\ TermTo("kill", TRUE)
    /\ UNCHANGED tree

TerminateGroup ==
    /\ term.step = "kill"
    /\ \/ tree' = Killed({p \in TreeProc : tree[p].grouped}) /\ TermTo("descendants", FALSE)
       \/ tree' = Killed({Root}) /\ TermTo("descendants", TRUE)
    /\ UNCHANGED owned

TerminateOwned ==
    /\ term.step = "descendants"
    /\ \E victims \in SUBSET owned :
         tree' = Killed(victims) /\ TermTo("exit", victims # owned)
    /\ UNCHANGED owned

\* wait_for_child_exit, and child.wait.
ReapChild ==
    /\ term.step = "exit" /\ tree[Root].life = "zombie"
    /\ tree' = [tree EXCEPT ![Root].life = "gone"]
    /\ TermTo("contain", FALSE) /\ UNCHANGED owned

\* The child does not exit in time or cannot be inspected: handoff_child_reaper.
ExitTimesOut ==
    /\ term.step = "exit"
    /\ TermTo("done", TRUE) /\ UNCHANGED <<tree, owned>>

\* wait_for_containment: the group is gone and no owned descendant is alive, or
\* the deadline passes.
WaitForContainment ==
    /\ term.step = "contain"
    /\ TermTo("done", GroupExists \/ HasLiveDescendants) /\ UNCHANGED <<tree, owned>>

TerminateStep ==
    \/ TerminateRefresh \/ TerminateGroup \/ TerminateOwned
    \/ ReapChild \/ ExitTimesOut \/ WaitForContainment

\* What a terminate that reported no failure has achieved.
TreeIsContained == tree[Root].life = "gone" /\ ~GroupExists /\ ~HasLiveDescendants
==============================================================================
