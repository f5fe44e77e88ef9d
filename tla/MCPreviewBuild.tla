---- MODULE MCPreviewBuild ----
(* Bounded instances of PreviewBuild for TLC. *)
EXTENDS PreviewBuild, TLC

\* Processes, and the values of an input, are interchangeable.
ProcSymmetry == Permutations(Proc)
InputSymmetry ==
    ProcSymmetry \cup Permutations(Layouts) \cup Permutations(Takes) \cup Permutations(Envs)

EndedBy(outcome) == Cardinality({p \in Proc : mem[p].outcome = outcome})

\* Bound of the runs with one set of inputs: the last command is not disturbed.
TwoFaults ==
    /\ EndedBy("killed") + EndedBy("failed") <= 2
    /\ Cardinality({p \in Proc : life[p] = "running"}) <= 2

\* Bound of the runs with many inputs: commands in sequence, one of them killed.
OneKillInSequence ==
    /\ Cardinality({p \in Proc : life[p] = "running"}) <= 1
    /\ EndedBy("killed") <= 1
    /\ EndedBy("failed") = 0
===============================
