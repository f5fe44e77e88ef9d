------------------------------- MODULE Checks -------------------------------
(* A function that refuses at the first check that fails, as a sequence of *)
(* <<fails, error>> pairs in the order of the code.                        *)
EXTENDS Integers, Sequences, FiniteSetsExt

FirstFault(checks) ==
    LET failing == {i \in DOMAIN checks : checks[i][1]}
    IN  IF failing = {} THEN "ok" ELSE checks[Min(failing)][2]

\* A rule of a list that is broken, met first or not.
Breaks(checks, code) == \E i \in DOMAIN checks : checks[i][1] /\ checks[i][2] = code
=============================================================================
