---------------------------- MODULE PreviewStore ----------------------------
(***************************************************************************)
(* What previews/<job-id> promises to a reader of current.json, without    *)
(* journal, staging or crashes: immutable packages appear one at a time in *)
(* the order of the build attempts that made them, each is selected before *)
(* the next one appears, and the selection never moves back.               *)
(***************************************************************************)
EXTENDS Naturals

CONSTANTS
    Manifest,  \* the packages: records with the build attempt in .attempt
    None       \* no selection

VARIABLES packages, current

storeVars == <<packages, current>>

StoreInit == packages = {} /\ current = None

\* Every published package but the selected one is older than it.
AllSelected ==
    \A m \in packages : current # None /\ (m = current \/ m.attempt < current.attempt)

\* A package appears; nothing published before is still waiting for selection.
Publish ==
    \E m \in Manifest :
        /\ AllSelected
        /\ \A n \in packages : n.attempt < m.attempt
        /\ packages' = packages \cup {m}
        /\ UNCHANGED current

\* The selection moves to the newest package.
Select ==
    \E m \in packages :
        /\ m # current
        /\ \A n \in packages \ {m} : n.attempt < m.attempt
        /\ current' = m
        /\ UNCHANGED packages

StoreNext == Publish \/ Select

StoreSpec == StoreInit /\ [][StoreNext]_storeVars
=============================================================================
