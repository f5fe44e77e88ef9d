---- MODULE MCSegmentCache ----
(* Bounded instances of SegmentCache for TLC. *)
EXTENDS SegmentCache, TLC

\* Processes are interchangeable, and so is the audio.
CacheSymmetry == Permutations(Proc) \cup Permutations(Digests)
===============================
