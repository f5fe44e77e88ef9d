----------------------------- MODULE CacheStore -----------------------------
(***************************************************************************)
(* What the segment cache promises about one key to whoever reads it       *)
(* without a lock: an entry appears whole, never changes by the program's  *)
(* hand, and makes room for another only after it was damaged from         *)
(* outside.                                                                *)
(***************************************************************************)

CONSTANTS
    Digests,  \* audio a worker may produce for the key
    Nothing,  \* no entry
    Broken    \* an entry some check of the cache refuses

VARIABLE content

CacheStoreInit == content = Nothing

Appear == content = Nothing /\ content' \in Digests
Rot == content \in Digests /\ content' = Broken
Retire == content = Broken /\ content' = Nothing

CacheStoreSpec == CacheStoreInit /\ [][Appear \/ Rot \/ Retire]_content
=============================================================================
