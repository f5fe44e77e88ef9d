------------------------------ MODULE VoiceGate ------------------------------
(***************************************************************************)
(* voice_gate.rs and core/voice.rs: whether a voice root may be handed to  *)
(* the worker.  A root is a set of directory entries; an entry holds a     *)
(* profile record, a consent record, the reference audio and the           *)
(* conditioning artifact.  Content stands for a file and for its BLAKE3    *)
(* digest.  The worker's own reading of the root (_voice_conditioning of   *)
(* worker.py) is modelled beside it, because the two must agree on what a  *)
(* profile is.                                                             *)
(***************************************************************************)
EXTENDS Checks

CONSTANTS
    ProfileNames,  \* directory names, and profile identities
    Sounds         \* contents of reference.wav and of conditionals.pt

VoiceUse == {"private_synthesis", "voice_qualification"}
ConsentStatus == {"granted", "pending", "revoked"}
RightsDecision == {"approved", "restricted", "review_required", "prohibited"}

\* link: profile.json is a symbolic link to a file; valid: it parses, its schema
\* version is ours, no field is blank and each digest is one.
RecordFile == {"regular", "link", "missing"}
VoiceProfile ==
    [file : RecordFile, valid : BOOLEAN, profile_id : ProfileNames,
     reference : Sounds, conditionals : Sounds, approval : RightsDecision]
VoiceConsent ==
    [file : RecordFile, valid : BOOLEAN, status : ConsentStatus,
     permitted : SUBSET VoiceUse, reference : Sounds]
VoiceEntry ==
    [kind : {"directory", "link", "file"}, name : ProfileNames, utf8 : BOOLEAN,
     profile : VoiceProfile, consent : VoiceConsent,
     reference : Sounds \cup {"missing"}, conditionals : Sounds \cup {"missing"}]

\* Mutant: a profile.json that is a symbolic link is skipped, which the worker reads.
HoldsARegularProfile(entry) == entry.kind = "directory" /\ entry.profile.file = "regular"

HoldsALoadableProfile(entry) == entry.kind = "directory" /\ entry.profile.file # "missing"

ReadRecord(record) ==
    FirstFault(<< <<record.file = "link", "VoiceRecordNotRegularFile">>,
                  <<record.file = "missing", "MissingVoiceRecord">>,
                  <<~record.valid, "InvalidVoiceRecord">> >>)

ValidateProfileForUse(profile, consent, requested) ==
    FirstFault(<< <<consent.permitted = {}, "MissingField">>,
                  <<consent.status # "granted", "ConsentNotGranted">>,
                  <<profile.approval # "approved", "ProfileNotApproved">>,
                  <<requested \notin consent.permitted, "ConsentScopeExcluded">>,
                  <<profile.reference # consent.reference, "ConsentChecksumDisagreement">> >>)

VerifyChecksum(found, recorded) ==
    FirstFault(<< <<found = "missing", "MissingVoiceRecord">>,
                  <<found # recorded, "VoiceChecksumMismatch">> >>)

\* load_profile, in its order.
LoadProfile(entry, requested) ==
    LET results == << ReadRecord(entry.profile), ReadRecord(entry.consent),
                      ValidateProfileForUse(entry.profile, entry.consent, requested),
                      VerifyChecksum(entry.reference, entry.profile.reference),
                      VerifyChecksum(entry.conditionals, entry.profile.conditionals) >>
    IN  FirstFault([i \in DOMAIN results |-> <<results[i] # "ok", results[i]>>])

ResolveVoiceConditioning(entry, requested) ==
    LET loaded == LoadProfile(entry, requested)
    IN  FirstFault(<< <<entry.kind # "directory", "VoiceProfileNotDirectory">>,
                      <<loaded # "ok", loaded>>,
                      <<entry.profile.profile_id # entry.name, "VoiceProfileIdMismatch">> >>)

\* Every entry the worker would load must be one this use is permitted for.
AdmitVoiceRoot(root, requested) ==
    LET refusal(entry) ==
          IF ~HoldsALoadableProfile(entry) THEN "ok"
          ELSE IF ~entry.utf8 THEN "VoiceProfileNameNotUtf8"
          ELSE ResolveVoiceConditioning(entry, requested)
        refused == {e \in root : refusal(e) # "ok"}
    IN  IF refused = {} THEN "ok" ELSE refusal(CHOOSE e \in refused : TRUE)

-----------------------------------------------------------------------------
(* worker.py *)

\* _voice_conditioning: the entries whose conditioning the worker loads, unless it
\* refuses the whole root.
WorkerLoads(root) ==
    {e \in root : e.kind = "directory" /\ e.profile.file # "missing"}
WorkerRefusesVoices(root) ==
    \/ WorkerLoads(root) = {}
    \/ \E e \in WorkerLoads(root) :
         ~e.profile.valid \/ e.profile.profile_id # e.name \/ e.conditionals = "missing"
=============================================================================
