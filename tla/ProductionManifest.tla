--------------------------- MODULE ProductionManifest ---------------------------
(***************************************************************************)
(* validate_production_manifest (pipeline.rs): what a manifest that claims *)
(* production is refused for.  The gates do not exist yet, so it is always *)
(* refused; the refusal says whether anything else was wrong with it.      *)
(* A field holds a class of values the checks tell apart.                  *)
(***************************************************************************)
EXTENDS Checks

SourceClassification == {"owner_authored", "public_domain", "permissively_licensed",
                         "commercially_or_privately_licensed", "consented_voice_reference",
                         "evaluation_only", "rights_review_required", "prohibited"}
PermitsProductionRelease(classification) ==
    classification \notin {"evaluation_only", "rights_review_required", "prohibited"}

RightsDecision == {"approved", "restricted", "review_required", "prohibited"}

\* SourceRightsDeclaration and DeclaredVoiceProfile: their two identifiers and the
\* decision they record.
Declaration(decisions) == [id : {"blank", "id"}, rights_record_id : {"blank", "id"}, decision : decisions]

SoundSource == [id |-> "id", rights_record_id |-> "id", decision |-> "owner_authored"]
SoundVoice == [id |-> "id", rights_record_id |-> "id", decision |-> "approved"]

\* A rights section: absent, of a shape that does not parse, or its declarations.
Section(form, rows) == [form |-> form, rows |-> rows]
Sections(sound, decisions) ==
    {Section("absent", <<>>), Section("malformed", <<>>), Section("list", <<>>)}
    \cup {Section("list", <<d>>) : d \in Declaration(decisions)}
    \cup {Section("list", <<sound, d>>) : d \in Declaration(decisions)}

\* ProductionManifest.  "shape" is broken when a field is missing, unknown or of
\* another type.
ManifestValues == [
    json |-> {"malformed", "object"},
    schema_version |-> {"missing", "1.0", "2.0"},
    shape |-> {"broken", "sound"},
    release_status |-> {"private_preview", "production_release"},
    lesson_id |-> {"blank", "unportable", "portable"},
    take_selection_source |-> {"absent", "implicit", "explicit"},
    content_rights |-> Sections(SoundSource, SourceClassification),
    voice_profiles |-> Sections(SoundVoice, RightsDecision)]

SoundManifest == [
    json |-> "object", schema_version |-> "1.0", shape |-> "sound", release_status |-> "production_release",
    lesson_id |-> "portable", take_selection_source |-> "explicit",
    content_rights |-> Section("list", <<SoundSource>>), voice_profiles |-> Section("list", <<SoundVoice>>)]

-----------------------------------------------------------------------------
\* require_declarations and the loop over what it parsed: identifiers first, then
\* the decision, declaration by declaration.
DeclarationChecks(section, undeclared, unresolved, permitted) ==
    LET rows == section.rows
        row(i) == <<<<rows[i].id = "blank", "EmptyManifestIdentifier">>,
                    <<rows[i].rights_record_id = "blank", "EmptyManifestIdentifier">>,
                    <<rows[i].decision \notin permitted, unresolved>>>>
    IN  <<<<section.form = "malformed", "InvalidRightsDeclaration">>, <<rows = <<>>, undeclared>>>>
        \o IF rows = <<>> THEN <<>> ELSE row(1) \o IF Len(rows) = 1 THEN <<>> ELSE row(2)

\* Mutant: a manifest that records nothing about its selection is taken for an
\* explicit one.
SelectionDefaultsToExplicit(m) == m.take_selection_source = "implicit"

\* take_selection_source, implicit where it is absent.
SelectsImplicitly(m) == m.take_selection_source \in {"absent", "implicit"}

ValidateProductionManifest(m) == FirstFault(
    <<<<m.json = "malformed", "MalformedProductionManifest">>,
      <<m.schema_version # "1.0", "UnsupportedProductionManifest">>,
      <<m.shape = "broken", "MalformedProductionManifest">>,
      <<m.release_status # "production_release", "ManifestNotProductionRelease">>,
      <<m.lesson_id = "blank", "MissingLessonId">>,
      <<m.lesson_id = "unportable", "InvalidLessonId">>>>
    \o DeclarationChecks(m.content_rights, "MissingContentRightsDeclaration", "UnresolvedContentRights",
                         {c \in SourceClassification : PermitsProductionRelease(c)})
    \o DeclarationChecks(m.voice_profiles, "MissingVoiceProfileDeclaration", "ProfileNotApproved",
                         {"approved"})
    \o <<<<SelectsImplicitly(m), "ImplicitTakeSelection">>,
         <<TRUE, "ProductionGatesUnavailable">>>>)

-----------------------------------------------------------------------------
VARIABLE manifest

ManifestEdits(m) ==
    UNION {{[m EXCEPT ![field] = v] : v \in ManifestValues[field]} : field \in DOMAIN ManifestValues}

\* Manifests that differ from a sound one in up to two places.
ManifestInit == manifest \in ManifestEdits(SoundManifest)
EditManifest == manifest \in ManifestEdits(SoundManifest) /\ manifest' \in ManifestEdits(manifest)

ManifestSpec == ManifestInit /\ [][EditManifest]_manifest

-----------------------------------------------------------------------------
\* What RIGHTS-DATA-ARTIFACT-POLICY asks of a generated release, with no order.
RightsAreResolved(m) ==
    /\ m.content_rights.rows # <<>> /\ m.voice_profiles.rows # <<>>
    /\ \A i \in DOMAIN m.content_rights.rows :
          /\ m.content_rights.rows[i].id # "blank" /\ m.content_rights.rows[i].rights_record_id # "blank"
          /\ PermitsProductionRelease(m.content_rights.rows[i].decision)
    /\ \A i \in DOMAIN m.voice_profiles.rows :
          m.voice_profiles.rows[i] = SoundVoice

\* The refusal every manifest ends at, that the gates do not exist, is reached by a
\* manifest with nothing else wrong and by no other: one that claims less, leaves a
\* right unresolved or a take to the program hears of that and not of the gates.
GatesAreTheLastObstacle ==
    ValidateProductionManifest(manifest) = "ProductionGatesUnavailable" <=>
        /\ manifest.json = "object" /\ manifest.schema_version = "1.0" /\ manifest.shape = "sound"
        /\ manifest.release_status = "production_release" /\ manifest.lesson_id = "portable"
        /\ RightsAreResolved(manifest) /\ manifest.take_selection_source = "explicit"
=============================================================================
