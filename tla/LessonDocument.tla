--------------------------- MODULE LessonDocument ---------------------------
(***************************************************************************)
(* An authored lesson and ValidatedLesson::from_json (core/lesson.rs): the *)
(* order its rules are asked in, the one refusal it answers with, and the  *)
(* field that refusal names.                                               *)
(*                                                                         *)
(* A field holds a class of values that the rules tell apart.  "absent"    *)
(* leaves the key out and "wrong" gives it another JSON type; "unknown" is *)
(* outside a closed vocabulary.  Keys are written in the order the structs *)
(* declare them.                                                           *)
(***************************************************************************)
EXTENDS Checks

CONSTANT LessonSegments  \* MAX_LESSON_SEGMENTS
ASSUME LessonAssumption == LessonSegments \in Nat

DocumentValues == [
    size |-> {"fits", "oversized"},
    schema |-> {"absent", "wrong", "v3", "v2"},
    schema_version |-> {"absent", "wrong", "malformed", "2.0", "3.0", "3.1", "3.2"},
    lesson_id |-> {"absent", "wrong", "blank", "unportable", "portable"},
    title |-> {"absent", "wrong", "text"},
    language |-> {"absent", "wrong", "malformed", "tag"},
    learning_objectives |-> {"wrong", "few", "many", "blank", "long"},
    content_hash |-> {"no_source", "absent", "wrong", "malformed", "digest"},
    references |-> {"few", "many", "blank", "long"},
    speakers |-> {"absent", "wrong", "none", "teacher", "repeated", "blank_voice", "unportable_voice"}]

SegmentValues == [
    id |-> {"absent", "wrong", "blank", "unportable", "a", "b", "c"},
    speaker |-> {"absent", "wrong", "blank", "teacher", "guest"},
    role |-> {"absent", "wrong", "unknown", "explanation", "recall_prompt"},
    source_refs |-> {"absent", "wrong", "none", "some", "many", "blank", "long"},
    display_text |-> {"absent", "wrong", "blank", "text", "long"},
    spoken_text |-> {"absent", "wrong", "blank", "text", "long"},
    style |-> {"absent", "wrong", "unknown", "calm"},
    pause_after_ms |-> {"absent", "wrong", "short", "response", "long", "excessive"},
    review_status |-> {"absent", "wrong", "unknown", "draft", "needs_review", "approved"},
    editorial |-> {"false", "true"}]

\* The order the structs declare their keys in.
DocumentKeys == <<"schema", "schema_version", "lesson_id", "title", "language",
                  "learning_objectives", "content_hash", "references", "speakers">>
SegmentKeys == <<"id", "speaker", "role", "source_refs", "display_text",
                 "spoken_text", "style", "pause_after_ms", "review_status", "editorial">>

\* Keys with a serde default.
OptionalKeys == {"schema", "learning_objectives", "references", "editorial"}

\* The field of what is about the document as a whole.
NoField == ""

\* A refusal: its variant, the segment it is in (0 for the document) and its field.
Refusal(code, segment, field) == [code |-> code, segment |-> segment, field |-> field]
Accepted == Refusal("ok", 0, NoField)

-----------------------------------------------------------------------------
\* field_of: the field each variant is located at.
FieldOf(code) ==
    CASE code = "LessonJsonTooLarge" -> NoField
      [] code = "UnsupportedSchema" -> "schema_version"
      [] code = "UnexpectedSchemaLink" -> "schema"
      [] code \in {"MissingLessonId", "InvalidLessonId"} -> "lesson_id"
      [] code = "MalformedLanguage" -> "language"
      [] code \in {"TooManyLearningObjectives", "EmptyLearningObjective",
                   "LearningObjectiveTooLong"} -> "learning_objectives"
      [] code \in {"TooManyLessonReferences", "EmptyLessonReference",
                   "LessonReferenceTooLong"} -> "references"
      [] code \in {"MissingSegments", "TooManySegments"} -> "segments"
      [] code \in {"MissingVoiceProfile", "InvalidVoiceProfile", "DuplicateSpeaker"} -> "speakers"
      [] code \in {"MissingSegmentId", "InvalidSegmentId", "DuplicateSegmentId"} -> "id"
      [] code \in {"MissingSpokenText", "SpokenTextTooLong"} -> "spoken_text"
      [] code \in {"MissingDisplayText", "DisplayTextTooLong"} -> "display_text"
      [] code \in {"MissingSourceRefs", "TooManySourceRefs", "EmptySourceRef",
                   "SourceRefTooLong"} -> "source_refs"
      [] code = "UnapprovedSegment" -> "review_status"
      [] code \in {"MissingSpeaker", "UndeclaredSpeaker"} -> "speaker"
      [] code \in {"PauseOutOfRange", "RecallPromptWithoutResponseInterval",
                   "RecallPromptResponseIntervalTooLong"} -> "pause_after_ms"

\* Mutant: the bound of the text shown is located at the text spoken.
LocatedAtTheSpokenText(code, segment) ==
    IF code = "ok" THEN Accepted
    ELSE Refusal(code, segment, IF code = "DisplayTextTooLong" THEN "spoken_text" ELSE FieldOf(code))

Located(code, segment) == IF code = "ok" THEN Accepted ELSE Refusal(code, segment, FieldOf(code))

\* Version parsing and accepted_by against 3.1.
VersionFails(version) == version \in {"malformed", "2.0", "3.2"}

\* check_declared_version: a document whose header cannot be read is left to the
\* shape check.
DeclaredVersionFails(lesson) == VersionFails(lesson.schema_version)

\* Whether the deserializer stops at a key it reads, and at one it never read.
StopsAt(object, key) ==
    \/ object[key] \in {"wrong", "unknown"}
    \/ key = "content_hash" /\ object[key] \in {"malformed", "absent"}

Omits(object, key) == object[key] = "absent" /\ key \notin OptionalKeys

FirstKey(keys, Fails(_)) ==
    LET failing == {i \in DOMAIN keys : Fails(keys[i])}
    IN  IF failing = {} THEN NoField ELSE keys[Min(failing)]

\* vocabulary_refusal and source_hash_refusal: the variant of a shape refusal at a
\* field, from what the author wrote there.
ShapeCode(value, segment, field) ==
    CASE segment # 0 /\ field = "role" /\ value = "unknown" -> "UnknownSegmentRole"
      [] segment # 0 /\ field = "role" /\ value = "absent" -> "MissingSegmentRole"
      [] segment # 0 /\ field = "style" /\ value = "unknown" -> "UnknownDeliveryStyle"
      [] segment # 0 /\ field = "style" /\ value = "absent" -> "MissingDeliveryStyle"
      [] segment # 0 /\ field = "review_status" /\ value = "unknown" -> "UnknownReviewStatus"
      [] segment # 0 /\ field = "review_status" /\ value = "absent" -> "MissingReviewStatus"
      [] segment = 0 /\ field = "content_hash" /\ value = "malformed" -> "MalformedSourceContentHash"
      [] OTHER -> "InvalidJson"

\* One object: its keys as they are read, then the first one that was left out.
ObjectRefusal(object, keys, segment) ==
    LET read == FirstKey(keys, LAMBDA key : StopsAt(object, key))
        omitted == FirstKey(keys, LAMBDA key : Omits(object, key))
        at == IF read # NoField THEN read ELSE omitted
    IN  IF at = NoField THEN Accepted ELSE Refusal(ShapeCode(object[at], segment, at), segment, at)

\* locate_shape_refusal: the document's keys, each segment in its place after
\* them, and the document's omissions at the end.
ShapeRefusal(lesson) ==
    LET read == FirstKey(DocumentKeys, LAMBDA key : StopsAt(lesson, key))
        segments == [i \in DOMAIN lesson.segments |-> ObjectRefusal(lesson.segments[i], SegmentKeys, i)]
        refused == {i \in DOMAIN segments : segments[i] # Accepted}
    IN  IF read = NoField /\ refused # {}
        THEN segments[Min(refused)]
        ELSE ObjectRefusal(lesson, DocumentKeys, 0)

\* validate_lesson_id and validate_segment_id.
IdChecks(value, missing, invalid) == <<<<value = "blank", missing>>, <<value = "unportable", invalid>>>>

\* check_provenance.
ProvenanceChecks(lesson) == <<
    <<lesson.learning_objectives = "many", "TooManyLearningObjectives">>,
    <<lesson.learning_objectives = "blank", "EmptyLearningObjective">>,
    <<lesson.learning_objectives = "long", "LearningObjectiveTooLong">>,
    <<lesson.content_hash # "no_source" /\ lesson.references = "many", "TooManyLessonReferences">>,
    <<lesson.content_hash # "no_source" /\ lesson.references = "blank", "EmptyLessonReference">>,
    <<lesson.content_hash # "no_source" /\ lesson.references = "long", "LessonReferenceTooLong">>>>

HeaderChecks(lesson) == <<
    <<VersionFails(lesson.schema_version), "UnsupportedSchema">>,
    <<lesson.schema = "v2", "UnexpectedSchemaLink">>>>

LanguageChecks(lesson) == <<<<lesson.language = "malformed", "MalformedLanguage">>>>

BoundChecks(lesson) == <<
    <<lesson.segments = <<>>, "MissingSegments">>,
    <<Len(lesson.segments) > LessonSegments, "TooManySegments">>,
    <<lesson.speakers = "blank_voice", "MissingVoiceProfile">>,
    <<lesson.speakers = "unportable_voice", "InvalidVoiceProfile">>>>

\* check_document.
DocumentChecks(lesson) ==
    HeaderChecks(lesson) \o IdChecks(lesson.lesson_id, "MissingLessonId", "InvalidLessonId")
    \o LanguageChecks(lesson) \o ProvenanceChecks(lesson) \o BoundChecks(lesson)

Declares(lesson, speaker) == speaker = "teacher" /\ lesson.speakers # "none"

RecallChecks(segment) == <<
    <<segment.role = "recall_prompt" /\ segment.pause_after_ms = "short", "RecallPromptWithoutResponseInterval">>,
    <<segment.role = "recall_prompt" /\ segment.pause_after_ms = "long", "RecallPromptResponseIntervalTooLong">>>>

\* A segment's fields, the first given the ids of the segments before it.
UniqueChecks(segment, seen) == <<<<segment.id \in seen, "DuplicateSegmentId">>>>

TextChecks(segment) == <<
    <<segment.spoken_text = "blank", "MissingSpokenText">>,
    <<segment.spoken_text = "long", "SpokenTextTooLong">>,
    <<segment.display_text = "blank", "MissingDisplayText">>,
    <<segment.display_text = "long", "DisplayTextTooLong">>>>

SourceChecks(segment) == <<
    <<segment.source_refs = "none" /\ segment.editorial = "false", "MissingSourceRefs">>,
    <<segment.source_refs = "many", "TooManySourceRefs">>,
    <<segment.source_refs = "blank", "EmptySourceRef">>,
    <<segment.source_refs = "long", "SourceRefTooLong">>>>

DeliveryChecks(lesson, segment) == <<
    <<segment.review_status # "approved", "UnapprovedSegment">>,
    <<segment.speaker = "blank", "MissingSpeaker">>,
    <<~Declares(lesson, segment.speaker), "UndeclaredSpeaker">>,
    <<segment.pause_after_ms = "excessive", "PauseOutOfRange">>>>

\* check_segment.
SegmentChecks(lesson, i) ==
    LET segment == lesson.segments[i]
        seen == {lesson.segments[j].id : j \in 1 .. i - 1}
    IN  IdChecks(segment.id, "MissingSegmentId", "InvalidSegmentId")
        \o UniqueChecks(segment, seen) \o TextChecks(segment) \o SourceChecks(segment)
        \o DeliveryChecks(lesson, segment) \o RecallChecks(segment)

\* check: the document's rules, then each segment's in turn.
Validate(lesson) ==
    LET document == Located(FirstFault(DocumentChecks(lesson)), 0)
        segment == [i \in DOMAIN lesson.segments |-> Located(FirstFault(SegmentChecks(lesson, i)), i)]
        refused == {i \in DOMAIN segment : segment[i] # Accepted}
    IN  IF document # Accepted \/ refused = {} THEN document ELSE segment[Min(refused)]

\* repeated_speaker: read from the bytes, because a map keeps one binding.
RepeatsSpeaker(lesson) == lesson.speakers = "repeated"

FromJson(lesson) ==
    CASE lesson.size = "oversized" -> Located("LessonJsonTooLarge", 0)
      [] lesson.size # "oversized" /\ DeclaredVersionFails(lesson) -> Located("UnsupportedSchema", 0)
      [] OTHER ->
            IF ShapeRefusal(lesson) # Accepted THEN ShapeRefusal(lesson)
            ELSE IF RepeatsSpeaker(lesson) THEN Located("DuplicateSpeaker", 0)
            ELSE Validate(lesson)

-----------------------------------------------------------------------------
\* Lessons an author can have written: a valid one with a change in up to two places.

ValidSegment(id) == [
    id |-> id, speaker |-> "teacher", role |-> "explanation", source_refs |-> "some",
    display_text |-> "text", spoken_text |-> "text", style |-> "calm",
    pause_after_ms |-> "response", review_status |-> "approved", editorial |-> "false"]

ValidLesson == [
    size |-> "fits", schema |-> "v3", schema_version |-> "3.1", lesson_id |-> "portable",
    title |-> "text", language |-> "tag", learning_objectives |-> "few", content_hash |-> "digest",
    references |-> "few", speakers |-> "teacher",
    segments |-> <<ValidSegment("a"), ValidSegment("b")>>]

ValuesAt(segment, field) == IF segment = 0 THEN DocumentValues[field] ELSE SegmentValues[field]

WithField(lesson, segment, field, value) ==
    IF segment = 0 THEN [lesson EXCEPT ![field] = value]
                   ELSE [lesson EXCEPT !.segments[segment][field] = value]

EditsOf(lesson) ==
    (UNION {{WithField(lesson, 0, field, v) : v \in DocumentValues[field]} : field \in DOMAIN DocumentValues})
    \cup (UNION {UNION {{WithField(lesson, i, field, v) : v \in SegmentValues[field]} :
                          field \in DOMAIN SegmentValues} : i \in DOMAIN lesson.segments})
    \cup {[lesson EXCEPT !.segments = <<>>],
          [lesson EXCEPT !.segments = Append(@, ValidSegment("c"))]}

\* No lesson has been written.
NoLesson == [size |-> "none"]

VARIABLE lesson

LessonInit == lesson \in EditsOf(ValidLesson)

\* The author makes a second change.
EditLesson == lesson \in EditsOf(ValidLesson) /\ lesson' \in EditsOf(lesson)

LessonSpec == LessonInit /\ [][EditLesson]_lesson

-----------------------------------------------------------------------------
\* The rules of ADR-0001 8.2, with no order: what a lesson that may be built is.
SegmentIsSound(l, s) ==
    /\ s.id \notin {"absent", "wrong", "blank", "unportable"} /\ s.speaker = "teacher" /\ l.speakers = "teacher"
    /\ s.role \in {"explanation", "recall_prompt"} /\ s.style = "calm"
    /\ s.source_refs = "some" \/ (s.source_refs = "none" /\ s.editorial = "true")
    /\ s.display_text = "text" /\ s.spoken_text = "text" /\ s.review_status = "approved"
    /\ s.pause_after_ms \in IF s.role = "recall_prompt" THEN {"response"} ELSE {"short", "response", "long"}

LessonIsSound(l) ==
    /\ l.size = "fits" /\ l.schema \in {"absent", "v3"} /\ l.schema_version \in {"3.0", "3.1"}
    /\ l.lesson_id = "portable" /\ l.title = "text" /\ l.language = "tag"
    /\ l.learning_objectives = "few" /\ l.content_hash \in {"no_source", "digest"}
    /\ l.content_hash = "digest" => l.references = "few"
    /\ l.speakers = "teacher" /\ Len(l.segments) \in 1 .. LessonSegments
    /\ \A i \in DOMAIN l.segments : SegmentIsSound(l, l.segments[i])
    /\ \A i, j \in DOMAIN l.segments : l.segments[i].id = l.segments[j].id => i = j

IsWrongAt(object, key) == StopsAt(object, key) \/ Omits(object, key)

\* Everything that is wrong with a lesson, in no order: from_json answers with the
\* one its checks meet first.
IsFaultOf(l, d) ==
    \/ l.size = "oversized" /\ d = Located("LessonJsonTooLarge", 0)
    \/ DeclaredVersionFails(l) /\ d = Located("UnsupportedSchema", 0)
    \/ \E k \in DOMAIN DocumentKeys :
          /\ IsWrongAt(l, DocumentKeys[k])
          /\ d = Refusal(ShapeCode(l[DocumentKeys[k]], 0, DocumentKeys[k]), 0, DocumentKeys[k])
    \/ \E i \in DOMAIN l.segments, k \in DOMAIN SegmentKeys :
          /\ IsWrongAt(l.segments[i], SegmentKeys[k])
          /\ d = Refusal(ShapeCode(l.segments[i][SegmentKeys[k]], i, SegmentKeys[k]), i, SegmentKeys[k])
    \/ RepeatsSpeaker(l) /\ d = Located("DuplicateSpeaker", 0)
    \/ Breaks(DocumentChecks(l), d.code) /\ d = Located(d.code, 0)
    \/ \E i \in DOMAIN l.segments : Breaks(SegmentChecks(l, i), d.code) /\ d = Located(d.code, i)

\* What may be written in place of a field: an id can be one no segment has.
Corrections(d) == ValuesAt(d.segment, d.field) \cup (IF d.field = "id" THEN {"new"} ELSE {})

\* A change of the field named, and of nothing else, that gets past the refusal: the
\* lesson is then accepted, or refused for what was wrong with it before and is asked
\* later.  The count of segments, and a speaker no binding exists for, are not one
\* field's to correct.
CorrectionExists(l, d) ==
    \/ d.field \in {NoField, "segments"}
    \/ d.code = "UndeclaredSpeaker" /\ l.speakers = "none"
    \/ \E v \in Corrections(d) :
          LET e == FromJson(WithField(l, d.segment, d.field, v))
          IN  e # d /\ (e = Accepted \/ IsFaultOf(l, e))

\* from_json accepts exactly the lessons that meet every rule, whatever fault the
\* order of its checks meets first, and the field its diagnostic names is one whose
\* correction lets the author on: no refusal sends them to a field that is not at
\* fault, or to one they can mend only by breaking another rule.
RefusalIsAtTheFault ==
    lesson # NoLesson =>
        LET d == FromJson(lesson)
        IN  /\ (d = Accepted) <=> LessonIsSound(lesson)
            /\ d # Accepted => CorrectionExists(lesson, d)
=============================================================================
