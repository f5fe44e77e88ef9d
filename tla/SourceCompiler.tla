--------------------------- MODULE SourceCompiler ---------------------------
(***************************************************************************)
(* From a Markdown source to a draft lesson (core/markdown.rs, authoring.rs *)
(* and the CLI's lesson commands).  A source is the sequence of events      *)
(* pulldown-cmark reports for it.  A run of text is known by the place of   *)
(* its event, so that a text is a sequence of places; 0 is a space the      *)
(* builder adds.                                                            *)
(***************************************************************************)
EXTENDS LessonDocument, SequencesExt

CONSTANT SourceBlocks  \* MAX_SOURCE_BLOCKS

Event(do, tag) == <<[do |-> do, tag |-> tag]>>
S(tag) == Event("start", tag)
E(tag) == Event("end", tag)
Text == Event("text", "")
Code == Event("code", "")
Break == Event("break", "")
Unsupported == Event("unsupported", "")
Wrap(tag, events) == S(tag) \o events \o E(tag)

-----------------------------------------------------------------------------
\* BlockBuilder.  "none" stands for no open block, cell or link.
NoBlock == [kind |-> "none", text |-> <<>>, start |-> 0]
NoText == <<-1>>

EmptyBuilder == [
    open |-> NoBlock, header |-> <<>>, cells |-> <<>>, cell |-> NoText,
    link |-> NoBlock, blocks |-> {}, outcome |-> "ok"]

Block(kind, text, start, end) == [kind |-> kind, text |-> text, start |-> start, end |-> end]

Blank(text) == \A i \in DOMAIN text : text[i] = 0

BlockTags == {"heading", "paragraph", "item", "quotation", "code", "pronunciation", "table"}

\* The tag whose end closes a block: both fences end alike.
ClosesOn(kind) == IF kind = "pronunciation" THEN "code" ELSE kind

\* open: the outermost block wins.
OpenBlock(b, kind, i) ==
    IF b.open # NoBlock THEN b ELSE [b EXCEPT !.open = [kind |-> kind, text |-> <<>>, start |-> i]]

\* Mutant: the end of any block closes the one that is open.
CloseAnyBlock(b, tag, i) ==
    IF b.open = NoBlock THEN b
    ELSE [b EXCEPT !.open = NoBlock,
                   !.blocks = @ \cup {Block(b.open.kind, b.open.text, b.open.start, i)}]

\* close: only the tag that opened it.
CloseBlock(b, tag, i) ==
    IF b.open = NoBlock \/ ClosesOn(b.open.kind) # tag THEN b
    ELSE [b EXCEPT !.open = NoBlock,
                   !.blocks = @ \cup {Block(b.open.kind, b.open.text, b.open.start, i)}]

AppendText(b, place) ==
    LET reached == IF b.cell # NoText THEN [b EXCEPT !.cell = Append(@, place)]
                   ELSE IF b.open # NoBlock THEN [b EXCEPT !.open.text = Append(@, place)]
                   ELSE b
    IN  IF b.link # NoBlock THEN [reached EXCEPT !.link.text = Append(@, place)] ELSE reached

\* Event::Code is prose of the block it is in and a block of its own.
AppendCode(b, i) ==
    LET read == AppendText(b, i)
    IN  [read EXCEPT !.blocks = @ \cup {Block("inline_code", <<i>>, i, i)}]

\* start.
Start(b, tag, i) ==
    CASE tag \in BlockTags \ {"table"} -> OpenBlock(b, tag, i)
      [] tag = "table" -> OpenBlock([b EXCEPT !.header = <<>>], tag, i)
      [] tag \in {"head", "row"} -> [b EXCEPT !.cells = <<>>]
      [] tag = "cell" -> [b EXCEPT !.cell = <<>>]
      [] tag = "link" -> [b EXCEPT !.link = [kind |-> "link", text |-> <<>>, start |-> i]]

HasBlank(cells) == \E i \in DOMAIN cells : Blank(cells[i])

\* append_table_row: each cell after the column that names it.
AppendRow(b) ==
    LET row == FlattenSeq([i \in 1 .. Len(b.header) |-> b.header[i] \o b.cells[i]])
        space == IF b.open.text = <<>> THEN <<>> ELSE <<0>>
    IN  IF b.open = NoBlock THEN b ELSE [b EXCEPT !.open.text = @ \o space \o row]

\* end.
End(b, tag, i) ==
    CASE tag \in BlockTags -> CloseBlock(b, tag, i)
      [] tag = "cell" -> [b EXCEPT !.cells = Append(@, b.cell), !.cell = NoText]
      [] tag = "head" -> [b EXCEPT !.header = b.cells, !.cells = <<>>,
                                   !.outcome = IF HasBlank(b.cells) THEN "EmptyTableCell" ELSE @]
      [] tag = "row" -> IF HasBlank(b.cells) THEN [b EXCEPT !.outcome = "EmptyTableCell"] ELSE AppendRow(b)
      [] tag = "link" -> [b EXCEPT !.blocks = @ \cup {Block("link", b.link.text, b.link.start, i)},
                                   !.link = NoBlock]

\* apply.
ApplyMarkdown(b, event, i) ==
    CASE event.do = "start" -> Start(b, event.tag, i)
      [] event.do = "end" -> End(b, event.tag, i)
      [] event.do = "text" -> AppendText(b, i)
      [] event.do = "code" -> AppendCode(b, i)
      [] event.do = "break" -> IF b.open = NoBlock THEN b ELSE [b EXCEPT !.open.text = Append(@, 0)]
      [] event.do = "unsupported" -> [b EXCEPT !.outcome = "UnsupportedStructure"]

\* parse_source's ceiling after each event.
WithinCeiling(b) ==
    IF b.outcome = "ok" /\ Cardinality(b.blocks) > SourceBlocks
    THEN [b EXCEPT !.outcome = "TooManySourceBlocks"] ELSE b

\* parse_source: the first refusal ends it; blocks in the order they start, the
\* longer one first.
StartsBefore(x, y) == x.start < y.start \/ (x.start = y.start /\ x.end > y.end)
InOrder(b) == [outcome |-> b.outcome, blocks |-> SetToSortSeq(b.blocks, StartsBefore)]
ParseSource(events) ==
    InOrder(FoldLeft(LAMBDA b, i : IF b.outcome # "ok" THEN b ELSE WithinCeiling(ApplyMarkdown(b, events[i], i)),
                     EmptyBuilder, [i \in DOMAIN events |-> i]))

IsSpoken(kind) == kind \in {"paragraph", "item", "quotation", "table"}

\* compile_lesson: one segment per prose block, which it refers to.
SegmentsOf(parsed) ==
    LET spoken == SelectSeq([i \in DOMAIN parsed.blocks |-> [block |-> i, kind |-> parsed.blocks[i].kind]],
                            LAMBDA b : IsSpoken(b.kind))
        headings == {i \in DOMAIN parsed.blocks : parsed.blocks[i].kind = "heading"}
    IN  [outcome |-> FirstFault(<<<<parsed.outcome # "ok", parsed.outcome>>,
                                  <<headings = {}, "NoTitleHeading">>,
                                  <<spoken = <<>>, "NoProseToSpeak">>>>),
         blocks |-> parsed.blocks,
         segments |-> [i \in DOMAIN spoken |->
                         [source_ref |-> spoken[i].block, text |-> parsed.blocks[spoken[i].block].text]]]
CompileLesson(events) == SegmentsOf(ParseSource(events))

-----------------------------------------------------------------------------
\* The lesson commands.

SegmentIds == <<"a", "b", "c", "d", "e", "f">>

\* Mutant: what the compiler drafts are recall prompts.
DraftPrompts(compiled, declared, speaker) == [
    ValidLesson EXCEPT
        !.speakers = IF declared = {} THEN "none" ELSE "teacher",
        !.segments = [i \in DOMAIN compiled.segments |->
            [ValidSegment(SegmentIds[i]) EXCEPT
                !.role = "recall_prompt",
                !.speaker = speaker, !.review_status = "draft", !.pause_after_ms = "short"]]]

\* The draft document: every segment a draft, spoken by the chosen speaker.
DraftLesson(compiled, declared, speaker) == [
    ValidLesson EXCEPT
        !.speakers = IF declared = {} THEN "none" ELSE "teacher",
        !.segments = [i \in DOMAIN compiled.segments |->
            [ValidSegment(SegmentIds[i]) EXCEPT
                !.speaker = speaker, !.review_status = "draft", !.pause_after_ms = "short",
                !.display_text = IF Blank(compiled.segments[i].text) THEN "blank" ELSE "text",
                !.spoken_text = IF Blank(compiled.segments[i].text) THEN "blank" ELSE "text"]]]

\* scaffold: an explanation, a recall prompt and its answer, all editorial.
ScaffoldLesson ==
    LET own(id, role, pause) == [ValidSegment(id) EXCEPT
            !.role = role, !.pause_after_ms = pause, !.source_refs = "none", !.editorial = "true"]
    IN  [ValidLesson EXCEPT
            !.content_hash = "no_source",
            !.segments = <<own("a", "explanation", "short"), own("b", "recall_prompt", "response"),
                           own("c", "explanation", "short")>>]

VARIABLES source,   \* the events of the Markdown source
          request,  \* the speakers given to the command, and the one that speaks
          told      \* what the last command answered

authorVars == <<lesson, source, request, told>>

Speakers == ToSet(request.speakers)

\* compile_lesson_source: a name given twice, and a speaker nobody chose.
RequestFault == FirstFault(<<
    <<Len(request.speakers) # Cardinality(Speakers), "SpeakerDeclaredTwice">>,
    <<request.voice = "none" /\ Cardinality(Speakers) # 1, "SpeakerNotChosen">>>>)

ChosenSpeaker == IF request.voice # "none" THEN request.voice ELSE CHOOSE s \in Speakers : TRUE

\* compile_source: the draft is validated before it is written; that it is not yet
\* approved is the one refusal it may meet.
DraftFault(draft) ==
    LET d == FromJson(draft) IN IF d.code = "UnapprovedSegment" THEN "ok" ELSE d.code

\* write_bytes_noreplace.
Publish(document) ==
    IF lesson = NoLesson THEN lesson' = document /\ told' = "ok"
                         ELSE told' = "DestinationExists" /\ UNCHANGED lesson

Answer(fault, document) ==
    IF fault = "ok" THEN Publish(document) ELSE told' = fault /\ UNCHANGED lesson

CompileCommand ==
    /\ \E compiled \in {CompileLesson(source)} :
          IF RequestFault # "ok" THEN told' = RequestFault /\ UNCHANGED lesson
          ELSE IF compiled.outcome # "ok" THEN told' = compiled.outcome /\ UNCHANGED lesson
          ELSE \E draft \in {DraftLesson(compiled, Speakers, ChosenSpeaker)} : Answer(DraftFault(draft), draft)
    /\ UNCHANGED <<source, request>>

NewCommand ==
    /\ Answer(FromJson(ScaffoldLesson).code, ScaffoldLesson)
    /\ UNCHANGED <<source, request>>

ValidateCommand ==
    /\ lesson # NoLesson
    /\ told' = FromJson(lesson).code
    /\ UNCHANGED <<lesson, source, request>>

\* The author approves the first draft segment that is left.
ApproveSegment ==
    /\ lesson # NoLesson
    /\ \E i \in DOMAIN lesson.segments :
          /\ lesson.segments[i].review_status = "draft"
          /\ \A j \in 1 .. i - 1 : lesson.segments[j].review_status # "draft"
          /\ lesson' = WithField(lesson, i, "review_status", "approved")
    /\ told' = "edited"
    /\ UNCHANGED <<source, request>>

AuthorNext == told # "nothing" /\ (CompileCommand \/ NewCommand \/ ValidateCommand \/ ApproveSegment)

-----------------------------------------------------------------------------
\* SourceTexts.  pulldown-cmark (external) reports the text of a tight list item
\* without a paragraph around it; such a text follows the start of the item or a
\* block that no paragraph continues.

Sentence == {Text, Text \o Break \o Code, Wrap("link", Text)}
Paragraph == {Wrap("paragraph", sentence) : sentence \in Sentence}
Fence == Wrap("code", Text)
Heading == Wrap("heading", Text)
TightParts == {Text, Fence, Heading, Wrap("item", Text)}
LooseParts == {Wrap("paragraph", Text), Fence, Wrap("item", Wrap("paragraph", Text)),
               Wrap("quotation", Wrap("paragraph", Text))}

Sequences(parts, longest) == UNION {[1 .. n -> parts] : n \in 0 .. longest}

TightContents == {parts \in Sequences(TightParts, 4) :
    \A i \in 2 .. Len(parts) : parts[i] = Text => parts[i - 1] \in {Fence, Heading}}

Row(tag, cells) == Wrap(tag, FlattenSeq([i \in DOMAIN cells |-> Wrap("cell", cells[i])]))
Tables == UNION {
    {Wrap("table", Row("head", head) \o FlattenSeq([i \in DOMAIN rows |-> Row("row", rows[i])])) :
        head \in [1 .. columns -> {<<>>, Text}],
        rows \in Sequences([1 .. columns -> {<<>>, Text}], 2)} : columns \in 1 .. 2}

TopLevel ==
    Paragraph \cup Tables \cup {Fence, Heading, Wrap("pronunciation", Text), Unsupported}
    \cup {Wrap("item", FlattenSeq(parts)) : parts \in TightContents \cup Sequences(LooseParts, 2)}
    \cup {Wrap("quotation", FlattenSeq(parts)) : parts \in Sequences(LooseParts, 2)}

Titled(blocks) == {Heading \o block : block \in blocks}

SourceTexts ==
    TopLevel \cup Titled(TopLevel)
    \cup {block \o after : block \in Titled(TopLevel), after \in Paragraph \cup {Wrap("item", <<>>)}}

OneTeacher == [speakers |-> <<"teacher">>, voice |-> "none"]
Requests == [speakers : {<<>>, <<"teacher">>, <<"teacher", "teacher">>}, voice : {"none", "teacher", "guest"}]

\* A source to compile, and an author at work on a few of them.
SourceInit == source \in SourceTexts /\ request = OneTeacher /\ lesson = NoLesson /\ told = "nothing"

AuthorInit ==
    /\ source \in Paragraph \cup Titled({Fence, Wrap("item", <<>>)}) \cup
          {Heading \o block \o after : block \in Paragraph, after \in {Wrap("item", <<>>), Fence}}
    /\ request \in Requests
    /\ lesson = NoLesson /\ told = "author"

-----------------------------------------------------------------------------
\* The place a block or a cell that starts at i ends.
EndOf(i) == Min({k \in i .. Len(source) :
    Cardinality({j \in i .. k : source[j].do = "start"}) = Cardinality({j \in i .. k : source[j].do = "end"})})

Around(i) == {j \in 1 .. i - 1 :
    source[j].do = "start" /\ source[j].tag \in BlockTags \cup {"head", "cell"} /\ EndOf(j) > i}

Texts == {i \in DOMAIN source : source[i].do \in {"text", "code"}}
InHeader(i) == \E j \in Around(i) : source[j].tag = "head"
Prose == {i \in Texts : source[Max(Around(i))].tag \in {"paragraph", "item", "quotation", "cell"}}
NotProse == {i \in Texts : source[Min(Around(i))].tag \in {"heading", "code", "pronunciation"}}

\* A text directly in a list item, after the end of a list nested in it.
AfterNestedList(i) ==
    /\ \E item \in Around(i) : /\ Around(i) = {item} /\ source[item].tag = "item"
                               /\ \E j \in item + 1 .. i - 1 : source[j] = E("item")[1]

Rows(i) == LET table == CHOOSE j \in Around(i) : source[j].tag = "table"
           IN  Cardinality({j \in table .. EndOf(table) : source[j] = S("row")[1]})

Occurrences(segments, i) ==
    Cardinality({<<s, p>> \in UNION {{<<n, p>> : p \in DOMAIN segments[n].text} : n \in DOMAIN segments} :
                    segments[s].text[p] = i})

\* What the segments say, one after another, but for the names of columns.
SpokenTexts(segments) ==
    SelectSeq(FlattenSeq([s \in DOMAIN segments |-> segments[s].text]), LAMBDA i : i # 0 /\ ~InHeader(i))

\* Every text of prose is in exactly one segment, once (a column's name once for
\* each row), in the order of the source and under the block the segment refers to,
\* and a title, a code block or a directive of the document's top level is in none:
\* what BlockBuilder keeps, appends and closes loses and repeats nothing, whatever
\* nests in what.  A text that stands after a nested list in a tight item is the
\* exception of run lost_prose.
ProseIsSpokenOnce ==
    \A compiled \in {CompileLesson(source)} : told = "nothing" /\ compiled.outcome = "ok" =>
        /\ \A i \in Prose : AfterNestedList(i) \/
                Occurrences(compiled.segments, i) = IF InHeader(i) THEN Rows(i) ELSE 1
        /\ \A i \in NotProse : Occurrences(compiled.segments, i) = 0
        /\ \A spoken \in {SpokenTexts(compiled.segments)} :
              \A i \in 2 .. Len(spoken) : spoken[i - 1] < spoken[i]
        /\ \A s \in ToSet(compiled.segments) : \A i \in ToSet(s.text) \ {0} :
              compiled.blocks[s.source_ref].start <= i /\ i <= compiled.blocks[s.source_ref].end

\* markdown.rs:403 says that nothing is lost outside a block, because every run of
\* prose is in a paragraph: every text of prose reaches a segment.
NoProseIsLost ==
    \A compiled \in {CompileLesson(source)} :
        told = "nothing" /\ compiled.outcome = "ok" =>
            \A i \in Prose : Occurrences(compiled.segments, i) > 0 \/ (InHeader(i) /\ Rows(i) = 0)

\* A lesson the commands wrote is accepted once its author has approved every
\* segment: the compiler's request and blocks meet the other rules from_json asks.
\* The two faults compile_source cannot see behind the first draft segment are a
\* blank text in a later one and a speaker nobody declared.
ApprovedDraftIsALesson ==
    told # "nothing" /\ lesson # NoLesson /\ (\A i \in DOMAIN lesson.segments : lesson.segments[i].review_status = "approved")
        => FromJson(lesson).code \in {"ok", "MissingSpokenText", "UndeclaredSpeaker"}
=============================================================================
