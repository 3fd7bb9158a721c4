------------------------------- MODULE Chunking -------------------------------
(***************************************************************************)
(* From the lines of a document to its chunks (services/ingestion.py).     *)
(* A word is a number that tells where it stands and a size in tokens; a   *)
(* paragraph, and a chunk, is a sequence of words.  Markers the program    *)
(* adds ("[Slide 3]", "[Notes]") are words numbered 0.                     *)
(***************************************************************************)
EXTENDS Naturals, Sequences, SequencesExt

CONSTANTS
    MaxTokens,     \* chunk_max_tokens
    Overlaps,      \* values of chunk_overlap_tokens
    LineShapes,    \* a line of a text: its kind and the sizes of its words
    SlideShapes,   \* a slide: title, body and notes as sizes of words
    MaxLines       \* lines or slides of a document

VARIABLES document, overlap, chunks

chunking == <<document, overlap, chunks>>

Marker == [at |-> 0, size |-> 1]
Tokens(words) == FoldLeft(LAMBDA n, w : n + w.size, 0, words)
Budget(overlap_tokens) == IF overlap_tokens < MaxTokens \div 2 THEN overlap_tokens ELSE MaxTokens \div 2

-----------------------------------------------------------------------------
(* Packing paragraphs into pieces.                                          *)

\* _split_long_paragraph: runs of words; a word too long for a run stands alone.
SplitLong(paragraph) ==
    LET step(acc, w) ==
            IF acc.run # <<>> /\ Tokens(acc.run) + w.size > MaxTokens
            THEN [pieces |-> Append(acc.pieces, acc.run), run |-> <<w>>]
            ELSE [acc EXCEPT !.run = Append(@, w)]
        end == FoldLeft(step, [pieces |-> <<>>, run |-> <<>>], paragraph)
    IN IF end.run = <<>> THEN end.pieces ELSE Append(end.pieces, end.run)

\* The longest run of trailing paragraphs that fits the budget.
OverlapTail(parts, budget) ==
    LET fits == {k \in 0..Len(parts) : Tokens(FlattenSeq(SubSeq(parts, Len(parts) - k + 1, Len(parts)))) <= budget}
        most == CHOOSE k \in fits : \A j \in fits : j <= k
    IN SubSeq(parts, Len(parts) - most + 1, Len(parts))

Flushed(acc) == IF acc.parts = <<>> THEN acc.pieces ELSE Append(acc.pieces, FlattenSeq(acc.parts))

\* Mutant: the buffer is looked at before the paragraph is added to it.
PackLate(acc, paragraph, budget) ==
    IF Tokens(paragraph) > MaxTokens
    THEN [pieces |-> Flushed(acc) \o SplitLong(paragraph), parts |-> <<>>]
    ELSE IF acc.parts # <<>> /\ Tokens(FlattenSeq(acc.parts)) > MaxTokens
    THEN [pieces |-> Flushed(acc), parts |-> Append(OverlapTail(acc.parts, budget), paragraph)]
    ELSE [acc EXCEPT !.parts = Append(@, paragraph)]

\* Mutant: an oversized paragraph overtakes what is buffered.
PackUnflushed(acc, paragraph, budget) ==
    IF Tokens(paragraph) > MaxTokens
    THEN [acc EXCEPT !.pieces = @ \o SplitLong(paragraph)]
    ELSE IF acc.parts # <<>> /\ Tokens(FlattenSeq(acc.parts)) + Tokens(paragraph) > MaxTokens
    THEN [pieces |-> Flushed(acc), parts |-> Append(OverlapTail(acc.parts, budget), paragraph)]
    ELSE [acc EXCEPT !.parts = Append(@, paragraph)]

\* The body of the loop of _pack_paragraphs.
PackParagraph(acc, paragraph, budget) ==
    IF Tokens(paragraph) > MaxTokens
    THEN [pieces |-> Flushed(acc) \o SplitLong(paragraph), parts |-> <<>>]
    ELSE IF acc.parts # <<>> /\ Tokens(FlattenSeq(acc.parts)) + Tokens(paragraph) > MaxTokens
    THEN [pieces |-> Flushed(acc), parts |-> Append(OverlapTail(acc.parts, budget), paragraph)]
    ELSE [acc EXCEPT !.parts = Append(@, paragraph)]

Pack(paragraphs, budget) ==
    LET step(acc, paragraph) == PackParagraph(acc, paragraph, budget)
    IN Flushed(FoldLeft(step, [pieces |-> <<>>, parts |-> <<>>], paragraphs))

-----------------------------------------------------------------------------
(* Sections.                                                                *)

\* Runs of lines between blank ones, each one paragraph (_split_into_paragraphs).
Paragraphs(lines) ==
    LET step(acc, line) ==
            IF line.kind = "blank" \/ acc = <<>>
            THEN IF line.kind = "blank" THEN Append(acc, <<>>) ELSE <<line.words>>
            ELSE [acc EXCEPT ![Len(acc)] = @ \o line.words]
    IN SelectSeq(FoldLeft(step, <<>>, lines), LAMBDA p : p # <<>>)

\* parse_docx and parse_markdown: a section ends where a heading stands, if it
\* has a body; the text before the first heading is a section.  A docx drops
\* blank lines, so that the section is one paragraph.
ParseLines(lines, format) ==
    LET kept == SelectSeq(lines, LAMBDA l : format = "markdown" \/ l.kind # "blank")
        step(acc, line) ==
            IF line.kind # "heading" THEN [acc EXCEPT !.body = Append(@, line)]
            ELSE [sections |-> IF acc.body = <<>> THEN acc.sections ELSE Append(acc.sections, acc.body),
                  body |-> <<>>]
        end == FoldLeft(step, [sections |-> <<>>, body |-> <<>>], kept)
        all == IF Paragraphs(end.body) = <<>> THEN end.sections ELSE Append(end.sections, end.body)
    IN [i \in 1..Len(all) |-> Paragraphs(all[i])]

\* Consecutive slides with one title continue a topic; one without starts anew.
TopicUnits(slides) ==
    LET unit[i \in 1..Len(slides)] ==
            IF i = 1 THEN 0
            ELSE IF slides[i].title # "" /\ slides[i].title = slides[i-1].title THEN unit[i-1] ELSE unit[i-1] + 1
    IN unit

Chunk(words, section, role, part, parts, unit) ==
    [words |-> words, section |-> section, role |-> role, part |-> part, parts |-> parts, unit |-> unit]
Emit(pieces, section, role, unit) ==
    [i \in 1..Len(pieces) |-> Chunk(pieces[i], section, role, i - 1, Len(pieces), unit)]

\* _chunk_prose: the sections one after the other; nothing is carried across.
ChunkProse(sections, budget) ==
    FlattenSeq([s \in 1..Len(sections) |->
        LET pieces == Pack(sections[s], budget)
        IN [i \in 1..Len(pieces) |-> Chunk(pieces[i], s, "body", 0, 1, 0)]])

\* _chunk_deck: the body of a slide after its marker, then its notes; a slide
\* with neither title, body nor notes is dropped when it is parsed.
ChunkDeck(slides, budget) ==
    LET kept == {s \in 1..Len(slides) : slides[s].title # "" \/ slides[s].body # <<>> \/ slides[s].notes # <<>>}
        order == SetToSortSeq(kept, LAMBDA a, b : a < b)
        deck == [i \in 1..Len(order) |-> slides[order[i]]]
        units == TopicUnits(deck)
        body(i) == IF deck[i].title = "" /\ deck[i].body = <<>> THEN <<>>
                   ELSE Pack(SelectSeq(<<<<Marker>>, deck[i].body>>, LAMBDA p : p # <<>>), budget)
        notes(i) == IF deck[i].notes = <<>> THEN <<>> ELSE Pack(<<<<Marker>> \o deck[i].notes>>, budget)
    IN FlattenSeq([i \in 1..Len(deck) |->
           Emit(body(i), order[i], "body", units[i]) \o Emit(notes(i), order[i], "notes", units[i])])

\* chunk_document: the overlap is clamped, the category picks the chunker.
ChunkDocument(d, overlap_tokens) ==
    IF d.format = "pptx" THEN ChunkDeck(d.parts, Budget(overlap_tokens))
    ELSE ChunkProse(ParseLines(d.parts, d.format), Budget(overlap_tokens))

-----------------------------------------------------------------------------
(* A document is given by shapes; its words are numbered as they stand.     *)

Number(shapes, sizes(_)) ==
    LET before(i) == FoldLeft(LAMBDA n, s : n + Len(sizes(s)), 0, SubSeq(shapes, 1, i - 1))
    IN [i \in 1..Len(shapes) |->
            [k \in 1..Len(sizes(shapes[i])) |-> [at |-> before(i) + k, size |-> sizes(shapes[i])[k]]]]

TextOf(shapes) ==
    LET words == Number(shapes, LAMBDA s : s.sizes)
    IN [i \in 1..Len(shapes) |-> [kind |-> shapes[i].kind, words |-> words[i]]]

DeckOf(shapes) ==
    LET words == Number(shapes, LAMBDA s : s.body \o s.notes)
    IN [i \in 1..Len(shapes) |->
            [title |-> shapes[i].title,
             body |-> SubSeq(words[i], 1, Len(shapes[i].body)),
             notes |-> SubSeq(words[i], Len(shapes[i].body) + 1, Len(words[i]))]]

Empty == [format |-> "none", parts |-> <<>>]
ChunkingInit == document = Empty /\ overlap = 0 /\ chunks = <<>>

Chunked(d) ==
    \E o \in Overlaps : document' = d /\ overlap' = o /\ chunks' = ChunkDocument(d, o)

ChunkText ==
    \E n \in 1..MaxLines, format \in {"docx", "markdown"} : \E shapes \in [1..n -> LineShapes] :
        Chunked([format |-> format, parts |-> TextOf(shapes)])

ChunkSlides ==
    \E n \in 1..MaxLines : \E shapes \in [1..n -> SlideShapes] :
        Chunked([format |-> "pptx", parts |-> DeckOf(shapes)])

ChunkingNext == document = Empty /\ (ChunkText \/ ChunkSlides)

-----------------------------------------------------------------------------
\* The words of the document that are not headings, as they stand.
BodyWords(d) ==
    FlattenSeq([i \in 1..Len(d.parts) |->
        IF d.format = "pptx" THEN d.parts[i].body \o d.parts[i].notes
        ELSE IF d.parts[i].kind = "text" THEN d.parts[i].words ELSE <<>>])

\* The words of the chunks, markers and repetitions left out.
NewWords ==
    LET step(acc, w) == IF w.at = 0 \/ w.at \in {acc[i].at : i \in 1..Len(acc)} THEN acc ELSE Append(acc, w)
    IN FoldLeft(step, <<>>, FlattenSeq([c \in 1..Len(chunks) |-> chunks[c].words]))

\* Chunks hold every word of the document once and in its order, apart from what
\* an overlap repeats, and never words of two slides.
ChunksCoverDocument ==
    /\ NewWords = BodyWords(document)
    /\ overlap = 0 => Tokens(FlattenSeq([c \in 1..Len(chunks) |->
                          SelectSeq(chunks[c].words, LAMBDA w : w.at # 0)])) = Tokens(NewWords)
    /\ document.format = "pptx" => \A c \in 1..Len(chunks) : \A w \in ToSet(chunks[c].words) :
           w.at # 0 => w \in ToSet(document.parts[chunks[c].section].body \o document.parts[chunks[c].section].notes)

\* A chunk is within chunk_max_tokens, a single longer word and what an overlap
\* adds apart.
ChunksFit ==
    \A c \in 1..Len(chunks) : Len(chunks[c].words) = 1 \/ Tokens(chunks[c].words) <= MaxTokens + Budget(overlap)

(* Cutting a document into chunks loses, repeats and reorders no word, and  *)
(* no chunk grows past its limit (ingestion.py:699, :835).                  *)
ChunksSound == ChunksCoverDocument /\ ChunksFit
=============================================================================
