---------------------------- MODULE DocumentText ----------------------------
(***************************************************************************)
(* From a document to passages (services/document_text.py): which of a     *)
(* page's text is kept, how a text is cut into segments no passage is      *)
(* too small for, and how segments are packed into passages that overlap.  *)
(* A text is the lengths of its sentences; a segment has its length and    *)
(* its place in the document.                                              *)
(***************************************************************************)
EXTENDS Integers, Sequences, FiniteSets, Sums

CONSTANTS
    Texts,        \* the documents: paragraphs, each the lengths of its sentences
    Pages,        \* the pages: what HTMLParser makes of them, in order
    CharsPerToken,
    Cuts,         \* bound: where the last space before the limit may be; 0 for none
    ChunkTarget,  \* CHUNK_TARGET_TOKENS
    ChunkOverlap, \* CHUNK_OVERLAP_TOKENS
    MaxChunks     \* MAX_CHUNKS

\* _MAX_SEGMENT_TOKENS
MaxSegment == ChunkTarget - ChunkOverlap

\* Between two segments of a passage stands a blank line, between two sentences
\* of a paragraph a space.
BlankLine == 2
Space == 1

ASSUME TextAssumption ==
    /\ CharsPerToken \in Nat \ {0} /\ Cuts \subseteq Nat /\ ChunkOverlap \in Nat /\ MaxChunks \in Nat
    /\ ChunkTarget \in Nat /\ ChunkTarget > ChunkOverlap
    /\ Texts \subseteq Seq(Seq(Nat \ {0}) \ {<<>>})
    /\ Pages \subseteq Seq({"start", "end", "text"})

VARIABLES
    stage,     \* where ingestion is with the document
    page,      \* the page that is parsed
    parsed,    \* how many of its events were handled
    skipping,  \* skipped elements that are open
    kept,      \* the pieces of text kept, as their places in the page
    paragraphs,
    sentences, \* of the paragraph that is being split
    segments,  \* still to be packed
    made,      \* how many segments the text has given so far
    buffer,    \* the passage being filled
    chunks

pageVars == <<page, parsed, skipping, kept>>
textVars == <<stage, pageVars, paragraphs, sentences, segments, made, buffer, chunks>>

Segment == [at : Nat, size : Nat]

TextTypeOK ==
    /\ page \in Pages \cup {<<>>} /\ parsed \in 0 .. Len(page)
    /\ skipping \in Nat /\ kept \subseteq 1 .. Len(page)
    /\ stage \in {"parsing", "splitting", "packing", "done", "refused"}
    /\ paragraphs \in Seq(Seq(Nat)) /\ sentences \in Seq(Nat)
    /\ segments \in Seq(Segment) /\ made \in Nat
    /\ buffer \in Seq(Segment) /\ chunks \in Seq(Seq(Segment))

-----------------------------------------------------------------------------
\* An end tag of a skipped element; one without a start tag closes nothing.
Closed(depth) == IF depth = 0 THEN 0 ELSE depth - 1

\* _PageText, for one event: handle_starttag, handle_endtag, handle_data.
HandleEvent ==
    /\ stage = "parsing" /\ parsed < Len(page)
    /\ parsed' = parsed + 1
    /\ skipping' = CASE page[parsed + 1] = "start" -> skipping + 1
                     [] page[parsed + 1] = "end" -> Closed(skipping)
                     [] OTHER -> skipping
    /\ kept' = IF page[parsed + 1] = "text" /\ skipping = 0
               THEN kept \cup {parsed + 1} ELSE kept
    /\ UNCHANGED <<stage, page, paragraphs, sentences, segments, made, buffer, chunks>>

\* extract: a page without any text is refused; of another, some text is left.
Extract(text) ==
    /\ stage = "parsing" /\ parsed = Len(page)
    /\ IF kept = {} THEN stage' = "refused" /\ UNCHANGED paragraphs
       ELSE stage' = "splitting" /\ paragraphs' = text
    /\ page' = <<>> /\ parsed' = 0 /\ skipping' = 0 /\ kept' = {}
    /\ UNCHANGED <<sentences, segments, made, buffer, chunks>>

\* estimated_tokens, rounded up.
Tokens(chars) == (chars + CharsPerToken - 1) \div CharsPerToken

\* The length of what is joined with separators in between.
Joined(sizes, separator) ==
    SumOf(sizes) + (IF sizes = <<>> THEN 0 ELSE separator * (Len(sizes) - 1))

SizesOf(passage) == [i \in 1 .. Len(passage) |-> passage[i].size]

\* _joined_tokens
JoinedTokens(passage) == Tokens(Joined(SizesOf(passage), BlankLine))

Grown(size) ==
    /\ segments' = Append(segments, [at |-> made + 1, size |-> size])
    /\ made' = made + 1

-----------------------------------------------------------------------------
\* _segments: a paragraph that is small enough is a segment; another is split.
SplitParagraph ==
    /\ stage = "splitting" /\ sentences = <<>> /\ paragraphs # <<>>
    /\ LET whole == Joined(Head(paragraphs), Space) IN
       IF Tokens(whole) <= MaxSegment
       THEN Grown(whole) /\ UNCHANGED sentences
       ELSE sentences' = Head(paragraphs) /\ UNCHANGED <<segments, made>>
    /\ paragraphs' = Tail(paragraphs)
    /\ UNCHANGED <<stage, pageVars, buffer, chunks>>

\* _split_sentences: a sentence that is small enough.
SplitSentence ==
    /\ sentences # <<>> /\ Tokens(Head(sentences)) <= MaxSegment
    /\ Grown(Head(sentences))
    /\ sentences' = Tail(sentences)
    /\ UNCHANGED <<stage, pageVars, paragraphs, buffer, chunks>>

\* _hard_split: the longest piece that ends before a space, which goes with it, or,
\* without one, the longest piece there may be.
HardSplit(cut) ==
    /\ sentences # <<>> /\ Tokens(Head(sentences)) > MaxSegment
    /\ LET limit == MaxSegment * CharsPerToken
           long == Head(sentences)
           rest == IF cut = 0 THEN long - limit ELSE long - cut - Space
       IN /\ cut <= limit
          /\ Grown(IF cut = 0 THEN limit ELSE cut)
          /\ sentences' = (IF rest = 0 THEN <<>> ELSE <<rest>>) \o Tail(sentences)
    /\ UNCHANGED <<stage, pageVars, paragraphs, buffer, chunks>>

AllSplit ==
    /\ stage = "splitting" /\ paragraphs = <<>> /\ sentences = <<>>
    /\ stage' = "packing"
    /\ UNCHANGED <<pageVars, paragraphs, sentences, segments, made, buffer, chunks>>

\* _overlap_tail: the longest end of the passage whose segments fit the overlap.
OverlapTail(passage) ==
    LET size(i) == SumOf([j \in 1 .. Len(passage) - i + 1 |->
                             Tokens(passage[i + j - 1].size)])
        fits == {i \in 1 .. Len(passage) : size(i) <= ChunkOverlap}
    IN IF fits = {} THEN <<>>
       ELSE SubSeq(passage, CHOOSE i \in fits : \A j \in fits : i <= j, Len(passage))

\* A slip: the segment that does not fit is left behind with the passage.
SlipPack ==
    /\ stage = "packing" /\ segments # <<>>
    /\ IF buffer # <<>> /\ JoinedTokens(Append(buffer, Head(segments))) > ChunkTarget
       THEN /\ chunks' = Append(chunks, buffer)
            /\ buffer' = OverlapTail(buffer)
       ELSE buffer' = Append(buffer, Head(segments)) /\ UNCHANGED chunks
    /\ segments' = Tail(segments)
    /\ UNCHANGED <<stage, pageVars, paragraphs, sentences, made>>

\* chunk, for one segment: a passage it would overfill is closed, and it joins
\* what is carried over.
Pack ==
    /\ stage = "packing" /\ segments # <<>>
    /\ IF buffer # <<>> /\ JoinedTokens(Append(buffer, Head(segments))) > ChunkTarget
       THEN /\ chunks' = Append(chunks, buffer)
            /\ buffer' = Append(OverlapTail(buffer), Head(segments))
       ELSE buffer' = Append(buffer, Head(segments)) /\ UNCHANGED chunks
    /\ segments' = Tail(segments)
    /\ UNCHANGED <<stage, pageVars, paragraphs, sentences, made>>

\* ... and its end: the last passage, and the bound on their number.
LastChunk ==
    /\ stage = "packing" /\ segments = <<>>
    /\ chunks' = (IF buffer = <<>> THEN chunks ELSE Append(chunks, buffer))
    /\ buffer' = <<>>
    /\ stage' = IF Len(chunks') > MaxChunks THEN "refused" ELSE "done"
    /\ UNCHANGED <<pageVars, paragraphs, sentences, segments, made>>

-----------------------------------------------------------------------------
TextInit ==
    /\ page \in Pages /\ parsed = 0 /\ skipping = 0 /\ kept = {}
    /\ stage = "parsing" /\ paragraphs = <<>> /\ sentences = <<>> /\ segments = <<>> /\ made = 0
    /\ buffer = <<>> /\ chunks = <<>>

TextNext ==
    \/ HandleEvent \/ \E text \in Texts : Extract(text)
    \/ SplitParagraph \/ SplitSentence \/ AllSplit \/ Pack \/ LastChunk
    \/ \E cut \in Cuts : HardSplit(cut)

TextSpec == TextInit /\ [][TextNext]_textVars

-----------------------------------------------------------------------------
\* The tags that open and that close a skipped element in a stretch of the page.
Starts(from, to) == {j \in from .. to : page[j] = "start"}
Ends(from, to) == {j \in from .. to : page[j] = "end"}
Depth(from, to) == Cardinality(Starts(from, to)) - Cardinality(Ends(from, to))

\* A piece of text is kept exactly when every skipped element opened before it is
\* closed again: no stretch of the page that ends at it opens more than it closes.
PageTextKeepsTheRest ==
    \A i \in {j \in 1 .. parsed : page[j] = "text"} :
       i \in kept <=> \A from \in 1 .. i : Depth(from, i) <= 0

\* What is counted as open is the most that a stretch ending here opens.
SkippingIsTheDepth ==
    /\ kept \subseteq 1 .. parsed
    /\ \A from \in 1 .. parsed : Depth(from, parsed) <= skipping
    /\ skipping # 0 => \E from \in 1 .. parsed : Depth(from, parsed) = skipping

\* The place of the last part of a passage; passages are numbered from one.
End(passage) == IF passage = <<>> THEN 0 ELSE passage[Len(passage)].at

Before(i) == IF i = 1 THEN <<>> ELSE chunks[i - 1]

\* How many parts of a passage the one before it ends with, and the tokens of the
\* first parts of a passage.
Carried(before, passage) == End(before) + 1 - passage[1].at
TokensUpTo(passage, n) == SumOf([j \in 1 .. n |-> Tokens(passage[j].size)])

\* A passage is a stretch of the text without gaps.  It carries over an end of the
\* one before it, within the overlap, and goes on with the segment after it.
Continues(before, passage) ==
    LET old == Carried(before, passage) IN
    /\ passage # <<>>
    /\ \A j \in 1 .. Len(passage) : passage[j].at = passage[1].at + j - 1
    /\ old \in 0 .. Len(before) /\ old < Len(passage)
    /\ \A j \in 1 .. old : passage[j] = before[Len(before) - old + j]
    /\ TokensUpTo(passage, old) <= ChunkOverlap

\* It is over the target only with one segment behind what was carried over, and
\* by no more than the blank lines between them.
OverBySeparators(before, passage) ==
    \/ JoinedTokens(passage) <= ChunkTarget
    \/ /\ Carried(before, passage) = Len(passage) - 1
       /\ TokensUpTo(passage, Len(passage)) <= ChunkTarget

\* Every segment of the text is in a passage, in the order of the text.
NothingIsLost ==
    /\ \A i \in 1 .. Len(chunks) : Continues(Before(i), chunks[i])
    /\ stage \in {"done", "refused"} => End(Before(Len(chunks) + 1)) = made

\* No passage is over the target by more than separators.
OnlySeparatorsOverflow ==
    \A i \in 1 .. Len(chunks) : OverBySeparators(Before(i), chunks[i])

\* "A chunk never exceeds the target."
ChunksFitTheTarget == \A i \in 1 .. Len(chunks) : JoinedTokens(chunks[i]) <= ChunkTarget

\* What is still to be packed: segments that may stand alone, from the place where
\* the passage being filled ends.
RestFollows ==
    LET here == Before(Len(chunks) + 1) IN
    /\ \A k \in 1 .. Len(segments) :
          /\ segments[k].at = made - Len(segments) + k
          /\ Tokens(segments[k].size) <= MaxSegment
    /\ stage \in {"parsing", "splitting"} =>
          buffer = <<>> /\ chunks = <<>> /\ made = Len(segments)
    /\ stage = "parsing" => made = 0
    /\ buffer # <<>> =>
          /\ Continues(here, buffer) /\ OverBySeparators(here, buffer)
    /\ made - Len(segments) = IF buffer = <<>> THEN End(here) ELSE End(buffer)
    /\ stage = "packing" /\ buffer = <<>> => chunks = <<>>
    /\ sentences # <<>> => stage = "splitting"

\* From page to passages: what is to be kept is kept, all of it is in a passage,
\* and no passage is longer than the code can make it.
TextInv ==
    /\ TextTypeOK /\ PageTextKeepsTheRest /\ SkippingIsTheDepth
    /\ NothingIsLost /\ OnlySeparatorsOverflow /\ RestFollows
=============================================================================
