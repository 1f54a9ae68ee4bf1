--------------------------- MODULE MCDocumentText ---------------------------
\* Documents for DocumentText: paragraphs of one sentence that is a segment, of
\* one that is too long, and of three; pages of up to five events.
EXTENDS DocumentText

Paragraphs == {<<4>>, <<8>>, <<24>>, <<8, 8, 12>>, <<30>>}
SmallTexts == UNION {[1 .. n -> Paragraphs] : n \in 1 .. 4}
SmallPages == UNION {[1 .. n -> {"start", "end", "text"}] : n \in 0 .. 5}
OneText == {<<"text">>}
=============================================================================
