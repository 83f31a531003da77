-------------------------- MODULE DocumentElements --------------------------
(***************************************************************************)
(* The elements of a parsed document.  A parser's candidates are validated *)
(* one constructor after the other; the comparison symbols of an element   *)
(* that was accepted are extracted by a scan of each of its texts.  A text *)
(* is a sequence of characters, of which only the comparison symbols and   *)
(* blanks are told apart; absent values are None.                          *)
(***************************************************************************)
EXTENDS Integers, Sequences, FiniteSets

CONSTANTS
    PageCoord,   \* coordinates, sizes and indices that a parser may report
    GridCoord,   \* rows and columns that it may report
    Score,       \* its confidences, in units of 1 / Full
    CellScore,   \* those of cells
    Full,        \* the confidence 1.0
    Text,        \* its texts
    TableText,   \* those of the titles and cells of tables
    CellId,      \* its identifiers of cells
    MaxCells,    \* bound on the cells of a table
    None

Character == {">", "<", "=", "ne", "ge", "le", "x", " "}

\* What is assumed of the constants.
ElementAssumption ==
    /\ PageCoord \cup GridCoord \subseteq Int /\ Score \cup CellScore \subseteq Int
    /\ Full \in Nat \ {0} /\ MaxCells \in Nat
    /\ None \notin Text \cup TableText /\ None \notin CellId \cup Score
    /\ Text \cup TableText \subseteq Seq(Character)

VARIABLES
    stage,       \* the constructor that runs next, "scan", "done" or "rejected"
    box,         \* the BoundingBox, once it was accepted
    position,    \* the PagePosition, once it was accepted
    element,     \* the element that is built
    source,      \* the source that is scanned
    offset,      \* where the scan is in it
    symbols      \* the matches found so far

vars == <<stage, box, position, element, source, offset, symbols>>

\* _SYMBOL_OPERATORS
Operator ==
    [g \in {<<">">>, <<"<">>, <<">", "=">>, <<"<", "=">>, <<"ge">>, <<"le">>, <<"=">>, <<"ne">>} |->
        CASE g = <<">">> -> "GT" [] g = <<"<">> -> "LT" [] g = <<"=">> -> "EQ" [] g = <<"ne">> -> "NE"
          [] g \in {<<">", "=">>, <<"ge">>} -> "GE"
          [] g \in {<<"<", "=">>, <<"le">>} -> "LE"]

Blank(text) == \A i \in DOMAIN text : text[i] = " "
OptionalText(t) == t = None \/ ~Blank(t)
ValidConfidence(v) == v \in 0 .. Full

-----------------------------------------------------------------------------
(* Validation *)

\* BoundingBox
ValidBox(b) == b.x1 >= 0 /\ b.y1 >= 0 /\ b.x2 > b.x1 /\ b.y2 > b.y1

\* PagePosition; block identifiers, bounded in the same way, are left out.
ValidPosition(p) ==
    /\ p.index >= 0 /\ p.width >= 1 /\ p.height >= 1
    /\ p.box.x2 <= p.width /\ p.box.y2 <= p.height
    /\ p.order = None \/ p.order >= 0

\* PagePosition.normalized_bbox, with fractions as pairs.
Normalized(p) ==
    [x1 |-> <<p.box.x1, p.width>>, y1 |-> <<p.box.y1, p.height>>,
     x2 |-> <<p.box.x2, p.width>>, y2 |-> <<p.box.y2, p.height>>]

Less(f, g) == f[1] * g[2] < g[1] * f[2]

\* NormalizedBoundingBox
ValidNormalized(b) ==
    /\ \A f \in {b.x1, b.y1, b.x2, b.y2} : f[1] >= 0 /\ f[1] <= f[2]
    /\ Less(b.x1, b.x2) /\ Less(b.y1, b.y2)

\* RecognitionConfidence and ElementConfidence
ValidRecognition(r) ==
    /\ \A v \in {r.minimum, r.average, r.maximum} : ValidConfidence(v)
    /\ r.minimum <= r.average /\ r.average <= r.maximum

ValidElementConfidence(c) ==
    LET scores == {c.overall, c.layout, c.structure} \ {None}
    IN  /\ \A v \in scores : ValidConfidence(v)
        /\ (c.status = "UNKNOWN") <=> (scores = {} /\ c.recognition = None)
        /\ (c.status = "UNKNOWN") <=> (c.basis = "unknown")

\* ReviewMetadata; reasons counts the reasons that are not blank
ValidReview(r) ==
    /\ ~r.blankReason
    /\ r.required => r.reasons > 0
    /\ ~r.required => r.status # "PENDING"

\* TableCell
ValidCell(c) ==
    /\ c.row >= 0 /\ c.column >= 0
    /\ c.rowEnd >= c.row /\ c.columnEnd >= c.column
    /\ c.confidence = None \/ ValidConfidence(c.confidence)

\* TableContinuation
ValidContinuation(k) ==
    /\ k.segment >= 0
    /\ k.crossPage => k.logicalTable
    /\ ~k.crossPage => k.merge = "NOT_REQUIRED"
    /\ k.continuation => k.previous

\* TextElement and PictureElement
ValidText(e) == ~Blank(e.text)
ValidPicture(e) == OptionalText(e.caption) /\ OptionalText(e.ocr) /\ e.width >= 1 /\ e.height >= 1

\* TableElement
ValidTable(e) ==
    /\ e.html \/ e.cells # <<>>
    /\ e.rows >= 1 /\ e.columns >= 1
    /\ OptionalText(e.title)
    /\ \A i, j \in DOMAIN e.cells : e.cells[i].id = e.cells[j].id => i = j
    /\ \A i \in DOMAIN e.cells : e.cells[i].rowEnd < e.rows /\ e.cells[i].columnEnd < e.columns

-----------------------------------------------------------------------------
(* The constructors, in the order in which an element needs them *)

Box == [x1 : PageCoord, y1 : PageCoord, x2 : PageCoord, y2 : PageCoord]
Position ==
    [index : PageCoord, width : PageCoord, height : PageCoord, box : Box, order : PageCoord \cup {None}]
Recognition == [minimum : Score, average : Score, maximum : Score]
OptionalScore == Score \cup {None}
Confidence ==
    [status : {"KNOWN", "PARTIAL", "UNKNOWN"},
     basis : {"provided", "layout_only", "min_layout_recognition", "min_available", "unknown"},
     overall : OptionalScore, layout : OptionalScore, structure : OptionalScore,
     recognition : {None, "valid"}]
Review ==
    [required : BOOLEAN, status : {"NOT_REVIEWED", "PENDING", "CONFIRMED"}, reasons : 0 .. 1,
     blankReason : BOOLEAN]
Cell ==
    [id : CellId, row : GridCoord, rowEnd : GridCoord, column : GridCoord, columnEnd : GridCoord,
     text : TableText, confidence : CellScore \cup {None}]
Continuation ==
    [segment : GridCoord, crossPage : BOOLEAN, logicalTable : BOOLEAN, continuation : BOOLEAN,
     previous : BOOLEAN, merge : {"NOT_REQUIRED", "UNRESOLVED", "MERGED", "REJECTED"}]

Init ==
    /\ stage = "box" /\ box = None /\ position = None /\ element = None
    /\ source = 1 /\ offset = 0 /\ symbols = <<>>

\* An object exists only once its constructor has accepted it.
Made(new, old) == IF stage' = "rejected" THEN old ELSE new

\* __post_init__ accepts, and the next constructor runs, or it raises.
Check(from, valid, to) ==
    /\ stage = from
    /\ stage' = IF valid THEN to ELSE "rejected"
    /\ UNCHANGED <<source, offset, symbols>>

MakeBox(b) ==
    /\ Check("box", ValidBox(b), "position")
    /\ box' = Made(b, box) /\ UNCHANGED <<position, element>>

MakePosition(p) ==
    /\ p.box = box
    /\ Check("position", ValidPosition(p), "normalize")
    /\ position' = Made(p, position) /\ UNCHANGED <<box, element>>

\* normalized_bbox is read; nothing below looks at the position again.
Normalize ==
    /\ Check("normalize", ValidNormalized(Normalized(position)), "confidence")
    /\ box' = None /\ position' = None /\ UNCHANGED element

MakeRecognition(r) ==
    /\ Check("confidence", ValidRecognition(r), "confidence")
    /\ UNCHANGED <<box, position, element>>

MakeConfidence(c) ==
    /\ Check("confidence", ValidElementConfidence(c), "review")
    /\ UNCHANGED <<box, position, element>>

MakeReview(r) ==
    /\ Check("review", ValidReview(r), "element")
    /\ UNCHANGED <<box, position, element>>

MakeText(e) ==
    /\ Check("element", ValidText(e), "scan")
    /\ element' = Made(e, element) /\ UNCHANGED <<box, position>>

MakePicture(e) ==
    /\ Check("element", ValidPicture(e), "scan")
    /\ element' = Made(e, element) /\ UNCHANGED <<box, position>>

\* A table gathers its continuation and its cells before it is constructed.
MakeContinuation(k) ==
    /\ Check("element", ValidContinuation(k), "cells")
    /\ element' = Made([kind |-> "table", cells |-> <<>>], element)
    /\ UNCHANGED <<box, position>>

MakeCell(c) ==
    /\ stage = "cells" /\ Len(element.cells) < MaxCells
    /\ Check("cells", ValidCell(c), "cells")
    /\ element' = Made([element EXCEPT !.cells = Append(@, c)], element)
    /\ UNCHANGED <<box, position>>

MakeTable(rows, columns, title, html) ==
    LET e == [kind |-> "table", cells |-> element.cells, title |-> title,
              rows |-> rows, columns |-> columns, html |-> html]
    IN  /\ Check("cells", ValidTable(e), "scan")
        /\ element' = Made(e, element) /\ UNCHANGED <<box, position>>

-----------------------------------------------------------------------------
(* Extraction *)

Present(field, text) == IF text = None THEN <<>> ELSE <<[field |-> field, id |-> None, text |-> text]>>

\* The comparison property of each element: its texts in the order in which
\* their symbols are combined.
Sources(e) ==
    CASE e.kind = "text" -> Present("text", e.text)
      [] e.kind = "picture" -> Present("caption", e.caption) \o Present("ocr_text", e.ocr)
      [] e.kind = "table" ->
           Present("title", e.title)
             \o [i \in DOMAIN e.cells |->
                   [field |-> "cell.text", id |-> e.cells[i].id, text |-> e.cells[i].text]]

\* Variant: single symbols are tried first.
MatchAtSingleFirst(text, i) ==
    IF <<text[i]>> \in DOMAIN Operator THEN <<text[i]>>
    ELSE IF i < Len(text) /\ SubSeq(text, i, i + 1) \in DOMAIN Operator THEN SubSeq(text, i, i + 1)
    ELSE <<>>

\* _COMPARISON_PATTERN at position i: compound forms before single ones.
MatchAt(text, i) ==
    IF i < Len(text) /\ SubSeq(text, i, i + 1) \in DOMAIN Operator THEN SubSeq(text, i, i + 1)
    ELSE IF <<text[i]>> \in DOMAIN Operator THEN <<text[i]>>
    ELSE <<>>

\* One step of finditer over the current source.
ScanStep ==
    LET src == Sources(element)[source]
        raw == MatchAt(src.text, offset + 1)
        match == [field |-> src.field, id |-> src.id, start |-> offset, end |-> offset + Len(raw),
                  raw |-> raw, operator |-> Operator[raw]]
    IN  /\ stage = "scan" /\ source <= Len(Sources(element)) /\ offset < Len(src.text)
        /\ IF raw = <<>> THEN offset' = offset + 1 /\ UNCHANGED symbols
                         ELSE offset' = match.end /\ symbols' = Append(symbols, match)
        /\ UNCHANGED <<stage, box, position, element, source>>

NextSource ==
    /\ stage = "scan"
    /\ IF source > Len(Sources(element))
         THEN stage' = "done" /\ UNCHANGED <<source, offset>>
         ELSE /\ offset = Len(Sources(element)[source].text)
              /\ source' = source + 1 /\ offset' = 0 /\ UNCHANGED stage
    /\ UNCHANGED <<box, position, element, symbols>>

Element ==
    \/ \E t \in Text : MakeText([kind |-> "text", text |-> t])
    \/ \E c, o \in Text \cup {None} : \E w \in PageCoord :
          MakePicture([kind |-> "picture", caption |-> c, ocr |-> o, width |-> w, height |-> 1])
    \/ \E k \in Continuation : MakeContinuation(k)

Next ==
    \/ stage = "box" /\ \E b \in Box : MakeBox(b)
    \/ stage = "position" /\ \E p \in [index : PageCoord, width : PageCoord, height : PageCoord,
                                      box : {box}, order : PageCoord \cup {None}] : MakePosition(p)
    \/ Normalize
    \/ stage = "confidence" /\ \/ \E r \in Recognition : MakeRecognition(r)
                               \/ \E c \in Confidence : MakeConfidence(c)
    \/ stage = "review" /\ \E r \in Review : MakeReview(r)
    \/ stage = "element" /\ Element
    \/ stage = "cells" /\ \/ \E c \in Cell : MakeCell(c)
                          \/ \E m, n \in GridCoord, t \in TableText \cup {None}, h \in BOOLEAN :
                                MakeTable(m, n, t, h)
    \/ ScanStep \/ NextSource

Spec == Init /\ [][Next]_vars

-----------------------------------------------------------------------------
(* Properties *)

TypeOK ==
    /\ stage \in {"box", "position", "normalize", "confidence", "review", "element", "cells", "scan", "done", "rejected"}
    /\ box = None \/ (box \in Box /\ ValidBox(box))
    /\ position = None \/ position.box = box
    /\ element # None => element.kind \in {"text", "picture", "table"}
    /\ source \in 1 .. MaxCells + 3 /\ offset \in Nat
    /\ \A i \in DOMAIN symbols : symbols[i].raw \in DOMAIN Operator

\* What the scan must find in source j: every symbol, where "=" after ">" or
\* "<" belongs to the symbol before it.
Expected(j) ==
    LET src == Sources(element)[j]
        text == src.text
        starts == {i \in DOMAIN text : /\ <<text[i]>> \in DOMAIN Operator
                                       /\ ~(text[i] = "=" /\ i > 1 /\ text[i - 1] \in {">", "<"})}
        end(i) == IF text[i] \in {">", "<"} /\ i < Len(text) /\ text[i + 1] = "=" THEN i + 1 ELSE i
    IN  {[field |-> src.field, id |-> src.id, start |-> i - 1, end |-> end(i),
          raw |-> SubSeq(text, i, end(i)), operator |-> Operator[SubSeq(text, i, end(i))]] : i \in starts}

\* The scan finds exactly the symbols that are there, compound forms whole,
\* none of them twice, and in the order of each text (extract_comparison_symbols).
FindsEverySymbol ==
    stage = "done" =>
      /\ {symbols[i] : i \in DOMAIN symbols} = UNION {Expected(j) : j \in DOMAIN Sources(element)}
      /\ \A i, j \in DOMAIN symbols :
           i < j /\ symbols[i].field = symbols[j].field /\ symbols[i].id = symbols[j].id =>
             symbols[i].end <= symbols[j].start

\* A symbol leads back to its evidence: one source of the element has its
\* field and identifier, and has the symbol at its offsets (TableElement).
EvidenceTraceable ==
    \A i \in DOMAIN symbols :
      LET origins == {j \in DOMAIN Sources(element) :
                        Sources(element)[j].field = symbols[i].field /\ Sources(element)[j].id = symbols[i].id}
      IN  /\ Cardinality(origins) = 1
          /\ \A j \in origins :
               SubSeq(Sources(element)[j].text, symbols[i].start + 1, symbols[i].end) = symbols[i].raw

\* normalized_bbox never raises for a position that was accepted.
NormalizedNeverRaises == stage = "normalize" => ValidNormalized(Normalized(position))

\* What was accepted can be used: positions can be normalized, every symbol
\* is found and leads back to its evidence.
EvidenceSound == NormalizedNeverRaises /\ FindsEverySymbol /\ EvidenceTraceable
=============================================================================
