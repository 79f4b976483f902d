------------------------------ MODULE Markdown ------------------------------
(***************************************************************************)
(* parser/markdown.cpp: Markdown::parse() cuts the lines of a text into    *)
(* elements, one parse_*() after the other, and to_html() shows them.  A   *)
(* line is what the parsers ask of it: the kind its marks make it, how far *)
(* it is indented, how long it is, and whether the marks of its text close *)
(* in order (module Inline).  A line that begins with the mark of a block  *)
(* but fails the block's test, such as "[a](b) text" or "`x` text", goes   *)
(* through parse_default() to parse_paragraph() and is a "text".           *)
(*                                                                         *)
(* In three parsers `auto& last_line = lines.at(line_idx)' is followed by  *)
(* `last_line = lines.at(next)', which does not rebind the reference but   *)
(* overwrites the line: `lines' differs from `file' from then on.          *)
(***************************************************************************)
EXTENDS Naturals, Sequences, SequencesExt, FiniteSetsExt

CONSTANT Files  \* the texts to parse: sequences of lines

Kinds == {"blank", "text", "heading", "quote", "fence", "lang", "dashes", "dash",
          "number", "row", "image", "badImage", "formula", "dollars", "note", "html"}
Line == [kind : Kinds, indent : Nat, size : Nat,
         good : BOOLEAN,       \* the marks of its text close
         cells : Nat,          \* of a row; of a footnote, its id
         goodCells : Nat]      \* those whose marks close

\* A blank line has no marks; another has something behind its indentation, and
\* a number with its dot is followed by something (Item::is_ordered_item).
IsLine(l) ==
  /\ l.kind = "blank" => l.good
  /\ l.kind # "blank" => l.indent < l.size
  /\ l.kind = "number" => l.indent + 2 < l.size

ASSUME FilesAssumption ==
  \A content \in Files :
    content \in Seq(Line) /\ \A k \in DOMAIN content : IsLine(content[k])

VARIABLES
  file,      \* the text as it was read
  lines,     \* Markdown::lines
  at,        \* last_line_idx, and line_idx in a list; from 1
  start,     \* body_start_line_idx; 0 before the metadata
  elements,  \* elements_: the lines each was made from
  frames,    \* the calls of parse_itemlist and parse_ordered_itemlist under way
  items,     \* the lines the list under way has taken as items
  footnotes, \* footnotes_ptr_: id -> line
  outcome

mdVars == <<file, lines, at, start, elements, frames, items, footnotes, outcome>>

NoText == [f \in {} |-> 0]
Frame == [ordered : BOOLEAN, pos : Nat]

MdTypeOK ==
  /\ file \in Seq(Line) /\ lines \in [DOMAIN file -> Line]
  /\ at \in 1..Len(file) + 1 /\ start \in 0..Len(file) + 1
  /\ frames \in Seq(Frame) /\ \A n \in DOMAIN footnotes : footnotes[n] \in DOMAIN file
  /\ outcome \in {"running", "parsed", "refused", "thrown", "shown", "undefined"}

Read(content) ==
  /\ file = content /\ lines = content /\ at = 1 /\ start = 0
  /\ elements = <<>> /\ frames = <<>> /\ items = <<>> /\ footnotes = NoText
  /\ outcome = "running"

MdInit == \E content \in Files : Read(content)

---------------------------------------------------------------------------
InFile(k) == k \in DOMAIN lines
\* The first of these lines from k on, or one past the end.
FirstFrom(k, S) == Min({j \in S : j >= k} \cup {Len(lines) + 1})
IsBlank(l) == l.kind = "blank"
IsDashes(l) == l.kind = "dashes"
Filled == {j \in DOMAIN lines : ~IsBlank(lines[j])}
Dashes == {j \in DOMAIN lines : IsDashes(lines[j])}

Refuse == outcome' = "refused" /\ UNCHANGED <<file, lines, at, start, elements, frames, items, footnotes>>
Throw == outcome' = "thrown" /\ UNCHANGED <<file, lines, at, start, elements, frames, items, footnotes>>

\* lines.at() throws past the end: on a text of blank lines, on an open block.
\* Status 1, "no metadata", stops nothing: the switch overwrites it.
ParseMetadata ==
  LET first == FirstFrom(1, Filled)
      close == FirstFrom(first + 1, Dashes)
      body == IF IsDashes(lines[first]) THEN close + 1 ELSE first
  IN /\ start = 0
     /\ outcome = "running"
     /\ IF ~InFile(first) \/ (IsDashes(lines[first]) /\ ~InFile(close))
        THEN Throw
        ELSE /\ start' = body /\ at' = body
             /\ outcome' = IF body > Len(lines) THEN "parsed" ELSE "running"
             /\ UNCHANGED <<file, lines, elements, frames, items, footnotes>>

\* parse() after a block: next_line_idx; the loop ends after the last line.
Advance(next) ==
  /\ at' = next
  /\ outcome' = IF next > Len(lines) THEN "parsed" ELSE "running"
  /\ UNCHANGED <<file, start>>

Element(kind, from, to) == [kind |-> kind, from |-> from, to |-> to]
Push(kind, to) == elements' = Append(elements, Element(kind, at, to))

\* At the switch of parse(), on a line of one of these kinds.
At(kinds) == outcome = "running" /\ start > 0 /\ frames = <<>> /\ lines[at].kind \in kinds
AtMark(kinds) == At(kinds) /\ lines[at].indent = 0

ParseOneLine ==
  /\ AtMark({"heading", "dashes", "image", "formula", "html"})
  /\ Push(lines[at].kind, at)
  /\ Advance(at + 1)
  /\ UNCHANGED <<lines, frames, items, footnotes>>

\* A footnote with an id that is taken replaces the one before.
ParseFootnote ==
  /\ AtMark({"note"})
  /\ LET n == lines[at].cells
     IN footnotes' = [i \in DOMAIN footnotes \cup {n} |-> IF i = n THEN at ELSE footnotes[i]]
  /\ Advance(at + 1)
  /\ UNCHANGED <<lines, elements, frames, items>>

\* The one refusal of an image: its brackets do not match.
ParseBadImage == AtMark({"badImage"}) /\ Refuse

\* A line whose marks do not close is left out, with no word about it.
Paragraph ==
  /\ IF lines[at].good /\ ~IsBlank(lines[at])
     THEN Push("paragraph", at) ELSE UNCHANGED elements
  /\ Advance(at + 1)
  /\ UNCHANGED <<lines, frames, items, footnotes>>

\* An indented line begins with a space, whatever follows it.
ParseDefault ==
  /\ \/ AtMark({"text", "blank"})
     \/ At(Kinds) /\ lines[at].indent > 0
  /\ Paragraph

\* The first line of the block is overwritten by each line that is looked at.
Overwritten(last) ==
  [lines EXCEPT ![at] = IF InFile(last) THEN lines[last] ELSE lines[Len(lines)]]

NoQuotes == {j \in DOMAIN lines : lines[j].kind # "quote" \/ lines[j].indent > 0}
\* Mutant of ParseBlockquote: the line that ended the block is passed over.
ParseBlockquoteSkips ==
  LET next == FirstFrom(at + 1, NoQuotes)
  IN /\ AtMark({"quote"})
     /\ lines' = Overwritten(next)
     /\ Push("quote", next - 1)
     /\ Advance(Min({next + 1, Len(lines) + 1}))
     /\ UNCHANGED <<frames, items, footnotes>>

ParseBlockquote ==
  LET next == FirstFrom(at + 1, NoQuotes)
  IN /\ AtMark({"quote"})
     /\ lines' = Overwritten(next)
     /\ Push("quote", next - 1)
     /\ Advance(next)
     /\ UNCHANGED <<frames, items, footnotes>>

Fences == {j \in DOMAIN lines : lines[j].kind = "fence" /\ lines[j].indent = 0}
ParseCodeblock ==
  LET close == FirstFrom(at + 1, Fences)
  IN /\ AtMark({"fence", "lang"})
     /\ IF InFile(close)
        THEN /\ lines' = Overwritten(close)
             /\ Push("code", close)
             /\ Advance(close + 1)
             /\ UNCHANGED <<frames, items, footnotes>>
        ELSE Refuse

\* A formula that does not end is a paragraph: its first line only.
FormulaEnds == {j \in DOMAIN lines : lines[j].kind \in {"dollars", "formula"}}
ParseLatex ==
  LET close == FirstFrom(at + 1, FormulaEnds)
  IN /\ AtMark({"dollars"})
     /\ IF InFile(close)
        THEN /\ Push("formula", close)
             /\ Advance(close + 1)
             /\ UNCHANGED <<lines, frames, items, footnotes>>
        ELSE Paragraph

\* Rows may be indented, but for the first.  A row with another number of good
\* cells than the title ends the table, stays in it, and is parsed once more.
\* The alignment row and the row after it are read whether they exist or not.
ParseTable ==
  LET columns == lines[at].cells
      next == FirstFrom(at + 2, {j \in DOMAIN lines : \/ lines[j].kind # "row"
                                                      \/ lines[j].goodCells # columns})
      broken == InFile(next) /\ lines[next].kind = "row"
  IN /\ AtMark({"row"})
     /\ IF ~InFile(at + 1) THEN Throw
        ELSE IF lines[at + 1].kind # "row" THEN Paragraph
        ELSE IF lines[at + 1].cells # columns THEN Refuse
        ELSE IF ~InFile(at + 2) THEN Throw
        ELSE /\ Push(IF broken THEN "brokenTable" ELSE "table", IF broken THEN next ELSE next - 1)
             /\ Advance(next)
             /\ UNCHANGED <<lines, frames, items, footnotes>>

---------------------------------------------------------------------------
(* Lists.  A frame is a call: `pos' is its blank_prefix_length.  It takes
   lines[at] as an item without a look at it, then looks at the line after:
   an item of its own goes on with the loop, a deeper one starts a call for
   the items below.  When that call returns, the loop goes on as well: the
   line the nested list ended at becomes an item, whatever it is.          *)

Top == Last(frames)
Cut(f) == f.pos + (IF f.ordered THEN 2 ELSE 1)
Begins(l, ordered) == IF ordered THEN l.kind = "number" ELSE l.kind \in {"dash", "dashes"}
Begin(l) == l.indent + (CASE l.kind = "number" -> 2 [] l.kind \in {"dash", "dashes"} -> 1
                          [] OTHER -> 0)

StartList ==
  /\ AtMark({"dash", "number"})
  /\ frames' = <<[ordered |-> lines[at].kind = "number", pos |-> 0]>>
  /\ items' = <<>>
  /\ UNCHANGED <<file, lines, at, start, elements, footnotes, outcome>>

InList == outcome = "running" /\ frames # <<>>

\* lines.at() past the end, or substr() past the end of a line.
ItemThrows ==
  /\ InList
  /\ InFile(at) => Top.ordered /\ lines[at].size < Cut(Top)
  /\ Throw

\* The call returns the line it stopped at.  The status of a nested call is
\* not looked at; that of the first call decides about the text.
Return(next, ok, taken) ==
  /\ frames' = Front(frames)
  /\ at' = next
  /\ IF Len(frames) > 1 THEN UNCHANGED <<elements, outcome>>
     ELSE /\ elements' = Append(elements, Element("list", taken[1].line, next - 1))
          /\ outcome' = IF ~ok THEN "refused"
                        ELSE IF next > Len(lines) THEN "parsed" ELSE "running"
  /\ UNCHANGED <<file, start, footnotes>>

ItemTooShort ==
  /\ InList /\ InFile(at) /\ ~Top.ordered /\ lines[at].size < Cut(Top)
  /\ Return(at, TRUE, items)
  /\ UNCHANGED <<lines, items>>

\* What is cut off may hold a mark: then either the rest closes or it does not.
CutText(l, f) ==
  IF Cut(f) <= Begin(l) THEN {l.good}
  ELSE IF l.size <= Cut(f) \/ IsBlank(l) THEN {TRUE} ELSE BOOLEAN

Item(l, f) == [line |-> at, depth |-> Len(frames),
               whole |-> Begins(l, f.ordered) /\ l.indent = f.pos]

TakesItem == InList /\ InFile(at) /\ lines[at].size >= Cut(Top)

BadItem ==
  /\ TakesItem
  /\ FALSE \in CutText(lines[at], Top)
  /\ items' = Append(items, Item(lines[at], Top))
  /\ Return(at, FALSE, items')
  /\ UNCHANGED lines

TakeItem ==
  LET next == at + 1
      taken == Append(items, Item(lines[at], Top))
      l == lines[next]
      goesOn == l.indent = Top.pos /\ Begins(l, Top.ordered)
      nested == /\ l.indent > Top.pos
                /\ \/ Begins(l, FALSE)
                   \/ Begins(l, TRUE) /\ Top.ordered
  IN /\ TakesItem
     /\ TRUE \in CutText(lines[at], Top)
     /\ items' = taken
     /\ lines' = IF InFile(next) THEN [lines EXCEPT ![at] = l] ELSE lines
     /\ IF InFile(next) /\ (goesOn \/ nested)
        THEN /\ frames' = IF goesOn THEN frames
                          ELSE Append(frames, [ordered |-> Begins(l, TRUE), pos |-> l.indent])
             /\ at' = next
             /\ UNCHANGED <<file, start, elements, footnotes, outcome>>
        ELSE Return(next, TRUE, taken)

---------------------------------------------------------------------------
\* Mutant of ShortTable: any row with another number of cells.
WrongTable(e) == e.kind = "brokenTable"

\* Table::to_html() reads as many cells of a row as there are titles.
ShortTable(e) ==
  e.kind = "brokenTable" /\ lines[e.to].goodCells < lines[e.from].cells

ToHtml ==
  /\ outcome = "parsed"
  /\ outcome' = IF \E i \in DOMAIN elements : ShortTable(elements[i])
                THEN "undefined" ELSE "shown"
  /\ UNCHANGED <<file, lines, at, start, elements, frames, items, footnotes>>

ParseBlock ==
  \/ ParseOneLine \/ ParseFootnote \/ ParseBadImage \/ ParseDefault
  \/ ParseBlockquote \/ ParseCodeblock \/ ParseLatex \/ ParseTable
ParseList == StartList \/ ItemThrows \/ ItemTooShort \/ BadItem \/ TakeItem

MdNext == ParseMetadata \/ ParseBlock \/ ParseList \/ ToHtml

MdSpec == MdInit /\ [][MdNext]_mdVars

---------------------------------------------------------------------------
Of(k) == {i \in DOMAIN elements : k \in elements[i].from .. elements[i].to}
Between == frames = <<>> /\ start > 0 /\ outcome \in {"running", "parsed", "shown"}

\* What is overwritten has been parsed.
UnparsedIntact == \A k \in at .. Len(file) : lines[k] = file[k]

\* It lies within a quote, a code block or a list.
DamageIsInside ==
  Between => \A k \in DOMAIN file : lines[k] # file[k] =>
    \E i \in Of(k) : elements[i].kind \in {"quote", "code", "list"}

\* Every line of the body that says something and whose marks close is in one
\* element, or is a footnote no later one replaces; a row that ends its table
\* early is in the next element too.
EachLineOnce ==
  Between => \A k \in start .. at - 1 :
    /\ Of(k) = {} =>
         \/ IsBlank(file[k]) \/ ~file[k].good
         \/ file[k].kind = "note" /\ footnotes[file[k].cells] >= k
    /\ \A i, j \in Of(k) : i < j =>
         j = i + 1 /\ elements[i].kind = "brokenTable" /\ elements[i].to = k

InOrder ==
  Between => \A i \in 1 .. Len(elements) - 1 :
    \/ elements[i].to < elements[i + 1].from
    \/ elements[i].kind = "brokenTable" /\ elements[i].to = elements[i + 1].from

\* A line that is no item of its list is one only after a nested list, and
\* only such a line is taken twice.
ItemsAreItems ==
  \A i \in 2 .. Len(items) :
    LET this == items[i] before == items[i - 1]
    IN /\ ~this.whole => this.depth < before.depth
       /\ \/ this.line = before.line + 1
          \/ /\ this.line = before.line /\ this.depth < before.depth
             /\ Between => ~before.whole

\* markdown.cpp:35-86, 228-229, 347-409: the blocks show the body of the text: no line is lost, shown twice or out of
\* place, though the parsers overwrite the lines they work on and hand over
\* their position through last_line_idx.
LinesInOrder ==
  /\ UnparsedIntact /\ DamageIsInside /\ EachLineOnce /\ InOrder /\ ItemsAreItems

IsItem(l) == Begins(l, TRUE) \/ Begins(l, FALSE)
IsNested(l) == IsItem(l) /\ l.indent > 0
SizeAt(k) == IF k \in DOMAIN file THEN file[k].size ELSE 0
\* The lines a list can reach from the nested item j without an empty one.
ReachOf(j) == {k \in j + 1 .. Len(file) + 1 : \A i \in j + 1 .. k - 1 : file[i].size > 0}

\* The text is all blank, or its metadata does not end; it ends in a row; or a
\* nested list ends at the end of the text or at a line too short for an item.
ThrowIsDue ==
  \/ \A k \in DOMAIN file : IsBlank(file[k])
  \/ \E k \in DOMAIN file :
       /\ IsDashes(file[k]) /\ start = 0
       /\ \A i \in DOMAIN file \ {k} : ~IsDashes(file[i])
  \/ file[Len(file)].kind = "row"
  \/ \E j \in start .. Len(file) :
       IsNested(file[j]) /\ \E k \in ReachOf(j) : SizeAt(k) < file[j].indent + 2

RefusalIsDue ==
  \E k \in start .. Len(file) :
    \/ file[k].kind = "badImage"
    \/ /\ file[k].kind \in {"fence", "lang"}
       /\ \A i \in k + 1 .. Len(file) : file[i].kind # "fence" \/ file[i].indent > 0
    \/ /\ k < Len(file) /\ file[k].kind = "row" /\ file[k + 1].kind = "row"
       /\ file[k].cells # file[k + 1].cells
    \/ IsItem(file[k]) /\ ~file[k].good
    \/ /\ IsNested(file[k])
       /\ \E i \in ReachOf(k) \ {Len(file) + 1} :
            ~IsBlank(file[i]) /\ (~file[i].good \/ Begin(file[i]) <= file[k].indent)

\* markdown.cpp:37-43, 805-830, 1047-1075: the generator dies of a text (no caller catches), or leaves it out, for these
\* reasons only; and it reads past the cells of a row only where a row has fewer
\* good cells than its table has titles.
FailsOnlyIf ==
  /\ outcome = "thrown" => ThrowIsDue
  /\ outcome = "refused" => RefusalIsDue
  /\ outcome = "undefined" =>
       \E i, j \in DOMAIN file : /\ i + 1 < j /\ file[i].kind = "row" /\ file[j].kind = "row"
                                 /\ file[j].goodCells < file[i].cells
=============================================================================
