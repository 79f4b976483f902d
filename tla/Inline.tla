------------------------------- MODULE Inline -------------------------------
(***************************************************************************)
(* parser/markdown.cpp, parse_paragraph of a line: its text becomes        *)
(* fragments from the left, each cut off by one of the try_parse           *)
(* functions.  A character is its role: "a" stands for any without one.    *)
(***************************************************************************)
EXTENDS Naturals, Sequences, SequencesExt

CONSTANT Texts  \* the lines to parse, without the blanks around them

Marks == {"*", "~"}
Chars == Marks \cup {"a", "tick", "$", "[", "]", "^", "(", ")", "esc", "L"}

ASSUME TextsAssumption == Texts \subseteq Seq(Chars)

VARIABLES
  text,      \* clean_line_view
  idx,       \* the next character, from 1
  fragments, \* paragraph_ptr->blocks: kind and the characters each takes up
  verdict    \* of parse_paragraph()

inlineVars == <<text, idx, fragments, verdict>>

InlineTypeOK ==
  /\ text \in Seq(Chars) /\ idx \in 1..Len(text) + 3
  /\ verdict \in {"running", "accepted", "refused", "thrown"}

\* "\L", "\C" or "\R" at the front of a longer text align it.
Clean(line) ==
  /\ text = line
  /\ idx = IF Len(text) > 2 /\ text[1] = "esc" /\ text[2] = "L" THEN 3 ELSE 1
  /\ fragments = <<>>
  /\ verdict = "running"

InlineInit == \E line \in Texts : Clean(line)

---------------------------------------------------------------------------
\* The place of the first of these characters from k on, or one past the end.
Find(chars, k) ==
  CHOOSE p \in k .. Len(text) + 1 :
    /\ p <= Len(text) => text[p] \in chars
    /\ \A i \in k .. p - 1 : text[i] \notin chars

Here(chars) == verdict = "running" /\ idx <= Len(text) /\ text[idx] \in chars

Fragment(kind, next) ==
  /\ fragments' = Append(fragments, [kind |-> kind, from |-> idx, to |-> next - 1])
  /\ idx' = next
  /\ UNCHANGED text

\* Without a second mark the rest of the line is code (or a formula): the test
\* for that case looks for it one character too early and never holds.
ParseCode ==
  LET close == IF idx = Len(text) THEN idx + 1 ELSE Find({text[idx]}, idx + 1)
  IN /\ Here({"tick", "$"})
     /\ Fragment("verbatim", close + 1)
     /\ UNCHANGED verdict

\* Mutant of IsOnTop: a mark closes whatever is open.
IsOnTopOfAny(mark, stack) == stack # <<>>

\* The marks of a text: a stack of those that are open.  The mark on top closes,
\* any other opens; a lone "~" is no mark.
IsOnTop(mark, stack) == stack # <<>> /\ mark = Last(stack)

OpenMarks(from, to) ==
  LET Doubled(k) == k < to /\ text[k + 1] = text[k]
      scan[k \in from - 1 .. to] ==
        IF k = from - 1 THEN [stack |-> <<>>, skip |-> FALSE]
        ELSE LET before == scan[k - 1]
                 mark == <<text[k], Doubled(k)>>
             IN IF before.skip \/ text[k] \notin Marks \/ mark = <<"~", FALSE>>
                THEN [before EXCEPT !.skip = FALSE]
                ELSE [stack |-> IF IsOnTop(mark, before.stack)
                                THEN Front(before.stack)
                                ELSE Append(before.stack, mark),
                      skip |-> Doubled(k)]
  IN scan[to].stack
TryParseText ==
  LET next == Find({"tick", "$", "["}, idx + 1)
  IN /\ Fragment("text", next)
     /\ verdict' = IF OpenMarks(idx, next - 1) # <<>> THEN "refused" ELSE verdict

ParseText == Here(Chars \ {"tick", "$", "["}) /\ TryParseText

\* "[^" with at least one character up to the "]", or up to the end; when it
\* ends the line the id is empty.
IsFootnoteRef ==
  /\ idx < Len(text) /\ text[idx + 1] = "^"
  /\ idx + 2 <= Len(text) => text[idx + 2] # "]"

ParseFootnoteRef ==
  /\ Here({"["}) /\ IsFootnoteRef
  /\ Fragment("ref", IF idx + 2 > Len(text) THEN idx + 4 ELSE Find({"]"}, idx + 2) + 1)
  /\ UNCHANGED verdict

Bracket == Find({"]"}, idx + 1)
\* `idx >= line.size() - 3' is computed without sign: it does not hold for a
\* line shorter than three, and line[idx + 1] may lie outside the string.
Outside == Len(text) < 3 /\ Bracket > Len(text)
IsLink ==
  /\ Len(text) >= 3 /\ Bracket + 3 <= Len(text)
  /\ text[Bracket + 1] = "("

ParseLink ==
  /\ Here({"["}) /\ ~IsFootnoteRef /\ IsLink
  /\ Fragment("link", Find({")"}, Bracket + 1) + 1)
  /\ UNCHANGED verdict

ParseBracket == Here({"["}) /\ ~IsFootnoteRef /\ ~IsLink /\ TryParseText

\* What lies there may be a "(": then the uri begins past the end of the line.
ReadOutside ==
  /\ Here({"["}) /\ ~IsFootnoteRef /\ Outside
  /\ verdict' = "thrown"
  /\ UNCHANGED <<text, idx, fragments>>

EndOfLine ==
  /\ verdict = "running" /\ idx > Len(text)
  /\ verdict' = "accepted"
  /\ UNCHANGED <<text, idx, fragments>>

InlineNext ==
  \/ ParseCode \/ ParseText \/ ParseFootnoteRef \/ ParseLink \/ ParseBracket
  \/ ReadOutside \/ EndOfLine

InlineSpec == InlineInit /\ [][InlineNext]_inlineVars

---------------------------------------------------------------------------
\* The reference.  A mark begins after an even number of its character, the
\* first of a run and the third; "~" is one only with another behind it.
BeginsMark(k, from) ==
  \E j \in from .. k :
    /\ (k - j) % 2 = 0
    /\ \A i \in j .. k : text[i] = text[k]
    /\ j > from => text[j - 1] # text[k]

MarkAt(k, to) == <<text[k], k < to /\ text[k + 1] = text[k]>>

MarksOf(from, to) ==
  {k \in from .. to : text[k] \in Marks /\ BeginsMark(k, from) /\ MarkAt(k, to) # <<"~", FALSE>>}

\* Each mark can be paired with another of its kind so that no two pairs cross.
Closes(from, to) ==
  LET marks == MarksOf(from, to)
  IN \E pair \in [marks -> marks] :
       /\ \A k \in marks :
            pair[k] # k /\ pair[pair[k]] = k /\ MarkAt(pair[k], to) = MarkAt(k, to)
       /\ \A k, j \in marks : k < j /\ j < pair[k] => pair[j] \in k .. pair[k]

\* The fragments follow one another without a gap, from the first character
\* after the alignment to the last.
Tiled ==
  /\ \A i \in 1 .. Len(fragments) - 1 : fragments[i + 1].from = fragments[i].to + 1
  /\ fragments # <<>> => /\ fragments[1].from \in {1, 3}
                         /\ fragments[Len(fragments)].to = idx - 1
  /\ verdict = "accepted" => idx > Len(text)

\* A line is taken exactly when the marks of each of its texts close in order:
\* the pass over a stack, which pushes any mark but the one on top, finds out
\* whether there is a pairing.
MarksClose ==
  \A i \in DOMAIN fragments : fragments[i].kind = "text" =>
    (Closes(fragments[i].from, fragments[i].to)
       <=> (i < Len(fragments) \/ verdict # "refused"))

\* markdown.cpp:532-581, 621-750: parse_paragraph() loses no character, judges the marks of a text as their
\* grammar does, and reads outside its line only if that is one or two
\* characters long and has a bracket that does not close.
InlineSound ==
  /\ Tiled
  /\ MarksClose
  /\ verdict = "thrown" => Len(text) < 3 /\ "[" \in {text[k] : k \in DOMAIN text}
=============================================================================
