---------------------------- MODULE MarkdownProof ----------------------------
(***************************************************************************)
(* For any text, of lines of any kind: the blocks show it in order and     *)
(* once (LinesInOrder), and the parser throws or refuses for the reasons   *)
(* given and no other (FailsOnlyIf).                                       *)
(*                                                                         *)
(* LinesInOrder follows from what is true after every step.  The elements  *)
(* follow one another up to Base, the first line that none of them shows;  *)
(* a line before Base is in one of them or has nothing to show; what was   *)
(* overwritten before Base is in a block that has been read (ShownInv).    *)
(* The calls of the list parsers are further and further in, and a line    *)
(* that is taken without being an item of its list is one at which a       *)
(* deeper list ended (ListInv).  Such a line can be a whole item of that   *)
(* deeper list only if it is Doomed: no list around it can take it either, *)
(* and the text is refused.                                                *)
(*                                                                         *)
(* FailsOnlyIf needs the beginnings of the nested lists as well (FailInv): *)
(* between where one began and the line at hand there is no empty line, so *)
(* that the text shows why it could end where it did.                      *)
(*                                                                         *)
(* InlineSound, for any line of characters: the pass over a stack ends     *)
(* with nothing open exactly when the marks can be paired                  *)
(* (PassFindsPairing).  A pairing brings the stack back to where it was    *)
(* over each stretch that no pair leaves (ApartLeavesStack); and halfway   *)
(* through, what is not on the stack is paired already (StacksPair).       *)
(***************************************************************************)
EXTENDS Markdown, Inline, WellFoundedInduction, TLAPS

ElementKinds == Kinds \cup {"paragraph", "code", "table", "brokenTable", "list"}
ElementType == [kind : ElementKinds, from : Nat, to : Nat]
ItemType == [line : Nat, depth : Nat, whole : BOOLEAN]

MdTypes ==
  /\ file \in Seq(Line) /\ lines \in Seq(Line) /\ Len(lines) = Len(file)
  /\ \A k \in DOMAIN file : IsLine(file[k])
  /\ at \in Nat \ {0} /\ at <= Len(file) + 1 /\ start \in Nat
  /\ elements \in Seq(ElementType) /\ frames \in Seq(Frame) /\ items \in Seq(ItemType)
  /\ outcome \in {"running", "parsed", "refused", "thrown", "shown", "undefined"}

\* Where the parser may be: before the metadata, at a line, or in a list.
Whereabouts ==
  /\ start <= at
  /\ start = 0 => at = 1 /\ elements = <<>> /\ frames = <<>> /\ outcome \in {"running", "thrown"}
  /\ outcome = "running" /\ start > 0 /\ frames = <<>> => at <= Len(file)
  /\ frames # <<>> => outcome \in {"running", "refused", "thrown"}

\* The first line that is in no element yet: of the list under way, or the next.
Base == IF frames # <<>> /\ items # <<>> THEN items[1].line ELSE at
Well == start > 0 /\ outcome \in {"running", "parsed", "shown"}
IsBroken(e) == e.kind = "brokenTable"
Thick == {"quote", "code", "list"}

\* Element by element: what is behind what.
ElementsFollow ==
  Well =>
    /\ \A i \in DOMAIN elements :
         /\ elements[i].from <= elements[i].to
         /\ IsBroken(elements[i]) => elements[i].from < elements[i].to
         /\ \/ elements[i].to < Base
            \/ i = Len(elements) /\ IsBroken(elements[i]) /\ elements[i].to = Base
    /\ \A i, j \in DOMAIN elements : i < j =>
         \/ elements[i].to < elements[j].from
         \/ j = i + 1 /\ IsBroken(elements[i]) /\ elements[i].to = elements[j].from

\* What is in no element: a line with nothing to show, or a note still known.
IsLeftOut(k) ==
  \/ IsBlank(file[k]) \/ ~file[k].good
  \/ file[k].kind = "note" /\ file[k].cells \in DOMAIN footnotes /\ footnotes[file[k].cells] >= k
LinesAreIn ==
  Well => \A k \in start .. Base - 1 : Of(k) # {} \/ IsLeftOut(k)
DamageIsIn ==
  Well => \A k \in DOMAIN file : lines[k] # file[k] /\ k < Base =>
    \E i \in Of(k) : elements[i].kind \in Thick

\* The list under way.
InListNow == frames # <<>> /\ outcome = "running"
IsWholeFor(l, f) == Begins(l, f.ordered) /\ l.indent = f.pos

FramesDeepen ==
  \A i, j \in DOMAIN frames : i < j => frames[i].pos < frames[j].pos

\* The line at hand is an item of the innermost list, or a deeper list ended there.
LineIsItem ==
  InListNow =>
    /\ items = <<>> => Len(frames) = 1 /\ at <= Len(file) /\ IsWholeFor(lines[at], Top)
    /\ items # <<>> =>
         /\ items[1].line < at
         /\ \/ at <= Len(file) /\ IsWholeFor(lines[at], Top)
            \/ Last(items).depth > Len(frames)
         /\ \/ Last(items).line = at - 1
            \/ Last(items).line = at /\ Last(items).depth > Len(frames)

\* A line that no list around it can take: the text is refused, whatever comes.
Doomed ==
  /\ at <= Len(file) /\ ~lines[at].good
  /\ \A n \in DOMAIN frames : Cut(frames[n]) <= Begin(lines[at]) /\ Cut(frames[n]) <= lines[at].size

\* Such is the line of a whole item whose marks do not close.
TwiceIsDoomed ==
  /\ InListNow /\ items # <<>> /\ Last(items).line = at /\ Last(items).whole => Doomed
  /\ (\E i \in 2 .. Len(items) : items[i].line = items[i - 1].line /\ items[i - 1].whole)
       => (InListNow /\ Doomed) \/ outcome \in {"refused", "thrown"}

ItemsFollow ==
  \A i \in 2 .. Len(items) :
    /\ ~items[i].whole => items[i].depth < items[i - 1].depth
    /\ \/ items[i].line = items[i - 1].line + 1
       \/ items[i].line = items[i - 1].line /\ items[i].depth < items[i - 1].depth

ShownInv == ElementsFollow /\ LinesAreIn /\ DamageIsIn
ListInv == FramesDeepen /\ LineIsItem /\ TwiceIsDoomed /\ ItemsFollow
MarkdownInv == MdTypes /\ Whereabouts /\ UnparsedIntact /\ ShownInv /\ ListInv

---------------------------------------------------------------------------
\* Between the item j and the line at hand each line is long enough for an item.
Passed(j) == \A i \in j + 1 .. at - 1 : file[i].size > 0

\* The call n below the first began at an item of its own.
Began(n) ==
  \E j \in start .. at :
    Begins(file[j], frames[n].ordered) /\ file[j].indent = frames[n].pos /\ Passed(j)
CallsBegan == InListNow => \A n \in 2 .. Len(frames) : Began(n)

\* A list that ended here, below the one at hand, began at an item further in.
EndedBelow ==
  \E j \in start .. at - 1 : IsItem(file[j]) /\ file[j].indent > Top.pos /\ Passed(j)
EndIsKnown ==
  InListNow /\ items # <<>> /\ Last(items).depth > Len(frames) =>
    (Doomed /\ IsItem(lines[at])) \/ EndedBelow

\* The rows that a broken table is made of are as they were.
KeptIn(old, now, e) ==
  \E from, to \in DOMAIN old :
    /\ e.from = from /\ e.to = to /\ from + 1 < to
    /\ old[from].kind = "row" /\ old[to].kind = "row"
    /\ now[from] = old[from] /\ now[to] = old[to]
RowsAreKept ==
  Well => \A i \in DOMAIN elements : IsBroken(elements[i]) => KeptIn(file, lines, elements[i])

FailInv == CallsBegan /\ EndIsKnown /\ RowsAreKept /\ FailsOnlyIf

---------------------------------------------------------------------------
LEMMA SmallestExists ==
  ASSUME NEW S \in SUBSET Nat, S # {}
  PROVE  \E m \in S : \A k \in S : m <= k
<1> DEFINE Less == OpToRel(<, Nat)
<1>1. IsWellFoundedOn(Less, Nat)
  BY NatLessThanWellFounded
<1>2. PICK m \in S : \A k \in S : <<k, m>> \notin Less
  <2> HIDE DEF Less
  <2> QED BY <1>1, WFMin
<1>3. \A k \in S : ~ (k < m)
  BY <1>2 DEF OpToRel
<1> QED BY <1>3

LEMMA LineIs ==
  ASSUME NEW l \in Line
  PROVE  /\ l.kind \in Kinds /\ l.indent \in Nat /\ l.size \in Nat /\ l.good \in BOOLEAN
         /\ l.cells \in Nat /\ l.goodCells \in Nat
BY DEF Line

\* The lines are numbers up to the end; one past the end is where a search stops.
LEMMA LinesAre ==
  ASSUME MdTypes
  PROVE  /\ Len(lines) \in Nat /\ Len(file) = Len(lines)
         /\ DOMAIN lines = 1 .. Len(lines) /\ DOMAIN file = 1 .. Len(lines)
         /\ \A k \in DOMAIN lines : lines[k] \in Line /\ file[k] \in Line
BY DEF MdTypes

\* What FirstFrom returns.
LEMMA FirstIs ==
  ASSUME MdTypes, NEW k \in Nat, NEW S \in SUBSET (DOMAIN lines), k <= Len(lines) + 1
  PROVE  /\ FirstFrom(k, S) \in Nat /\ k <= FirstFrom(k, S) /\ FirstFrom(k, S) <= Len(lines) + 1
         /\ FirstFrom(k, S) \in S \/ FirstFrom(k, S) = Len(lines) + 1
         /\ \A j \in S : j >= k => FirstFrom(k, S) <= j
<1> DEFINE Candidates == {j \in S : j >= k} \cup {Len(lines) + 1}
<1>1. Len(lines) \in Nat /\ DOMAIN lines = 1 .. Len(lines)
  BY LinesAre
<1>2. Candidates \in SUBSET Nat /\ Candidates # {}
  BY <1>1
<1>3. PICK m \in Candidates : \A j \in Candidates : m <= j
  <2> HIDE DEF Candidates
  <2> QED BY <1>2, SmallestExists
<1>4. FirstFrom(k, S) = Min(Candidates)
  BY DEF FirstFrom
<1>5. Min(Candidates) \in Candidates /\ \A j \in Candidates : Min(Candidates) <= j
  <2> HIDE DEF Candidates
  <2> QED BY <1>3 DEF Min
<1> QED BY <1>1, <1>4, <1>5

\* Overwriting a line leaves a text.
LEMMA ChangedIsText ==
  ASSUME MdTypes, NEW k \in DOMAIN lines, NEW l \in Line
  PROVE  /\ [lines EXCEPT ![k] = l] \in Seq(Line)
         /\ Len([lines EXCEPT ![k] = l]) = Len(lines)
         /\ \A j \in DOMAIN lines : j # k => [lines EXCEPT ![k] = l][j] = lines[j]
<1>1. lines \in Seq(Line)
  BY DEF MdTypes
<1> QED BY <1>1

---------------------------------------------------------------------------
LEMMA BaseIs == ASSUME MdTypes PROVE Base \in Nat /\ at \in Nat /\ start \in Nat
<1>1. items # <<>> => items[1] \in ItemType
  BY DEF MdTypes
<1> QED BY <1>1 DEF MdTypes, Base, ItemType

LEMMA ElementIs ==
  ASSUME NEW e \in ElementType
  PROVE  e.kind \in ElementKinds /\ e.from \in Nat /\ e.to \in Nat
BY DEF ElementType

LEMMA ElementsAre ==
  ASSUME MdTypes
  PROVE  /\ elements \in Seq(ElementType) /\ Len(elements) \in Nat
         /\ DOMAIN elements = 1 .. Len(elements)
         /\ \A i \in DOMAIN elements : elements[i] \in ElementType
BY DEF MdTypes

\* A block that begins where the parser is becomes the next element.
LEMMA PushKeeps ==
  ASSUME MdTypes, ShownInv, start > 0, outcome = "running",
         NEW kind \in ElementKinds, NEW to \in Nat, NEW next \in Nat,
         Base <= to,
         IF kind = "brokenTable" THEN Base < to /\ to = next ELSE to + 1 = next,
         elements' = Append(elements, Element(kind, Base, to)),
         Base' = next, start' = start, file' = file, footnotes' = footnotes,
         \A k \in DOMAIN file : k < Base => lines'[k] = lines[k],
         \/ kind \in Thick
         \/ \A k \in DOMAIN file : k >= Base => lines'[k] = file[k]
  PROVE  ShownInv'
<1> USE BaseIs, ElementsAre
<1>0. Well /\ ElementsFollow /\ LinesAreIn /\ DamageIsIn
  BY DEF ShownInv, Well
<1> DEFINE n == Len(elements)  e == Element(kind, Base, to)
<1>1. e \in ElementType /\ e.kind = kind /\ e.from = Base /\ e.to = to
  BY DEF Element, ElementType
<1>2. /\ DOMAIN elements' = 1 .. n + 1 /\ Len(elements') = n + 1
      /\ elements'[n + 1] = e
      /\ \A i \in 1 .. n : elements'[i] = elements[i]
  <2>1. elements' = Append(elements, e)
    OBVIOUS
  <2> HIDE DEF e
  <2> QED BY <1>1, <2>1
<1>3. /\ \A i \in 1 .. n : elements[i] \in ElementType
      /\ \A i \in 1 .. n : elements[i].from \in Nat /\ elements[i].to \in Nat
  BY ElementIs
<1>4. \A i \in 1 .. n :
        /\ elements[i].from <= elements[i].to
        /\ IsBroken(elements[i]) => elements[i].from < elements[i].to
        /\ elements[i].to < Base \/ (i = n /\ IsBroken(elements[i]) /\ elements[i].to = Base)
  BY <1>0 DEF ElementsFollow
<1>5. \A i, j \in 1 .. n : i < j =>
        elements[i].to < elements[j].from
          \/ (j = i + 1 /\ IsBroken(elements[i]) /\ elements[i].to = elements[j].from)
  BY <1>0 DEF ElementsFollow
<1>6. IsBroken(e) <=> kind = "brokenTable"
  BY <1>1 DEF IsBroken
<1>7. Base < next
  OBVIOUS
<1>a. \A k \in Nat : Of(k) = {i \in 1 .. n : k \in elements[i].from .. elements[i].to}
  BY DEF Of
<1>b. \A k \in Nat : Of(k)' = {i \in 1 .. n + 1 : k \in elements'[i].from .. elements'[i].to}
  BY <1>2 DEF Of
<1>c. \A k \in Nat : Of(k) \subseteq Of(k)' /\ (k \in Base .. to => n + 1 \in Of(k)')
  <2> TAKE k \in Nat
  <2>1. \A i \in Of(k) : i \in 1 .. n + 1 /\ k \in elements'[i].from .. elements'[i].to
    BY <1>a, <1>2
  <2> HIDE DEF e
  <2> QED BY <2>1, <1>b, <1>1, <1>2
<1>8. ElementsFollow'
  <2>1. \A i \in DOMAIN elements' :
          /\ elements'[i].from <= elements'[i].to
          /\ IsBroken(elements'[i]) => elements'[i].from < elements'[i].to
          /\ \/ elements'[i].to < next
             \/ i = Len(elements') /\ IsBroken(elements'[i]) /\ elements'[i].to = next
    <3> HIDE DEF e
    <3> TAKE i \in DOMAIN elements'
    <3>1. CASE i = n + 1
      BY <3>1, <1>1, <1>2, <1>6
    <3>2. CASE i \in 1 .. n
      <4>1. elements'[i] = elements[i] /\ i \in DOMAIN elements
        BY <3>2, <1>2
      <4>2. elements[i].to \in Nat /\ elements[i].from <= elements[i].to
        BY <3>2, <1>3, <1>4
      <4>3. elements[i].to < Base \/ elements[i].to = Base
        BY <3>2, <1>4
      <4>4. elements[i].to < next
        BY <4>2, <4>3, <1>7
      <4>5. IsBroken(elements[i]) => elements[i].from < elements[i].to
        BY <3>2, <1>4
      <4> QED BY <4>1, <4>2, <4>4, <4>5
    <3> QED BY <3>1, <3>2, <1>2
  <2>2. \A i, j \in DOMAIN elements' : i < j =>
          \/ elements'[i].to < elements'[j].from
          \/ j = i + 1 /\ IsBroken(elements'[i]) /\ elements'[i].to = elements'[j].from
    <3> HIDE DEF e
    <3> SUFFICES ASSUME NEW i \in DOMAIN elements', NEW j \in DOMAIN elements', i < j
                 PROVE  \/ elements'[i].to < elements'[j].from
                        \/ j = i + 1 /\ IsBroken(elements'[i]) /\ elements'[i].to = elements'[j].from
      OBVIOUS
    <3>1. CASE j = n + 1
      <4>1. i \in 1 .. n
        BY <3>1, <1>2
      <4> QED BY <3>1, <4>1, <1>1, <1>2, <1>3, <1>4
    <3>2. CASE j \in 1 .. n
      BY <3>2, <1>2, <1>5
    <3> QED BY <3>1, <3>2, <1>2
  <2>3. ASSUME NEW x PROVE IsBroken(x)' <=> IsBroken(x)'
    OBVIOUS
  <2> QED BY <2>1, <2>2 DEF ElementsFollow, IsBroken
<1>9. LinesAreIn'
  <2>1. \A k : IsLeftOut(k)' = IsLeftOut(k)
    BY DEF IsLeftOut
  <2>2. \A k \in start .. next - 1 : Of(k)' # {} \/ IsLeftOut(k)
    <3> TAKE k \in start .. next - 1
    <3>1. CASE k < Base
      <4>1. Of(k) # {} \/ IsLeftOut(k)
        BY <3>1, <1>0 DEF LinesAreIn
      <4> QED BY <4>1, <1>c
    <3>2. CASE k >= Base
      <4>1. k \in Base .. to
        BY <3>2
      <4> QED BY <4>1, <1>c
    <3> QED BY <3>1, <3>2
  <2> QED BY <2>1, <2>2 DEF LinesAreIn
<1>10. DamageIsIn'
  <2>1. \A k \in DOMAIN file : lines'[k] # file[k] /\ k < next =>
          \E i \in Of(k)' : elements'[i].kind \in Thick
    <3> SUFFICES ASSUME NEW k \in DOMAIN file, lines'[k] # file[k], k < next
                 PROVE  \E i \in Of(k)' : elements'[i].kind \in Thick
      OBVIOUS
    <3>0. k \in Nat
      BY LinesAre
    <3>1. CASE k < Base
      <4>1. lines[k] # file[k]
        BY <3>1
      <4>2. PICK i \in Of(k) : elements[i].kind \in Thick
        BY <3>1, <4>1, <1>0 DEF DamageIsIn
      <4>3. i \in 1 .. n /\ i \in Of(k)'
        BY <3>0, <4>2, <1>a, <1>c
      <4> QED BY <4>2, <4>3, <1>2
    <3>2. CASE k >= Base
      <4>1. kind \in Thick /\ k \in Base .. to
        BY <3>0, <3>2 DEF Thick
      <4>2. n + 1 \in Of(k)' /\ elements'[n + 1].kind = kind
        BY <3>0, <4>1, <1>1, <1>2, <1>c
      <4> QED BY <4>1, <4>2
    <3>3. k < Base \/ k >= Base
      BY <3>0
    <3> QED BY <3>1, <3>2, <3>3, Zenon
  <2> QED BY <2>1 DEF DamageIsIn, Thick
<1> QED BY <1>8, <1>9, <1>10 DEF ShownInv

\* A line that nothing is made of is passed over.
LEMMA PassKeeps ==
  ASSUME MdTypes, ShownInv, start > 0, outcome = "running", at <= Len(file),
         Base = at, Base' = at + 1, lines[at] = file[at], \A k : k = at => IsLeftOut(k)',
         \A k \in DOMAIN footnotes :
           k \in DOMAIN footnotes' /\ (footnotes'[k] = footnotes[k] \/ footnotes'[k] = at),
         elements' = elements, start' = start, file' = file, lines' = lines
  PROVE  ShownInv'
<1> USE BaseIs, ElementsAre, LinesAre
<1>0. Well /\ ElementsFollow /\ LinesAreIn /\ DamageIsIn
  BY DEF ShownInv, Well
<1>1. \A k : Of(k)' = Of(k)
  BY DEF Of
<1>2. ElementsFollow'
  <2>1. \A i \in DOMAIN elements : elements[i].to < at \/ elements[i].to = at
    BY <1>0 DEF ElementsFollow
  <2>2. \A i \in DOMAIN elements : elements[i].to \in Nat
    BY ElementIs
  <2>3. \A i \in DOMAIN elements : elements[i].to < at + 1
    BY <2>1, <2>2
  <2> QED BY <1>0, <2>3 DEF ElementsFollow, IsBroken
<1>3. LinesAreIn'
  <2>1. \A k \in start .. at : Of(k) # {} \/ IsLeftOut(k)'
    <3> TAKE k \in start .. at
    <3>1. CASE k = at
      BY <3>1
    <3>2. CASE k # at
      <4>1. k \in start .. Base - 1
        BY <3>2
      <4>2. Of(k) # {} \/ IsLeftOut(k)
        BY <4>1, <1>0 DEF LinesAreIn
      <4>3. k <= at
        OBVIOUS
      <4>4. IsLeftOut(k) => IsLeftOut(k)'
        BY <4>3 DEF IsLeftOut
      <4> QED BY <4>2, <4>4
    <3> QED BY <3>1, <3>2
  <2>2. start .. (at + 1) - 1 = start .. at
    OBVIOUS
  <2> QED BY <2>1, <2>2, <1>1 DEF LinesAreIn
<1>4. DamageIsIn'
  <2>1. \A k \in DOMAIN file : lines[k] # file[k] /\ k < at + 1 => k < at
    OBVIOUS
  <2> QED BY <1>0, <1>1, <2>1 DEF DamageIsIn, Thick
<1> QED BY <1>2, <1>3, <1>4 DEF ShownInv

\* Nothing new is parsed.
LEMMA StayKeeps ==
  ASSUME MdTypes, ShownInv, Well' => Well,
         Base' = Base, elements' = elements, start' = start, file' = file, footnotes' = footnotes,
         \A k \in DOMAIN file : k < Base => lines'[k] = lines[k]
  PROVE  ShownInv'
<1>1. \A k : Of(k)' = Of(k)
  BY DEF Of
<1>2. \A k : IsLeftOut(k)' = IsLeftOut(k)
  BY DEF IsLeftOut
<1> QED BY <1>1, <1>2 DEF ShownInv, ElementsFollow, LinesAreIn, DamageIsIn, IsBroken, Thick

---------------------------------------------------------------------------
\* At a line that begins a block.
AtALine == outcome = "running" /\ start > 0 /\ frames = <<>>

\* It is a line of the text, as it was written.
LEMMA HereIs ==
  ASSUME MarkdownInv, AtALine
  PROVE  /\ at \in Nat \ {0} /\ at <= Len(file) /\ at \in DOMAIN lines /\ at \in DOMAIN file
         /\ Base = at /\ lines[at] = file[at] /\ lines[at] \in Line
         /\ \A k \in DOMAIN file : k >= at => lines[k] = file[k]
<1>1. MdTypes /\ Whereabouts /\ UnparsedIntact
  BY DEF MarkdownInv
<1>2. at \in Nat \ {0} /\ at <= Len(file) /\ Base = at
  BY <1>1 DEF MdTypes, Whereabouts, AtALine, Base
<1>3. at \in DOMAIN lines /\ at \in DOMAIN file /\ lines[at] \in Line
  BY <1>1, <1>2, LinesAre
<1>4. \A k \in at .. Len(file) : lines[k] = file[k]
  BY <1>1 DEF UnparsedIntact
<1>5. \A k \in DOMAIN file : k >= at => k \in at .. Len(file)
  BY <1>1, <1>2, LinesAre
<1> QED BY <1>1, <1>2, <1>3, <1>4, <1>5

\* A block does not touch the lists.
LEMMA NoListKeeps ==
  ASSUME MarkdownInv, outcome = "running", frames = <<>>, frames' = <<>>, items' = items
  PROVE  ListInv'
<1>1. TwiceIsDoomed /\ ItemsFollow
  BY DEF MarkdownInv, ListInv
<1>2. ~\E i \in 2 .. Len(items) : items[i].line = items[i - 1].line /\ items[i - 1].whole
  BY <1>1 DEF TwiceIsDoomed, InListNow
<1>3. ~InListNow'
  BY DEF InListNow
<1>4. TwiceIsDoomed'
  BY <1>2, <1>3 DEF TwiceIsDoomed
<1>5. ItemsFollow'
  BY <1>1 DEF ItemsFollow
<1>6. LineIsItem'
  BY <1>3 DEF LineIsItem
<1>7. FramesDeepen'
  BY DEF FramesDeepen
<1> QED BY <1>4, <1>5, <1>6, <1>7 DEF ListInv

\* What it leaves of the rest.
LEMMA MovesOn ==
  ASSUME MarkdownInv, AtALine, NEW next \in Nat, at < next, next <= Len(file) + 1, Advance(next),
         lines' = lines \/ \E l \in Line : lines' = [lines EXCEPT ![at] = l],
         elements' \in Seq(ElementType), frames' = frames, items' = items
  PROVE  MdTypes' /\ Whereabouts' /\ UnparsedIntact' /\ ListInv'
<1>0. MdTypes /\ Whereabouts /\ UnparsedIntact
  BY DEF MarkdownInv
<1>1. /\ lines' \in Seq(Line) /\ Len(lines') = Len(lines)
      /\ \A k \in DOMAIN lines : k # at => lines'[k] = lines[k]
  <2>1. CASE lines' = lines
    BY <2>1, <1>0 DEF MdTypes
  <2>2. CASE \E l \in Line : lines' = [lines EXCEPT ![at] = l]
    BY <2>2, <1>0, HereIs, ChangedIsText
  <2> QED BY <2>1, <2>2
<1>2. /\ at' = next /\ file' = file /\ start' = start
      /\ outcome' = IF next > Len(lines) THEN "parsed" ELSE "running"
  BY DEF Advance
<1>3. outcome' \in {"parsed", "running"} /\ (outcome' = "running" => next <= Len(file))
  BY <1>0, <1>2, LinesAre
<1>4. MdTypes'
  BY <1>0, <1>1, <1>2, <1>3 DEF MdTypes
<1>5. Whereabouts'
  <2>1. start <= next
    BY <1>0, BaseIs DEF Whereabouts
  <2> QED BY <1>0, <1>2, <1>3, <2>1 DEF Whereabouts, AtALine
<1>6. UnparsedIntact'
  <2>1. \A k \in next .. Len(file) : k \in DOMAIN lines /\ k # at /\ k \in DOMAIN file /\ k >= at
    BY <1>0, HereIs, LinesAre
  <2>2. \A k \in next .. Len(file) : lines'[k] = file[k]
    BY <2>1, <1>1, HereIs
  <2> QED BY <2>2, <1>2 DEF UnparsedIntact
<1>7. ListInv'
  BY NoListKeeps DEF AtALine
<1> QED BY <1>4, <1>5, <1>6, <1>7

\* A block that is one element keeps the invariant, whatever it is,
LEMMA BlockKeeps ==
  ASSUME MarkdownInv, AtALine, NEW kind \in ElementKinds, NEW to \in Nat, NEW next \in Nat,
         at <= to, next <= Len(file) + 1,
         IF kind = "brokenTable" THEN at < to /\ to = next ELSE to + 1 = next,
         Push(kind, to), Advance(next),
         lines' = lines \/ (kind \in Thick /\ \E l \in Line : lines' = [lines EXCEPT ![at] = l]),
         frames' = frames, items' = items, footnotes' = footnotes
  PROVE  MarkdownInv'
<1>0. MdTypes /\ ShownInv
  BY DEF MarkdownInv
<1> USE HereIs
<1>1. elements' = Append(elements, Element(kind, Base, to))
  BY DEF Push
<1>2. Element(kind, Base, to) \in ElementType
  BY DEF Element, ElementType
<1>3. elements' \in Seq(ElementType)
  BY <1>0, <1>1, <1>2, ElementsAre
<1>4. at < next
  OBVIOUS
<1>5. MdTypes' /\ Whereabouts' /\ UnparsedIntact' /\ ListInv'
  BY <1>3, <1>4, MovesOn
<1>6. at' = next /\ start' = start /\ file' = file
  BY DEF Advance
<1>7. Base' = next
  BY <1>6 DEF Base, AtALine
<1>8. \A k \in DOMAIN file : k < Base => lines'[k] = lines[k]
  <2>1. \A k \in DOMAIN file : k \in DOMAIN lines
    BY <1>0, LinesAre
  <2> QED BY <1>0, <2>1, ChangedIsText
<1>9. kind \in Thick \/ \A k \in DOMAIN file : k >= Base => lines'[k] = file[k]
  OBVIOUS
<1>10. start > 0 /\ outcome = "running"
  BY DEF AtALine
<1>11. ShownInv'
  BY <1>0, <1>1, <1>6, <1>7, <1>8, <1>9, <1>10, PushKeeps
<1> QED BY <1>5, <1>11 DEF MarkdownInv

\* and so does a line that is left out.
LEMMA LeaveOutKeeps ==
  ASSUME MarkdownInv, AtALine, Advance(at + 1), \A k : k = at => IsLeftOut(k)',
         \A k \in DOMAIN footnotes :
           k \in DOMAIN footnotes' /\ (footnotes'[k] = footnotes[k] \/ footnotes'[k] = at),
         UNCHANGED <<lines, elements, frames, items>>
  PROVE  MarkdownInv'
<1>0. MdTypes /\ ShownInv
  BY DEF MarkdownInv
<1>1. at + 1 \in Nat /\ at < at + 1 /\ at + 1 <= Len(file) + 1
  BY <1>0, HereIs, LinesAre
<1>2. elements' \in Seq(ElementType)
  BY <1>0, ElementsAre
<1>3. MdTypes' /\ Whereabouts' /\ UnparsedIntact' /\ ListInv'
  BY <1>1, <1>2, MovesOn
<1>4. at' = at + 1 /\ start' = start /\ file' = file
  BY DEF Advance
<1>5. Base' = at + 1 /\ Base = at
  BY <1>4, HereIs DEF Base, AtALine
<1>6. ShownInv'
  BY <1>0, <1>4, <1>5, HereIs, PassKeeps DEF AtALine
<1> QED BY <1>3, <1>6 DEF MarkdownInv

\* The parser stops.
LEMMA StopKeeps ==
  ASSUME MarkdownInv, outcome = "running", Refuse \/ Throw, start = 0 => outcome' = "thrown"
  PROVE  MarkdownInv'
<1>0. MdTypes /\ Whereabouts /\ UnparsedIntact /\ ShownInv /\ ListInv
  BY DEF MarkdownInv
<1>1. /\ outcome' \in {"refused", "thrown"}
      /\ UNCHANGED <<file, lines, at, start, elements, frames, items, footnotes>>
  BY DEF Refuse, Throw
<1>2. MdTypes'
  BY <1>0, <1>1 DEF MdTypes
<1>3. Whereabouts'
  BY <1>0, <1>1 DEF Whereabouts
<1>4. UnparsedIntact'
  BY <1>0, <1>1 DEF UnparsedIntact
<1>5. ShownInv'
  <2>1. ~Well'
    BY <1>1 DEF Well
  <2> QED BY <2>1 DEF ShownInv, ElementsFollow, LinesAreIn, DamageIsIn
<1>6. ListInv'
  <2>1. ~InListNow'
    BY <1>1 DEF InListNow
  <2>2. LineIsItem' /\ TwiceIsDoomed'
    BY <2>1, <1>1 DEF LineIsItem, TwiceIsDoomed
  <2>3. FramesDeepen' /\ ItemsFollow'
    BY <1>0, <1>1 DEF ListInv, FramesDeepen, ItemsFollow
  <2> QED BY <2>2, <2>3 DEF ListInv
<1> QED BY <1>2, <1>3, <1>4, <1>5, <1>6 DEF MarkdownInv

---------------------------------------------------------------------------
LEMMA InitMarkdown == ASSUME MdInit PROVE MarkdownInv
<1>1. PICK content \in Files : Read(content)
  BY DEF MdInit
<1>2. /\ content \in Seq(Line)
      /\ \A k \in DOMAIN content : IsLine(content[k])
  BY FilesAssumption
<1> USE <1>1, <1>2 DEF Read
<1>3. MdTypes
  BY DEF MdTypes
<1>4. Whereabouts /\ UnparsedIntact
  BY DEF Whereabouts, UnparsedIntact
<1>5. ShownInv
  BY DEF ShownInv, Well, ElementsFollow, LinesAreIn, DamageIsIn
<1>6. ListInv
  BY DEF ListInv, FramesDeepen, LineIsItem, TwiceIsDoomed, ItemsFollow, InListNow
<1> QED BY <1>3, <1>4, <1>5, <1>6 DEF MarkdownInv

\* Before the body there is no element yet.
LEMMA MetadataKeeps == ASSUME MarkdownInv, ParseMetadata PROVE MarkdownInv'
<1> DEFINE first == FirstFrom(1, Filled)
           close == FirstFrom(first + 1, Dashes)
           body == IF IsDashes(lines[first]) THEN close + 1 ELSE first
           Fails == ~InFile(first) \/ (IsDashes(lines[first]) /\ ~InFile(close))
<1>0. MdTypes /\ Whereabouts /\ UnparsedIntact /\ ShownInv /\ ListInv
  BY DEF MarkdownInv
<1>1. /\ start = 0 /\ outcome = "running"
      /\ IF Fails THEN Throw
         ELSE /\ start' = body /\ at' = body
              /\ outcome' = IF body > Len(lines) THEN "parsed" ELSE "running"
              /\ UNCHANGED <<file, lines, elements, frames, items, footnotes>>
  BY DEF ParseMetadata
<1>2. CASE Fails
  <2>1. Throw /\ outcome' = "thrown"
    BY <1>1, <1>2 DEF Throw
  <2> QED BY <1>1, <2>1, StopKeeps
<1>3. CASE ~Fails
  <2>1. Filled \in SUBSET DOMAIN lines /\ Dashes \in SUBSET DOMAIN lines
    BY DEF Filled, Dashes
  <2>2. first \in Nat /\ 1 <= first /\ first \in DOMAIN lines
    BY <1>0, <1>3, <2>1, FirstIs, LinesAre DEF InFile
  <2>3. first <= Len(lines) /\ DOMAIN lines = 1 .. Len(lines) /\ Len(lines) \in Nat
    BY <1>0, <2>2, LinesAre
  <2>4. close \in Nat /\ first < close
    <3> HIDE DEF first
    <3> QED BY <1>0, <2>1, <2>2, <2>3, FirstIs
  <2>5. IsDashes(lines[first]) => close \in DOMAIN lines
    BY <1>3 DEF InFile
  <2>6. body \in Nat /\ 1 <= body /\ body <= Len(lines) + 1
    <3> HIDE DEF first, close
    <3> QED BY <2>2, <2>3, <2>4, <2>5
  <2>7. /\ start' = body /\ at' = body
        /\ outcome' = IF body > Len(lines) THEN "parsed" ELSE "running"
        /\ UNCHANGED <<file, lines, elements, frames, items, footnotes>>
    BY <1>1, <1>3
  <2>8. at = 1 /\ elements = <<>> /\ frames = <<>>
    BY <1>0, <1>1 DEF Whereabouts
  <2> HIDE DEF body, first, close, Fails
  <2>9. Len(file) = Len(lines) /\ DOMAIN file = 1 .. Len(lines)
    BY <1>0, LinesAre
  <2>10. MdTypes'
    BY <1>0, <2>3, <2>6, <2>7, <2>9 DEF MdTypes
  <2>11. Whereabouts'
    BY <2>3, <2>6, <2>7, <2>8, <2>9 DEF Whereabouts
  <2>12. \A k \in DOMAIN file : lines[k] = file[k]
    <3>1. \A k \in at .. Len(file) : lines[k] = file[k]
      BY <1>0 DEF UnparsedIntact
    <3> QED BY <2>8, <2>9, <3>1
  <2>13. UnparsedIntact'
    BY <2>6, <2>7, <2>9, <2>12, <2>3 DEF UnparsedIntact
  <2>14. ShownInv'
    <3>1. Base' = body
      BY <2>7, <2>8 DEF Base
    <3>2. ElementsFollow'
      BY <2>7, <2>8 DEF ElementsFollow
    <3>3. body .. body - 1 = {}
      BY <2>6
    <3>4. LinesAreIn'
      BY <2>7, <3>1, <3>3 DEF LinesAreIn
    <3>5. DamageIsIn'
      BY <2>7, <2>12 DEF DamageIsIn
    <3> QED BY <3>2, <3>4, <3>5 DEF ShownInv
  <2>15. ListInv'
    BY <1>1, <2>7, <2>8, NoListKeeps
  <2> QED BY <2>10, <2>11, <2>13, <2>14, <2>15 DEF MarkdownInv
<1> QED BY <1>2, <1>3

LEMMA AtIsHere == ASSUME NEW kinds, At(kinds) PROVE AtALine /\ lines[at].kind \in kinds
BY DEF At, AtALine

LEMMA OneLineKeeps == ASSUME MarkdownInv, ParseOneLine PROVE MarkdownInv'
<1> DEFINE kind == lines[at].kind
<1>1. /\ AtALine /\ Push(kind, at) /\ Advance(at + 1)
      /\ lines' = lines /\ frames' = frames /\ items' = items /\ footnotes' = footnotes
  BY AtIsHere DEF ParseOneLine, AtMark
<1>2. kind \in ElementKinds /\ kind # "brokenTable"
  <2>1. kind \in {"heading", "dashes", "image", "formula", "html"}
    BY DEF ParseOneLine, AtMark, At
  <2> QED BY <2>1 DEF ElementKinds, Kinds
<1>3. at \in Nat /\ at + 1 \in Nat /\ at + 1 <= Len(file) + 1 /\ at <= at /\ at + 1 = at + 1
  <2>1. at \in Nat /\ at <= Len(file) /\ Len(file) \in Nat
    BY <1>1, HereIs, LinesAre DEF MarkdownInv
  <2> QED BY <2>1
<1> HIDE DEF kind
<1> QED BY <1>1, <1>2, <1>3, BlockKeeps

LEMMA FootnoteKeeps == ASSUME MarkdownInv, ParseFootnote PROVE MarkdownInv'
<1> DEFINE n == lines[at].cells
<1>1. /\ AtALine /\ Advance(at + 1)
      /\ footnotes' = [i \in DOMAIN footnotes \cup {n} |-> IF i = n THEN at ELSE footnotes[i]]
      /\ UNCHANGED <<lines, elements, frames, items>>
  BY AtIsHere DEF ParseFootnote, AtMark
<1>2. lines[at].kind = "note"
  BY AtIsHere DEF ParseFootnote, AtMark
<1>3. /\ at \in Nat /\ lines[at] = file[at]
  BY <1>1, HereIs
<1>4. file' = file
  BY <1>1 DEF Advance
<1>5. n \in DOMAIN footnotes' /\ footnotes'[n] >= at
  BY <1>1, <1>3
<1>6. \A k : k = at => IsLeftOut(k)'
  <2> SUFFICES ASSUME NEW k, k = at PROVE IsLeftOut(k)'
    OBVIOUS
  <2>1. file[k].kind = "note" /\ file[k].cells = n
    BY <1>2, <1>3
  <2>2. file'[k].kind = "note" /\ file'[k].cells = n
    BY <1>4, <2>1
  <2> QED BY <1>5, <2>2 DEF IsLeftOut
<1>7. \A k \in DOMAIN footnotes :
        k \in DOMAIN footnotes' /\ (footnotes'[k] = footnotes[k] \/ footnotes'[k] = at)
  BY <1>1
<1> QED BY <1>1, <1>6, <1>7, LeaveOutKeeps

LEMMA BadImageKeeps == ASSUME MarkdownInv, ParseBadImage PROVE MarkdownInv'
<1>1. AtALine /\ Refuse
  BY AtIsHere DEF ParseBadImage, AtMark
<1> QED BY <1>1, StopKeeps DEF AtALine

LEMMA ParagraphKeeps == ASSUME MarkdownInv, AtALine, Paragraph PROVE MarkdownInv'
<1>0. at \in Nat /\ at <= Len(file) /\ Len(file) \in Nat /\ lines[at] = file[at]
  BY HereIs, LinesAre DEF MarkdownInv
<1>1. CASE lines[at].good /\ ~IsBlank(lines[at])
  <2>1. /\ Push("paragraph", at) /\ Advance(at + 1)
        /\ lines' = lines /\ frames' = frames /\ items' = items /\ footnotes' = footnotes
    BY <1>1 DEF Paragraph
  <2>2. at + 1 \in Nat /\ at + 1 <= Len(file) + 1 /\ at <= at
    BY <1>0
  <2>3. "paragraph" \in ElementKinds /\ "paragraph" # "brokenTable"
    BY DEF ElementKinds
  <2> QED BY <1>0, <2>1, <2>2, <2>3, BlockKeeps
<1>2. CASE ~(lines[at].good /\ ~IsBlank(lines[at]))
  <2>1. /\ Advance(at + 1) /\ UNCHANGED <<lines, elements, frames, items>>
        /\ footnotes' = footnotes
    BY <1>2 DEF Paragraph
  <2>2. \A k : k = at => IsLeftOut(k)'
    <3>1. file' = file
      BY <2>1 DEF Advance
    <3> QED BY <1>0, <1>2, <3>1 DEF IsLeftOut, IsBlank
  <2> QED BY <2>1, <2>2, LeaveOutKeeps
<1> QED BY <1>1, <1>2

LEMMA DefaultKeeps == ASSUME MarkdownInv, ParseDefault PROVE MarkdownInv'
<1>1. AtALine /\ Paragraph
  BY AtIsHere DEF ParseDefault, AtMark
<1> QED BY <1>1, ParagraphKeeps

\* The line with which the first of a block is overwritten is one of the text.
LEMMA OverwrittenIs ==
  ASSUME MdTypes, NEW k, lines # <<>>, lines' = Overwritten(k)
  PROVE  \E l \in Line : lines' = [lines EXCEPT ![at] = l]
<1>1. Len(lines) \in DOMAIN lines
  BY LinesAre DEF MdTypes
<1>2. (IF InFile(k) THEN lines[k] ELSE lines[Len(lines)]) \in Line
  BY <1>1, LinesAre DEF InFile
<1> QED BY <1>2 DEF Overwritten

LEMMA BlockquoteKeeps == ASSUME MarkdownInv, ParseBlockquote PROVE MarkdownInv'
<1> DEFINE next == FirstFrom(at + 1, NoQuotes)
<1>1. /\ AtALine /\ lines' = Overwritten(next) /\ Push("quote", next - 1) /\ Advance(next)
      /\ frames' = frames /\ items' = items /\ footnotes' = footnotes
  BY AtIsHere DEF ParseBlockquote, AtMark
<1>2. /\ MdTypes /\ at \in Nat /\ at <= Len(file) /\ Len(file) \in Nat /\ Len(file) = Len(lines)
      /\ lines # <<>>
  BY <1>1, HereIs, LinesAre DEF MarkdownInv
<1>3. NoQuotes \in SUBSET DOMAIN lines
  BY DEF NoQuotes
<1>4. next \in Nat /\ at + 1 <= next /\ next <= Len(lines) + 1
  BY <1>2, <1>3, FirstIs
<1>5. \E l \in Line : lines' = [lines EXCEPT ![at] = l]
  BY <1>1, <1>2, OverwrittenIs
<1> HIDE DEF next
<1>6. next - 1 \in Nat /\ at <= next - 1 /\ (next - 1) + 1 = next /\ next <= Len(file) + 1
  BY <1>2, <1>4
<1>7. "quote" \in ElementKinds /\ "quote" # "brokenTable" /\ "quote" \in Thick
  BY DEF ElementKinds, Kinds, Thick
<1> QED BY <1>1, <1>4, <1>5, <1>6, <1>7, BlockKeeps

LEMMA CodeblockKeeps == ASSUME MarkdownInv, ParseCodeblock PROVE MarkdownInv'
<1> DEFINE close == FirstFrom(at + 1, Fences)
<1>1. /\ AtALine
      /\ IF InFile(close)
         THEN /\ lines' = Overwritten(close) /\ Push("code", close) /\ Advance(close + 1)
              /\ UNCHANGED <<frames, items, footnotes>>
         ELSE Refuse
  BY AtIsHere DEF ParseCodeblock, AtMark
<1>2. /\ MdTypes /\ at \in Nat /\ at <= Len(file) /\ Len(file) \in Nat /\ Len(file) = Len(lines)
      /\ lines # <<>>
  BY <1>1, HereIs, LinesAre DEF MarkdownInv
<1>3. Fences \in SUBSET DOMAIN lines
  BY DEF Fences
<1>4. close \in Nat /\ at + 1 <= close
  BY <1>2, <1>3, FirstIs
<1>5. CASE InFile(close)
  <2>1. close <= Len(file)
    BY <1>2, <1>5, LinesAre DEF InFile
  <2>2. \E l \in Line : lines' = [lines EXCEPT ![at] = l]
    BY <1>1, <1>2, <1>5, OverwrittenIs
  <2>3. /\ Push("code", close) /\ Advance(close + 1)
        /\ frames' = frames /\ items' = items /\ footnotes' = footnotes
    BY <1>1, <1>5
  <2> HIDE DEF close
  <2>4. at <= close /\ close + 1 \in Nat /\ close + 1 <= Len(file) + 1
    BY <1>2, <1>4, <2>1
  <2>5. "code" \in ElementKinds /\ "code" # "brokenTable" /\ "code" \in Thick
    BY DEF ElementKinds, Thick
  <2> QED BY <1>1, <1>4, <2>2, <2>3, <2>4, <2>5, BlockKeeps
<1>6. CASE ~InFile(close)
  BY <1>1, <1>6, StopKeeps DEF AtALine
<1> QED BY <1>5, <1>6

LEMMA LatexKeeps == ASSUME MarkdownInv, ParseLatex PROVE MarkdownInv'
<1> DEFINE close == FirstFrom(at + 1, FormulaEnds)
<1>1. /\ AtALine
      /\ IF InFile(close)
         THEN /\ Push("formula", close) /\ Advance(close + 1)
              /\ UNCHANGED <<lines, frames, items, footnotes>>
         ELSE Paragraph
  BY AtIsHere DEF ParseLatex, AtMark
<1>2. MdTypes /\ at \in Nat /\ at <= Len(file) /\ Len(file) \in Nat /\ Len(file) = Len(lines)
  BY <1>1, HereIs, LinesAre DEF MarkdownInv
<1>3. FormulaEnds \in SUBSET DOMAIN lines
  BY DEF FormulaEnds
<1>4. close \in Nat /\ at + 1 <= close
  BY <1>2, <1>3, FirstIs
<1>5. CASE InFile(close)
  <2>1. close <= Len(file)
    BY <1>2, <1>5, LinesAre DEF InFile
  <2>2. /\ Push("formula", close) /\ Advance(close + 1)
        /\ lines' = lines /\ frames' = frames /\ items' = items /\ footnotes' = footnotes
    BY <1>1, <1>5
  <2> HIDE DEF close
  <2>3. at <= close /\ close + 1 \in Nat /\ close + 1 <= Len(file) + 1
    BY <1>2, <1>4, <2>1
  <2>4. "formula" \in ElementKinds /\ "formula" # "brokenTable"
    BY DEF ElementKinds, Kinds
  <2> QED BY <1>1, <1>4, <2>2, <2>3, <2>4, BlockKeeps
<1>6. CASE ~InFile(close)
  BY <1>1, <1>6, ParagraphKeeps
<1> QED BY <1>5, <1>6

LEMMA TableKeeps == ASSUME MarkdownInv, ParseTable PROVE MarkdownInv'
<1> DEFINE columns == lines[at].cells
           Ends == {j \in DOMAIN lines : lines[j].kind # "row" \/ lines[j].goodCells # columns}
           next == FirstFrom(at + 2, Ends)
           broken == InFile(next) /\ lines[next].kind = "row"
<1>1. /\ AtALine
      /\ IF ~InFile(at + 1) THEN Throw
         ELSE IF lines[at + 1].kind # "row" THEN Paragraph
         ELSE IF lines[at + 1].cells # columns THEN Refuse
         ELSE IF ~InFile(at + 2) THEN Throw
         ELSE /\ Push(IF broken THEN "brokenTable" ELSE "table", IF broken THEN next ELSE next - 1)
              /\ Advance(next)
              /\ UNCHANGED <<lines, frames, items, footnotes>>
  BY AtIsHere DEF ParseTable, AtMark
<1>2. MdTypes /\ at \in Nat /\ at <= Len(file) /\ Len(file) \in Nat /\ Len(file) = Len(lines)
  BY <1>1, HereIs, LinesAre DEF MarkdownInv
<1>3. CASE Refuse \/ Throw
  BY <1>1, <1>3, StopKeeps DEF AtALine
<1>4. CASE Paragraph
  BY <1>1, <1>4, ParagraphKeeps
<1>5. CASE ~(Refuse \/ Throw \/ Paragraph)
  <2>1. /\ InFile(at + 2)
        /\ Push(IF broken THEN "brokenTable" ELSE "table", IF broken THEN next ELSE next - 1)
        /\ Advance(next)
        /\ lines' = lines /\ frames' = frames /\ items' = items /\ footnotes' = footnotes
    BY <1>1, <1>5
  <2>2. Ends \in SUBSET DOMAIN lines /\ at + 2 <= Len(lines)
    BY <1>2, <2>1, LinesAre DEF InFile
  <2>3. next \in Nat /\ at + 2 <= next /\ next <= Len(lines) + 1
    <3> HIDE DEF Ends
    <3> QED BY <1>2, <2>2, FirstIs
  <2> HIDE DEF next
  <2>4. CASE broken
    <3>1. Push("brokenTable", next)
      BY <2>1, <2>4
    <3>2. at <= next /\ at < next /\ next <= Len(file) + 1
      BY <1>2, <2>3
    <3>3. "brokenTable" \in ElementKinds
      BY DEF ElementKinds
    <3> QED BY <1>1, <2>1, <2>3, <3>1, <3>2, <3>3, BlockKeeps
  <2>5. CASE ~broken
    <3>1. Push("table", next - 1)
      BY <2>1, <2>5
    <3>2. next - 1 \in Nat /\ at <= next - 1 /\ (next - 1) + 1 = next /\ next <= Len(file) + 1
      BY <1>2, <2>3
    <3>3. "table" \in ElementKinds /\ "table" # "brokenTable"
      BY DEF ElementKinds
    <3> QED BY <1>1, <2>1, <2>3, <3>1, <3>2, <3>3, BlockKeeps
  <2> QED BY <2>4, <2>5
<1> QED BY <1>3, <1>4, <1>5

---------------------------------------------------------------------------
(* Lists. *)
LEMMA ListIs ==
  ASSUME MarkdownInv, InList
  PROVE  /\ start > 0 /\ outcome = "running" /\ InListNow
         /\ at \in Nat \ {0} /\ at <= Len(file) + 1 /\ Len(file) \in Nat
         /\ frames \in Seq(Frame) /\ Len(frames) \in Nat \ {0}
         /\ Top \in Frame /\ Top = frames[Len(frames)]
         /\ Top.pos \in Nat /\ Top.ordered \in BOOLEAN
         /\ items \in Seq(ItemType) /\ Base \in Nat /\ Base <= at
<1>1. MdTypes /\ Whereabouts /\ ListInv
  BY DEF MarkdownInv
<1>2. frames # <<>> /\ outcome = "running" /\ InListNow
  BY DEF InList, InListNow
<1>3. start > 0
  BY <1>1, <1>2 DEF Whereabouts, MdTypes
<1>4. /\ at \in Nat \ {0} /\ at <= Len(file) + 1 /\ Len(file) \in Nat /\ frames \in Seq(Frame)
      /\ items \in Seq(ItemType) /\ Base \in Nat
  BY <1>1, BaseIs, LinesAre DEF MdTypes
<1>5. Len(frames) \in Nat \ {0} /\ frames[Len(frames)] \in Frame
  BY <1>2, <1>4
<1>6. Top = frames[Len(frames)]
  BY DEF Top, Last
<1>7. frames[Len(frames)].pos \in Nat /\ frames[Len(frames)].ordered \in BOOLEAN
  BY <1>5 DEF Frame
<1>8. Base <= at
  <2>1. items # <<>> => items[1].line < at
    BY <1>1, <1>2 DEF ListInv, LineIsItem
  <2>2. items # <<>> => items[1] \in ItemType
    BY <1>4
  <2> QED BY <2>1, <2>2, <1>4 DEF Base, ItemType
<1> QED BY <1>2, <1>3, <1>4, <1>5, <1>6, <1>7, <1>8

LEMMA CutIs ==
  ASSUME NEW f \in Frame
  PROVE  f.pos \in Nat /\ Cut(f) = f.pos + (IF f.ordered THEN 2 ELSE 1)
BY DEF Cut, Frame

LEMMA BeginIs ==
  ASSUME NEW l \in Line, NEW ordered \in BOOLEAN, Begins(l, ordered)
  PROVE  /\ Begin(l) = l.indent + (IF ordered THEN 2 ELSE 1) /\ l.indent \in Nat
         /\ l.kind # "blank"
BY LineIs DEF Begins, Begin

LEMMA FrameIs ==
  ASSUME MarkdownInv, InList
  PROVE  \A n \in DOMAIN frames : frames[n] \in Frame
BY ListIs

\* A line that every list around it sees from its mark on has nothing to cut off.
LEMMA DoomedMeans ==
  ASSUME MarkdownInv, TakesItem, Doomed
  PROVE  TRUE \notin CutText(lines[at], Top)
<1>1. InList
  BY DEF TakesItem
<1>2. Cut(Top) <= Begin(lines[at]) /\ ~lines[at].good
  <2>1. Len(frames) \in DOMAIN frames /\ Top = frames[Len(frames)]
    BY <1>1, ListIs
  <2> QED BY <2>1 DEF Doomed
<1> QED BY <1>2 DEF CutText

\* The item that is taken.
LEMMA ItemIs ==
  ASSUME MarkdownInv, TakesItem, items' = Append(items, Item(lines[at], Top))
  PROVE  /\ items' \in Seq(ItemType) /\ items' # <<>> /\ Len(items') = Len(items) + 1
         /\ items'[Len(items) + 1] = Item(lines[at], Top)
         /\ \A i \in 1 .. Len(items) : items'[i] = items[i]
         /\ Item(lines[at], Top).line = at /\ Item(lines[at], Top).depth = Len(frames)
         /\ Item(lines[at], Top).whole <=> IsWholeFor(lines[at], Top)
         /\ items'[1].line = Base
<1>0. InList
  BY DEF TakesItem
<1> USE ListIs
<1> DEFINE it == Item(lines[at], Top)
<1>1. it.line = at /\ it.depth = Len(frames)
  BY DEF Item
<1>2. it.whole = (Begins(lines[at], Top.ordered) /\ lines[at].indent = Top.pos)
  BY DEF Item
<1>3. it.whole <=> IsWholeFor(lines[at], Top)
  BY <1>2 DEF IsWholeFor
<1>4. it \in ItemType
  <2>1. (Begins(lines[at], Top.ordered) /\ lines[at].indent = Top.pos) \in BOOLEAN
    OBVIOUS
  <2>2. at \in Nat /\ Len(frames) \in Nat
    BY <1>0
  <2> QED BY <2>1, <2>2, Zenon DEF Item, ItemType
<1>5. items \in Seq(ItemType)
  BY <1>0
<1>6. items' = Append(items, it)
  OBVIOUS
<1> HIDE DEF it
<1>7. /\ items' \in Seq(ItemType) /\ items' # <<>> /\ Len(items') = Len(items) + 1
      /\ items'[Len(items) + 1] = it
      /\ \A i \in 1 .. Len(items) : items'[i] = items[i]
  BY <1>4, <1>5, <1>6
<1>8. items'[1].line = Base
  <2>1. CASE items = <<>>
    <3>1. items'[1] = it /\ Base = at
      BY <2>1, <1>7 DEF Base
    <3> QED BY <3>1, <1>1
  <2>2. CASE items # <<>>
    <3>1. items'[1] = items[1] /\ Base = items[1].line
      BY <2>2, <1>0, <1>5, <1>7 DEF Base, InList
    <3> QED BY <3>1
  <2> QED BY <2>1, <2>2
<1> QED BY <1>1, <1>3, <1>7, <1>8 DEF it

\* It goes with the ones before it.
LEMMA ItemFollows ==
  ASSUME MarkdownInv, TakesItem, items' = Append(items, Item(lines[at], Top))
  PROVE  ItemsFollow'
<1>1. ListInv /\ InListNow /\ at \in Nat /\ Len(items) \in Nat
  BY ListIs DEF MarkdownInv, TakesItem
<1>2. items # <<>> =>
        /\ IsWholeFor(lines[at], Top) \/ Last(items).depth > Len(frames)
        /\ \/ Last(items).line = at - 1
           \/ Last(items).line = at /\ Last(items).depth > Len(frames)
  BY <1>1 DEF ListInv, LineIsItem
<1> DEFINE it == Item(lines[at], Top)  n == Len(items)
<1>3. /\ Len(items') = n + 1 /\ items'[n + 1] = it
      /\ \A i \in 1 .. n : items'[i] = items[i]
      /\ it.line = at /\ it.depth = Len(frames) /\ (it.whole <=> IsWholeFor(lines[at], Top))
  BY ItemIs
<1>4. n # 0 => Last(items) = items[n] /\ items # <<>>
  BY DEF Last
<1>5. \A i \in 2 .. n :
        /\ ~items[i].whole => items[i].depth < items[i - 1].depth
        /\ \/ items[i].line = items[i - 1].line + 1
           \/ items[i].line = items[i - 1].line /\ items[i].depth < items[i - 1].depth
  BY <1>1 DEF ListInv, ItemsFollow
<1>6. \A i \in 1 .. n : items[i].line \in Nat /\ items[i].depth \in Nat
  <2>1. \A i \in 1 .. n : items[i] \in ItemType
    BY ListIs DEF TakesItem
  <2> QED BY <2>1 DEF ItemType
<1>7. \A i \in 2 .. n + 1 :
        /\ ~items'[i].whole => items'[i].depth < items'[i - 1].depth
        /\ \/ items'[i].line = items'[i - 1].line + 1
           \/ items'[i].line = items'[i - 1].line /\ items'[i].depth < items'[i - 1].depth
  <2> HIDE DEF it
  <2> TAKE i \in 2 .. n + 1
  <2>1. CASE i = n + 1
    <3>1. items'[i] = it /\ items'[i - 1] = items[n] /\ n # 0 /\ n \in 1 .. n
      BY <2>1, <1>1, <1>3
    <3>2. items[n].line \in Nat /\ items[n].depth \in Nat /\ Len(frames) \in Nat
      BY <3>1, <1>6, ListIs DEF TakesItem
    <3>3. /\ IsWholeFor(lines[at], Top) \/ items[n].depth > Len(frames)
          /\ \/ items[n].line = at - 1
             \/ items[n].line = at /\ items[n].depth > Len(frames)
      BY <3>1, <1>2, <1>4
    <3>4. at = items[n].line + 1 \/ (at = items[n].line /\ Len(frames) < items[n].depth)
      BY <3>2, <3>3, <1>1
    <3>5. IsWholeFor(lines[at], Top) \/ Len(frames) < items[n].depth
      BY <3>2, <3>3
    <3> QED BY <3>1, <3>4, <3>5, <1>3
  <2>2. CASE i \in 2 .. n
    <3>1. items'[i] = items[i] /\ items'[i - 1] = items[i - 1]
      BY <2>2, <1>1, <1>3
    <3> QED BY <3>1, <2>2, <1>5
  <2> QED BY <2>1, <2>2, <1>1
<1> QED BY <1>3, <1>7 DEF ItemsFollow

\* Only a line whose marks do not close is taken again after a whole item.
LEMMA TwiceMeans ==
  ASSUME MarkdownInv, TakesItem, items' = Append(items, Item(lines[at], Top)),
         NEW i \in 2 .. Len(items'), items'[i].line = items'[i - 1].line, items'[i - 1].whole
  PROVE  Doomed
<1>1. ListInv /\ InListNow /\ at \in Nat /\ Len(items) \in Nat
  BY ListIs DEF MarkdownInv, TakesItem
<1> DEFINE it == Item(lines[at], Top)  n == Len(items)
<1>3. /\ Len(items') = n + 1 /\ items'[n + 1] = it
      /\ \A k \in 1 .. n : items'[k] = items[k]
      /\ it.line = at
  BY ItemIs
<1> HIDE DEF it
<1>4. CASE i = n + 1
  <2>1. items'[i] = it /\ items'[i - 1] = items[n] /\ n # 0
    BY <1>4, <1>1, <1>3
  <2>2. Last(items) = items[n] /\ items # <<>>
    BY <2>1 DEF Last
  <2> QED BY <2>1, <2>2, <1>1, <1>3 DEF ListInv, TwiceIsDoomed
<1>5. CASE i \in 2 .. n
  <2>1. items'[i] = items[i] /\ items'[i - 1] = items[i - 1]
    BY <1>5, <1>1, <1>3
  <2>2. ~(outcome \in {"refused", "thrown"})
    BY ListIs DEF TakesItem
  <2> QED BY <2>1, <2>2, <1>1, <1>5 DEF ListInv, TwiceIsDoomed
<1> QED BY <1>1, <1>3, <1>4, <1>5

LEMMA StartListKeeps == ASSUME MarkdownInv, StartList PROVE MarkdownInv'
<1> DEFINE f == [ordered |-> lines[at].kind = "number", pos |-> 0]
<1>0. MdTypes /\ Whereabouts /\ UnparsedIntact /\ ShownInv /\ ListInv
  BY DEF MarkdownInv
<1>1. /\ AtALine /\ lines[at].kind \in {"dash", "number"} /\ lines[at].indent = 0
      /\ frames' = <<f>> /\ items' = <<>>
      /\ UNCHANGED <<file, lines, at, start, elements, footnotes, outcome>>
  BY AtIsHere DEF StartList, AtMark, At
<1>2. at <= Len(file) /\ Base = at
  BY <1>1, HereIs
<1>3. f \in Frame
  BY DEF Frame
<1>4. MdTypes'
  <2>1. frames' \in Seq(Frame) /\ items' \in Seq(ItemType)
    <3> HIDE DEF f
    <3> QED BY <1>1, <1>3
  <2> QED BY <1>0, <1>1, <2>1 DEF MdTypes
<1>5. frames' # <<>> /\ Len(frames') = 1 /\ Top' = f /\ DOMAIN frames' = {1} /\ frames'[1] = f
  <2> HIDE DEF f
  <2> QED BY <1>1 DEF Top, Last
<1>6. Whereabouts'
  BY <1>0, <1>1 DEF Whereabouts, AtALine, MdTypes
<1>7. UnparsedIntact'
  BY <1>0, <1>1 DEF UnparsedIntact
<1>8. ShownInv'
  <2>1. Base' = at
    BY <1>1 DEF Base
  <2> QED BY <1>0, <1>1, <1>2, <2>1, StayKeeps DEF Well, AtALine
<1>9. ListInv'
  <2>1. FramesDeepen'
    BY <1>5 DEF FramesDeepen
  <2>2. IsWholeFor(lines[at], f)
    BY <1>1 DEF IsWholeFor, Begins
  <2>3. LineIsItem'
    <3> HIDE DEF f
    <3>1. IsWholeFor(lines[at], Top)'
      BY <1>1, <1>5, <2>2 DEF IsWholeFor, Begins
    <3> QED BY <1>1, <1>2, <1>5, <3>1 DEF LineIsItem
  <2>4. TwiceIsDoomed' /\ ItemsFollow'
    <3>1. 2 .. Len(items') = {} /\ items' = <<>>
      BY <1>1
    <3> QED BY <3>1 DEF TwiceIsDoomed, ItemsFollow
  <2> QED BY <2>1, <2>3, <2>4 DEF ListInv
<1> QED BY <1>4, <1>6, <1>7, <1>8, <1>9 DEF MarkdownInv

LEMMA ItemThrowsKeeps == ASSUME MarkdownInv, ItemThrows PROVE MarkdownInv'
<1>1. InList /\ Throw
  BY DEF ItemThrows
<1> QED BY <1>1, ListIs, StopKeeps

\* The lines that are overwritten in a list.
LEMMA RestIsIntact ==
  ASSUME MarkdownInv, InList, NEW next \in Nat, at <= next, file' = file, at' = next,
         \/ lines' = lines
         \/ InFile(at) /\ at < next /\ \E l \in Line : lines' = [lines EXCEPT ![at] = l]
  PROVE  /\ UnparsedIntact' /\ lines' \in Seq(Line) /\ Len(lines') = Len(lines)
         /\ \A k \in DOMAIN file : k < Base => lines'[k] = lines[k]
         /\ \A k \in DOMAIN lines : k # at => lines'[k] = lines[k]
<1>0. MdTypes /\ UnparsedIntact
  BY DEF MarkdownInv
<1>1. /\ lines' \in Seq(Line) /\ Len(lines') = Len(lines)
      /\ \A k \in DOMAIN lines : k # at => lines'[k] = lines[k]
  <2>1. CASE lines' = lines
    BY <2>1, <1>0 DEF MdTypes
  <2>2. CASE InFile(at) /\ \E l \in Line : lines' = [lines EXCEPT ![at] = l]
    BY <2>2, <1>0, ChangedIsText DEF InFile
  <2> QED BY <2>1, <2>2
<1>2. UnparsedIntact'
  <2>1. \A k \in next .. Len(file) : k \in DOMAIN lines /\ k \in at .. Len(file)
    BY <1>0, ListIs, LinesAre
  <2>2. \A k \in next .. Len(file) : lines'[k] = lines[k]
    <3>1. CASE lines' = lines
      BY <3>1
    <3>2. CASE at < next
      <4>1. \A k \in next .. Len(file) : k # at
        BY <3>2, ListIs
      <4> QED BY <2>1, <4>1, <1>1
    <3> QED BY <3>1, <3>2
  <2>3. \A k \in next .. Len(file) : lines'[k] = file[k]
    BY <2>1, <2>2, <1>0 DEF UnparsedIntact
  <2> QED BY <2>3 DEF UnparsedIntact
<1>3. \A k \in DOMAIN file : k < Base => k \in DOMAIN lines /\ k # at
  BY <1>0, ListIs, LinesAre
<1> QED BY <1>1, <1>2, <1>3

\* A sequence without its last member.
LEMMA FrontOf ==
  ASSUME NEW S, NEW s \in Seq(S), s # <<>>
  PROVE  /\ Front(s) \in Seq(S) /\ Len(Front(s)) = Len(s) - 1 /\ Len(s) - 1 \in Nat
         /\ DOMAIN Front(s) = 1 .. Len(s) - 1 /\ DOMAIN s = 1 .. Len(s)
         /\ \A n \in 1 .. Len(s) - 1 : Front(s)[n] = s[n]
<1>1. PICK m \in Nat : m = Len(s) - 1
  OBVIOUS
<1>2. Front(s) = SubSeq(s, 1, m)
  BY <1>1 DEF Front
<1>3. SubSeq(s, 1, m) \in Seq(S) /\ Len(SubSeq(s, 1, m)) = m
  BY <1>1
<1>4. \A n \in 1 .. m : SubSeq(s, 1, m)[n] = s[n]
  BY <1>1
<1> QED BY <1>1, <1>2, <1>3, <1>4

\* A call returns; taken are the items that have been taken by then.
LEMMA ReturnKeeps ==
  ASSUME MarkdownInv, InList, NEW next \in Nat \ {0}, NEW ok \in BOOLEAN, NEW taken,
         items' = taken, taken \in Seq(ItemType), taken # <<>>, taken[1].line = Base,
         Return(next, ok, taken), at <= next, next <= Len(file) + 1, ok => Base < next,
         \/ lines' = lines
         \/ InFile(at) /\ at < next /\ \E l \in Line : lines' = [lines EXCEPT ![at] = l]
  PROVE  MdTypes' /\ Whereabouts' /\ UnparsedIntact' /\ ShownInv'
<1>0. MdTypes /\ Whereabouts /\ UnparsedIntact /\ ShownInv
  BY DEF MarkdownInv
<1>1. /\ frames' = Front(frames) /\ at' = next /\ file' = file /\ start' = start
      /\ footnotes' = footnotes
      /\ IF Len(frames) > 1 THEN UNCHANGED <<elements, outcome>>
         ELSE /\ elements' = Append(elements, Element("list", taken[1].line, next - 1))
              /\ outcome' = IF ~ok THEN "refused"
                            ELSE IF next > Len(lines) THEN "parsed" ELSE "running"
  BY DEF Return
<1>2. /\ UnparsedIntact' /\ lines' \in Seq(Line) /\ Len(lines') = Len(lines)
      /\ \A k \in DOMAIN file : k < Base => lines'[k] = lines[k]
  BY <1>1, RestIsIntact
<1>3. Front(frames) \in Seq(Frame) /\ Len(Front(frames)) = Len(frames) - 1
  BY ListIs, FrontOf DEF InList
<1>4. Element("list", Base, next - 1) \in ElementType
  BY ListIs DEF Element, ElementType, ElementKinds
<1>5. CASE Len(frames) > 1
  <2>1. frames' # <<>>
    BY <1>1, <1>3, <1>5, ListIs
  <2>2. MdTypes'
    BY <1>0, <1>1, <1>2, <1>3, <1>5 DEF MdTypes
  <2>3. Whereabouts'
    BY <1>0, <1>1, <1>5, <2>1, ListIs, BaseIs DEF Whereabouts
  <2>4. Base' = Base
    BY <2>1 DEF Base
  <2>5. ShownInv'
    BY <1>0, <1>1, <1>2, <1>5, <2>4, StayKeeps DEF Well
  <2> QED BY <1>2, <2>2, <2>3, <2>5
<1>6. CASE ~(Len(frames) > 1)
  <2>1. frames' = <<>>
    BY <1>1, <1>3, <1>6, ListIs
  <2>2. /\ elements' = Append(elements, Element("list", Base, next - 1))
        /\ outcome' = IF ~ok THEN "refused"
                      ELSE IF next > Len(lines) THEN "parsed" ELSE "running"
    BY <1>1, <1>6
  <2>3. elements' \in Seq(ElementType)
    <3> DEFINE e == Element("list", Base, next - 1)
    <3>1. elements' = Append(elements, e) /\ e \in ElementType
      BY <2>2, <1>4
    <3> HIDE DEF e
    <3> QED BY <3>1, <1>0, ElementsAre
  <2>4. MdTypes'
    BY <1>0, <1>1, <1>2, <1>3, <2>2, <2>3 DEF MdTypes
  <2>5. Whereabouts'
    <3>1. start <= next
      BY <1>0, ListIs, BaseIs DEF Whereabouts
    <3> QED BY <1>0, <1>1, <2>1, <2>2, <3>1, ListIs, LinesAre DEF Whereabouts
  <2>6. Base' = next
    BY <1>1, <2>1 DEF Base
  <2>7. ShownInv'
    <3>1. CASE ok
      <4>1. "list" \in ElementKinds /\ "list" # "brokenTable" /\ "list" \in Thick
        BY DEF ElementKinds, Thick
      <4>2. next - 1 \in Nat /\ Base <= next - 1 /\ (next - 1) + 1 = next
        BY <3>1, ListIs
      <4> QED BY <1>0, <1>1, <1>2, <2>2, <2>6, <4>1, <4>2, ListIs, PushKeeps
    <3>2. CASE ~ok
      <4>1. ~Well'
        BY <2>2, <3>2 DEF Well
      <4> QED BY <4>1 DEF ShownInv, ElementsFollow, LinesAreIn, DamageIsIn
    <3> QED BY <3>1, <3>2
  <2> QED BY <1>2, <2>4, <2>5, <2>7
<1> QED BY <1>5, <1>6

\* The lists that are left.
\* The calls that are left when the innermost returns.
LEMMA FrontIs ==
  ASSUME MarkdownInv, InList, frames' = Front(frames)
  PROVE  /\ FramesDeepen'
         /\ Len(frames') = Len(frames) - 1 /\ Len(frames') \in Nat /\ Len(frames') < Len(frames)
         /\ DOMAIN frames' = 1 .. Len(frames) - 1 /\ DOMAIN frames = 1 .. Len(frames)
         /\ \A n \in 1 .. Len(frames) - 1 : frames'[n] = frames[n]
<1>1. Len(frames') = Len(frames) - 1 /\ Len(frames') \in Nat /\ Len(frames') < Len(frames)
  BY ListIs, FrontOf DEF InList
<1>2. /\ DOMAIN frames' = 1 .. Len(frames) - 1 /\ DOMAIN frames = 1 .. Len(frames)
      /\ \A n \in 1 .. Len(frames) - 1 : frames'[n] = frames[n]
  BY ListIs, FrontOf DEF InList
<1>3. FramesDeepen'
  <2>1. FramesDeepen
    BY DEF MarkdownInv, ListInv
  <2>2. \A n \in 1 .. Len(frames) - 1 : n \in DOMAIN frames
    BY <1>2, ListIs
  <2> QED BY <1>2, <2>1, <2>2 DEF FramesDeepen
<1> QED BY <1>1, <1>2, <1>3

LEMMA ItemTooShortKeeps == ASSUME MarkdownInv, ItemTooShort PROVE MarkdownInv'
<1>0. MdTypes /\ UnparsedIntact /\ ListInv
  BY DEF MarkdownInv
<1>1. /\ InList /\ InFile(at) /\ ~Top.ordered /\ lines[at].size < Cut(Top)
      /\ Return(at, TRUE, items) /\ lines' = lines /\ items' = items
  BY DEF ItemTooShort
<1> USE ListIs
<1>2. /\ lines[at] \in Line /\ at \in DOMAIN file /\ lines[at] = file[at]
      /\ lines[at].size \in Nat /\ lines[at].indent \in Nat
  <2>1. lines[at] \in Line /\ at \in DOMAIN file
    BY <1>0, <1>1, LinesAre DEF InFile
  <2>2. at \in at .. Len(file)
    BY <1>0, <1>1, <2>1, LinesAre
  <2> QED BY <1>0, <2>1, <2>2, LineIs DEF UnparsedIntact
<1>3. ~IsWholeFor(lines[at], Top)
  <2> SUFFICES ASSUME IsWholeFor(lines[at], Top) PROVE FALSE
    OBVIOUS
  <2>1. Begins(lines[at], FALSE) /\ lines[at].indent = Top.pos
    BY <1>1 DEF IsWholeFor
  <2>2. lines[at].kind # "blank"
    BY <2>1 DEF Begins
  <2>3. lines[at].indent < lines[at].size
    BY <1>0, <1>2, <2>2 DEF MdTypes, IsLine
  <2>4. Cut(Top) = Top.pos + 1
    BY <1>1 DEF Cut
  <2> QED BY <1>1, <1>2, <2>1, <2>3, <2>4
<1>4. /\ items # <<>> /\ items[1].line < at /\ Last(items).depth > Len(frames)
      /\ Last(items).line = at - 1 \/ Last(items).line = at
  BY <1>0, <1>1, <1>3 DEF ListInv, LineIsItem
<1>5. ~Doomed
  <2> SUFFICES ASSUME Doomed PROVE FALSE
    OBVIOUS
  <2>1. Len(frames) \in DOMAIN frames /\ Top = frames[Len(frames)]
    BY <1>1
  <2>2. Cut(Top) <= lines[at].size
    BY <2>1 DEF Doomed
  <2>3. Cut(Top) \in Nat
    BY <1>1 DEF Cut
  <2> QED BY <1>1, <1>2, <2>2, <2>3
<1>6. /\ Base = items[1].line /\ Base < at
  BY <1>1, <1>4 DEF Base, InList
<1>7. MdTypes' /\ Whereabouts' /\ UnparsedIntact' /\ ShownInv'
  <2>1. at \in Nat \ {0} /\ at <= at /\ at <= Len(file) + 1 /\ items \in Seq(ItemType)
    BY <1>1
  <2>2. TRUE \in BOOLEAN /\ items' = items /\ items[1].line = Base
    BY <1>1, <1>6
  <2> QED BY <1>1, <1>4, <1>6, <2>1, <2>2, ReturnKeeps
<1>8. at' = at /\ file' = file /\ frames' = Front(frames)
  BY <1>1 DEF Return
<1>9. FramesDeepen' /\ Len(frames') < Len(frames) /\ Len(frames') \in Nat
  BY <1>1, <1>8, FrontIs
<1>10. Last(items) \in ItemType /\ Last(items).depth \in Nat
  <2>1. items[Len(items)] \in ItemType
    BY <1>1, <1>4
  <2> QED BY <2>1 DEF Last, ItemType
<1>11. LineIsItem'
  <2>1. Last(items).depth > Len(frames')
    BY <1>1, <1>4, <1>9, <1>10
  <2>2. Last(items)' = Last(items)
    BY <1>1 DEF Last
  <2> QED BY <1>1, <1>4, <1>8, <2>1, <2>2 DEF LineIsItem
<1>12. TwiceIsDoomed'
  <2>1. ~(Last(items).line = at /\ Last(items).whole)
    BY <1>0, <1>1, <1>4, <1>5 DEF ListInv, TwiceIsDoomed
  <2>2. ~\E i \in 2 .. Len(items) : items[i].line = items[i - 1].line /\ items[i - 1].whole
    BY <1>0, <1>1, <1>5 DEF ListInv, TwiceIsDoomed
  <2>3. Last(items)' = Last(items)
    BY <1>1 DEF Last
  <2> QED BY <1>1, <1>8, <2>1, <2>2, <2>3 DEF TwiceIsDoomed
<1>13. ItemsFollow'
  BY <1>0, <1>1 DEF ListInv, ItemsFollow
<1> QED BY <1>7, <1>9, <1>11, <1>12, <1>13 DEF MarkdownInv, ListInv

\* A whole item that cannot be taken: no list around it can take its line.
LEMMA WholeIsDoomed ==
  ASSUME MarkdownInv, TakesItem, FALSE \in CutText(lines[at], Top), IsWholeFor(lines[at], Top)
  PROVE  Doomed
<1> USE ListIs
<1>p. MdTypes /\ ListInv
  BY DEF MarkdownInv
<1>q. /\ InList /\ InFile(at) /\ lines[at].size >= Cut(Top) /\ DOMAIN frames = 1 .. Len(frames)
      /\ FALSE \in CutText(lines[at], Top) /\ IsWholeFor(lines[at], Top)
  <2>1. InList /\ InFile(at) /\ lines[at].size >= Cut(Top)
    BY DEF TakesItem
  <2>2. DOMAIN frames = 1 .. Len(frames)
    BY <2>1
  <2> QED BY <2>1, <2>2
<1>1. lines[at] \in Line /\ at <= Len(file)
  BY <1>p, <1>q, LinesAre DEF InFile
<1>2. /\ lines[at].size \in Nat /\ lines[at].indent \in Nat
      /\ Begins(lines[at], Top.ordered) /\ lines[at].indent = Top.pos
  BY <1>q, <1>1, LineIs DEF IsWholeFor
<1>3. Begin(lines[at]) = Top.pos + (IF Top.ordered THEN 2 ELSE 1)
  BY <1>q, <1>1, <1>2, BeginIs
<1>4. Cut(Top) = Top.pos + (IF Top.ordered THEN 2 ELSE 1)
  BY DEF Cut
<1>5. ~lines[at].good
  <2>1. Cut(Top) <= Begin(lines[at])
    BY <1>q, <1>3, <1>4
  <2>2. CutText(lines[at], Top) = {lines[at].good}
    BY <2>1 DEF CutText
  <2> QED BY <1>q, <2>2
<1>6. \A n \in DOMAIN frames :
        Cut(frames[n]) <= Begin(lines[at]) /\ Cut(frames[n]) <= lines[at].size
  <2> TAKE n \in DOMAIN frames
  <2>1. CASE n = Len(frames)
    <3>1. frames[n] = Top
      BY <1>q, <2>1
    <3> QED BY <1>q, <1>2, <1>3, <1>4, <3>1
  <2>2. CASE n # Len(frames)
    <3>1. n \in 1 .. Len(frames) /\ n < Len(frames) /\ Len(frames) \in DOMAIN frames
      BY <1>q, <2>2
    <3>2. frames[n].pos < Top.pos
      BY <1>p, <1>q, <3>1 DEF ListInv, FramesDeepen
    <3>3. frames[n] \in Frame
      BY <1>q, FrameIs
    <3>4. Cut(frames[n]) <= Top.pos + 1 /\ Cut(frames[n]) \in Nat
      <4>1. PICK p \in Nat : p = frames[n].pos
        BY <3>3, CutIs
      <4>2. Cut(frames[n]) = p + 2 \/ Cut(frames[n]) = p + 1
        BY <3>3, <4>1, CutIs
      <4>3. p < Top.pos /\ Top.pos \in Nat
        BY <1>q, <3>2, <4>1
      <4> QED BY <4>2, <4>3
    <3>5. Top.pos + 1 <= Cut(Top)
      BY <1>q, <1>4
    <3> QED BY <1>q, <1>2, <1>3, <1>4, <3>4, <3>5
  <2> QED BY <2>1, <2>2
<1> QED BY <1>1, <1>5, <1>6 DEF Doomed

LEMMA DoomedStays ==
  ASSUME MarkdownInv, InList, Doomed,
         frames' = Front(frames), at' = at, lines' = lines, file' = file
  PROVE  Doomed'
<1>1. \A n \in DOMAIN frames' : n \in DOMAIN frames /\ frames'[n] = frames[n]
  BY ListIs, FrontIs
<1> QED BY <1>1 DEF Doomed, Cut, Begin

LEMMA BadItemKeeps == ASSUME MarkdownInv, BadItem PROVE MarkdownInv'
<1> DEFINE it == Item(lines[at], Top)
<1>0. MdTypes /\ UnparsedIntact /\ ListInv
  BY DEF MarkdownInv
<1>1. /\ TakesItem /\ InList /\ InFile(at) /\ lines[at].size >= Cut(Top)
      /\ FALSE \in CutText(lines[at], Top)
      /\ items' = Append(items, it) /\ Return(at, FALSE, items') /\ lines' = lines
  BY DEF BadItem, TakesItem
<1> USE ListIs
<1>2. /\ items' \in Seq(ItemType) /\ items' # <<>> /\ Len(items') = Len(items) + 1
      /\ items'[Len(items) + 1] = it
      /\ it.line = at /\ it.depth = Len(frames) /\ (it.whole <=> IsWholeFor(lines[at], Top))
      /\ items'[1].line = Base
  BY <1>1, ItemIs
<1>3. MdTypes' /\ Whereabouts' /\ UnparsedIntact' /\ ShownInv'
  <2>1. PICK taken : taken = items'
    OBVIOUS
  <2>2. /\ Return(at, FALSE, taken) /\ taken \in Seq(ItemType) /\ taken # <<>>
        /\ taken[1].line = Base /\ items' = taken
    BY <1>1, <1>2, <2>1
  <2>3. at \in Nat \ {0} /\ at <= at /\ at <= Len(file) + 1 /\ FALSE \in BOOLEAN
    BY <1>1
  <2> QED BY <1>1, <2>2, <2>3, ReturnKeeps
<1>4. ItemsFollow'
  BY <1>1, ItemFollows
<1>5. /\ at' = at /\ file' = file /\ frames' = Front(frames)
      /\ Len(frames) > 1 => outcome' = outcome
      /\ ~(Len(frames) > 1) => outcome' = "refused"
  BY <1>1 DEF Return
<1>6. /\ FramesDeepen' /\ Len(frames') < Len(frames) /\ Len(frames') \in Nat
      /\ Len(frames') = Len(frames) - 1
      /\ DOMAIN frames' = 1 .. Len(frames) - 1 /\ DOMAIN frames = 1 .. Len(frames)
      /\ \A n \in 1 .. Len(frames) - 1 : frames'[n] = frames[n]
  BY <1>1, <1>5, FrontIs
<1>7. Last(items)' = it
  BY <1>2 DEF Last
<1>8. LineIsItem'
  <2>1. InListNow' => Len(frames) > 1
    BY <1>1, <1>5 DEF InListNow
  <2>2. Len(frames) > 1 => items # <<>>
    BY <1>0, <1>1 DEF ListInv, LineIsItem
  <2>3. items # <<>> => items[1].line < at /\ Base = items[1].line
    BY <1>0, <1>1 DEF ListInv, LineIsItem, Base, InList
  <2>4. Last(items)'.depth > Len(frames')
    BY <1>2, <1>6, <1>7, <1>1
  <2>5. Last(items)'.line = at'
    BY <1>2, <1>5, <1>7
  <2>6. InListNow' => items'[1].line < at'
    BY <1>2, <1>5, <2>1, <2>2, <2>3
  <2> HIDE DEF it
  <2> QED BY <1>2, <2>4, <2>5, <2>6 DEF LineIsItem
<1>9. Doomed => Doomed'
  BY <1>1, <1>5, DoomedStays
<1>10. it.whole => Doomed
  BY <1>1, <1>2, WholeIsDoomed
<1>11. TwiceIsDoomed'
  <2>1. Last(items)'.whole => Doomed'
    BY <1>7, <1>9, <1>10
  <2>2. (\E i \in 2 .. Len(items') : items'[i].line = items'[i - 1].line /\ items'[i - 1].whole)
          => Doomed'
    BY <1>1, <1>9, TwiceMeans
  <2>3. InListNow' \/ outcome' = "refused"
    BY <1>1, <1>5, <1>6 DEF InListNow
  <2> QED BY <2>1, <2>2, <2>3 DEF TwiceIsDoomed
<1> QED BY <1>3, <1>4, <1>6, <1>8, <1>11 DEF MarkdownInv, ListInv

LEMMA TakeItemKeeps == ASSUME MarkdownInv, TakeItem PROVE MarkdownInv'
<1> DEFINE next == at + 1
           it == Item(lines[at], Top)
           l == lines[next]
           goesOn == l.indent = Top.pos /\ Begins(l, Top.ordered)
           nested == l.indent > Top.pos /\ (Begins(l, FALSE) \/ (Begins(l, TRUE) /\ Top.ordered))
           call == [ordered |-> Begins(l, TRUE), pos |-> l.indent]
<1>0. MdTypes /\ Whereabouts /\ UnparsedIntact /\ ShownInv /\ ListInv
  BY DEF MarkdownInv
<1>1. /\ TakesItem /\ InList /\ InFile(at) /\ TRUE \in CutText(lines[at], Top)
      /\ items' = Append(items, it)
      /\ lines' = IF InFile(next) THEN [lines EXCEPT ![at] = l] ELSE lines
      /\ IF InFile(next) /\ (goesOn \/ nested)
         THEN /\ frames' = IF goesOn THEN frames ELSE Append(frames, call)
              /\ at' = next
              /\ UNCHANGED <<file, start, elements, footnotes, outcome>>
         ELSE Return(next, TRUE, Append(items, it))
  BY DEF TakeItem, TakesItem
<1> USE ListIs
<1>2. /\ items' \in Seq(ItemType) /\ items' # <<>> /\ Len(items') = Len(items) + 1
      /\ items'[Len(items) + 1] = it
      /\ it.line = at /\ it.depth = Len(frames)
      /\ items'[1].line = Base
  BY <1>1, ItemIs
<1>3. ItemsFollow'
  BY <1>1, ItemFollows
<1>4. ~Doomed
  BY <1>1, DoomedMeans
<1>5. ~\E i \in 2 .. Len(items') : items'[i].line = items'[i - 1].line /\ items'[i - 1].whole
  BY <1>1, <1>4, TwiceMeans
<1>6. Last(items)' = it
  BY <1>2 DEF Last
<1>7. /\ at \in Nat \ {0} /\ next \in Nat \ {0} /\ at < next /\ at <= next /\ next <= Len(file) + 1
      /\ Base < next
  BY <1>0, <1>1, LinesAre DEF InFile
<1>8. lines' = lines \/ \E x \in Line : lines' = [lines EXCEPT ![at] = x]
  BY <1>0, <1>1, LinesAre DEF InFile
<1>9. at' = next /\ file' = file
  BY <1>1 DEF Return
<1>10. TwiceIsDoomed'
  <2>1. Last(items)'.line # at'
    BY <1>2, <1>6, <1>7, <1>9
  <2> HIDE DEF it, next
  <2> QED BY <1>5, <2>1 DEF TwiceIsDoomed
<1>11. items'[1].line < at' /\ Last(items)'.line = at' - 1
  BY <1>2, <1>6, <1>7, <1>9
<1>12. CASE ~(InFile(next) /\ (goesOn \/ nested))
  <2>1. Return(next, TRUE, Append(items, it)) /\ frames' = Front(frames)
    BY <1>1, <1>12 DEF Return
  <2>2. MdTypes' /\ Whereabouts' /\ UnparsedIntact' /\ ShownInv'
    <3>1. PICK taken : taken = Append(items, it)
      OBVIOUS
    <3>2. /\ Return(next, TRUE, taken) /\ taken \in Seq(ItemType) /\ taken # <<>>
          /\ taken[1].line = Base /\ items' = taken
      BY <1>1, <1>2, <2>1, <3>1
    <3> HIDE DEF next, it
    <3> QED BY <1>1, <1>7, <1>8, <3>2, ReturnKeeps
  <2>3. FramesDeepen' /\ Len(frames') < Len(frames) /\ Len(frames') \in Nat
    BY <1>1, <2>1, FrontIs
  <2>4. LineIsItem'
    <3>1. Last(items)'.depth > Len(frames')
      BY <1>2, <1>6, <2>3, <1>1
    <3> HIDE DEF it, next
    <3> QED BY <1>2, <1>11, <3>1 DEF LineIsItem
  <2> QED BY <1>3, <1>10, <2>2, <2>3, <2>4 DEF MarkdownInv, ListInv
<1>13. CASE InFile(next) /\ (goesOn \/ nested)
  <2>1. /\ frames' = IF goesOn THEN frames ELSE Append(frames, call)
        /\ UNCHANGED <<file, start, elements, footnotes, outcome>>
    BY <1>1, <1>13
  <2>2. /\ UnparsedIntact' /\ lines' \in Seq(Line) /\ Len(lines') = Len(lines)
        /\ \A k \in DOMAIN file : k < Base => lines'[k] = lines[k]
        /\ \A k \in DOMAIN lines : k # at => lines'[k] = lines[k]
    <3> HIDE DEF it, next
    <3> QED BY <1>1, <1>7, <1>8, <1>9, RestIsIntact
  <2>3. l \in Line /\ next \in DOMAIN lines /\ lines'[next] = l /\ next <= Len(file)
    BY <1>0, <1>7, <1>13, <2>2, LinesAre DEF InFile
  <2>4. l.indent \in Nat /\ call \in Frame
    <3>1. l.indent \in Nat
      BY <2>3, LineIs
    <3>2. Begins(l, TRUE) \in BOOLEAN
      BY DEF Begins
    <3> QED BY <3>1, <3>2, Zenon DEF Frame
  <2>5. /\ frames' \in Seq(Frame) /\ frames' # <<>>
        /\ goesOn => frames' = frames
        /\ ~goesOn => /\ frames' = Append(frames, call) /\ Len(frames') = Len(frames) + 1
                      /\ frames'[Len(frames) + 1] = call
                      /\ \A n \in 1 .. Len(frames) : frames'[n] = frames[n]
    <3>1. CASE goesOn
      BY <1>1, <2>1, <3>1 DEF InList
    <3>2. CASE ~goesOn
      <4> HIDE DEF call, goesOn, nested, l
      <4> QED BY <1>1, <2>1, <2>4, <3>2
    <3> QED BY <3>1, <3>2
  <2>6. IsWholeFor(l, Top')
    <3>1. CASE goesOn
      <4>1. Top' = Top
        BY <2>5, <3>1 DEF Top
      <4> QED BY <3>1, <4>1 DEF IsWholeFor
    <3>2. CASE ~goesOn
      <4>1. Top' = call
        BY <2>5, <3>2 DEF Top, Last
      <4>2. Begins(l, FALSE) \/ Begins(l, TRUE)
        BY <1>13, <3>2
      <4>3. Begins(l, Begins(l, TRUE))
        BY <4>2 DEF Begins
      <4> QED BY <4>1, <4>3 DEF IsWholeFor
    <3> QED BY <3>1, <3>2
  <2>7. FramesDeepen'
    <3>0. FramesDeepen
      BY <1>0 DEF ListInv
    <3>1. CASE goesOn
      BY <2>5, <3>0, <3>1 DEF FramesDeepen
    <3>2. CASE ~goesOn
      <4>1. l.indent > Top.pos
        BY <1>13, <3>2
      <4>2. \A n \in 1 .. Len(frames) : frames[n].pos \in Nat /\ frames[n].pos <= Top.pos
        <5>1. \A n \in 1 .. Len(frames) : frames[n].pos \in Nat
          BY <1>1, FrameIs, CutIs
        <5>2. \A n \in 1 .. Len(frames) : n # Len(frames) => frames[n].pos < Top.pos
          <6>1. Len(frames) \in DOMAIN frames /\ DOMAIN frames = 1 .. Len(frames)
            BY <1>1
          <6>2. \A n \in 1 .. Len(frames) : n # Len(frames) => n < Len(frames)
            BY <1>1
          <6> QED BY <1>1, <3>0, <6>1, <6>2 DEF FramesDeepen
        <5> QED BY <1>1, <5>1, <5>2
      <4>3. call.pos = l.indent
        OBVIOUS
      <4>4. \A i, j \in 1 .. Len(frames) + 1 : i < j => frames'[i].pos < frames'[j].pos
        <5> HIDE DEF call, l, goesOn, nested
        <5> TAKE i, j \in 1 .. Len(frames) + 1
        <5>1. CASE j = Len(frames) + 1 /\ i < j
          <6>1. i \in 1 .. Len(frames)
            BY <1>1, <5>1
          <6>2. frames'[i] = frames[i] /\ frames'[j] = call
            BY <2>5, <3>2, <5>1, <6>1
          <6>3. frames[i].pos <= Top.pos /\ frames[i].pos \in Nat
            BY <4>2, <6>1
          <6>4. call.pos > Top.pos /\ call.pos \in Nat /\ Top.pos \in Nat
            BY <1>1, <2>4, <4>1, <4>3
          <6>5. frames[i].pos < call.pos
            BY <6>3, <6>4
          <6> QED BY <6>2, <6>5
        <5>2. CASE j \in 1 .. Len(frames) /\ i < j
          <6>1. i \in 1 .. Len(frames)
            BY <1>1, <5>2
          <6>2. i \in DOMAIN frames /\ j \in DOMAIN frames
            BY <1>1, <5>2, <6>1
          <6>3. frames[i].pos < frames[j].pos
            BY <3>0, <5>2, <6>2 DEF FramesDeepen
          <6>4. frames'[i] = frames[i] /\ frames'[j] = frames[j]
            BY <2>5, <3>2, <5>2, <6>1
          <6> QED BY <6>3, <6>4
        <5> QED BY <1>1, <5>1, <5>2
      <4>5. DOMAIN frames' = 1 .. Len(frames) + 1
        BY <1>1, <2>5, <3>2
      <4> QED BY <4>4, <4>5 DEF FramesDeepen
    <3> QED BY <3>1, <3>2
  <2>8. MdTypes'
    BY <1>0, <1>2, <1>7, <1>9, <2>1, <2>2, <2>5 DEF MdTypes
  <2>9. Whereabouts'
    <3>1. start <= next
      BY <1>0, <1>7, BaseIs DEF Whereabouts
    <3> QED BY <1>1, <1>9, <2>1, <2>5, <3>1 DEF Whereabouts
  <2>10. ShownInv'
    <3>1. Base' = Base
      BY <1>2, <2>5 DEF Base
    <3> QED BY <1>0, <2>1, <2>2, <3>1, StayKeeps DEF Well
  <2>11. LineIsItem'
    <3>1. at' <= Len(file') /\ IsWholeFor(lines[at], Top)'
      <4>1. lines'[at'] = l /\ at' <= Len(file')
        BY <1>9, <2>3
      <4> QED BY <2>6, <4>1 DEF IsWholeFor, Begins
    <3> HIDE DEF it, next, l
    <3> QED BY <1>2, <1>11, <3>1 DEF LineIsItem
  <2> QED BY <1>3, <1>10, <2>2, <2>7, <2>8, <2>9, <2>10, <2>11 DEF MarkdownInv, ListInv
<1> QED BY <1>12, <1>13

LEMMA ToHtmlKeeps == ASSUME MarkdownInv, ToHtml PROVE MarkdownInv'
<1>0. MdTypes /\ Whereabouts /\ UnparsedIntact /\ ShownInv /\ ListInv
  BY DEF MarkdownInv
<1>1. /\ outcome = "parsed" /\ outcome' \in {"undefined", "shown"}
      /\ UNCHANGED <<file, lines, at, start, elements, frames, items, footnotes>>
  BY DEF ToHtml
<1>2. frames = <<>> /\ start # 0
  BY <1>0, <1>1 DEF Whereabouts
<1>3. MdTypes'
  BY <1>0, <1>1 DEF MdTypes
<1>4. Whereabouts'
  BY <1>0, <1>1, <1>2 DEF Whereabouts
<1>5. UnparsedIntact'
  BY <1>0, <1>1 DEF UnparsedIntact
<1>6. ShownInv'
  <2>1. Base' = Base
    BY <1>1 DEF Base
  <2>2. Well' => Well
    BY <1>1 DEF Well
  <2> QED BY <1>0, <1>1, <2>1, <2>2, StayKeeps
<1>7. ListInv'
  <2>1. ~InListNow /\ ~InListNow'
    BY <1>1, <1>2 DEF InListNow
  <2>2. ~\E i \in 2 .. Len(items) : items[i].line = items[i - 1].line /\ items[i - 1].whole
    BY <1>0, <1>1, <2>1 DEF ListInv, TwiceIsDoomed
  <2>3. LineIsItem' /\ TwiceIsDoomed'
    BY <1>1, <2>1, <2>2 DEF LineIsItem, TwiceIsDoomed
  <2>4. FramesDeepen' /\ ItemsFollow'
    BY <1>0, <1>1 DEF ListInv, FramesDeepen, ItemsFollow
  <2> QED BY <2>3, <2>4 DEF ListInv
<1> QED BY <1>3, <1>4, <1>5, <1>6, <1>7 DEF MarkdownInv

\* The text is whole at the start.
THEOREM InitMarkdownInv == MdInit => MarkdownInv
BY InitMarkdown

\* Every parser keeps it in order.
THEOREM StepMarkdownInv == MarkdownInv /\ [MdNext]_mdVars => MarkdownInv'
<1> SUFFICES ASSUME MarkdownInv, [MdNext]_mdVars PROVE MarkdownInv'
  OBVIOUS
<1>1. CASE ParseBlock
  BY <1>1, OneLineKeeps, FootnoteKeeps, BadImageKeeps, DefaultKeeps, BlockquoteKeeps,
     CodeblockKeeps, LatexKeeps, TableKeeps DEF ParseBlock
<1>2. CASE ParseList
  BY <1>2, StartListKeeps, ItemThrowsKeeps, ItemTooShortKeeps, BadItemKeeps, TakeItemKeeps
     DEF ParseList
<1>3. CASE ParseMetadata \/ ToHtml
  BY <1>3, MetadataKeeps, ToHtmlKeeps
<1>4. CASE UNCHANGED mdVars
  <2>1. UNCHANGED <<file, lines, at, start, elements, frames, items, footnotes, outcome>>
    BY <1>4 DEF mdVars
  <2>2. MdTypes' /\ Whereabouts' /\ UnparsedIntact'
    BY <2>1 DEF MarkdownInv, MdTypes, Whereabouts, UnparsedIntact
  <2>3. ShownInv'
    <3>1. Base' = Base /\ (Well' => Well)
      BY <2>1 DEF Base, Well
    <3> QED BY <2>1, <3>1, StayKeeps DEF MarkdownInv
  <2>4. ListInv'
    <3>1. FramesDeepen' /\ ItemsFollow'
      BY <2>1 DEF MarkdownInv, ListInv, FramesDeepen, ItemsFollow
    <3>2. InListNow' <=> InListNow
      BY <2>1 DEF InListNow
    <3>3. Doomed' <=> Doomed
      BY <2>1 DEF Doomed, Cut, Begin
    <3>4. Last(items)' = Last(items) /\ Top' = Top
      BY <2>1 DEF Last, Top
    <3>5. LineIsItem'
      BY <2>1, <3>2, <3>4 DEF MarkdownInv, ListInv, LineIsItem, IsWholeFor, Begins
    <3>6. TwiceIsDoomed'
      BY <2>1, <3>2, <3>3, <3>4 DEF MarkdownInv, ListInv, TwiceIsDoomed
    <3> QED BY <3>1, <3>5, <3>6 DEF ListInv
  <2> QED BY <2>2, <2>3, <2>4 DEF MarkdownInv
<1> QED BY <1>1, <1>2, <1>3, <1>4 DEF MdNext

LEMMA BlocksAreInOrder == MarkdownInv => LinesInOrder
<1> SUFFICES ASSUME MarkdownInv PROVE LinesInOrder
  OBVIOUS
<1>0. MdTypes /\ UnparsedIntact /\ ShownInv /\ ListInv
  BY DEF MarkdownInv
<1> DEFINE n == Len(elements)
<1>1. n \in Nat /\ DOMAIN elements = 1 .. n
  BY <1>0, ElementsAre
<1>2. \A i \in 1 .. n : elements[i].from \in Nat /\ elements[i].to \in Nat
  BY <1>0, ElementsAre, ElementIs
<1>3. Between => Well /\ Base = at
  BY DEF Between, Well, Base
<1>4. at \in Nat /\ Len(file) \in Nat /\ DOMAIN file = 1 .. Len(file)
  BY <1>0, BaseIs, LinesAre
<1>5. DamageIsInside
  <2> SUFFICES ASSUME Between, NEW k \in DOMAIN file, lines[k] # file[k]
               PROVE  \E i \in Of(k) : elements[i].kind \in {"quote", "code", "list"}
    BY DEF DamageIsInside
  <2>1. k \notin at .. Len(file)
    BY <1>0 DEF UnparsedIntact
  <2>2. k < at
    BY <1>4, <2>1
  <2> QED BY <1>0, <1>3, <2>2 DEF ShownInv, DamageIsIn, Thick
<1>6. Between => \A i, j \in 1 .. n : i < j =>
        \/ elements[i].to < elements[j].from
        \/ j = i + 1 /\ IsBroken(elements[i]) /\ elements[i].to = elements[j].from
  BY <1>0, <1>1, <1>3 DEF ShownInv, ElementsFollow
<1>7. EachLineOnce
  <2> SUFFICES ASSUME Between, NEW k \in start .. at - 1
               PROVE  /\ Of(k) = {} =>
                           \/ IsBlank(file[k]) \/ ~file[k].good
                           \/ file[k].kind = "note" /\ footnotes[file[k].cells] >= k
                      /\ \A i, j \in Of(k) : i < j =>
                           j = i + 1 /\ elements[i].kind = "brokenTable" /\ elements[i].to = k
    BY DEF EachLineOnce
  <2>1. Of(k) # {} \/ IsLeftOut(k)
    BY <1>0, <1>3 DEF ShownInv, LinesAreIn
  <2>2. ASSUME NEW i \in Of(k), NEW j \in Of(k), i < j
        PROVE  j = i + 1 /\ elements[i].kind = "brokenTable" /\ elements[i].to = k
    <3>1. /\ i \in 1 .. n /\ k \in elements[i].from .. elements[i].to
          /\ j \in 1 .. n /\ k \in elements[j].from .. elements[j].to
      BY <1>1 DEF Of
    <3>2. k <= elements[i].to /\ elements[j].from <= k /\ k \in Int
      BY <3>1
    <3>3. elements[i].to \in Nat /\ elements[j].from \in Nat
      BY <1>2, <3>1
    <3>4. ~(elements[i].to < elements[j].from)
      BY <3>2, <3>3
    <3>5. j = i + 1 /\ IsBroken(elements[i]) /\ elements[i].to = elements[j].from
      BY <1>6, <2>2, <3>1, <3>4
    <3>6. elements[i].to = k
      BY <3>2, <3>3, <3>5
    <3> QED BY <3>5, <3>6 DEF IsBroken
  <2> QED BY <2>1, <2>2 DEF IsLeftOut
<1>8. InOrder
  <2> SUFFICES ASSUME Between, NEW i \in 1 .. n - 1
               PROVE  \/ elements[i].to < elements[i + 1].from
                      \/ elements[i].kind = "brokenTable" /\ elements[i].to = elements[i + 1].from
    BY DEF InOrder
  <2>1. i \in 1 .. n /\ i + 1 \in 1 .. n /\ i < i + 1
    BY <1>1
  <2> QED BY <1>6, <2>1 DEF IsBroken
<1>9. ItemsAreItems
  <2> SUFFICES ASSUME NEW i \in 2 .. Len(items)
               PROVE  /\ ~items[i].whole => items[i].depth < items[i - 1].depth
                      /\ \/ items[i].line = items[i - 1].line + 1
                         \/ /\ items[i].line = items[i - 1].line
                            /\ items[i].depth < items[i - 1].depth
                            /\ Between => ~items[i - 1].whole
    BY DEF ItemsAreItems
  <2>1. /\ ~items[i].whole => items[i].depth < items[i - 1].depth
        /\ \/ items[i].line = items[i - 1].line + 1
           \/ items[i].line = items[i - 1].line /\ items[i].depth < items[i - 1].depth
    BY <1>0 DEF ListInv, ItemsFollow
  <2>2. items[i].line = items[i - 1].line /\ items[i - 1].whole => ~Between
    BY <1>0 DEF ListInv, TwiceIsDoomed, InListNow, Between
  <2> QED BY <2>1, <2>2
<1> QED BY <1>0, <1>5, <1>7, <1>8, <1>9 DEF LinesInOrder

---------------------------------------------------------------------------
(* When the parser stops. *)

LEMMA NoListEnds == ~InListNow' => CallsBegan' /\ EndIsKnown'
BY DEF CallsBegan, EndIsKnown

LEMMA StartListEnds == ASSUME MarkdownInv, StartList PROVE CallsBegan' /\ EndIsKnown'
<1>1. Len(frames') = 1 /\ items' = <<>>
  BY DEF StartList
<1>2. 2 .. Len(frames') = {}
  BY <1>1
<1> QED BY <1>1, <1>2 DEF CallsBegan, EndIsKnown

\* The line at hand is as it was written.
LEMMA AtIsIntact ==
  ASSUME MarkdownInv, InFile(at)
  PROVE  /\ at \in DOMAIN file /\ at <= Len(file) /\ lines[at] = file[at] /\ lines[at] \in Line
         /\ IsLine(lines[at]) /\ at \in Nat \ {0} /\ start <= at /\ start \in Nat
<1>0. MdTypes /\ UnparsedIntact /\ Whereabouts
  BY DEF MarkdownInv
<1>1. at \in DOMAIN file /\ lines[at] \in Line /\ at <= Len(file) /\ at \in Nat \ {0}
  BY <1>0, LinesAre DEF InFile, MdTypes
<1>2. at \in at .. Len(file)
  BY <1>0, <1>1, LinesAre
<1>3. lines[at] = file[at]
  BY <1>0, <1>2 DEF UnparsedIntact
<1> QED BY <1>0, <1>1, <1>3, BaseIs DEF MdTypes, Whereabouts

\* The position stays, or passes one line.
Goes == at' = at \/ (at' = at + 1 /\ file[at].size > 0)

\* What lies between is longer by the line that is passed.
LEMMA PassedStays ==
  ASSUME MarkdownInv, InList, NEW j \in start .. at, Passed(j), file' = file,
         at' = at \/ (at' = at + 1 /\ (j = at \/ file[at].size > 0))
  PROVE  Passed(j)'
<1>1. at \in Nat /\ start \in Nat /\ j \in Int
  BY ListIs, BaseIs DEF MarkdownInv
<1>2. \A i \in j + 1 .. at' - 1 : i \in j + 1 .. at - 1 \/ (i = at /\ file[at].size > 0)
  BY <1>1
<1>3. \A i \in j + 1 .. at' - 1 : file[i].size > 0
  BY <1>2 DEF Passed
<1> QED BY <1>3 DEF Passed

LEMMA CallStays ==
  ASSUME MarkdownInv, InList, NEW n \in 2 .. Len(frames), Began(n),
         frames'[n] = frames[n], start' = start, file' = file, Goes
  PROVE  Began(n)'
<1>1. PICK j \in start .. at :
        Begins(file[j], frames[n].ordered) /\ file[j].indent = frames[n].pos /\ Passed(j)
  BY DEF Began
<1>2. at \in Nat /\ start \in Nat
  BY ListIs, BaseIs DEF MarkdownInv
<1>3. j \in start' .. at'
  BY <1>1, <1>2 DEF Goes
<1>4. Passed(j)'
  BY <1>1, PassedStays DEF Goes
<1>5. Begins(file'[j], frames'[n].ordered) /\ file'[j].indent = frames'[n].pos
  BY <1>1 DEF Begins
<1> QED BY <1>3, <1>4, <1>5 DEF Began, Begins

LEMMA CallsStay ==
  ASSUME MarkdownInv, CallsBegan, InList, start' = start, file' = file, Goes,
         \A n \in 2 .. Len(frames') : n \in 2 .. Len(frames) /\ frames'[n] = frames[n]
  PROVE  CallsBegan'
<1>1. \A n \in 2 .. Len(frames) : Began(n)
  BY ListIs DEF CallsBegan
<1>2. \A n \in 2 .. Len(frames') : Began(n)'
  BY <1>1, CallStays
<1> QED BY <1>2 DEF CallsBegan

\* A call below the first ends: what is known of its beginning.
LEMMA CallEnds ==
  ASSUME MarkdownInv, CallsBegan, InList, Len(frames) > 1, frames' = Front(frames)
  PROVE  /\ Top'.pos < Top.pos /\ Top'.pos \in Nat
         /\ \E j \in start .. at : /\ Begins(file[j], Top.ordered) /\ file[j].indent = Top.pos
                                   /\ Passed(j)
<1>1. InListNow /\ Len(frames) \in 2 .. Len(frames) /\ Top = frames[Len(frames)]
  BY ListIs
<1>2. Began(Len(frames))
  BY <1>1 DEF CallsBegan
<1>3. /\ Len(frames') = Len(frames) - 1 /\ frames'[Len(frames) - 1] = frames[Len(frames) - 1]
      /\ Len(frames) - 1 \in DOMAIN frames /\ Len(frames) \in DOMAIN frames
  BY ListIs, FrontIs
<1>4. Top' = frames[Len(frames) - 1]
  BY <1>3 DEF Top, Last
<1>5. frames[Len(frames) - 1].pos < frames[Len(frames)].pos
  BY <1>3, ListIs DEF MarkdownInv, ListInv, FramesDeepen
<1>6. frames[Len(frames) - 1].pos \in Nat
  BY <1>3, FrameIs, CutIs
<1> QED BY <1>1, <1>2, <1>4, <1>5, <1>6 DEF Began

\* The item it began at is further in than the list it returns to.
LEMMA EndIsBelow ==
  ASSUME MarkdownInv, InList, NEW j \in start .. at, j < at', IsItem(file[j]), Passed(j)',
         NEW p \in Nat, file[j].indent = p, Top'.pos < p, Top'.pos \in Nat,
         start' = start, file' = file, Goes
  PROVE  EndedBelow'
<1>1. at \in Nat /\ start \in Nat /\ at' \in Nat
  BY ListIs, BaseIs DEF MarkdownInv, Goes
<1>2. j \in start' .. at' - 1
  <2>1. PICK m \in Nat : m = at'
    BY <1>1
  <2>2. j < m
    BY <2>1
  <2>3. \A s, t \in Nat : \A i \in s .. t : i < m => i \in s .. m - 1
    OBVIOUS
  <2>4. j \in start .. m - 1
    BY <1>1, <2>2, <2>3
  <2> QED BY <2>1, <2>4
<1>3. IsItem(file'[j]) /\ file'[j].indent > Top'.pos
  BY DEF IsItem, Begins
<1> QED BY <1>2, <1>3 DEF EndedBelow, IsItem, Begins

\* A call returns: those around it go on, and if a line was passed, it ended below.
LEMMA ReturnEnds ==
  ASSUME MarkdownInv, CallsBegan, InList, frames' = Front(frames), start' = start, file' = file,
         Goes
  PROVE  /\ ~(Len(frames) > 1) => ~InListNow'
         /\ CallsBegan'
         /\ Len(frames) > 1 /\ at' = at + 1 => EndedBelow'
<1>1. Len(frames) \in Nat \ {0} /\ Len(frames') = Len(frames) - 1 /\ frames' \in Seq(Frame)
  BY ListIs, FrontIs, FrontOf DEF InList
<1>2. ~(Len(frames) > 1) => ~InListNow'
  <2>1. Len(frames') = 0 => frames' = <<>>
    BY <1>1
  <2> QED BY <1>1, <2>1 DEF InListNow
<1>3. CallsBegan'
  <2>1. \A n \in 2 .. Len(frames') : n \in 2 .. Len(frames) /\ frames'[n] = frames[n]
    BY <1>1, FrontIs
  <2> QED BY <2>1, CallsStay
<1>4. ASSUME Len(frames) > 1, at' = at + 1 PROVE EndedBelow'
  <2>1. Top'.pos < Top.pos /\ Top'.pos \in Nat /\ Top.pos \in Nat /\ Top.ordered \in BOOLEAN
    BY <1>4, CallEnds, ListIs
  <2>2. PICK j \in start .. at :
          Begins(file[j], Top.ordered) /\ file[j].indent = Top.pos /\ Passed(j)
    BY <1>4, CallEnds
  <2>3. Passed(j)'
    BY <2>2, PassedStays DEF Goes
  <2>4. j < at' /\ IsItem(file[j])
    <3>1. j < at'
      BY <1>4, ListIs, BaseIs DEF MarkdownInv
    <3>2. IsItem(file[j])
      BY <2>1, <2>2 DEF IsItem
    <3> QED BY <3>1, <3>2
  <2>5. PICK p \in Nat : p = Top.pos
    BY <2>1
  <2> QED BY <2>1, <2>2, <2>3, <2>4, <2>5, EndIsBelow
<1> QED BY <1>2, <1>3, <1>4

LEMMA ItemTooShortEnds ==
  ASSUME MarkdownInv, CallsBegan, EndIsKnown, ItemTooShort PROVE CallsBegan' /\ EndIsKnown'
<1>0. MdTypes /\ ListInv /\ Whereabouts
  BY DEF MarkdownInv
<1>1. /\ InList /\ InFile(at) /\ ~Top.ordered /\ lines[at].size < Cut(Top)
      /\ Return(at, TRUE, items) /\ lines' = lines /\ items' = items
  BY DEF ItemTooShort
<1>2. at' = at /\ file' = file /\ start' = start /\ frames' = Front(frames) /\ Goes
  BY <1>1 DEF Return, Goes
<1> USE ListIs
<1>3. (~(Len(frames) > 1) => ~InListNow') /\ CallsBegan'
  BY <1>1, <1>2, ReturnEnds
<1>4. CASE ~(Len(frames) > 1)
  BY <1>3, <1>4, NoListEnds
<1>5. CASE Len(frames) > 1
  <2>1. Top'.pos < Top.pos /\ Top'.pos \in Nat /\ Top.pos \in Nat
    BY <1>1, <1>2, <1>5, CallEnds
  <2>4. ~Doomed
    <3>1. Len(frames) \in DOMAIN frames /\ Top = frames[Len(frames)]
      BY <1>1
    <3>2. Cut(Top) \in Nat /\ lines[at].size \in Nat
      BY <1>1, CutIs, AtIsIntact, LineIs DEF Cut
    <3> QED BY <1>1, <3>1, <3>2 DEF Doomed
  <2>5. ~IsWholeFor(lines[at], Top)
    <3>1. IsWholeFor(lines[at], Top) => lines[at].kind # "blank" /\ lines[at].indent = Top.pos
      BY <1>1 DEF IsWholeFor, Begins
    <3>2. lines[at].kind # "blank" => lines[at].indent < lines[at].size
      BY <1>1, AtIsIntact DEF IsLine
    <3>3. Cut(Top) = Top.pos + 1
      BY <1>1 DEF Cut
    <3>4. lines[at].size \in Nat /\ lines[at].indent \in Nat
      BY <1>1, AtIsIntact, LineIs
    <3> QED BY <1>1, <3>1, <3>2, <3>3, <3>4
  <2>6. items # <<>> /\ Last(items).depth > Len(frames)
    BY <1>0, <1>1, <2>5 DEF ListInv, LineIsItem
  <2>7. PICK j \in start .. at - 1 : IsItem(file[j]) /\ file[j].indent > Top.pos /\ Passed(j)
    BY <1>1, <2>4, <2>6 DEF EndIsKnown, EndedBelow
  <2>8. EndedBelow'
    <3>0. at \in Nat /\ start \in Nat /\ j \in start .. at /\ j < at'
      BY <1>0, <1>1, <1>2, <2>7, BaseIs
    <3>1. j \in DOMAIN file
      BY <1>0, <1>1, <2>7, <3>0, LinesAre DEF Whereabouts
    <3>2. PICK p \in Nat : p = file[j].indent
      BY <1>0, <3>1, LinesAre, LineIs
    <3>3. Top'.pos < p
      BY <2>1, <2>7, <3>2
    <3>4. Passed(j)'
      BY <1>1, <1>2, <2>7, <3>0, PassedStays
    <3> QED BY <1>1, <1>2, <2>1, <2>7, <3>0, <3>2, <3>3, <3>4, EndIsBelow
  <2> QED BY <1>3, <2>8 DEF EndIsKnown
<1> QED BY <1>4, <1>5

LEMMA BadItemEnds ==
  ASSUME MarkdownInv, CallsBegan, BadItem PROVE CallsBegan' /\ EndIsKnown'
<1>1. /\ TakesItem /\ InList /\ InFile(at) /\ FALSE \in CutText(lines[at], Top)
      /\ Return(at, FALSE, items') /\ lines' = lines
  BY DEF BadItem, TakesItem
<1>2. at' = at /\ file' = file /\ start' = start /\ frames' = Front(frames) /\ Goes
  BY <1>1 DEF Return, Goes
<1>3. (~(Len(frames) > 1) => ~InListNow') /\ CallsBegan'
  BY <1>1, <1>2, ReturnEnds
<1>4. CASE ~(Len(frames) > 1)
  BY <1>3, <1>4, NoListEnds
<1>5. CASE Len(frames) > 1
  <2>1. Top'.pos < Top.pos /\ Top'.pos \in Nat /\ Top.pos \in Nat /\ Top.ordered \in BOOLEAN
    BY <1>1, <1>2, <1>5, CallEnds, ListIs
  <2>2. PICK j \in start .. at :
          Begins(file[j], Top.ordered) /\ file[j].indent = Top.pos /\ Passed(j)
    BY <1>1, <1>2, <1>5, CallEnds
  <2>3. IsItem(file[j])
    BY <2>1, <2>2 DEF IsItem
  <2>4. CASE j = at
    <3>1. IsWholeFor(lines[at], Top) /\ IsItem(lines[at])
      BY <1>1, <2>2, <2>3, <2>4, AtIsIntact DEF IsWholeFor
    <3>2. Doomed'
      BY <1>1, <1>2, <3>1, WholeIsDoomed, DoomedStays
    <3>3. IsItem(lines'[at'])
      BY <1>1, <1>2, <3>1
    <3> QED BY <1>3, <3>2, <3>3 DEF EndIsKnown, IsItem, Begins
  <2>5. CASE j # at
    <3>1. j < at'
      BY <1>1, <1>2, <2>5, ListIs, BaseIs DEF MarkdownInv
    <3>2. Passed(j)'
      BY <1>1, <1>2, <2>2, PassedStays
    <3>3. PICK p \in Nat : p = Top.pos
      BY <2>1
    <3> QED BY <1>1, <1>2, <1>3, <2>1, <2>2, <2>3, <3>1, <3>2, <3>3, EndIsBelow DEF EndIsKnown
  <2> QED BY <2>4, <2>5
<1> QED BY <1>4, <1>5

LEMMA TakeItemEnds ==
  ASSUME MarkdownInv, CallsBegan, TakeItem PROVE CallsBegan' /\ EndIsKnown'
<1> DEFINE next == at + 1
           l == lines[next]
           goesOn == l.indent = Top.pos /\ Begins(l, Top.ordered)
           nested == l.indent > Top.pos /\ (Begins(l, FALSE) \/ (Begins(l, TRUE) /\ Top.ordered))
           call == [ordered |-> Begins(l, TRUE), pos |-> l.indent]
<1>0. MdTypes /\ UnparsedIntact /\ Whereabouts
  BY DEF MarkdownInv
<1>1. /\ TakesItem /\ InList /\ InFile(at) /\ lines[at].size >= Cut(Top)
      /\ items' = Append(items, Item(lines[at], Top))
      /\ IF InFile(next) /\ (goesOn \/ nested)
         THEN /\ frames' = IF goesOn THEN frames ELSE Append(frames, call)
              /\ at' = next
              /\ UNCHANGED <<file, start, elements, footnotes, outcome>>
         ELSE Return(next, TRUE, Append(items, Item(lines[at], Top)))
  BY DEF TakeItem, TakesItem
<1> USE ListIs
<1>2. at' = at + 1 /\ file' = file /\ start' = start
  BY <1>1 DEF Return
<1>3. file[at].size > 0
  <2>1. lines[at].size \in Nat /\ lines[at] = file[at]
    BY <1>1, AtIsIntact, LineIs
  <2>2. Cut(Top) \in Nat /\ Cut(Top) > 0
    BY <1>1 DEF Cut
  <2> QED BY <1>1, <2>1, <2>2
<1>4. Goes
  BY <1>2, <1>3 DEF Goes
<1>5. CASE ~(InFile(next) /\ (goesOn \/ nested))
  <2>1. frames' = Front(frames)
    BY <1>1, <1>5 DEF Return
  <2>2. /\ ~(Len(frames) > 1) => ~InListNow'
        /\ CallsBegan'
        /\ Len(frames) > 1 => EndedBelow'
    BY <1>1, <1>2, <1>4, <2>1, ReturnEnds
  <2> QED BY <2>2, NoListEnds DEF EndIsKnown
<1>6. CASE InFile(next) /\ (goesOn \/ nested)
  <2>1. frames' = IF goesOn THEN frames ELSE Append(frames, call)
    BY <1>1, <1>6
  <2>2. /\ goesOn => frames' = frames
        /\ ~goesOn => /\ Len(frames') = Len(frames) + 1 /\ frames'[Len(frames) + 1] = call
                      /\ \A n \in 1 .. Len(frames) : frames'[n] = frames[n]
    <3> HIDE DEF call, goesOn
    <3> QED BY <1>1, <2>1
  <2>3. /\ Len(frames') \in Nat /\ Len(frames) <= Len(frames')
        /\ \A n \in 2 .. Len(frames) : frames'[n] = frames[n]
    BY <1>1, <2>2
  <2>4. EndIsKnown'
    <3>1. Last(items)'.depth = Len(frames)
      <4>1. Last(items)' = Item(lines[at], Top)
        BY <1>1, ItemIs DEF Last
      <4> QED BY <1>1, <4>1, ItemIs
    <3> QED BY <1>1, <2>3, <3>1 DEF EndIsKnown
  <2>5. next \in DOMAIN file /\ l = file[next]
    <3>1. next \in DOMAIN file /\ next \in at .. Len(file)
      BY <1>0, <1>1, <1>6, LinesAre DEF InFile
    <3> QED BY <1>0, <3>1 DEF UnparsedIntact
  <2>6. \A n \in 2 .. Len(frames) : Began(n)'
    <3>1. \A n \in 2 .. Len(frames) : Began(n)
      BY <1>1 DEF CallsBegan
    <3> QED BY <1>1, <1>2, <1>4, <2>3, <3>1, CallStays
  <2>7. ASSUME ~goesOn PROVE \A n : n = Len(frames) + 1 => Began(n)'
    <3>1. Begins(l, FALSE) \/ Begins(l, TRUE)
      BY <1>6, <2>7
    <3>2. Begins(l, Begins(l, TRUE))
      BY <3>1 DEF Begins
    <3>3. start \in Nat /\ start <= at /\ at \in Nat
      BY <1>0, BaseIs DEF Whereabouts
    <3>4. PICK m \in Nat : m = next
      BY <3>3
    <3>5. /\ Begins(file'[m], frames'[Len(frames) + 1].ordered)
          /\ file'[m].indent = frames'[Len(frames) + 1].pos
      <4>1. call.ordered = Begins(l, TRUE) /\ call.pos = l.indent
        OBVIOUS
      <4>2. frames'[Len(frames) + 1] = call /\ file'[m] = l
        BY <1>2, <2>2, <2>5, <2>7, <3>4
      <4> HIDE DEF call, l
      <4> QED BY <3>2, <4>1, <4>2
    <3>6. m \in start' .. at' /\ m + 1 .. at' - 1 = {}
      BY <1>2, <3>3, <3>4
    <3>7. Passed(m)'
      BY <3>6 DEF Passed
    <3> HIDE DEF next, l, goesOn, nested, call
    <3> QED BY <3>5, <3>6, <3>7 DEF Began, Begins
  <2>8. \A n \in 2 .. Len(frames') : Began(n)'
    <3>1. CASE goesOn
      BY <2>2, <2>6, <3>1
    <3>2. CASE ~goesOn
      <4>1. \A n \in 2 .. Len(frames') : n \in 2 .. Len(frames) \/ n = Len(frames) + 1
        BY <1>1, <2>2, <3>2
      <4> QED BY <2>6, <2>7, <3>2, <4>1
    <3> QED BY <3>1, <3>2
  <2> QED BY <2>4, <2>8 DEF CallsBegan
<1> QED BY <1>5, <1>6

---------------------------------------------------------------------------
\* An element that is no broken table does not matter, nor do lines that are no rows.
LEMMA RowsStay ==
  ASSUME MdTypes, ShownInv, RowsAreKept, Well' => Well, file' = file,
         \A k \in DOMAIN file : file[k].kind = "row" /\ k <= Base => lines'[k] = lines[k],
         \A i \in DOMAIN elements' :
           \/ i \in DOMAIN elements /\ elements'[i] = elements[i]
           \/ ~IsBroken(elements'[i])
           \/ KeptIn(file, lines', elements'[i])
  PROVE  RowsAreKept'
<1> SUFFICES ASSUME Well, NEW i \in DOMAIN elements', IsBroken(elements'[i])
             PROVE  KeptIn(file, lines', elements'[i])
  BY DEF RowsAreKept, IsBroken
<1>1. CASE i \in DOMAIN elements /\ elements'[i] = elements[i]
  <2>1. KeptIn(file, lines, elements[i])
    BY <1>1 DEF RowsAreKept
  <2>2. PICK from, to \in DOMAIN file :
          /\ elements[i].from = from /\ elements[i].to = to /\ from + 1 < to
          /\ file[from].kind = "row" /\ file[to].kind = "row"
          /\ lines[from] = file[from] /\ lines[to] = file[to]
    BY <2>1 DEF KeptIn
  <2>3. elements[i].to < Base \/ elements[i].to = Base
    BY <1>1 DEF ShownInv, ElementsFollow
  <2>4. from \in Nat /\ to \in Nat /\ Base \in Nat
    BY LinesAre, BaseIs
  <2>5. from <= Base /\ to <= Base
    BY <2>2, <2>3, <2>4
  <2>6. lines'[from] = lines[from] /\ lines'[to] = lines[to]
    BY <2>2, <2>5
  <2> QED BY <1>1, <2>2, <2>6 DEF KeptIn
<1>2. CASE KeptIn(file, lines', elements'[i])
  BY <1>2
<1> QED BY <1>1, <1>2

\* What an added element is.
LEMMA AddedIs ==
  ASSUME MdTypes, NEW kind, NEW from, NEW to, elements' = Append(elements, Element(kind, from, to)),
         NEW i \in DOMAIN elements', ~(i \in DOMAIN elements /\ elements'[i] = elements[i])
  PROVE  elements'[i] = Element(kind, from, to)
<1> DEFINE e == Element(kind, from, to)
<1>1. elements' = Append(elements, e) /\ elements \in Seq(ElementType)
  BY DEF MdTypes
<1> HIDE DEF e
<1>2. elements'[i] = e
  BY <1>1
<1> QED BY <1>2 DEF e

\* Blocks other than broken tables.
LEMMA BlockRows ==
  ASSUME MarkdownInv, RowsAreKept, AtALine, file' = file,
         \/ elements' = elements
         \/ \E kind, to : Push(kind, to) /\ kind # "brokenTable",
         \/ lines' = lines
         \/ lines[at].kind # "row" /\ \E l \in Line : lines' = [lines EXCEPT ![at] = l]
  PROVE  RowsAreKept'
<1>0. MdTypes /\ ShownInv
  BY DEF MarkdownInv
<1>1. Well
  BY DEF Well, AtALine
<1>2. \A k \in DOMAIN file : file[k].kind = "row" /\ k <= Base => lines'[k] = lines[k]
  <2>1. \A k \in DOMAIN file :
          file[k].kind = "row" => k \in DOMAIN lines /\ (k # at \/ lines' = lines)
    BY <1>0, HereIs, LinesAre
  <2> QED BY <1>0, <2>1, HereIs, ChangedIsText
<1>3. \A i \in DOMAIN elements' :
        (i \in DOMAIN elements /\ elements'[i] = elements[i]) \/ ~IsBroken(elements'[i])
  <2>1. CASE elements' = elements
    BY <2>1
  <2>2. CASE \E kind, to : Push(kind, to) /\ kind # "brokenTable"
    <3>1. PICK kind, to : Push(kind, to) /\ kind # "brokenTable"
      BY <2>2
    <3>2. elements' = Append(elements, Element(kind, at, to))
      BY <3>1 DEF Push
    <3>3. ~IsBroken(Element(kind, at, to))
      BY <3>1 DEF IsBroken, Element
    <3> QED BY <1>0, <3>2, <3>3, AddedIs
  <2> QED BY <2>1, <2>2
<1> QED BY <1>0, <1>1, <1>2, <1>3, RowsStay

LEMMA TableRows == ASSUME MarkdownInv, RowsAreKept, ParseTable PROVE RowsAreKept'
<1> DEFINE columns == lines[at].cells
           Ends == {j \in DOMAIN lines : lines[j].kind # "row" \/ lines[j].goodCells # columns}
           next == FirstFrom(at + 2, Ends)
           broken == InFile(next) /\ lines[next].kind = "row"
<1>1. /\ AtALine /\ lines[at].kind = "row"
      /\ IF ~InFile(at + 1) THEN Throw
         ELSE IF lines[at + 1].kind # "row" THEN Paragraph
         ELSE IF lines[at + 1].cells # columns THEN Refuse
         ELSE IF ~InFile(at + 2) THEN Throw
         ELSE /\ Push(IF broken THEN "brokenTable" ELSE "table", IF broken THEN next ELSE next - 1)
              /\ Advance(next)
              /\ UNCHANGED <<lines, frames, items, footnotes>>
  BY AtIsHere DEF ParseTable, AtMark
<1>2. /\ MdTypes /\ ShownInv /\ Well /\ at \in Nat /\ at \in DOMAIN file
      /\ Len(file) \in Nat /\ Len(file) = Len(lines)
  BY <1>1, HereIs, LinesAre DEF MarkdownInv, Well, AtALine
<1>3. CASE Refuse \/ Throw
  BY <1>1, <1>3, BlockRows DEF Refuse, Throw
<1>4. CASE Paragraph
  <2>1. elements' = elements \/ Push("paragraph", at)
    BY <1>4 DEF Paragraph
  <2> QED BY <1>1, <1>4, <2>1, BlockRows DEF Paragraph, Advance
<1>5. CASE ~(Refuse \/ Throw \/ Paragraph)
  <2>1. /\ InFile(at + 2) /\ Advance(next) /\ lines' = lines
        /\ Push(IF broken THEN "brokenTable" ELSE "table", IF broken THEN next ELSE next - 1)
    BY <1>1, <1>5
  <2>2. file' = file
    BY <2>1 DEF Advance
  <2>3. CASE ~broken
    <3>1. Push("table", next - 1) /\ "table" # "brokenTable"
      BY <2>1, <2>3
    <3> QED BY <1>1, <2>1, <2>2, <3>1, BlockRows
  <2>4. CASE broken
    <3>1. elements' = Append(elements, Element("brokenTable", at, next))
      BY <2>1, <2>4 DEF Push
    <3>2. Ends \in SUBSET DOMAIN lines /\ at + 2 <= Len(lines)
      BY <1>2, <2>1, LinesAre DEF InFile
    <3>3. next \in Nat /\ at + 2 <= next /\ next \in DOMAIN file
      <4>1. next \in DOMAIN file
        BY <1>2, <2>4, LinesAre DEF InFile
      <4> HIDE DEF Ends
      <4> QED BY <1>2, <3>2, <4>1, FirstIs
    <3> HIDE DEF next
    <3>4. KeptIn(file, lines', Element("brokenTable", at, next))
      <4>1. lines[at] = file[at] /\ lines[next] = file[next]
        <5>1. next >= at
          BY <1>2, <3>3
        <5> QED BY <1>1, <3>3, <5>1, HereIs
      <4>2. at + 1 < next
        BY <1>2, <3>3
      <4>3. file[at].kind = "row" /\ file[next].kind = "row"
        BY <1>1, <2>4, <4>1
      <4> QED BY <1>2, <2>1, <3>3, <4>1, <4>2, <4>3 DEF KeptIn, Element
    <3>5. \A i \in DOMAIN elements' :
            \/ i \in DOMAIN elements /\ elements'[i] = elements[i]
            \/ KeptIn(file, lines', elements'[i])
      BY <1>2, <3>1, <3>4, AddedIs
    <3> QED BY <1>2, <2>1, <2>2, <3>5, RowsStay
  <2> QED BY <2>3, <2>4
<1> QED BY <1>3, <1>4, <1>5

LEMMA BlocksKeepRows == ASSUME MarkdownInv, RowsAreKept, ParseBlock PROVE RowsAreKept'
<1>0. MdTypes
  BY DEF MarkdownInv
<1>1. CASE ParseOneLine
  <2>1. /\ AtALine /\ lines[at].kind \in {"heading", "dashes", "image", "formula", "html"}
        /\ Push(lines[at].kind, at) /\ Advance(at + 1) /\ lines' = lines
    BY <1>1, AtIsHere DEF ParseOneLine, AtMark
  <2>2. PICK kind : kind = lines[at].kind
    OBVIOUS
  <2>3. Push(kind, at) /\ kind # "brokenTable"
    BY <2>1, <2>2
  <2> QED BY <2>1, <2>3, BlockRows DEF Advance
<1>2. CASE ParseFootnote
  BY <1>2, AtIsHere, BlockRows DEF ParseFootnote, AtMark, Advance
<1>3. CASE ParseBadImage
  BY <1>3, AtIsHere, BlockRows DEF ParseBadImage, AtMark, Refuse
<1>4. ASSUME AtALine, Paragraph PROVE RowsAreKept'
  <2>1. elements' = elements \/ Push("paragraph", at)
    BY <1>4 DEF Paragraph
  <2> QED BY <1>4, <2>1, BlockRows DEF Paragraph, Advance
<1>5. CASE ParseDefault
  <2>1. AtALine /\ Paragraph
    BY <1>5, AtIsHere DEF ParseDefault, AtMark
  <2> QED BY <1>4, <2>1
<1>6. CASE ParseBlockquote
  <2>1. PICK next : next = FirstFrom(at + 1, NoQuotes)
    OBVIOUS
  <2>2. /\ AtALine /\ lines[at].kind = "quote" /\ lines' = Overwritten(next)
        /\ Push("quote", next - 1) /\ Advance(next)
    BY <1>6, <2>1, AtIsHere DEF ParseBlockquote, AtMark
  <2>3. lines # <<>>
    BY <2>2, HereIs
  <2>4. \E l \in Line : lines' = [lines EXCEPT ![at] = l]
    BY <1>0, <2>2, <2>3, OverwrittenIs
  <2>5. \E kind, to : Push(kind, to) /\ kind # "brokenTable"
    BY <2>2
  <2> QED BY <2>2, <2>4, <2>5, BlockRows DEF Advance
<1>7. CASE ParseCodeblock
  <2>1. PICK close : close = FirstFrom(at + 1, Fences)
    OBVIOUS
  <2>2. /\ AtALine /\ lines[at].kind \in {"fence", "lang"}
        /\ IF InFile(close)
           THEN lines' = Overwritten(close) /\ Push("code", close) /\ Advance(close + 1)
           ELSE Refuse
    BY <1>7, <2>1, AtIsHere DEF ParseCodeblock, AtMark
  <2>3. CASE ~InFile(close)
    BY <2>2, <2>3, BlockRows DEF Refuse
  <2>4. CASE InFile(close)
    <3>1. lines # <<>>
      BY <2>2, HereIs
    <3>2. \E l \in Line : lines' = [lines EXCEPT ![at] = l]
      BY <1>0, <2>2, <2>4, <3>1, OverwrittenIs
    <3>3. \E kind, to : Push(kind, to) /\ kind # "brokenTable"
      BY <2>2, <2>4
    <3>4. lines[at].kind # "row" /\ file' = file
      BY <2>2, <2>4 DEF Advance
    <3> QED BY <2>2, <3>2, <3>3, <3>4, BlockRows
  <2> QED BY <2>3, <2>4
<1>8. CASE ParseLatex
  <2>1. PICK close : close = FirstFrom(at + 1, FormulaEnds)
    OBVIOUS
  <2>2. /\ AtALine
        /\ IF InFile(close) THEN Push("formula", close) /\ Advance(close + 1) /\ lines' = lines
           ELSE Paragraph
    BY <1>8, <2>1, AtIsHere DEF ParseLatex, AtMark
  <2>3. CASE InFile(close)
    <3>1. \E kind, to : Push(kind, to) /\ kind # "brokenTable"
      BY <2>2, <2>3
    <3> QED BY <2>2, <2>3, <3>1, BlockRows DEF Advance
  <2> QED BY <1>4, <2>2, <2>3
<1>9. CASE ParseTable
  BY <1>9, TableRows
<1> QED BY <1>1, <1>2, <1>3, <1>5, <1>6, <1>7, <1>8, <1>9 DEF ParseBlock

\* A list overwrites the line at hand, which is an item if no element ends before it.
LEMMA ListKeepsRows ==
  ASSUME MarkdownInv, RowsAreKept, InList, file' = file,
         \/ elements' = elements
         \/ \E from, to : elements' = Append(elements, Element("list", from, to)),
         lines' = lines \/ (InFile(at) /\ \E l \in Line : lines' = [lines EXCEPT ![at] = l])
  PROVE  RowsAreKept'
<1>0. MdTypes /\ ShownInv /\ ListInv
  BY DEF MarkdownInv
<1> USE ListIs
<1>1. Well /\ InListNow
  BY DEF Well
<1>2. \A k \in DOMAIN file : file[k].kind = "row" /\ k <= Base => lines'[k] = lines[k]
  <2>1. CASE lines' = lines
    BY <2>1
  <2>2. CASE InFile(at) /\ \E l \in Line : lines' = [lines EXCEPT ![at] = l]
    <3>1. \A k \in DOMAIN lines : k # at => lines'[k] = lines[k]
      BY <1>0, <2>2, ChangedIsText DEF InFile
    <3>2. \A k \in DOMAIN file : file[k].kind = "row" /\ k <= Base => k # at
      <4>1. CASE items = <<>>
        <5>1. lines[at].kind # "row" /\ lines[at] = file[at]
          BY <1>0, <1>1, <2>2, <4>1, AtIsIntact DEF ListInv, LineIsItem, IsWholeFor, Begins
        <5> QED BY <5>1
      <4>2. CASE items # <<>>
        <5>1. Base < at
          BY <1>0, <1>1, <4>2 DEF ListInv, LineIsItem, Base, InListNow
        <5>2. ~(at <= Base)
          BY <5>1
        <5> QED BY <5>2
      <4> QED BY <4>1, <4>2
    <3> QED BY <1>0, <3>1, <3>2, LinesAre
  <2> QED BY <2>1, <2>2
<1>3. \A i \in DOMAIN elements' :
        (i \in DOMAIN elements /\ elements'[i] = elements[i]) \/ ~IsBroken(elements'[i])
  <2>1. CASE elements' = elements
    BY <2>1
  <2>2. CASE \E from, to : elements' = Append(elements, Element("list", from, to))
    <3>1. PICK from, to : elements' = Append(elements, Element("list", from, to))
      BY <2>2
    <3>2. ~IsBroken(Element("list", from, to))
      BY DEF IsBroken, Element
    <3> QED BY <1>0, <3>1, <3>2, AddedIs
  <2> QED BY <2>1, <2>2
<1> QED BY <1>0, <1>1, <1>2, <1>3, RowsStay

LEMMA ListsKeepRows == ASSUME MarkdownInv, RowsAreKept, ParseList PROVE RowsAreKept'
<1>0. MdTypes
  BY DEF MarkdownInv
<1>1. CASE StartList
  <2>1. AtALine /\ UNCHANGED <<file, lines, elements>>
    BY <1>1, AtIsHere DEF StartList, AtMark
  <2> QED BY <2>1, BlockRows
<1>2. CASE ItemThrows
  <2>1. InList /\ UNCHANGED <<file, lines, elements>>
    BY <1>2 DEF ItemThrows, Throw
  <2> QED BY <2>1, ListKeepsRows
<1>3. ASSUME NEW next, NEW ok, NEW taken, Return(next, ok, taken)
      PROVE  file' = file /\ (elements' = elements
               \/ \E from, to : elements' = Append(elements, Element("list", from, to)))
  BY <1>3 DEF Return
<1>4. CASE ItemTooShort
  BY <1>3, <1>4, ListKeepsRows DEF ItemTooShort
<1>5. CASE BadItem
  <2>1. PICK taken : taken = items'
    OBVIOUS
  <2>2. InList /\ Return(at, FALSE, taken) /\ lines' = lines
    BY <1>5, <2>1 DEF BadItem, TakesItem
  <2>3. file' = file /\ (elements' = elements
               \/ \E from, to : elements' = Append(elements, Element("list", from, to)))
    BY <1>3, <2>2
  <2> QED BY <2>2, <2>3, ListKeepsRows
<1>6. CASE TakeItem
  <2>1. /\ InList /\ InFile(at)
        /\ lines' = IF InFile(at + 1) THEN [lines EXCEPT ![at] = lines[at + 1]] ELSE lines
        /\ \/ UNCHANGED <<file, elements>>
           \/ Return(at + 1, TRUE, Append(items, Item(lines[at], Top)))
    BY <1>6 DEF TakeItem, TakesItem
  <2>2. lines' = lines \/ (InFile(at) /\ \E l \in Line : lines' = [lines EXCEPT ![at] = l])
    BY <1>0, <2>1, LinesAre DEF InFile
  <2>3. file' = file /\ (elements' = elements
               \/ \E from, to : elements' = Append(elements, Element("list", from, to)))
    BY <1>3, <2>1
  <2> QED BY <2>1, <2>2, <2>3, ListKeepsRows
<1> QED BY <1>1, <1>2, <1>4, <1>5, <1>6 DEF ParseList

---------------------------------------------------------------------------
\* The reasons are about the text and where its body starts.
LEMMA DueStays ==
  ASSUME file' = file, start' = start
  PROVE  ThrowIsDue' = ThrowIsDue /\ RefusalIsDue' = RefusalIsDue
<1>1. \A l : IsBlank(l)' = IsBlank(l) /\ IsDashes(l)' = IsDashes(l)
  BY DEF IsBlank, IsDashes
<1>2. \A l : IsNested(l)' = IsNested(l) /\ IsItem(l)' = IsItem(l) /\ Begin(l)' = Begin(l)
  BY DEF IsNested, IsItem, Begins, Begin
<1>3. \A k : SizeAt(k)' = SizeAt(k) /\ ReachOf(k)' = ReachOf(k)
  BY DEF SizeAt, ReachOf
<1>4. ThrowIsDue' = ThrowIsDue
  BY <1>1, <1>2, <1>3, Zenon DEF ThrowIsDue
<1>5. RefusalIsDue' = RefusalIsDue
  BY <1>1, <1>2, <1>3, Zenon DEF RefusalIsDue
<1> QED BY <1>4, <1>5

LEMMA GoesOnFails ==
  ASSUME outcome' \notin {"thrown", "refused", "undefined"} PROVE FailsOnlyIf'
BY DEF FailsOnlyIf

LEMMA ThrowFails == ASSUME Throw, ThrowIsDue PROVE FailsOnlyIf'
<1>1. outcome' = "thrown" /\ file' = file /\ start' = start
  BY DEF Throw
<1>2. ThrowIsDue'
  BY <1>1, DueStays
<1> QED BY <1>1, <1>2 DEF FailsOnlyIf

LEMMA RefusalFails ==
  ASSUME outcome' = "refused", file' = file, start' = start, RefusalIsDue PROVE FailsOnlyIf'
<1>1. RefusalIsDue'
  BY DueStays
<1> QED BY <1>1 DEF FailsOnlyIf

LEMMA MetadataFails == ASSUME MarkdownInv, ParseMetadata PROVE FailsOnlyIf'
<1> DEFINE first == FirstFrom(1, Filled)
           close == FirstFrom(first + 1, Dashes)
           body == IF IsDashes(lines[first]) THEN close + 1 ELSE first
           Fails == ~InFile(first) \/ (IsDashes(lines[first]) /\ ~InFile(close))
<1>0. MdTypes /\ Whereabouts /\ UnparsedIntact
  BY DEF MarkdownInv
<1>1. /\ start = 0 /\ outcome = "running"
      /\ IF Fails THEN Throw
         ELSE outcome' = IF body > Len(lines) THEN "parsed" ELSE "running"
  BY DEF ParseMetadata
<1>2. CASE ~Fails
  BY <1>1, <1>2, GoesOnFails
<1>3. CASE Fails
  <2>1. Filled \in SUBSET DOMAIN lines /\ Dashes \in SUBSET DOMAIN lines
    BY DEF Filled, Dashes
  <2>2. Len(lines) \in Nat /\ DOMAIN lines = 1 .. Len(lines) /\ DOMAIN file = 1 .. Len(lines)
        /\ Len(file) = Len(lines)
    BY <1>0, LinesAre
  <2>3. \A k \in DOMAIN file : lines[k] = file[k]
    <3>1. at = 1
      BY <1>0, <1>1 DEF Whereabouts
    <3> QED BY <1>0, <2>2, <3>1 DEF UnparsedIntact
  <2>4. /\ first \in Nat /\ 1 <= first /\ first <= Len(lines) + 1
        /\ first \in Filled \/ first = Len(lines) + 1
        /\ \A j \in Filled : j >= 1 => first <= j
    BY <1>0, <2>1, <2>2, FirstIs
  <2>5. CASE ~InFile(first)
    <3>1. first = Len(lines) + 1
      BY <2>1, <2>4, <2>5 DEF InFile
    <3>2. \A j \in DOMAIN lines : j \notin Filled
      <4> HIDE DEF first
      <4> QED BY <2>2, <2>4, <3>1
    <3>3. \A j \in DOMAIN file : IsBlank(file[j])
      BY <2>2, <2>3, <3>2 DEF Filled
    <3>4. ThrowIsDue
      BY <3>3 DEF ThrowIsDue
    <3> QED BY <1>1, <1>3, <3>4, ThrowFails
  <2>6. CASE InFile(first)
    <3>1. IsDashes(lines[first]) /\ ~InFile(close) /\ first \in DOMAIN file
      BY <1>3, <2>2, <2>6 DEF InFile
    <3>2. \A j \in Dashes : ~(j >= first + 1)
      <4>1. /\ close \in Dashes \/ close = Len(lines) + 1
            /\ \A j \in Dashes : j >= first + 1 => close <= j
        <5>1. first + 1 \in Nat /\ first + 1 <= Len(lines) + 1
          BY <2>2, <3>1
        <5> HIDE DEF first
        <5> QED BY <1>0, <2>1, <5>1, FirstIs
      <4>2. close = Len(lines) + 1
        BY <2>1, <3>1, <4>1 DEF InFile
      <4> HIDE DEF first, close
      <4> QED BY <2>1, <2>2, <4>1, <4>2
    <3>3. \A j \in DOMAIN file \ {first} : ~IsDashes(file[j])
      <4> SUFFICES ASSUME NEW j \in DOMAIN file, j # first, IsDashes(file[j]) PROVE FALSE
        OBVIOUS
      <4>1. j \in Filled /\ j \in Dashes
        BY <2>2, <2>3 DEF Filled, Dashes, IsBlank, IsDashes
      <4>2. first <= j /\ ~(j >= first + 1)
        BY <2>2, <2>4, <3>2, <4>1
      <4> HIDE DEF first
      <4> QED BY <2>2, <2>4, <4>2
    <3>4. IsDashes(file[first])
      BY <2>3, <3>1
    <3>5. ThrowIsDue
      <4> HIDE DEF first
      <4> QED BY <1>1, <3>1, <3>3, <3>4 DEF ThrowIsDue
    <3> QED BY <1>1, <1>3, <3>5, ThrowFails
  <2> QED BY <2>5, <2>6
<1> QED BY <1>2, <1>3

LEMMA AdvanceFails == ASSUME NEW next, Advance(next) PROVE FailsOnlyIf'
<1>1. outcome' = "parsed" \/ outcome' = "running"
  BY DEF Advance
<1> QED BY <1>1, GoesOnFails

\* The line that refuses the text is one of its body.
LEMMA HereIsInBody ==
  ASSUME MarkdownInv, AtALine
  PROVE  /\ at \in start .. Len(file) /\ Len(file) \in Nat /\ at \in Nat
         /\ DOMAIN file = 1 .. Len(file) /\ Len(lines) = Len(file)
<1>1. MdTypes /\ start <= at
  BY DEF MarkdownInv, Whereabouts
<1> QED BY <1>1, HereIs, LinesAre, BaseIs

LEMMA TableFails == ASSUME MarkdownInv, ParseTable PROVE FailsOnlyIf'
<1> DEFINE next == FirstFrom(at + 2, {j \in DOMAIN lines : \/ lines[j].kind # "row"
                                                           \/ lines[j].goodCells # lines[at].cells})
<1>1. /\ AtALine /\ lines[at].kind = "row"
      /\ IF ~InFile(at + 1) THEN Throw
         ELSE IF lines[at + 1].kind # "row" THEN Advance(at + 1)
         ELSE IF lines[at + 1].cells # lines[at].cells THEN Refuse
         ELSE IF ~InFile(at + 2) THEN Throw
         ELSE Advance(next)
  BY AtIsHere DEF ParseTable, AtMark, Paragraph
<1> HIDE DEF next
<1>2. /\ at \in start .. Len(file) /\ Len(file) \in Nat /\ at \in Nat /\ at <= Len(file)
      /\ DOMAIN file = 1 .. Len(file) /\ DOMAIN lines = 1 .. Len(file)
      /\ lines[at] = file[at] /\ at \in DOMAIN file
      /\ \A k \in DOMAIN file : k >= at => lines[k] = file[k]
  BY <1>1, HereIs, HereIsInBody
<1>3. CASE ~InFile(at + 1)
  <2>1. at = Len(file)
    <3>1. ~(at + 1 \in 1 .. Len(file))
      BY <1>2, <1>3 DEF InFile
    <3>2. \A i, n \in Nat : i <= n /\ ~(i + 1 \in 1 .. n) => i = n
      OBVIOUS
    <3> QED BY <1>2, <3>1, <3>2
  <2>2. ThrowIsDue
    BY <1>1, <1>2, <2>1 DEF ThrowIsDue
  <2> QED BY <1>1, <1>3, <2>2, ThrowFails
<1>4. CASE InFile(at + 1)
  <2>1. lines[at + 1] = file[at + 1] /\ at < Len(file)
    BY <1>2, <1>4 DEF InFile
  <2>2. CASE lines[at + 1].kind # "row"
    BY <1>1, <1>4, <2>2, AdvanceFails
  <2>3. CASE lines[at + 1].kind = "row" /\ lines[at + 1].cells # lines[at].cells
    <3>1. RefusalIsDue
      BY <1>1, <1>2, <2>1, <2>3 DEF RefusalIsDue
    <3> QED BY <1>1, <1>4, <2>3, <3>1, RefusalFails DEF Refuse
  <2>4. CASE lines[at + 1].kind = "row" /\ ~InFile(at + 2)
    <3>1. at + 1 = Len(file)
      <4>1. ~(at + 2 \in 1 .. Len(file))
        BY <1>2, <2>4 DEF InFile
      <4>2. \A i, n \in Nat : i < n /\ ~(i + 2 \in 1 .. n) => i + 1 = n
        OBVIOUS
      <4> QED BY <1>2, <2>1, <4>1, <4>2
    <3>2. ThrowIsDue
      BY <2>1, <2>4, <3>1 DEF ThrowIsDue
    <3>3. CASE lines[at + 1].cells # lines[at].cells
      BY <2>3, <2>4, <3>3
    <3>4. CASE lines[at + 1].cells = lines[at].cells
      BY <1>1, <1>4, <2>4, <3>2, <3>4, ThrowFails
    <3> QED BY <3>3, <3>4
  <2>5. CASE /\ lines[at + 1].kind = "row" /\ lines[at + 1].cells = lines[at].cells
             /\ InFile(at + 2)
    BY <1>1, <1>4, <2>5, AdvanceFails
  <2> QED BY <2>2, <2>3, <2>4, <2>5
<1> QED BY <1>3, <1>4

LEMMA BlockFails == ASSUME MarkdownInv, ParseBlock PROVE FailsOnlyIf'
<1>1. CASE ParseOneLine \/ ParseFootnote \/ ParseDefault \/ ParseBlockquote
  BY <1>1, AdvanceFails DEF ParseOneLine, ParseFootnote, ParseDefault, ParseBlockquote, Paragraph
<1>2. CASE ParseBadImage
  <2>1. AtALine /\ lines[at].kind = "badImage" /\ Refuse
    BY <1>2, AtIsHere DEF ParseBadImage, AtMark
  <2>2. at \in start .. Len(file) /\ file[at].kind = "badImage"
    BY <2>1, HereIs, HereIsInBody
  <2>3. RefusalIsDue
    BY <2>2 DEF RefusalIsDue
  <2> QED BY <2>1, <2>3, RefusalFails DEF Refuse
<1>3. CASE ParseCodeblock
  <2> DEFINE close == FirstFrom(at + 1, Fences)
  <2>1. /\ AtALine /\ lines[at].kind \in {"fence", "lang"}
        /\ IF InFile(close) THEN Advance(close + 1) ELSE Refuse
    BY <1>3, AtIsHere DEF ParseCodeblock, AtMark
  <2>2. CASE InFile(close)
    BY <2>1, <2>2, AdvanceFails
  <2>3. CASE ~InFile(close)
    <3>1. /\ at \in start .. Len(file) /\ Len(file) \in Nat /\ at \in Nat /\ at <= Len(file)
          /\ DOMAIN file = 1 .. Len(file) /\ DOMAIN lines = 1 .. Len(file) /\ Len(lines) = Len(file)
          /\ lines[at] = file[at]
          /\ \A k \in DOMAIN file : k >= at => lines[k] = file[k]
      BY <2>1, HereIs, HereIsInBody
    <3>2. Fences \in SUBSET DOMAIN lines
      BY DEF Fences
    <3>3. /\ close \in Fences \/ close = Len(lines) + 1
          /\ \A j \in Fences : j >= at + 1 => close <= j
      <4>1. at + 1 \in Nat /\ at + 1 <= Len(lines) + 1 /\ MdTypes
        BY <3>1 DEF MarkdownInv
      <4> QED BY <3>2, <4>1, FirstIs
    <3>4. close = Len(lines) + 1
      BY <2>3, <3>2, <3>3 DEF InFile
    <3>5. \A i \in at + 1 .. Len(file) : i \notin Fences
      <4> HIDE DEF close
      <4> QED BY <3>1, <3>3, <3>4
    <3>6. \A i \in at + 1 .. Len(file) : file[i].kind # "fence" \/ file[i].indent > 0
      <4> TAKE i \in at + 1 .. Len(file)
      <4>1. i \in DOMAIN file /\ i \in DOMAIN lines /\ i >= at
        BY <3>1
      <4>2. file[i].kind # "fence" \/ file[i].indent # 0
        BY <3>1, <3>5, <4>1 DEF Fences
      <4>3. file[i].indent \in Nat
        BY <4>1, LinesAre, LineIs DEF MarkdownInv
      <4> QED BY <4>2, <4>3
    <3>7. RefusalIsDue
      BY <2>1, <3>1, <3>6 DEF RefusalIsDue
    <3> QED BY <2>1, <2>3, <3>7, RefusalFails DEF Refuse
  <2> QED BY <2>2, <2>3
<1>4. CASE ParseLatex
  <2> DEFINE close == FirstFrom(at + 1, FormulaEnds)
  <2>1. Advance(close + 1) \/ Advance(at + 1)
    BY <1>4 DEF ParseLatex, Paragraph
  <2> QED BY <2>1, AdvanceFails
<1>5. CASE ParseTable
  BY <1>5, TableFails
<1> QED BY <1>1, <1>2, <1>3, <1>4, <1>5 DEF ParseBlock

LEMMA ToHtmlFails == ASSUME MarkdownInv, RowsAreKept, ToHtml PROVE FailsOnlyIf'
<1>1. /\ outcome = "parsed" /\ file' = file
      /\ outcome' = IF \E i \in DOMAIN elements : ShortTable(elements[i])
                    THEN "undefined" ELSE "shown"
  BY DEF ToHtml
<1>2. Well
  <2>1. start # 0 /\ start \in Nat
    BY <1>1, BaseIs DEF MarkdownInv, Whereabouts
  <2> QED BY <1>1, <2>1 DEF Well
<1>3. CASE ~\E i \in DOMAIN elements : ShortTable(elements[i])
  BY <1>1, <1>3, GoesOnFails
<1>4. CASE \E i \in DOMAIN elements : ShortTable(elements[i])
  <2>1. PICK i \in DOMAIN elements : ShortTable(elements[i])
    BY <1>4
  <2>2. /\ elements[i].kind = "brokenTable"
        /\ lines[elements[i].to].goodCells < lines[elements[i].from].cells
    BY <2>1 DEF ShortTable
  <2>3. PICK from, to \in DOMAIN file :
          /\ elements[i].from = from /\ elements[i].to = to /\ from + 1 < to
          /\ file[from].kind = "row" /\ file[to].kind = "row"
          /\ lines[from] = file[from] /\ lines[to] = file[to]
    BY <1>2, <2>2 DEF RowsAreKept, IsBroken, KeptIn
  <2>4. file[to].goodCells < file[from].cells
    BY <2>2, <2>3
  <2>5. \E a, b \in DOMAIN file' : /\ a + 1 < b /\ file'[a].kind = "row" /\ file'[b].kind = "row"
                                   /\ file'[b].goodCells < file'[a].cells
    BY <1>1, <2>3, <2>4
  <2> QED BY <1>1, <1>4, <2>5 DEF FailsOnlyIf
<1> QED BY <1>3, <1>4

\* A line that is no item of the innermost list: a deeper one ended there.
LEMMA EndedIs ==
  ASSUME MarkdownInv, EndIsKnown, InList,
         ~(at <= Len(file) /\ IsWholeFor(lines[at], Top)), ~(Doomed /\ IsItem(lines[at]))
  PROVE  \E j \in start .. Len(file), p \in Nat :
           /\ IsNested(file[j]) /\ file[j].indent = p /\ Top.pos < p /\ at \in ReachOf(j)
<1>0. MdTypes /\ ListInv /\ Whereabouts
  BY DEF MarkdownInv
<1> USE ListIs
<1>1. items # <<>> /\ Last(items).depth > Len(frames)
  BY <1>0 DEF ListInv, LineIsItem
<1>2. PICK j \in start .. at - 1 : IsItem(file[j]) /\ file[j].indent > Top.pos /\ Passed(j)
  BY <1>1 DEF EndIsKnown, EndedBelow
<1>3. /\ at \in Nat /\ at <= Len(file) + 1 /\ Len(file) \in Nat /\ start > 0 /\ start \in Nat
      /\ DOMAIN file = 1 .. Len(file) /\ Top.pos \in Nat
  BY <1>0, LinesAre, BaseIs
<1>4. j \in start .. Len(file) /\ j \in DOMAIN file /\ j \in Nat /\ at \in j + 1 .. Len(file) + 1
  BY <1>2, <1>3
<1>5. PICK p \in Nat : p = file[j].indent
  BY <1>0, <1>4, LinesAre, LineIs
<1>6. Top.pos < p /\ p > 0
  BY <1>2, <1>3, <1>5
<1>7. IsNested(file[j])
  BY <1>2, <1>5, <1>6 DEF IsNested
<1>8. at \in ReachOf(j)
  BY <1>2, <1>4 DEF ReachOf, Passed
<1> QED BY <1>4, <1>5, <1>6, <1>7, <1>8

LEMMA ItemThrowsFails == ASSUME MarkdownInv, EndIsKnown, ItemThrows PROVE FailsOnlyIf'
<1>1. InList /\ Throw /\ (InFile(at) => Top.ordered /\ lines[at].size < Cut(Top))
  BY DEF ItemThrows
<1> USE ListIs
<1>2. /\ at \in Nat /\ at <= Len(file) + 1 /\ Len(file) \in Nat /\ at \in DOMAIN file <=> InFile(at)
      /\ DOMAIN file = 1 .. Len(file) /\ Top.pos \in Nat
  BY <1>1, LinesAre DEF MarkdownInv, InFile
<1>3. InFile(at) => /\ Top.ordered /\ lines[at].size < Top.pos + 2 /\ Cut(Top) = Top.pos + 2
                    /\ lines[at].size \in Nat /\ lines[at].indent \in Nat /\ lines[at] = file[at]
  <2>1. InFile(at) => Cut(Top) = Top.pos + 2
    BY <1>1 DEF Cut
  <2> QED BY <1>1, <2>1, AtIsIntact, LineIs
<1>4. ~(at <= Len(file) /\ IsWholeFor(lines[at], Top))
  <2> SUFFICES ASSUME at <= Len(file), IsWholeFor(lines[at], Top) PROVE FALSE
    OBVIOUS
  <2>1. InFile(at)
    BY <1>1, <1>2
  <2>2. lines[at].kind = "number" /\ lines[at].indent = Top.pos
    BY <1>3, <2>1 DEF IsWholeFor, Begins
  <2>3. lines[at].indent + 2 < lines[at].size
    BY <2>1, <2>2, AtIsIntact DEF IsLine
  <2> QED BY <1>2, <1>3, <2>1, <2>2, <2>3
<1>5. ~Doomed
  <2> SUFFICES ASSUME Doomed PROVE FALSE
    OBVIOUS
  <2>1. Len(frames) \in DOMAIN frames /\ Top = frames[Len(frames)]
    BY <1>1
  <2>2. at <= Len(file) /\ Cut(Top) <= lines[at].size
    BY <2>1 DEF Doomed
  <2>3. InFile(at)
    BY <1>1, <1>2, <2>2
  <2> QED BY <1>2, <1>3, <2>2, <2>3
<1>6. PICK j \in start .. Len(file), p \in Nat :
        IsNested(file[j]) /\ file[j].indent = p /\ Top.pos < p /\ at \in ReachOf(j)
  BY <1>1, <1>4, <1>5, EndedIs
<1>7. SizeAt(at) < p + 2
  <2>1. CASE InFile(at)
    <3>1. SizeAt(at) = lines[at].size
      BY <1>2, <1>3, <2>1 DEF SizeAt
    <3> QED BY <1>2, <1>3, <1>6, <2>1, <3>1
  <2>2. CASE ~InFile(at)
    BY <1>2, <2>2 DEF SizeAt
  <2> QED BY <2>1, <2>2
<1>8. ThrowIsDue
  BY <1>6, <1>7 DEF ThrowIsDue
<1> QED BY <1>1, <1>8, ThrowFails

LEMMA BadItemFails == ASSUME MarkdownInv, EndIsKnown, BadItem PROVE FailsOnlyIf'
<1>1. /\ TakesItem /\ InList /\ InFile(at) /\ FALSE \in CutText(lines[at], Top)
      /\ Return(at, FALSE, items')
  BY DEF BadItem, TakesItem
<1> USE ListIs
<1>2. file' = file /\ start' = start /\ outcome' \in {"running", "refused"}
  BY <1>1 DEF Return
<1>3. /\ at \in DOMAIN file /\ lines[at] = file[at] /\ lines[at] \in Line /\ IsLine(lines[at])
      /\ at \in start .. Len(file) /\ at # Len(file) + 1
  <2>1. Len(file) \in Nat
    BY <1>1
  <2> QED BY <1>1, <2>1, AtIsIntact
<1>4. CASE at <= Len(file) /\ IsWholeFor(lines[at], Top)
  <2>1. Doomed
    BY <1>1, <1>4, WholeIsDoomed
  <2>2. ~file[at].good /\ IsItem(file[at])
    <3>1. Top.ordered \in BOOLEAN
      BY <1>1
    <3> QED BY <1>3, <1>4, <2>1, <3>1 DEF Doomed, IsItem, IsWholeFor
  <2>3. RefusalIsDue
    BY <1>3, <2>2 DEF RefusalIsDue
  <2> QED BY <1>2, <2>3, RefusalFails, GoesOnFails
<1>5. CASE Doomed /\ IsItem(lines[at])
  <2>1. ~file[at].good /\ IsItem(file[at])
    BY <1>3, <1>5 DEF Doomed
  <2>2. RefusalIsDue
    BY <1>3, <2>1 DEF RefusalIsDue
  <2> QED BY <1>2, <2>2, RefusalFails, GoesOnFails
<1>6. CASE /\ ~(at <= Len(file) /\ IsWholeFor(lines[at], Top))
           /\ ~(Doomed /\ IsItem(lines[at]))
  <2>1. PICK j \in start .. Len(file), p \in Nat :
          IsNested(file[j]) /\ file[j].indent = p /\ Top.pos < p /\ at \in ReachOf(j)
    BY <1>1, <1>6, EndedIs
  <2>2. ~IsBlank(file[at]) /\ (~file[at].good \/ Begin(file[at]) <= p)
    <3>1. CASE Cut(Top) <= Begin(lines[at])
      <4>1. ~lines[at].good
        BY <1>1, <3>1 DEF CutText
      <4> QED BY <1>3, <4>1 DEF IsLine, IsBlank
    <3>2. CASE ~(Cut(Top) <= Begin(lines[at]))
      <4>1. ~IsBlank(lines[at])
        BY <1>1, <3>2 DEF CutText
      <4>2. Begin(lines[at]) \in Nat
        <5>1. lines[at].indent \in Nat
          BY <1>3, LineIs
        <5> QED BY <5>1 DEF Begin
      <4>3. Cut(Top) <= Top.pos + 2 /\ Cut(Top) \in Nat /\ Top.pos \in Nat
        BY <1>1 DEF Cut
      <4>4. Begin(lines[at]) <= p
        BY <2>1, <3>2, <4>2, <4>3
      <4> QED BY <1>3, <4>1, <4>4
    <3> QED BY <3>1, <3>2
  <2>3. RefusalIsDue
    <3>1. at \in ReachOf(j) \ {Len(file) + 1}
      BY <1>3, <2>1
    <3> QED BY <2>1, <2>2, <3>1 DEF RefusalIsDue
  <2> QED BY <1>2, <2>3, RefusalFails, GoesOnFails
<1> QED BY <1>4, <1>5, <1>6

LEMMA ListFails ==
  ASSUME MarkdownInv, EndIsKnown, ParseList PROVE FailsOnlyIf'
<1>1. CASE StartList
  <2>1. outcome' = "running"
    BY <1>1 DEF StartList, AtMark, At
  <2> QED BY <2>1, GoesOnFails
<1>2. CASE ItemThrows
  BY <1>2, ItemThrowsFails
<1>3. CASE BadItem
  BY <1>3, BadItemFails
<1>4. ASSUME InList, NEW next, NEW taken, Return(next, TRUE, taken) PROVE FailsOnlyIf'
  <2>1. outcome' = "running" \/ outcome' = "parsed"
    BY <1>4 DEF Return, InList
  <2> QED BY <2>1, GoesOnFails
<1>5. CASE ItemTooShort
  BY <1>4, <1>5 DEF ItemTooShort
<1>6. CASE TakeItem
  <2>1. InList /\ (outcome' = outcome \/ Return(at + 1, TRUE, Append(items, Item(lines[at], Top))))
    BY <1>6 DEF TakeItem, TakesItem
  <2>2. CASE outcome' = outcome
    <3>1. outcome' = "running"
      BY <2>1, <2>2 DEF InList
    <3> QED BY <3>1, GoesOnFails
  <2> QED BY <1>4, <2>1, <2>2
<1> QED BY <1>1, <1>2, <1>3, <1>5, <1>6 DEF ParseList

\* Nothing has been read at the start.
THEOREM InitFailInv == MdInit => FailInv
<1> SUFFICES ASSUME MdInit PROVE FailInv
  OBVIOUS
<1>1. /\ frames = <<>> /\ elements = <<>> /\ outcome = "running"
  BY DEF MdInit, Read
<1> QED BY <1>1 DEF FailInv, CallsBegan, EndIsKnown, RowsAreKept, FailsOnlyIf, InListNow

\* Each parser stops for a reason, and leaves what the reasons rest on.
THEOREM StepFailInv == MarkdownInv /\ FailInv /\ [MdNext]_mdVars => FailInv'
<1> SUFFICES ASSUME MarkdownInv, FailInv, [MdNext]_mdVars PROVE FailInv'
  OBVIOUS
<1>0. CallsBegan /\ EndIsKnown /\ RowsAreKept /\ FailsOnlyIf /\ MdTypes /\ ShownInv
  BY DEF FailInv, MarkdownInv
<1>1. ASSUME frames' = <<>> PROVE CallsBegan' /\ EndIsKnown'
  BY <1>1, NoListEnds DEF InListNow
<1>2. CASE ParseMetadata
  <2>1. frames' = <<>> /\ elements' = <<>>
    BY <1>2 DEF MarkdownInv, Whereabouts, ParseMetadata, Throw
  <2>2. RowsAreKept'
    BY <2>1 DEF RowsAreKept
  <2> QED BY <1>1, <1>2, <2>1, <2>2, MetadataFails DEF FailInv
<1>3. CASE ParseBlock
  <2>1. frames' = <<>>
    BY <1>3 DEF ParseBlock, ParseOneLine, ParseFootnote, ParseBadImage, ParseDefault, Paragraph,
       ParseBlockquote, ParseCodeblock, ParseLatex, ParseTable, AtMark, At, Refuse, Throw
  <2> QED BY <1>0, <1>1, <1>3, <2>1, BlocksKeepRows, BlockFails DEF FailInv
<1>4. CASE ParseList
  <2>1. CallsBegan' /\ EndIsKnown'
    <3>1. CASE ItemThrows
      <4>1. ~InListNow'
        BY <3>1 DEF ItemThrows, Throw, InListNow
      <4> QED BY <4>1, NoListEnds
    <3> QED BY <1>0, <1>4, <3>1, StartListEnds, ItemTooShortEnds, BadItemEnds, TakeItemEnds
        DEF ParseList
  <2> QED BY <1>0, <1>4, <2>1, ListsKeepRows, ListFails DEF FailInv
<1>5. CASE ToHtml
  <2>1. UNCHANGED <<file, lines, at, elements, frames, items, start>>
        /\ outcome = "parsed" /\ outcome' \in {"undefined", "shown"}
    BY <1>5 DEF ToHtml
  <2>2. Well' => Well
    BY <2>1 DEF Well
  <2>3. RowsAreKept'
    BY <1>0, <2>1, <2>2, RowsStay
  <2>4. ~InListNow'
    BY <2>1 DEF InListNow
  <2> QED BY <1>0, <1>5, <2>3, <2>4, NoListEnds, ToHtmlFails DEF FailInv
<1>6. CASE UNCHANGED mdVars
  <2>1. UNCHANGED <<file, lines, at, start, elements, frames, items, footnotes, outcome>>
    BY <1>6 DEF mdVars
  <2>2. RowsAreKept'
    BY <1>0, <2>1, RowsStay DEF Well
  <2>3. FailsOnlyIf'
    <3>1. ThrowIsDue' = ThrowIsDue /\ RefusalIsDue' = RefusalIsDue
      BY <2>1, DueStays
    <3> QED BY <1>0, <2>1, <3>1 DEF FailsOnlyIf
  <2>4. CallsBegan' /\ EndIsKnown'
    <3>1. InListNow' = InListNow /\ Last(items)' = Last(items) /\ Top' = Top
      BY <2>1 DEF InListNow, Last, Top
    <3>2. Doomed' = Doomed
      BY <2>1 DEF Doomed, Cut, Begin
    <3>3. \A n : Began(n)' = Began(n)
      BY <2>1 DEF Began, Passed, Begins
    <3>4. EndedBelow' = EndedBelow
      BY <2>1, <3>1 DEF EndedBelow, Passed, IsItem, Begins
    <3>5. IsItem(lines[at])' = IsItem(lines[at])
      BY <2>1 DEF IsItem, Begins
    <3> QED BY <1>0, <2>1, <3>1, <3>2, <3>3, <3>4, <3>5 DEF CallsBegan, EndIsKnown
  <2> QED BY <2>2, <2>3, <2>4 DEF FailInv
<1> QED BY <1>2, <1>3, <1>4, <1>5, <1>6 DEF MdNext

\* markdown.cpp:35-86: for every text, the blocks that the parsers make of it show each of its
\* lines that has anything to show, in order and once, and a line that is
\* overwritten has been parsed.
THEOREM MarkdownLinesInOrder == MdSpec => []LinesInOrder
<1>1. MdInit => MarkdownInv
  BY InitMarkdownInv
<1>2. MarkdownInv /\ [MdNext]_mdVars => MarkdownInv'
  BY StepMarkdownInv
<1>3. MarkdownInv => LinesInOrder
  BY BlocksAreInOrder
<1> QED BY <1>1, <1>2, <1>3, PTL DEF MdSpec

\* markdown.cpp:37-43, 805-830, 1047-1075: whatever the text, the parser throws on one, refuses
\* it or reads past a row of it only for the reasons of FailsOnlyIf.
THEOREM MarkdownFailsOnlyIf == MdSpec => []FailsOnlyIf
<1> DEFINE Both == MarkdownInv /\ FailInv
<1>1. MdInit => Both
  BY InitMarkdownInv, InitFailInv
<1>2. Both /\ [MdNext]_mdVars => Both'
  BY StepMarkdownInv, StepFailInv
<1>3. Both => FailsOnlyIf
  BY DEF FailInv
<1> HIDE DEF Both
<1> QED BY <1>1, <1>2, <1>3, PTL DEF MdSpec

----------------------------------------------------------------------------
(* Within a line: the pass over the marks of a text, place by place. *)

Mark == {<<c, d>> : c \in Marks, d \in BOOLEAN}
LoneTilde == <<"~", FALSE>>

\* What one step of the pass does.
Scanned(before, k, to) ==
  IF before.skip \/ text[k] \notin Marks \/ MarkAt(k, to) = LoneTilde
  THEN [before EXCEPT !.skip = FALSE]
  ELSE [stack |-> IF IsOnTop(MarkAt(k, to), before.stack)
                  THEN Front(before.stack)
                  ELSE Append(before.stack, MarkAt(k, to)),
        skip |-> k < to /\ text[k + 1] = text[k]]

NothingScanned == [stack |-> <<>>, skip |-> FALSE]

IsScan(s, from, to, n) ==
  s = [k \in from - 1 .. n |-> IF k = from - 1 THEN NothingScanned ELSE Scanned(s[k - 1], k, to)]

IsPass(s, from, to) ==
  s[from - 1] = NothingScanned /\ \A k \in from .. to : s[k] = Scanned(s[k - 1], k, to)

\* There is a function that the recursion defines.
LEMMA ScanExists ==
  ASSUME NEW from \in Nat \ {0}, NEW to \in Nat, from <= to
  PROVE  \E s : IsScan(s, from, to, to)
<1> DEFINE Without == {n \in Nat : from - 1 <= n /\ n <= to /\ ~ \E s : IsScan(s, from, to, n)}
<1> SUFFICES ASSUME ~ \E s : IsScan(s, from, to, to) PROVE FALSE
  OBVIOUS
<1>0. to \in Without
  OBVIOUS
<1>1. PICK n \in Without : \A k \in Without : n <= k
  <2>1. Without \in SUBSET Nat
    OBVIOUS
  <2> HIDE DEF Without
  <2> QED BY <1>0, <2>1, SmallestExists
<1>2. CASE n = from - 1
  <2> DEFINE s == [k \in from - 1 .. n |-> NothingScanned]
  <2>1. IsScan(s, from, to, n)
    BY <1>2 DEF IsScan
  <2> QED BY <2>1
<1>3. CASE n # from - 1
  <2>1. n - 1 \in Nat /\ from - 1 <= n - 1 /\ n - 1 <= to
    BY <1>3
  <2>2. PICK s : IsScan(s, from, to, n - 1)
    BY <1>1, <2>1
  <2> DEFINE t == [k \in from - 1 .. n |-> IF k = n THEN Scanned(s[n - 1], n, to) ELSE s[k]]
  <2>3. \A k \in from - 1 .. n - 1 :
          s[k] = IF k = from - 1 THEN NothingScanned ELSE Scanned(s[k - 1], k, to)
    BY <2>2 DEF IsScan
  <2>4. \A k \in from - 1 .. n : t[k] = IF k = n THEN Scanned(s[n - 1], n, to) ELSE s[k]
    OBVIOUS
  <2>5. \A k \in from - 1 .. n - 1 : t[k] = s[k]
    BY <2>1, <2>4
  <2>6. \A k \in from - 1 .. n :
          t[k] = IF k = from - 1 THEN NothingScanned ELSE Scanned(t[k - 1], k, to)
    <3> SUFFICES ASSUME NEW k \in from - 1 .. n
                 PROVE  t[k] = IF k = from - 1 THEN NothingScanned ELSE Scanned(t[k - 1], k, to)
      OBVIOUS
    <3> HIDE DEF t
    <3>1. CASE k = n
      <4>1. t[k - 1] = s[n - 1]
        BY <2>1, <2>5, <3>1
      <4> QED BY <1>3, <2>4, <3>1, <4>1
    <3>2. CASE k # n
      <4>1. k \in from - 1 .. n - 1 /\ t[k] = s[k]
        BY <2>4, <3>2
      <4>2. k # from - 1 => t[k - 1] = s[k - 1]
        BY <2>5, <4>1
      <4> QED BY <2>3, <4>1, <4>2
    <3> QED BY <3>1, <3>2
  <2>7. IsScan(t, from, to, n)
    BY <2>6 DEF IsScan
  <2> QED BY <2>7
<1> QED BY <1>2, <1>3

LEMMA OpenMarksAre ==
  ASSUME NEW from \in Nat \ {0}, NEW to \in Nat, from <= to
  PROVE  \E s : OpenMarks(from, to) = s[to].stack /\ IsPass(s, from, to)
<1> DEFINE s == CHOOSE f : IsScan(f, from, to, to)
<1>1. IsScan(s, from, to, to)
  BY ScanExists
<1>2. OpenMarks(from, to) = s[to].stack
  BY DEF OpenMarks, IsScan, Scanned, NothingScanned, MarkAt, LoneTilde
<1>3. IsPass(s, from, to)
  <2> HIDE DEF s
  <2> QED BY <1>1 DEF IsScan, IsPass
<1> QED BY <1>2, <1>3

\* What holds at one number and goes on from each to the next.
LEMMA Upwards ==
  ASSUME NEW a \in Nat, NEW b \in Nat, NEW G, a \in G,
         \A k \in a .. b : k < b /\ k \in G => k + 1 \in G
  PROVE  \A k \in a .. b : k \in G
<1> DEFINE Out == {k \in a .. b : k \notin G}
<1> SUFFICES ASSUME Out # {} PROVE FALSE
  OBVIOUS
<1>1. PICK n \in Out : \A k \in Out : n <= k
  <2>1. Out \in SUBSET Nat
    OBVIOUS
  <2> HIDE DEF Out
  <2> QED BY <2>1, SmallestExists
<1>2. n # a /\ n - 1 \in a .. b /\ n - 1 < b /\ n \in Nat
  OBVIOUS
<1>3. n - 1 \in G
  BY <1>1, <1>2
<1>4. (n - 1) + 1 \in G
  BY <1>2, <1>3
<1> QED BY <1>2, <1>4

\* The characters from..to of the text.
IsPart(from, to) ==
  /\ text \in Seq(Chars)
  /\ from \in Nat \ {0} /\ to \in Nat /\ from <= to /\ to <= Len(text)

\* A run begins somewhere, and in one place.
IsRunStart(j, k, from) ==
  /\ j \in from .. k
  /\ \A i \in j .. k : text[i] = text[k]
  /\ j > from => text[j - 1] # text[k]

LEMMA RunStarts ==
  ASSUME NEW from \in Nat \ {0}, NEW k \in Nat, from <= k
  PROVE  /\ \E j \in Nat : IsRunStart(j, k, from)
         /\ \A i, j \in Nat : IsRunStart(i, k, from) /\ IsRunStart(j, k, from) => i = j
<1> DEFINE Js == {j \in from .. k : \A i \in j .. k : text[i] = text[k]}
<1>1. Js \in SUBSET Nat /\ k \in Js
  OBVIOUS
<1>2. PICK j \in Js : \A i \in Js : j <= i
  <2> HIDE DEF Js
  <2> QED BY <1>1, SmallestExists
<1>3. j > from => text[j - 1] # text[k]
  <2> SUFFICES ASSUME j > from, text[j - 1] = text[k] PROVE FALSE
    OBVIOUS
  <2>1. j - 1 \in Js
    OBVIOUS
  <2> QED BY <1>2, <2>1
<1>4. IsRunStart(j, k, from)
  BY <1>3 DEF IsRunStart
<1>5. \A h, i \in Nat : IsRunStart(h, k, from) /\ IsRunStart(i, k, from) => ~(h < i)
  BY DEF IsRunStart
<1> QED BY <1>1, <1>4, <1>5

\* Every other character of a run begins a mark.
LEMMA BeginsAlternate ==
  ASSUME NEW from \in Nat \ {0}, NEW k \in Nat, from <= k
  PROVE  /\ BeginsMark(from, from)
         /\ text[k + 1] # text[k] => BeginsMark(k + 1, from)
         /\ text[k + 1] = text[k] => (BeginsMark(k + 1, from) <=> ~BeginsMark(k, from))
<1>1. BeginsMark(from, from)
  BY DEF BeginsMark
<1>2. ASSUME text[k + 1] # text[k] PROVE BeginsMark(k + 1, from)
  <2>1. ((k + 1) - (k + 1)) % 2 = 0 /\ k + 1 > from /\ (k + 1) - 1 = k
    OBVIOUS
  <2>2. \A i \in k + 1 .. k + 1 : text[i] = text[k + 1]
    OBVIOUS
  <2> QED BY <1>2, <2>1, <2>2 DEF BeginsMark
<1>3. ASSUME text[k + 1] = text[k] PROVE BeginsMark(k + 1, from) <=> ~BeginsMark(k, from)
  <2>1. PICK j \in Nat : IsRunStart(j, k, from)
    BY RunStarts
  <2>2. IsRunStart(j, k + 1, from)
    BY <1>3, <2>1 DEF IsRunStart
  <2>3. BeginsMark(k, from) <=> (k - j) % 2 = 0
    <3>1. \A i \in from .. k : IsRunStart(i, k, from) => i = j
      BY <2>1, RunStarts
    <3> QED BY <2>1, <3>1 DEF BeginsMark, IsRunStart
  <2>4. BeginsMark(k + 1, from) <=> (k + 1 - j) % 2 = 0
    <3>1. \A i \in from .. k + 1 : IsRunStart(i, k + 1, from) => i = j
      <4>1. k + 1 \in Nat /\ from <= k + 1
        OBVIOUS
      <4>2. \A i \in from .. k + 1 : i \in Nat
        OBVIOUS
      <4> QED BY <2>2, <4>1, <4>2, RunStarts
    <3> QED BY <2>2, <3>1 DEF BeginsMark, IsRunStart
  <2>5. j <= k
    BY <2>1 DEF IsRunStart
  <2>6. \A d \in Nat : d % 2 = 0 <=> ~((d + 1) % 2 = 0)
    OBVIOUS
  <2>7. k - j \in Nat /\ (k - j) + 1 = k + 1 - j
    BY <2>5
  <2> QED BY <2>3, <2>4, <2>6, <2>7
<1> QED BY <1>1, <1>2, <1>3

----------------------------------------------------------------------------
(* From the pass over characters to one over marks. *)

\* What a mark does to the stack.
After(stack, mark) == IF IsOnTop(mark, stack) THEN Front(stack) ELSE Append(stack, mark)

\* No mark is open twice in a row.
Reduced(stack) == \A i \in 1 .. Len(stack) - 1 : stack[i] # stack[i + 1]

LEMMA AfterIs ==
  ASSUME NEW stack \in Seq(Mark), NEW mark \in Mark, Reduced(stack)
  PROVE  /\ After(stack, mark) \in Seq(Mark) /\ Reduced(After(stack, mark))
         /\ After(After(stack, mark), mark) = stack
<1>1. CASE IsOnTop(mark, stack)
  <2>1. stack # <<>> /\ mark = stack[Len(stack)]
    BY <1>1 DEF IsOnTop, Last
  <2> DEFINE front == Front(stack)
  <2>2. /\ front \in Seq(Mark) /\ Len(front) = Len(stack) - 1 /\ Len(stack) - 1 \in Nat
        /\ \A n \in 1 .. Len(stack) - 1 : front[n] = stack[n]
    BY <2>1, FrontOf
  <2>3. After(stack, mark) = front
    BY <1>1 DEF After
  <2> HIDE DEF front
  <2>4. Reduced(front)
    BY <2>2 DEF Reduced
  <2>5. ~IsOnTop(mark, front)
    <3> SUFFICES ASSUME front # <<>>, mark = front[Len(front)] PROVE FALSE
      BY DEF IsOnTop, Last
    <3>1. Len(front) \in 1 .. Len(stack) - 1 /\ Len(front) + 1 = Len(stack)
      BY <2>2
    <3> QED BY <2>1, <2>2, <3>1 DEF Reduced
  <2>6. Append(front, mark) = stack
    <3>1. Append(front, mark) \in Seq(Mark) /\ Len(Append(front, mark)) = Len(stack)
      BY <2>2
    <3>2. \A n \in 1 .. Len(stack) : Append(front, mark)[n] = stack[n]
      BY <2>1, <2>2
    <3> QED BY <3>1, <3>2
  <2> QED BY <2>2, <2>3, <2>4, <2>5, <2>6 DEF After
<1>2. CASE ~IsOnTop(mark, stack)
  <2> DEFINE more == Append(stack, mark)
  <2>1. /\ more \in Seq(Mark) /\ Len(more) = Len(stack) + 1 /\ more # <<>>
        /\ \A n \in 1 .. Len(stack) : more[n] = stack[n]
        /\ more[Len(stack) + 1] = mark
    OBVIOUS
  <2>2. After(stack, mark) = more
    BY <1>2 DEF After
  <2> HIDE DEF more
  <2>3. stack # <<>> => stack[Len(stack)] # mark
    BY <1>2 DEF IsOnTop, Last
  <2>4. Reduced(more)
    BY <2>1, <2>3 DEF Reduced
  <2>5. IsOnTop(mark, more)
    BY <2>1 DEF IsOnTop, Last
  <2>6. Front(more) = stack
    <3>1. /\ Front(more) \in Seq(Mark) /\ Len(Front(more)) = Len(stack)
          /\ \A n \in 1 .. Len(stack) : Front(more)[n] = stack[n]
      BY <2>1, FrontOf
    <3> QED BY <3>1
  <2> QED BY <2>1, <2>2, <2>4, <2>5, <2>6 DEF After
<1> QED BY <1>1, <1>2

\* The stack after each place, for the marks of a text.
AreStacks(st, marks, mark, from, to) ==
  /\ st[from - 1] = <<>>
  /\ \A k \in from .. to : st[k] = IF k \in marks THEN After(st[k - 1], mark[k]) ELSE st[k - 1]

LEMMA StacksAreReduced ==
  ASSUME NEW from \in Nat \ {0}, NEW to \in Nat, NEW marks, NEW mark \in [marks -> Mark],
         NEW st, AreStacks(st, marks, mark, from, to)
  PROVE  \A k \in from - 1 .. to : st[k] \in Seq(Mark) /\ Reduced(st[k])
<1> DEFINE G == {k \in Nat : st[k] \in Seq(Mark) /\ Reduced(st[k])}
<1>1. from - 1 \in G
  <2>1. st[from - 1] = <<>>
    BY DEF AreStacks
  <2>2. <<>> \in Seq(Mark) /\ Reduced(<<>>)
    BY DEF Reduced
  <2>3. from - 1 \in Nat
    OBVIOUS
  <2> QED BY <2>1, <2>2, <2>3
<1>2. ASSUME NEW k \in from - 1 .. to, k < to, k \in G PROVE k + 1 \in G
  <2>1. k + 1 \in from .. to /\ k + 1 - 1 = k /\ k + 1 \in Nat
    BY <1>2
  <2>2. st[k + 1] = IF k + 1 \in marks THEN After(st[k], mark[k + 1]) ELSE st[k]
    BY <2>1 DEF AreStacks
  <2>3. st[k] \in Seq(Mark) /\ Reduced(st[k])
    BY <1>2
  <2>4. k + 1 \in marks => mark[k + 1] \in Mark
    OBVIOUS
  <2>5. st[k + 1] \in Seq(Mark) /\ Reduced(st[k + 1])
    BY <2>2, <2>3, <2>4, AfterIs
  <2> QED BY <2>1, <2>5
<1>3. from - 1 \in Nat
  OBVIOUS
<1>4. \A k \in from - 1 .. to : k \in G
  <2> HIDE DEF G
  <2> QED BY <1>1, <1>2, <1>3, Upwards
<1> QED BY <1>4

MarkOf(from, to) == [k \in MarksOf(from, to) |-> MarkAt(k, to)]

LEMMA MarksAreMarks ==
  ASSUME NEW from \in Nat, NEW to \in Nat
  PROVE  MarkOf(from, to) \in [MarksOf(from, to) -> Mark] /\ MarksOf(from, to) \in SUBSET (from .. to)
<1>1. ASSUME NEW k \in MarksOf(from, to) PROVE MarkAt(k, to) \in Mark
  <2>1. text[k] \in Marks
    BY DEF MarksOf
  <2>2. PICK d \in BOOLEAN : MarkAt(k, to) = <<text[k], d>>
    BY DEF MarkAt
  <2> QED BY <2>1, <2>2 DEF Mark
<1> QED BY <1>1 DEF MarkOf, MarksOf

\* The second character of a doubled mark is passed over, and no other.
LEMMA PassSkips ==
  ASSUME NEW from, NEW to, IsPart(from, to), NEW s, IsPass(s, from, to)
  PROVE  \A k \in from .. to :
           /\ s[k - 1].skip <=> (text[k] \in Marks /\ ~BeginsMark(k, from))
           /\ s[k - 1] = [stack |-> s[k - 1].stack, skip |-> s[k - 1].skip]
<1> DEFINE Known(k) == /\ s[k - 1].skip <=> (text[k] \in Marks /\ ~BeginsMark(k, from))
                      /\ s[k - 1] = [stack |-> s[k - 1].stack, skip |-> s[k - 1].skip]
           G == {k \in Nat : Known(k)}
<1>0. from \in Nat \ {0} /\ to \in Nat /\ from <= to
  BY DEF IsPart
<1>1. from \in G
  BY <1>0, BeginsAlternate DEF IsPass, NothingScanned
<1>2. ASSUME NEW k \in from .. to, k < to, k \in G PROVE k + 1 \in G
  <2>1. k \in Nat /\ from <= k /\ (k + 1) - 1 = k
    BY <1>0
  <2>2. s[k] = Scanned(s[k - 1], k, to)
    BY DEF IsPass
  <2> DEFINE old == s[k - 1]
  <2>3. old = [stack |-> old.stack, skip |-> old.skip]
    BY <1>2
  <2>4. old.skip <=> (text[k] \in Marks /\ ~BeginsMark(k, from))
    BY <1>2
  <2>5. /\ text[k + 1] # text[k] => BeginsMark(k + 1, from)
        /\ text[k + 1] = text[k] => (BeginsMark(k + 1, from) <=> ~BeginsMark(k, from))
    BY <1>0, <2>1, BeginsAlternate
  <2> HIDE DEF old
  <2>6. s[k] = [stack |-> s[k].stack, skip |-> s[k].skip]
    <3>1. CASE old.skip \/ text[k] \notin Marks \/ MarkAt(k, to) = LoneTilde
      <4>1. s[k] = [stack |-> old.stack, skip |-> FALSE]
        BY <2>2, <2>3, <3>1 DEF Scanned, old
      <4> QED BY <4>1
    <3>2. CASE ~(old.skip \/ text[k] \notin Marks \/ MarkAt(k, to) = LoneTilde)
      <4>1. PICK stack, skip : s[k] = [stack |-> stack, skip |-> skip]
        BY <2>2, <3>2 DEF Scanned, old
      <4> QED BY <4>1
    <3> QED BY <3>1, <3>2
  <2>7. s[k].skip <=> (~old.skip /\ text[k] \in Marks /\ text[k + 1] = text[k])
    <3>1. CASE old.skip \/ text[k] \notin Marks \/ MarkAt(k, to) = LoneTilde
      <4>1. s[k] = [stack |-> old.stack, skip |-> FALSE]
        BY <2>2, <2>3, <3>1 DEF Scanned, old
      <4>2. MarkAt(k, to) = LoneTilde => ~(k < to /\ text[k + 1] = text[k])
        BY DEF MarkAt, LoneTilde
      <4> QED BY <1>2, <3>1, <4>1, <4>2
    <3>2. CASE ~(old.skip \/ text[k] \notin Marks \/ MarkAt(k, to) = LoneTilde)
      <4>1. s[k].skip = (k < to /\ text[k + 1] = text[k])
        BY <2>2, <3>2 DEF Scanned, old
      <4> QED BY <1>2, <3>2, <4>1
    <3> QED BY <3>1, <3>2
  <2>8. s[k].skip <=> (text[k + 1] \in Marks /\ ~BeginsMark(k + 1, from))
    BY <2>4, <2>5, <2>7
  <2> QED BY <2>1, <2>6, <2>8
<1>3. \A k \in from .. to : k \in G
  <2> HIDE DEF G
  <2> QED BY <1>0, <1>1, <1>2, Upwards
<1> QED BY <1>3

LEMMA PassIsOfMarks ==
  ASSUME NEW from, NEW to, IsPart(from, to)
  PROVE  \E st : /\ OpenMarks(from, to) = st[to]
                 /\ AreStacks(st, MarksOf(from, to), MarkOf(from, to), from, to)
<1>0. from \in Nat \ {0} /\ to \in Nat /\ from <= to
  BY DEF IsPart
<1> PICK s : OpenMarks(from, to) = s[to].stack /\ IsPass(s, from, to)
  BY <1>0, OpenMarksAre
<1> DEFINE st == [k \in from - 1 .. to |-> s[k].stack]
<1>1. st[from - 1] = <<>>
  BY <1>0 DEF IsPass, NothingScanned
<1>2. ASSUME NEW k \in from .. to
      PROVE  st[k] = IF k \in MarksOf(from, to) THEN After(st[k - 1], MarkOf(from, to)[k])
                                                 ELSE st[k - 1]
  <2>1. st[k] = s[k].stack /\ st[k - 1] = s[k - 1].stack
    BY <1>0
  <2> DEFINE old == s[k - 1]
  <2>2. s[k] = Scanned(old, k, to)
    BY DEF IsPass
  <2>3. /\ old.skip <=> (text[k] \in Marks /\ ~BeginsMark(k, from))
        /\ old = [stack |-> old.stack, skip |-> old.skip]
    BY PassSkips
  <2>4. k \in MarksOf(from, to)
          <=> ~(old.skip \/ text[k] \notin Marks \/ MarkAt(k, to) = LoneTilde)
    BY <2>3 DEF MarksOf, LoneTilde
  <2> HIDE DEF old
  <2>5. CASE k \in MarksOf(from, to)
    <3>1. MarkOf(from, to)[k] = MarkAt(k, to)
      BY <2>5 DEF MarkOf
    <3>2. s[k].stack = After(old.stack, MarkAt(k, to))
      BY <2>2, <2>4, <2>5 DEF Scanned, After
    <3> QED BY <2>1, <2>5, <3>1, <3>2 DEF old
  <2>6. CASE k \notin MarksOf(from, to)
    <3>1. s[k].stack = old.stack
      BY <2>2, <2>3, <2>4, <2>6 DEF Scanned
    <3> QED BY <2>1, <2>6, <3>1 DEF old
  <2> QED BY <2>5, <2>6
<1>3. st[to] = s[to].stack
  BY <1>0
<1> HIDE DEF st
<1>4. AreStacks(st, MarksOf(from, to), MarkOf(from, to), from, to)
  BY <1>1, <1>2 DEF AreStacks
<1> QED BY <1>3, <1>4

----------------------------------------------------------------------------
(* Stacks and pairings. *)

\* Each of the marks is paired with another of its kind, and no two pairs cross.
IsPairing(pair, marks, mark) ==
  /\ pair \in [marks -> marks]
  /\ \A k \in marks : pair[k] # k /\ pair[pair[k]] = k /\ mark[pair[k]] = mark[k]
  /\ \A k, j \in marks : k < j /\ j < pair[k] => pair[j] \in k .. pair[k]

\* No pair has one of its marks within a..b and the other outside.
IsApart(pair, marks, a, b) == \A k \in marks : a <= k /\ k <= b => a <= pair[k] /\ pair[k] <= b

\* The last of marks that stand apart goes with one before it: what is before
\* that one and what is between the two stand apart as well.
LEMMA PairsNest ==
  ASSUME NEW marks \in SUBSET Nat, NEW mark, NEW pair, IsPairing(pair, marks, mark),
         NEW a \in Nat, NEW b \in marks, a <= b, IsApart(pair, marks, a, b)
  PROVE  /\ a <= pair[b] /\ pair[b] < b /\ pair[b] \in marks
         /\ IsApart(pair, marks, a, pair[b] - 1) /\ IsApart(pair, marks, pair[b] + 1, b - 1)
<1>1. \A k \in marks : /\ k \in Nat /\ pair[k] \in Nat /\ pair[k] \in marks
                        /\ pair[k] # k /\ pair[pair[k]] = k
  BY DEF IsPairing
<1>2. \A k, j \in marks : k < j /\ j < pair[k] => k <= pair[j] /\ pair[j] <= pair[k]
  <2> SUFFICES ASSUME NEW k \in marks, NEW j \in marks, k < j, j < pair[k]
               PROVE  k <= pair[j] /\ pair[j] <= pair[k]
    OBVIOUS
  <2>1. pair[j] \in k .. pair[k]
    BY DEF IsPairing
  <2> QED BY <1>1, <2>1
<1>3. \A k \in marks : a <= k /\ k <= b => a <= pair[k] /\ pair[k] <= b
  BY DEF IsApart
<1>4. PICK c \in marks : c = pair[b]
  BY <1>1
<1>5. a <= c /\ c < b /\ pair[c] = b /\ b \in Nat /\ c \in Nat
  <2>1. a <= pair[b] /\ pair[b] <= b /\ pair[b] # b /\ pair[pair[b]] = b
    BY <1>1, <1>3
  <2> QED BY <1>1, <1>4, <2>1
<1>6. ASSUME NEW k \in marks, a <= k, k <= c - 1 PROVE a <= pair[k] /\ pair[k] <= c - 1
  <2>1. PICK j \in marks : j = pair[k] /\ pair[j] = k /\ j \in Nat /\ k \in Nat
    BY <1>1
  <2>2. a <= j /\ j <= b
    <3>1. k <= b
      BY <1>5, <1>6, <2>1
    <3> QED BY <1>3, <1>6, <2>1, <3>1
  <2>3. j # c /\ j # b
    <3>1. k # c /\ k # b
      BY <1>5, <1>6, <2>1
    <3> QED BY <1>4, <1>5, <2>1, <3>1
  <2>4. ~(c < j)
    <3> SUFFICES ASSUME c < j PROVE FALSE
      OBVIOUS
    <3>1. j < pair[c]
      BY <1>5, <2>1, <2>2, <2>3
    <3>2. c <= pair[j]
      BY <1>2, <3>1
    <3> QED BY <1>5, <1>6, <2>1, <3>2
  <2>5. j <= c - 1
    BY <1>5, <2>1, <2>3, <2>4
  <2> QED BY <2>1, <2>2, <2>5
<1>7. ASSUME NEW k \in marks, c + 1 <= k, k <= b - 1 PROVE c + 1 <= pair[k] /\ pair[k] <= b - 1
  <2>1. PICK j \in marks : j = pair[k] /\ pair[j] = k /\ j \in Nat /\ k \in Nat
    BY <1>1
  <2>2. c < k /\ k < pair[c] /\ k # c /\ k # b
    BY <1>5, <1>7, <2>1
  <2>3. c <= j /\ j <= b
    BY <1>2, <1>5, <2>1, <2>2
  <2>4. j # c /\ j # b
    BY <1>4, <1>5, <2>1, <2>2
  <2>5. c + 1 <= j /\ j <= b - 1
    BY <1>5, <2>1, <2>3, <2>4
  <2> QED BY <2>1, <2>5
<1>8. IsApart(pair, marks, a, c - 1) /\ IsApart(pair, marks, c + 1, b - 1)
  BY <1>6, <1>7 DEF IsApart
<1> QED BY <1>4, <1>5, <1>8

\* Marks that stand apart leave the stack as it was.
LEMMA ApartLeavesStack ==
  ASSUME NEW from \in Nat \ {0}, NEW to \in Nat, NEW marks \in SUBSET (from .. to),
         NEW mark \in [marks -> Mark], NEW st, AreStacks(st, marks, mark, from, to),
         NEW pair, IsPairing(pair, marks, mark)
  PROVE  \A a, b \in Nat :
           from <= a /\ a <= b + 1 /\ b <= to /\ IsApart(pair, marks, a, b) => st[b] = st[a - 1]
<1> DEFINE Holds(a, b) ==
             from <= a /\ a <= b + 1 /\ b <= to /\ IsApart(pair, marks, a, b) => st[b] = st[a - 1]
           G == {n \in Nat : \A a, b \in Nat : b + 1 - a <= n => Holds(a, b)}
<1>1. 0 \in G
  <2> SUFFICES ASSUME NEW a \in Nat, NEW b \in Nat, b + 1 - a <= 0, a <= b + 1
               PROVE  st[b] = st[a - 1]
    OBVIOUS
  <2>1. b = a - 1
    OBVIOUS
  <2> QED BY <2>1
<1>2. ASSUME NEW n \in 0 .. to + 1, n < to + 1, n \in G PROVE n + 1 \in G
  <2>1. \A a, b \in Nat : b + 1 - a <= n => Holds(a, b)
    BY <1>2
  <2> SUFFICES ASSUME NEW a \in Nat, NEW b \in Nat, b + 1 - a = n + 1,
                      from <= a, b <= to, IsApart(pair, marks, a, b)
               PROVE  st[b] = st[a - 1]
    <3>1. \A a, b \in Nat : b + 1 - a <= n + 1 => b + 1 - a <= n \/ b + 1 - a = n + 1
      OBVIOUS
    <3> HIDE DEF Holds
    <3>2. ASSUME NEW a \in Nat, NEW b \in Nat, b + 1 - a <= n + 1 PROVE Holds(a, b)
      <4>1. CASE b + 1 - a <= n
        BY <2>1, <4>1
      <4>2. CASE b + 1 - a = n + 1
        BY <4>2 DEF Holds
      <4> QED BY <3>1, <3>2, <4>1, <4>2
    <3>3. n + 1 \in Nat
      OBVIOUS
    <3> QED BY <3>2, <3>3
  <2>2. a <= b /\ b \in from .. to /\ b - 1 \in Nat
    OBVIOUS
  <2>3. st[b] = IF b \in marks THEN After(st[b - 1], mark[b]) ELSE st[b - 1]
    BY <2>2 DEF AreStacks
  <2>4. CASE b \notin marks
    <3>1. IsApart(pair, marks, a, b - 1)
      <4> SUFFICES ASSUME NEW k \in marks, a <= k, k <= b - 1 PROVE a <= pair[k] /\ pair[k] <= b - 1
        BY DEF IsApart
      <4>1. pair[k] \in marks /\ k <= b
        BY DEF IsPairing
      <4>2. PICK j \in marks : j = pair[k]
        BY <4>1
      <4>3. a <= j /\ j <= b
        BY <4>1, <4>2 DEF IsApart
      <4>4. j # b /\ j \in Nat
        BY <2>4
      <4> QED BY <4>2, <4>3, <4>4
    <3>2. Holds(a, b - 1)
      BY <2>1, <2>2
    <3>3. st[b - 1] = st[a - 1]
      BY <2>2, <3>1, <3>2
    <3> QED BY <2>3, <2>4, <3>3
  <2>5. CASE b \in marks
    <3>1. marks \in SUBSET Nat
      OBVIOUS
    <3>2. /\ a <= pair[b] /\ pair[b] < b /\ pair[b] \in marks
          /\ IsApart(pair, marks, a, pair[b] - 1) /\ IsApart(pair, marks, pair[b] + 1, b - 1)
      BY <2>2, <2>5, <3>1, PairsNest
    <3>3. PICK c \in Nat : c = pair[b]
      BY <3>1, <3>2
    <3>4. c \in from .. to /\ c - 1 \in Nat /\ c - 1 \in from - 1 .. to
      BY <2>2, <3>2, <3>3
    <3>5. st[c - 1] = st[a - 1]
      <4>1. Holds(a, c - 1)
        BY <2>1, <3>2, <3>3, <3>4
      <4> QED BY <2>2, <3>2, <3>3, <3>4, <4>1
    <3>6. st[b - 1] = st[c]
      <4>1. Holds(c + 1, b - 1)
        BY <2>1, <2>2, <3>2, <3>3, <3>4
      <4>2. (c + 1) - 1 = c /\ c + 1 \in Nat /\ from <= c + 1 /\ c + 1 <= (b - 1) + 1 /\ b - 1 <= to
        BY <2>2, <3>2, <3>3, <3>4
      <4> QED BY <2>2, <3>2, <3>3, <4>1, <4>2
    <3>7. st[c] = After(st[c - 1], mark[c])
      BY <3>2, <3>3, <3>4 DEF AreStacks
    <3>8. mark[c] = mark[b] /\ mark[b] \in Mark
      BY <2>5, <3>3 DEF IsPairing
    <3>9. st[c - 1] \in Seq(Mark) /\ Reduced(st[c - 1])
      BY <3>4, StacksAreReduced
    <3>10. After(After(st[c - 1], mark[b]), mark[b]) = st[c - 1]
      BY <3>8, <3>9, AfterIs
    <3> QED BY <2>3, <2>5, <3>5, <3>6, <3>7, <3>8, <3>10
  <2> QED BY <2>4, <2>5
<1>3. \A n \in 0 .. to + 1 : n \in G
  <2>1. 0 \in Nat /\ to + 1 \in Nat
    OBVIOUS
  <2> HIDE DEF G
  <2> QED BY <1>1, <1>2, <2>1, Upwards
<1>4. to + 1 \in G
  <2>1. to + 1 \in 0 .. to + 1
    OBVIOUS
  <2> HIDE DEF G
  <2> QED BY <1>3, <2>1
<1>5. ASSUME NEW a \in Nat, NEW b \in Nat PROVE Holds(a, b)
  <2>1. b <= to => b + 1 - a <= to + 1
    OBVIOUS
  <2>2. b <= to => Holds(a, b)
    BY <1>4, <2>1
  <2> QED BY <2>2
<1> QED BY <1>5

\* Halfway: the marks that are open are paired with themselves and are those on
\* the stack, in the order of the text; none is within a pair.
IsHalfway(pair, open, ms, mark, stack) ==
  /\ pair \in [ms -> ms] /\ open \in Seq(ms) /\ Len(open) = Len(stack)
  /\ \A i \in ms : pair[pair[i]] = i /\ mark[pair[i]] = mark[i]
  /\ \A i, j \in ms : i < j /\ j < pair[i] => pair[j] # j /\ pair[j] \in i .. pair[i]
  /\ \A n \in 1 .. Len(open) : mark[open[n]] = stack[n] /\ pair[open[n]] = open[n]
  /\ \A i \in ms : pair[i] = i => \E n \in 1 .. Len(open) : open[n] = i
  /\ \A m, n \in 1 .. Len(open) : m < n => open[m] < open[n]

\* A mark that opens.
LEMMA OpensHalfway ==
  ASSUME NEW ms \in SUBSET Nat, NEW w \in Nat, \A i \in ms : i < w,
         NEW mark, NEW stack \in Seq(Mark), NEW pair, NEW open,
         IsHalfway(pair, open, ms, mark, stack)
  PROVE  \E p, o : IsHalfway(p, o, ms \cup {w}, mark, Append(stack, mark[w]))
<1> DEFINE p == [i \in ms \cup {w} |-> IF i = w THEN w ELSE pair[i]]
           o == Append(open, w)
           more == Append(stack, mark[w])
<1>0. /\ pair \in [ms -> ms] /\ open \in Seq(ms) /\ Len(open) = Len(stack)
      /\ \A i \in ms : pair[i] \in ms /\ pair[i] < w /\ i < w /\ i \in Nat /\ pair[i] \in Nat
  BY DEF IsHalfway
<1>1. /\ p[w] = w /\ \A i \in ms : p[i] = pair[i] /\ i # w
      /\ p \in [ms \cup {w} -> ms \cup {w}]
  BY <1>0
<1>2. /\ o \in Seq(ms \cup {w}) /\ Len(o) = Len(open) + 1
      /\ \A n \in 1 .. Len(open) : o[n] = open[n] /\ open[n] \in ms
      /\ o[Len(open) + 1] = w /\ Len(open) \in Nat
  <2>1. open \in Seq(ms \cup {w})
    BY <1>0
  <2> QED BY <1>0, <2>1
<1>3. /\ Len(more) = Len(stack) + 1 /\ more[Len(stack) + 1] = mark[w]
      /\ \A n \in 1 .. Len(stack) : more[n] = stack[n]
  OBVIOUS
<1> HIDE DEF p, o, more
<1>4. \A i \in ms \cup {w} : p[p[i]] = i /\ mark[p[i]] = mark[i]
  BY <1>0, <1>1 DEF IsHalfway
<1>5. ASSUME NEW i \in ms \cup {w}, NEW j \in ms \cup {w}, i < j, j < p[i]
      PROVE  p[j] # j /\ p[j] \in i .. p[i]
  <2>1. i # w
    BY <1>1, <1>5
  <2>2. i \in ms /\ p[i] = pair[i] /\ pair[i] < w /\ pair[i] \in Nat
    BY <1>0, <1>1, <2>1
  <2>3. j # w
    BY <1>5, <2>2
  <2>4. j \in ms /\ p[j] = pair[j]
    BY <1>1, <2>3
  <2> QED BY <1>5, <2>2, <2>4 DEF IsHalfway
<1>6. \A n \in 1 .. Len(o) : mark[o[n]] = more[n] /\ p[o[n]] = o[n]
  <2> SUFFICES ASSUME NEW n \in 1 .. Len(open) + 1 PROVE mark[o[n]] = more[n] /\ p[o[n]] = o[n]
    BY <1>2
  <2>1. CASE n = Len(open) + 1
    BY <1>0, <1>1, <1>2, <1>3, <2>1
  <2>2. CASE n # Len(open) + 1
    <3>1. n \in 1 .. Len(open)
      BY <1>2, <2>2
    <3>2. mark[open[n]] = stack[n] /\ pair[open[n]] = open[n]
      BY <3>1 DEF IsHalfway
    <3>3. o[n] = open[n] /\ open[n] \in ms /\ more[n] = stack[n]
      BY <1>0, <1>2, <1>3, <3>1
    <3>4. p[open[n]] = pair[open[n]]
      BY <1>1, <3>3
    <3> QED BY <3>2, <3>3, <3>4
  <2> QED BY <2>1, <2>2
<1>7. ASSUME NEW i \in ms \cup {w}, p[i] = i PROVE \E n \in 1 .. Len(o) : o[n] = i
  <2>1. CASE i = w
    BY <1>2, <2>1
  <2>2. CASE i # w
    <3>1. PICK n \in 1 .. Len(open) : open[n] = i
      BY <1>1, <1>7, <2>2 DEF IsHalfway
    <3> QED BY <1>2, <3>1
  <2> QED BY <2>1, <2>2
<1>8. \A m, n \in 1 .. Len(o) : m < n => o[m] < o[n]
  <2> SUFFICES ASSUME NEW m \in 1 .. Len(open) + 1, NEW n \in 1 .. Len(open) + 1, m < n
               PROVE  o[m] < o[n]
    BY <1>2
  <2>0. m \in 1 .. Len(open)
    BY <1>2
  <2>1. m \in 1 .. Len(open) /\ o[m] = open[m] /\ open[m] < w
    BY <1>2, <2>0
  <2>2. CASE n = Len(open) + 1
    BY <1>2, <2>1, <2>2
  <2>3. CASE n # Len(open) + 1
    <3>1. n \in 1 .. Len(open) /\ o[n] = open[n]
      BY <1>2, <2>3
    <3> QED BY <2>1, <3>1 DEF IsHalfway
  <2> QED BY <2>2, <2>3
<1>9. IsHalfway(p, o, ms \cup {w}, mark, more)
  BY <1>0, <1>1, <1>2, <1>3, <1>4, <1>5, <1>6, <1>7, <1>8 DEF IsHalfway
<1> QED BY <1>9 DEF more

\* A mark that closes the one on top.
LEMMA ClosesHalfway ==
  ASSUME NEW ms \in SUBSET Nat, NEW w \in Nat, \A i \in ms : i < w,
         NEW mark, NEW stack \in Seq(Mark), IsOnTop(mark[w], stack), NEW pair, NEW open,
         IsHalfway(pair, open, ms, mark, stack)
  PROVE  \E p, o : IsHalfway(p, o, ms \cup {w}, mark, Front(stack))
<1>1. stack # <<>> /\ mark[w] = stack[Len(stack)]
  BY DEF IsOnTop, Last
<1>2. PICK h \in Nat : h = Len(stack) - 1
  BY <1>1
<1>3. Len(Front(stack)) = h /\ \A n \in 1 .. h : Front(stack)[n] = stack[n]
  BY <1>1, <1>2, FrontOf
<1>4. /\ pair \in [ms -> ms] /\ open \in Seq(ms) /\ Len(open) = h + 1 /\ open # <<>>
      /\ \A i \in ms : pair[i] \in ms /\ pair[i] < w /\ i < w /\ i \in Nat /\ pair[i] \in Nat
  <2>1. pair \in [ms -> ms] /\ open \in Seq(ms) /\ Len(open) = Len(stack)
    BY DEF IsHalfway
  <2>2. Len(open) = h + 1 /\ open # <<>>
    BY <1>2, <2>1
  <2>3. \A i \in ms : pair[i] \in ms
    BY <2>1
  <2> QED BY <2>1, <2>2, <2>3
<1> PICK t \in ms : t = open[h + 1]
  <2>1. h + 1 \in 1 .. Len(open)
    BY <1>2, <1>4
  <2>2. open[h + 1] \in ms
    BY <1>4, <2>1
  <2> QED BY <2>2
<1> DEFINE p == [i \in ms \cup {w} |-> IF i = w THEN t ELSE IF i = t THEN w ELSE pair[i]]
           o == Front(open)
<1>5. /\ mark[t] = mark[w] /\ pair[t] = t /\ t < w /\ t \in Nat
  BY <1>1, <1>2, <1>4 DEF IsHalfway
<1>6. /\ p[w] = t /\ p[t] = w /\ \A i \in ms : i # w /\ (i # t => p[i] = pair[i])
      /\ p \in [ms \cup {w} -> ms \cup {w}]
  BY <1>4, <1>5
<1>7. /\ o \in Seq(ms \cup {w}) /\ Len(o) = h
      /\ \A n \in 1 .. h : o[n] = open[n] /\ open[n] \in ms
  <2>0. Len(open) - 1 = h /\ open \in Seq(ms) /\ open # <<>>
    BY <1>2, <1>4
  <2>1. o \in Seq(ms) /\ Len(o) = h /\ \A n \in 1 .. h : o[n] = open[n]
    <3>1. /\ o \in Seq(ms) /\ Len(o) = Len(open) - 1
          /\ \A n \in 1 .. Len(open) - 1 : o[n] = open[n]
      BY <2>0, FrontOf
    <3> QED BY <2>0, <3>1
  <2>2. \A n \in 1 .. h : o[n] \in ms
    BY <2>1
  <2>3. o \in Seq(ms \cup {w})
    <3> HIDE DEF o
    <3> QED BY <2>1
  <2> QED BY <2>1, <2>2, <2>3
<1> HIDE DEF p, o
<1>8. \A i \in ms : i # t => pair[i] # t
  <2> SUFFICES ASSUME NEW i \in ms, pair[i] = t PROVE i = t
    OBVIOUS
  <2>1. pair[pair[i]] = i
    BY DEF IsHalfway
  <2> QED BY <1>5, <2>1
<1>9. ASSUME NEW i \in ms \cup {w} PROVE p[p[i]] = i /\ mark[p[i]] = mark[i]
  <2>1. CASE i = w \/ i = t
    BY <1>5, <1>6, <2>1
  <2>2. CASE i # w /\ i # t
    <3>1. i \in ms /\ p[i] = pair[i] /\ pair[i] \in ms /\ pair[i] # t
      BY <1>4, <1>6, <1>8, <2>2
    <3>2. p[pair[i]] = pair[pair[i]]
      BY <1>6, <3>1
    <3> QED BY <3>1, <3>2 DEF IsHalfway
  <2> QED BY <2>1, <2>2
\* An open mark is not behind the one on top.
<1>10. ASSUME NEW i \in ms, pair[i] = i, i # t PROVE i < t /\ \E n \in 1 .. h : open[n] = i
  <2>1. PICK n \in 1 .. Len(open) : open[n] = i
    BY <1>10 DEF IsHalfway
  <2>2. n # h + 1 /\ n \in 1 .. h + 1
    BY <1>4, <1>10, <2>1
  <2>3. n \in 1 .. h /\ n < h + 1 /\ h + 1 \in 1 .. Len(open)
    BY <1>4, <2>2
  <2>4. open[n] < open[h + 1]
    BY <2>1, <2>3 DEF IsHalfway
  <2> QED BY <2>1, <2>3, <2>4
<1>11. ASSUME NEW i \in ms \cup {w}, NEW j \in ms \cup {w}, i < j, j < p[i]
       PROVE  p[j] # j /\ p[j] \in i .. p[i]
  <2>0. i \in Nat /\ j \in Nat
    OBVIOUS
  <2>1. i # w
    BY <1>5, <1>6, <1>11, <2>0
  <2>2. i \in ms /\ p[i] <= w /\ p[i] \in Nat
    <3>1. i \in ms
      BY <2>1
    <3>2. CASE i = t
      BY <1>6, <3>1, <3>2
    <3>3. CASE i # t
      BY <1>4, <1>6, <3>1, <3>3
    <3> QED BY <3>1, <3>2, <3>3
  <2>3. j \in ms /\ j # w
    BY <1>11, <2>0, <2>2
  <2>4. CASE i = t
    <3>1. j # t /\ p[j] = pair[j] /\ pair[j] # j
      BY <1>6, <1>10, <1>11, <2>0, <2>3, <2>4
    <3>2. PICK k \in ms : k = pair[j] /\ pair[k] = j /\ k \in Nat /\ k < w
      BY <1>4, <2>3 DEF IsHalfway
    <3>3. ~(k < t)
      <4> SUFFICES ASSUME k < t PROVE FALSE
        OBVIOUS
      <4>1. t < pair[k]
        BY <1>11, <2>4, <3>2
      <4> QED BY <1>5, <4>1 DEF IsHalfway
    <3> QED BY <1>5, <1>6, <2>0, <2>4, <3>1, <3>2, <3>3
  <2>5. CASE i # t
    <3>1. p[i] = pair[i]
      BY <1>6, <2>2, <2>5
    <3>2. pair[j] # j /\ pair[j] \in i .. pair[i]
      BY <1>11, <2>2, <2>3, <3>1 DEF IsHalfway
    <3>3. j # t
      BY <1>5, <3>2
    <3> QED BY <1>6, <2>3, <3>1, <3>2, <3>3
  <2> QED BY <2>4, <2>5
<1>12. ASSUME NEW n \in 1 .. Len(o) PROVE mark[o[n]] = Front(stack)[n] /\ p[o[n]] = o[n]
  <2>1. n \in 1 .. h /\ n < h + 1 /\ n \in 1 .. Len(open) /\ h + 1 \in 1 .. Len(open)
    BY <1>4, <1>7, <1>12
  <2>2. open[n] < t
    BY <2>1 DEF IsHalfway
  <2>3. open[n] \in ms /\ open[n] # t /\ open[n] # w
    BY <1>4, <1>5, <1>7, <2>1, <2>2
  <2>4. mark[open[n]] = stack[n] /\ pair[open[n]] = open[n]
    BY <2>1 DEF IsHalfway
  <2> QED BY <1>3, <1>6, <1>7, <2>1, <2>3, <2>4
<1>13. ASSUME NEW i \in ms \cup {w}, p[i] = i PROVE \E n \in 1 .. Len(o) : o[n] = i
  <2>1. i # w /\ i # t
    BY <1>5, <1>6, <1>13
  <2>2. PICK n \in 1 .. h : open[n] = i
    BY <1>6, <1>10, <1>13, <2>1
  <2> QED BY <1>7, <2>2
<1>14. ASSUME NEW m \in 1 .. Len(o), NEW n \in 1 .. Len(o), m < n PROVE o[m] < o[n]
  <2>1. m \in 1 .. h /\ n \in 1 .. h /\ m \in 1 .. Len(open) /\ n \in 1 .. Len(open)
    BY <1>4, <1>7
  <2> QED BY <1>7, <1>14, <2>1 DEF IsHalfway
<1>15. IsHalfway(p, o, ms \cup {w}, mark, Front(stack))
  BY <1>3, <1>6, <1>7, <1>9, <1>11, <1>12, <1>13, <1>14 DEF IsHalfway
<1> QED BY <1>15

LEMMA StacksPair ==
  ASSUME NEW from \in Nat \ {0}, NEW to \in Nat, NEW marks \in SUBSET (from .. to),
         NEW mark \in [marks -> Mark], NEW st, AreStacks(st, marks, mark, from, to)
  PROVE  \A k \in from - 1 .. to :
           \E pair, open : IsHalfway(pair, open, {i \in marks : i <= k}, mark, st[k])
<1> DEFINE UpTo(k) == {i \in marks : i <= k}
           G == {k \in Nat : \E pair, open : IsHalfway(pair, open, UpTo(k), mark, st[k])}
<1>0. \A i \in marks : i \in Nat /\ from <= i /\ i <= to
  OBVIOUS
<1>1. from - 1 \in G
  <2> DEFINE none == [i \in {} |-> i]
  <2>0. \A i \in marks : ~(i <= from - 1)
    BY <1>0
  <2>1. UpTo(from - 1) = {} /\ st[from - 1] = <<>> /\ from - 1 \in Nat
    <3>1. UpTo(from - 1) = {}
      BY <2>0
    <3>2. st[from - 1] = <<>>
      BY DEF AreStacks
    <3> QED BY <3>1, <3>2
  <2>2. IsHalfway(none, <<>>, {}, mark, <<>>)
    BY DEF IsHalfway
  <2> QED BY <2>1, <2>2
<1>2. ASSUME NEW k \in from - 1 .. to, k < to, k \in G PROVE k + 1 \in G
  <2>1. k + 1 \in from .. to /\ k + 1 - 1 = k /\ k + 1 \in Nat /\ k \in Nat
    BY <1>2
  <2>2. st[k + 1] = IF k + 1 \in marks THEN After(st[k], mark[k + 1]) ELSE st[k]
    BY <2>1 DEF AreStacks
  <2>3. PICK pair, open : IsHalfway(pair, open, UpTo(k), mark, st[k])
    BY <1>2
  <2>4. CASE k + 1 \notin marks
    <3>1. \A i \in marks : i <= k + 1 <=> i <= k
      BY <1>0, <2>1, <2>4
    <3>2. UpTo(k + 1) = UpTo(k)
      BY <3>1
    <3> QED BY <2>1, <2>2, <2>3, <2>4, <3>2
  <2>5. CASE k + 1 \in marks
    <3>0. \A i \in marks : i <= k + 1 <=> i <= k \/ i = k + 1
      BY <1>0, <2>1
    <3>1. UpTo(k + 1) = UpTo(k) \cup {k + 1}
      BY <2>5, <3>0
    <3>2. UpTo(k) \in SUBSET Nat /\ \A i \in UpTo(k) : i < k + 1
      <4>1. \A i \in marks : i <= k => i < k + 1 /\ i \in Nat
        BY <1>0, <2>1
      <4> QED BY <4>1
    <3>3. st[k] \in Seq(Mark)
      BY StacksAreReduced
    <3> HIDE DEF UpTo
    <3>4. CASE IsOnTop(mark[k + 1], st[k])
      <4>1. st[k + 1] = Front(st[k])
        BY <2>2, <2>5, <3>4 DEF After
      <4>2. \E p, o : IsHalfway(p, o, UpTo(k) \cup {k + 1}, mark, Front(st[k]))
        BY <2>1, <2>3, <3>2, <3>3, <3>4, ClosesHalfway
      <4> QED BY <2>1, <3>1, <4>1, <4>2
    <3>5. CASE ~IsOnTop(mark[k + 1], st[k])
      <4>1. st[k + 1] = Append(st[k], mark[k + 1])
        BY <2>2, <2>5, <3>5 DEF After
      <4>2. \E p, o : IsHalfway(p, o, UpTo(k) \cup {k + 1}, mark, Append(st[k], mark[k + 1]))
        BY <2>1, <2>3, <3>2, <3>3, OpensHalfway
      <4> QED BY <2>1, <3>1, <4>1, <4>2
    <3> QED BY <3>4, <3>5
  <2> QED BY <2>4, <2>5
<1>3. \A k \in from - 1 .. to : k \in G
  <2>1. from - 1 \in Nat
    OBVIOUS
  <2> HIDE DEF G
  <2> QED BY <1>1, <1>2, <2>1, Upwards
<1> QED BY <1>3

\* markdown.cpp:697-750: the pass over a stack ends with nothing open exactly when the marks
\* can be paired.
THEOREM PassFindsPairing ==
  ASSUME NEW from, NEW to, IsPart(from, to)
  PROVE  OpenMarks(from, to) = <<>> <=> Closes(from, to)
<1> DEFINE marks == MarksOf(from, to)
           mark == MarkOf(from, to)
<1>0. from \in Nat \ {0} /\ to \in Nat /\ from <= to
  BY DEF IsPart
<1>1. marks \in SUBSET (from .. to) /\ mark \in [marks -> Mark]
  BY <1>0, MarksAreMarks
<1>2. PICK st : OpenMarks(from, to) = st[to] /\ AreStacks(st, marks, mark, from, to)
  BY PassIsOfMarks
<1>3. Closes(from, to) <=> \E pair : IsPairing(pair, marks, mark)
  BY DEF Closes, IsPairing, MarkOf
<1> HIDE DEF marks, mark
<1>4. ASSUME NEW pair, IsPairing(pair, marks, mark) PROVE st[to] = <<>>
  <2>1. IsApart(pair, marks, from, to)
    <3> SUFFICES ASSUME NEW k \in marks PROVE from <= pair[k] /\ pair[k] <= to
      BY DEF IsApart
    <3>1. pair[k] \in from .. to
      BY <1>1, <1>4 DEF IsPairing
    <3> QED BY <1>0, <3>1
  <2>2. st[to] = st[from - 1]
    <3>1. from <= to + 1 /\ to <= to
      BY <1>0
    <3> QED BY <1>0, <1>1, <1>2, <1>4, <2>1, <3>1, ApartLeavesStack
  <2> QED BY <1>2, <2>2 DEF AreStacks
<1>5. ASSUME st[to] = <<>> PROVE \E pair : IsPairing(pair, marks, mark)
  <2>0. \A i \in marks : i <= to
    BY <1>0, <1>1
  <2>1. to \in from - 1 .. to /\ {i \in marks : i <= to} = marks
    BY <1>0, <2>0
  <2>2. PICK pair, open : IsHalfway(pair, open, marks, mark, <<>>)
    <3>1. \A k \in from - 1 .. to :
            \E pair, open : IsHalfway(pair, open, {i \in marks : i <= k}, mark, st[k])
      BY <1>0, <1>1, <1>2, StacksPair
    <3>2. \E pair, open : IsHalfway(pair, open, {i \in marks : i <= to}, mark, st[to])
      BY <2>1, <3>1
    <3> QED BY <1>5, <2>1, <3>2
  <2>3. \A k \in marks : pair[k] # k
    BY <2>2 DEF IsHalfway
  <2>4. IsPairing(pair, marks, mark)
    BY <2>2, <2>3 DEF IsHalfway, IsPairing
  <2> QED BY <2>4
<1> QED BY <1>2, <1>3, <1>4, <1>5

----------------------------------------------------------------------------
(* A line and its fragments. *)

FragmentKinds == {"verbatim", "text", "ref", "link"}
FragmentType == [kind : FragmentKinds, from : Nat, to : Nat]

TextsAreParts ==
  \A i \in DOMAIN fragments : fragments[i].kind = "text" =>
    IsPart(fragments[i].from, fragments[i].to)

FragmentsInv ==
  /\ InlineTypeOK /\ fragments \in Seq(FragmentType)
  /\ fragments = <<>> => idx \in {1, 3}
  /\ TextsAreParts
  /\ verdict = "thrown" => Len(text) < 3 /\ \E k \in DOMAIN text : text[k] = "["

LineInv == FragmentsInv /\ Tiled /\ MarksClose

LEMMA FindIs ==
  ASSUME text \in Seq(Chars), NEW chars, NEW k \in Nat \ {0}, k <= Len(text) + 1
  PROVE  Find(chars, k) \in k .. Len(text) + 1
<1> DEFINE Js == {j \in k .. Len(text) + 1 : j <= Len(text) => text[j] \in chars}
<1>1. Js \in SUBSET Nat /\ Len(text) + 1 \in Js
  OBVIOUS
<1>2. PICK p \in Js : \A j \in Js : p <= j
  <2> HIDE DEF Js
  <2> QED BY <1>1, SmallestExists
<1>3. \A i \in k .. p - 1 : text[i] \notin chars
  <2> SUFFICES ASSUME NEW i \in k .. p - 1, text[i] \in chars PROVE FALSE
    OBVIOUS
  <2>1. i \in Js
    OBVIOUS
  <2>2. p <= i
    BY <1>2, <2>1
  <2> QED BY <2>2
<1>4. p \in k .. Len(text) + 1 /\ (p <= Len(text) => text[p] \in chars)
  OBVIOUS
<1> QED BY <1>3, <1>4 DEF Find

\* A fragment that follows the last one.
LEMMA FragmentKeeps ==
  ASSUME LineInv, verdict = "running", NEW kind \in FragmentKinds,
         NEW next \in Nat, idx < next, next <= Len(text) + 3,
         Fragment(kind, next), verdict' \in {"running", "refused"},
         kind # "text" => verdict' = "running",
         kind = "text" => next <= Len(text) + 1 /\ (verdict' = "refused" <=> ~Closes(idx, next - 1))
  PROVE  LineInv'
<1> DEFINE new == [kind |-> kind, from |-> idx, to |-> next - 1]
           n == Len(fragments)
<1>1. /\ fragments' = Append(fragments, new) /\ idx' = next /\ text' = text
      /\ text \in Seq(Chars) /\ Len(text) \in Nat /\ idx \in Nat \ {0} /\ fragments \in Seq(FragmentType)
      /\ n \in Nat
  BY DEF Fragment, LineInv, FragmentsInv, InlineTypeOK
<1>2. new \in FragmentType /\ new.kind = kind /\ new.from = idx /\ new.to = next - 1
  BY <1>1 DEF FragmentType
<1> HIDE DEF new
<1>3. /\ fragments' \in Seq(FragmentType) /\ Len(fragments') = n + 1 /\ fragments' # <<>>
      /\ DOMAIN fragments' = 1 .. n + 1 /\ DOMAIN fragments = 1 .. n
      /\ \A i \in 1 .. n : fragments'[i] = fragments[i]
      /\ fragments'[n + 1] = new
  BY <1>1, <1>2
<1>4. kind = "text" => IsPart(idx, next - 1)
  BY <1>1 DEF IsPart
<1>5. \A i \in 1 .. n : fragments[i].kind = "text" => IsPart(fragments[i].from, fragments[i].to)
  BY <1>3 DEF LineInv, FragmentsInv, TextsAreParts
<1>6. TextsAreParts'
  <2> SUFFICES ASSUME NEW i \in 1 .. n + 1, fragments'[i].kind = "text"
               PROVE  IsPart(fragments[i].from, fragments[i].to)'
    BY <1>3 DEF TextsAreParts
  <2>1. PICK from, to : from = fragments'[i].from /\ to = fragments'[i].to
    OBVIOUS
  <2>2. IsPart(from, to)
    <3>1. CASE i = n + 1
      BY <1>2, <1>3, <1>4, <2>1, <3>1
    <3>2. CASE i # n + 1
      <4>1. i \in 1 .. n
        BY <1>1, <3>2
      <4> QED BY <1>3, <1>5, <2>1, <4>1
    <3> QED BY <3>1, <3>2
  <2> QED BY <1>1, <2>1, <2>2 DEF IsPart
<1>7. FragmentsInv'
  BY <1>1, <1>3, <1>6 DEF FragmentsInv, InlineTypeOK
<1>8. Tiled'
  <2>1. ASSUME n > 0
        PROVE  /\ fragments[1].from \in {1, 3} /\ fragments[n].to = idx - 1
               /\ fragments'[1] = fragments[1] /\ fragments'[n] = fragments[n]
    <3>1. fragments # <<>> /\ 1 \in 1 .. n /\ n \in 1 .. n
      BY <1>1, <2>1
    <3>2. fragments[1].from \in {1, 3} /\ fragments[Len(fragments)].to = idx - 1
      BY <3>1 DEF LineInv, Tiled
    <3> QED BY <1>3, <3>1, <3>2
  <2>2. n = 0 => idx \in {1, 3} /\ fragments'[1] = new
    BY <1>1, <1>3 DEF LineInv, FragmentsInv
  <2>3. fragments'[1].from \in {1, 3} /\ fragments'[n + 1].to = next - 1
    <3>1. CASE n = 0
      BY <1>2, <1>3, <2>2, <3>1
    <3>2. CASE n # 0
      <4>1. fragments'[1].from \in {1, 3}
        BY <1>1, <2>1, <3>2
      <4> QED BY <1>2, <1>3, <4>1
    <3> QED BY <3>1, <3>2
  <2>4. ASSUME NEW i \in 1 .. n PROVE fragments'[i + 1].from = fragments'[i].to + 1
    <3>1. CASE i = n
      BY <1>1, <1>2, <1>3, <2>1, <3>1
    <3>2. CASE i # n
      <4>1. i \in 1 .. n - 1 /\ i + 1 \in 1 .. n
        BY <1>1, <3>2
      <4>2. fragments[i + 1].from = fragments[i].to + 1
        BY <4>1 DEF LineInv, Tiled
      <4> QED BY <1>3, <4>1, <4>2
    <3> QED BY <3>1, <3>2
  <2>5. n + 1 - 1 = n /\ verdict' # "accepted"
    BY <1>1
  <2> QED BY <1>1, <1>3, <2>3, <2>4, <2>5 DEF Tiled
<1>9. MarksClose'
  <2> SUFFICES ASSUME NEW i \in 1 .. n + 1, fragments'[i].kind = "text"
               PROVE  Closes(fragments[i].from, fragments[i].to)'
                        <=> (i < n + 1 \/ verdict' # "refused")
    BY <1>3 DEF MarksClose
  <2>1. PICK from, to : from = fragments'[i].from /\ to = fragments'[i].to
    OBVIOUS
  <2>2. Closes(from, to) <=> (i < n + 1 \/ verdict' # "refused")
    <3>1. CASE i = n + 1
      <4>1. from = idx /\ to = next - 1 /\ kind = "text"
        BY <1>2, <1>3, <2>1, <3>1
      <4> QED BY <1>1, <3>1, <4>1
    <3>2. CASE i # n + 1
      <4>1. i \in 1 .. n /\ i < n + 1
        BY <1>1, <3>2
      <4>2. fragments[i].kind = "text" /\ from = fragments[i].from /\ to = fragments[i].to
        BY <1>3, <2>1, <4>1
      <4> QED BY <1>3, <4>1, <4>2 DEF LineInv, MarksClose
    <3> QED BY <3>1, <3>2
  <2>3. Closes(from, to)' <=> Closes(from, to)
    BY <1>1 DEF Closes, MarksOf, MarkAt, BeginsMark
  <2>4. Closes(fragments[i].from, fragments[i].to)' <=> Closes(from, to)'
    BY <2>1
  <2> QED BY <2>2, <2>3, <2>4
<1> QED BY <1>7, <1>8, <1>9 DEF LineInv

LEMMA TryParseTextKeeps ==
  ASSUME LineInv, verdict = "running", idx <= Len(text), TryParseText
  PROVE  LineInv'
<1>1. text \in Seq(Chars) /\ idx \in Nat \ {0} /\ Len(text) \in Nat
  BY DEF LineInv, FragmentsInv, InlineTypeOK
<1>2. PICK next : /\ next = Find({"tick", "$", "["}, idx + 1)
                  /\ Fragment("text", next)
                  /\ verdict' = IF OpenMarks(idx, next - 1) # <<>> THEN "refused" ELSE verdict
  BY DEF TryParseText
<1>3. next \in idx + 1 .. Len(text) + 1
  BY <1>1, <1>2, FindIs
<1>4. IsPart(idx, next - 1)
  BY <1>1, <1>3 DEF IsPart
<1>5. OpenMarks(idx, next - 1) = <<>> <=> Closes(idx, next - 1)
  BY <1>4, PassFindsPairing
<1>6. /\ next \in Nat /\ idx < next /\ next <= Len(text) + 1 /\ next <= Len(text) + 3
      /\ verdict' \in {"running", "refused"}
      /\ verdict' = "refused" <=> ~Closes(idx, next - 1)
  BY <1>1, <1>2, <1>3, <1>5
<1>7. "text" \in FragmentKinds
  BY DEF FragmentKinds
<1> QED BY <1>2, <1>6, <1>7, FragmentKeeps

LEMMA OthersKeepLine ==
  ASSUME LineInv, verdict = "running", idx <= Len(text), NEW kind \in FragmentKinds \ {"text"},
         NEW next \in idx + 1 .. Len(text) + 3, Fragment(kind, next), UNCHANGED verdict
  PROVE  LineInv'
<1>1. idx \in Nat \ {0} /\ Len(text) \in Nat
  BY DEF LineInv, FragmentsInv, InlineTypeOK
<1>2. next \in Nat /\ idx < next /\ next <= Len(text) + 3 /\ kind \in FragmentKinds /\ kind # "text"
  BY <1>1
<1> QED BY <1>2, FragmentKeeps

\* Whatever ends the line leaves its fragments and what was said of them.
LEMMA EndKeepsLine ==
  ASSUME LineInv, UNCHANGED <<text, idx, fragments>>,
         \/ verdict' = verdict
         \/ verdict = "running" /\ verdict' = "accepted" /\ idx > Len(text)
         \/ /\ verdict = "running" /\ verdict' = "thrown"
            /\ Len(text) < 3 /\ \E k \in DOMAIN text : text[k] = "["
  PROVE  LineInv'
<1>1. \A from, to : IsPart(from, to)' <=> IsPart(from, to)
  BY DEF IsPart
<1>2. \A from, to : Closes(from, to)' <=> Closes(from, to)
  BY DEF Closes, MarksOf, MarkAt, BeginsMark
<1>3. TextsAreParts'
  BY <1>1 DEF LineInv, FragmentsInv, TextsAreParts
<1>4. FragmentsInv'
  BY <1>3 DEF LineInv, FragmentsInv, InlineTypeOK
<1>5. Tiled'
  BY DEF LineInv, Tiled
<1>6. verdict' = "refused" <=> verdict = "refused"
  OBVIOUS
<1>7. MarksClose'
  BY <1>2, <1>6 DEF LineInv, MarksClose
<1> QED BY <1>4, <1>5, <1>7 DEF LineInv

THEOREM InitLineInv == InlineInit => LineInv
<1> SUFFICES ASSUME NEW line \in Texts, Clean(line) PROVE LineInv
  BY DEF InlineInit
<1>1. text \in Seq(Chars) /\ fragments = <<>> /\ verdict = "running" /\ Len(text) \in Nat
  BY TextsAssumption DEF Clean
<1>2. idx \in {1, 3} /\ idx \in 1 .. Len(text) + 3
  BY <1>1 DEF Clean
<1> QED BY <1>1, <1>2 DEF LineInv, FragmentsInv, InlineTypeOK, TextsAreParts, Tiled, MarksClose

THEOREM StepLineInv == LineInv /\ [InlineNext]_inlineVars => LineInv'
<1> SUFFICES ASSUME LineInv, [InlineNext]_inlineVars PROVE LineInv'
  OBVIOUS
<1>0. text \in Seq(Chars) /\ idx \in Nat \ {0} /\ Len(text) \in Nat
  BY DEF LineInv, FragmentsInv, InlineTypeOK
<1>1. CASE ParseCode
  <2>1. PICK close : /\ close = IF idx = Len(text) THEN idx + 1 ELSE Find({text[idx]}, idx + 1)
                     /\ Here({"tick", "$"}) /\ Fragment("verbatim", close + 1) /\ UNCHANGED verdict
    BY <1>1 DEF ParseCode
  <2>2. idx <= Len(text) /\ verdict = "running"
    BY <2>1 DEF Here
  <2>3. close \in idx + 1 .. Len(text) + 1
    BY <1>0, <2>1, <2>2, FindIs
  <2>4. close + 1 \in idx + 1 .. Len(text) + 3 /\ "verbatim" \in FragmentKinds \ {"text"}
    BY <1>0, <2>3 DEF FragmentKinds
  <2> QED BY <2>1, <2>2, <2>4, OthersKeepLine
<1>2. CASE ParseText \/ ParseBracket
  BY <1>2, TryParseTextKeeps DEF ParseText, ParseBracket, Here
<1>3. CASE ParseFootnoteRef
  <2>1. PICK next : /\ next = IF idx + 2 > Len(text) THEN idx + 4 ELSE Find({"]"}, idx + 2) + 1
                    /\ Here({"["}) /\ IsFootnoteRef /\ Fragment("ref", next) /\ UNCHANGED verdict
    BY <1>3 DEF ParseFootnoteRef
  <2>2. idx < Len(text) /\ verdict = "running"
    BY <2>1 DEF Here, IsFootnoteRef
  <2>3. idx + 2 <= Len(text) => Find({"]"}, idx + 2) \in idx + 2 .. Len(text) + 1
    <3>1. idx + 2 \in Nat \ {0}
      BY <1>0
    <3> QED BY <1>0, <3>1, FindIs
  <2>4. next \in idx + 1 .. Len(text) + 3 /\ "ref" \in FragmentKinds \ {"text"} /\ idx <= Len(text)
    BY <1>0, <2>1, <2>2, <2>3 DEF FragmentKinds
  <2> QED BY <2>1, <2>2, <2>4, OthersKeepLine
<1>4. CASE ParseLink
  <2>1. PICK next : /\ next = Find({")"}, Bracket + 1) + 1
                    /\ Here({"["}) /\ IsLink /\ Fragment("link", next) /\ UNCHANGED verdict
    BY <1>4 DEF ParseLink
  <2>2. idx <= Len(text) /\ verdict = "running"
    BY <2>1 DEF Here
  <2>3. PICK b \in idx + 1 .. Len(text) + 1 : b = Bracket
    BY <1>0, <2>2, FindIs DEF Bracket
  <2>4. b + 1 \in Nat \ {0} /\ b + 1 <= Len(text) + 1
    BY <1>0, <2>1, <2>3 DEF IsLink
  <2>5. Find({")"}, b + 1) \in b + 1 .. Len(text) + 1
    BY <1>0, <2>4, FindIs
  <2>6. next \in idx + 1 .. Len(text) + 3 /\ "link" \in FragmentKinds \ {"text"}
    BY <1>0, <2>1, <2>3, <2>5 DEF FragmentKinds
  <2> QED BY <2>1, <2>2, <2>6, OthersKeepLine
<1>5. CASE ReadOutside
  <2>1. /\ verdict = "running" /\ verdict' = "thrown" /\ UNCHANGED <<text, idx, fragments>>
        /\ Len(text) < 3 /\ idx \in DOMAIN text /\ text[idx] = "["
    BY <1>0, <1>5 DEF ReadOutside, Here, Outside
  <2> QED BY <2>1, EndKeepsLine
<1>6. CASE EndOfLine
  <2>1. /\ verdict = "running" /\ verdict' = "accepted" /\ UNCHANGED <<text, idx, fragments>>
        /\ idx > Len(text)
    BY <1>6 DEF EndOfLine
  <2> QED BY <2>1, EndKeepsLine
<1>7. CASE UNCHANGED inlineVars
  BY <1>7, EndKeepsLine DEF inlineVars
<1> QED BY <1>1, <1>2, <1>3, <1>4, <1>5, <1>6, <1>7 DEF InlineNext

\* markdown.cpp:532-581, 621-750: for any text: the fragments of a line take up every character
\* of it once and in order, a text is refused exactly when its marks cannot be
\* paired, and nothing outside the line is read but for a bracket that does not
\* close in a line of one or two characters.
THEOREM InlineIsSound == InlineSpec => []InlineSound
<1>1. LineInv => InlineSound
  BY DEF LineInv, FragmentsInv, InlineSound
<1> QED BY <1>1, InitLineInv, StepLineInv, PTL DEF InlineSpec
=============================================================================
