--------------------------- MODULE MC_Standalone ---------------------------
(* The parts that share no state with each other, one at a time: `which' says
   what runs, the others stay in one of their initial states.  Bounds: texts of
   up to three lines of any kind and five of lists, tables and items with bad
   marks; lines of up to seven characters; a list three levels deep is within
   them, as are a run of five and of six marks.                              *)
EXTENDS Markdown, Inline, Pictures, M3u8, Scheduler, TLC

CONSTANTS p, q, u, v, m, i, r, b

---------------------------------------------------------------------------
Shape(kind, indent, size, good, cells, goodCells) ==
  [kind |-> kind, indent |-> indent, size |-> size, good |-> good,
   cells |-> cells, goodCells |-> goodCells]
Plain(kind) == Shape(kind, 0, 4, TRUE, 0, 0)
Row(cells, goodCells) == Shape("row", 0, 9, TRUE, cells, goodCells)
Note(n) == Shape("note", 0, 9, TRUE, n, 0)
Empty == Shape("blank", 0, 0, TRUE, 0, 0)
Short == Shape("text", 0, 1, TRUE, 0, 0)
Text == Plain("text")
Dash == Plain("dash")
Number == Plain("number")
Bad(l) == [l EXCEPT !.good = FALSE]
Under(l, n) == [l EXCEPT !.indent = n, !.size = @ + n]

UpTo(S, n) == UNION {[1..k -> S] : k \in 0..n}

TheFiles ==
  UpTo({Plain(kind) : kind \in {"heading", "quote", "fence", "lang", "dashes", "image",
                                "badImage", "formula", "dollars", "html"}}
       \cup {Empty, Text, Bad(Text), Note(1), Under(Plain("dollars"), 2), Under(Plain("dashes"), 2)}, 3)
  \cup UpTo({Dash, Under(Dash, 2), Under(Dash, 4), Number, Under(Number, 2), Empty, Short}, 5)
  \cup UpTo({Row(2, 2), Row(1, 1), Row(2, 1), Under(Row(2, 2), 2), Text, Empty}, 4)
  \cup UpTo({Dash, Under(Dash, 2), Bad(Under(Dash, 2)), Number, Under(Number, 2), Text,
             Bad(Text), Under(Text, 2), Plain("dashes")}, 4)
  \cup UpTo({Number, Under(Dash, 1), Under(Text, 1)}, 3)

TheTexts ==
  UpTo({"a", "tick", "[", "]", "^", "(", ")", "*", "esc", "L"}, 4)
  \cup UpTo({"*", "~", "a"}, 7) \cup UpTo({"[", "]", "(", ")", "a"}, 6)
  \cup UpTo({"$", "tick", "*"}, 5)

ThePluginOf == [d \in Diagrams |-> IF d = m THEN "Mermaid" ELSE "PlantUML"]
TheDiagramsIn == (p :> <<u, m>>) @@ (q :> <<v, u>>)

ThePlaylists ==
  {NoPlaylist, <<"header">>,
   <<"header", "info", "uri", "info", "uri", "tag", "info", "uri", "tag">>,
   <<"info", "uri", "info", "uri", "uri", "info", "info", "uri", "info", "uri">>}

TheKinds == (i :> "interval") @@ (r :> "rate") @@ (b :> "badCron")

---------------------------------------------------------------------------
VARIABLE which

Init ==
  /\ which \in {"markdown", "inline", "pictures", "m3u8", "scheduler"}
  /\ SchedInit
  /\ PicInit /\ (which # "pictures" => post = p)
  /\ M3u8Init /\ (which # "m3u8" => input[1].kind = "good" /\ ~unended)
  /\ \E content \in IF which = "markdown" THEN Files ELSE {<<>>} : Read(content)
  /\ \E line \in IF which = "inline" THEN Texts ELSE {<<>>} : Clean(line)

Next ==
  /\ UNCHANGED which
  /\ \/ /\ which = "markdown" /\ MdNext
        /\ UNCHANGED <<inlineVars, picVars, m3u8Vars, schedVars>>
     \/ /\ which = "inline" /\ InlineNext
        /\ UNCHANGED <<mdVars, picVars, m3u8Vars, schedVars>>
     \/ /\ which = "pictures" /\ PicNext
        /\ UNCHANGED <<mdVars, inlineVars, m3u8Vars, schedVars>>
     \/ /\ which = "m3u8" /\ M3u8Next
        /\ UNCHANGED <<mdVars, inlineVars, picVars, schedVars>>
     \/ /\ which = "scheduler" /\ SchedNext
        /\ UNCHANGED <<mdVars, inlineVars, picVars, m3u8Vars>>

vars == <<which, mdVars, inlineVars, picVars, m3u8Vars, schedVars>>

\* The fairness of the scheduler, where it is the part that runs.
OfScheduler(Step) ==
  which = "scheduler" /\ Step /\ UNCHANGED <<which, mdVars, inlineVars, picVars, m3u8Vars>>

Fairness ==
  /\ WF_vars(OfScheduler(LoopStep)) /\ WF_vars(OfScheduler(StopReturn))
  /\ WF_vars(OfScheduler(Tick))
  /\ \A w \in Workers : WF_vars(OfScheduler(JobStep(w)))
  /\ \A t \in Tasks : WF_vars(OfScheduler(CallStep(t)))

Spec == Init /\ [][Next]_vars /\ Fairness
=============================================================================
