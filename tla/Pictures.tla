------------------------------ MODULE Pictures ------------------------------
(***************************************************************************)
(* plugin/plugins.hpp with plantuml.hpp and mermaid.hpp: in each post that *)
(* a run parses, the plugins put an image in the place of every diagram.   *)
(* The picture lies under the hash of the text of its diagram; one that is *)
(* there is taken as it is.  PlantUML asks a server for it and writes the  *)
(* file, Mermaid has an external program write it.  The generator keeps    *)
(* the pages of posts that do not change (module Maker).  A run may be     *)
(* killed anywhere and gives up at a post that cannot be parsed;           *)
(* directories can be made.                                                *)
(***************************************************************************)
EXTENDS Naturals, Sequences

CONSTANTS
  Posts,
  Diagrams,
  PluginOf,    \* "PlantUML" or "Mermaid": the language of the diagram
  DiagramsIn,  \* the diagrams of each post, in their order
  NoPage,
  MaxRuns      \* bound: runs in all

\* Plugins::plugins_ is a std::map: they run in the order of their names.
Order == <<"Mermaid", "PlantUML">>
Names == {"Mermaid", "PlantUML"}

ASSUME PluginAssumption == PluginOf \in [Diagrams -> Names]
ASSUME DiagramsAssumption == DiagramsIn \in [Posts -> Seq(Diagrams)]
ASSUME PageAssumption == NoPage \notin Seq({"code", "image"}) /\ MaxRuns \in Nat

VARIABLES
  disk,    \* the picture of each diagram: "none", "torn" or "whole"
  page,    \* the pages the generator has: each diagram as "code" or "image"
  temp,    \* Mermaid's directory .temp is there
  server,  \* the picoweb server runs
  left,    \* the latest run that started the server did not stop it
  step,    \* where the run is; "off" between runs
  active,  \* Plugins::plugins_
  made,    \* the pages of this run
  post,    \* the post in hand
  turn,    \* the plugin whose turn it is
  place,   \* the element it is at
  runs,
  cut,     \* diagrams whose writing was cut off
  failed,  \* posts in which a plugin met a failure
  killed   \* a run was

picVars == <<disk, page, temp, server, left, step, active, made, post, turn, place, runs, cut, failed,
             killed>>

Pages == [Posts -> Seq({"code", "image"}) \cup {NoPage}]

PicTypeOK ==
  /\ disk \in [Diagrams -> {"none", "torn", "whole"}]
  /\ page \in Pages /\ made \in Pages
  /\ {temp, server, left, killed} \subseteq BOOLEAN
  /\ step \in {"off", "next", "element", "write", "export"}
  /\ active \subseteq Names /\ post \in Posts /\ turn \in 1..3 /\ place \in Nat \ {0}
  /\ runs \in Nat /\ cut \subseteq Diagrams /\ failed \subseteq Posts

PicInit ==
  /\ disk = [d \in Diagrams |-> "none"] /\ page = [p \in Posts |-> NoPage]
  /\ temp = FALSE /\ server = FALSE /\ left = FALSE /\ step = "off" /\ active = {}
  /\ made = page /\ post \in Posts /\ turn = 1 /\ place = 1
  /\ runs = 0 /\ cut = {} /\ failed = {} /\ killed = FALSE

---------------------------------------------------------------------------
\* Plugins::init(): a plugin that cannot start is left out.  The server is
\* started in the background, whether one is there or not.
StartRun ==
  /\ step = "off" /\ runs < MaxRuns
  /\ step' = "next" /\ runs' = runs + 1
  /\ active' \in SUBSET Names
  /\ server' = (server \/ "PlantUML" \in active')
  /\ made' = page
  /\ UNCHANGED <<disk, page, temp, left, post, turn, place, cut, failed, killed>>

\* The diagrams of plugins that were left out stay as they are.
TakePost ==
  /\ step = "next"
  /\ \E p \in Posts :
       /\ made[p] = NoPage
       /\ post' = p
       /\ made' = [made EXCEPT ![p] = [i \in DOMAIN DiagramsIn[p] |-> "code"]]
       /\ failed' = (failed \ {p}) \cup (IF active = Names THEN {} ELSE {p})
  /\ step' = "element" /\ turn' = 1 /\ place' = 1
  /\ UNCHANGED <<disk, page, temp, server, left, active, runs, cut, killed>>

Diagram == DiagramsIn[post][place]
Working == step = "element" /\ turn \in 1..2
MyTurn == Working /\ Order[turn] \in active
AtDiagram == MyTurn /\ place <= Len(DiagramsIn[post]) /\ PluginOf[Diagram] = Order[turn]

Untouched == UNCHANGED <<page, server, left, active, post, turn, runs>>
Replace == made' = [made EXCEPT ![post][place] = "image"]
PutDisk(state) == disk' = [disk EXCEPT ![Diagram] = state]

SkipElement ==
  /\ MyTurn /\ place <= Len(DiagramsIn[post]) /\ PluginOf[Diagram] # Order[turn]
  /\ place' = place + 1 /\ temp' = (temp \/ Order[turn] = "Mermaid")
  /\ UNCHANGED <<disk, step, made, cut, failed, killed>> /\ Untouched

\* exists(): whatever is there.
IsThere(d) == disk[d] # "none"
TakeFromDisk ==
  /\ AtDiagram /\ IsThere(Diagram)
  /\ Replace
  /\ place' = place + 1 /\ temp' = (temp \/ Order[turn] = "Mermaid")
  /\ UNCHANGED <<disk, step, cut, failed, killed>> /\ Untouched

\* PlantUML gives up the post at the first failure of the server; a file that
\* cannot be opened costs one diagram.
PlantUMLFails ==
  /\ AtDiagram /\ ~IsThere(Diagram) /\ Order[turn] = "PlantUML"
  /\ place' \in {Len(DiagramsIn[post]) + 1, place + 1}
  /\ failed' = failed \cup {post}
  /\ UNCHANGED <<disk, temp, step, made, cut, killed>> /\ Untouched

\* The file is truncated, then written.
OpenPicture ==
  /\ AtDiagram /\ ~IsThere(Diagram) /\ Order[turn] = "PlantUML"
  /\ PutDisk("torn") /\ step' = "write"
  /\ UNCHANGED <<temp, made, place, cut, failed, killed>> /\ Untouched

\* Mutant of WritePicture: the image is put in before the file is written.
WritePictureLater ==
  /\ step = "write"
  /\ Replace
  /\ step' = "element" /\ place' = place + 1
  /\ UNCHANGED <<disk, temp, cut, failed, killed>> /\ Untouched

\* Nobody asks whether the writing went well.
WritePicture ==
  /\ step = "write"
  /\ Replace
  /\ step' = "element" /\ place' = place + 1
  /\ \/ PutDisk("whole") /\ UNCHANGED cut
     \/ cut' = cut \cup {Diagram} /\ UNCHANGED disk
  /\ UNCHANGED <<temp, failed, killed>> /\ Untouched

\* The program may fail at any point of its own writing.
BeginExport ==
  /\ AtDiagram /\ ~IsThere(Diagram) /\ Order[turn] = "Mermaid"
  /\ temp' = TRUE
  /\ step' = "export" /\ disk' \in {disk, [disk EXCEPT ![Diagram] = "torn"]}
  /\ UNCHANGED <<made, place, cut, failed, killed>> /\ Untouched
Exported ==
  /\ step = "export"
  /\ PutDisk("whole") /\ Replace
  /\ step' = "element" /\ place' = place + 1
  /\ UNCHANGED <<temp, cut, failed, killed>> /\ Untouched
MermaidFails ==
  /\ AtDiagram \/ step = "export"
  /\ Order[turn] = "Mermaid" /\ (step = "export" \/ ~IsThere(Diagram))
  /\ step' = "element" /\ place' = place + 1 /\ temp' = TRUE
  /\ cut' = IF step = "export" THEN cut \cup {Diagram} ELSE cut
  /\ failed' = failed \cup {post}
  /\ UNCHANGED <<disk, made, killed>> /\ Untouched

\* Plugins::run() goes on with the next plugin whatever this one returned.
EndTurn ==
  /\ Working /\ (Order[turn] \in active => place > Len(DiagramsIn[post]))
  /\ temp' = IF Order[turn] = "Mermaid" /\ Order[turn] \in active THEN FALSE ELSE temp
  /\ turn' = turn + 1 /\ place' = 1
  /\ step' = IF turn = 2 THEN "next" ELSE "element"
  /\ UNCHANGED <<disk, page, server, left, active, made, post, runs, cut, failed, killed>>

\* A run that ends otherwise leaves the server it has started.
Leave == left' = (left \/ "PlantUML" \in active) /\ UNCHANGED server

\* destroy(), and the pages are stored; that the call that stops the server or
\* the store failed is only logged.
EndRun ==
  /\ step = "next" /\ \A p \in Posts : made[p] # NoPage
  /\ page' \in {made, page}
  /\ \/ server' = (server /\ "PlantUML" \notin active) /\ left' = (left /\ "PlantUML" \notin active)
     \/ Leave
  /\ step' = "off"
  /\ UNCHANGED <<disk, temp, active, made, post, turn, place, runs, cut, failed, killed>>

\* A post that cannot be parsed ends Maker::parse() before destroy() and the
\* store: every post made in this run is made anew.
GiveUp ==
  /\ step = "next" /\ \E p \in Posts : made[p] = NoPage
  /\ step' = "off" /\ Leave
  /\ UNCHANGED <<disk, page, temp, active, made, post, turn, place, runs, cut, failed, killed>>

\* Posts not stored yet are made anew.
KillRun ==
  /\ step # "off" /\ step' = "off" /\ killed' = TRUE /\ Leave
  /\ cut' = IF step \in {"write", "export"} THEN cut \cup {Diagram} ELSE cut
  /\ UNCHANGED <<disk, page, temp, active, made, post, turn, place, runs, failed>>

\* An author edits a post: its page is not taken over.
Edit ==
  /\ step = "off" /\ \E p \in Posts : page' = [page EXCEPT ![p] = NoPage]
  /\ UNCHANGED <<disk, temp, server, left, step, active, made, post, turn, place, runs, cut, failed, killed>>

PicNext ==
  \/ StartRun \/ TakePost \/ SkipElement \/ TakeFromDisk
  \/ PlantUMLFails \/ OpenPicture \/ WritePicture
  \/ BeginExport \/ Exported \/ MermaidFails
  \/ EndTurn \/ EndRun \/ GiveUp \/ KillRun \/ Edit

PicSpec == PicInit /\ [][PicNext]_picVars

---------------------------------------------------------------------------
TornIsCut ==
  \A d \in Diagrams : disk[d] = "torn" =>
    d \in cut \/ (step \in {"write", "export"} /\ d = Diagram)

ImagesAreThere ==
  \A p \in Posts : made[p] # NoPage =>
    \A i \in DOMAIN made[p] : made[p][i] = "image" =>
      LET d == DiagramsIn[p][i] IN disk[d] = "whole" \/ d \in cut

CodeIsFailure ==
  \A p \in Posts : page[p] # NoPage =>
    \A i \in DOMAIN page[p] : page[p][i] = "code" => p \in failed

CleansUp == step = "off" => (temp => killed) /\ (server => left)

\* plantuml.hpp:174-233, mermaid.hpp:35-132, plugins.hpp:38-70: a page shows a
\* picture that is whole, except one whose writing was cut off by
\* a kill, a full disk or the failure of the external program: that one is shown
\* for ever after.  It shows the text of a diagram only where a plugin failed when the
\* page was made, however many runs take the page over since.  Temporary files
\* are left only by a kill; the server only if the latest run that started it
\* was killed, gave up at a post (maker.hpp:404) or failed to stop it.
PicturesWhole == TornIsCut /\ ImagesAreThere /\ CodeIsFailure /\ CleansUp
=============================================================================
