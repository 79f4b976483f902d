-------------------------- MODULE StandaloneProof --------------------------
(***************************************************************************)
(* The parts that run by themselves.                                       *)
(*                                                                         *)
(* Pictures, for any posts, diagrams and number of runs: what the pages    *)
(* show is whole or was cut off, text is left only where a plugin failed,  *)
(* temporary files are left by kills alone, and the server by runs that    *)
(* were killed, gave up or could not stop it (PicturesWhole).              *)
(*                                                                         *)
(* M3u8, for any file, playlists and degrees of concurrency: each line is  *)
(* taken up once and in order, the parts of a video cut its playlist into  *)
(* pieces that follow one another, what is joined is the playlist without  *)
(* the parts that failed, and the program dies only at the line taken up   *)
(* last and for one of four reasons (LinesOnce, WholeVideo).               *)
(*                                                                         *)
(* Scheduler, for any tasks and workers: each task has one next event, in  *)
(* the queue, with the loop or with its job (OneEventEach), and the loop   *)
(* sleeps over an event only while someone has still to notify it          *)
(* (SleepIsEnded).                                                         *)
(***************************************************************************)
EXTENDS Pictures, M3u8, Scheduler, FiniteSetTheorems, WellFoundedInduction, TLAPS

---------------------------------------------------------------------------
(* The plugins that make pictures. *)

Places(q) == DOMAIN DiagramsIn[q]
Shapes(q) == [Places(q) -> {"code", "image"}]
Rank(d) == IF PluginOf[d] = "Mermaid" THEN 1 ELSE 2
Busy == step \in {"element", "write", "export"}
Writing == step \in {"write", "export"}

\* The variables that this argument needs to be of their type.
Types ==
  /\ disk \in [Diagrams -> {"none", "torn", "whole"}]
  /\ DOMAIN made = Posts /\ DOMAIN page = Posts
  /\ \A q \in Posts : made[q] # NoPage => made[q] \in Shapes(q)
  /\ \A q \in Posts : page[q] # NoPage => page[q] \in Shapes(q)
  /\ step \in {"off", "next", "element", "write", "export"}
  /\ active \subseteq Names /\ post \in Posts /\ place \in Nat \ {0}

\* The post in hand has a page in this run and had none before; a plugin that
\* could not start is a failure in it.
InHand ==
  Busy => /\ made[post] # NoPage /\ page[post] = NoPage
          /\ turn \in 1..2
          /\ active = Names \/ post \in failed

AtWriting ==
  Writing => place \in Places(post) /\ Rank(Diagram) = turn /\ Order[turn] \in active

\* What a run took over from earlier ones it keeps.
Kept == step # "off" => \A q \in Posts : page[q] # NoPage => made[q] = page[q]

Shows(q, k) == disk[DiagramsIn[q][k]] = "whole" \/ DiagramsIn[q][k] \in cut
PagesAreThere ==
  \A q \in Posts : page[q] # NoPage =>
    \A k \in Places(q) : page[q][k] = "image" => Shows(q, k)
MadeAreThere ==
  \A q \in Posts : made[q] # NoPage =>
    \A k \in Places(q) : made[q][k] = "image" => Shows(q, k)

\* A diagram whose plugin has not come to it yet.
ToCome(q, k) ==
  LET n == Rank(DiagramsIn[q][k])
  IN Busy /\ q = post /\ (n > turn \/ (n = turn /\ k >= place))
CodeIsLeft ==
  step # "off" =>
    \A q \in Posts : made[q] # NoPage =>
      \A k \in Places(q) : made[q][k] = "code" => q \in failed \/ ToCome(q, k)
CodeWasLeft ==
  \A q \in Posts : page[q] # NoPage =>
    \A k \in Places(q) : page[q][k] = "code" => q \in failed

NothingRuns ==
  /\ temp => killed \/ (Busy /\ turn = 1 /\ "Mermaid" \in active)
  /\ server => left \/ (step # "off" /\ "PlantUML" \in active)

PInv ==
  /\ Types /\ InHand /\ AtWriting /\ Kept /\ TornIsCut
  /\ PagesAreThere /\ MadeAreThere /\ CodeIsLeft /\ CodeWasLeft /\ NothingRuns

----------------------------------------------------------------------------
\* What the places of a post are, and the diagrams there.
LEMMA PlacesAre ==
  ASSUME NEW q \in Posts
  PROVE  /\ Places(q) = 1..Len(DiagramsIn[q]) /\ Len(DiagramsIn[q]) \in Nat
         /\ \A k \in Places(q) : DiagramsIn[q][k] \in Diagrams
BY DiagramsAssumption DEF Places

\* The place of a diagram's plugin in their order.
LEMMA RankIs ==
  ASSUME NEW d \in Diagrams
  PROVE  /\ Rank(d) \in 1..2
         /\ PluginOf[d] = "Mermaid" <=> Rank(d) = 1
         /\ \A n \in 1..2 : PluginOf[d] = Order[n] <=> Rank(d) = n
BY PluginAssumption DEF Rank, Order, Names

\* The plugins come by their names (std::map).
LEMMA OrderIs == Order[1] = "Mermaid" /\ Order[2] = "PlantUML" /\ Names = {"Mermaid", "PlantUML"}
BY DEF Order, Names

\* A page with a value for each of its diagrams is a page, not its absence.
LEMMA ShapesArePages ==
  ASSUME NEW q \in Posts, NEW f \in Shapes(q)
  PROVE  f \in Seq({"code", "image"}) /\ f # NoPage
<1>1. f \in [1..Len(DiagramsIn[q]) -> {"code", "image"}]
  BY PlacesAre DEF Shapes
<1>2. f \in Seq({"code", "image"})
  BY <1>1, PlacesAre
<1> QED
  BY <1>2, PageAssumption

----------------------------------------------------------------------------
\* Each action keeps the invariant: first what it hardly touches, then one
\* conjunct at a time.
LEMMA StartRunKeeps == ASSUME PInv, StartRun PROVE PInv'
<1> USE DEF PInv
<1>1. (Types /\ InHand /\ AtWriting /\ Kept /\ TornIsCut)'
  BY DEF StartRun, Types, Shapes, InHand, Busy, AtWriting, Diagram, Writing, Kept,
      TornIsCut
<1>2. (PagesAreThere /\ CodeWasLeft /\ NothingRuns)'
  BY DEF StartRun, PagesAreThere, Shows, CodeWasLeft, NothingRuns, Busy
<1>3. MadeAreThere'
  BY DEF StartRun, MadeAreThere, PagesAreThere, Shows
<1>4. CodeIsLeft'
  BY DEF StartRun, CodeIsLeft, Busy, CodeWasLeft, ToCome
<1> QED
  BY <1>1, <1>2, <1>3, <1>4

LEMMA TakePostKeeps == ASSUME PInv, TakePost PROVE PInv'
<1> USE DEF PInv
<1>1. (AtWriting /\ Kept /\ TornIsCut /\ PagesAreThere /\ NothingRuns)'
  BY DEF TakePost, AtWriting, Diagram, Writing, Kept, TornIsCut, PagesAreThere, Shows,
      NothingRuns, Busy
<1>2. Types'
  BY PlacesAre DEF TakePost, Types, Shapes
<1>3. InHand'
  BY PlacesAre, ShapesArePages DEF TakePost, InHand, Busy, Kept, Shapes, Types
<1>4. MadeAreThere'
  BY PlacesAre DEF TakePost, MadeAreThere, Shows
<1>5. CodeIsLeft'
  BY PlacesAre, RankIs DEF TakePost, CodeIsLeft, Busy, ToCome
<1>6. CodeWasLeft'
  BY DEF TakePost, CodeWasLeft, Kept
<1> QED
  BY <1>1, <1>2, <1>3, <1>4, <1>5, <1>6

LEMMA SkipElementKeeps == ASSUME PInv, SkipElement PROVE PInv'
<1> USE DEF PInv
<1>1. (Types /\ InHand /\ AtWriting /\ Kept /\ TornIsCut)'
  BY DEF SkipElement, Types, Diagram, MyTurn, Shapes, Untouched, Working, InHand, Busy,
      AtWriting, Writing, Kept, TornIsCut
<1>2. (PagesAreThere /\ MadeAreThere /\ CodeWasLeft)'
  BY DEF SkipElement, PagesAreThere, Diagram, MyTurn, Shows, Untouched, Working,
      MadeAreThere, CodeWasLeft
<1>3. CodeIsLeft'
  BY PlacesAre, RankIs
  DEF SkipElement, CodeIsLeft, Busy, Diagram, MyTurn, ToCome, Types, Untouched, Working
<1>4. NothingRuns'
  <2>1. turn \in 1..2 /\ Order[turn] \in active
    BY DEF SkipElement, MyTurn, Working
  <2>2. Order[turn] = "Mermaid" => turn = 1 /\ "Mermaid" \in active
    BY <2>1, OrderIs
  <2>3. temp' => temp \/ Order[turn] = "Mermaid"
    BY ZenonT(20) DEF SkipElement
  <2>4. Busy' /\ turn' = turn /\ active' = active /\ step' # "off"
    BY DEF SkipElement, MyTurn, Working, Untouched, Busy
  <2>5. server' = server /\ left' = left /\ killed' = killed /\ step # "off"
    BY DEF SkipElement, MyTurn, Working, Untouched
  <2>6. temp' => killed' \/ (Busy' /\ turn' = 1 /\ "Mermaid" \in active')
    BY <2>2, <2>3, <2>4, <2>5, ZenonT(30) DEF NothingRuns
  <2>7. server' => left' \/ (step' # "off" /\ "PlantUML" \in active')
    BY <2>4, <2>5, ZenonT(30) DEF NothingRuns
  <2> QED
    BY <2>6, <2>7, ZenonT(30) DEF NothingRuns
<1> QED
  BY <1>1, <1>2, <1>3, <1>4

LEMMA TakeFromDiskKeeps == ASSUME PInv, TakeFromDisk PROVE PInv'
<1> USE DEF PInv
<1>1. (AtWriting /\ TornIsCut /\ PagesAreThere /\ CodeWasLeft)'
  BY DEF TakeFromDisk, AtWriting, AtDiagram, Diagram, IsThere, MyTurn, Replace,
      Untouched, Working, Writing, TornIsCut, PagesAreThere, Shows, CodeWasLeft
<1>2. Types'
  BY PlacesAre
  DEF TakeFromDisk, Types, AtDiagram, Busy, Diagram, InHand, IsThere, MyTurn, Replace,
      Shapes, Untouched, Working
<1>3. InHand'
  BY ShapesArePages
  DEF TakeFromDisk, InHand, AtDiagram, Busy, Diagram, IsThere, MyTurn, Replace, Shapes,
      Types, Untouched, Working
<1>4. Kept'
  BY DEF TakeFromDisk, Kept, AtDiagram, Busy, Diagram, InHand, IsThere, MyTurn,
      Replace, Untouched, Working
<1>5. MadeAreThere'
  BY PlacesAre
  DEF TakeFromDisk, MadeAreThere, AtDiagram, Busy, Diagram, InHand, IsThere, MyTurn,
      Replace, Shows, TornIsCut, Types, Untouched, Working
<1>6. CodeIsLeft'
  BY PlacesAre
  DEF TakeFromDisk, CodeIsLeft, AtDiagram, Busy, Diagram, InHand, IsThere, MyTurn,
      Replace, Shapes, ToCome, Types, Untouched, Working
<1>7. NothingRuns'
  <2>1. turn \in 1..2 /\ Order[turn] \in active
    BY DEF TakeFromDisk, AtDiagram, MyTurn, Working
  <2>2. Order[turn] = "Mermaid" => turn = 1 /\ "Mermaid" \in active
    BY <2>1, OrderIs
  <2>3. temp' => temp \/ Order[turn] = "Mermaid"
    BY ZenonT(20) DEF TakeFromDisk
  <2>4. Busy' /\ turn' = turn /\ active' = active /\ step' # "off"
    BY DEF TakeFromDisk, AtDiagram, MyTurn, Working, Untouched, Busy
  <2>5. server' = server /\ left' = left /\ killed' = killed /\ step # "off"
    BY DEF TakeFromDisk, AtDiagram, MyTurn, Working, Untouched
  <2>6. temp' => killed' \/ (Busy' /\ turn' = 1 /\ "Mermaid" \in active')
    BY <2>2, <2>3, <2>4, <2>5, ZenonT(30) DEF NothingRuns
  <2>7. server' => left' \/ (step' # "off" /\ "PlantUML" \in active')
    BY <2>4, <2>5, ZenonT(30) DEF NothingRuns
  <2> QED
    BY <2>6, <2>7, ZenonT(30) DEF NothingRuns
<1> QED
  BY <1>1, <1>2, <1>3, <1>4, <1>5, <1>6, <1>7

LEMMA PlantUMLFailsKeeps == ASSUME PInv, PlantUMLFails PROVE PInv'
<1> USE DEF PInv
<1>1. (Types /\ InHand /\ AtWriting /\ Kept /\ TornIsCut)'
  BY DEF PlantUMLFails, Types, AtDiagram, Diagram, IsThere, MyTurn, Shapes, Untouched,
      Working, InHand, Busy, AtWriting, Writing, Kept, TornIsCut
<1>2. (PagesAreThere /\ MadeAreThere /\ CodeIsLeft /\ CodeWasLeft /\ NothingRuns)'
  BY DEF PlantUMLFails, PagesAreThere, AtDiagram, Diagram, IsThere, MyTurn, Shows,
      Untouched, Working, MadeAreThere, CodeIsLeft, Busy, ToCome, CodeWasLeft,
      NothingRuns
<1> QED
  BY <1>1, <1>2

LEMMA OpenPictureKeeps == ASSUME PInv, OpenPicture PROVE PInv'
<1> USE DEF PInv
<1>1. (Types /\ InHand /\ Kept)'
  BY DEF OpenPicture, Types, AtDiagram, Diagram, IsThere, MyTurn, PutDisk, Shapes,
      Untouched, Working, InHand, Busy, Kept
<1>2. (PagesAreThere /\ MadeAreThere /\ CodeIsLeft)'
  BY DEF OpenPicture, PagesAreThere, AtDiagram, Diagram, IsThere, MyTurn, PutDisk,
      Shows, Untouched, Working, MadeAreThere, CodeIsLeft, Busy, ToCome
<1>3. (CodeWasLeft /\ NothingRuns)'
  BY DEF OpenPicture, CodeWasLeft, AtDiagram, Diagram, IsThere, MyTurn, PutDisk,
      Untouched, Working, NothingRuns, Busy
<1>4. AtWriting'
  BY PlacesAre, RankIs
  DEF OpenPicture, AtWriting, AtDiagram, Diagram, IsThere, MyTurn, PutDisk, Types,
      Untouched, Working, Writing
<1>5. TornIsCut'
  BY DEF OpenPicture, TornIsCut, AtDiagram, Diagram, IsThere, MyTurn, PutDisk,
      Untouched, Working
<1> QED
  BY <1>1, <1>2, <1>3, <1>4, <1>5

LEMMA WritePictureKeeps == ASSUME PInv, WritePicture PROVE PInv'
<1> USE DEF PInv
<1>1. (AtWriting /\ CodeWasLeft /\ NothingRuns)'
  BY DEF WritePicture, AtWriting, Diagram, PutDisk, Replace, Untouched, Writing,
      CodeWasLeft, NothingRuns, Busy
<1>2. Types'
  BY DEF WritePicture, Types, AtWriting, Busy, Diagram, InHand, PutDisk, Replace,
      Shapes, Untouched, Writing
<1>3. InHand'
  BY ShapesArePages
  DEF WritePicture, InHand, Busy, Diagram, PutDisk, Replace, Shapes, Types, Untouched
<1>4. Kept'
  BY DEF WritePicture, Kept, Busy, Diagram, InHand, PutDisk, Replace, Untouched
<1>5. TornIsCut'
  BY DEF WritePicture, TornIsCut, Diagram, PutDisk, Replace, Types, Untouched
<1>6. PagesAreThere'
  BY PlacesAre
  DEF WritePicture, PagesAreThere, Diagram, PutDisk, Replace, Shows, Types, Untouched
<1>7. MadeAreThere'
  BY PlacesAre
  DEF WritePicture, MadeAreThere, Busy, Diagram, InHand, PutDisk, Replace, Shows,
      Types, Untouched
<1>8. CodeIsLeft'
  BY PlacesAre
  DEF WritePicture, CodeIsLeft, Busy, Diagram, InHand, PutDisk, Replace, Shapes,
      ToCome, Types, Untouched
<1> QED
  BY <1>1, <1>2, <1>3, <1>4, <1>5, <1>6, <1>7, <1>8

LEMMA BeginExportKeeps == ASSUME PInv, BeginExport PROVE PInv'
<1> USE DEF PInv
<1>1. (Types /\ InHand /\ Kept /\ CodeIsLeft /\ CodeWasLeft)'
  BY DEF BeginExport, Types, AtDiagram, Diagram, IsThere, MyTurn, Shapes, Untouched,
      Working, InHand, Busy, Kept, CodeIsLeft, ToCome, CodeWasLeft
<1>2. AtWriting'
  BY PlacesAre, RankIs
  DEF BeginExport, AtWriting, AtDiagram, Diagram, IsThere, MyTurn, Types, Untouched,
      Working, Writing
<1>3. TornIsCut'
  BY DEF BeginExport, TornIsCut, AtDiagram, Diagram, IsThere, MyTurn, Types, Untouched,
      Working
<1>4. PagesAreThere'
  BY PlacesAre
  DEF BeginExport, PagesAreThere, AtDiagram, Diagram, IsThere, MyTurn, Shows, Types,
      Untouched, Working
<1>5. MadeAreThere'
  BY PlacesAre
  DEF BeginExport, MadeAreThere, AtDiagram, Diagram, IsThere, MyTurn, Shows, Types,
      Untouched, Working
<1>6. NothingRuns'
  BY OrderIs
  DEF BeginExport, NothingRuns, AtDiagram, Busy, Diagram, IsThere, MyTurn, Untouched,
      Working
<1> QED
  BY <1>1, <1>2, <1>3, <1>4, <1>5, <1>6

LEMMA ExportedKeeps == ASSUME PInv, Exported PROVE PInv'
<1> USE DEF PInv
<1>1. (AtWriting /\ PagesAreThere /\ CodeWasLeft /\ NothingRuns)'
  BY DEF Exported, AtWriting, Diagram, PutDisk, Replace, Untouched, Writing,
      PagesAreThere, Shows, CodeWasLeft, NothingRuns, Busy
<1>2. Types'
  BY PlacesAre
  DEF Exported, Types, AtWriting, Busy, Diagram, InHand, PutDisk, Replace, Shapes,
      Untouched, Writing
<1>3. InHand'
  BY ShapesArePages
  DEF Exported, InHand, Busy, Diagram, PutDisk, Replace, Shapes, Types, Untouched
<1>4. Kept'
  BY DEF Exported, Kept, Busy, Diagram, InHand, PutDisk, Replace, Untouched
<1>5. TornIsCut'
  BY DEF Exported, TornIsCut, Diagram, PutDisk, Replace, Types, Untouched
<1>6. MadeAreThere'
  BY PlacesAre
  DEF Exported, MadeAreThere, Busy, Diagram, InHand, PutDisk, Replace, Shows, Types,
      Untouched
<1>7. CodeIsLeft'
  BY PlacesAre
  DEF Exported, CodeIsLeft, Busy, Diagram, InHand, PutDisk, Replace, Shapes, ToCome,
      Types, Untouched
<1> QED
  BY <1>1, <1>2, <1>3, <1>4, <1>5, <1>6, <1>7

LEMMA MermaidFailsKeeps == ASSUME PInv, MermaidFails PROVE PInv'
<1> USE DEF PInv
<1>1. (Types /\ InHand /\ AtWriting /\ Kept /\ TornIsCut)'
  BY DEF MermaidFails, Types, AtDiagram, Diagram, IsThere, MyTurn, Shapes, Untouched,
      Working, InHand, Busy, AtWriting, Writing, Kept, TornIsCut
<1>2. (PagesAreThere /\ MadeAreThere /\ CodeIsLeft /\ CodeWasLeft)'
  BY DEF MermaidFails, PagesAreThere, AtDiagram, Diagram, IsThere, MyTurn, Shows,
      Untouched, Working, MadeAreThere, CodeIsLeft, Busy, ToCome, CodeWasLeft
<1>3. NothingRuns'
  BY OrderIs
  DEF MermaidFails, NothingRuns, AtDiagram, AtWriting, Busy, Diagram, InHand, IsThere,
      MyTurn, Untouched, Working, Writing
<1> QED
  BY <1>1, <1>2, <1>3

LEMMA EndTurnKeeps == ASSUME PInv, EndTurn PROVE PInv'
<1> USE DEF PInv
<1>1. (Types /\ InHand /\ AtWriting /\ Kept /\ TornIsCut)'
  BY DEF EndTurn, Types, Shapes, Working, InHand, Busy, AtWriting, Diagram, Writing,
      Kept, TornIsCut
<1>2. (PagesAreThere /\ MadeAreThere /\ CodeWasLeft)'
  BY DEF EndTurn, PagesAreThere, Shows, Working, MadeAreThere, CodeWasLeft
<1>3. CodeIsLeft'
  BY OrderIs, PlacesAre, RankIs
  DEF EndTurn, CodeIsLeft, Busy, InHand, ToCome, Types, Working
<1>4. NothingRuns'
  BY OrderIs DEF EndTurn, NothingRuns, Busy, Working
<1> QED
  BY <1>1, <1>2, <1>3, <1>4

LEMMA EndRunKeeps == ASSUME PInv, EndRun PROVE PInv'
<1> USE DEF PInv
<1>1. (Types /\ InHand /\ AtWriting /\ Kept /\ TornIsCut)'
  BY DEF EndRun, Types, Shapes, InHand, Busy, AtWriting, Diagram, Writing, Kept,
      TornIsCut
<1>2. (MadeAreThere /\ CodeIsLeft)'
  BY DEF EndRun, MadeAreThere, Shows, CodeIsLeft, Busy, ToCome
<1>3. NothingRuns'
  <2>1. /\ step = "next" /\ UNCHANGED <<temp, killed, active>>
        /\ \/ server' => server /\ "PlantUML" \notin active
           \/ left' = (left \/ "PlantUML" \in active) /\ UNCHANGED server
    BY DEF EndRun, Leave
  <2>2. temp' => killed'
    BY <2>1 DEF NothingRuns, Busy
  <2>3. server' => left'
    <3>1. server => left \/ "PlantUML" \in active
      BY DEF NothingRuns
    <3>2. server' /\ "PlantUML" \notin active /\ left => left'
      BY DEF EndRun, Leave
    <3> QED
      BY <2>1, <3>1, <3>2
  <2> QED
    BY <2>2, <2>3 DEF NothingRuns
<1>4. PagesAreThere'
  BY DEF EndRun, PagesAreThere, MadeAreThere, Shows
<1>5. CodeWasLeft'
  BY DEF EndRun, CodeWasLeft, Busy, CodeIsLeft, ToCome
<1> QED
  BY <1>1, <1>2, <1>3, <1>4, <1>5

LEMMA GiveUpKeeps == ASSUME PInv, GiveUp PROVE PInv'
<1> USE DEF PInv
<1>1. (Types /\ InHand /\ AtWriting /\ Kept /\ TornIsCut)'
  BY DEF GiveUp, Types, Shapes, InHand, Busy, AtWriting, Diagram, Writing, Kept,
      TornIsCut
<1>2. (PagesAreThere /\ MadeAreThere /\ CodeIsLeft /\ CodeWasLeft)'
  BY DEF GiveUp, PagesAreThere, MadeAreThere, Shows, CodeIsLeft, CodeWasLeft
<1>3. NothingRuns'
  BY DEF GiveUp, Leave, NothingRuns, Busy
<1> QED
  BY <1>1, <1>2, <1>3

LEMMA KillRunKeeps == ASSUME PInv, KillRun PROVE PInv'
<1> USE DEF PInv
<1>1. (Types /\ InHand /\ AtWriting /\ Kept /\ TornIsCut)'
  BY DEF KillRun, Types, Diagram, Shapes, InHand, Busy, AtWriting, Writing, Kept,
      TornIsCut
<1>2. (PagesAreThere /\ MadeAreThere /\ CodeIsLeft /\ CodeWasLeft /\ NothingRuns)'
  BY DEF KillRun, Leave, PagesAreThere, Diagram, Shows, MadeAreThere, CodeIsLeft, Busy,
      ToCome, CodeWasLeft, NothingRuns
<1> QED
  BY <1>1, <1>2

LEMMA EditKeeps == ASSUME PInv, Edit PROVE PInv'
<1> USE DEF PInv
<1>1. (Types /\ InHand /\ AtWriting /\ Kept /\ TornIsCut)'
  BY DEF Edit, Types, Shapes, InHand, Busy, AtWriting, Diagram, Writing, Kept, TornIsCut
<1>2. (PagesAreThere /\ MadeAreThere /\ CodeIsLeft /\ CodeWasLeft /\ NothingRuns)'
  BY DEF Edit, PagesAreThere, Shows, MadeAreThere, CodeIsLeft, Busy, ToCome,
      CodeWasLeft, NothingRuns
<1> QED
  BY <1>1, <1>2

----------------------------------------------------------------------------
\* Before the first run (plugins.hpp:38) there are no pages and no pictures.
THEOREM InitPInv == PicInit => PInv
BY DEF PicInit, PInv, Types, InHand, AtWriting, Kept, TornIsCut, PagesAreThere, MadeAreThere,
       CodeIsLeft, CodeWasLeft, NothingRuns, Busy, Writing, Shows, ToCome

\* Each step of the plugins, of who edits and of who kills the run preserves it.
THEOREM StepPInv == PInv /\ [PicNext]_picVars => PInv'
<1> SUFFICES ASSUME PInv, [PicNext]_picVars PROVE PInv'
  OBVIOUS
<1>1. CASE UNCHANGED picVars
  BY <1>1 DEF picVars, PInv, Types, InHand, AtWriting, Kept, TornIsCut, PagesAreThere,
     MadeAreThere, CodeIsLeft, CodeWasLeft, NothingRuns, Busy, Writing, Shows, ToCome,
     Diagram
<1>2. CASE PicNext
  BY <1>2, StartRunKeeps, TakePostKeeps, SkipElementKeeps, TakeFromDiskKeeps,
     PlantUMLFailsKeeps, OpenPictureKeeps, WritePictureKeeps, BeginExportKeeps,
     ExportedKeeps, MermaidFailsKeeps, EndTurnKeeps, EndRunKeeps, GiveUpKeeps, KillRunKeeps,
     EditKeeps
  DEF PicNext
<1> QED
  BY <1>1, <1>2

LEMMA PagesAreWhole == PInv => PicturesWhole
<1> SUFFICES ASSUME PInv PROVE PicturesWhole
  OBVIOUS
<1>1. ImagesAreThere
  BY DEF PInv, Types, MadeAreThere, Shows, ImagesAreThere, Shapes
<1>2. CodeIsFailure
  BY DEF PInv, Types, CodeWasLeft, CodeIsFailure, Shapes
<1>3. CleansUp
  BY DEF PInv, NothingRuns, CleansUp, Busy
<1> QED
  BY <1>1, <1>2, <1>3 DEF PInv, PicturesWhole

\* plantuml.hpp:174-233, mermaid.hpp:35-132: for any posts and diagrams, however
\* often runs fail or are killed, the pages show whole pictures but for those
\* whose writing was cut off, and text only where a plugin failed; a server is
\* left only by a run that was killed, gave up or could not stop it.
THEOREM PicturesAreWhole == PicSpec => []PicturesWhole
BY PagesAreWhole, InitPInv, StepPInv, PTL DEF PicSpec

----------------------------------------------------------------------------
(* The listening program. *)

InputLine == [kind : InputKinds, time : Nat]
Handled == [line : Nat, whole : BOOLEAN, read : InputKinds]

\* The types this argument needs.
ListTypes ==
  /\ input \in Seq(InputLine) /\ Len(input) >= 1
  /\ clock \in Nat /\ seen \in Nat /\ ft \in Nat
  /\ next \in Nat \ {0} /\ processed \in Nat
  /\ handled \in Seq(Handled)
  /\ first \in BOOLEAN /\ unended \in BOOLEAN /\ eof \in BOOLEAN

TimesArePast ==
  /\ \A i \in DOMAIN input : input[i].time <= clock
  /\ seen <= clock /\ ft <= clock

AtRest == pc \in {"poll", "test"}

\* getline() is not ahead of what is counted, and in the first loop not behind.
ReadUpTo ==
  /\ processed <= Len(input)
  /\ first => next = processed + 1 /\ ~AtRest
  /\ ~first => next <= processed + 1

\* What came after the pass, or after the end of the file that it met, came at
\* its time or later.
LeftIsNew ==
  /\ AtRest => ~eof /\ \A i \in DOMAIN input : i > processed => input[i].time >= seen
  /\ eof => \A i \in DOMAIN input :
       i > processed => input[i].time >= seen /\ input[i].time >= ft
Counted == processed = Len(handled) /\ \A i \in DOMAIN handled : handled[i].line = i

LinesInv == ListTypes /\ TimesArePast /\ ReadUpTo /\ LeftIsNew /\ Counted

----------------------------------------------------------------------------




\* What has an upper bound has a largest member.
LEMMA LargestExists ==
  ASSUME NEW T \in SUBSET Nat, T # {}, NEW c \in Nat, \A t \in T : t <= c
  PROVE  \E m \in T : \A t \in T : m >= t
<1> DEFINE U == {n \in Nat : \A t \in T : t <= n}
<1> DEFINE Less == OpToRel(<, Nat)
<1>0. IsWellFoundedOn(Less, Nat)
  BY NatLessThanWellFounded
<1>1. U \subseteq Nat /\ U # {}
  OBVIOUS
<1>2. PICK m \in U : \A n \in U : <<n, m>> \notin Less
  <2> HIDE DEF Less, U
  <2> QED
    BY <1>0, <1>1, WFMin
<1>3. \A n \in U : ~(n < m)
  BY <1>2 DEF OpToRel
<1>4. ASSUME m \notin T PROVE FALSE
  <2>1. \A t \in T : t < m
    BY <1>4
  <2>2. m - 1 \in Nat
    <3> PICK t \in T : TRUE
      OBVIOUS
    <3> QED
      BY <2>1
  <2>3. \A t \in T : t <= m - 1
    BY <2>1
  <2> QED
    BY <2>2, <2>3, <1>3
<1> QED
  BY <1>4

LEMMA TimesAreTimes ==
  ASSUME ListTypes
  PROVE  \A i \in DOMAIN input : input[i].time \in Nat /\ i \in Nat
<1> SUFFICES ASSUME NEW i \in DOMAIN input PROVE input[i].time \in Nat /\ i \in Nat
  OBVIOUS
<1>1. input[i] \in InputLine
  BY DEF ListTypes
<1> QED
  BY <1>1 DEF ListTypes, InputLine

\* The time of the file is one that was.
LEMMA LastWriteIs ==
  ASSUME ListTypes, TimesArePast
  PROVE  LastWrite \in Nat /\ LastWrite <= clock
<1> DEFINE T == {input[i].time : i \in DOMAIN input}
<1>1. DOMAIN input = 1..Len(input) /\ Len(input) \in Nat
  BY DEF ListTypes
<1>2. \A i \in DOMAIN input : input[i].time \in Nat /\ input[i].time <= clock
  BY TimesAreTimes DEF TimesArePast
<1>3. input[1].time \in T
  <2>1. 1 \in DOMAIN input
    BY <1>1 DEF ListTypes
  <2> QED
    BY <2>1
<1>4. T \in SUBSET Nat /\ T # {} /\ \A t \in T : t <= clock
  BY <1>2, <1>3
<1>5. clock \in Nat
  BY DEF ListTypes
<1> HIDE DEF T
<1>6. PICK m \in T : \A t \in T : m >= t
  BY <1>4, <1>5, LargestExists
<1>7. Max(T) \in T
  BY <1>6 DEF Max
<1> QED
  BY <1>4, <1>7 DEF LastWrite, T

----------------------------------------------------------------------------
\* Other programs write: a line that comes now is as new as can be.
LEMMA WriteLineKeeps ==
  ASSUME LinesInv, WriteLine
  PROVE  LinesInv'
<1> USE DEF LinesInv
<1> PICK k \in InputKinds : input' = Append(input, [kind |-> k, time |-> clock])
  BY DEF WriteLine
<1>1. clock \in Nat /\ Len(input) \in Nat
  BY DEF ListTypes
<1>2. [kind |-> k, time |-> clock] \in InputLine
  BY <1>1 DEF InputLine
<1>3. /\ input' \in Seq(InputLine) /\ Len(input') = Len(input) + 1
      /\ DOMAIN input = 1..Len(input) /\ DOMAIN input' = 1..Len(input) + 1
      /\ \A i \in 1..Len(input) : input'[i] = input[i]
      /\ input'[Len(input) + 1].time = clock
  BY <1>2 DEF ListTypes
<1>4. ListTypes'
  BY <1>1, <1>3 DEF WriteLine, program, ListTypes
<1>5. TimesArePast'
  BY <1>1, <1>3 DEF WriteLine, program, TimesArePast
<1>6. ReadUpTo'
  BY <1>1, <1>3 DEF WriteLine, program, ReadUpTo, AtRest, ListTypes
<1>7. LeftIsNew'
  BY <1>1, <1>3 DEF WriteLine, program, LeftIsNew, AtRest, ListTypes, TimesArePast
<1>8. Counted'
  BY DEF WriteLine, program, Counted
<1> QED
  BY <1>4, <1>5, <1>6, <1>7, <1>8

LEMMA EndLineKeeps ==
  ASSUME LinesInv, EndLine
  PROVE  LinesInv'
<1> USE DEF LinesInv
<1> DEFINE n == Len(input)
<1>1. clock \in Nat /\ n \in DOMAIN input /\ input \in Seq(InputLine)
  BY DEF ListTypes
<1>2. input' = [input EXCEPT ![n] = [input[n] EXCEPT !.time = clock]]
  BY DEF EndLine
<1>3. [input[n] EXCEPT !.time = clock] \in InputLine
  <2>1. input[n] \in InputLine
    BY <1>1
  <2> QED
    BY <1>1, <2>1 DEF InputLine
<1>4. /\ input' \in Seq(InputLine) /\ Len(input') = Len(input)
      /\ DOMAIN input' = DOMAIN input
      /\ \A i \in DOMAIN input : i # n => input'[i] = input[i]
      /\ input'[n].time = clock
  <2>1. [input[n] EXCEPT !.time = clock].time = clock
    <3>1. input[n] \in InputLine
      BY <1>1
    <3> QED
      BY <3>1 DEF InputLine
  <2> DEFINE new == [input[n] EXCEPT !.time = clock]
  <2> HIDE DEF new
  <2>2. input' = [input EXCEPT ![n] = new] /\ new \in InputLine
    BY <1>2, <1>3 DEF new
  <2>3. /\ DOMAIN input' = DOMAIN input /\ input'[n] = new
        /\ \A i \in DOMAIN input : i # n => input'[i] = input[i]
    BY <1>1, <2>2
  <2>4. input' \in Seq(InputLine) /\ Len(input') = Len(input)
    BY <1>1, <2>2
  <2> QED
    BY <2>1, <2>3, <2>4 DEF new
<1>5. ListTypes'
  BY <1>4 DEF EndLine, program, ListTypes
<1>6. TimesArePast'
  BY <1>1, <1>4 DEF EndLine, program, TimesArePast
<1>7. ReadUpTo'
  BY <1>4 DEF EndLine, program, ReadUpTo, AtRest
<1>8. LeftIsNew'
  BY <1>1, <1>4 DEF EndLine, program, LeftIsNew, AtRest, TimesArePast, ListTypes
<1>9. Counted'
  BY DEF EndLine, program, Counted
<1> QED
  BY <1>5, <1>6, <1>7, <1>8, <1>9

\* What neither reads nor writes lines.
LEMMA OthersKeepLines ==
  ASSUME LinesInv, TickOfFiles \/ SignalHandler \/ TestStopping \/ UNCHANGED m3u8Vars
  PROVE  LinesInv'
<1> USE DEF LinesInv, TickOfFiles, SignalHandler, TestStopping, m3u8Vars, program, world
<1>1. ListTypes'
  BY DEF ListTypes
<1>2. TimesArePast'
  <2>1. clock' \in Nat /\ clock <= clock'
    BY DEF ListTypes
  <2>2. \A i \in DOMAIN input : input[i].time <= clock'
    BY <2>1, TimesAreTimes DEF TimesArePast, ListTypes
  <2> QED
    BY <2>1, <2>2 DEF TimesArePast, ListTypes
<1>3. ReadUpTo'
  BY DEF ReadUpTo, AtRest
<1>4. LeftIsNew' /\ Counted'
  BY DEF LeftIsNew, AtRest, Counted
<1> QED
  BY <1>1, <1>2, <1>3, <1>4

\* The work on a line that was taken up.
LEMMA WorkKeeps ==
  ASSUME LinesInv, Work, ~AtRest, ~AtRest'
  PROVE  LinesInv'
<1> USE DEF LinesInv, Work, world
<1>1. ListTypes' /\ TimesArePast'
  BY DEF ListTypes, TimesArePast
<1>2. ReadUpTo'
  BY DEF ReadUpTo
<1>3. LeftIsNew' /\ Counted'
  BY DEF LeftIsNew, Counted
<1> QED
  BY <1>1, <1>2, <1>3

LEMMA SkipLineKeeps ==
  ASSUME LinesInv, SkipLine
  PROVE  LinesInv'
<1> USE DEF LinesInv, SkipLine, world
<1>1. ListTypes' /\ TimesArePast'
  BY DEF ListTypes, TimesArePast, IsWhole
<1>2. ReadUpTo'
  BY DEF ReadUpTo, WasRead, AtRest, HasLine, ListTypes
<1>3. eof' => processed >= Len(input)
  BY DEF WasRead, IsWhole, HasLine, ReadUpTo, ListTypes
<1>4. LeftIsNew' /\ Counted'
  BY <1>3 DEF LeftIsNew, Counted, AtRest, HasLine, ListTypes
<1> QED
  BY <1>1, <1>2, <1>4

\* It is read as a line of some kind.
LEMMA ReadKind ==
  ASSUME ListTypes, HasLine, NEW kind \in ReadAs(next)
  PROVE  kind \in InputKinds
<1>1. input[next] \in InputLine
  BY DEF ListTypes, HasLine
<1>2. input[next].kind \in InputKinds
  BY <1>1 DEF InputLine
<1> QED
  BY <1>2 DEF ReadAs, InputKinds

\* The line that is taken up is the one after those that were.
LEMMA TakeLineKeeps ==
  ASSUME LinesInv, TakeLine
  PROVE  LinesInv'
<1> USE DEF LinesInv
<1> PICK kind \in ReadAs(next) :
      /\ handled' = Append(handled, [line |-> next, whole |-> IsWhole(next), read |-> kind])
      /\ pc' = CASE kind = "badFormat" -> "pass" [] kind = "badNumber" -> "died" [] OTHER -> "fetch"
  BY DEF TakeLine
<1>0. kind \in InputKinds /\ IsWhole(next) \in BOOLEAN
  BY ReadKind DEF IsWhole, TakeLine
<1>1. /\ pc = "pass" /\ next <= Len(input) /\ ~WasRead(next)
      /\ next' = next + 1 /\ processed' = processed + 1 /\ eof' = ~IsWhole(next)
      /\ UNCHANGED <<first, seen, ft, world>>
      /\ pc' \in {"pass", "died", "fetch"}
  BY <1>0 DEF TakeLine, HasLine, InputKinds
<1>2. next = processed + 1
  BY <1>1 DEF ReadUpTo, WasRead, AtRest, ListTypes
<1> DEFINE line == [line |-> next, whole |-> IsWhole(next), read |-> kind]
<1>3. line \in Handled /\ line.line = next
  BY <1>0 DEF ListTypes, Handled
<1> HIDE DEF line
<1>4. /\ handled' \in Seq(Handled)
      /\ Len(handled') = Len(handled) + 1 /\ DOMAIN handled' = 1..Len(handled) + 1
      /\ \A i \in 1..Len(handled) : handled'[i] = handled[i]
      /\ handled'[Len(handled) + 1].line = next
      /\ DOMAIN handled = 1..Len(handled) /\ Len(handled) \in Nat
  <2>1. handled' = Append(handled, line)
    BY DEF line
  <2> QED
    BY <1>3, <2>1 DEF ListTypes
<1>5. ListTypes'
  BY <1>0, <1>1, <1>4 DEF ListTypes, world
<1>6. TimesArePast'
  BY <1>1 DEF TimesArePast, world
<1>7. ReadUpTo'
  BY <1>1, <1>2 DEF ReadUpTo, AtRest, ListTypes, world
<1>8. Counted'
  BY <1>1, <1>2, <1>4 DEF Counted, ListTypes
<1>9. LeftIsNew'
  <2>1. IsWhole(next) \/ next >= Len(input)
    BY DEF IsWhole, ListTypes
  <2>2. eof' => processed' >= Len(input) /\ input' = input
    BY <1>1, <1>2, <2>1 DEF world
  <2> QED
    BY <1>1, <2>2 DEF LeftIsNew, AtRest, ListTypes, world
<1> QED
  BY <1>5, <1>6, <1>7, <1>8, <1>9

\* At the end of a pass every line is counted, but for those that came since.
LEMMA EndPassKeeps ==
  ASSUME LinesInv, EndPass
  PROVE  LinesInv'
<1> USE DEF LinesInv, EndPass, world
<1>1. ListTypes' /\ TimesArePast' /\ Counted'
  BY DEF ListTypes, TimesArePast, Counted
<1>2. ReadUpTo'
  BY DEF ReadUpTo, AtRest, ListTypes
<1>3. ~eof => \A i \in DOMAIN input : ~(i > processed)
  BY DEF ReadUpTo, AtRest, ListTypes
<1>4. LeftIsNew'
  BY <1>3 DEF LeftIsNew, AtRest
<1> QED
  BY <1>1, <1>2, <1>4

\* A new pass begins at the first line.
LEMMA PollKeeps ==
  ASSUME LinesInv, Poll
  PROVE  LinesInv'
<1> USE DEF LinesInv, Poll, world
<1>1. LastWrite \in Nat /\ LastWrite <= clock
  BY LastWriteIs
<1>2. ListTypes' /\ TimesArePast' /\ Counted'
  BY <1>1 DEF ListTypes, TimesArePast, Counted
<1>3. ReadUpTo'
  BY DEF ReadUpTo, AtRest, ListTypes
<1>4. LeftIsNew'
  BY DEF LeftIsNew, AtRest
<1> QED
  BY <1>2, <1>3, <1>4

----------------------------------------------------------------------------
THEOREM InitLinesInv == M3u8Init => LinesInv
<1> SUFFICES ASSUME M3u8Init PROVE LinesInv
  OBVIOUS
<1> PICK k \in InputKinds : input = <<[kind |-> k, time |-> 0]>>
  BY DEF M3u8Init
<1>1. input \in Seq(InputLine) /\ Len(input) = 1 /\ input[1].time = 0
  BY DEF InputLine
<1>2. ListTypes
  <2>1. first = TRUE /\ eof = FALSE /\ unended \in BOOLEAN
    BY DEF M3u8Init
  <2>2. {first, eof, unended} \subseteq BOOLEAN
    BY <2>1
  <2>3. handled = <<>> /\ clock = 0 /\ seen = 0 /\ ft = 0 /\ next = 1 /\ processed = 0
    BY DEF M3u8Init
  <2>4. handled \in Seq(Handled)
    BY <2>3
  <2> QED
    BY <1>1, <2>2, <2>3, <2>4 DEF ListTypes
<1>3. TimesArePast /\ ReadUpTo /\ Counted
  BY <1>1 DEF M3u8Init, TimesArePast, ReadUpTo, AtRest, Counted
<1>4. LeftIsNew
  <2>1. pc = "pass" /\ ~eof
    BY DEF M3u8Init
  <2> QED
    BY <2>1 DEF LeftIsNew, AtRest
<1> QED
  BY <1>2, <1>3, <1>4 DEF LinesInv

THEOREM StepLinesInv == LinesInv /\ [M3u8Next]_m3u8Vars => LinesInv'
<1> SUFFICES ASSUME LinesInv, [M3u8Next]_m3u8Vars PROVE LinesInv'
  OBVIOUS
<1>1. CASE FetchM3u8 \/ NoTmpDir \/ DownloadPart \/ WaitForParts \/ Combine \/ CleanTmpDir
  BY <1>1, WorkKeeps DEF FetchM3u8, NoTmpDir, DownloadPart, WaitForParts, Combine, CleanTmpDir,
     AtRest
<1> QED
  BY <1>1, WriteLineKeeps, EndLineKeeps, OthersKeepLines, SkipLineKeeps, TakeLineKeeps,
     EndPassKeeps, PollKeeps DEF M3u8Next

\* m3u8_to_mp4.cpp:242-290: for any file, however it is written meanwhile: each line is taken
\* up once and in order, and what a rest leaves is of the tick of the time seen.
THEOREM M3u8LinesOnce == M3u8Spec => []LinesOnce
<1>1. LinesInv => LinesOnce
  BY TimesAreTimes DEF LinesInv, LinesOnce, Counted, LeftIsNew, AtRest, ListTypes
<1> QED
  BY <1>1, InitLinesInv, StepLinesInv, PTL DEF M3u8Spec

----------------------------------------------------------------------------
(* The parts of a video. *)

LEMMA Grows ==
  ASSUME NEW j \in Nat, NEW k \in Nat, NEW s \in Nat, j <= k
  PROVE  j * s <= k * s
<1> PICK d \in Nat : k = j + d
  <2>1. k - j \in Nat /\ k = j + (k - j)
    OBVIOUS
  <2> QED
    BY <2>1
<1>1. k * s = j * s + d * s /\ d * s >= 0
  OBVIOUS
<1> QED
  BY <1>1

\* What the quotient of two numbers is.
LEMMA QuotientIs ==
  ASSUME NEW a \in Nat, NEW b \in Nat \ {0}
  PROVE  /\ a \div b \in Nat
         /\ (a \div b) * b <= a
         /\ a <= (a \div b) * b + b - 1
OBVIOUS

\* gen_task_seq(): the size of a part, and how many there are.
StepOf(n, d) == n \div Smaller(d, n)
PartsNo(n, d) == NumParts(n, StepOf(n, d))

\* All parts but the last are full and end before the last segment.
LEMMA PartSizes ==
  ASSUME NEW n \in Nat \ {0}, NEW d \in Nat \ {0}
  PROVE  /\ StepOf(n, d) \in Nat \ {0} /\ PartsNo(n, d) \in Nat \ {0}
         /\ n <= PartsNo(n, d) * StepOf(n, d)
         /\ (PartsNo(n, d) - 1) * StepOf(n, d) < n
         /\ PartsNo(n, d) < 2 * d
<1> DEFINE m == Smaller(d, n)
           s == StepOf(n, d)
           k == PartsNo(n, d)
<1>1. m \in Nat \ {0} /\ m <= d /\ m <= n
  BY DEF Smaller
<1>2. s \in Nat /\ s * m <= n /\ n <= s * m + m - 1
  BY <1>1, QuotientIs DEF StepOf
<1>3. s \in Nat \ {0}
  <2>1. ASSUME s = 0 PROVE FALSE
    <3>1. s * m = 0
      BY <1>1, <2>1
    <3> QED
      BY <1>1, <1>2, <3>1
  <2> QED
    BY <1>2, <2>1
<1>4. /\ k \in Nat /\ k * s <= n + s - 1 /\ n + s - 1 <= k * s + s - 1
  <2>1. n + s - 1 \in Nat
    BY <1>3
  <2>2. k = (n + s - 1) \div s
    BY DEF PartsNo, NumParts
  <2> HIDE DEF s, k
  <2> QED
    BY <1>3, <2>1, <2>2, QuotientIs
<1> HIDE DEF m, s, k
<1>5. n <= k * s
  <2> PICK x \in Nat : x = k * s
    BY <1>3, <1>4
  <2> QED
    BY <1>3, <1>4
<1>6. k # 0
  BY <1>3, <1>5
<1>7. (k - 1) * s = k * s - s
  BY <1>3, <1>4
<1>8. (k - 1) * s < n
  <2> PICK x \in Nat : x = k * s
    BY <1>3, <1>4
  <2> QED
    BY <1>3, <1>4, <1>7
<1>9. k < 2 * m
  <2> SUFFICES ASSUME 2 * m <= k PROVE FALSE
    BY <1>1, <1>4
  <2>1. (2 * m - 1) * s <= (k - 1) * s
    <3>1. 2 * m - 1 \in Nat /\ k - 1 \in Nat /\ 2 * m - 1 <= k - 1
      BY <1>1, <1>4, <1>6
    <3> QED
      BY <1>3, <3>1, Grows
  <2>2. (2 * m - 1) * s = s * m + (m - 1) * s
    BY <1>1, <1>3
  <2>3. m - 1 <= (m - 1) * s
    <3>1. m - 1 \in Nat /\ 1 \in Nat /\ 1 <= s
      BY <1>1, <1>3
    <3>2. 1 * (m - 1) <= s * (m - 1)
      BY <1>3, <3>1, Grows
    <3> QED
      BY <1>1, <1>3, <3>2
  <2> PICK x \in Nat, y \in Nat, z \in Int, w \in Nat :
        x = s * m /\ y = (m - 1) * s /\ z = (k - 1) * s /\ w = (2 * m - 1) * s
    BY <1>1, <1>3, <1>4
  <2> QED
    BY <1>1, <1>2, <1>8, <2>1, <2>2, <2>3
<1> QED
  BY <1>1, <1>3, <1>4, <1>5, <1>6, <1>8, <1>9 DEF s, k

Part == [from : Nat, to : Nat, status : {"asked", "came", "failed"}]

\* The parts of a work, whatever has become of them, are those asked for.
IsCut(parts, n, d) ==
  /\ parts \in Seq(Part) /\ DOMAIN parts = DOMAIN PartsOf(n, d)
  /\ \A k \in DOMAIN parts : /\ parts[k].from = PartsOf(n, d)[k].from
                             /\ parts[k].to = PartsOf(n, d)[k].to

\* gen_task_seq(): they follow one another and end with the last segment.
LEMMA PartsFollow ==
  ASSUME NEW n \in Nat \ {0}, NEW d \in Nat \ {0}, NEW parts, IsCut(parts, n, d)
  PROVE  /\ Len(parts) = PartsNo(n, d) /\ Len(parts) < 2 * d
         /\ parts[1].from = 1 /\ parts[Len(parts)].to = n
         /\ \A k \in 1 .. Len(parts) : parts[k].from <= parts[k].to
         /\ \A k \in 1 .. Len(parts) - 1 : parts[k + 1].from = parts[k].to + 1
<1> DEFINE s == StepOf(n, d)
           N == PartsNo(n, d)
<1>1. /\ s \in Nat \ {0} /\ N \in Nat \ {0} /\ n <= N * s /\ (N - 1) * s < n /\ N < 2 * d
  BY PartSizes
<1>2. PartsOf(n, d) =
        [k \in 1..N |-> [from |-> (k - 1) * s + 1, to |-> Smaller(k * s, n), status |-> "asked"]]
  BY DEF PartsOf, PartsNo, StepOf
<1> HIDE DEF s, N
<1>3. DOMAIN parts = 1..N /\ \A k \in 1..N : /\ parts[k].from = (k - 1) * s + 1
                                            /\ parts[k].to = Smaller(k * s, n)
  <2>1. DOMAIN parts = 1..N
    BY <1>2 DEF IsCut
  <2>2. ASSUME NEW k \in 1..N
        PROVE  parts[k].from = (k - 1) * s + 1 /\ parts[k].to = Smaller(k * s, n)
    <3>1. PartsOf(n, d)[k] = [from |-> (k - 1) * s + 1, to |-> Smaller(k * s, n), status |-> "asked"]
      BY <1>2
    <3>2. /\ PartsOf(n, d)[k].from = (k - 1) * s + 1
          /\ PartsOf(n, d)[k].to = Smaller(k * s, n)
      BY <3>1
    <3> QED
      BY <2>1, <3>2 DEF IsCut
  <2> QED
    BY <2>1, <2>2
<1>4. Len(parts) = N
  BY <1>1, <1>3
<1>5. parts[1].from = 1
  <2>1. (1 - 1) * s = 0
    BY <1>1
  <2> QED
    BY <1>1, <1>3, <2>1
<1>6. parts[N].to = n
  BY <1>1, <1>3 DEF Smaller
<1>7. ASSUME NEW k \in 1 .. N - 1
      PROVE  /\ k * s < n /\ parts[k].to = k * s /\ parts[k + 1].from = k * s + 1
  <2>1. k * s <= (N - 1) * s
    BY <1>1, Grows
  <2>2. k * s < n
    <3> PICK x \in Int, y \in Int : x = k * s /\ y = (N - 1) * s
      BY <1>1
    <3> QED
      BY <1>1, <2>1
  <2>3. parts[k].to = k * s
    BY <1>1, <1>3, <2>2 DEF Smaller
  <2>4. k + 1 \in 1..N /\ (k + 1) - 1 = k
    BY <1>1
  <2>5. parts[k + 1].from = k * s + 1
    BY <1>3, <2>4
  <2> QED
    BY <2>2, <2>3, <2>5
<1>8. ASSUME NEW k \in 1 .. N PROVE parts[k].from <= parts[k].to
  <2>1. k * s = (k - 1) * s + s
    BY <1>1
  <2>2. (k - 1) * s <= (N - 1) * s
    <3>1. k - 1 \in Nat /\ N - 1 \in Nat /\ k - 1 <= N - 1
      BY <1>1
    <3> QED
      BY <1>1, <3>1, Grows
  <2> PICK x \in Int, y \in Int, z \in Int : x = (k - 1) * s /\ y = (N - 1) * s /\ z = k * s
    BY <1>1
  <2>3. x + 1 <= z /\ x + 1 <= n
    BY <1>1, <2>1, <2>2
  <2>4. parts[k].from = x + 1 /\ parts[k].to = Smaller(z, n)
    BY <1>3
  <2> QED
    BY <2>3, <2>4 DEF Smaller
<1> QED
  BY <1>1, <1>4, <1>5, <1>6, <1>7, <1>8 DEF N

\* As they are asked for.
LEMMA PartsAreParts ==
  ASSUME NEW n \in Nat \ {0}, NEW d \in Nat \ {0}
  PROVE  IsCut(PartsOf(n, d), n, d)
<1> DEFINE s == StepOf(n, d)
           N == PartsNo(n, d)
<1>1. /\ s \in Nat \ {0} /\ N \in Nat \ {0}
  BY PartSizes
<1>2. PartsOf(n, d) =
        [k \in 1..N |-> [from |-> (k - 1) * s + 1, to |-> Smaller(k * s, n), status |-> "asked"]]
  BY DEF PartsOf, PartsNo, StepOf
<1> HIDE DEF s, N
<1>3. ASSUME NEW k \in 1..N
      PROVE  [from |-> (k - 1) * s + 1, to |-> Smaller(k * s, n), status |-> "asked"] \in Part
  <2>1. (k - 1) * s + 1 \in Nat /\ k * s \in Nat
    <3>1. k - 1 \in Nat /\ k \in Nat
      BY <1>1
    <3> QED
      BY <1>1, <3>1
  <2> QED
    BY <2>1 DEF Part, Smaller
<1>4. PartsOf(n, d) \in [1..N -> Part]
  BY <1>2, <1>3
<1> QED
  BY <1>1, <1>4 DEF IsCut

----------------------------------------------------------------------------
\* Every work has the parts of its segments, or none yet.
VideoInv ==
  video.parts = <<>> \/ /\ Len(video.segments) \in Nat \ {0} /\ video.degree \in Nat \ {0}
                        /\ IsCut(video.parts, Len(video.segments), video.degree)
VideoTypes ==
  /\ video.degree \in Nat
  /\ video = [degree |-> video.degree, segments |-> video.segments,
              parts |-> video.parts, output |-> video.output, refused |-> video.refused]
PartsInv == VideoTypes /\ VideoInv

\* A sequence, and what is in it.
IsSeq(s) == \E n \in Nat : s = [k \in 1 .. n |-> s[k]]
Values(s) == {s[k] : k \in DOMAIN s}

LEMMA SegmentsAreASeq ==
  ASSUME NEW p \in Playlists, p # NoPlaylist
  PROVE  /\ Len(Segments(p)) \in Nat /\ (Len(Segments(p)) = 0 => Segments(p) = <<>>)
         /\ IsSeq(Segments(p))
<1>1. p \in Seq(LineKinds)
  BY PlaylistAssumption
<1> DEFINE infos == {i \in DOMAIN p : p[i] = "info"}
<1>2. IsFiniteSet(infos)
  <2>1. IsFiniteSet(1..Len(p))
    BY <1>1, FS_Interval
  <2> QED
    BY <1>1, <2>1, FS_Subset
<1>3. Cardinality(infos) \in Nat
  BY <1>2, FS_CardinalityType
<1> DEFINE until(i) == Min({j \in infos : j > i} \cup {Len(p) + 1})
           uri(i) == Max({0} \cup {j \in i .. until(i) - 1 : p[j] = "uri"})
           info(n) == CHOOSE i \in infos : Cardinality({j \in infos : j <= i}) = n
           uriOf(n) == uri(info(n))
<1>4. Segments(p) = [n \in 1..Cardinality(infos) |-> uriOf(n)]
  BY DEF Segments
<1> HIDE DEF infos, uriOf
<1>5. Segments(p) = [n \in 1..Cardinality(infos) |-> Segments(p)[n]]
  BY <1>4
<1> QED
  BY <1>3, <1>4, <1>5 DEF IsSeq

\* What has no parts is cut as it should be.
LEMMA NoPartsKeep ==
  ASSUME NEW d \in Nat, NEW s, NEW o, NEW r,
         video' = [degree |-> d, segments |-> s, parts |-> <<>>, output |-> o, refused |-> r]
  PROVE  PartsInv'
BY DEF PartsInv, VideoTypes, VideoInv

LEMMA TakeLineHasNoParts == ASSUME TakeLine PROVE PartsInv'
<1> PICK d \in Nat : video' = [NoVideo EXCEPT !.degree = d]
  BY DegreeAssumption DEF TakeLine
<1>1. video' = [degree |-> d, segments |-> <<>>, parts |-> <<>>, output |-> <<>>, refused |-> FALSE]
  BY DEF NoVideo
<1> QED
  BY <1>1, NoPartsKeep

\* The parts that are asked for are those of the segments that were found.
LEMMA FetchM3u8Cuts == ASSUME PartsInv, pc = "fetch" => video.parts = <<>>, FetchM3u8 PROVE PartsInv'
<1> USE DEF PartsInv
<1>1. pc = "fetch" /\ video.parts = <<>>
  BY DEF FetchM3u8
<1> PICK p \in Playlists :
      LET segments == IF p = NoPlaylist THEN <<>> ELSE Segments(p)
          n == Len(segments)
      IN IF n = 0 \/ video.degree = 0
         THEN pc' = "died" /\ video' = [video EXCEPT !.segments = segments]
         ELSE /\ pc' = "download"
              /\ video' = [video EXCEPT !.segments = segments, !.parts = PartsOf(n, video.degree)]
  BY DEF FetchM3u8
<1> DEFINE segments == IF p = NoPlaylist THEN <<>> ELSE Segments(p)
           n == Len(segments)
           d == video.degree
<1>2. n \in Nat /\ d \in Nat
  BY SegmentsAreASeq DEF VideoTypes
<1> HIDE DEF segments
<1>3. CASE n = 0 \/ d = 0
  <2>1. video' = [video EXCEPT !.segments = segments]
    BY <1>3 DEF segments
  <2>2. video' = [degree |-> d, segments |-> segments, parts |-> <<>>, output |-> video.output,
                  refused |-> video.refused]
    BY <1>1, <2>1 DEF VideoTypes
  <2> QED
    BY <1>2, <2>2, NoPartsKeep
<1>4. CASE ~(n = 0 \/ d = 0)
  <2>1. video' = [video EXCEPT !.segments = segments, !.parts = PartsOf(n, d)]
    BY <1>4 DEF segments
  <2>2. video' = [degree |-> d, segments |-> segments, parts |-> PartsOf(n, d), output |-> video.output,
                  refused |-> video.refused]
    BY <2>1 DEF VideoTypes
  <2>3. n \in Nat \ {0} /\ d \in Nat \ {0}
    BY <1>2, <1>4
  <2>4. IsCut(PartsOf(n, d), n, d)
    BY <2>3, PartsAreParts
  <2> HIDE DEF n
  <2> QED
    BY <2>2, <2>3, <2>4 DEF VideoTypes, VideoInv, n
<1> QED
  BY <1>3, <1>4

\* A part that comes or fails stays where it is.
LEMMA DownloadPartKeeps == ASSUME PartsInv, DownloadPart PROVE PartsInv'
<1> USE DEF PartsInv
<1> PICK k \in DOMAIN video.parts, status \in {"came", "failed"} :
      video' = [video EXCEPT !.parts[k].status = status]
  BY DEF DownloadPart
<1> DEFINE old == video.parts[k]
           part == [old EXCEPT !.status = status]
           parts == [video.parts EXCEPT ![k] = part]
<1>1. video' = [degree |-> video.degree, segments |-> video.segments,
                parts |-> parts, output |-> video.output, refused |-> video.refused]
  BY DEF VideoTypes
<1>2. video.parts # <<>>
  OBVIOUS
<1> DEFINE n == Len(video.segments)
           d == video.degree
<1>3. n \in Nat \ {0} /\ d \in Nat \ {0} /\ IsCut(video.parts, n, d)
  BY <1>2 DEF VideoInv
<1>4. video.parts \in Seq(Part) /\ old \in Part
  BY <1>3 DEF IsCut
<1>5. part \in Part /\ part.from = old.from /\ part.to = old.to
  BY <1>4 DEF Part
<1> HIDE DEF part, n, d
<1>6. /\ parts \in Seq(Part) /\ DOMAIN parts = DOMAIN video.parts
      /\ parts[k] = part /\ \A j \in DOMAIN parts : j # k => parts[j] = video.parts[j]
  BY <1>4, <1>5
<1> HIDE DEF parts
<1>7. IsCut(parts, n, d)
  BY <1>3, <1>5, <1>6 DEF IsCut
<1> QED
  BY <1>1, <1>3, <1>7 DEF VideoTypes, VideoInv, n, d

LEMMA CombineKeeps == ASSUME PartsInv, Combine PROVE PartsInv'
<1> PICK joined : video' = [video EXCEPT !.output = joined]
  BY DEF Combine
<1>1. video' = [degree |-> video.degree, segments |-> video.segments,
                parts |-> video.parts, output |-> joined, refused |-> video.refused]
  BY DEF PartsInv, VideoTypes
<1> QED
  BY <1>1 DEF PartsInv, VideoTypes, VideoInv

\* A directory that cannot be made or removed leaves the parts as they are.
LEMMA RefusalKeeps ==
  ASSUME PartsInv, video' = [video EXCEPT !.refused = TRUE]
  PROVE  /\ PartsInv' /\ video'.refused
         /\ video'.segments = video.segments
<1>1. video' = [degree |-> video.degree, segments |-> video.segments,
                parts |-> video.parts, output |-> video.output, refused |-> TRUE]
  BY DEF PartsInv, VideoTypes
<1> QED
  BY <1>1 DEF PartsInv, VideoTypes, VideoInv

\* Nothing is asked for while the playlist is fetched.
FetchFirst == pc = "fetch" => video.parts = <<>>

LEMMA StepFetchFirst == FetchFirst /\ [M3u8Next]_m3u8Vars => FetchFirst'
<1> SUFFICES ASSUME FetchFirst, [M3u8Next]_m3u8Vars, pc' = "fetch" PROVE video'.parts = <<>>
  BY DEF FetchFirst
<1>1. CASE TakeLine
  <2> PICK d : video' = [NoVideo EXCEPT !.degree = d]
    BY <1>1 DEF TakeLine
  <2> QED
    BY DEF NoVideo
<1>2. CASE ~TakeLine
  BY <1>2 DEF M3u8Next, m3u8Vars, WriteLine, EndLine, TickOfFiles, SignalHandler, program, world,
    SkipLine, EndPass, Poll, TestStopping, FetchM3u8, NoTmpDir, DownloadPart, WaitForParts,
    Combine, CleanTmpDir, Work, FetchFirst
<1> QED
  BY <1>1, <1>2

----------------------------------------------------------------------------
THEOREM InitPartsInv == M3u8Init => PartsInv /\ FetchFirst
BY DEF M3u8Init, NoVideo, PartsInv, VideoTypes, VideoInv, FetchFirst

THEOREM StepPartsInv == PartsInv /\ FetchFirst /\ [M3u8Next]_m3u8Vars => (PartsInv /\ FetchFirst)'
<1> SUFFICES ASSUME PartsInv, FetchFirst, [M3u8Next]_m3u8Vars PROVE PartsInv'
  BY StepFetchFirst
<1>1. CASE UNCHANGED video
  BY <1>1 DEF PartsInv, VideoTypes, VideoInv
<1>2. CASE NoTmpDir \/ CleanTmpDir
  <2>1. CASE video' = NoVideo
    BY <2>1, NoPartsKeep DEF NoVideo
  <2> QED
    BY <1>2, <2>1, RefusalKeeps DEF NoTmpDir, CleanTmpDir
<1>3. CASE WriteLine \/ EndLine \/ TickOfFiles \/ SignalHandler \/ SkipLine \/ EndPass \/ Poll
           \/ TestStopping \/ WaitForParts
  BY <1>1, <1>3 DEF WriteLine, EndLine, TickOfFiles, SignalHandler, SkipLine, EndPass, Poll,
    TestStopping, WaitForParts, program
<1> QED
  BY <1>1, <1>2, <1>3, TakeLineHasNoParts, FetchM3u8Cuts, DownloadPartKeeps, CombineKeeps
  DEF M3u8Next, m3u8Vars, FetchFirst

\* They do as long as they are those of gen_task_seq().
LEMMA PartsInvCuts == PartsInv => Partition
<1> SUFFICES ASSUME PartsInv, Len(video.parts) > 0 PROVE Partition
  BY DEF Partition
<1>1. /\ Len(video.segments) \in Nat \ {0} /\ video.degree \in Nat \ {0}
      /\ IsCut(video.parts, Len(video.segments), video.degree)
  BY DEF PartsInv, VideoInv
<1> QED
  BY <1>1, PartsFollow DEF Partition

\* m3u8_to_mp4.cpp:109-126: for any playlists and degrees, whatever becomes of the parts: they
\* cut the segments into pieces that follow one another, less than twice as
\* many as asked for.
THEOREM M3u8PartsFollow == M3u8Spec => []Partition
BY PartsInvCuts, InitPartsInv, StepPartsInv, PTL DEF M3u8Spec

----------------------------------------------------------------------------
(* Why the program dies. *)

\* A line that was taken up was read as what it is, or while it was being written.
ReadRight(last) ==
  \/ last.read \in {"badFormat", input[last.line].kind}
  \/ ~last.whole /\ input[last.line].kind = "badFormat"

\* What the line at hand was read as.
AtHand(kind) ==
  LET last == handled[Len(handled)]
  IN handled # <<>> /\ last.read = kind /\ ReadRight(last)

AtWork == {"fetch", "download", "combine", "clean"}
WorksOnGood == pc \in AtWork => AtHand("good")

DeathInv == LinesInv /\ WorksOnGood /\ DiesOnlyIf

\* A line that was taken up keeps its kind, whatever others write.
LEMMA KindStays ==
  ASSUME LinesInv, [M3u8Next]_m3u8Vars, ~TakeLine, NEW kind, AtHand(kind)
  PROVE  AtHand(kind)' /\ handled' = handled
<1> DEFINE last == handled[Len(handled)]
           n == last.line
<1>1. /\ handled # <<>> /\ last.read = kind /\ ReadRight(last)
      /\ n \in 1..Len(input) /\ input \in Seq(InputLine)
  BY DEF AtHand, LinesInv, ListTypes, Counted, ReadUpTo
<1>2. handled' = handled
  BY DEF M3u8Next, m3u8Vars, WriteLine, EndLine, TickOfFiles, SignalHandler, program, world,
    SkipLine, EndPass, Poll, TestStopping, FetchM3u8, NoTmpDir, DownloadPart, WaitForParts,
    Combine, CleanTmpDir, Work
<1>3. input'[n].kind = input[n].kind
  <2>1. CASE WriteLine
    <3> PICK line \in InputLine : input' = Append(input, line)
      BY <2>1 DEF WriteLine, LinesInv, ListTypes, InputLine
    <3> QED
      BY <1>1
  <2>2. CASE EndLine
    <3>1. input' = [input EXCEPT ![Len(input)].time = clock]
      BY <2>2 DEF EndLine
    <3>2. input[n] \in InputLine
      BY <1>1
    <3> QED
      BY <1>1, <3>1, <3>2 DEF InputLine
  <2>3. CASE UNCHANGED input
    BY <1>1, <2>3
  <2> QED
    BY <2>1, <2>2, <2>3 DEF M3u8Next, m3u8Vars, TickOfFiles, SignalHandler, world,
      TakeLine, SkipLine, EndPass, Poll, TestStopping, FetchM3u8, NoTmpDir, DownloadPart,
      WaitForParts, Combine, CleanTmpDir, Work
<1>4. handled'[Len(handled')] = last
  BY <1>2
<1> HIDE DEF last
<1>5. ReadRight(last)'
  BY <1>1, <1>3, <1>4 DEF ReadRight, last
<1> QED
  BY <1>1, <1>2, <1>4, <1>5 DEF AtHand, last

\* A line is fetched for only if it was read as a good one.
LEMMA TakesAsRead ==
  ASSUME LinesInv, TakeLine
  PROVE  /\ pc' \in AtWork => AtHand("good")'
         /\ pc' = "died" => AtHand("badNumber")'
<1> PICK kind \in ReadAs(next) :
      /\ handled' = Append(handled, [line |-> next, whole |-> IsWhole(next), read |-> kind])
      /\ pc' = CASE kind = "badFormat" -> "pass" [] kind = "badNumber" -> "died" [] OTHER -> "fetch"
  BY DEF TakeLine
<1> DEFINE line == [line |-> next, whole |-> IsWhole(next), read |-> kind]
<1>1. input' = input /\ kind \in InputKinds
  BY ReadKind DEF TakeLine, world, LinesInv
<1>2. handled' # <<>> /\ handled'[Len(handled')] = line
  <2>1. handled \in Seq(Handled)
    BY DEF LinesInv, ListTypes
  <2>2. line \in Handled /\ handled' = Append(handled, line)
    BY <1>1 DEF IsWhole, LinesInv, ListTypes, Handled
  <2> HIDE DEF line
  <2> QED
    BY <2>1, <2>2
<1>3. ReadRight(line)
  BY DEF ReadRight, ReadAs
<1>4. line.read = kind
  OBVIOUS
<1>5. (pc' \in AtWork => kind = "good") /\ (pc' = "died" => kind = "badNumber")
  BY <1>1 DEF InputKinds, AtWork
<1> HIDE DEF line
<1>6. ReadRight(handled[Len(handled)])'
  BY <1>1, <1>2, <1>3 DEF ReadRight
<1> QED
  BY <1>2, <1>4, <1>5, <1>6 DEF AtHand

\* A fetch is fatal only without segments, or with none at a time.
LEMMA FetchDies ==
  ASSUME VideoTypes, FetchM3u8, pc' = "died"
  PROVE  video'.degree = 0 \/ video'.segments = <<>>
<1> PICK p \in Playlists :
      LET segments == IF p = NoPlaylist THEN <<>> ELSE Segments(p)
          n == Len(segments)
      IN IF n = 0 \/ video.degree = 0
         THEN pc' = "died" /\ video' = [video EXCEPT !.segments = segments]
         ELSE pc' = "download"
  BY DEF FetchM3u8
<1> DEFINE segments == IF p = NoPlaylist THEN <<>> ELSE Segments(p)
<1>1. Len(segments) = 0 \/ video.degree = 0
  OBVIOUS
<1>2. video' = [video EXCEPT !.segments = segments]
  BY <1>1
<1>3. video'.degree = video.degree /\ video'.segments = segments
  <2> HIDE DEF segments
  <2> QED
    BY <1>2 DEF VideoTypes
<1>4. Len(segments) = 0 => segments = <<>>
  <2>1. CASE p = NoPlaylist
    BY <2>1
  <2>2. CASE p # NoPlaylist
    BY <2>2, SegmentsAreASeq
  <2> QED
    BY <2>1, <2>2
<1> QED
  BY <1>1, <1>3, <1>4

THEOREM StepDeathInv ==
  ASSUME DeathInv, PartsInv, [M3u8Next]_m3u8Vars
  PROVE  DeathInv'
<1> USE DEF DeathInv
<1>1. LinesInv'
  BY StepLinesInv
<1>2. CASE TakeLine
  <2>1. (pc' \in AtWork => AtHand("good")') /\ (pc' = "died" => AtHand("badNumber")')
    BY <1>2, TakesAsRead
  <2>2. ASSUME pc' = "died" PROVE DiesOnlyIf'
    BY <2>1, <2>2 DEF AtHand, ReadRight, DiesOnlyIf, Dies
  <2> QED
    BY <1>1, <2>1, <2>2 DEF WorksOnGood, DiesOnlyIf
<1>3. CASE FetchM3u8 \/ NoTmpDir \/ CleanTmpDir
  <2>1. pc \in AtWork
    BY <1>3 DEF FetchM3u8, NoTmpDir, CleanTmpDir, AtWork
  <2>2. AtHand("good")'
    BY <1>3, <2>1, KindStays DEF WorksOnGood, FetchM3u8, NoTmpDir, CleanTmpDir, TakeLine, HasLine
  <2>3. pc' = "died" => video'.degree = 0 \/ video'.segments = <<>> \/ video'.refused
    BY <1>3, FetchDies, RefusalKeeps DEF NoTmpDir, CleanTmpDir, PartsInv
  <2>4. ASSUME pc' = "died" PROVE DiesOnlyIf'
    BY <2>2, <2>3, <2>4 DEF AtHand, ReadRight, DiesOnlyIf, Dies
  <2> QED
    BY <1>1, <2>2, <2>4 DEF WorksOnGood, DiesOnlyIf
<1>4. CASE ~TakeLine /\ ~FetchM3u8 /\ ~NoTmpDir /\ ~CleanTmpDir
  <2>1. pc' \in AtWork => pc \in AtWork
    BY <1>4 DEF M3u8Next, m3u8Vars, WriteLine, EndLine, TickOfFiles, SignalHandler, program,
      world, SkipLine, HasLine, EndPass, Poll, TestStopping, DownloadPart, WaitForParts,
      Combine, Work, AtWork
  <2>2. pc' = "died" => pc = "died" /\ UNCHANGED video
    BY <1>4 DEF M3u8Next, m3u8Vars, WriteLine, EndLine, TickOfFiles, SignalHandler, program,
      world, SkipLine, HasLine, EndPass, Poll, TestStopping, DownloadPart, WaitForParts,
      Combine, Work
  <2>3. WorksOnGood'
    BY <1>4, <2>1, KindStays DEF WorksOnGood
  <2>4. ASSUME pc' = "died" PROVE DiesOnlyIf'
    <3>1. PICK kind \in {"good", "badNumber"} : AtHand(kind) /\
            (kind = "good" => video.degree = 0 \/ video.segments = <<>> \/ video.refused)
      BY <2>2, <2>4 DEF DiesOnlyIf, Dies, AtHand, ReadRight
    <3>2. AtHand(kind)' /\ UNCHANGED video
      BY <1>4, <2>2, <2>4, <3>1, KindStays
    <3>3. \/ kind = "badNumber"
          \/ kind = "good" /\ (video'.degree = 0 \/ video'.segments = <<>> \/ video'.refused)
      BY <3>1, <3>2
    <3> QED
      BY <3>2, <3>3 DEF AtHand, ReadRight, DiesOnlyIf, Dies
  <2>5. DiesOnlyIf'
    BY <2>4 DEF DiesOnlyIf
  <2> QED
    BY <1>1, <2>3, <2>5
<1> QED
  BY <1>2, <1>3, <1>4

\* m3u8_to_mp4.cpp:109-126, 178-204, 252-290: for any file, playlists and degrees, however the
\* file is written meanwhile: the program dies only at the line it took up last,
\* for one of the four reasons; and when that line is not what it was read as, it
\* has too many fields and was read while it was still being written.
THEOREM M3u8DiesOnlyIf == M3u8Spec => []DiesOnlyIf
<1>1. M3u8Init => DeathInv /\ PartsInv /\ FetchFirst
  <2> SUFFICES ASSUME M3u8Init PROVE DeathInv
    BY InitPartsInv
  <2>1. pc = "pass"
    BY DEF M3u8Init
  <2> QED
    BY <2>1, InitLinesInv DEF DeathInv, WorksOnGood, AtWork, DiesOnlyIf
<1>2. DeathInv /\ PartsInv /\ FetchFirst /\ [M3u8Next]_m3u8Vars => (DeathInv /\ PartsInv /\ FetchFirst)'
  BY StepPartsInv, StepDeathInv
<1>3. DeathInv => DiesOnlyIf
  BY DEF DeathInv
<1> QED
  BY <1>1, <1>2, <1>3, PTL DEF M3u8Spec

----------------------------------------------------------------------------
(* What is joined. *)

\* There is a least number in every set of them that has one.
LEMMA SmallestExists ==
  ASSUME NEW S \in SUBSET Nat, S # {}
  PROVE  \E m \in S : \A k \in S : m <= k
<1> DEFINE Less == OpToRel(<, Nat)
<1>1. IsWellFoundedOn(Less, Nat)
  BY NatLessThanWellFounded
<1>2. PICK m \in S : \A k \in S : <<k, m>> \notin Less
  <2> HIDE DEF Less
  <2> QED BY <1>1, WFMin
<1>3. \A k \in S : ~ (k < m)
  BY <1>2 DEF OpToRel
<1> QED BY <1>3

\* What holds at one number and goes on from each to the next.
LEMMA Upwards ==
  ASSUME NEW a \in Nat, NEW b \in Nat, NEW G, a \in G,
         \A k \in a .. b : k < b /\ k \in G => k + 1 \in G
  PROVE  \A k \in a .. b : k \in G
<1> DEFINE Out == {k \in a .. b : k \notin G}
<1> SUFFICES ASSUME Out # {} PROVE FALSE
  OBVIOUS
<1>1. PICK n \in Out : \A k \in Out : n <= k
  <2>1. Out \in SUBSET Nat
    OBVIOUS
  <2> HIDE DEF Out
  <2> QED BY <2>1, SmallestExists
<1>2. n # a /\ n - 1 \in a .. b /\ n - 1 < b /\ n \in Nat
  OBVIOUS
<1>3. n - 1 \in G
  BY <1>1, <1>2
<1>4. (n - 1) + 1 \in G
  BY <1>2, <1>3
<1> QED BY <1>2, <1>4

\* The recursion of FlattenSeq.
IsFlatten(f, seqs, n) ==
  f = [i \in 1 .. n |-> IF i = 1 THEN seqs[i] ELSE f[i - 1] \o seqs[i]]

LEMMA FlattenExists ==
  ASSUME NEW seqs, NEW N \in Nat \ {0}
  PROVE  \E f : IsFlatten(f, seqs, N)
<1> DEFINE G == {n \in Nat : \E f : IsFlatten(f, seqs, n)}
<1>1. 1 \in G
  <2> DEFINE f == [i \in 1 .. 1 |-> seqs[i]]
  <2>1. IsFlatten(f, seqs, 1)
    BY DEF IsFlatten
  <2> QED
    BY <2>1
<1>2. ASSUME NEW k \in 1 .. N, k < N, k \in G PROVE k + 1 \in G
  <2> PICK f : IsFlatten(f, seqs, k)
    BY <1>2
  <2> DEFINE g == [i \in 1 .. k + 1 |-> IF i = k + 1 THEN f[k] \o seqs[k + 1] ELSE f[i]]
  <2>1. \A i \in 1 .. k : f[i] = IF i = 1 THEN seqs[i] ELSE f[i - 1] \o seqs[i]
    BY DEF IsFlatten
  <2>2. \A i \in 1 .. k + 1 : g[i] = IF i = k + 1 THEN f[k] \o seqs[k + 1] ELSE f[i]
    OBVIOUS
  <2>3. \A i \in 1 .. k : g[i] = f[i]
    BY <2>2
  <2>4. ASSUME NEW i \in 1 .. k + 1
        PROVE  g[i] = IF i = 1 THEN seqs[i] ELSE g[i - 1] \o seqs[i]
    <3> HIDE DEF g
    <3>1. CASE i = k + 1
      <4>1. g[i - 1] = f[k]
        BY <2>3, <3>1
      <4> QED
        BY <2>2, <3>1, <4>1
    <3>2. CASE i # k + 1
      <4>1. i \in 1 .. k /\ (i # 1 => i - 1 \in 1 .. k)
        BY <3>2
      <4> QED
        BY <2>1, <2>3, <4>1
    <3> QED
      BY <3>1, <3>2
  <2>5. IsFlatten(g, seqs, k + 1)
    BY <2>4 DEF IsFlatten
  <2> QED
    BY <2>5
<1>3. \A k \in 1 .. N : k \in G
  <2> HIDE DEF G
  <2> QED
    BY <1>1, <1>2, Upwards
<1> QED
  BY <1>3

\* FlattenSeq appends the sequences one by one.
LEMMA FlattenSeqIs ==
  ASSUME NEW seqs, Len(seqs) \in Nat \ {0}
  PROVE  \E f : /\ FlattenSeq(seqs) = f[Len(seqs)] /\ f[1] = seqs[1]
                /\ \A k \in 1 .. Len(seqs) - 1 : f[k + 1] = f[k] \o seqs[k + 1]
<1> DEFINE N == Len(seqs)
           f == CHOOSE g : IsFlatten(g, seqs, N)
<1>1. IsFlatten(f, seqs, N)
  BY FlattenExists
<1>2. FlattenSeq(seqs) = f[N]
  BY DEF FlattenSeq, IsFlatten
<1> HIDE DEF f, N
<1>3. \A k \in 1 .. N : f[k] = IF k = 1 THEN seqs[k] ELSE f[k - 1] \o seqs[k]
  BY <1>1 DEF IsFlatten
<1>4. N \in Nat \ {0}
  BY DEF N
<1>5. f[1] = seqs[1]
  BY <1>3, <1>4
<1>6. ASSUME NEW k \in 1 .. N - 1 PROVE f[k + 1] = f[k] \o seqs[k + 1]
  <2>1. k + 1 \in 1 .. N /\ k + 1 # 1 /\ (k + 1) - 1 = k
    BY <1>4
  <2> QED
    BY <1>3, <2>1
<1> QED
  BY <1>2, <1>5, <1>6 DEF N

\* Those of a set of numbers that are not above n; how many they are.
Upto(S, n) == {r \in S : r <= n}

LEMMA UptoSize ==
  ASSUME NEW N \in Nat, NEW S \in SUBSET (1 .. N), NEW n \in Nat
  PROVE  IsFiniteSet(Upto(S, n)) /\ Cardinality(Upto(S, n)) \in Nat
<1>1. IsFiniteSet(1 .. N)
  BY FS_Interval
<1>2. Upto(S, n) \in SUBSET (1 .. N)
  BY DEF Upto
<1> QED
  BY <1>1, <1>2, FS_Subset, FS_CardinalityType

LEMMA UptoGrows ==
  ASSUME NEW N \in Nat, NEW S \in SUBSET (1 .. N), NEW n \in Nat, NEW m \in Nat, n <= m
  PROVE  /\ Cardinality(Upto(S, n)) <= Cardinality(Upto(S, m))
         /\ n \in S => Cardinality(Upto(S, n)) >= 1
         /\ (\A r \in n + 1 .. m : r \in S) =>
              Cardinality(Upto(S, m)) = Cardinality(Upto(S, n)) + (m - n)
         /\ (\A r \in n + 1 .. m : r \notin S) => Upto(S, m) = Upto(S, n)
<1> DEFINE a == Upto(S, n)
           b == Upto(S, m)
<1>0. /\ \A r \in S : r \in Nat
      /\ \A r \in Nat : r \in a <=> r \in S /\ r <= n
      /\ \A r \in Nat : r \in b <=> r \in S /\ r <= m
      /\ \A r : r \in a \/ r \in b => r \in S
  BY DEF Upto
<1>1. IsFiniteSet(a) /\ IsFiniteSet(b) /\ Cardinality(a) \in Nat /\ Cardinality(b) \in Nat
  BY UptoSize
<1>2. Cardinality(a) <= Cardinality(b)
  <2> HIDE DEF a, b
  <2>1. a \in SUBSET b
    <3> SUFFICES ASSUME NEW r \in a PROVE r \in b
      OBVIOUS
    <3>1. r \in S /\ r \in Nat
      BY <1>0
    <3> QED
      BY <1>0, <3>1
  <2> QED
    BY <1>1, <2>1, FS_Subset
<1>3. ASSUME n \in S PROVE Cardinality(a) >= 1
  <2>1. n \in a
    BY <1>3 DEF Upto
  <2> HIDE DEF a
  <2> QED
    BY <1>1, <2>1, FS_EmptySet
<1>4. ASSUME \A r \in n + 1 .. m : r \in S PROVE Cardinality(b) = Cardinality(a) + (m - n)
  <2> DEFINE c == n + 1 .. m
  <2>1. b = a \cup c /\ a \cap c = {}
    <3> HIDE DEF a, b
    <3>1. \A r \in Nat : r \in b <=> r \in a \/ r \in c
      BY <1>0, <1>4
    <3>2. \A r \in Nat : ~(r \in a /\ r \in c)
      BY <1>0
    <3>3. \A r \in c : r \in Nat
      OBVIOUS
    <3>4. \A r : r \in a \/ r \in b => r \in Nat
      BY <1>0
    <3> HIDE DEF c
    <3> QED
      BY <3>1, <3>2, <3>3, <3>4
  <2>2. IsFiniteSet(c) /\ Cardinality(c) = m - n
    <3>1. n + 1 \in Int /\ m \in Int
      OBVIOUS
    <3>2. IsFiniteSet(c) /\ Cardinality(c) = IF n + 1 > m THEN 0 ELSE m - (n + 1) + 1
      BY <3>1, FS_Interval
    <3> HIDE DEF c
    <3> QED
      BY <3>2
  <2> HIDE DEF a, b, c
  <2>3. Cardinality(a \cup c) = Cardinality(a) + Cardinality(c) - Cardinality(a \cap c)
    BY <1>1, <2>2, FS_Union
  <2> QED
    BY <1>1, <2>1, <2>2, <2>3, FS_EmptySet
<1>5. ASSUME \A r \in n + 1 .. m : r \notin S PROVE b = a
  <2>1. \A r \in S : r <= m <=> r <= n
    BY <1>5
  <2> QED
    BY <2>1 DEF Upto
<1> QED
  BY <1>2, <1>3, <1>4, <1>5

LEMMA SeqIs ==
  ASSUME NEW s, IsSeq(s)
  PROVE  s \in Seq(Values(s)) /\ Len(s) \in Nat /\ DOMAIN s = 1 .. Len(s)
<1> PICK n \in Nat : s = [k \in 1 .. n |-> s[k]]
  BY DEF IsSeq
<1>1. DOMAIN s = 1 .. n /\ \A k \in 1 .. n : s[k] \in Values(s)
  BY DEF Values
<1>2. s \in [1 .. n -> Values(s)]
  BY <1>1
<1> QED
  BY <1>2

\* The members of a sequence whose places are in a set, in their order, up to n.
IsJoin(out, s, kept, n) ==
  /\ out \in Seq(Values(s)) /\ Len(out) = Cardinality(Upto(kept, n))
  /\ \A r \in Upto(kept, n) : out[Cardinality(Upto(kept, r))] = s[r]

\* What a join of two sequences is.
LEMMA JoinOfTwo ==
  ASSUME NEW V, NEW s \in Seq(V), NEW t \in Seq(V)
  PROVE  s \o t \in Seq(V) /\ Len(s \o t) = Len(s) + Len(t)
OBVIOUS

\* A piece that is kept goes to the end ...
LEMMA KeepsPiece ==
  ASSUME NEW s, IsSeq(s), NEW kept \in SUBSET (1 .. Len(s)), NEW out,
         NEW n \in Nat, NEW m \in Nat, n <= m, m <= Len(s),
         IsJoin(out, s, kept, n), \A r \in n + 1 .. m : r \in kept
  PROVE  IsJoin(out \o SubSeq(s, n + 1, m), s, kept, m)
<1> DEFINE V == Values(s)
           piece == SubSeq(s, n + 1, m)
           c == Cardinality(Upto(kept, n))
           all == out \o piece
<1>1. s \in Seq(V) /\ Len(s) \in Nat
  BY SeqIs
<1>2. out \in Seq(V) /\ Len(out) = c /\ c \in Nat
  BY <1>1, UptoSize DEF IsJoin
<1> HIDE DEF V
<1>3. /\ piece \in Seq(V) /\ Len(piece) = m - n
      /\ \A i \in 1 .. m - n : piece[i] = s[n + i]
  BY <1>1
<1>4. Cardinality(Upto(kept, m)) = c + (m - n)
  BY <1>1, UptoGrows
<1> HIDE DEF piece, c
<1>5. all \in Seq(V) /\ Len(all) = Cardinality(Upto(kept, m))
  <2>1. all \in Seq(V) /\ Len(all) = Len(out) + Len(piece)
    BY <1>2, <1>3, JoinOfTwo
  <2> HIDE DEF all
  <2> QED
    BY <1>2, <1>3, <1>4, <2>1
<1>6. ASSUME NEW r \in Upto(kept, m) PROVE all[Cardinality(Upto(kept, r))] = s[r]
  <2> DEFINE i == Cardinality(Upto(kept, r))
  <2>1. r \in kept /\ r \in Nat /\ r <= m
    BY <1>1 DEF Upto
  <2>2. CASE r <= n
    <3>1. i \in Nat /\ i >= 1 /\ i <= c
      BY <1>1, <2>1, <2>2, UptoSize, UptoGrows DEF c
    <3>2. out[i] = s[r]
      BY <2>1, <2>2 DEF IsJoin, Upto
    <3> HIDE DEF i
    <3> QED
      BY <1>2, <1>3, <3>1, <3>2 DEF i
  <2>3. CASE r > n
    <3>1. n <= r /\ \A q \in n + 1 .. r : q \in kept
      BY <2>1, <2>3
    <3>2. i = c + (r - n)
      BY <1>1, <2>1, <3>1, UptoGrows DEF c
    <3>3. piece[r - n] = s[r]
      <4>1. r - n \in 1 .. m - n /\ n + (r - n) = r
        BY <2>1, <2>3
      <4> QED
        BY <1>3, <4>1
    <3> HIDE DEF i
    <3>4. i \in c + 1 .. c + (m - n) /\ i - c = r - n
      BY <1>2, <2>1, <2>3, <3>2
    <3>5. all[i] = piece[i - c]
      BY <1>2, <1>3, <3>4
    <3> QED
      BY <3>3, <3>4, <3>5 DEF i
  <2>4. r <= n \/ r > n
    BY <2>1
  <2> HIDE DEF i, all
  <2> QED
    BY <2>2, <2>3, <2>4
<1> QED
  BY <1>5, <1>6 DEF IsJoin, V, piece

\* ... and one that is not leaves everything as it is.
LEMMA DropsPiece ==
  ASSUME NEW s, IsSeq(s), NEW kept \in SUBSET (1 .. Len(s)), NEW out,
         NEW n \in Nat, NEW m \in Nat, n <= m,
         IsJoin(out, s, kept, n), \A r \in n + 1 .. m : r \notin kept
  PROVE  IsJoin(out \o <<>>, s, kept, m)
<1>1. out \o <<>> = out
  BY DEF IsJoin
<1>2. Upto(kept, m) = Upto(kept, n)
  BY SeqIs, UptoGrows
<1> QED
  BY <1>1, <1>2 DEF IsJoin

----------------------------------------------------------------------------
\* Parts that follow one another from the first segment to the last.
FollowOn(parts, s) ==
  /\ parts \in Seq(Part) /\ Len(parts) \in Nat \ {0}
  /\ parts[1].from = 1 /\ parts[Len(parts)].to = Len(s)
  /\ \A k \in 1 .. Len(parts) : parts[k].from <= parts[k].to
  /\ \A k \in 1 .. Len(parts) - 1 : parts[k + 1].from = parts[k].to + 1

\* Each ends before the next begins, and so before all later ones.
LEMMA PartIs ==
  ASSUME NEW parts, NEW s, FollowOn(parts, s), NEW k \in 1 .. Len(parts)
  PROVE  parts[k].from \in Nat /\ parts[k].to \in Nat
<1>1. parts[k] \in Part
  BY DEF FollowOn
<1> QED
  BY <1>1 DEF Part

LEMMA PartsApart ==
  ASSUME NEW parts, NEW s, FollowOn(parts, s), NEW j \in 1 .. Len(parts)
  PROVE  \A k \in j + 1 .. Len(parts) : parts[j].to < parts[k].from
<1> DEFINE G == {k \in Nat : parts[j].to < parts[k].from}
           N == Len(parts)
<1>1. \A k \in 1 .. N : parts[k].from \in Nat /\ parts[k].to \in Nat
  BY PartIs
<1>2. CASE j = N
  BY <1>2
<1>3. CASE j # N
  <2>1. N \in Nat /\ j + 1 \in Nat /\ j \in 1 .. N - 1 /\ j + 1 \in 1 .. N
    BY <1>3 DEF FollowOn
  <2>2. j + 1 \in G
    BY <1>1, <2>1 DEF FollowOn
  <2>3. ASSUME NEW k \in j + 1 .. N, k < N, k \in G PROVE k + 1 \in G
    <3>1. k \in 1 .. N - 1 /\ k \in 1 .. N /\ k + 1 \in 1 .. N
      BY <2>1, <2>3
    <3>2. parts[k + 1].from = parts[k].to + 1 /\ parts[k].from <= parts[k].to
      BY <3>1 DEF FollowOn
    <3>3. parts[j].to < parts[k].from
      BY <2>3
    <3> PICK a \in Nat, b \in Nat, c \in Nat, d \in Nat :
          a = parts[j].to /\ b = parts[k].from /\ c = parts[k].to /\ d = parts[k + 1].from
      BY <1>1, <3>1
    <3>4. d = c + 1 /\ a < b /\ b <= c
      BY <3>2, <3>3
    <3>5. a < d
      BY <3>4
    <3> QED
      BY <3>1, <3>5
  <2>4. \A k \in j + 1 .. N : k \in G
    <3> HIDE DEF G, N
    <3> QED
      BY <2>1, <2>2, <2>3, Upwards
  <2> QED
    BY <2>4
<1> QED
  BY <1>2, <1>3

\* Every part ends within the segments.
LEMMA PartsWithin ==
  ASSUME NEW parts, NEW s, FollowOn(parts, s), NEW k \in 1 .. Len(parts)
  PROVE  parts[k].to <= Len(s)
<1> DEFINE N == Len(parts)
<1>1. \A i \in 1 .. N : parts[i].from \in Nat /\ parts[i].to \in Nat
  BY PartIs
<1>2. N \in 1 .. N /\ parts[N].to = Len(s) /\ parts[N].from <= parts[N].to
  BY DEF FollowOn
<1>3. CASE k = N
  BY <1>1, <1>2, <1>3
<1>4. CASE k # N
  <2>1. N \in k + 1 .. N
    BY <1>4 DEF FollowOn
  <2>2. parts[k].to < parts[N].from
    BY <2>1, PartsApart
  <2> PICK a \in Nat, b \in Nat, c \in Nat : a = parts[k].to /\ b = parts[N].from /\ c = parts[N].to
    BY <1>1, <1>2
  <2>3. a <= c
    BY <1>2, <2>2
  <2> QED
    BY <1>2, <2>3
<1> QED
  BY <1>3, <1>4

\* A segment is kept or not with its part.
Failed(parts, s) ==
  {r \in DOMAIN s : \E k \in DOMAIN parts : /\ parts[k].status # "came"
                                            /\ r \in parts[k].from .. parts[k].to}

LEMMA KeptWithPart ==
  ASSUME NEW parts, NEW s, IsSeq(s), FollowOn(parts, s), NEW k \in 1 .. Len(parts),
         NEW r \in parts[k].from .. parts[k].to
  PROVE  r \in DOMAIN s /\ (r \in Failed(parts, s) <=> parts[k].status # "came")
<1> DEFINE N == Len(parts)
<1>1. /\ DOMAIN parts = 1 .. N
      /\ \A i \in 1 .. N : parts[i].from \in Nat /\ parts[i].to \in Nat
  BY PartIs DEF FollowOn
<1>2. parts[k].to <= Len(s) /\ parts[1].from = 1 /\ 1 \in 1 .. N
  BY PartsWithin DEF FollowOn
<1>3. 1 <= parts[k].from
  <2>1. CASE k = 1
    BY <1>2, <2>1
  <2>2. CASE k # 1
    <3>1. k \in 1 + 1 .. N
      BY <2>2
    <3>2. parts[1].to < parts[k].from
      BY <1>2, <3>1, PartsApart
    <3> QED
      BY <1>1, <1>2, <3>2
  <2> QED
    BY <2>1, <2>2
<1>4. r \in Nat /\ r \in DOMAIN s
  BY <1>1, <1>2, <1>3, SeqIs
<1>5. ASSUME NEW i \in 1 .. N, r \in parts[i].from .. parts[i].to PROVE i = k
  <2>1. ~(i < k)
    <3> SUFFICES ASSUME i < k PROVE FALSE
      OBVIOUS
    <3>1. k \in i + 1 .. N
      OBVIOUS
    <3>2. parts[i].to < parts[k].from
      BY <3>1, PartsApart
    <3> QED
      BY <1>1, <1>4, <1>5, <3>2
  <2>2. ~(k < i)
    <3> SUFFICES ASSUME k < i PROVE FALSE
      OBVIOUS
    <3>1. i \in k + 1 .. N
      OBVIOUS
    <3>2. parts[k].to < parts[i].from
      BY <3>1, PartsApart
    <3> QED
      BY <1>1, <1>4, <1>5, <3>2
  <2> QED
    BY <2>1, <2>2
<1> QED
  BY <1>1, <1>4, <1>5 DEF Failed

\* combine(): the pieces of the parts that came, one after the other, are the
\* segments that are kept.
LEMMA PiecesJoin ==
  ASSUME NEW parts, NEW s, IsSeq(s), FollowOn(parts, s), NEW pieces,
         DOMAIN pieces = DOMAIN parts, pieces = [k \in DOMAIN parts |-> pieces[k]],
         \A k \in DOMAIN parts :
           pieces[k] = IF parts[k].status = "came" THEN SubSeq(s, parts[k].from, parts[k].to) ELSE <<>>
  PROVE  IsJoin(FlattenSeq(pieces), s, DOMAIN s \ Failed(parts, s), Len(s))
<1> DEFINE N == Len(parts)
           kept == DOMAIN s \ Failed(parts, s)
<1>1. /\ N \in Nat \ {0} /\ DOMAIN parts = 1 .. N /\ Len(pieces) = N
      /\ \A i \in 1 .. N : parts[i].from \in Nat /\ parts[i].to \in Nat
  BY PartIs DEF FollowOn
<1>2. PICK f : /\ FlattenSeq(pieces) = f[N] /\ f[1] = pieces[1]
               /\ \A k \in 1 .. N - 1 : f[k + 1] = f[k] \o pieces[k + 1]
  <2>1. Len(pieces) \in Nat \ {0}
    BY <1>1
  <2>2. \E f : /\ FlattenSeq(pieces) = f[Len(pieces)] /\ f[1] = pieces[1]
               /\ \A k \in 1 .. Len(pieces) - 1 : f[k + 1] = f[k] \o pieces[k + 1]
    BY <2>1, FlattenSeqIs
  <2> HIDE DEF N
  <2> QED
    BY <1>1, <2>2
<1>3. /\ s \in Seq(Values(s)) /\ Len(s) \in Nat /\ DOMAIN s = 1 .. Len(s)
      /\ kept \in SUBSET (1 .. Len(s))
  BY SeqIs
<1>4. \A k \in 1 .. N : \A r \in parts[k].from .. parts[k].to : r \in kept <=> parts[k].status = "came"
  BY KeptWithPart
<1> HIDE DEF N, kept
<1>5. ASSUME NEW k \in 1 .. N, NEW n \in Nat, NEW out, n + 1 = parts[k].from,
             IsJoin(out, s, kept, n)
      PROVE  IsJoin(out \o pieces[k], s, kept, parts[k].to)
  <2> PICK m \in Nat : m = parts[k].to
    BY <1>1
  <2>1. n <= m /\ m <= Len(s)
    <3>1. m <= Len(s)
      BY PartsWithin DEF N
    <3>2. parts[k].from <= parts[k].to
      BY DEF FollowOn, N
    <3>3. n + 1 <= m
      BY <1>5, <3>2
    <3> QED
      BY <3>1, <3>3
  <2>2. CASE parts[k].status = "came"
    <3>1. \A r \in n + 1 .. m : r \in kept
      BY <1>4, <1>5, <2>2
    <3>2. pieces[k] = SubSeq(s, n + 1, m)
      BY <1>1, <1>5, <2>2
    <3>3. IsJoin(out \o SubSeq(s, n + 1, m), s, kept, m)
      BY <1>3, <1>5, <2>1, <3>1, KeepsPiece
    <3> QED
      BY <3>2, <3>3
  <2>3. CASE parts[k].status # "came"
    <3>1. \A r \in n + 1 .. m : r \notin kept
      BY <1>4, <1>5, <2>3
    <3>2. pieces[k] = <<>>
      BY <1>1, <2>3
    <3>3. IsJoin(out \o <<>>, s, kept, m)
      BY <1>3, <1>5, <2>1, <3>1, DropsPiece
    <3> QED
      BY <3>2, <3>3
  <2> QED
    BY <2>2, <2>3
<1> DEFINE G == {k \in 1 .. N : IsJoin(f[k], s, kept, parts[k].to)}
<1>6. 1 \in G
  <2>1. Upto(kept, 0) = {}
    BY <1>3 DEF Upto
  <2>2. IsJoin(<<>>, s, kept, 0)
    <3>1. Cardinality(Upto(kept, 0)) = 0
      BY <2>1, FS_EmptySet
    <3> QED
      BY <2>1, <3>1 DEF IsJoin
  <2>3. 1 \in 1 .. N /\ 0 + 1 = parts[1].from
    BY <1>1 DEF FollowOn, N
  <2>4. IsJoin(<<>> \o pieces[1], s, kept, parts[1].to)
    BY <1>5, <2>2, <2>3
  <2>5. pieces[1] \in Seq(Values(s))
    <3> PICK a \in Nat, b \in Nat : a = parts[1].from /\ b = parts[1].to
      BY <1>1, <2>3
    <3>1. pieces[1] = IF parts[1].status = "came" THEN SubSeq(s, a, b) ELSE <<>>
      BY <1>1, <2>3
    <3>2. b <= Len(s) /\ a = 1
      BY <2>3, PartsWithin DEF N
    <3>3. SubSeq(s, a, b) \in Seq(Values(s))
      BY <1>3, <3>2
    <3>4. <<>> \in Seq(Values(s))
      OBVIOUS
    <3> QED
      BY <3>1, <3>3, <3>4
  <2>6. <<>> \o pieces[1] = f[1]
    BY <1>2, <2>5
  <2> QED
    BY <2>3, <2>4, <2>6
<1>7. ASSUME NEW k \in 1 .. N, k < N, k \in G PROVE k + 1 \in G
  <2>1. k \in 1 .. N - 1 /\ k + 1 \in 1 .. N
    BY <1>1, <1>7
  <2> PICK n \in Nat : n = parts[k].to
    BY <1>1
  <2>2. n + 1 = parts[k + 1].from
    BY <2>1 DEF FollowOn, N
  <2>3. IsJoin(f[k] \o pieces[k + 1], s, kept, parts[k + 1].to)
    BY <1>5, <1>7, <2>1, <2>2
  <2>4. f[k + 1] = f[k] \o pieces[k + 1]
    BY <1>2, <2>1
  <2> QED
    BY <2>1, <2>3, <2>4
<1>8. N \in G
  <2>1. 1 \in Nat /\ N \in Nat /\ N \in 1 .. N
    BY <1>1
  <2> HIDE DEF G
  <2>2. \A k \in 1 .. N : k \in G
    BY <1>6, <1>7, <2>1, Upwards
  <2> QED
    BY <2>1, <2>2
<1>9. parts[N].to = Len(s)
  BY DEF FollowOn, N
<1> QED
  BY <1>2, <1>8, <1>9 DEF kept

----------------------------------------------------------------------------
\* The video at hand: a sequence of segments, and what combine() made of its parts.
JoinInv ==
  /\ IsSeq(video.segments)
  /\ pc = "clean" => video.output = <<>> \/ video.output = FlattenSeq(Pieces)

LEMMA NothingIsSeq == IsSeq(<<>>)
<1>1. <<>> = [k \in 1 .. 0 |-> <<>>[k]]
  OBVIOUS
<1> QED
  BY <1>1 DEF IsSeq

LEMMA InitJoinInv == M3u8Init => JoinInv
BY NothingIsSeq DEF M3u8Init, NoVideo, JoinInv

LEMMA StepJoinInv == PartsInv /\ JoinInv /\ [M3u8Next]_m3u8Vars => JoinInv'
<1> SUFFICES ASSUME PartsInv, JoinInv, [M3u8Next]_m3u8Vars PROVE JoinInv'
  OBVIOUS
<1>0. /\ IsSeq(video.segments)
      /\ video = [degree |-> video.degree, segments |-> video.segments,
                  parts |-> video.parts, output |-> video.output, refused |-> video.refused]
  BY DEF JoinInv, PartsInv, VideoTypes
<1>1. CASE UNCHANGED video /\ (UNCHANGED pc \/ pc' # "clean")
  BY <1>1 DEF JoinInv, Pieces, SegmentsOf
<1>2. CASE TakeLine \/ NoTmpDir \/ CleanTmpDir
  <2>1. pc' # "clean"
    <3>1. CASE TakeLine
      <4> PICK kind : pc' = CASE kind = "badFormat" -> "pass" [] kind = "badNumber" -> "died"
                            [] OTHER -> "fetch"
        BY <3>1 DEF TakeLine
      <4> QED
        OBVIOUS
    <3> QED
      BY <1>2, <3>1 DEF NoTmpDir, CleanTmpDir
  <2>2. IsSeq(video'.segments)
    <3>1. CASE TakeLine
      <4> PICK d : video' = [NoVideo EXCEPT !.degree = d]
        BY <3>1 DEF TakeLine
      <4>1. video'.segments = <<>>
        BY DEF NoVideo
      <4> QED
        BY <4>1, NothingIsSeq
    <3>2. CASE NoTmpDir \/ CleanTmpDir
      <4>1. video'.segments \in {<<>>, video.segments}
        BY <3>2, RefusalKeeps DEF NoTmpDir, CleanTmpDir, NoVideo
      <4> QED
        BY <1>0, <4>1, NothingIsSeq
    <3> QED
      BY <1>2, <3>1, <3>2
  <2> QED
    BY <2>1, <2>2 DEF JoinInv
<1>3. CASE FetchM3u8
  <2>1. pc' # "clean"
    BY <1>3 DEF FetchM3u8
  <2> PICK p \in Playlists :
        LET segments == IF p = NoPlaylist THEN <<>> ELSE Segments(p)
            n == Len(segments)
        IN IF n = 0 \/ video.degree = 0
           THEN pc' = "died" /\ video' = [video EXCEPT !.segments = segments]
           ELSE /\ pc' = "download"
                /\ video' = [video EXCEPT !.segments = segments, !.parts = PartsOf(n, video.degree)]
    BY <1>3 DEF FetchM3u8
  <2> DEFINE segments == IF p = NoPlaylist THEN <<>> ELSE Segments(p)
  <2>2. IsSeq(segments)
    BY SegmentsAreASeq, NothingIsSeq
  <2>3. video'.segments = segments
    <3> HIDE DEF segments
    <3>1. \/ video' = [video EXCEPT !.segments = segments]
          \/ video' = [video EXCEPT !.segments = segments,
                                    !.parts = PartsOf(Len(segments), video.degree)]
      BY DEF segments
    <3> QED
      BY <1>0, <3>1
  <2> HIDE DEF segments
  <2> QED
    BY <2>1, <2>2, <2>3 DEF JoinInv
<1>4. CASE DownloadPart
  <2>1. pc' # "clean"
    BY <1>4 DEF DownloadPart
  <2> PICK k \in DOMAIN video.parts, status \in {"came", "failed"} :
        video' = [video EXCEPT !.parts[k].status = status]
    BY <1>4 DEF DownloadPart
  <2>2. video'.segments = video.segments
    BY <1>0
  <2> QED
    BY <1>0, <2>1, <2>2 DEF JoinInv
<1>5. CASE Combine
  <2> PICK joined \in {<<>>, FlattenSeq(Pieces)} : video' = [video EXCEPT !.output = joined]
    BY <1>5 DEF Combine
  <2>1. /\ video'.segments = video.segments /\ video'.parts = video.parts
        /\ video'.output = joined
    BY <1>0
  <2>2. Pieces' = Pieces
    BY <2>1 DEF Pieces, SegmentsOf
  <2> HIDE DEF Pieces
  <2>3. video'.output = <<>> \/ video'.output = FlattenSeq(Pieces')
    BY <2>1, <2>2
  <2> QED
    BY <1>0, <2>1, <2>3 DEF JoinInv
<1>6. CASE ~(TakeLine \/ NoTmpDir \/ CleanTmpDir \/ FetchM3u8 \/ DownloadPart \/ Combine)
  <2>1. UNCHANGED video /\ (UNCHANGED pc \/ pc' # "clean")
    BY <1>6 DEF M3u8Next, m3u8Vars, program, WriteLine, EndLine, TickOfFiles, SignalHandler,
      SkipLine, EndPass, Poll, TestStopping, WaitForParts
  <2> QED
    BY <1>1, <2>1
<1> QED
  BY <1>2, <1>3, <1>4, <1>5, <1>6

\* What combine() made is the playlist without the parts that failed.
LEMMA WhatCameIsJoined == PartsInv /\ JoinInv => JoinsWhatCame
<1> SUFFICES ASSUME PartsInv, JoinInv, pc = "clean", video.output # <<>> PROVE JoinsWhatCame
  BY DEF JoinsWhatCame
<1> DEFINE s == video.segments
           kept == DOMAIN s \ Failed(video.parts, s)
<1>1. IsSeq(s) /\ video.output = FlattenSeq(Pieces)
  BY DEF JoinInv
<1>2. video.parts # <<>>
  <2> SUFFICES ASSUME video.parts = <<>> PROVE FALSE
    OBVIOUS
  <2>1. Pieces = <<>>
    BY DEF Pieces
  <2> HIDE DEF Pieces
  <2>2. Len(Pieces) = 0
    BY <2>1
  <2>3. FlattenSeq(Pieces) = Pieces
    BY <2>2 DEF FlattenSeq
  <2> QED
    BY <1>1, <2>1, <2>3
<1>3. FollowOn(video.parts, s)
  <2>1. /\ Len(s) \in Nat \ {0} /\ video.degree \in Nat \ {0}
        /\ IsCut(video.parts, Len(s), video.degree)
    BY <1>2 DEF PartsInv, VideoInv
  <2>2. video.parts \in Seq(Part)
    BY <2>1 DEF IsCut
  <2>3. Len(video.parts) \in Nat \ {0}
    BY <1>2, <2>2
  <2>4. Partition
    BY PartsInvCuts
  <2> QED
    BY <2>2, <2>3, <2>4 DEF FollowOn, Partition
<1>4. /\ Pieces = [k \in DOMAIN video.parts |-> Pieces[k]] /\ DOMAIN Pieces = DOMAIN video.parts
      /\ \A k \in DOMAIN video.parts :
           Pieces[k] = IF video.parts[k].status = "came"
                       THEN SubSeq(s, video.parts[k].from, video.parts[k].to) ELSE <<>>
  BY DEF Pieces, SegmentsOf
<1>5. IsJoin(video.output, s, kept, Len(s))
  <2> HIDE DEF s, Pieces
  <2> QED
    BY <1>1, <1>3, <1>4, PiecesJoin
<1>6. Upto(kept, Len(s)) = kept
  <2>1. \A r \in kept : r <= Len(s)
    BY <1>1, SeqIs
  <2> QED
    BY <2>1 DEF Upto
<1>7. /\ Len(video.output) = Cardinality(kept)
      /\ \A r \in kept : video.output[Cardinality(Upto(kept, r))] = s[r]
  BY <1>5, <1>6 DEF IsJoin
<1> QED
  BY <1>7 DEF JoinsWhatCame, Upto, Failed

\* m3u8_to_mp4.cpp:109-204: for any file, playlists and degrees of concurrency, whatever becomes
\* of the parts: they cut the playlist, what is joined is the playlist without the
\* parts that failed, segment by segment, and the program dies for no other than
\* the four reasons of DiesOnlyIf.
THEOREM M3u8WholeVideo == M3u8Spec => []WholeVideo
<1>1. M3u8Init => JoinInv /\ PartsInv /\ FetchFirst
  BY InitJoinInv, InitPartsInv
<1>2. /\ JoinInv /\ PartsInv /\ FetchFirst
      /\ [M3u8Next]_m3u8Vars
      => (JoinInv /\ PartsInv /\ FetchFirst)'
  BY StepJoinInv, StepPartsInv
<1>3. M3u8Spec => []JoinsWhatCame
  BY <1>1, <1>2, WhatCameIsJoined, PTL DEF M3u8Spec
<1>4. Partition /\ JoinsWhatCame /\ DiesOnlyIf => WholeVideo
  BY DEF WholeVideo
<1> QED
  BY <1>3, <1>4, M3u8PartsFollow, M3u8DiesOnlyIf, PTL

----------------------------------------------------------------------------
(* The scheduler: where the one event of a task is. *)

Queued(t) == \E e \in queue : e.task = t
QueuedOnce(t) == \A e, f \in queue : e.task = t /\ f.task = t => e = f

\* The interval tasks that a worker has in hand, or that wait for one.
HandHas(w, t) == hand[w] # NoEvent /\ hand[w].event.task = t
LineHas(n, t) == n \in DOMAIN jobs /\ jobs[n].task = t

\* The loop has its event, and unless one came meanwhile it is still queued.
SlotIsThere ==
  /\ loop \in {"pop", "early", "asleepUntil", "dispatch", "requeue"} => slot # NoEvent
  /\ loop \in {"pop", "early", "asleepUntil"} /\ ~changed => slot \in queue
OnlyIntervalsEmplace ==
  \A w \in Workers : JobAt(w, "emplace") => Kind[hand[w].event.task] = "interval"

\* An interval task has one job.
OneJob ==
  \A t \in Tasks : Kind[t] = "interval" =>
    /\ \A m, n \in DOMAIN jobs : LineHas(m, t) /\ LineHas(n, t) => m = n
    /\ \A v, w \in Workers : HandHas(v, t) /\ HandHas(w, t) => v = w
    /\ \A n \in DOMAIN jobs, w \in Workers : ~(LineHas(n, t) /\ HandHas(w, t))

\* A task is in one of the places where its next event can come from, and in
\* none before it is scheduled or after its job has thrown.
InOnePlace(t) ==
  /\ QueuedOnce(t)
  /\ ~(Queued(t) /\ WithLoop(t)) /\ ~(Queued(t) /\ WithJob(t)) /\ ~(WithLoop(t) /\ WithJob(t))
  /\ call[t] \in {"new", "emplace"} \/ t \in dropped => ~Queued(t) /\ ~WithLoop(t) /\ ~WithJob(t)
  /\ call[t] \in {"new", "emplace"} => t \notin dropped
  /\ call[t] \in {"notify", "done"} /\ Legal(t) /\ t \notin dropped =>
       Queued(t) \/ WithLoop(t) \/ WithJob(t)
OnePlaceEach == \A t \in Tasks : InOnePlace(t)

OneInv == SlotIsThere /\ OnlyIntervalsEmplace /\ OneJob /\ OnePlaceEach
EventInv == Sane => SchedTypeOK /\ OneInv

----------------------------------------------------------------------------
LEMMA WaitsAreInTime == \A t \in Tasks : NextWait(t) \in 0..Longest /\ Longest \in Nat
BY KindAssumption, TimeAssumption DEF NextWait, Longest

\* The first event of a task has copy number 0, the next one a number.
LEMMA AddedIsEvent ==
  ASSUME NEW t \in Tasks, queue \subseteq Event, ~Queued(t)
  PROVE  [wait |-> NextWait(t), task |-> t, copy |-> NewCopy(t)] \in Event
<1>1. EventsOf(t) = {}
  BY DEF EventsOf, Queued
<1>2. Cardinality({}) = 0
  BY FS_EmptySet
<1>3. NewCopy(t) \in Nat
  <2>1. NewCopy(t) = CHOOSE n \in 0..0 : \A e \in {} : e.copy # n
    BY <1>1, <1>2 DEF NewCopy
  <2>2. \E n \in 0..0 : \A e \in {} : e.copy # n
    OBVIOUS
  <2>3. NewCopy(t) \in 0..0
    BY <2>1, <2>2
  <2> QED
    BY <2>3
<1> QED
  BY <1>3, WaitsAreInTime DEF Event

\* An insertion for a task with no event in the queue gives it one.
LEMMA AddedIsQueued ==
  ASSUME NEW t \in Tasks, SchedTypeOK, ~Queued(t), AddEvent(t)
  PROVE  /\ queue' \subseteq Event
         /\ \E e \in Event : e.task = t /\ e \notin queue /\ queue' = queue \cup {e}
<1> DEFINE e == [wait |-> NextWait(t), task |-> t, copy |-> NewCopy(t)]
<1>1. e \in Event
  BY AddedIsEvent DEF SchedTypeOK
<1>2. e.task = t /\ queue' = queue \cup {e}
  BY DEF AddEvent
<1>3. e \notin queue
  BY <1>2 DEF Queued
<1> HIDE DEF e
<1> QED
  BY <1>1, <1>2, <1>3 DEF SchedTypeOK

\* What the added event does to the tasks that are queued.
LEMMA AddedChanges ==
  ASSUME NEW t \in Tasks, SchedTypeOK, ~Queued(t), AddEvent(t)
  PROVE  /\ Queued(t)' /\ QueuedOnce(t)'
         /\ \A u \in Tasks \ {t} : /\ Queued(u)' = Queued(u)
                                   /\ QueuedOnce(u) => QueuedOnce(u)'
<1> PICK e \in Event : e.task = t /\ e \notin queue /\ queue' = queue \cup {e}
  BY AddedIsQueued
<1>1. Queued(t)' /\ QueuedOnce(t)'
  BY DEF Queued, QueuedOnce
<1>2. ASSUME NEW u \in Tasks \ {t} PROVE Queued(u)' = Queued(u) /\ (QueuedOnce(u) => QueuedOnce(u)')
  <2>1. Queued(u)' <=> Queued(u)
    BY DEF Queued
  <2>2. QueuedOnce(u) => QueuedOnce(u)'
    BY DEF QueuedOnce
  <2> QED
    BY <2>1, <2>2 DEF Queued
<1> QED
  BY <1>1, <1>2

----------------------------------------------------------------------------
\* A step that moves no event and no job keeps the places, if the loop neither
\* gets nor gives away its event.
LEMMA PlacesStay ==
  ASSUME UNCHANGED <<queue, jobs, hand>>, NEW t \in Tasks
  PROVE  /\ Queued(t)' = Queued(t) /\ QueuedOnce(t)' = QueuedOnce(t)
         /\ WithJob(t)' = WithJob(t)
         /\ loop \notin {"dispatch", "requeue"} => ~WithLoop(t)
         /\ loop' \notin {"dispatch", "requeue"} => ~WithLoop(t)'
         /\ UNCHANGED <<loop, slot>> => WithLoop(t)' = WithLoop(t)
<1>1. Queued(t)' = Queued(t)
  BY DEF Queued
<1>2. QueuedOnce(t)' = QueuedOnce(t)
  BY DEF QueuedOnce
<1>3. WithJob(t)' = WithJob(t)
  BY DEF WithJob
<1>4. /\ loop \notin {"dispatch", "requeue"} => ~WithLoop(t)
      /\ loop' \notin {"dispatch", "requeue"} => ~WithLoop(t)'
  BY DEF WithLoop
<1>5. UNCHANGED <<loop, slot>> => WithLoop(t)' = WithLoop(t)
  BY DEF WithLoop
<1> QED
  BY <1>1, <1>2, <1>3, <1>4, <1>5

LEMMA JobsStay ==
  ASSUME UNCHANGED <<jobs, hand>>
  PROVE  /\ OneJob => OneJob'
         /\ OnlyIntervalsEmplace => OnlyIntervalsEmplace'
BY DEF OneJob, LineHas, HandHas, OnlyIntervalsEmplace, JobAt

\* An undefined step ends it.
LEMMA ErrKeeps ==
  ASSUME EventInv, NEW what \in Mishaps \ {"none"}, Err(what)
  PROVE  EventInv'
BY DEF EventInv, Err, SchedTypeOK, Sane

\* A step that only moves the loop, neither to where it has an event nor from
\* where it gives one away.
LEMMA GoToKeeps ==
  ASSUME EventInv, Sane, NEW goal, GoTo(goal), loop \notin {"dispatch", "requeue"},
         \/ goal \in {"test", "look", "empty", "asleep", "top", "end", "gone"}
         \/ goal \in {"early", "asleepUntil", "pop"} /\ loop \in {"early", "asleepUntil", "pop"}
  PROVE  EventInv'
<1> USE DEF EventInv, OneInv, GoTo
<1>1. SchedTypeOK'
  BY DEF SchedTypeOK
<1>2. SlotIsThere'
  BY DEF SlotIsThere
<1>3. OnePlaceEach'
  BY PlacesStay DEF OnePlaceEach, InOnePlace
<1> QED
  BY <1>1, <1>2, <1>3, JobsStay

\* The queue holds no less for a call.
LEMMA ScheduleKeeps ==
  ASSUME EventInv, NEW t \in Tasks, Schedule(t)
  PROVE  EventInv'
<1>1. CASE Err("heap")
  BY <1>1, ErrKeeps DEF Mishaps
<1>2. CASE ~Err("heap")
  <2> USE <1>2 DEF EventInv, OneInv, Schedule, TouchHeap, Sane
  <2>1. SchedTypeOK'
    BY DEF SchedTypeOK
  <2>2. SlotIsThere'
    BY DEF SlotIsThere
  <2>3. OnePlaceEach'
    <3> SUFFICES ASSUME NEW u \in Tasks PROVE InOnePlace(u)'
      BY DEF OnePlaceEach
    <3>1. call'[u] \in {"new", "emplace"} => call[u] \in {"new", "emplace"}
      BY DEF SchedTypeOK
    <3>2. call'[u] \in {"notify", "done"} => call[u] \in {"notify", "done"}
      BY DEF SchedTypeOK
    <3>3. Legal(u)' = Legal(u) /\ (u \in dropped' <=> u \in dropped)
      BY DEF Legal
    <3> QED
      BY <3>1, <3>2, <3>3, PlacesStay DEF OnePlaceEach, InOnePlace
  <2> QED
    BY <2>1, <2>2, <2>3, JobsStay
<1> QED
  BY <1>1, <1>2

\* The first event of a task.
LEMMA EmplacedKeeps ==
  ASSUME EventInv, NEW t \in Tasks, Emplaced(t)
  PROVE  EventInv'
<1> USE DEF EventInv, OneInv, Emplaced, Sane
<1>1. ~Queued(t) /\ ~WithLoop(t) /\ ~WithJob(t)
  BY DEF OnePlaceEach, InOnePlace
<1>2. SchedTypeOK'
  BY <1>1, AddedIsQueued DEF SchedTypeOK
<1>3. SlotIsThere'
  BY DEF SlotIsThere
<1>4. OnePlaceEach'
  <2> SUFFICES ASSUME NEW u \in Tasks PROVE InOnePlace(u)'
    BY DEF OnePlaceEach
  <2>1. WithLoop(u)' = WithLoop(u)
    BY DEF WithLoop
  <2>2. WithJob(u)' = WithJob(u)
    BY DEF WithJob
  <2>3. CASE u = t
    <3>1. Queued(t)' /\ QueuedOnce(t)'
      BY <1>1, AddedChanges
    <3>2. call'[t] = "notify"
      BY DEF SchedTypeOK
    <3>3. t \notin dropped'
      BY DEF OnePlaceEach, InOnePlace
    <3> QED
      BY <1>1, <2>1, <2>2, <2>3, <3>1, <3>2, <3>3 DEF InOnePlace
  <2>4. CASE u # t
    <3>1. Queued(u)' = Queued(u) /\ (QueuedOnce(u) => QueuedOnce(u)')
      BY <1>1, <2>4, AddedChanges
    <3>2. call'[u] = call[u]
      BY <2>4 DEF SchedTypeOK
    <3>3. Legal(u)' = Legal(u) /\ (u \in dropped' <=> u \in dropped)
      BY DEF Legal
    <3> QED
      BY <2>1, <2>2, <3>1, <3>2, <3>3 DEF OnePlaceEach, InOnePlace
  <2> QED
    BY <2>3, <2>4
<1> QED
  BY <1>2, <1>3, <1>4, JobsStay

LEMMA NotifyKeeps ==
  ASSUME EventInv, NEW t \in Tasks, Notify(t)
  PROVE  EventInv'
<1> USE DEF EventInv, OneInv, Notify, Sane
<1>1. SchedTypeOK'
  BY DEF SchedTypeOK
<1>2. SlotIsThere'
  BY DEF SlotIsThere
<1>3. OnePlaceEach'
  <2> SUFFICES ASSUME NEW u \in Tasks PROVE InOnePlace(u)'
    BY DEF OnePlaceEach
  <2>1. (call'[u] \in {"new", "emplace"} => call[u] \in {"new", "emplace"})
        /\ (call'[u] \in {"notify", "done"} => call[u] \in {"notify", "done"})
    BY DEF SchedTypeOK
  <2>2. Legal(u)' = Legal(u) /\ (u \in dropped' <=> u \in dropped)
    BY DEF Legal
  <2>3. WithLoop(u)' = WithLoop(u)
    BY DEF WithLoop
  <2> QED
    BY <2>1, <2>2, <2>3, PlacesStay DEF OnePlaceEach, InOnePlace
<1> QED
  BY <1>1, <1>2, <1>3, JobsStay

----------------------------------------------------------------------------
\* Steps of the loop that leave the queue alone.
LEMMA LoopGoesKeeps ==
  ASSUME EventInv, TestStop \/ TestEmpty \/ Doze \/ SpuriousWakeUp \/ DozeUntil \/ TimeOut
                   \/ SpuriousWakeUpUntil
  PROVE  EventInv'
<1>1. CASE TestEmpty
  <2>1. CASE Err("heap")
    BY <2>1, ErrKeeps DEF Mishaps
  <2>2. CASE ~Err("heap")
    BY <1>1, <2>2, GoToKeeps DEF TestEmpty, TouchHeap
  <2> QED
    BY <2>1, <2>2
<1>2. CASE TestStop \/ Doze \/ DozeUntil \/ TimeOut \/ SpuriousWakeUpUntil
  BY <1>2, GoToKeeps DEF TestStop, Doze, DozeUntil, TimeOut, SpuriousWakeUpUntil
<1>3. CASE SpuriousWakeUp
  <2> USE <1>3 DEF EventInv, OneInv, SpuriousWakeUp
  <2>1. SchedTypeOK'
    BY DEF SchedTypeOK
  <2>2. SlotIsThere'
    BY DEF SlotIsThere
  <2>3. OnePlaceEach'
    BY PlacesStay DEF OnePlaceEach, InOnePlace, Legal
  <2> QED
    BY <2>1, <2>2, <2>3, JobsStay
<1> QED
  BY <1>1, <1>2, <1>3

LEMMA CopyTopKeeps ==
  ASSUME EventInv, CopyTop
  PROVE  EventInv'
<1>1. CASE Err("heap") \/ Err("empty")
  BY <1>1, ErrKeeps DEF Mishaps
<1>2. CASE ~(Err("heap") \/ Err("empty"))
  <2> PICK e \in Earliest :
        /\ slot' = e /\ changed' = FALSE
        /\ loop' = (IF e.wait = 0 THEN "pop" ELSE "early")
        /\ UNCHANGED <<queue, call, jobs, hand, ran, dropped, stop, error, missed>>
    BY <1>2 DEF CopyTop, TouchHeap
  <2>1. Sane /\ loop = "top"
    BY DEF CopyTop, TouchHeap
  <2> USE <2>1 DEF EventInv, OneInv, Sane
  <2>2. e \in queue
    BY DEF Earliest
  <2>3. e \in Event
    BY <2>2 DEF SchedTypeOK
  <2>4. SchedTypeOK'
    BY <2>3 DEF SchedTypeOK
  <2>5. SlotIsThere'
    BY <2>2, <2>3, NoEventAssumption DEF SlotIsThere
  <2>6. OnePlaceEach'
    BY PlacesStay DEF OnePlaceEach, InOnePlace, Legal
  <2> QED
    BY <2>4, <2>5, <2>6, JobsStay
<1> QED
  BY <1>1, <1>2

\* What is popped is what was copied: its task goes from the queue to the loop.
LEMMA PopKeeps ==
  ASSUME EventInv, Pop
  PROVE  EventInv'
<1>1. CASE Err("heap")
  BY <1>1, ErrKeeps DEF Mishaps
<1>2. CASE ~Err("heap")
  <2> PICK e \in IF changed THEN Earliest ELSE {slot} :
        /\ queue' = queue \ {e}
        /\ error' = (IF e = slot THEN "none" ELSE "mixed")
        /\ loop' = "dispatch"
        /\ UNCHANGED <<call, slot, changed, jobs, hand, ran, dropped, stop, missed>>
    BY <1>2 DEF Pop, TouchHeap
  <2>1. Sane /\ loop = "pop" /\ InHeap = {}
    BY <1>2 DEF Pop, TouchHeap
  <2> USE <2>1 DEF EventInv, OneInv
  <2>2. SchedTypeOK'
    BY DEF SchedTypeOK, Mishaps
  <2>3. CASE e # slot
    BY <2>2, <2>3 DEF Sane
  <2>4. CASE e = slot
    <3>1. slot \in queue /\ slot \in Event
      BY <2>4 DEF Earliest, SlotIsThere, SchedTypeOK
    <3>2. SlotIsThere'
      BY DEF SlotIsThere
    <3>3. OnePlaceEach'
      <4> SUFFICES ASSUME NEW u \in Tasks PROVE InOnePlace(u)'
        BY DEF OnePlaceEach
      <4>1. InOnePlace(u) /\ ~WithLoop(u)
        BY DEF OnePlaceEach, WithLoop
      <4>2. WithJob(u)' = WithJob(u)
        BY DEF WithJob
      <4>3. WithLoop(u)' <=> slot.task = u
        BY DEF WithLoop
      <4>4. QueuedOnce(u)'
        BY <4>1 DEF InOnePlace, QueuedOnce
      <4>5. CASE slot.task = u
        <5>1. Queued(u) /\ ~Queued(u)'
          BY <2>4, <3>1, <4>1, <4>5 DEF Queued, InOnePlace, QueuedOnce
        <5> QED
          BY <4>1, <4>2, <4>3, <4>4, <4>5, <5>1 DEF InOnePlace
      <4>6. CASE slot.task # u
        <5>1. Queued(u)' = Queued(u)
          <6>1. Queued(u)' <=> Queued(u)
            BY <2>4, <4>6 DEF Queued
          <6> QED
            BY <6>1 DEF Queued
        <5>2. Legal(u)' = Legal(u) /\ (u \in dropped' <=> u \in dropped)
          BY DEF Legal
        <5> QED
          BY <4>1, <4>2, <4>3, <4>4, <4>6, <5>1, <5>2 DEF InOnePlace
      <4> QED
        BY <4>5, <4>6
    <3> QED
      BY <2>2, <3>2, <3>3, JobsStay
  <2> QED
    BY <2>3, <2>4
<1> QED
  BY <1>1, <1>2

\* An interval task goes from the loop to its job, another stays with the loop.
LEMMA DispatchKeeps ==
  ASSUME EventInv, Dispatch
  PROVE  EventInv'
<1> USE DEF EventInv, OneInv
<1>1. Sane /\ OneJob /\ loop = "dispatch" /\ slot \in Event /\ jobs \in Seq(Event)
  BY DEF Dispatch, SchedTypeOK, SlotIsThere
<1>2. jobs' \in Seq(Event) /\ jobs' = Append(jobs, slot)
  BY <1>1 DEF Dispatch
<1> PICK last : /\ last \notin DOMAIN jobs /\ DOMAIN jobs' = DOMAIN jobs \cup {last}
                /\ \A n \in DOMAIN jobs : jobs'[n] = jobs[n]
                /\ jobs'[last] = slot
  <2>1. /\ DOMAIN jobs = 1..Len(jobs) /\ DOMAIN jobs' = 1..Len(jobs) + 1
        /\ Len(jobs) \in Nat
        /\ \A n \in DOMAIN jobs : jobs'[n] = jobs[n]
        /\ jobs'[Len(jobs) + 1] = slot
    BY <1>1, <1>2
  <2> QED
    BY <2>1
<1>4. SchedTypeOK'
  BY <1>1, <1>2 DEF Dispatch, SchedTypeOK
<1>5. SlotIsThere' /\ OnlyIntervalsEmplace'
  BY <1>1 DEF Dispatch, SlotIsThere, OnlyIntervalsEmplace, JobAt
<1>6. ASSUME NEW u \in Tasks
      PROVE  /\ \A n \in DOMAIN jobs : LineHas(n, u)' <=> LineHas(n, u)
             /\ LineHas(last, u)' <=> slot.task = u
             /\ \A w \in Workers : HandHas(w, u)' <=> HandHas(w, u)
  <2>1. \A n \in DOMAIN jobs : LineHas(n, u)' <=> LineHas(n, u)
    BY DEF LineHas
  <2>2. LineHas(last, u)' <=> slot.task = u
    BY DEF LineHas
  <2>3. \A w \in Workers : HandHas(w, u)' <=> HandHas(w, u)
    BY DEF Dispatch, HandHas
  <2> QED
    BY <2>1, <2>2, <2>3
<1>7. ASSUME NEW u \in Tasks
      PROVE  /\ WithJob(u) <=> /\ Kind[u] = "interval"
                               /\ \/ \E n \in DOMAIN jobs : LineHas(n, u)
                                  \/ \E w \in Workers : HandHas(w, u)
             /\ WithJob(u)' <=> /\ Kind[u] = "interval"
                                /\ \/ \E n \in DOMAIN jobs' : LineHas(n, u)'
                                   \/ \E w \in Workers : HandHas(w, u)'
  BY DEF WithJob, LineHas, HandHas
<1>8. ASSUME NEW u \in Tasks
      PROVE  WithJob(u)' <=> WithJob(u) \/ (Kind[u] = "interval" /\ slot.task = u)
  BY <1>6, <1>7, Zenon
<1>9. OneJob'
  <2> SUFFICES ASSUME NEW u \in Tasks, Kind[u] = "interval"
               PROVE  /\ \A m, n \in DOMAIN jobs' : LineHas(m, u)' /\ LineHas(n, u)' => m = n
                      /\ \A v, w \in Workers : HandHas(v, u)' /\ HandHas(w, u)' => v = w
                      /\ \A n \in DOMAIN jobs', w \in Workers : ~(LineHas(n, u)' /\ HandHas(w, u)')
    BY DEF OneJob
  <2>1. slot.task = u => ~WithJob(u)
    BY <1>1 DEF OnePlaceEach, InOnePlace, WithLoop
  <2>2. slot.task = u => /\ \A n \in DOMAIN jobs : ~LineHas(n, u)
                         /\ \A w \in Workers : ~HandHas(w, u)
    BY <2>1, <1>7, Zenon
  <2>3. \A v, w \in Workers : HandHas(v, u)' /\ HandHas(w, u)' => v = w
    BY <1>1, <1>6, Zenon DEF OneJob
  <2>4. ASSUME NEW m \in DOMAIN jobs', NEW n \in DOMAIN jobs', LineHas(m, u)', LineHas(n, u)'
        PROVE  m = n
    <3>1. CASE m \in DOMAIN jobs /\ n \in DOMAIN jobs
      BY <1>1, <2>4, <3>1, <1>6, Zenon DEF OneJob
    <3>2. CASE m = last
      BY <2>4, <3>2, <2>2, <1>6, Zenon
    <3>3. CASE n = last
      BY <2>4, <3>3, <2>2, <1>6, Zenon
    <3> QED
      BY <3>1, <3>2, <3>3
  <2>5. ASSUME NEW n \in DOMAIN jobs', NEW w \in Workers PROVE ~(LineHas(n, u)' /\ HandHas(w, u)')
    <3>1. CASE n \in DOMAIN jobs
      BY <1>1, <3>1, <1>6, Zenon DEF OneJob
    <3>2. CASE n = last
      BY <3>2, <2>2, <1>6, Zenon
    <3> QED
      BY <3>1, <3>2
  <2> QED
    BY <2>3, <2>4, <2>5, Zenon
<1>10. OnePlaceEach'
  <2> SUFFICES ASSUME NEW u \in Tasks PROVE InOnePlace(u)'
    BY DEF OnePlaceEach
  <2>1. Queued(u)' = Queued(u) /\ QueuedOnce(u)' = QueuedOnce(u)
    BY DEF Dispatch, Queued, QueuedOnce
  <2>2. WithLoop(u) <=> slot.task = u
    BY <1>1 DEF WithLoop
  <2>3. WithLoop(u)' <=> Kind[u] # "interval" /\ slot.task = u
    BY DEF WithLoop, Dispatch
  <2>4. UNCHANGED <<Legal(u), call, dropped>>
    BY DEF Legal, Dispatch
  <2> QED
    BY <1>1, <1>8, <2>1, <2>2, <2>3, <2>4, Zenon DEF OnePlaceEach, InOnePlace
<1> QED
  BY <1>4, <1>5, <1>9, <1>10

\* What the loop schedules goes back into the queue; a cron that cannot be read
\* is in no place from then on.
LEMMA RequeueKeeps ==
  ASSUME EventInv, Requeue
  PROVE  EventInv'
<1>1. CASE Err("heap")
  BY <1>1, ErrKeeps DEF Mishaps
<1>2. CASE ~Err("heap")
  <2> USE DEF EventInv, OneInv
  <2>1. Sane /\ loop = "requeue" /\ SchedTypeOK
    BY <1>2 DEF Requeue, TouchHeap
  <2>2. slot \in Event /\ slot.task \in Tasks
    BY <2>1 DEF SchedTypeOK, SlotIsThere, Event
  <2> DEFINE back == RequeuedByLoop(slot.task) /\ Legal(slot.task)
  <2>3. CASE back
    <3>1. /\ AddEvent(slot.task) /\ changed' = TRUE /\ loop' = "end"
          /\ UNCHANGED <<call, slot, jobs, hand, ran, dropped, stop, error, missed>>
      BY <1>2, <2>3 DEF Requeue, TouchHeap
    <3>2. WithLoop(slot.task) /\ ~Queued(slot.task)
      BY <2>1, <2>2, <2>3 DEF OnePlaceEach, InOnePlace, WithLoop, RequeuedByLoop
    <3>3. SchedTypeOK'
      BY <2>1, <2>2, <3>1, <3>2, AddedIsQueued DEF SchedTypeOK
    <3>4. SlotIsThere'
      BY <3>1 DEF SlotIsThere
    <3>5. OnePlaceEach'
      <4> SUFFICES ASSUME NEW u \in Tasks PROVE InOnePlace(u)'
        BY DEF OnePlaceEach
      <4>1. ~WithLoop(u)'
        BY <3>1 DEF WithLoop
      <4>2. WithJob(u)' = WithJob(u)
        BY <3>1 DEF WithJob
      <4>3. InOnePlace(u)
        BY <2>1 DEF OnePlaceEach
      <4>4. UNCHANGED <<call, dropped, Legal(u)>>
        BY <3>1 DEF Legal
      <4>5. CASE u = slot.task
        <5>1. Queued(u)' /\ QueuedOnce(u)'
          BY <2>1, <2>2, <3>1, <3>2, <4>5, AddedChanges
        <5> QED
          BY <3>2, <4>1, <4>2, <4>3, <4>4, <4>5, <5>1, Zenon DEF InOnePlace
      <4>6. CASE u # slot.task
        <5>1. Queued(u)' = Queued(u) /\ (QueuedOnce(u) => QueuedOnce(u)')
          BY <2>1, <2>2, <3>1, <3>2, <4>6, AddedChanges
        <5>2. ~WithLoop(u)
          BY <4>6 DEF WithLoop
        <5> QED
          BY <4>1, <4>2, <4>3, <4>4, <5>1, <5>2, Zenon DEF InOnePlace
      <4> QED
        BY <4>5, <4>6
    <3> QED
      BY <3>1, <3>3, <3>4, <3>5, JobsStay, <2>1
  <2>4. CASE ~back
    <3>1. GoTo("end")
      BY <1>2, <2>4 DEF Requeue
    <3>2. SchedTypeOK' /\ SlotIsThere'
      BY <2>1, <3>1 DEF GoTo, SchedTypeOK, SlotIsThere
    <3>3. OnePlaceEach'
      <4> SUFFICES ASSUME NEW u \in Tasks PROVE InOnePlace(u)'
        BY DEF OnePlaceEach
      <4>1. ~WithLoop(u)'
        BY <3>1 DEF WithLoop, GoTo
      <4>2. WithLoop(u) => ~Legal(u)
        BY <2>1, <2>4 DEF WithLoop, RequeuedByLoop
      <4>3. InOnePlace(u)
        BY <2>1 DEF OnePlaceEach
      <4>4. UNCHANGED <<call, dropped, Legal(u), queue, jobs, hand>>
        BY <3>1 DEF GoTo, Legal
      <4>5. Queued(u)' = Queued(u) /\ QueuedOnce(u)' = QueuedOnce(u) /\ WithJob(u)' = WithJob(u)
        BY <4>4, PlacesStay
      <4> QED
        BY <4>1, <4>2, <4>3, <4>4, <4>5, Zenon DEF InOnePlace
    <3> QED
      BY <2>1, <3>1, <3>2, <3>3, JobsStay DEF GoTo
  <2> QED
    BY <2>3, <2>4
<1> QED
  BY <1>1, <1>2

\* What leaves the events, the jobs and the position of the loop as they are.
LEMMA OthersKeep ==
  ASSUME EventInv, EndRound \/ Stop \/ StopReturn
  PROVE  EventInv'
<1> USE DEF EventInv, OneInv, EndRound, Stop, StopReturn
<1>1. SchedTypeOK' /\ Sane
  BY DEF SchedTypeOK
<1>2. SlotIsThere'
  BY <1>1 DEF SlotIsThere
<1>3. OnePlaceEach'
  <2> SUFFICES ASSUME NEW u \in Tasks PROVE InOnePlace(u)'
    BY DEF OnePlaceEach
  <2>1. UNCHANGED <<call, dropped, Legal(u), queue, jobs, hand>>
    BY DEF Legal
  <2>2. WithLoop(u)' <=> WithLoop(u)
    BY DEF WithLoop
  <2>3. InOnePlace(u)
    BY <1>1 DEF OnePlaceEach
  <2>4. Queued(u)' = Queued(u) /\ QueuedOnce(u)' = QueuedOnce(u) /\ WithJob(u)' = WithJob(u)
    BY <2>1, PlacesStay
  <2> QED
    BY <2>1, <2>2, <2>3, <2>4, Zenon DEF InOnePlace
<1> QED
  BY <1>1, <1>2, <1>3, JobsStay

\* A worker takes the first job.
LEMMA BeginJobKeeps ==
  ASSUME EventInv, NEW w \in Workers, BeginJob(w)
  PROVE  EventInv'
<1> USE DEF EventInv, OneInv
<1>1. Sane /\ OneJob /\ jobs \in Seq(Event) /\ jobs # <<>> /\ hand[w] = NoEvent
  BY DEF BeginJob, SchedTypeOK
<1>2. /\ Head(jobs) \in Event /\ jobs[1] = Head(jobs) /\ 1 \in DOMAIN jobs
      /\ Tail(jobs) \in Seq(Event)
      /\ DOMAIN Tail(jobs) = 1..Len(jobs) - 1 /\ DOMAIN jobs = 1..Len(jobs)
      /\ \A n \in 1..Len(jobs) - 1 : Tail(jobs)[n] = jobs[n + 1]
      /\ Len(jobs) \in Nat \ {0}
  BY <1>1
<1> DEFINE job == [event |-> Head(jobs), at |-> "exec"]
<1>3. job \in Job /\ job # NoEvent
  BY <1>2, NoEventAssumption DEF Job, Steps
<1>4. hand' = [hand EXCEPT ![w] = job] /\ jobs' = Tail(jobs)
  BY DEF BeginJob
<1>5. SchedTypeOK'
  BY <1>2, <1>3, <1>4 DEF BeginJob, SchedTypeOK
<1>6. hand \in [Workers -> Job \cup {NoEvent}]
  BY <1>1 DEF SchedTypeOK
<1>7. hand'[w] = job /\ \A v \in Workers \ {w} : hand'[v] = hand[v]
  BY <1>4, <1>6
<1>8. SlotIsThere' /\ OnlyIntervalsEmplace'
  BY <1>1, <1>7 DEF BeginJob, SlotIsThere, OnlyIntervalsEmplace, JobAt
<1>9. ASSUME NEW u \in Tasks
      PROVE  /\ HandHas(w, u)' <=> LineHas(1, u)
             /\ \A v \in Workers \ {w} : HandHas(v, u)' <=> HandHas(v, u)
             /\ \A n \in 1..Len(jobs) - 1 : LineHas(n, u)' <=> LineHas(n + 1, u)
             /\ ~HandHas(w, u)
  <2>1. HandHas(w, u)' <=> LineHas(1, u)
    BY <1>2, <1>3, <1>7 DEF HandHas, LineHas
  <2>2. \A v \in Workers \ {w} : HandHas(v, u)' <=> HandHas(v, u)
    BY <1>7 DEF HandHas
  <2>3. ASSUME NEW n \in 1..Len(jobs) - 1 PROVE LineHas(n, u)' <=> LineHas(n + 1, u)
    BY <1>2, <1>4 DEF LineHas
  <2>4. ~HandHas(w, u)
    BY <1>1 DEF HandHas
  <2> QED
    BY <2>1, <2>2, <2>3, <2>4, Zenon
<1>10. DOMAIN jobs' = 1..Len(jobs) - 1
  BY <1>2, <1>4
<1>11. \A n \in DOMAIN jobs : n = 1 \/ \E m \in DOMAIN jobs' : n = m + 1
  <2> SUFFICES ASSUME NEW n \in 1..Len(jobs), n # 1 PROVE \E m \in 1..Len(jobs) - 1 : n = m + 1
    BY <1>2, <1>10
  <2> n - 1 \in 1..Len(jobs) - 1 /\ n = (n - 1) + 1
    BY <1>2
  <2> QED
    OBVIOUS
<1>12. \A m \in DOMAIN jobs' : m + 1 \in DOMAIN jobs /\ m + 1 # 1 /\ m \in Int
  BY <1>2, <1>10
<1>13. \A m, n \in DOMAIN jobs' : m + 1 = n + 1 => m = n
  BY <1>12
<1>14. OneJob'
  <2> SUFFICES ASSUME NEW u \in Tasks, Kind[u] = "interval"
               PROVE  /\ \A m, n \in DOMAIN jobs' : LineHas(m, u)' /\ LineHas(n, u)' => m = n
                      /\ \A v, x \in Workers : HandHas(v, u)' /\ HandHas(x, u)' => v = x
                      /\ \A n \in DOMAIN jobs', v \in Workers : ~(LineHas(n, u)' /\ HandHas(v, u)')
    BY DEF OneJob
  <2>1. /\ \A m, n \in DOMAIN jobs : LineHas(m, u) /\ LineHas(n, u) => m = n
        /\ \A v, x \in Workers : HandHas(v, u) /\ HandHas(x, u) => v = x
        /\ \A n \in DOMAIN jobs, v \in Workers : ~(LineHas(n, u) /\ HandHas(v, u))
    BY <1>1 DEF OneJob
  <2>2. \A m, n \in DOMAIN jobs' : LineHas(m, u)' /\ LineHas(n, u)' => m = n
    <3> SUFFICES ASSUME NEW m \in DOMAIN jobs', NEW n \in DOMAIN jobs', LineHas(m, u)', LineHas(n, u)'
                 PROVE  m = n
      OBVIOUS
    <3>1. LineHas(m + 1, u) /\ LineHas(n + 1, u)
      BY <1>9, <1>10, Zenon
    <3>2. m + 1 = n + 1
      BY <1>12, <2>1, <3>1, Zenon
    <3> QED
      BY <1>13, <3>2, Zenon
  <2>3. \A v, x \in Workers : HandHas(v, u)' /\ HandHas(x, u)' => v = x
    <3> SUFFICES ASSUME NEW v \in Workers, NEW x \in Workers, HandHas(v, u)', HandHas(x, u)'
                 PROVE  v = x
      OBVIOUS
    <3>1. ~(v = w /\ x # w) /\ ~(v # w /\ x = w)
      BY <1>2, <1>9, <2>1, Zenon
    <3> QED
      BY <1>9, <2>1, <3>1, Zenon
  <2>4. ASSUME NEW n \in DOMAIN jobs', NEW v \in Workers, LineHas(n, u)', HandHas(v, u)'
        PROVE  FALSE
    <3>1. n + 1 \in DOMAIN jobs /\ n + 1 # 1 /\ LineHas(n + 1, u)
      BY <1>9, <1>10, <1>12, <2>4, Zenon
    <3>2. CASE v = w
      BY <1>2, <1>9, <2>1, <2>4, <3>1, <3>2, Zenon
    <3>3. CASE v # w
      BY <1>9, <2>1, <2>4, <3>1, <3>3, Zenon
    <3> QED
      BY <3>2, <3>3
  <2> QED
    BY <2>2, <2>3, <2>4, Zenon
<1>15. ASSUME NEW u \in Tasks PROVE WithJob(u)' <=> WithJob(u)
  <2>1. /\ WithJob(u) <=> /\ Kind[u] = "interval"
                          /\ \/ \E n \in DOMAIN jobs : LineHas(n, u)
                             \/ \E v \in Workers : HandHas(v, u)
        /\ WithJob(u)' <=> /\ Kind[u] = "interval"
                           /\ \/ \E n \in DOMAIN jobs' : LineHas(n, u)'
                              \/ \E v \in Workers : HandHas(v, u)'
    BY DEF WithJob, LineHas, HandHas
  <2>2. ASSUME NEW n \in DOMAIN jobs, LineHas(n, u)
        PROVE  (\E m \in DOMAIN jobs' : LineHas(m, u)') \/ HandHas(w, u)'
    BY <1>9, <1>10, <1>11, <2>2, Zenon
  <2>3. ASSUME NEW v \in Workers, HandHas(v, u) PROVE HandHas(v, u)'
    BY <1>9, <2>3, Zenon
  <2>4. ASSUME NEW n \in DOMAIN jobs', LineHas(n, u)' PROVE \E m \in DOMAIN jobs : LineHas(m, u)
    BY <1>9, <1>10, <1>12, <2>4, Zenon
  <2>5. ASSUME NEW v \in Workers, HandHas(v, u)'
        PROVE  HandHas(v, u) \/ \E m \in DOMAIN jobs : LineHas(m, u)
    BY <1>2, <1>9, <2>5, Zenon
  <2> QED
    BY <2>1, <2>2, <2>3, <2>4, <2>5, Zenon
<1>16. OnePlaceEach'
  <2> SUFFICES ASSUME NEW u \in Tasks PROVE InOnePlace(u)'
    BY DEF OnePlaceEach
  <2>1. InOnePlace(u)
    BY <1>1 DEF OnePlaceEach
  <2>2. Queued(u)' = Queued(u) /\ QueuedOnce(u)' = QueuedOnce(u)
    BY DEF BeginJob, Queued, QueuedOnce
  <2>3. WithLoop(u)' <=> WithLoop(u)
    BY DEF BeginJob, WithLoop
  <2>4. UNCHANGED <<Legal(u), call, dropped>>
    BY DEF Legal, BeginJob
  <2> QED
    BY <1>15, <2>1, <2>2, <2>3, <2>4, Zenon DEF InOnePlace
<1> QED
  BY <1>5, <1>8, <1>14, <1>16

\* An undefined step of a job: it runs the event of another, or none.
LEMMA MixedKeeps ==
  ASSUME error' # "none"
  PROVE  EventInv'
BY DEF EventInv, Sane

LEMMA ExecKeeps ==
  ASSUME EventInv, NEW w \in Workers, Exec(w)
  PROVE  EventInv'
<1>1. CASE Err("gone")
  BY <1>1, ErrKeeps DEF Mishaps
<1>2. CASE ~Err("gone")
  <2> USE DEF EventInv, OneInv
  <2>1. /\ Sane /\ JobAt(w, "exec") /\ slot # NoEvent
        /\ ran' = ran \cup {slot.task}
        /\ error' = (IF SlotIsOther(w) THEN "mixed" ELSE "none")
        /\ hand' = [hand EXCEPT ![w].at = "next"]
        /\ UNCHANGED <<queue, call, loop, slot, changed, jobs, dropped, stop, missed>>
    BY <1>2 DEF Exec
  <2>2. hand[w] \in Job /\ hand \in [Workers -> Job \cup {NoEvent}]
    BY <2>1 DEF SchedTypeOK, JobAt
  <2>3. [hand[w] EXCEPT !.at = "next"] \in Job
    BY <2>2 DEF Job, Steps
  <2>4. SchedTypeOK'
    BY <2>1, <2>2, <2>3 DEF SchedTypeOK, Event, Mishaps
  <2>5. \A v \in Workers : /\ hand'[v] = NoEvent <=> hand[v] = NoEvent
                           /\ hand[v] # NoEvent => hand'[v].event = hand[v].event
                           /\ v # w => hand'[v] = hand[v]
    BY <2>1, <2>2, <2>3, NoEventAssumption DEF Job
  <2>6. SlotIsThere'
    BY <2>1 DEF SlotIsThere
  <2>7. OnlyIntervalsEmplace'
    <3>1. hand'[w].at = "next"
      BY <2>1, <2>2 DEF Job
    <3> QED
      BY <2>1, <2>5, <3>1 DEF OnlyIntervalsEmplace, JobAt
  <2>8. \A v \in Workers, u \in Tasks : HandHas(v, u)' <=> HandHas(v, u)
    BY <2>5 DEF HandHas
  <2>9. OneJob'
    <3>1. \A n, u : LineHas(n, u)' <=> LineHas(n, u)
      BY <2>1 DEF LineHas
    <3> QED
      BY <2>1, <2>8, <3>1, Zenon DEF OneJob
  <2>10. OnePlaceEach'
    <3> SUFFICES ASSUME NEW u \in Tasks PROVE InOnePlace(u)'
      BY DEF OnePlaceEach
    <3>1. InOnePlace(u)
      BY <2>1 DEF OnePlaceEach
    <3>2. Queued(u)' = Queued(u) /\ QueuedOnce(u)' = QueuedOnce(u)
      BY <2>1 DEF Queued, QueuedOnce
    <3>3. WithLoop(u)' <=> WithLoop(u)
      BY <2>1 DEF WithLoop
    <3>4. WithJob(u)' <=> WithJob(u)
      BY <2>1, <2>5 DEF WithJob
    <3>5. UNCHANGED <<Legal(u), call, dropped>>
      BY <2>1 DEF Legal
    <3> QED
      BY <3>1, <3>2, <3>3, <3>4, <3>5, Zenon DEF InOnePlace
  <2> QED
    BY <2>4, <2>6, <2>7, <2>9, <2>10
<1> QED
  BY <1>1, <1>2

\* A job that leaves a worker's hands: of another task, or one that is put back
\* into the queue.
LEMMA LeavesHand ==
  ASSUME SchedTypeOK, OneJob, NEW w \in Workers, hand[w] # NoEvent,
         hand' = [hand EXCEPT ![w] = NoEvent], UNCHANGED jobs
  PROVE  /\ OneJob'
         /\ OnlyIntervalsEmplace => OnlyIntervalsEmplace'
         /\ \A u \in Tasks : u # hand[w].event.task => WithJob(u)' = WithJob(u)
         /\ \A u \in Tasks : u = hand[w].event.task => ~WithJob(u)'
         /\ \A u \in Tasks : Kind[u] # "interval" => ~WithJob(u) /\ ~WithJob(u)'
<1>1. hand'[w] = NoEvent /\ \A v \in Workers \ {w} : hand'[v] = hand[v]
  BY DEF SchedTypeOK
<1>2. \A u \in Tasks : ~HandHas(w, u)' /\ (HandHas(w, u) <=> u = hand[w].event.task)
  BY <1>1 DEF HandHas
<1>3. \A u \in Tasks, v \in Workers \ {w} : HandHas(v, u)' <=> HandHas(v, u)
  BY <1>1 DEF HandHas
<1>4. \A n, u : LineHas(n, u)' <=> LineHas(n, u)
  BY DEF LineHas
<1>5. OneJob'
  BY <1>2, <1>3, <1>4, Zenon DEF OneJob
<1>6. OnlyIntervalsEmplace => OnlyIntervalsEmplace'
  BY <1>1 DEF OnlyIntervalsEmplace, JobAt
<1>7. \A u \in Tasks : WithJob(u) <=> /\ Kind[u] = "interval"
                                      /\ \/ \E n \in DOMAIN jobs : LineHas(n, u)
                                         \/ \E v \in Workers : HandHas(v, u)
  BY DEF WithJob, LineHas, HandHas
<1>8. \A u \in Tasks : WithJob(u)' <=> /\ Kind[u] = "interval"
                                       /\ \/ \E n \in DOMAIN jobs : LineHas(n, u)'
                                          \/ \E v \in Workers : HandHas(v, u)'
  BY DEF WithJob, LineHas, HandHas
<1>9. ASSUME NEW u \in Tasks, u # hand[w].event.task PROVE WithJob(u)' <=> WithJob(u)
  BY <1>2, <1>3, <1>4, <1>7, <1>8, <1>9, Zenon
<1>10. ASSUME NEW u \in Tasks, u = hand[w].event.task PROVE ~WithJob(u)'
  <2> SUFFICES ASSUME Kind[u] = "interval"
               PROVE  /\ \A n \in DOMAIN jobs : ~LineHas(n, u)'
                      /\ \A v \in Workers : ~HandHas(v, u)'
    BY <1>8, Zenon
  <2>1. HandHas(w, u)
    BY <1>2, <1>10
  <2>2. \A n \in DOMAIN jobs : ~LineHas(n, u)
    BY <2>1, Zenon DEF OneJob
  <2>3. \A v \in Workers \ {w} : ~HandHas(v, u)
    BY <2>1, Zenon DEF OneJob
  <2> QED
    BY <1>2, <1>3, <1>4, <2>2, <2>3, Zenon
<1>11. \A u \in Tasks : Kind[u] # "interval" => ~WithJob(u) /\ ~WithJob(u)'
  BY <1>7, <1>8, Zenon
<1>12. \A u \in Tasks : u # hand[w].event.task => WithJob(u)' = WithJob(u)
  BY <1>9 DEF WithJob
<1> QED
  BY <1>5, <1>6, <1>10, <1>11, <1>12

\* A job that throws leaves the event of its task nowhere, if the loop has not put it back.
LEMMA ExecThrowsKeeps ==
  ASSUME EventInv, NEW w \in Workers, ExecThrows(w)
  PROVE  EventInv'
<1> USE DEF EventInv, OneInv
<1>1. /\ Sane /\ JobAt(w, "exec") /\ slot # NoEvent
      /\ dropped' = dropped \cup {t \in {slot.task} : Kind[t] = "interval"}
      /\ error' = (IF SlotIsOther(w) THEN "mixed" ELSE "none")
      /\ hand' = [hand EXCEPT ![w] = NoEvent]
      /\ UNCHANGED <<queue, call, loop, slot, changed, jobs, ran, stop, missed>>
  BY DEF ExecThrows
<1>2. CASE SlotIsOther(w)
  BY <1>1, <1>2, MixedKeeps
<1>3. CASE ~SlotIsOther(w)
  <2>1. slot.task = hand[w].event.task /\ hand[w] # NoEvent /\ slot.task \in Tasks
    BY <1>1, <1>3 DEF SlotIsOther, JobAt, SchedTypeOK, Event
  <2>2. SchedTypeOK'
    BY <1>1, <2>1 DEF SchedTypeOK, Mishaps
  <2>3. SlotIsThere'
    BY <1>1 DEF SlotIsThere
  <2>4. /\ OneJob' /\ OnlyIntervalsEmplace'
        /\ \A u \in Tasks : u # slot.task => WithJob(u)' = WithJob(u)
        /\ \A u \in Tasks : u = slot.task => ~WithJob(u)'
        /\ \A u \in Tasks : Kind[u] # "interval" => ~WithJob(u) /\ ~WithJob(u)'
    BY <1>1, <2>1, LeavesHand
  <2>5. OnePlaceEach'
    <3> SUFFICES ASSUME NEW u \in Tasks PROVE InOnePlace(u)'
      BY DEF OnePlaceEach
    <3>1. InOnePlace(u)
      BY <1>1 DEF OnePlaceEach
    <3>2. Queued(u)' = Queued(u) /\ QueuedOnce(u)' = QueuedOnce(u)
      BY <1>1 DEF Queued, QueuedOnce
    <3>3. WithLoop(u)' <=> WithLoop(u)
      BY <1>1 DEF WithLoop
    <3>4. UNCHANGED <<Legal(u), call>>
      BY <1>1 DEF Legal
    <3>5. CASE u = slot.task /\ Kind[u] = "interval"
      <4>1. WithJob(u)
        BY <1>1, <2>1, <3>5 DEF WithJob
      <4>2. ~WithJob(u)' /\ u \in dropped'
        BY <1>1, <2>4, <3>5
      <4> QED
        BY <3>1, <3>2, <3>3, <3>4, <4>1, <4>2, Zenon DEF InOnePlace
    <3>6. CASE ~(u = slot.task /\ Kind[u] = "interval")
      <4>1. (WithJob(u)' <=> WithJob(u)) /\ (u \in dropped' <=> u \in dropped)
        BY <1>1, <2>4, <3>6
      <4> QED
        BY <3>1, <3>2, <3>3, <3>4, <4>1, Zenon DEF InOnePlace
    <3> QED
      BY <3>5, <3>6
  <2> QED
    BY <2>2, <2>3, <2>4, <2>5
<1> QED
  BY <1>2, <1>3

LEMMA ExecDiesKeeps ==
  ASSUME EventInv, NEW w \in Workers, ExecDies(w)
  PROVE  EventInv'
BY ErrKeeps DEF ExecDies, Mishaps

\* Where a job inserts, nobody else does; a task of another kind is done.
LEMMA NextOfJobKeeps ==
  ASSUME EventInv, NEW w \in Workers, NextOfJob(w)
  PROVE  EventInv'
<1>1. CASE Err("gone") \/ Err("heap")
  BY <1>1, ErrKeeps DEF Mishaps
<1>2. CASE ~(Err("gone") \/ Err("heap"))
  <2> USE DEF EventInv, OneInv
  <2>1. /\ Sane /\ JobAt(w, "next") /\ slot # NoEvent
        /\ error' = (IF SlotIsOther(w) THEN "mixed" ELSE "none")
        /\ hand' = [hand EXCEPT ![w] = IF Kind[slot.task] = "interval"
                                       THEN [@ EXCEPT !.at = "emplace"] ELSE NoEvent]
        /\ UNCHANGED <<queue, call, loop, slot, changed, jobs, ran, dropped, stop, missed>>
    BY <1>2 DEF NextOfJob
  <2>2. hand[w] \in Job /\ hand[w] # NoEvent /\ hand \in [Workers -> Job \cup {NoEvent}]
    BY <2>1 DEF SchedTypeOK, JobAt
  <2>3. [hand[w] EXCEPT !.at = "emplace"] \in Job
    BY <2>2 DEF Job, Steps
  <2>4. SchedTypeOK'
    BY <2>1, <2>2, <2>3 DEF SchedTypeOK, Mishaps
  <2>5. CASE SlotIsOther(w)
    BY <2>1, <2>5, MixedKeeps
  <2>6. CASE ~SlotIsOther(w)
    <3>1. slot.task = hand[w].event.task
      BY <2>6 DEF SlotIsOther
    <3>2. SlotIsThere'
      BY <2>1 DEF SlotIsThere
    <3>3. /\ OneJob' /\ OnlyIntervalsEmplace'
          /\ \A u \in Tasks : WithJob(u)' <=> WithJob(u)
      <4>1. CASE Kind[slot.task] = "interval"
        <5>1. \A v \in Workers : /\ hand'[v] = NoEvent <=> hand[v] = NoEvent
                                 /\ hand[v] # NoEvent => hand'[v].event = hand[v].event
                                 /\ v # w => hand'[v] = hand[v]
          BY <2>1, <2>2, <2>3, <4>1, NoEventAssumption DEF Job
        <5>2. \A v \in Workers, u \in Tasks : HandHas(v, u)' <=> HandHas(v, u)
          BY <5>1 DEF HandHas
        <5>3. \A n, u : LineHas(n, u)' <=> LineHas(n, u)
          BY <2>1 DEF LineHas
        <5>4. OneJob'
          BY <2>1, <5>2, <5>3, Zenon DEF OneJob
        <5>5. OnlyIntervalsEmplace'
          BY <2>1, <2>2, <3>1, <4>1, <5>1 DEF OnlyIntervalsEmplace, JobAt
        <5>6. \A u \in Tasks : WithJob(u)' <=> WithJob(u)
          BY <2>1, <5>1 DEF WithJob
        <5> QED
          BY <5>4, <5>5, <5>6
      <4>2. CASE Kind[slot.task] # "interval"
        <5>1. hand' = [hand EXCEPT ![w] = NoEvent]
          BY <2>1, <4>2
        <5>2. /\ OneJob'
              /\ OnlyIntervalsEmplace => OnlyIntervalsEmplace'
              /\ \A u \in Tasks : u # hand[w].event.task => WithJob(u)' = WithJob(u)
              /\ \A u \in Tasks : Kind[u] # "interval" => ~WithJob(u) /\ ~WithJob(u)'
          BY <2>1, <2>2, <5>1, LeavesHand
        <5> QED
          BY <2>1, <3>1, <4>2, <5>2, Zenon
      <4> QED
        BY <4>1, <4>2
    <3>4. OnePlaceEach'
      <4> SUFFICES ASSUME NEW u \in Tasks PROVE InOnePlace(u)'
        BY DEF OnePlaceEach
      <4>1. InOnePlace(u)
        BY <2>1 DEF OnePlaceEach
      <4>2. Queued(u)' = Queued(u) /\ QueuedOnce(u)' = QueuedOnce(u)
        BY <2>1 DEF Queued, QueuedOnce
      <4>3. WithLoop(u)' <=> WithLoop(u)
        BY <2>1 DEF WithLoop
      <4>4. UNCHANGED <<Legal(u), call, dropped>>
        BY <2>1 DEF Legal
      <4> QED
        BY <3>3, <4>1, <4>2, <4>3, <4>4, Zenon DEF InOnePlace
    <3> QED
      BY <2>4, <3>2, <3>3, <3>4
  <2> QED
    BY <2>5, <2>6
<1> QED
  BY <1>1, <1>2

\* The event of an interval task goes from its job into the queue.
LEMMA EmplacedByJobKeeps ==
  ASSUME EventInv, NEW w \in Workers, EmplacedByJob(w)
  PROVE  EventInv'
<1>1. CASE Err("gone")
  BY <1>1, ErrKeeps DEF Mishaps
<1>2. CASE ~Err("gone")
  <2> USE DEF EventInv, OneInv
  <2>1. /\ Sane /\ JobAt(w, "emplace") /\ slot # NoEvent
        /\ AddEvent(slot.task) /\ changed' = TRUE
        /\ error' = (IF SlotIsOther(w) THEN "mixed" ELSE "none")
        /\ hand' = [hand EXCEPT ![w] = NoEvent]
        /\ UNCHANGED <<call, loop, slot, jobs, ran, dropped, stop, missed>>
    BY <1>2 DEF EmplacedByJob
  <2>2. hand[w] # NoEvent
    BY <2>1 DEF JobAt
  <2>3. slot.task \in Tasks
    BY <2>1 DEF SchedTypeOK, Event
  <2>4. CASE SlotIsOther(w)
    BY <2>1, <2>4 DEF Sane
  <2>5. CASE ~SlotIsOther(w)
    <3>1. slot.task = hand[w].event.task /\ Kind[slot.task] = "interval"
      BY <2>1, <2>5 DEF SlotIsOther, OnlyIntervalsEmplace
    <3>2. WithJob(slot.task)
      BY <2>2, <3>1 DEF WithJob
    <3>3. ~Queued(slot.task) /\ ~WithLoop(slot.task)
      BY <2>1, <2>3, <3>2 DEF OnePlaceEach, InOnePlace
    <3>4. SchedTypeOK'
      BY <2>1, <2>3, <3>3, AddedIsQueued DEF SchedTypeOK, Mishaps
    <3>5. SlotIsThere'
      BY <2>1 DEF SlotIsThere
    <3>6. /\ OneJob' /\ OnlyIntervalsEmplace'
          /\ \A u \in Tasks : u # slot.task => WithJob(u)' = WithJob(u)
          /\ \A u \in Tasks : u = slot.task => ~WithJob(u)'
      BY <2>1, <2>2, <2>3, <3>1, LeavesHand
    <3>7. OnePlaceEach'
      <4> SUFFICES ASSUME NEW u \in Tasks PROVE InOnePlace(u)'
        BY DEF OnePlaceEach
      <4>1. InOnePlace(u)
        BY <2>1 DEF OnePlaceEach
      <4>2. WithLoop(u)' <=> WithLoop(u)
        BY <2>1 DEF WithLoop
      <4>3. UNCHANGED <<Legal(u), call, dropped>>
        BY <2>1 DEF Legal
      <4>4. CASE u = slot.task
        <5>1. Queued(u)' /\ QueuedOnce(u)'
          BY <2>1, <2>3, <3>3, <4>4, AddedChanges
        <5>2. ~WithJob(u)'
          BY <3>6, <4>4
        <5> QED
          BY <3>2, <3>3, <4>1, <4>2, <4>3, <4>4, <5>1, <5>2, Zenon DEF InOnePlace
      <4>5. CASE u # slot.task
        <5>1. Queued(u)' = Queued(u) /\ (QueuedOnce(u) => QueuedOnce(u)')
          BY <2>1, <2>3, <3>3, <4>5, AddedChanges
        <5>2. WithJob(u)' = WithJob(u)
          BY <3>6, <4>5
        <5> QED
          BY <4>1, <4>2, <4>3, <5>1, <5>2, Zenon DEF InOnePlace
      <4> QED
        BY <4>4, <4>5
    <3> QED
      BY <3>4, <3>5, <3>6, <3>7
  <2> QED
    BY <2>4, <2>5
<1> QED
  BY <1>1, <1>2

\* Time changes how long an event waits, not whose it is.
LEMMA SoonerIsEvent ==
  ASSUME NEW e \in Event
  PROVE  Sooner(e) \in Event /\ Sooner(e).task = e.task
<1>1. Longest \in Nat
  BY TimeAssumption DEF Longest
<1>2. (IF e.wait = 0 THEN 0 ELSE e.wait - 1) \in 0..Longest
  BY <1>1 DEF Event
<1> QED
  BY <1>2 DEF Sooner, Event

LEMMA TickKeeps ==
  ASSUME EventInv, Tick
  PROVE  EventInv'
<1> USE DEF EventInv, OneInv
<1>1. /\ Sane /\ queue' = {Sooner(e) : e \in queue}
      /\ slot' = (IF slot = NoEvent THEN NoEvent ELSE Sooner(slot))
      /\ UNCHANGED <<call, loop, changed, jobs, hand, ran, dropped, stop, error, missed>>
  BY DEF Tick
<1>2. /\ queue \subseteq Event /\ \A e \in queue : Sooner(e) \in Event /\ Sooner(e).task = e.task
      /\ slot # NoEvent => Sooner(slot) \in Event /\ Sooner(slot).task = slot.task
  BY <1>1, SoonerIsEvent DEF SchedTypeOK
<1>3. SchedTypeOK'
  BY <1>1, <1>2 DEF SchedTypeOK
<1>4. SlotIsThere'
  BY <1>1, <1>2, NoEventAssumption DEF SlotIsThere
<1>5. OnePlaceEach'
  <2> SUFFICES ASSUME NEW u \in Tasks PROVE InOnePlace(u)'
    BY DEF OnePlaceEach
  <2>1. InOnePlace(u)
    BY <1>1 DEF OnePlaceEach
  <2>2. Queued(u)' <=> Queued(u)
    BY <1>1, <1>2 DEF Queued
  <2>3. QueuedOnce(u)'
    BY <1>1, <1>2, <2>1 DEF InOnePlace, QueuedOnce
  <2>4. WithLoop(u)' <=> WithLoop(u)
    <3>1. CASE loop \in {"dispatch", "requeue"}
      <4>1. slot # NoEvent /\ slot'.task = slot.task
        BY <1>1, <1>2, <3>1 DEF SlotIsThere
      <4> QED
        BY <1>1, <4>1 DEF WithLoop
    <3>2. CASE loop \notin {"dispatch", "requeue"}
      BY <1>1, <3>2 DEF WithLoop
    <3> QED
      BY <3>1, <3>2
  <2>5. WithJob(u)' <=> WithJob(u)
    BY <1>1 DEF WithJob
  <2>6. UNCHANGED <<Legal(u), call, dropped>>
    BY <1>1 DEF Legal
  <2> QED
    BY <2>1, <2>2, <2>3, <2>4, <2>5, <2>6, Zenon DEF InOnePlace
<1> QED
  BY <1>1, <1>3, <1>4, <1>5, JobsStay

----------------------------------------------------------------------------
\* Nothing is scheduled at first.
THEOREM InitEventInv == SchedInit => EventInv
<1> SUFFICES ASSUME SchedInit PROVE EventInv
  OBVIOUS
<1>1. SchedTypeOK
  <2>1. jobs \in Seq(Event) /\ hand \in [Workers -> Job \cup {NoEvent}]
    BY DEF SchedInit
  <2> QED
    BY <2>1 DEF SchedInit, SchedTypeOK, Mishaps
<1>2. SlotIsThere /\ OnlyIntervalsEmplace /\ OneJob
  BY DEF SchedInit, SlotIsThere, OnlyIntervalsEmplace, JobAt, OneJob, LineHas, HandHas
<1>3. OnePlaceEach
  BY DEF SchedInit, OnePlaceEach, InOnePlace, Queued, QueuedOnce, WithLoop, WithJob
<1> QED
  BY <1>1, <1>2, <1>3 DEF EventInv, OneInv

\* Each step of clients, loop, jobs and the clock preserves it.
THEOREM StepEventInv == EventInv /\ [SchedNext]_schedVars => EventInv'
<1> SUFFICES ASSUME EventInv, [SchedNext]_schedVars PROVE EventInv'
  OBVIOUS
<1>1. CASE UNCHANGED schedVars
  <2> USE <1>1 DEF schedVars
  <2>1. SchedTypeOK => SchedTypeOK'
    BY DEF SchedTypeOK
  <2>2. SlotIsThere => SlotIsThere'
    BY DEF SlotIsThere
  <2>3. OnePlaceEach => OnePlaceEach'
    BY PlacesStay DEF OnePlaceEach, InOnePlace, Legal
  <2> QED
    BY <2>1, <2>2, <2>3, JobsStay DEF EventInv, OneInv, Sane
<1>2. CASE LoopStep \/ SpuriousWakeUp \/ SpuriousWakeUpUntil
  BY <1>2, LoopGoesKeeps, CopyTopKeeps, PopKeeps, DispatchKeeps, RequeueKeeps, OthersKeep
  DEF LoopStep
<1>3. ASSUME NEW w \in Workers, JobStep(w) PROVE EventInv'
  BY <1>3, BeginJobKeeps, ExecKeeps, ExecThrowsKeeps, ExecDiesKeeps, NextOfJobKeeps,
         EmplacedByJobKeeps
  DEF JobStep
<1>4. ASSUME NEW t \in Tasks, Schedule(t) \/ CallStep(t) PROVE EventInv'
  BY <1>4, ScheduleKeeps, EmplacedKeeps, NotifyKeeps DEF CallStep
<1>5. CASE Stop \/ StopReturn \/ Tick
  BY <1>5, OthersKeep, TickKeeps
<1> QED
  BY <1>1, <1>2, <1>3, <1>4, <1>5 DEF SchedNext

\* Counted, one place is one event.
LEMMA OnePlaceIsOne == EventInv => OneEventEach
<1> SUFFICES ASSUME EventInv, Sane, NEW t \in Tasks, call[t] \in {"notify", "done"}
             PROVE  LET places == Cardinality(EventsOf(t)) + (IF WithLoop(t) THEN 1 ELSE 0)
                                  + (IF WithJob(t) THEN 1 ELSE 0)
                    IN IF t \in dropped THEN places = 0 ELSE IF Legal(t) THEN places = 1 ELSE places <= 1
  BY DEF OneEventEach
<1>1. InOnePlace(t)
  BY DEF EventInv, OneInv, OnePlaceEach
<1>2. CASE Queued(t)
  <2> PICK e \in queue : e.task = t
    BY <1>2 DEF Queued
  <2>1. EventsOf(t) = {e}
    BY <1>1 DEF InOnePlace, QueuedOnce, EventsOf
  <2>2. Cardinality(EventsOf(t)) = 1
    BY <2>1, FS_Singleton
  <2>3. ~WithLoop(t) /\ ~WithJob(t) /\ t \notin dropped
    BY <1>1, <1>2 DEF InOnePlace
  <2> QED
    BY <2>2, <2>3
<1>3. CASE ~Queued(t)
  <2>1. EventsOf(t) = {}
    BY <1>3 DEF Queued, EventsOf
  <2>2. Cardinality(EventsOf(t)) = 0
    BY <2>1, FS_EmptySet
  <2>3. /\ ~(WithLoop(t) /\ WithJob(t)) /\ (t \in dropped => ~WithLoop(t) /\ ~WithJob(t))
        /\ t \notin dropped /\ Legal(t) => WithLoop(t) \/ WithJob(t)
    BY <1>1, <1>3 DEF InOnePlace
  <2> QED
    BY <2>2, <2>3
<1> QED
  BY <1>2, <1>3

\* task_scheduler.hpp:165-199: for any tasks of any kind, workers, delays and periods, as long
\* as no step is undefined, each task that is scheduled has one next event: in the
\* queue, with the loop, or with its job; and none, for good, if it has an interval and has thrown.
THEOREM SchedulerOneEventEach == SchedSpec => []OneEventEach
BY OnePlaceIsOne, InitEventInv, StepEventInv, PTL DEF SchedSpec

(* The scheduler: what ends the loop's sleep. *)

\* Before it has copied an event the loop has none, and a job finds none.
SlotIsFree ==
  Sane /\ loop \in {"test", "look", "empty", "asleep", "top", "gone"} => slot = NoEvent

\* Whoever filled the queue over which the loop fell asleep has still to notify it.
SleepIsEnded ==
  Sane /\ loop \in {"empty", "asleep"} /\ queue # {} /\ ~missed =>
    \E t \in Tasks : call[t] = "notify"

SleepInv == SlotIsFree /\ SleepIsEnded

LEMMA StepSleepInv == EventInv /\ SleepInv /\ [SchedNext]_schedVars => SleepInv'
<1> SUFFICES ASSUME EventInv, SleepInv, [SchedNext]_schedVars PROVE SleepInv'
  OBVIOUS
<1> USE DEF SleepInv, SlotIsFree, SleepIsEnded, Sane
<1>0. ASSUME NEW what \in Mishaps \ {"none"}, Err(what) PROVE SleepInv'
  BY <1>0 DEF Err
<1>1. CASE UNCHANGED schedVars
  BY <1>1 DEF schedVars
<1>2. ASSUME NEW t \in Tasks, Schedule(t) PROVE SleepInv'
  <2>1. CASE Err("heap")
    BY <2>1, <1>0 DEF Mishaps
  <2>2. CASE ~Err("heap")
    <3>1. UNCHANGED <<queue, loop, slot, error, missed>> /\ call' = [call EXCEPT ![t] = "emplace"]
          /\ call[t] = "new"
      BY <1>2, <2>2 DEF Schedule, TouchHeap
    <3>2. \A u \in Tasks : call[u] = "notify" => call'[u] = "notify"
      BY <3>1 DEF EventInv, SchedTypeOK
    <3> QED
      BY <3>1, <3>2
  <2> QED
    BY <2>1, <2>2
<1>3. ASSUME NEW t \in Tasks, Emplaced(t) PROVE SleepInv'
  <2>1. call'[t] = "notify"
    BY <1>3 DEF Emplaced, EventInv, SchedTypeOK
  <2> QED
    BY <1>3, <2>1 DEF Emplaced
<1>4. ASSUME NEW t \in Tasks, Notify(t) PROVE SleepInv'
  BY <1>4 DEF Notify
<1>5. CASE LoopStep \/ SpuriousWakeUp \/ SpuriousWakeUpUntil
  <2>1. CASE TestStop \/ Doze \/ DozeUntil \/ TimeOut \/ SpuriousWakeUp \/ SpuriousWakeUpUntil
    BY <2>1 DEF TestStop, Doze, DozeUntil, TimeOut, SpuriousWakeUp, SpuriousWakeUpUntil, GoTo
  <2>2. CASE TestEmpty
    BY <2>2, <1>0 DEF TestEmpty, TouchHeap, GoTo, Mishaps
  <2>3. CASE CopyTop
    BY <2>3, <1>0 DEF CopyTop, TouchHeap, Mishaps
  <2>4. CASE Pop \/ Requeue
    BY <2>4, <1>0 DEF Pop, Requeue, TouchHeap, GoTo, Mishaps
  <2>5. CASE Dispatch \/ EndRound
    BY <2>5 DEF Dispatch, EndRound
  <2> QED
    BY <1>5, <2>1, <2>2, <2>3, <2>4, <2>5 DEF LoopStep
<1>6. ASSUME NEW w \in Workers, JobStep(w) PROVE SleepInv'
  <2>1. CASE Err("gone") \/ Err("heap")
    BY <2>1, <1>0 DEF Mishaps
  <2>2. CASE BeginJob(w)
    BY <2>2 DEF BeginJob
  <2>3. CASE Exec(w) /\ ~Err("gone")
    BY <2>3 DEF Exec
  <2>6. CASE ExecThrows(w)
    BY <2>6 DEF ExecThrows
  <2>7. CASE ExecDies(w)
    BY <2>7, <1>0 DEF ExecDies, Mishaps
  <2>4. CASE NextOfJob(w) /\ ~Err("gone") /\ ~Err("heap")
    BY <2>4 DEF NextOfJob
  <2>5. CASE EmplacedByJob(w) /\ ~Err("gone")
    BY <2>5 DEF EmplacedByJob
  <2> QED
    BY <1>6, <2>1, <2>2, <2>3, <2>4, <2>5, <2>6, <2>7 DEF JobStep
<1>7. CASE Stop \/ StopReturn
  BY <1>7 DEF Stop, StopReturn
<1>8. CASE Tick
  BY <1>8 DEF Tick
<1> QED
  BY <1>1, <1>2, <1>3, <1>4, <1>5, <1>6, <1>7, <1>8 DEF SchedNext, CallStep

\* task_scheduler.hpp:176-181, 222-226: for any tasks, workers, delays and periods, as long as no step is
\* undefined: when the loop sleeps on what it took for an empty queue and there is an event
\* in it, a caller has still to notify the loop, unless a notification came between its test and
\* its sleep: that is the only one that is lost.  This is what StopReturns rests on.
THEOREM SchedulerSleepIsEnded == SchedSpec => []SleepIsEnded
<1>1. SchedInit => SleepInv
  BY DEF SchedInit, SleepInv, SlotIsFree, SleepIsEnded
<1>2. SleepInv => SleepIsEnded
  BY DEF SleepInv
<1> QED
  BY <1>1, <1>2, StepSleepInv, InitEventInv, StepEventInv, PTL DEF SchedSpec
============================================================================
