-------------------------------- MODULE M3u8 --------------------------------
(***************************************************************************)
(* task/m3u8_to_mp4.cpp: the program that listens to a file to which other *)
(* programs append lines "url concurrent output", and makes a video of     *)
(* each: it fetches the playlist, cuts its segments into parts, downloads  *)
(* the parts in threads of their own and joins those that came.            *)
(*                                                                         *)
(* Time is the clock of the file system: what is written within one tick   *)
(* has the same last_write_time.                                           *)
(***************************************************************************)
EXTENDS Naturals, Sequences, FiniteSets, SequencesExt, FiniteSetsExt

CONSTANTS
  Playlists,   \* answers to a fetch: sequences of lines, or NoPlaylist
  NoPlaylist,
  Degrees,     \* of concurrency, as the lines give them
  MaxLines,    \* bound: lines written in all
  MaxTicks     \* bound: of the clock

LineKinds == {"header", "info", "uri", "tag"}
ASSUME PlaylistAssumption == \A p \in Playlists : p = NoPlaylist \/ p \in Seq(LineKinds)
ASSUME DegreeAssumption == Degrees \subseteq Nat
ASSUME LinesAssumption == MaxLines \in Nat /\ MaxTicks \in Nat

VARIABLES
  input,     \* the file: lines with the time of their last write
  unended,   \* its last line is still being written
  clock,
  pc,        \* of main() and process_one()
  first,     \* main() is in its first loop over the lines
  seen,      \* last_file_time
  ft,        \* the time of the file this pass read before the lines
  next,      \* the line getline() reads next
  eof,       \* it read a line up to where the file ended: it reads no more
  processed, \* processed_cnt
  handled,   \* lines taken up: the line, whether it was whole, and what was read
  video,     \* the work in hand: degree, segments, parts, output; its directory refused
  stopping   \* a signal came

m3u8Vars ==
  <<input, unended, clock, pc, first, seen, ft, next, eof, processed, handled, video, stopping>>

InputKinds == {"good", "badFormat", "badNumber"}
NoVideo == [degree |-> 0, segments |-> <<>>, parts |-> <<>>, output |-> <<>>,
            refused |-> FALSE]

M3u8TypeOK ==
  /\ \A i \in DOMAIN input : input[i].kind \in InputKinds /\ input[i].time \in 0..clock
  /\ {unended, first, eof, stopping} \subseteq BOOLEAN
  /\ pc \in {"pass", "fetch", "download", "combine", "clean", "poll", "test", "off", "died"}
  /\ {seen, ft} \subseteq 0..clock /\ next \in 1..Len(input) + 1 /\ processed \in 0..Len(input)

\* The file has its first line; the program reads its time at the start.
M3u8Init ==
  /\ \E k \in InputKinds : input = <<[kind |-> k, time |-> 0]>>
  /\ unended \in BOOLEAN
  /\ clock = 0 /\ pc = "pass" /\ first = TRUE /\ seen = 0 /\ ft = 0 /\ next = 1 /\ eof = FALSE
  /\ processed = 0 /\ handled = <<>> /\ video = NoVideo /\ stopping = FALSE

---------------------------------------------------------------------------
program == <<pc, first, seen, ft, next, eof, processed, handled, video>>

\* Other programs: a line may come in two writes.
WriteLine ==
  /\ ~unended /\ Len(input) < MaxLines
  /\ \E k \in InputKinds : input' = Append(input, [kind |-> k, time |-> clock])
  /\ unended' \in BOOLEAN
  /\ UNCHANGED <<clock, stopping, program>>

EndLine ==
  /\ unended /\ unended' = FALSE
  /\ input' = [input EXCEPT ![Len(input)].time = clock]
  /\ UNCHANGED <<clock, stopping, program>>

TickOfFiles ==
  /\ clock < MaxTicks /\ clock' = clock + 1
  /\ UNCHANGED <<input, unended, stopping, program>>

\* The handler is registered after the first pass.
SignalHandler ==
  /\ ~first /\ pc \notin {"off", "died"} /\ ~stopping /\ stopping' = TRUE
  /\ UNCHANGED <<input, unended, clock, program>>

world == <<input, unended, clock, stopping>>
LastWrite == Max({input[i].time : i \in DOMAIN input})

---------------------------------------------------------------------------
\* fetch_m3u8(): after the first info line each info begins a segment, each uri
\* is that of the segment before it; the last one counts.
Segments(playlist) ==
  LET infos == {i \in DOMAIN playlist : playlist[i] = "info"}
      until(i) == Min({j \in infos : j > i} \cup {Len(playlist) + 1})
      uri(i) == Max({0} \cup {j \in i .. until(i) - 1 : playlist[j] = "uri"})
      info(n) == CHOOSE i \in infos : Cardinality({j \in infos : j <= i}) = n
  IN [n \in 1 .. Cardinality(infos) |-> uri(info(n))]

Smaller(a, b) == IF a < b THEN a ELSE b

\* Mutant of NumParts: the remainder is left out.
NumPartsRoundedDown(n, step) == n \div step

\* gen_task_seq(): parts of equal size, and a remainder.
NumParts(n, step) == (n + step - 1) \div step
PartsOf(n, degree) ==
  LET step == n \div Smaller(degree, n)
  IN [k \in 1 .. NumParts(n, step) |->
        [from |-> (k - 1) * step + 1, to |-> Smaller(k * step, n), status |-> "asked"]]

\* A line still being written is a line to getline(), as far as it has come: cut
\* before its second tab it has the wrong format, cut behind it it is read like
\* the whole line under a name cut short, and a line with too many fields may
\* have three so far.
IsWhole(i) == i < Len(input) \/ ~unended
ReadAs(i) ==
  IF IsWhole(i) THEN {input[i].kind}
  ELSE IF input[i].kind = "badFormat" THEN InputKinds
  ELSE {input[i].kind, "badFormat"}

\* Mutant of WasRead: the last line once more.
WasReadButLast(i) == ~first /\ i < processed

WasRead(i) == ~first /\ i <= processed

HasLine == pc = "pass" /\ next <= Len(input) /\ ~eof

SkipLine ==
  /\ HasLine /\ WasRead(next)
  /\ next' = next + 1 /\ eof' = ~IsWhole(next)
  /\ UNCHANGED <<pc, first, seen, ft, processed, handled, video, world>>

\* A line is counted before anything else, whatever becomes of it.
TakeLine ==
  /\ HasLine /\ ~WasRead(next)
  /\ next' = next + 1 /\ eof' = ~IsWhole(next) /\ processed' = processed + 1
  /\ \E kind \in ReadAs(next) :
       /\ handled' = Append(handled, [line |-> next, whole |-> IsWhole(next), read |-> kind])
       /\ pc' = CASE kind = "badFormat" -> "pass" [] kind = "badNumber" -> "died" [] OTHER -> "fetch"
       /\ \E d \in IF kind = "good" THEN Degrees ELSE {0} :
            video' = [NoVideo EXCEPT !.degree = d]
  /\ UNCHANGED <<first, seen, ft, world>>

\* The time read before the lines becomes the time seen; the first loop keeps
\* the one from the start.
EndPass ==
  /\ pc = "pass" /\ (next > Len(input) \/ eof)
  /\ pc' = IF first THEN "poll" ELSE "test"
  /\ first' = FALSE /\ eof' = FALSE
  /\ seen' = IF first THEN seen ELSE ft
  /\ UNCHANGED <<ft, next, processed, handled, video, world>>

\* Nothing new: sleep.  The file may fail to open.
Poll ==
  /\ pc = "poll"
  /\ ft' = LastWrite
  /\ \/ pc' = "test" /\ UNCHANGED next
     \/ ft' # seen /\ pc' = "pass" /\ next' = 1
  /\ UNCHANGED <<first, seen, eof, processed, handled, video, world>>

TestStopping ==
  /\ pc = "test"
  /\ pc' = IF stopping THEN "off" ELSE "poll"
  /\ UNCHANGED <<first, seen, ft, next, eof, processed, handled, video, world>>

---------------------------------------------------------------------------
Work == UNCHANGED <<first, seen, ft, next, eof, processed, handled, world>>

\* A fetch that fails gives a null pointer, which gen_task_seq() follows; no
\* segment, or none at a time, divides by zero.
FetchM3u8 ==
  /\ pc = "fetch" /\ Work
  /\ \E p \in Playlists :
       LET segments == IF p = NoPlaylist THEN <<>> ELSE Segments(p)
           n == Len(segments)
       IN IF n = 0 \/ video.degree = 0
          THEN pc' = "died" /\ video' = [video EXCEPT !.segments = segments]
          ELSE /\ pc' = "download"
               /\ video' = [video EXCEPT !.segments = segments, !.parts = PartsOf(n, video.degree)]

\* The directory for the parts is looked for and made: what fails to be made
\* throws, which nobody catches; that nothing was made, since another made it
\* meanwhile, ends the line.
NoTmpDir ==
  /\ pc = "fetch" /\ Work
  /\ \/ pc' = "pass" /\ video' = NoVideo
     \/ pc' = "died" /\ video' = [video EXCEPT !.refused = TRUE]

\* One thread for each part, all at once.
DownloadPart ==
  /\ pc = "download" /\ Work /\ UNCHANGED pc
  /\ \E k \in DOMAIN video.parts, status \in {"came", "failed"} :
       /\ video.parts[k].status = "asked"
       /\ video' = [video EXCEPT !.parts[k].status = status]

WaitForParts ==
  /\ pc = "download" /\ Work
  /\ \A k \in DOMAIN video.parts : video.parts[k].status # "asked"
  /\ pc' = "combine" /\ UNCHANGED video

\* The parts that came, in their order; the joining itself may fail.
SegmentsOf(part) == SubSeq(video.segments, part.from, part.to)
Pieces == [k \in DOMAIN video.parts |->
             IF video.parts[k].status = "came" THEN SegmentsOf(video.parts[k]) ELSE <<>>]
Combine ==
  /\ pc = "combine" /\ Work
  /\ pc' = "clean"
  /\ \E joined \in {<<>>, FlattenSeq(Pieces)} : video' = [video EXCEPT !.output = joined]

\* It is removed at the end, unless it is to be kept; that may throw, too.
CleanTmpDir ==
  /\ pc = "clean" /\ Work
  /\ \/ pc' = "pass" /\ video' = NoVideo
     \/ pc' = "died" /\ video' = [video EXCEPT !.refused = TRUE]

M3u8Next ==
  \/ WriteLine \/ EndLine \/ TickOfFiles \/ SignalHandler
  \/ SkipLine \/ TakeLine \/ EndPass \/ Poll \/ TestStopping
  \/ FetchM3u8 \/ NoTmpDir \/ DownloadPart \/ WaitForParts \/ Combine \/ CleanTmpDir

M3u8Spec == M3u8Init /\ [][M3u8Next]_m3u8Vars

---------------------------------------------------------------------------
\* m3u8_to_mp4.cpp:242-290: every line is taken up once, in the order of the file, however often the
\* file is read from its start; and when the program waits for a new time of the
\* file, only lines written within the tick of the time it has seen are left.
LinesOnce ==
  /\ \A i \in DOMAIN handled : handled[i].line = i
  /\ processed = Len(handled)
  /\ pc \in {"poll", "test"} =>
       \A i \in DOMAIN input : input[i].time < seen => i <= processed

Partition ==
  LET parts == video.parts n == Len(parts)
  IN n > 0 =>
       /\ parts[1].from = 1 /\ parts[n].to = Len(video.segments)
       /\ \A k \in 1 .. n : parts[k].from <= parts[k].to
       /\ \A k \in 1 .. n - 1 : parts[k + 1].from = parts[k].to + 1
       /\ n < 2 * video.degree

\* What is joined is the playlist without the parts that failed.
JoinsWhatCame ==
  pc = "clean" /\ video.output # <<>> =>
    LET failed == {s \in DOMAIN video.segments : \E k \in DOMAIN video.parts :
                     /\ video.parts[k].status # "came"
                     /\ s \in video.parts[k].from .. video.parts[k].to}
        kept == DOMAIN video.segments \ failed
    IN /\ Len(video.output) = Cardinality(kept)
       /\ \A s \in kept : video.output[Cardinality({r \in kept : r <= s})] = video.segments[s]

\* Why the program died at the line it took up last: a number that cannot be
\* read, a playlist without segments, a degree of zero, or a directory that could
\* not be made or removed.
Dies(last) ==
  \/ last.read = "badNumber"
  \/ last.read = "good" /\ (video.degree = 0 \/ video.segments = <<>> \/ video.refused)

\* That line is one of the file and was taken for what it is, or else it had too
\* many fields and was read while it was still being written.
DiesOnlyIf ==
  pc = "died" =>
    LET last == handled[Len(handled)]
    IN /\ handled # <<>> /\ Dies(last)
       /\ last.read # input[last.line].kind => ~last.whole /\ input[last.line].kind = "badFormat"

\* m3u8_to_mp4.cpp:109-204: the parts cut the playlist into pieces that follow one another, less than
\* twice as many as asked for; what is joined is the playlist without the parts
\* that failed; and the program dies only at the line taken up last, for one of
\* four reasons, and at no line of a wrong format unless it was read half written.
WholeVideo == Partition /\ JoinsWhatCame /\ DiesOnlyIf
=============================================================================
