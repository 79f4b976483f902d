------------------------------- MODULE Maker -------------------------------
(***************************************************************************)
(* maker.hpp, with plugin/plugins.hpp and plugin/smms.hpp: the runs of the *)
(* site generator.  A run lists the Markdown files with their times, takes *)
(* over from the cache what has not changed, parses the rest, lets the     *)
(* plugins work on it (Smms uploads local images and puts their addresses  *)
(* in), stores the cache and renders the site.  Between runs and during    *)
(* them authors edit, add and delete files; a run may be killed anywhere;  *)
(* what it has on disk by then stays.                                      *)
(*                                                                         *)
(* The content of a file is the time of its last edit, which is also its   *)
(* last_write_time.                                                        *)
(***************************************************************************)
EXTENDS Naturals, FiniteSets

CONSTANTS
  Posts, Pages,  \* the files there may be in posts/ and in pages/
  ImagesOf,      \* the local images each file shows
  NoEntry,
  MaxTime,       \* bound: edits in all
  MaxRuns        \* bound: runs in all

Files == Posts \cup Pages
Images == UNION {ImagesOf[f] : f \in Files}

ASSUME FilesAssumption == IsFiniteSet(Posts) /\ IsFiniteSet(Pages)
ASSUME BoundsAssumption == MaxTime \in Nat /\ MaxRuns \in Nat

Entry == [mtime : Nat, content : Nat, images : SUBSET Images]
ASSUME EntryAssumption == NoEntry \notin Entry

Entries == [Files -> Entry \cup {NoEntry}]
NoEntries == [f \in Files |-> NoEntry]
Size(entries) == Cardinality({f \in Files : entries[f] # NoEntry})

VARIABLES
  src,       \* each file's time and content; 0 when there is no such file
  bad,       \* files parse() refuses: a code block without end, a wrong table ...
  time,      \* of the latest edit
  cacheFile, \* .make_cache: "none", "whole" or "torn", and its entries
  history,   \* .smms_cache/.upload_history.json: likewise
  remote,    \* images the image host has
  dist,      \* the rendered site: the entry behind each file
  pc,        \* where the run is; "off" between runs
  ignore,    \* the flag ignore_cache
  listed,    \* the times load() found
  pre, state, changed,  \* MakerCache
  todo,      \* files to handle
  inHand,    \* the file that is parsed and its content, or none
  parsed,    \* parsed_posts_ and parsed_pages_
  hist,      \* upload_history_
  failed,    \* a file could not be parsed in this run
  amiss,     \* what else went wrong in it and was at most logged
  sent,      \* images this run has uploaded
  edited,    \* a file was edited during this run
  result,    \* of the latest run: "none", "made", "killed"
  runs

\* The cache cannot be read; Smms cannot start; a file cannot be written.
Mishaps == {"load", "plugin", "history", "cache"}

disk == <<cacheFile, history, remote, dist>>
memory == <<ignore, listed, pre, state, changed, todo, inHand, parsed, hist>>
files == <<src, bad, time>>
observed == <<failed, amiss, sent, edited, result>>
vars == <<files, disk, pc, memory, observed, runs>>

TypeOK ==
  /\ src \in [Files -> Nat] /\ bad \in SUBSET Files /\ time \in Nat
  /\ cacheFile \in [kind : {"none", "whole", "torn"}, entries : Entries]
  /\ history \in [kind : {"none", "whole", "torn"}, images : SUBSET Images]
  /\ remote \in SUBSET Images /\ dist \in Entries
  /\ pc \in {"off", "init", "parse", "destroy", "save", "store", "write", "wipe", "render"}
  /\ ignore \in BOOLEAN /\ listed \in [Files -> Nat]
  /\ pre \in Entries /\ state \in Entries /\ changed \in Nat
  /\ todo \in SUBSET Files /\ parsed \in Entries
  /\ inHand \in SUBSET [file : Files, content : Nat]
  /\ hist \in SUBSET Images /\ failed \in BOOLEAN /\ amiss \in SUBSET Mishaps
  /\ sent \in SUBSET Images /\ edited \in BOOLEAN
  /\ result \in {"none", "made", "killed"} /\ runs \in Nat

Init ==
  /\ src = [f \in Files |-> 1] /\ bad = {} /\ time = 1
  /\ cacheFile = [kind |-> "none", entries |-> NoEntries]
  /\ history = [kind |-> "none", images |-> {}]
  /\ remote = {} /\ dist = NoEntries
  /\ pc = "off" /\ ignore = FALSE /\ listed = [f \in Files |-> 0]
  /\ pre = NoEntries /\ state = NoEntries /\ changed = 0
  /\ todo = {} /\ inHand = {} /\ parsed = NoEntries
  /\ hist = {} /\ failed = FALSE /\ amiss = {}
  /\ sent = {} /\ edited = FALSE /\ result = "none" /\ runs = 0

----------------------------------------------------------------------------
\* Authors.  An edit may make a file one that cannot be parsed.
Edit(f, broken) ==
  /\ time < MaxTime
  /\ time' = time + 1
  /\ src' = [src EXCEPT ![f] = time + 1]
  /\ bad' = IF broken THEN bad \cup {f} ELSE bad \ {f}
  /\ edited' = TRUE
  /\ UNCHANGED <<disk, pc, memory, failed, amiss, sent, result, runs>>

Delete(f) ==
  /\ src[f] # 0 /\ time < MaxTime
  /\ time' = time + 1
  /\ src' = [src EXCEPT ![f] = 0]
  /\ edited' = TRUE
  /\ UNCHANGED <<bad, disk, pc, memory, failed, amiss, sent, result, runs>>

----------------------------------------------------------------------------
\* MakerCache::load.  A file cut short ends in bytes that are no JSON, which
\* nobody catches, or, by what an unread variable happens to hold, in `false`;
\* init() goes on then with the entries read so far, as it goes on with none when
\* the file cannot be opened.
Loadable == cacheFile.kind # "torn"

\* Maker::make: init() and load(), which lists the files.
Start(ign) ==
  /\ pc = "off" /\ runs < MaxRuns
  /\ runs' = runs + 1
  /\ ignore' = ign
  /\ state' = NoEntries /\ changed' = 0 /\ parsed' = NoEntries /\ inHand' = {} /\ hist' = {}
  /\ failed' = FALSE /\ sent' = {} /\ edited' = FALSE /\ result' = "none"
  /\ \/ pre' = (IF ign THEN NoEntries ELSE cacheFile.entries) /\ amiss' = {}
     \/ ~ign /\ pre' = NoEntries /\ amiss' = {"load"}
  /\ listed' = src
  /\ todo' = {f \in Files : src[f] # 0}
  /\ pc' = IF todo' = {} THEN "off" ELSE "init"
  /\ UNCHANGED <<files, disk>>

\* The program dies on a cache file that was cut short, unless told to ignore it.
StartDies ==
  /\ pc = "off" /\ runs < MaxRuns
  /\ ~Loadable
  /\ runs' = runs + 1
  /\ result' = "killed"
  /\ UNCHANGED <<files, disk, pc, memory, failed, amiss, sent, edited>>

\* Plugins::init: Smms reads its history file or asks the host for it, page by
\* page until one fails; a history file that was cut short is no JSON and ends
\* the program.
InitPlugins ==
  /\ pc = "init" /\ history.kind # "torn"
  /\ IF history.kind = "whole" THEN hist' = history.images ELSE hist' \in SUBSET remote
  /\ pc' = "parse"
  /\ UNCHANGED <<files, disk, ignore, listed, pre, state, changed, todo, inHand, parsed,
                 observed, runs>>

\* Smms::init: without a token, a user or an answer it is not among the plugins
\* of this run, for which it does nothing then, not even destroy().
SmmsLeftOut ==
  /\ pc = "init"
  /\ pc' = "parse" /\ amiss' = amiss \cup {"plugin"}
  /\ UNCHANGED <<files, disk, ignore, listed, pre, state, changed, todo, inHand, parsed, hist,
                 failed, sent, edited, result, runs>>

\* The end of the program, and of what it had in memory.
Exit(how) ==
  /\ pc' = "off" /\ result' = how
  /\ ignore' = FALSE /\ listed' = [f \in Files |-> 0]
  /\ pre' = NoEntries /\ state' = NoEntries /\ changed' = 0
  /\ todo' = {} /\ inHand' = {} /\ parsed' = NoEntries /\ hist' = {}

\* A run may be killed at any point.
Kill ==
  /\ pc # "off"
  /\ Exit("killed") /\ failed' = FALSE /\ amiss' = {} /\ sent' = {} /\ edited' = FALSE
  /\ UNCHANGED <<files, disk, runs>>

----------------------------------------------------------------------------
\* Posts come before pages; which comes first of each does not matter.
Handles(f) == pc = "parse" /\ inHand = {} /\ f \in todo /\ (f \in Posts \/ todo \cap Posts = {})

\* Mutant of Matches: any entry of the file will do.
MatchesAnyTime(f) == ~ignore /\ pre[f] # NoEntry

\* match_then_get.
Matches(f) == ~ignore /\ pre[f] # NoEntry /\ pre[f].mtime = listed[f]

UseCached(f) ==
  /\ Handles(f) /\ Matches(f)
  /\ state' = [state EXCEPT ![f] = pre[f]]
  /\ parsed' = [parsed EXCEPT ![f] = pre[f]]
  /\ todo' = todo \ {f}
  /\ UNCHANGED <<files, disk, pc, ignore, listed, pre, changed, inHand, hist, observed,
                 runs>>

CanParse(f) == src[f] # 0 /\ f \notin bad

Parse(f) ==
  /\ Handles(f) /\ ~Matches(f) /\ CanParse(f)
  /\ inHand' = {[file |-> f, content |-> src[f]]}
  /\ UNCHANGED <<files, disk, pc, ignore, listed, pre, state, changed, todo, parsed, hist,
                 observed, runs>>

\* A page that cannot be parsed is left out; a post makes parse() return false,
\* before destroy() and store(), which make() does not notice.  A metadata block
\* that does not end throws instead, which ends the program (Kill).
ParseFails(f) ==
  /\ Handles(f) /\ ~Matches(f) /\ ~CanParse(f)
  /\ failed' = TRUE
  /\ IF f \in Posts THEN pc' = "wipe" /\ todo' = {} ELSE todo' = todo \ {f} /\ UNCHANGED pc
  /\ UNCHANGED <<files, disk, ignore, listed, pre, state, changed, inHand, parsed, hist, amiss,
                 sent, edited, result, runs>>

\* Mutant of CachedPost: the file's time is asked for when it is cached.
CachedPostNow(r, taken) ==
  [mtime |-> src[r.file], content |-> r.content,
   images |-> (ImagesOf[r.file] \cap hist) \cup taken]

\* What cache_it and to_json make of a parsed file: the time is that of the
\* listing; `taken` are the images just uploaded.
CachedPost(r, taken) ==
  [mtime |-> listed[r.file], content |-> r.content,
   images |-> (ImagesOf[r.file] \cap hist) \cup taken]

\* Smms::run: known images are replaced, unknown ones uploaded; the host takes
\* some of them, never one it has already.  Then the file is cached.
RunAndCache(r, taken) ==
  /\ pc = "parse" /\ r \in inHand
  /\ taken \subseteq ImagesOf[r.file] \ (hist \cup remote) /\ ("plugin" \in amiss => taken = {})
  /\ remote' = remote \cup taken /\ sent' = sent \cup taken /\ hist' = hist \cup taken
  /\ state' = [state EXCEPT ![r.file] = CachedPost(r, taken)]
  /\ parsed' = [parsed EXCEPT ![r.file] = CachedPost(r, taken)]
  /\ todo' = todo \ {r.file}
  /\ changed' = changed + 1
  /\ inHand' = {}
  /\ UNCHANGED <<files, cacheFile, history, dist, pc, ignore, listed, pre, failed, amiss,
                 edited, result, runs>>

Parsed ==
  /\ pc = "parse" /\ todo = {}
  /\ pc' = "destroy"
  /\ UNCHANGED <<files, disk, memory, observed, runs>>

----------------------------------------------------------------------------
\* Plugins::destroy: Smms truncates its history file and writes it.  That the
\* file cannot be opened is only logged.
Destroy ==
  /\ pc = "destroy"
  /\ \/ "plugin" \notin amiss /\ pc' = "save"
        /\ history' = [kind |-> "torn", images |-> {}] /\ UNCHANGED amiss
     \/ "plugin" \notin amiss /\ pc' = "store"
        /\ amiss' = amiss \cup {"history"} /\ UNCHANGED history
     \/ "plugin" \in amiss /\ pc' = "store" /\ UNCHANGED <<history, amiss>>
  /\ UNCHANGED <<files, cacheFile, remote, dist, memory, failed, sent, edited, result, runs>>

\* Mutant of Save: nothing is written if the run has uploaded nothing.
SaveIfSent ==
  /\ pc = "save"
  /\ history' = IF sent = {} THEN history ELSE [kind |-> "whole", images |-> hist]
  /\ pc' = "store"
  /\ UNCHANGED <<files, cacheFile, remote, dist, memory, observed, runs>>

\* Nobody asks whether the writing went well.
Save ==
  /\ pc = "save"
  /\ \/ history' = [kind |-> "whole", images |-> hist] /\ UNCHANGED amiss
     \/ amiss' = amiss \cup {"history"} /\ UNCHANGED history
  /\ pc' = "store"
  /\ UNCHANGED <<files, cacheFile, remote, dist, memory, failed, sent, edited, result, runs>>

\* Mutant of Unchanged: deleted files are not noticed.
UnchangedCount == changed = 0

\* MakerCache::store.
Unchanged == changed = 0 /\ Size(state) = Size(pre)

SkipStore ==
  /\ pc = "store" /\ Unchanged
  /\ pc' = "wipe"
  /\ UNCHANGED <<files, disk, memory, observed, runs>>

\* The file is truncated first; some entries, in any order, are on disk before
\* the last.
Store ==
  /\ pc = "store" /\ ~Unchanged
  /\ \E some \in SUBSET {f \in Files : state[f] # NoEntry} :
       cacheFile' = [kind |-> "torn",
                     entries |-> [f \in Files |-> IF f \in some THEN state[f] ELSE NoEntry]]
  /\ pc' = "write"
  /\ UNCHANGED <<files, history, remote, dist, memory, observed, runs>>

Write ==
  /\ pc = "write"
  /\ cacheFile' = [kind |-> "whole", entries |-> state]
  /\ pc' = "wipe"
  /\ UNCHANGED <<files, history, remote, dist, memory, observed, runs>>

\* The file cannot be opened, which is logged, or not written to the end, which
\* nobody asks about.
StoreFails ==
  /\ pc = "write" \/ (pc = "store" /\ ~Unchanged)
  /\ pc' = "wipe" /\ amiss' = amiss \cup {"cache"}
  /\ UNCHANGED <<files, disk, memory, failed, sent, edited, result, runs>>

----------------------------------------------------------------------------
\* Maker::generate.
Wipe ==
  /\ pc = "wipe"
  /\ dist' = NoEntries
  /\ pc' = "render"
  /\ UNCHANGED <<files, cacheFile, history, remote, memory, observed, runs>>

Render ==
  /\ pc = "render"
  /\ dist' = parsed
  /\ Exit("made")
  /\ UNCHANGED <<files, cacheFile, history, remote, failed, amiss, sent, edited, runs>>

----------------------------------------------------------------------------
Next ==
  \/ \E f \in Files : Delete(f) \/ UseCached(f) \/ Parse(f) \/ ParseFails(f)
  \/ \E f \in Files, broken \in BOOLEAN : Edit(f, broken)
  \/ \E ign \in BOOLEAN : Start(ign)
  \/ StartDies \/ InitPlugins \/ SmmsLeftOut \/ Kill
  \/ \E r \in inHand, taken \in SUBSET Images : RunAndCache(r, taken)
  \/ Parsed
  \/ Destroy \/ Save \/ SkipStore \/ Store \/ Write \/ StoreFails
  \/ Wipe \/ Render

Spec == Init /\ [][Next]_vars

----------------------------------------------------------------------------
(***************************************************************************)
(* Properties.                                                             *)
(***************************************************************************)
IsFresh(entries) ==
  \A f \in Files : entries[f] # NoEntry /\ src[f] # 0 /\ entries[f].mtime = src[f]
                     => entries[f].content = src[f]

\* maker.hpp:71-78, 297-307: an entry whose time is the file's holds the file's
\* content, however edits and kills fall between listing, parsing and storing:
\* matching by time is enough.
CacheFresh == IsFresh(cacheFile.entries) /\ IsFresh(pre) /\ IsFresh(state)

\* maker.hpp:261: the cache file is not written when no post was parsed and the
\* number of entries is the same; what it holds is then what would have been
\* written, unless it could not be read.
SkipIsSound ==
  pc = "store" /\ Unchanged /\ ~ignore /\ "load" \notin amiss => cacheFile.entries = state

\* maker.hpp:620-630: a run that ends, during which nobody edited and every
\* file could be parsed, leaves the site made from the files as they are,
\* whatever earlier runs have left in the cache.
SiteIsSource ==
  result = "made" /\ ~edited /\ ~failed
    => \A f \in Files : IF src[f] = 0 THEN dist[f] = NoEntry
                                      ELSE dist[f] # NoEntry /\ dist[f].content = src[f]

\* maker.hpp:251, smms.hpp:361: both files are truncated before they are
\* written, and a run that finds one cut short may die.  A run that gets through
\* and parses every file puts both right, each unless this run could not write
\* it: the history is whole if Smms was among the plugins, the cache holds
\* what the site shows, and is whole if it was to be ignored.
RunRepairs ==
  /\ result = "made" /\ ~failed =>
       /\ amiss \cap {"plugin", "history"} = {} => history.kind = "whole"
       /\ "cache" \notin amiss => cacheFile.entries = dist
  /\ pc = "wipe" /\ ~failed /\ ignore /\ "cache" \notin amiss => cacheFile.kind = "whole"

\* smms.hpp:8-10: an image that is not uploaded yet is uploaded, and that is
\* kept in the cache, if every file could be opened and written.
UploadsAreKept == result = "made" /\ pc = "off" /\ amiss = {} => sent \subseteq history.images
=============================================================================
