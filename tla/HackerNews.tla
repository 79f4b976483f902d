----------------------------- MODULE HackerNews -----------------------------
(***************************************************************************)
(* task/hacker_news.cpp and storage/hn_hnsw.hpp: the jobs that follow      *)
(* Hacker News.  Each job is a run of the program and one runs at a time:  *)
(* crawl_hn appends the stories above the last crawl's item to the         *)
(* directory of the hour, hn_story_to_emb turns the stories of a version   *)
(* into vectors, build_hnsw_index makes the index of all vectors, load     *)
(* reads the stories back.  A run may be killed anywhere; what it has on   *)
(* disk by then stays.  The pool is used as TaskPool promises: a task that *)
(* was accepted runs once, in any order.                                   *)
(*                                                                         *)
(* A line of a file is written at once; a small file is truncated first    *)
(* and is "torn" until it is written.                                      *)
(***************************************************************************)
EXTENDS Integers, Sequences, FiniteSets, SequencesExt

CONSTANTS
  UrlOf,      \* the address each item has; its domain is 1 .. the number of items
  NoUrl,      \* of an item that is no story, is dead, or has no address
  Word,       \* 2^32, the range of uint32_t
  BatchSize,  \* MODEL_BATCH_SIZE
  MaxHour,    \* bound: hours, 1 .. MaxHour
  MaxRuns     \* bound: runs in all

Ids == DOMAIN UrlOf
Hours == 1 .. MaxHour

\* There is an item, and an hour; identifiers are numbers of 32 bits.
ASSUME IdsAssumption == IsFiniteSet(Ids) /\ Ids = 1 .. Cardinality(Ids) /\ Ids # {} /\ Cardinality(Ids) < Word
ASSUME BoundsAssumption == Word \in Nat /\ BatchSize \in Nat \ {0} /\ MaxHour \in Nat \ {0} /\ MaxRuns \in Nat

VARIABLES
  hour,     \* the clock
  newest,   \* the latest item there is
  crawled,  \* the versions: hours that have a directory with a story file
  story,    \* hn_story.json of each version: the items, a line each
  meta,     \* hn_story_meta.json: "none", "torn" or "whole", and max_item_id
  embs,     \* hn_story_emb.json: the items embedded, a line each
  embMeta,  \* hn_story_emb_meta.json: likewise, and cnt
  index,    \* the index file, and its labels
  pc,       \* the job and where it is; "off" between runs
  crawl,    \* crawl_hn
  embed,    \* hn_story_to_emb
  load,     \* load_fwd
  cut,      \* versions into which a crawl was killed
  lost,     \* items whose latest fetch failed
  runs

world == <<hour, newest>>
storyFiles == <<crawled, story, meta>>
embFiles == <<embs, embMeta>>
history == <<cut, lost, runs>>
vars == <<world, storyFiles, embFiles, index, pc, crawl, embed, load, history>>

NoFile == [kind |-> "none", value |-> 0]
TornFile == [kind |-> "torn", value |-> 0]
Whole(n) == [kind |-> "whole", value |-> n]
SmallFile == [kind : {"none", "torn", "whole"}, value : Nat]

NoCrawl == [version |-> 0, max |-> 0, last |-> 0, next |-> 0, flying |-> {}, ready |-> <<>>,
            taken |-> 0, marks |-> {}]
NoEmbed == [cands |-> {}, version |-> 0, read |-> 0, batch |-> 0, cnt |-> 0, finished |-> FALSE,
            flying |-> {}, ready |-> <<>>, waiting |-> FALSE, taken |-> 0, failed |-> FALSE]
NoLoad == [todo |-> {}, fwd |-> {}]

\* The records: those of crawl_hn, of hn_story_to_emb, of load, and the index file.
Answers == [id : Ids, ok : BOOLEAN]
CrawlTypes == [version : Hours \cup {0}, max : Nat, last : Nat, next : Nat, flying : SUBSET Ids,
               ready : Seq(Answers), taken : Nat, marks : SUBSET Range(UrlOf)]
EmbedTypes == [cands : SUBSET Hours, version : Hours \cup {0}, read : Nat, batch : Nat, cnt : Nat,
               finished : BOOLEAN, flying : SUBSET (Nat \ {0}), ready : Seq(Ids),
               waiting : BOOLEAN, taken : Nat, failed : BOOLEAN]
LoadTypes == [todo : SUBSET Hours, fwd : SUBSET Ids]
IndexTypes == [kind : {"none", "torn", "whole"}, labels : SUBSET Ids]

TypeOK ==
  /\ hour \in Hours /\ newest \in Ids
  /\ crawled \in SUBSET Hours /\ story \in [Hours -> Seq(Ids)] /\ meta \in [Hours -> SmallFile]
  /\ embs \in [Hours -> Seq(Ids)] /\ embMeta \in [Hours -> SmallFile]
  /\ index \in IndexTypes
  /\ pc \in {"off", "crawl", "crawlMeta", "cands", "embed", "embedMeta", "build",
            "saveIndex", "load"}
  /\ crawl \in CrawlTypes /\ embed \in EmbedTypes /\ load \in LoadTypes
  /\ cut \in SUBSET Hours /\ lost \in SUBSET Ids /\ runs \in Nat

Init ==
  /\ hour = 1 /\ newest = 1
  /\ crawled = {} /\ story = [h \in Hours |-> <<>>] /\ meta = [h \in Hours |-> NoFile]
  /\ embs = [h \in Hours |-> <<>>] /\ embMeta = [h \in Hours |-> NoFile]
  /\ index = [kind |-> "none", labels |-> {}]
  /\ pc = "off" /\ crawl = NoCrawl /\ embed = NoEmbed /\ load = NoLoad
  /\ cut = {} /\ lost = {} /\ runs = 0

----------------------------------------------------------------------------
\* A run asks for the hour and for the newest item once, when it starts: it makes
\* no difference to let both change between runs only.
Tick ==
  /\ pc = "off" /\ hour < MaxHour
  /\ hour' = hour + 1
  /\ UNCHANGED <<newest, storyFiles, embFiles, index, pc, crawl, embed, load, history>>

NewItem ==
  /\ pc = "off" /\ newest + 1 \in Ids
  /\ newest' = newest + 1
  /\ UNCHANGED <<hour, storyFiles, embFiles, index, pc, crawl, embed, load, history>>

\* A run is killed, or dies of an exception that nobody catches.
Kill ==
  /\ pc # "off"
  /\ pc' = "off" /\ crawl' = NoCrawl /\ embed' = NoEmbed /\ load' = NoLoad
  /\ cut' = IF pc \in {"crawl", "crawlMeta"} THEN cut \cup {crawl.version} ELSE cut
  /\ UNCHANGED <<world, storyFiles, embFiles, index, lost, runs>>

Start ==
  /\ pc = "off" /\ runs < MaxRuns
  /\ runs' = runs + 1

----------------------------------------------------------------------------
(***************************************************************************)
(* crawl_hn.                                                               *)
(***************************************************************************)
\* Mutant of LastVersionMeta: every crawl starts from the beginning.
LastVersionMetaLost == NoFile

\* get_last_max_item_id: of the last version, even if it has none; before the
\* first there is a directory made by hand.  A torn file ends the program.
LastVersionMeta == IF crawled = {} THEN NoFile ELSE meta[Max(crawled)]

\* max_item_id is that of the site or given on the command line.
StartCrawl(max) ==
  /\ Start
  /\ max <= newest
  /\ LastVersionMeta.kind # "torn"
  /\ crawl' = [NoCrawl EXCEPT !.version = hour, !.max = max, !.last = LastVersionMeta.value,
                              !.next = max]
  /\ crawled' = crawled \cup {hour}
  /\ pc' = "crawl"
  /\ UNCHANGED <<world, story, meta, embFiles, index, embed, load, cut, lost>>

\* The thread that submits the items, from the latest down.
Submit ==
  /\ pc = "crawl" /\ crawl.next > crawl.last
  /\ crawl' = [crawl EXCEPT !.next = @ - 1, !.flying = @ \cup {crawl.next}]
  /\ UNCHANGED <<world, storyFiles, embFiles, index, pc, embed, load, history>>

\* Mutant of Fetched: an item without an answer is left out.
FetchedOrNot(id, ok) ==
  /\ pc \in {"crawl", "crawlMeta"} /\ id \in crawl.flying
  /\ crawl' = [crawl EXCEPT !.flying = @ \ {id},
                            !.ready = IF ok THEN Append(@, [id |-> id, ok |-> ok]) ELSE @]
  /\ UNCHANGED <<world, storyFiles, embFiles, index, pc, embed, load, history>>

\* A task of the pool has its answer, or none.
Fetched(id, ok) ==
  /\ pc \in {"crawl", "crawlMeta"} /\ id \in crawl.flying
  /\ crawl' = [crawl EXCEPT !.flying = @ \ {id}, !.ready = Append(@, [id |-> id, ok |-> ok])]
  /\ UNCHANGED <<world, storyFiles, embFiles, index, pc, embed, load, history>>

\* Mutant of Expected: one too few.
ExpectedShort == (crawl.max - crawl.last - 1) % Word

\* expected_id_cnt, a difference of unsigned numbers.
Expected == (crawl.max - crawl.last) % Word

Consume ==
  LET item == Head(crawl.ready)
      keeps == item.ok /\ UrlOf[item.id] \notin crawl.marks \cup {NoUrl}
  IN
  /\ pc = "crawl" /\ crawl.taken < Expected
  /\ crawl.ready # <<>>
  /\ crawl' = [crawl EXCEPT !.ready = Tail(@), !.taken = @ + 1,
                            !.marks = IF keeps THEN @ \cup {UrlOf[item.id]} ELSE @]
  /\ story' = IF keeps THEN [story EXCEPT ![crawl.version] = Append(@, item.id)] ELSE story
  /\ lost' = IF item.ok THEN lost \ {item.id} ELSE lost \cup {item.id}
  /\ UNCHANGED <<world, crawled, meta, embFiles, index, pc, embed, load, cut, runs>>

\* The loop ends, pf.wait() returns, the meta file is opened ...
OpenMeta ==
  /\ pc = "crawl" /\ crawl.taken = Expected /\ crawl.next <= crawl.last
  /\ meta' = [meta EXCEPT ![crawl.version] = TornFile]
  /\ pc' = "crawlMeta"
  /\ UNCHANGED <<world, crawled, story, embFiles, index, crawl, embed, load, history>>

\* ... and written.
WriteMeta ==
  /\ pc = "crawlMeta"
  /\ meta' = [meta EXCEPT ![crawl.version] = Whole(crawl.max)]
  /\ pc' = "off" /\ crawl' = NoCrawl
  /\ UNCHANGED <<world, crawled, story, embFiles, index, embed, load, history>>

CrawlStep == Submit \/ Consume \/ OpenMeta \/ WriteMeta \/ \E id \in Ids, ok \in BOOLEAN : Fetched(id, ok)

----------------------------------------------------------------------------
(***************************************************************************)
(* versioned_hn_story_to_emb and hn_story_to_emb.                          *)
(***************************************************************************)
StartEmbed ==
  /\ Start
  /\ embed' = [NoEmbed EXCEPT !.cands = {v \in crawled : embMeta[v].kind = "none"}]
  /\ pc' = "cands"
  /\ UNCHANGED <<world, storyFiles, embFiles, index, crawl, load, cut, lost>>

\* The next version, in the order of the directory; its vectors are truncated.
\* The model may not answer, and then the version is left out.
NextVersion(v) ==
  /\ pc = "cands" /\ v \in embed.cands
  /\ embs' = [embs EXCEPT ![v] = <<>>]
  /\ embed' = [NoEmbed EXCEPT !.cands = embed.cands \ {v}, !.version = v]
  /\ pc' = "embed"
  /\ UNCHANGED <<world, storyFiles, embMeta, index, crawl, load, history>>

SkipVersion(v) ==
  /\ pc = "cands" /\ v \in embed.cands
  /\ embed' = [embed EXCEPT !.cands = @ \ {v}]
  /\ UNCHANGED <<world, storyFiles, embFiles, index, pc, crawl, load, history>>

EndEmbed ==
  /\ pc = "cands" /\ embed.cands = {}
  /\ pc' = "off" /\ embed' = NoEmbed
  /\ UNCHANGED <<world, storyFiles, embFiles, index, crawl, load, history>>

\* Every step of the embedding of a version changes embed and no more.
EmbedOnly ==
  UNCHANGED <<world, storyFiles, embFiles, index, pc, crawl, load, history>>

Lines == story[embed.version]
BatchEnd(first) == IF first + BatchSize - 1 < Len(Lines) THEN first + BatchSize - 1 ELSE Len(Lines)

\* The producer hands a batch to the pool ...
SendBatch ==
  LET first == embed.read + 1 IN
  /\ pc = "embed"
  /\ embed.batch = 0 /\ embed.read < Len(Lines)
  /\ embed' = [embed EXCEPT !.flying = @ \cup {first}, !.read = BatchEnd(first),
                            !.batch = BatchEnd(first) - embed.read]
  /\ EmbedOnly

\* ... and counts it.
CountBatch ==
  /\ pc = "embed"
  /\ embed.batch # 0
  /\ embed' = [embed EXCEPT !.cnt = @ + embed.batch, !.batch = 0]
  /\ EmbedOnly

Finish ==
  /\ pc = "embed"
  /\ ~embed.finished /\ embed.batch = 0 /\ embed.read = Len(Lines)
  /\ embed' = [embed EXCEPT !.finished = TRUE]
  /\ EmbedOnly

\* A task of the pool: the model answers with a vector for each story of the
\* batch, or with none.
Embedded(first, ok) ==
  /\ pc = "embed"
  /\ first \in embed.flying
  /\ embed' = [embed EXCEPT !.flying = @ \ {first}, !.failed = @ \/ ~ok,
                            !.ready = IF ok THEN @ \o SubSeq(Lines, first, BatchEnd(first)) ELSE @]
  /\ EmbedOnly

\* Mutant of GoOn: the count is not looked at.
GoOnUnfinished == ~embed.finished

\* The consumer: the test of its loop, and the wait for a vector inside it.
GoOn == ~embed.finished \/ embed.taken < embed.cnt

Await ==
  /\ pc = "embed"
  /\ ~embed.waiting /\ GoOn
  /\ embed' = [embed EXCEPT !.waiting = TRUE]
  /\ EmbedOnly

Take ==
  /\ pc = "embed" /\ embed.waiting /\ embed.ready # <<>>
  /\ embs' = [embs EXCEPT ![embed.version] = Append(@, Head(embed.ready))]
  /\ embed' = [embed EXCEPT !.ready = Tail(@), !.taken = @ + 1, !.waiting = FALSE]
  /\ UNCHANGED <<world, storyFiles, embMeta, index, pc, crawl, load, history>>

\* pf.wait() and cf.wait() return, the meta file is opened ...
OpenEmbMeta ==
  /\ pc = "embed" /\ embed.finished /\ ~embed.waiting /\ ~GoOn
  /\ embMeta' = [embMeta EXCEPT ![embed.version] = TornFile]
  /\ pc' = "embedMeta"
  /\ UNCHANGED <<world, storyFiles, embs, index, crawl, embed, load, history>>

\* ... and written.
WriteEmbMeta ==
  /\ pc = "embedMeta"
  /\ embMeta' = [embMeta EXCEPT ![embed.version] = Whole(embed.cnt)]
  /\ pc' = "cands" /\ embed' = [NoEmbed EXCEPT !.cands = embed.cands]
  /\ UNCHANGED <<world, storyFiles, embs, index, crawl, load, history>>

EmbedStep ==
  \/ \E v \in Hours : NextVersion(v) \/ SkipVersion(v)
  \/ EndEmbed \/ SendBatch \/ CountBatch \/ Finish \/ Await \/ Take \/ OpenEmbMeta \/ WriteEmbMeta
  \/ \E first \in embed.flying, ok \in BOOLEAN : Embedded(first, ok)

----------------------------------------------------------------------------
(***************************************************************************)
(* build_hnsw_index and HackNewsHnsw::load.                                *)
(***************************************************************************)
\* load_meta: a torn file is no JSON and ends the program.
MetaLoads == \A v \in crawled : embMeta[v].kind # "torn"
Capacity == MapThenSumSet(LAMBDA v : embMeta[v].value, crawled)

\* fill: the items whose vectors are in files that have their meta file.
Labels == UNION {Range(embs[v]) : v \in {h \in crawled : embMeta[h].kind = "whole"}}

StartBuild ==
  /\ Start
  /\ MetaLoads /\ Capacity > 0
  /\ pc' = "build"
  /\ UNCHANGED <<world, storyFiles, embFiles, index, crawl, embed, load, cut, lost>>

\* Every line is a task of the pool; addPoint refuses a label beyond the
\* capacity by an exception, the line is not counted and the run waits for ever.
\* Then the index file is opened ...
OpenIndex ==
  /\ pc = "build"
  /\ Cardinality(Labels) <= Capacity
  /\ index' = [kind |-> "torn", labels |-> {}]
  /\ pc' = "saveIndex"
  /\ UNCHANGED <<world, storyFiles, embFiles, crawl, embed, load, history>>

\* ... and written.
SaveIndex ==
  /\ pc = "saveIndex"
  /\ index' = [kind |-> "whole", labels |-> Labels]
  /\ pc' = "off"
  /\ UNCHANGED <<world, storyFiles, embFiles, crawl, embed, load, history>>

StartLoad ==
  /\ Start
  /\ MetaLoads
  /\ load' = [NoLoad EXCEPT !.todo = crawled]
  /\ pc' = "load"
  /\ UNCHANGED <<world, storyFiles, embFiles, index, crawl, embed, cut, lost>>

\* load_fwd waits until its map is as large as the file is long.
Repeats(v) == Cardinality(Range(story[v])) < Len(story[v])

LoadVersion(v) ==
  /\ pc = "load" /\ v \in load.todo
  /\ ~Repeats(v)
  /\ load' = [load EXCEPT !.todo = @ \ {v}, !.fwd = @ \cup Range(story[v])]
  /\ UNCHANGED <<world, storyFiles, embFiles, index, pc, crawl, embed, history>>

EndLoad ==
  /\ pc = "load" /\ load.todo = {}
  /\ pc' = "off" /\ load' = NoLoad
  /\ UNCHANGED <<world, storyFiles, embFiles, index, crawl, embed, history>>

ReadStep == OpenIndex \/ SaveIndex \/ EndLoad \/ \E v \in Hours : LoadVersion(v)

----------------------------------------------------------------------------
RunStep == CrawlStep \/ EmbedStep \/ ReadStep

Next ==
  \/ Tick \/ NewItem \/ Kill
  \/ \E max \in Ids : StartCrawl(max)
  \/ StartEmbed \/ StartBuild \/ StartLoad
  \/ RunStep

Spec == Init /\ [][Next]_vars

----------------------------------------------------------------------------
(***************************************************************************)
(* Properties.                                                             *)
(***************************************************************************)
\* hacker_news.cpp:82-166: a version's meta file says that everything up to its
\* item has been seen; then the address of every such story is in some version,
\* whatever was killed on the way, unless its fetch failed the last time.
NothingMissed ==
  \A v \in Hours : meta[v].kind = "whole" =>
    \A id \in 1 .. meta[v].value :
      UrlOf[id] # NoUrl /\ id \notin lost =>
        \E h \in crawled : \E k \in Range(story[h]) : UrlOf[k] = UrlOf[id]

\* hacker_news.cpp:90, 162, hn_hnsw.hpp:248: story files are appended to, meta
\* files truncated and then written.  A file repeats an item, for which load_fwd
\* then waits in vain, or a meta file is left torn, only if a crawl into that
\* version was killed; and a torn meta file is the last version's, so that no
\* later version is built on it.
DamageOnlyAfterKill ==
  \A v \in Hours :
    /\ Repeats(v) \/ (pc = "off" /\ meta[v].kind = "torn") => v \in cut
    /\ meta[v].kind = "torn" => v = Max(crawled)

\* hacker_news.cpp:263-298: the producer's count and the consumer agree, whichever
\* of them is ahead: a version that has its meta file has exactly that many vectors,
\* one for each of its first lines.
VectorsAreStories ==
  \A v \in Hours : embMeta[v].kind = "whole" =>
    /\ Len(embs[v]) = embMeta[v].value /\ embMeta[v].value <= Len(story[v])
    /\ \A k \in Ids : Cardinality({i \in DOMAIN embs[v] : embs[v][i] = k})
                    = Cardinality({i \in 1 .. embMeta[v].value : story[v][i] = k})

\* The job runs and no step of it is possible, whatever the tasks answer.  (That this
\* is what ~ENABLED RunStep says, TLC asserts in every state.)
Stuck ==
  \/ /\ pc = "crawl" /\ crawl.next <= crawl.last /\ crawl.flying = {}
     /\ crawl.taken # Expected /\ (crawl.taken < Expected => crawl.ready = <<>>)
  \/ /\ pc = "embed" /\ embed.finished /\ embed.batch = 0 /\ embed.read >= Len(Lines)
     /\ embed.flying = {} /\ embed.waiting /\ embed.ready = <<>>
  \/ pc = "build" /\ Cardinality(Labels) > Capacity
  \/ pc = "load" /\ load.todo # {} /\ \A v \in load.todo : Repeats(v)

\* hacker_news.cpp:123, 265, 452, hn_hnsw.hpp:248: each job ends in a loop that waits
\* for a count.  It waits for ever in these cases only: a crawl was told to start
\* below the last one, the model failed on a batch, the consumer had every vector
\* and went to wait for one more before the producer had said that it was done, or
\* a story file repeats an item.  (The index always has room.)
WaitsOnlyIf ==
  Stuck =>
    \/ pc = "crawl" /\ crawl.last > crawl.max
    \/ pc = "embed" /\ embed.finished /\ (embed.failed \/ embed.taken = embed.cnt)
    \/ pc = "load" /\ \E v \in load.todo : Repeats(v)
=============================================================================
