--------------------------- MODULE HackerNewsProof ---------------------------
(***************************************************************************)
(* What HackerNews promises, for any number of items, hours and runs, any  *)
(* size of a batch, and any addresses.                                     *)
(*                                                                         *)
(* FilesInv, CrawlJob and EmbedJob are about the records.  On them rest    *)
(*  - SeenInv: a crawl has every item it has done with, and the last crawl *)
(*    had those below (NothingMissed);                                     *)
(*  - OnceInv: the items of a crawl are in one place each, below what is   *)
(*    left to submit and above what the file had (DamageOnlyAfterKill);    *)
(*  - MatchInv: every vector, written or on its way, is of a line of its   *)
(*    own that was read and that no task has any more (VectorsAreStories). *)
(*  - AllArrive: and every such line has its vector, unless the model      *)
(*    failed on a batch; with a bound on a sum over the versions this says *)
(*    where a job can wait for ever (WaitsOnlyIf).                         *)
(***************************************************************************)
EXTENDS HackerNews, FiniteSetTheorems, SequenceTheorems, WellFoundedInduction, TLAPS

Crawling == pc \in {"crawl", "crawlMeta"}
Embedding == pc \in {"embed", "embedMeta"}

\* What holds of the files apart from their types.
FilesInv ==
  /\ crawled \subseteq 1 .. hour
  /\ \A v \in Hours :
       /\ v \notin crawled => story[v] = <<>> /\ meta[v] = NoFile
       /\ meta[v].kind # "whole" => meta[v].value = 0
       /\ meta[v].value \in Ids \cup {0}

\* What holds of the records of the job that runs.  A crawl submits the items from
\* max down to last, if max is not already below it.
CrawlJob ==
  /\ Crawling =>
       /\ crawl.version = hour /\ hour \in crawled
       /\ crawl.max \in Ids /\ crawl.last \in Ids \cup {0}
       /\ crawl.next \in 0 .. crawl.max /\ (crawl.next = crawl.max \/ crawl.next >= crawl.last)
       /\ crawl.flying \subseteq crawl.next + 1 .. crawl.max
       /\ Cardinality(crawl.flying) + Len(crawl.ready) + crawl.taken + crawl.next = crawl.max
  /\ pc = "crawlMeta" => crawl.taken = Expected /\ crawl.next <= crawl.last
EmbedJob ==
  /\ pc \in {"cands", "embed", "embedMeta"} => \A v \in embed.cands : embMeta[v].kind = "none"
  /\ Embedding => embed.version \in Hours \ embed.cands
  /\ pc = "embed" =>
       /\ embMeta[embed.version].kind = "none"
       /\ embed.read <= Len(Lines) /\ embed.cnt + embed.batch = embed.read
       /\ embed.taken = Len(embs[embed.version])
       /\ embed.finished => embed.read = Len(Lines) /\ embed.batch = 0
  /\ pc = "embedMeta" => embMeta[embed.version].kind = "torn"

RecordsInv == TypeOK /\ FilesInv /\ CrawlJob /\ EmbedJob

----------------------------------------------------------------------------
\* The address of an item is in some version, or need not be.
InSome(url) == \E h \in crawled : \E k \in Range(story[h]) : UrlOf[k] = url
Seen(id) == UrlOf[id] # NoUrl /\ id \notin lost => InSome(UrlOf[id])

\* An item that was fetched and is not taken yet.
Waits(id) == \E i \in DOMAIN crawl.ready : crawl.ready[i].id = id

SeenInv ==
  /\ NothingMissed
  /\ Crawling =>
       /\ \A id \in 1 .. crawl.last : Seen(id)
       /\ \A id \in crawl.next + 1 .. crawl.max : id \in crawl.flying \/ Waits(id) \/ Seen(id)
       /\ \A url \in crawl.marks : \E k \in Range(story[crawl.version]) : UrlOf[k] = url

----------------------------------------------------------------------------
\* The answers that wait are of different items, each submitted and not with a task.
AnswersInv ==
  Crawling =>
    /\ \A i \in DOMAIN crawl.ready :
         crawl.ready[i].id \in (crawl.next + 1 .. crawl.max) \ crawl.flying
    /\ \A i, j \in DOMAIN crawl.ready : crawl.ready[i].id = crawl.ready[j].id => i = j

\* Where the items in the file of v are from: a crawl that was ended, or the one
\* that runs, which is done with them.
CrawledNow(v) == Crawling /\ v = crawl.version
Placed(v, k) ==
  IF CrawledNow(v)
  THEN k <= crawl.last \/ (k \in (crawl.next + 1 .. crawl.max) \ crawl.flying /\ ~Waits(k))
  ELSE k <= meta[v].value

FilesOnce ==
  \A v \in Hours \ cut :
    /\ IsInjective(story[v])
    /\ \A k \in Range(story[v]) : Placed(v, k)
TornInv ==
  \A v \in Hours : meta[v].kind = "torn" =>
    /\ v \in crawled /\ \A h \in crawled : h <= v
    /\ v \in cut \/ (pc = "crawlMeta" /\ v = crawl.version)
OnceInv == AnswersInv /\ FilesOnce /\ TornInv

----------------------------------------------------------------------------
\* vecs are vectors of lines, each of a line of its own with a number in avail.
Lined(vecs, lines, avail) ==
  \E f \in [DOMAIN vecs -> avail] : IsInjective(f) /\ \A i \in DOMAIN vecs : vecs[i] = lines[f[i]]
Matches(vecs, lines, n) == Len(vecs) = n /\ n <= Len(lines) /\ Lined(vecs, lines, 1 .. n)

\* The lines that a batch is of, and those that are with no task.
BatchOf(first) == first .. BatchEnd(first)
Available == {k \in 1 .. embed.read : \A first \in embed.flying : k \notin BatchOf(first)}

BatchesInv ==
  pc = "embed" => \A first \in embed.flying :
    /\ first <= BatchEnd(first) /\ BatchEnd(first) <= embed.read
    /\ \A other \in embed.flying : other # first => BatchOf(first) \cap BatchOf(other) = {}
MatchInv ==
  /\ BatchesInv
  /\ \A v \in Hours : embMeta[v].kind = "whole" => Matches(embs[v], story[v], embMeta[v].value)
  /\ pc = "embed" => Lined(embs[embed.version] \o embed.ready, Lines, Available)
  /\ pc = "embedMeta" => Matches(embs[embed.version], Lines, embed.cnt)

----------------------------------------------------------------------------
(***************************************************************************)
(* Items, the greatest of a set, remainders.                               *)
(***************************************************************************)
\* Items are numbers from 1 on, with no gap, and fit into a word.
LEMMA IdsAre ==
  /\ Ids \subseteq Nat \ {0} /\ 1 \in Ids
  /\ \A n \in Ids : n < Word /\ \A k \in 1 .. n : k \in Ids
<1> DEFINE n == Cardinality(Ids)
<1>1. n \in Nat /\ Ids = 1 .. n /\ Ids # {} /\ n < Word
  BY IdsAssumption, FS_CardinalityType
<1> HIDE DEF n
<1> QED BY <1>1, BoundsAssumption

\* The greatest element of a set that has one.
LEMMA MaxIs ==
  ASSUME NEW S \in SUBSET Nat, NEW n \in S, \A k \in S : k <= n
  PROVE  Max(S) = n
<1>1. \E m \in S : \A k \in S : m >= k
  OBVIOUS
<1>2. Max(S) \in S /\ \A k \in S : Max(S) >= k
  BY <1>1, Zenon DEF Max
<1>3. PICK m \in S : m = Max(S) /\ m >= n
  BY <1>2
<1>4. m <= n /\ m \in Nat /\ n \in Nat
  OBVIOUS
<1> QED BY <1>3, <1>4

\* A set of numbers that is not empty has a least one, and a greatest if it is finite.
LEMMA Least ==
  ASSUME NEW S \in SUBSET Nat, S # {}
  PROVE  \E m \in S : \A k \in S : m <= k
<1> DEFINE Less == OpToRel(<, Nat)
<1>1. IsWellFoundedOn(Less, Nat)
  BY NatLessThanWellFounded
<1>2. PICK m \in S : \A k \in S : <<k, m>> \notin Less
  <2> HIDE DEF Less
  <2> QED BY <1>1, WFMin
<1>3. \A k \in S : ~ (k < m)
  BY <1>2 DEF OpToRel
<1> QED BY <1>3

LEMMA Greatest ==
  ASSUME NEW m \in Nat, NEW S \in SUBSET (1 .. m), S # {}
  PROVE  \E n \in S : \A k \in S : k <= n
<1> DEFINE Above == {m - k : k \in S}
<1>1. Above \in SUBSET Nat /\ Above # {}
  <2>1. \A k \in S : m - k \in Nat
    OBVIOUS
  <2> QED BY <2>1
<1>2. PICK a \in Above : \A b \in Above : a <= b
  BY <1>1, Least
<1>3. PICK n \in S : a = m - n
  BY <1>2
<1>4. ASSUME NEW k \in S PROVE k <= n
  <2>1. m - k \in Above
    OBVIOUS
  <2> QED BY <2>1, <1>2, <1>3
<1> QED BY <1>4

\* crawl_hn expects the items from last to max, and never none if max is below last.
LEMMA ExpectedIs ==
  ASSUME crawl.max \in Ids, crawl.last \in Ids \cup {0}
  PROVE  /\ crawl.last <= crawl.max => Expected = crawl.max - crawl.last
         /\ crawl.last > crawl.max => Expected > 0
<1> DEFINE max == crawl.max
           last == crawl.last
<1>1. Word \in Nat /\ max \in Nat /\ last \in Nat /\ max < Word /\ last < Word
  <2>1. \A n \in Ids : n \in Nat /\ n < Word
    BY IdsAre
  <2>2. 0 < Word
    BY <2>1, IdsAre, BoundsAssumption
  <2> QED BY <2>1, <2>2, BoundsAssumption
<1>2. Expected = (max - last) % Word
  BY DEF Expected
<1> HIDE DEF max, last
<1>3. max - last \in Nat => (max - last) % Word = max - last
  BY <1>1
<1>4. max - last < 0 => (max - last) % Word = max - last + Word
  BY <1>1
<1>5. last <= max => Expected = max - last
  BY <1>1, <1>2, <1>3
<1>6. last > max => Expected > 0
  BY <1>1, <1>2, <1>4
<1> QED BY <1>5, <1>6 DEF max, last

----------------------------------------------------------------------------
(***************************************************************************)
(* The records.                                                            *)
(***************************************************************************)
LEMMA InitRecords == Init => RecordsInv
<1> SUFFICES ASSUME Init PROVE RecordsInv
  OBVIOUS
<1>1. 1 \in Hours /\ 1 \in Ids
  BY BoundsAssumption, IdsAre DEF Hours
<1>2. NoCrawl \in CrawlTypes /\ NoEmbed \in EmbedTypes /\ NoLoad \in LoadTypes
  BY DEF NoCrawl, NoEmbed, NoLoad, CrawlTypes, EmbedTypes, LoadTypes
<1>3. NoFile \in SmallFile /\ [kind |-> "none", labels |-> {}] \in IndexTypes
  BY DEF NoFile, SmallFile, IndexTypes
<1>4. [h \in Hours |-> <<>>] \in [Hours -> Seq(Ids)] /\ [h \in Hours |-> NoFile] \in [Hours -> SmallFile]
  BY <1>3
<1>5. TypeOK
  BY <1>1, <1>2, <1>3, <1>4 DEF Init, TypeOK
<1>6. FilesInv
  BY DEF Init, FilesInv, NoFile
<1>7. CrawlJob /\ EmbedJob
  BY DEF Init, CrawlJob, EmbedJob, Crawling, Embedding
<1> QED BY <1>5, <1>6, <1>7 DEF RecordsInv

\* A batch ends with one of the lines, and not before it starts.
LEMMA BatchEndIs ==
  ASSUME TypeOK, embed.version \in Hours, NEW first \in Nat \ {0}
  PROVE  /\ Lines \in Seq(Ids) /\ Len(Lines) \in Nat
         /\ BatchEnd(first) \in Nat /\ BatchEnd(first) <= Len(Lines)
         /\ first <= Len(Lines) => first <= BatchEnd(first)
<1>1. Lines \in Seq(Ids)
  BY DEF TypeOK, Lines
<1> QED BY <1>1, BoundsAssumption DEF BatchEnd

\* max_item_id of the last version.
LEMMA LastVersionIs ==
  ASSUME TypeOK, FilesInv
  PROVE  \/ crawled = {} /\ LastVersionMeta = NoFile
         \/ \E v \in crawled : (\A h \in crawled : h <= v) /\ LastVersionMeta = meta[v]
<1>1. CASE crawled = {}
  BY <1>1 DEF LastVersionMeta
<1>2. CASE crawled # {}
  <2>1. crawled \in SUBSET (1 .. MaxHour) /\ MaxHour \in Nat /\ crawled \in SUBSET Nat
    BY BoundsAssumption DEF TypeOK, Hours
  <2>2. PICK v \in crawled : \A h \in crawled : h <= v
    BY <1>2, <2>1, Greatest
  <2>3. Max(crawled) = v
    BY <2>1, <2>2, MaxIs
  <2> QED BY <1>2, <2>2, <2>3 DEF LastVersionMeta
<1> QED BY <1>1, <1>2

\* A step of a crawl, and what it leaves of the record of crawl_hn.
LEMMA CrawlWith ==
  ASSUME NEW r \in CrawlTypes, NEW ids \in SUBSET Ids, NEW answers \in Seq(Answers), NEW n \in Nat,
         NEW marks \in SUBSET Range(UrlOf)
  PROVE  /\ [r EXCEPT !.flying = ids, !.ready = answers] \in CrawlTypes
         /\ [r EXCEPT !.ready = answers, !.taken = n, !.marks = marks] \in CrawlTypes
BY DEF CrawlTypes

LEMMA CrawlRecords ==
  ASSUME RecordsInv, Next
  PROVE  crawl' \in CrawlTypes
<1>1. NoCrawl \in CrawlTypes /\ crawl \in CrawlTypes
  BY DEF NoCrawl, CrawlTypes, RecordsInv, TypeOK
<1>2. ASSUME NEW max \in Ids, StartCrawl(max) PROVE crawl' \in CrawlTypes
  <2>1. LastVersionMeta.value \in Ids \cup {0}
    BY LastVersionIs DEF RecordsInv, FilesInv, TypeOK, NoFile
  <2>2. hour \in Hours \cup {0} /\ max \in Nat /\ LastVersionMeta.value \in Nat
    <3>1. hour \in Hours
      BY DEF RecordsInv, TypeOK
    <3>2. \A n \in Ids \cup {0} : n \in Nat
      BY IdsAre
    <3> QED BY <2>1, <3>1, <3>2
  <2>3. crawl' = [NoCrawl EXCEPT !.version = hour, !.max = max, !.last = LastVersionMeta.value,
                                 !.next = max]
    BY <1>2 DEF StartCrawl
  <2> QED BY <1>1, <2>2, <2>3 DEF CrawlTypes
<1>3. ASSUME Submit PROVE crawl' \in CrawlTypes
  <2>1. crawl.next \in Nat /\ crawl.last \in Nat /\ crawl.max \in Nat /\ crawl.next > crawl.last
    BY <1>1, <1>3 DEF Submit, CrawlTypes
  <2>2. crawl.next <= crawl.max /\ crawl.max \in Ids
    BY <1>3 DEF Submit, RecordsInv, CrawlJob, Crawling
  <2>3. crawl.next \in Ids /\ crawl.next - 1 \in Nat
    BY <2>1, <2>2, IdsAre
  <2> QED BY <1>1, <1>3, <2>3 DEF Submit, CrawlTypes
<1>4. ASSUME NEW id \in Ids, NEW ok \in BOOLEAN, Fetched(id, ok) PROVE crawl' \in CrawlTypes
  <2> DEFINE answer == [id |-> id, ok |-> ok]
  <2>1. answer \in Answers
    BY DEF Answers
  <2>2. crawl' = [crawl EXCEPT !.flying = crawl.flying \ {id}, !.ready = Append(crawl.ready, answer)]
    BY <1>1, <1>4 DEF Fetched, CrawlTypes
  <2>3. crawl.flying \ {id} \in SUBSET Ids /\ crawl.ready \in Seq(Answers)
    BY <1>1 DEF CrawlTypes
  <2>4. Append(crawl.ready, answer) \in Seq(Answers)
    BY <2>1, <2>3
  <2> QED BY <1>1, <2>2, <2>3, <2>4, CrawlWith
<1>5. ASSUME Consume PROVE crawl' \in CrawlTypes
  <2> DEFINE item == Head(crawl.ready)
             keeps == item.ok /\ UrlOf[item.id] \notin crawl.marks \cup {NoUrl}
             marks == IF keeps THEN crawl.marks \cup {UrlOf[item.id]} ELSE crawl.marks
  <2>1. item \in Answers /\ Tail(crawl.ready) \in Seq(Answers)
    BY <1>1, <1>5 DEF Consume, CrawlTypes
  <2>2. UrlOf[item.id] \in Range(UrlOf)
    BY <2>1 DEF Answers, Range, Ids
  <2>3. marks \in SUBSET Range(UrlOf)
    BY <1>1, <2>2 DEF CrawlTypes
  <2>4. crawl' = [crawl EXCEPT !.ready = Tail(crawl.ready), !.taken = crawl.taken + 1, !.marks = marks]
    BY <1>1, <1>5 DEF Consume, CrawlTypes
  <2>5. crawl.taken + 1 \in Nat
    BY <1>1 DEF CrawlTypes
  <2> HIDE DEF item, keeps, marks
  <2> QED BY <1>1, <2>1, <2>3, <2>4, <2>5, CrawlWith
<1>6. ASSUME WriteMeta \/ Kill PROVE crawl' \in CrawlTypes
  BY <1>1, <1>6 DEF WriteMeta, Kill
<1>7. ASSUME UNCHANGED crawl PROVE crawl' \in CrawlTypes
  BY <1>1, <1>7
<1> QED
  BY <1>2, <1>3, <1>4, <1>5, <1>6, <1>7 DEF Next, RunStep, CrawlStep, EmbedStep, ReadStep, Tick, NewItem,
     StartEmbed, StartBuild, StartLoad, OpenMeta, NextVersion, SkipVersion, EndEmbed, EmbedOnly,
     SendBatch, CountBatch, Finish, Await, Take, OpenEmbMeta, WriteEmbMeta, Embedded, OpenIndex, SaveIndex,
     EndLoad, LoadVersion

\* ... and of the record of hn_story_to_emb ...
LEMMA EmbedRecords ==
  ASSUME RecordsInv, Next
  PROVE  embed' \in EmbedTypes
<1>1. NoEmbed \in EmbedTypes /\ embed \in EmbedTypes
  BY DEF NoEmbed, EmbedTypes, RecordsInv, TypeOK
<1>2. /\ embed.cands \in SUBSET Hours /\ embed.read \in Nat /\ embed.batch \in Nat /\ embed.cnt \in Nat
      /\ embed.flying \in SUBSET (Nat \ {0}) /\ embed.ready \in Seq(Ids) /\ embed.taken \in Nat
      /\ embed.failed \in BOOLEAN
  BY <1>1 DEF EmbedTypes
<1>3. TypeOK /\ (Embedding => embed.version \in Hours)
  BY DEF RecordsInv, EmbedJob
<1>4. crawled \in SUBSET Hours
  BY <1>3 DEF TypeOK
<1>5. ASSUME StartEmbed PROVE embed' \in EmbedTypes
  <2> DEFINE cands == {v \in crawled : embMeta[v].kind = "none"}
  <2>1. cands \in SUBSET Hours /\ embed' = [NoEmbed EXCEPT !.cands = cands]
    BY <1>4, <1>5 DEF StartEmbed
  <2> HIDE DEF cands
  <2> QED BY <1>1, <2>1 DEF EmbedTypes
<1>6. ASSUME NEW v \in Hours, NextVersion(v) PROVE embed' \in EmbedTypes
  <2> DEFINE cands == embed.cands \ {v}
  <2>1. cands \in SUBSET Hours /\ v \in Hours \cup {0}
    BY <1>2
  <2>2. embed' = [NoEmbed EXCEPT !.cands = cands, !.version = v]
    BY <1>6 DEF NextVersion
  <2> HIDE DEF cands
  <2> QED BY <1>1, <2>1, <2>2 DEF EmbedTypes
<1>7. ASSUME NEW v \in Hours, SkipVersion(v) PROVE embed' \in EmbedTypes
  <2> DEFINE cands == embed.cands \ {v}
  <2>1. cands \in SUBSET Hours /\ embed' = [embed EXCEPT !.cands = cands]
    BY <1>1, <1>2, <1>7 DEF SkipVersion, EmbedTypes
  <2> HIDE DEF cands
  <2> QED BY <1>1, <2>1 DEF EmbedTypes
<1>8. ASSUME EndEmbed \/ Kill PROVE embed' \in EmbedTypes
  BY <1>1, <1>8 DEF EndEmbed, Kill
<1>9. ASSUME SendBatch PROVE embed' \in EmbedTypes
  <2> DEFINE first == embed.read + 1
  <2>1. first \in Nat \ {0} /\ embed.version \in Hours /\ embed.read < Len(Lines)
    BY <1>2, <1>3, <1>9 DEF SendBatch, Embedding
  <2>2. BatchEnd(first) \in Nat /\ Len(Lines) \in Nat /\ (first <= Len(Lines) => first <= BatchEnd(first))
    BY <1>3, <2>1, BatchEndIs
  <2> DEFINE end == BatchEnd(first)
             size == end - embed.read
             flying == embed.flying \cup {first}
  <2>3. end \in Nat /\ size \in Nat /\ flying \in SUBSET (Nat \ {0})
    BY <1>2, <2>1, <2>2
  <2>4. embed' = [embed EXCEPT !.flying = flying, !.read = end, !.batch = size]
    BY <1>1, <1>9 DEF SendBatch, EmbedTypes
  <2> HIDE DEF first, end, size, flying
  <2> QED BY <1>1, <2>3, <2>4 DEF EmbedTypes
<1>10. ASSUME CountBatch PROVE embed' \in EmbedTypes
  <2> DEFINE cnt == embed.cnt + embed.batch
  <2>1. cnt \in Nat /\ embed' = [embed EXCEPT !.cnt = cnt, !.batch = 0]
    BY <1>1, <1>2, <1>10 DEF CountBatch, EmbedTypes
  <2> HIDE DEF cnt
  <2> QED BY <1>1, <2>1 DEF EmbedTypes
<1>11. ASSUME Finish \/ Await PROVE embed' \in EmbedTypes
  BY <1>1, <1>11 DEF Finish, Await, EmbedTypes
<1>12. ASSUME NEW first \in embed.flying, NEW ok \in BOOLEAN, Embedded(first, ok) PROVE embed' \in EmbedTypes
  <2> DEFINE vecs == IF ok THEN embed.ready \o SubSeq(Lines, first, BatchEnd(first)) ELSE embed.ready
  <2>1. first \in Nat \ {0} /\ embed.version \in Hours
    BY <1>2, <1>3, <1>12 DEF Embedded, Embedding
  <2>2. Lines \in Seq(Ids) /\ BatchEnd(first) \in Nat /\ BatchEnd(first) <= Len(Lines)
    BY <1>3, <2>1, BatchEndIs
  <2>3. SubSeq(Lines, first, BatchEnd(first)) \in Seq(Ids)
    BY <2>1, <2>2, SubSeqProperties
  <2>4. vecs \in Seq(Ids)
    BY <1>2, <2>3, ConcatProperties
  <2> DEFINE flying == embed.flying \ {first}
             failed == embed.failed \/ ~ok
  <2>5. embed' = [embed EXCEPT !.flying = flying, !.failed = failed, !.ready = vecs]
    BY <1>1, <1>12 DEF Embedded, EmbedTypes
  <2>6. failed \in BOOLEAN /\ flying \in SUBSET (Nat \ {0})
    BY <1>2
  <2> HIDE DEF vecs, flying, failed
  <2> QED BY <1>1, <2>4, <2>5, <2>6 DEF EmbedTypes
<1>13. ASSUME Take PROVE embed' \in EmbedTypes
  <2> DEFINE vecs == Tail(embed.ready)
             taken == embed.taken + 1
  <2>1. vecs \in Seq(Ids) /\ taken \in Nat
    BY <1>2, <1>13 DEF Take
  <2>2. embed' = [embed EXCEPT !.ready = vecs, !.taken = taken, !.waiting = FALSE]
    BY <1>1, <1>13 DEF Take, EmbedTypes
  <2> HIDE DEF vecs, taken
  <2> QED BY <1>1, <2>1, <2>2 DEF EmbedTypes
<1>14. ASSUME WriteEmbMeta PROVE embed' \in EmbedTypes
  BY <1>1, <1>2, <1>14 DEF WriteEmbMeta, EmbedTypes
<1>15. ASSUME UNCHANGED embed PROVE embed' \in EmbedTypes
  BY <1>1, <1>15
<1> QED
  BY <1>5, <1>6, <1>7, <1>8, <1>9, <1>10, <1>11, <1>12, <1>13, <1>14, <1>15 DEF Next, RunStep, CrawlStep,
     EmbedStep, ReadStep, Tick, NewItem, StartCrawl, StartBuild, StartLoad, Submit, Fetched, Consume, OpenMeta,
     WriteMeta, OpenEmbMeta, OpenIndex, SaveIndex, EndLoad, LoadVersion

\* ... and of the other variables.
LEMMA OtherRecords ==
  ASSUME RecordsInv, Next
  PROVE  /\ hour' \in Hours /\ newest' \in Ids
         /\ index' \in IndexTypes /\ load' \in LoadTypes
         /\ cut' \in SUBSET Hours /\ lost' \in SUBSET Ids /\ runs' \in Nat
         /\ pc' \in {"off", "crawl", "crawlMeta", "cands", "embed", "embedMeta", "build", "saveIndex", "load"}
<1>1. TypeOK
  BY DEF RecordsInv
<1>2. hour' \in Hours /\ newest' \in Ids
  <2>1. ASSUME Tick PROVE hour' \in Hours
    BY <1>1, <2>1, BoundsAssumption DEF Tick, TypeOK, Hours
  <2> QED
    BY <1>1, <2>1 DEF TypeOK, world, Next, RunStep, CrawlStep, EmbedStep, ReadStep, Tick, NewItem, Kill,
       StartCrawl, StartEmbed, StartBuild, StartLoad, Submit, Fetched, Consume, OpenMeta, WriteMeta,
       NextVersion, SkipVersion, EndEmbed, EmbedOnly, SendBatch, CountBatch, Finish, Await, Take, OpenEmbMeta,
       WriteEmbMeta, Embedded, OpenIndex, SaveIndex, EndLoad, LoadVersion
<1>3. index' \in IndexTypes
  <2>1. ASSUME OpenIndex PROVE index' \in IndexTypes
    BY <2>1 DEF OpenIndex, IndexTypes
  <2>2. ASSUME SaveIndex PROVE index' \in IndexTypes
    <3>1. ASSUME NEW v \in crawled PROVE Range(embs[v]) \subseteq Ids
      BY <1>1 DEF TypeOK, Range
    <3>2. Labels \in SUBSET Ids
      BY <3>1 DEF Labels
    <3> QED BY <2>2, <3>2 DEF SaveIndex, IndexTypes
  <2>3. index' = index \/ OpenIndex \/ SaveIndex
    BY DEF Next, RunStep, CrawlStep, EmbedStep, ReadStep, Tick, NewItem, Kill,
       StartCrawl, StartEmbed, StartBuild, StartLoad, Submit, Fetched, Consume, OpenMeta, WriteMeta,
       NextVersion, SkipVersion, EndEmbed, EmbedOnly, SendBatch, CountBatch, Finish, Await, Take, OpenEmbMeta,
       WriteEmbMeta, Embedded, EndLoad, LoadVersion
  <2> QED BY <1>1, <2>1, <2>2, <2>3 DEF TypeOK
<1>4. load' \in LoadTypes
  <2>1. NoLoad \in LoadTypes /\ load \in LoadTypes /\ crawled \in SUBSET Hours
    BY <1>1 DEF NoLoad, LoadTypes, TypeOK
  <2>2. ASSUME StartLoad PROVE load' \in LoadTypes
    BY <2>1, <2>2 DEF StartLoad, LoadTypes
  <2>3. ASSUME NEW v \in Hours, LoadVersion(v) PROVE load' \in LoadTypes
    <3>1. Range(story[v]) \subseteq Ids
      BY <1>1 DEF TypeOK, Range
    <3> QED BY <2>1, <2>3, <3>1 DEF LoadVersion, LoadTypes
  <2>4. load' \in {load, NoLoad} \/ StartLoad \/ \E v \in Hours : LoadVersion(v)
    BY DEF Next, RunStep, CrawlStep, EmbedStep, ReadStep, Tick, NewItem, Kill,
       StartCrawl, StartEmbed, StartBuild, Submit, Fetched, Consume, OpenMeta, WriteMeta,
       NextVersion, SkipVersion, EndEmbed, EmbedOnly, SendBatch, CountBatch, Finish, Await, Take, OpenEmbMeta,
       WriteEmbMeta, Embedded, OpenIndex, SaveIndex, EndLoad
  <2> QED BY <2>1, <2>2, <2>3, <2>4
<1>5. cut' \in SUBSET Hours
  <2>1. Crawling => crawl.version \in Hours
    BY <1>1 DEF RecordsInv, CrawlJob, TypeOK
  <2>2. ASSUME Kill PROVE cut' \in SUBSET Hours
    BY <1>1, <2>1, <2>2 DEF Kill, TypeOK, Crawling
  <2>3. cut' = cut \/ Kill
    BY DEF history, Next, RunStep, CrawlStep, EmbedStep, ReadStep, Tick, NewItem,
       StartCrawl, StartEmbed, StartBuild, StartLoad, Submit, Fetched, Consume, OpenMeta, WriteMeta,
       NextVersion, SkipVersion, EndEmbed, EmbedOnly, SendBatch, CountBatch, Finish, Await, Take, OpenEmbMeta,
       WriteEmbMeta, Embedded, OpenIndex, SaveIndex, EndLoad, LoadVersion
  <2> QED BY <1>1, <2>2, <2>3 DEF TypeOK
<1>6. lost' \in SUBSET Ids
  <2>1. ASSUME Consume PROVE lost' \in SUBSET Ids
    <3>1. Head(crawl.ready) \in Answers
      BY <1>1, <2>1 DEF Consume, TypeOK, CrawlTypes
    <3>2. Head(crawl.ready).id \in Ids
      BY <3>1 DEF Answers
    <3> QED BY <1>1, <2>1, <3>2 DEF Consume, TypeOK
  <2>2. lost' = lost \/ Consume
    BY DEF history, Next, RunStep, CrawlStep, EmbedStep, ReadStep, Tick, NewItem, Kill,
       StartCrawl, StartEmbed, StartBuild, StartLoad, Submit, Fetched, OpenMeta, WriteMeta,
       NextVersion, SkipVersion, EndEmbed, EmbedOnly, SendBatch, CountBatch, Finish, Await, Take, OpenEmbMeta,
       WriteEmbMeta, Embedded, OpenIndex, SaveIndex, EndLoad, LoadVersion
  <2> QED BY <1>1, <2>1, <2>2 DEF TypeOK
<1>7. runs' \in Nat
  <2>1. runs' = runs \/ runs' = runs + 1
    BY DEF history, Next, RunStep, CrawlStep, EmbedStep, ReadStep, Tick, NewItem, Kill, Start,
       StartCrawl, StartEmbed, StartBuild, StartLoad, Submit, Fetched, Consume, OpenMeta, WriteMeta,
       NextVersion, SkipVersion, EndEmbed, EmbedOnly, SendBatch, CountBatch, Finish, Await, Take, OpenEmbMeta,
       WriteEmbMeta, Embedded, OpenIndex, SaveIndex, EndLoad, LoadVersion
  <2> QED BY <1>1, <2>1 DEF TypeOK
<1>8. pc' \in {"off", "crawl", "crawlMeta", "cands", "embed", "embedMeta", "build", "saveIndex", "load"}
  BY <1>1 DEF TypeOK, Next, RunStep, CrawlStep, EmbedStep, ReadStep, Tick, NewItem, Kill,
     StartCrawl, StartEmbed, StartBuild, StartLoad, Submit, Fetched, Consume, OpenMeta, WriteMeta,
     NextVersion, SkipVersion, EndEmbed, EmbedOnly, SendBatch, CountBatch, Finish, Await, Take, OpenEmbMeta,
     WriteEmbMeta, Embedded, OpenIndex, SaveIndex, EndLoad, LoadVersion
<1> QED BY <1>2, <1>3, <1>4, <1>5, <1>6, <1>7, <1>8

----------------------------------------------------------------------------
(***************************************************************************)
(* Which steps change the files and the records, and how.                  *)
(***************************************************************************)
\* The steps that change nothing of crawl_hn, and those that do.
CrawlStays == UNCHANGED <<storyFiles, crawl, cut, lost>> /\ (Crawling \/ Crawling' => pc' = pc)

LEMMA CrawlSteps ==
  ASSUME Next
  PROVE  \/ CrawlStays
         \/ Kill
         \/ \E max \in Ids : StartCrawl(max)
         \/ Submit \/ Consume \/ OpenMeta \/ WriteMeta
         \/ \E id \in Ids, ok \in BOOLEAN : Fetched(id, ok)
<1> USE DEF CrawlStays, Crawling, history
<1>1. Tick \/ NewItem \/ StartEmbed \/ StartBuild \/ StartLoad => CrawlStays
  BY DEF Tick, NewItem, StartEmbed, StartBuild, StartLoad, Start
<1>2. EmbedStep => CrawlStays
  <2>1. ASSUME NEW v \in Hours, NextVersion(v) \/ SkipVersion(v) PROVE CrawlStays
    BY <2>1 DEF NextVersion, SkipVersion
  <2>2. ASSUME NEW first \in embed.flying, NEW ok \in BOOLEAN, Embedded(first, ok) PROVE CrawlStays
    BY <2>2 DEF Embedded, EmbedOnly
  <2>3. EndEmbed \/ Take \/ OpenEmbMeta \/ WriteEmbMeta => CrawlStays
    BY DEF EndEmbed, Take, OpenEmbMeta, WriteEmbMeta
  <2>4. SendBatch \/ CountBatch \/ Finish \/ Await => CrawlStays
    BY DEF SendBatch, CountBatch, Finish, Await, EmbedOnly
  <2> QED BY <2>1, <2>2, <2>3, <2>4 DEF EmbedStep
<1>3. ReadStep => CrawlStays
  <2>1. ASSUME NEW v \in Hours, LoadVersion(v) PROVE CrawlStays
    BY <2>1 DEF LoadVersion
  <2>2. OpenIndex \/ SaveIndex \/ EndLoad => CrawlStays
    BY DEF OpenIndex, SaveIndex, EndLoad
  <2> QED BY <2>1, <2>2 DEF ReadStep
<1> QED BY <1>1, <1>2, <1>3 DEF Next, RunStep, CrawlStep

\* The steps that change nothing of hn_story_to_emb, and those that do.
EmbedStays ==
  /\ UNCHANGED <<embFiles, embed>>
  /\ pc' # pc => pc \notin {"cands", "embed", "embedMeta"} /\ pc' \notin {"cands", "embed", "embedMeta"}
  /\ story' # story => pc = "crawl"

LEMMA EmbedSteps ==
  ASSUME Next
  PROVE  \/ EmbedStays
         \/ Kill
         \/ StartEmbed
         \/ \E v \in Hours : NextVersion(v) \/ SkipVersion(v)
         \/ EndEmbed \/ SendBatch \/ CountBatch \/ Finish \/ Await \/ Take \/ OpenEmbMeta \/ WriteEmbMeta
         \/ \E first \in embed.flying, ok \in BOOLEAN : Embedded(first, ok)
<1> USE DEF EmbedStays, storyFiles
<1>1. Tick \/ NewItem \/ StartBuild \/ StartLoad => EmbedStays
  BY DEF Tick, NewItem, StartBuild, StartLoad, Start
<1>2. ASSUME NEW max \in Ids, StartCrawl(max) PROVE EmbedStays
  BY <1>2 DEF StartCrawl, Start
<1>3. CrawlStep => EmbedStays
  <2>1. ASSUME NEW id \in Ids, NEW ok \in BOOLEAN, Fetched(id, ok) PROVE EmbedStays
    BY <2>1 DEF Fetched
  <2>2. Submit \/ Consume \/ OpenMeta \/ WriteMeta => EmbedStays
    BY DEF Submit, Consume, OpenMeta, WriteMeta
  <2> QED BY <2>1, <2>2 DEF CrawlStep
<1>4. ReadStep => EmbedStays
  <2>1. ASSUME NEW v \in Hours, LoadVersion(v) PROVE EmbedStays
    BY <2>1 DEF LoadVersion
  <2>2. OpenIndex \/ SaveIndex \/ EndLoad => EmbedStays
    BY DEF OpenIndex, SaveIndex, EndLoad
  <2> QED BY <2>1, <2>2 DEF ReadStep
<1> QED BY <1>1, <1>2, <1>3, <1>4 DEF Next, RunStep, EmbedStep

\* The clock and the newest item stay while a crawl runs.
LEMMA WorldSteps == Next => (hour' = hour /\ newest' = newest) \/ (pc = "off" /\ UNCHANGED <<pc, storyFiles, embFiles>>)
<1> SUFFICES ASSUME Next
             PROVE  (hour' = hour /\ newest' = newest) \/ (pc = "off" /\ UNCHANGED <<pc, storyFiles, embFiles>>)
  OBVIOUS
<1> QED
  BY DEF world, Next, RunStep, CrawlStep, EmbedStep, ReadStep, Tick, NewItem, Kill,
     StartCrawl, StartEmbed, StartBuild, StartLoad, Submit, Fetched, Consume, OpenMeta, WriteMeta,
     NextVersion, SkipVersion, EndEmbed, EmbedOnly, SendBatch, CountBatch, Finish, Await, Take, OpenEmbMeta,
     WriteEmbMeta, Embedded, OpenIndex, SaveIndex, EndLoad, LoadVersion

\* The item that a crawl takes, and the files that it leaves.
LEMMA ConsumeIs ==
  ASSUME RecordsInv, Consume
  PROVE  LET item == Head(crawl.ready)
             keeps == item.ok /\ UrlOf[item.id] \notin crawl.marks \cup {NoUrl}
             v == crawl.version
         IN  /\ v \in crawled /\ v \in Hours
             /\ item \in Answers /\ item.id \in Ids /\ item = crawl.ready[1] /\ 1 \in DOMAIN crawl.ready
             /\ keeps => story' = [story EXCEPT ![v] = Append(story[v], item.id)]
             /\ ~keeps => story' = story
<1>1. crawl.ready \in Seq(Answers) /\ crawl.ready # <<>> /\ story \in [Hours -> Seq(Ids)]
  BY DEF RecordsInv, TypeOK, CrawlTypes, Consume
<1>2. /\ Head(crawl.ready) \in Answers /\ 1 \in DOMAIN crawl.ready
      /\ Head(crawl.ready) = crawl.ready[1]
  BY <1>1
<1>3. Head(crawl.ready).id \in Ids
  BY <1>2 DEF Answers
<1>4. crawl.version \in crawled /\ crawl.version \in Hours
  BY DEF RecordsInv, CrawlJob, Crawling, TypeOK, Consume
<1> QED BY <1>1, <1>2, <1>3, <1>4 DEF Consume

LEMMA FileTypes ==
  ASSUME RecordsInv, Next
  PROVE  /\ crawled' \in SUBSET Hours /\ story' \in [Hours -> Seq(Ids)] /\ meta' \in [Hours -> SmallFile]
         /\ embs' \in [Hours -> Seq(Ids)] /\ embMeta' \in [Hours -> SmallFile]
<1>1. /\ crawled \in SUBSET Hours /\ story \in [Hours -> Seq(Ids)] /\ meta \in [Hours -> SmallFile]
      /\ embs \in [Hours -> Seq(Ids)] /\ embMeta \in [Hours -> SmallFile] /\ hour \in Hours
  BY DEF RecordsInv, TypeOK
<1>2. TornFile \in SmallFile /\ \A n \in Nat : Whole(n) \in SmallFile
  BY DEF TornFile, Whole, SmallFile
<1>3. crawled' \in SUBSET Hours
  <2>1. ASSUME NEW max \in Ids, StartCrawl(max) PROVE crawled' \in SUBSET Hours
    BY <1>1, <2>1 DEF StartCrawl
  <2>2. (\E max \in Ids : StartCrawl(max)) \/ crawled' = crawled
    BY CrawlSteps DEF CrawlStays, storyFiles, Kill, Submit, Consume, OpenMeta, WriteMeta, Fetched
  <2> QED BY <1>1, <2>1, <2>2
<1>4. story' \in [Hours -> Seq(Ids)]
  <2>1. ASSUME Consume PROVE story' \in [Hours -> Seq(Ids)]
    <3> DEFINE item == Head(crawl.ready)
               v == crawl.version
               longer == Append(story[v], item.id)
    <3>1. v \in Hours /\ item.id \in Ids /\ (story' = story \/ story' = [story EXCEPT ![v] = longer])
      BY <2>1, ConsumeIs
    <3>2. longer \in Seq(Ids)
      BY <1>1, <3>1
    <3> HIDE DEF v, longer
    <3> QED BY <1>1, <3>1, <3>2
  <2>2. Consume \/ story' = story
    BY CrawlSteps DEF CrawlStays, storyFiles, Kill, Submit, StartCrawl, OpenMeta, WriteMeta, Fetched
  <2> QED BY <1>1, <2>1, <2>2
<1>5. meta' \in [Hours -> SmallFile]
  <2>1. crawl.max \in Nat
    BY DEF RecordsInv, TypeOK, CrawlTypes
  <2>2. ASSUME OpenMeta \/ WriteMeta PROVE meta' \in [Hours -> SmallFile]
    BY <1>1, <1>2, <2>1, <2>2 DEF OpenMeta, WriteMeta
  <2>3. OpenMeta \/ WriteMeta \/ meta' = meta
    BY CrawlSteps DEF CrawlStays, storyFiles, Kill, Submit, StartCrawl, Consume, Fetched
  <2> QED BY <1>1, <2>2, <2>3
<1>6. embs' \in [Hours -> Seq(Ids)]
  <2>1. ASSUME NEW v \in Hours, NextVersion(v) PROVE embs' \in [Hours -> Seq(Ids)]
    BY <1>1, <2>1 DEF NextVersion
  <2>2. ASSUME Take PROVE embs' \in [Hours -> Seq(Ids)]
    <3> DEFINE v == embed.version
               longer == Append(embs[v], Head(embed.ready))
    <3>1. embed.ready \in Seq(Ids) /\ embed.ready # <<>> /\ v \in Hours
      BY <2>2 DEF Take, RecordsInv, TypeOK, EmbedTypes, EmbedJob, Embedding
    <3>2. longer \in Seq(Ids) /\ embs' = [embs EXCEPT ![v] = longer]
      BY <1>1, <2>2, <3>1 DEF Take
    <3> HIDE DEF v, longer
    <3> QED BY <1>1, <3>1, <3>2
  <2>3. (\E v \in Hours : NextVersion(v)) \/ Take \/ embs' = embs
    BY EmbedSteps DEF EmbedStays, embFiles, Kill, StartEmbed, SkipVersion, EndEmbed, EmbedOnly, SendBatch,
       CountBatch, Finish, Await, OpenEmbMeta, WriteEmbMeta, Embedded
  <2> QED BY <1>1, <2>1, <2>2, <2>3
<1>7. embMeta' \in [Hours -> SmallFile]
  <2>1. embed.cnt \in Nat
    BY DEF RecordsInv, TypeOK, EmbedTypes
  <2>2. ASSUME OpenEmbMeta \/ WriteEmbMeta PROVE embMeta' \in [Hours -> SmallFile]
    BY <1>1, <1>2, <2>1, <2>2 DEF OpenEmbMeta, WriteEmbMeta
  <2>3. OpenEmbMeta \/ WriteEmbMeta \/ embMeta' = embMeta
    BY EmbedSteps DEF EmbedStays, embFiles, Kill, StartEmbed, NextVersion, SkipVersion, EndEmbed, EmbedOnly,
       SendBatch, CountBatch, Finish, Await, Take, Embedded
  <2> QED BY <1>1, <2>2, <2>3
<1> QED BY <1>3, <1>4, <1>5, <1>6, <1>7

LEMMA StepTypes == RecordsInv /\ Next => TypeOK'
<1> SUFFICES ASSUME RecordsInv, Next PROVE TypeOK'
  OBVIOUS
<1> QED BY FileTypes, CrawlRecords, EmbedRecords, OtherRecords DEF TypeOK

\* A crawl submits from max down to last, and has an item where it is.
LEMMA StepCrawlJob == RecordsInv /\ Next => CrawlJob'
<1> SUFFICES ASSUME RecordsInv, Next PROVE CrawlJob'
  OBVIOUS
<1>1. CrawlJob /\ TypeOK /\ FilesInv
  BY DEF RecordsInv
<1>2. Kill \/ WriteMeta => CrawlJob'
  BY DEF Kill, WriteMeta, CrawlJob, Crawling
<1>3. Kill \/ WriteMeta \/ hour' = hour \/ ~Crawling'
  BY WorldSteps DEF Crawling
<1>4. ASSUME CrawlStays PROVE CrawlJob'
  <2>1. Crawling' => Crawling /\ pc' = pc /\ hour' = hour /\ crawled' = crawled /\ crawl' = crawl
    BY <1>4, WorldSteps DEF CrawlStays, storyFiles, Crawling
  <2>2. crawl' = crawl => Expected' = Expected
    BY DEF Expected
  <2>3. pc' = "crawlMeta" => Crawling'
    BY DEF Crawling
  <2> QED BY <1>1, <2>1, <2>2, <2>3 DEF CrawlJob
<1>5. ASSUME NEW max \in Ids, StartCrawl(max) PROVE CrawlJob'
  <2>1. LastVersionMeta.value \in Ids \cup {0}
    BY <1>1, LastVersionIs DEF FilesInv, TypeOK, NoFile
  <2>2. /\ crawl' = [NoCrawl EXCEPT !.version = hour, !.max = max, !.last = LastVersionMeta.value, !.next = max]
        /\ hour' = hour /\ crawled' = crawled \cup {hour} /\ pc' = "crawl"
    BY <1>5 DEF StartCrawl, world
  <2>3. /\ crawl'.version = hour /\ crawl'.max = max /\ crawl'.last = LastVersionMeta.value
        /\ crawl'.next = max /\ crawl'.flying = {} /\ crawl'.ready = <<>> /\ crawl'.taken = 0
    BY <2>2 DEF NoCrawl
  <2>4. max \in Nat /\ max \in 0 .. max /\ Cardinality({}) + Len(<<>>) + 0 + max = max
    BY IdsAre, FS_EmptySet
  <2> QED BY <2>1, <2>2, <2>3, <2>4 DEF CrawlJob
<1>6. crawl \in CrawlTypes
  BY <1>1 DEF TypeOK
<1>7. /\ crawl.max \in Nat /\ crawl.last \in Nat /\ crawl.next \in Nat /\ crawl.taken \in Nat
      /\ crawl.flying \in SUBSET Ids /\ crawl.ready \in Seq(Answers) /\ Len(crawl.ready) \in Nat
  BY <1>6 DEF CrawlTypes
<1>8. IsFiniteSet(crawl.flying) /\ Cardinality(crawl.flying) \in Nat
  BY <1>7, IdsAssumption, FS_Subset, FS_CardinalityType
<1> DEFINE Moves ==
             /\ crawl.version = hour /\ hour \in crawled
             /\ crawl.max \in Ids /\ crawl.last \in Ids \cup {0}
             /\ crawl.next <= crawl.max /\ (crawl.next = crawl.max \/ crawl.next >= crawl.last)
             /\ crawl.flying \subseteq crawl.next + 1 .. crawl.max
             /\ Cardinality(crawl.flying) + Len(crawl.ready) + crawl.taken + crawl.next = crawl.max
<1>9. Crawling => Moves
  BY <1>1, <1>7 DEF CrawlJob
<1>10. /\ crawl.max \in Nat /\ crawl.next \in Nat /\ crawl.taken \in Nat
       /\ Len(crawl.ready) \in Nat /\ Cardinality(crawl.flying) \in Nat
  BY <1>7, <1>8
<1>11. Crawling => Cardinality(crawl.flying) + Len(crawl.ready) + crawl.taken + crawl.next = crawl.max
  BY <1>9
<1>12. ASSUME Submit PROVE CrawlJob'
  <2>1. crawl' = [crawl EXCEPT !.next = crawl.next - 1, !.flying = crawl.flying \cup {crawl.next}]
    BY <1>6, <1>12 DEF Submit, CrawlTypes
  <2>2. /\ crawl'.version = crawl.version /\ crawl'.max = crawl.max /\ crawl'.last = crawl.last
        /\ crawl'.next = crawl.next - 1 /\ crawl'.flying = crawl.flying \cup {crawl.next}
        /\ crawl'.ready = crawl.ready /\ crawl'.taken = crawl.taken
    BY <1>6, <2>1 DEF CrawlTypes
  <2>3. pc = "crawl" /\ pc' = "crawl" /\ hour' = hour /\ crawled' = crawled /\ crawl.next > crawl.last
    BY <1>12 DEF Submit, world, storyFiles
  <2>4. crawl.next \notin crawl.flying
    BY <1>1, <1>7, <2>3 DEF CrawlJob, Crawling
  <2>5. Cardinality(crawl.flying \cup {crawl.next}) = Cardinality(crawl.flying) + 1
    BY <1>8, <2>4, FS_AddElement
  <2>6. Moves /\ crawl.next - 1 \in 0 .. crawl.max /\ crawl.next - 1 >= crawl.last
    BY <1>9, <1>7, <2>3 DEF Crawling
  <2>7. crawl.flying \cup {crawl.next} \subseteq crawl.next - 1 + 1 .. crawl.max
    BY <1>7, <2>6
  <2>8. Cardinality(crawl.flying \cup {crawl.next}) + Len(crawl.ready) + crawl.taken + (crawl.next - 1) = crawl.max
    <3>1. Cardinality(crawl.flying) + Len(crawl.ready) + crawl.taken + crawl.next = crawl.max
      BY <1>11, <2>3 DEF Crawling
    <3>2. PICK l \in Nat : l = Len(crawl.ready)
      BY <1>10
    <3>3. Cardinality(crawl.flying) + l + crawl.taken + crawl.next = crawl.max
      BY <3>1, <3>2, Zenon
    <3>4. crawl.next \in Nat /\ crawl.max \in Nat /\ crawl.taken \in Nat /\ Cardinality(crawl.flying) \in Nat
      BY <1>10
    <3>5. (Cardinality(crawl.flying) + 1) + l + crawl.taken + (crawl.next - 1) = crawl.max
      BY <3>3, <3>4
    <3> QED BY <2>5, <3>2, <3>5, Zenon
  <2> QED BY <2>2, <2>3, <2>6, <2>7, <2>8 DEF CrawlJob
<1>13. ASSUME NEW id \in Ids, NEW ok \in BOOLEAN, Fetched(id, ok) PROVE CrawlJob'
  <2> DEFINE answer == [id |-> id, ok |-> ok]
  <2>1. crawl' = [crawl EXCEPT !.flying = crawl.flying \ {id}, !.ready = Append(crawl.ready, answer)]
    BY <1>6, <1>13 DEF Fetched, CrawlTypes
  <2> HIDE DEF answer
  <2>2. /\ crawl'.version = crawl.version /\ crawl'.max = crawl.max /\ crawl'.last = crawl.last
        /\ crawl'.next = crawl.next /\ crawl'.flying = crawl.flying \ {id}
        /\ crawl'.ready = Append(crawl.ready, answer) /\ crawl'.taken = crawl.taken
    BY <1>6, <2>1 DEF CrawlTypes
  <2>3. Crawling /\ pc' = pc /\ hour' = hour /\ crawled' = crawled /\ id \in crawl.flying
    BY <1>13 DEF Fetched, world, storyFiles, Crawling
  <2>4. Cardinality(crawl.flying \ {id}) = Cardinality(crawl.flying) - 1
    BY <1>8, <2>3, FS_RemoveElement
  <2>5. Len(Append(crawl.ready, answer)) = Len(crawl.ready) + 1
    BY <1>7
  <2>6. Expected' = Expected
    BY <2>2 DEF Expected
  <2>7. Moves /\ crawl.next \in 0 .. crawl.max /\ crawl.flying \ {id} \subseteq crawl.next + 1 .. crawl.max
    BY <1>9, <1>7, <2>3
  <2>8. Cardinality(crawl.flying \ {id}) + Len(Append(crawl.ready, answer)) + crawl.taken + crawl.next = crawl.max
    BY <1>10, <1>11, <2>3, <2>4, <2>5
  <2> QED BY <1>1, <2>2, <2>3, <2>6, <2>7, <2>8 DEF CrawlJob
<1>14. ASSUME Consume PROVE CrawlJob'
  <2>1. /\ crawl'.version = crawl.version /\ crawl'.max = crawl.max /\ crawl'.last = crawl.last
        /\ crawl'.next = crawl.next /\ crawl'.flying = crawl.flying
        /\ crawl'.ready = Tail(crawl.ready) /\ crawl'.taken = crawl.taken + 1
    BY <1>6, <1>14 DEF Consume, CrawlTypes
  <2>2. pc = "crawl" /\ pc' = "crawl" /\ hour' = hour /\ crawled' = crawled /\ crawl.ready # <<>>
    BY <1>14 DEF Consume, world
  <2>3. Len(Tail(crawl.ready)) = Len(crawl.ready) - 1
    BY <1>7, <2>2
  <2>4. Moves /\ crawl.next \in 0 .. crawl.max
    BY <1>9, <1>7, <2>2 DEF Crawling
  <2>5. Cardinality(crawl.flying) + Len(Tail(crawl.ready)) + (crawl.taken + 1) + crawl.next = crawl.max
    BY <1>10, <1>11, <2>2, <2>3 DEF Crawling
  <2> QED BY <2>1, <2>2, <2>4, <2>5 DEF CrawlJob
<1>15. ASSUME OpenMeta PROVE CrawlJob'
  <2>1. Expected' = Expected /\ hour' = hour /\ crawled' = crawled /\ crawl' = crawl
    BY <1>15 DEF OpenMeta, Expected, world
  <2> QED BY <1>1, <1>15, <2>1 DEF OpenMeta, CrawlJob, Crawling
<1> QED BY <1>2, <1>4, <1>5, <1>12, <1>13, <1>14, <1>15, CrawlSteps

\* A file is of a version that has been made, and a meta file is of an item.
LEMMA StepFiles == RecordsInv /\ Next => FilesInv'
<1> SUFFICES ASSUME RecordsInv, Next PROVE FilesInv'
  OBVIOUS
<1>1. CrawlJob /\ TypeOK /\ FilesInv /\ hour \in Nat
  BY DEF RecordsInv, TypeOK, Hours
<1>2. crawled' \subseteq 1 .. hour'
  <2>1. hour' = hour \/ hour' = hour + 1
    BY DEF world, Next, RunStep, CrawlStep, EmbedStep, ReadStep, Tick, NewItem, Kill,
       StartCrawl, StartEmbed, StartBuild, StartLoad, Submit, Fetched, Consume, OpenMeta, WriteMeta,
       NextVersion, SkipVersion, EndEmbed, EmbedOnly, SendBatch, CountBatch, Finish, Await, Take, OpenEmbMeta,
       WriteEmbMeta, Embedded, OpenIndex, SaveIndex, EndLoad, LoadVersion
  <2>2. crawled' = crawled \/ crawled' = crawled \cup {hour}
    BY CrawlSteps DEF CrawlStays, storyFiles, Kill, Submit, StartCrawl, Consume, OpenMeta, WriteMeta, Fetched
  <2>3. hour \in 1 .. MaxHour
    BY <1>1 DEF TypeOK, Hours
  <2>4. crawled \subseteq 1 .. hour /\ hour \in 1 .. hour
    BY <1>1, <2>3 DEF FilesInv
  <2>5. crawled' \subseteq 1 .. hour
    BY <2>2, <2>4
  <2> QED BY <1>1, <2>1, <2>5
<1>3. crawled \subseteq crawled'
  BY CrawlSteps DEF CrawlStays, storyFiles, Kill, Submit, StartCrawl, Consume, OpenMeta, WriteMeta, Fetched
<1>4. ASSUME NEW v \in Hours, v \notin crawled' PROVE story'[v] = <<>>
  <2>1. v \notin crawled /\ story[v] = <<>>
    BY <1>1, <1>3, <1>4 DEF FilesInv
  <2>2. ASSUME Consume PROVE story'[v] = story[v]
    BY <1>1, <2>1, <2>2, ConsumeIs DEF TypeOK
  <2>3. Consume \/ story' = story
    BY CrawlSteps DEF CrawlStays, storyFiles, Kill, Submit, StartCrawl, OpenMeta, WriteMeta, Fetched
  <2> QED BY <2>1, <2>2, <2>3
<1>5. ASSUME NEW v \in Hours
      PROVE  /\ v \notin crawled' => meta'[v] = NoFile
             /\ meta'[v].kind # "whole" => meta'[v].value = 0
             /\ meta'[v].value \in Ids \cup {0}
  <2>1. /\ v \notin crawled => meta[v] = NoFile
        /\ meta[v].kind # "whole" => meta[v].value = 0
        /\ meta[v].value \in Ids \cup {0}
    BY <1>1 DEF FilesInv
  <2>2. ASSUME OpenMeta \/ WriteMeta PROVE v \notin crawled => v # crawl.version
    BY <1>1, <2>2 DEF OpenMeta, WriteMeta, CrawlJob, Crawling
  <2>3. ASSUME OpenMeta PROVE meta'[v] = meta[v] \/ (v = crawl.version /\ meta'[v] = TornFile)
    BY <1>1, <2>3 DEF OpenMeta, TypeOK
  <2>4. ASSUME WriteMeta PROVE meta'[v] = meta[v] \/ (v = crawl.version /\ meta'[v] = Whole(crawl.max))
    BY <1>1, <2>4 DEF WriteMeta, TypeOK
  <2>5. WriteMeta => crawl.max \in Ids
    BY <1>1 DEF WriteMeta, CrawlJob, Crawling
  <2>6. TornFile.kind = "torn" /\ TornFile.value = 0 /\ Whole(crawl.max).kind = "whole"
        /\ Whole(crawl.max).value = crawl.max
    BY DEF TornFile, Whole
  <2>7. OpenMeta \/ WriteMeta \/ meta' = meta
    BY CrawlSteps DEF CrawlStays, storyFiles, Kill, Submit, StartCrawl, Consume, Fetched
  <2> QED BY <1>3, <2>1, <2>2, <2>3, <2>4, <2>5, <2>6, <2>7
<1> QED BY <1>2, <1>4, <1>5 DEF FilesInv

\* The producer of hn_story_to_emb counts what it has read, the consumer what it has
\* written.
LEMMA StepEmbedJob == RecordsInv /\ Next => EmbedJob'
<1> SUFFICES ASSUME RecordsInv, Next PROVE EmbedJob'
  OBVIOUS
<1>1. EmbedJob /\ TypeOK /\ embed \in EmbedTypes
  BY DEF RecordsInv, TypeOK
<1>2. /\ embed.cands \in SUBSET Hours /\ embed.read \in Nat /\ embed.batch \in Nat /\ embed.cnt \in Nat
      /\ embed.flying \in SUBSET (Nat \ {0}) /\ embed.ready \in Seq(Ids) /\ embed.taken \in Nat
      /\ embed.finished \in BOOLEAN
  BY <1>1 DEF EmbedTypes
<1>3. /\ embs \in [Hours -> Seq(Ids)] /\ embMeta \in [Hours -> SmallFile] /\ story \in [Hours -> Seq(Ids)]
  BY <1>1 DEF TypeOK
<1>4. Embedding => /\ embed.version \in Hours \ embed.cands /\ Lines \in Seq(Ids) /\ Len(Lines) \in Nat
                   /\ embs[embed.version] \in Seq(Ids)
  BY <1>1, <1>3 DEF EmbedJob, Lines
<1>5. pc = "embed" =>
        /\ embMeta[embed.version].kind = "none" /\ embed.read <= Len(Lines)
        /\ embed.cnt + embed.batch = embed.read /\ embed.taken = Len(embs[embed.version])
        /\ embed.finished => embed.read = Len(Lines) /\ embed.batch = 0
  BY <1>1 DEF EmbedJob
<1>6. story' = story /\ embed'.version = embed.version => Lines' = Lines
  BY DEF Lines
<1>7. ASSUME EmbedStays PROVE EmbedJob'
  <2>1. pc' \in {"cands", "embed", "embedMeta"} =>
          pc' = pc /\ embed' = embed /\ embs' = embs /\ embMeta' = embMeta /\ story' = story
    BY <1>7 DEF EmbedStays, embFiles
  <2> QED BY <1>1, <1>6, <2>1 DEF EmbedJob, Embedding
<1>8. ASSUME Kill \/ EndEmbed PROVE EmbedJob'
  BY <1>8 DEF Kill, EndEmbed, EmbedJob, Embedding
<1>9. ASSUME StartEmbed PROVE EmbedJob'
  <2>1. embed' = [NoEmbed EXCEPT !.cands = {v \in crawled : embMeta[v].kind = "none"}]
        /\ pc' = "cands" /\ embMeta' = embMeta
    BY <1>9 DEF StartEmbed, embFiles
  <2>2. embed'.cands = {v \in crawled : embMeta[v].kind = "none"}
    BY <2>1 DEF NoEmbed
  <2> QED BY <2>1, <2>2 DEF EmbedJob, Embedding
<1>10. ASSUME NEW v \in Hours, NextVersion(v) PROVE EmbedJob'
  <2>1. /\ embed'.cands = embed.cands \ {v} /\ embed'.version = v /\ embed'.read = 0 /\ embed'.batch = 0
        /\ embed'.cnt = 0 /\ embed'.taken = 0 /\ embed'.finished = FALSE
    BY <1>10 DEF NextVersion, NoEmbed
  <2>2. pc = "cands" /\ pc' = "embed" /\ embMeta' = embMeta /\ story' = story /\ v \in embed.cands
        /\ embs'[v] = <<>>
    BY <1>3, <1>10 DEF NextVersion, storyFiles
  <2>3. \A h \in embed.cands : embMeta[h].kind = "none"
    BY <1>1, <2>2 DEF EmbedJob
  <2>4. Lines' = story[v] /\ Len(story[v]) \in Nat
    BY <1>3, <2>1, <2>2 DEF Lines
  <2> QED BY <2>1, <2>2, <2>3, <2>4 DEF EmbedJob, Embedding
<1>11. ASSUME NEW v \in Hours, SkipVersion(v) PROVE EmbedJob'
  <2>1. embed'.cands = embed.cands \ {v} /\ pc = "cands" /\ pc' = "cands" /\ embMeta' = embMeta
    BY <1>1, <1>11 DEF SkipVersion, embFiles, EmbedTypes
  <2> QED BY <1>1, <2>1 DEF EmbedJob, Embedding
<1>12. ASSUME pc = "embed", EmbedOnly
       PROVE  pc' = "embed" /\ embs' = embs /\ embMeta' = embMeta /\ story' = story
  BY <1>12 DEF EmbedOnly, embFiles, storyFiles
<1>13. ASSUME pc = "embed", pc' = "embed", story' = story, embMeta' = embMeta, embed'.cands = embed.cands,
              embed'.version = embed.version, embed'.taken = Len(embs'[embed.version]),
              embed'.read <= Len(Lines), embed'.cnt + embed'.batch = embed'.read,
              embed'.finished => embed'.read = Len(Lines) /\ embed'.batch = 0
       PROVE  EmbedJob'
  <2>1. Lines' = Lines
    BY <1>6, <1>13
  <2>2. \A v \in embed.cands : embMeta[v].kind = "none"
    BY <1>1, <1>13 DEF EmbedJob
  <2>3. embed.version \in Hours \ embed.cands /\ embMeta[embed.version].kind = "none"
    BY <1>4, <1>5, <1>13 DEF Embedding
  <2> QED BY <1>13, <2>1, <2>2, <2>3 DEF EmbedJob, Embedding
<1>14. ASSUME SendBatch PROVE EmbedJob'
  <2> DEFINE end == BatchEnd(embed.read + 1)
  <2>1. pc = "embed" /\ EmbedOnly /\ embed.batch = 0 /\ embed.read < Len(Lines)
    BY <1>14 DEF SendBatch
  <2>2. /\ embed'.cands = embed.cands /\ embed'.version = embed.version /\ embed'.taken = embed.taken
        /\ embed'.read = end /\ embed'.cnt = embed.cnt /\ embed'.batch = end - embed.read
        /\ embed'.finished = embed.finished
    BY <1>1, <1>14 DEF SendBatch, EmbedTypes
  <2>3. end \in Nat /\ end <= Len(Lines)
    BY <1>1, <1>2, <1>4, <2>1, BatchEndIs DEF Embedding
  <2>4. ~embed.finished /\ embed.cnt = embed.read
    BY <1>2, <1>4, <1>5, <2>1 DEF Embedding
  <2> HIDE DEF end
  <2>5. embed'.cnt + embed'.batch = embed'.read
    BY <1>2, <2>2, <2>3, <2>4
  <2> QED BY <1>5, <1>12, <1>13, <2>1, <2>2, <2>3, <2>4, <2>5
<1>15. ASSUME CountBatch PROVE EmbedJob'
  <2>1. pc = "embed" /\ EmbedOnly /\ embed.batch # 0
    BY <1>15 DEF CountBatch
  <2>2. /\ embed'.cands = embed.cands /\ embed'.version = embed.version /\ embed'.taken = embed.taken
        /\ embed'.read = embed.read /\ embed'.cnt = embed.cnt + embed.batch /\ embed'.batch = 0
        /\ embed'.finished = embed.finished
    BY <1>1, <1>15 DEF CountBatch, EmbedTypes
  <2>3. embed'.cnt + embed'.batch = embed'.read
    BY <1>2, <1>5, <2>1, <2>2
  <2> QED BY <1>5, <1>12, <1>13, <2>1, <2>2, <2>3
<1>16. ASSUME Finish PROVE EmbedJob'
  <2>1. pc = "embed" /\ EmbedOnly /\ embed.batch = 0 /\ embed.read = Len(Lines)
    BY <1>16 DEF Finish
  <2>2. /\ embed'.cands = embed.cands /\ embed'.version = embed.version /\ embed'.taken = embed.taken
        /\ embed'.read = embed.read /\ embed'.cnt = embed.cnt /\ embed'.batch = embed.batch
    BY <1>1, <1>16 DEF Finish, EmbedTypes
  <2> QED BY <1>5, <1>12, <1>13, <2>1, <2>2
<1>17. ASSUME NEW first \in embed.flying, NEW ok \in BOOLEAN, Embedded(first, ok) PROVE EmbedJob'
  <2>1. pc = "embed" /\ EmbedOnly
    BY <1>17 DEF Embedded
  <2>2. /\ embed'.cands = embed.cands /\ embed'.version = embed.version /\ embed'.taken = embed.taken
        /\ embed'.read = embed.read /\ embed'.cnt = embed.cnt /\ embed'.batch = embed.batch
        /\ embed'.finished = embed.finished
    BY <1>1, <1>17 DEF Embedded, EmbedTypes
  <2> QED BY <1>5, <1>12, <1>13, <2>1, <2>2
<1>18. ASSUME Await PROVE EmbedJob'
  <2>1. pc = "embed" /\ EmbedOnly
    BY <1>18 DEF Await
  <2>2. /\ embed'.cands = embed.cands /\ embed'.version = embed.version /\ embed'.taken = embed.taken
        /\ embed'.read = embed.read /\ embed'.cnt = embed.cnt /\ embed'.batch = embed.batch
        /\ embed'.finished = embed.finished
    BY <1>1, <1>18 DEF Await, EmbedTypes
  <2> QED BY <1>5, <1>12, <1>13, <2>1, <2>2
<1>19. ASSUME Take PROVE EmbedJob'
  <2>1. pc = "embed" /\ pc' = "embed" /\ embMeta' = embMeta /\ story' = story
        /\ embs' = [embs EXCEPT ![embed.version] = Append(@, Head(embed.ready))] /\ embed.ready # <<>>
    BY <1>19 DEF Take, storyFiles
  <2>2. /\ embed'.cands = embed.cands /\ embed'.version = embed.version /\ embed'.taken = embed.taken + 1
        /\ embed'.read = embed.read /\ embed'.cnt = embed.cnt /\ embed'.batch = embed.batch
        /\ embed'.finished = embed.finished
    BY <1>1, <1>19 DEF Take, EmbedTypes
  <2>3. embs'[embed.version] = Append(embs[embed.version], Head(embed.ready))
    BY <1>3, <1>4, <2>1 DEF Embedding
  <2>4. Len(embs'[embed.version]) = Len(embs[embed.version]) + 1
    BY <1>4, <2>1, <2>3 DEF Embedding
  <2> QED BY <1>5, <1>13, <2>1, <2>2, <2>4
<1>20. ASSUME OpenEmbMeta PROVE EmbedJob'
  <2>1. pc = "embed" /\ pc' = "embedMeta" /\ embed' = embed
        /\ embMeta' = [embMeta EXCEPT ![embed.version] = TornFile]
    BY <1>20 DEF OpenEmbMeta
  <2>2. embed.version \in Hours \ embed.cands /\ \A v \in embed.cands : embMeta[v].kind = "none" /\ v \in Hours
    BY <1>1, <1>2, <1>4, <2>1 DEF EmbedJob, Embedding
  <2>3. embMeta'[embed.version].kind = "torn" /\ \A v \in embed.cands : embMeta'[v] = embMeta[v]
    BY <1>3, <2>1, <2>2 DEF TornFile
  <2> QED BY <2>1, <2>2, <2>3 DEF EmbedJob, Embedding
<1>21. ASSUME WriteEmbMeta PROVE EmbedJob'
  <2>1. pc = "embedMeta" /\ pc' = "cands" /\ embed'.cands = embed.cands
        /\ embMeta' = [embMeta EXCEPT ![embed.version] = Whole(embed.cnt)]
    BY <1>21 DEF WriteEmbMeta, NoEmbed
  <2>2. embed.version \in Hours \ embed.cands /\ \A v \in embed.cands : embMeta[v].kind = "none" /\ v \in Hours
    BY <1>1, <1>2, <1>4, <2>1 DEF EmbedJob, Embedding
  <2>3. \A v \in embed.cands : embMeta'[v] = embMeta[v]
    BY <1>3, <2>1, <2>2
  <2> QED BY <2>1, <2>2, <2>3 DEF EmbedJob, Embedding
<1> QED
  BY <1>7, <1>8, <1>9, <1>10, <1>11, <1>14, <1>15, <1>16, <1>17, <1>18, <1>19, <1>20, <1>21, EmbedSteps

LEMMA StepRecords == RecordsInv /\ Next => RecordsInv'
BY StepTypes, StepFiles, StepCrawlJob, StepEmbedJob DEF RecordsInv

LEMMA StutterRecords == RecordsInv /\ UNCHANGED vars => RecordsInv'
BY DEF vars, world, storyFiles, embFiles, history, RecordsInv, TypeOK, FilesInv, CrawlJob, EmbedJob, Crawling,
   Embedding, Expected, Lines

\* Every variable keeps its type.
THEOREM HackerNewsTypeOK == Spec => []TypeOK
<1>1. Init => RecordsInv
  BY InitRecords
<1>2. RecordsInv /\ [Next]_vars => RecordsInv'
  BY StepRecords, StutterRecords
<1>3. RecordsInv => TypeOK
  BY DEF RecordsInv
<1> QED BY <1>1, <1>2, <1>3, PTL DEF Spec

----------------------------------------------------------------------------
(***************************************************************************)
(* A crawl has each item that it has done with.                            *)
(***************************************************************************)
\* The elements of a sequence without its first, and with one more.
LEMMA TailIs ==
  ASSUME NEW S, NEW s \in Seq(S), s # <<>>
  PROVE  /\ \A i \in DOMAIN s : i = 1 \/ (i - 1 \in DOMAIN Tail(s) /\ Tail(s)[i - 1] = s[i])
         /\ \A i \in DOMAIN Tail(s) : i + 1 \in DOMAIN s /\ Tail(s)[i] = s[i + 1]
OBVIOUS

LEMMA AppendIs ==
  ASSUME NEW S, NEW s \in Seq(S), NEW x \in S
  PROVE  /\ \A i \in DOMAIN s : i \in DOMAIN Append(s, x) /\ Append(s, x)[i] = s[i]
         /\ Len(s) + 1 \in DOMAIN Append(s, x) /\ Append(s, x)[Len(s) + 1] = x
         /\ \A i \in DOMAIN Append(s, x) : i \in DOMAIN s \/ i = Len(s) + 1
         /\ Len(s) + 1 \notin DOMAIN s
         /\ Range(Append(s, x)) = Range(s) \cup {x}
<1>1. /\ \A i \in DOMAIN s : i \in DOMAIN Append(s, x) /\ Append(s, x)[i] = s[i]
      /\ Len(s) + 1 \in DOMAIN Append(s, x) /\ Append(s, x)[Len(s) + 1] = x
      /\ \A i \in DOMAIN Append(s, x) : i \in DOMAIN s \/ i = Len(s) + 1
      /\ Len(s) + 1 \notin DOMAIN s
  OBVIOUS
<1>2. Range(Append(s, x)) = Range(s) \cup {x}
  <2> DEFINE longer == Append(s, x)
  <2> HIDE DEF longer
  <2>1. \A y : y \in Range(longer) => y \in Range(s) \cup {x}
    BY <1>1, Zenon DEF Range, longer
  <2>2. \A y : y \in Range(s) \cup {x} => y \in Range(longer)
    BY <1>1, Zenon DEF Range, longer
  <2> QED BY <2>1, <2>2 DEF longer
<1> QED BY <1>1, <1>2

\* Versions and the files of stories grow.
LEMMA StoriesGrow ==
  ASSUME RecordsInv, Next
  PROVE  crawled \subseteq crawled' /\ \A h \in Hours : Range(story[h]) \subseteq Range(story'[h])
<1>1. crawled \subseteq crawled'
  BY CrawlSteps DEF CrawlStays, storyFiles, Kill, Submit, StartCrawl, Consume, OpenMeta, WriteMeta, Fetched
<1>2. ASSUME Consume, NEW h \in Hours PROVE Range(story[h]) \subseteq Range(story'[h])
  <2> DEFINE item == Head(crawl.ready)
             v == crawl.version
  <2>1. /\ v \in Hours /\ item.id \in Ids
        /\ story' = story \/ story' = [story EXCEPT ![v] = Append(story[v], item.id)]
    BY <1>2, ConsumeIs
  <2>2. story \in [Hours -> Seq(Ids)]
    BY DEF RecordsInv, TypeOK
  <2>3. Range(Append(story[v], item.id)) = Range(story[v]) \cup {item.id}
    BY <2>1, <2>2, AppendIs
  <2>4. story'[h] = story[h] \/ (h = v /\ story'[h] = Append(story[v], item.id))
    BY <2>1, <2>2
  <2> HIDE DEF item, v
  <2> QED BY <2>3, <2>4
<1>3. Consume \/ story' = story
  BY CrawlSteps DEF CrawlStays, storyFiles, Kill, Submit, StartCrawl, OpenMeta, WriteMeta, Fetched
<1> QED BY <1>1, <1>2, <1>3

LEMMA InSomeStays ==
  ASSUME RecordsInv, Next, NEW url, InSome(url)
  PROVE  InSome(url)'
<1>1. PICK h \in crawled : \E k \in Range(story[h]) : UrlOf[k] = url
  BY DEF InSome
<1>2. h \in Hours /\ h \in crawled'
  BY StoriesGrow DEF RecordsInv, TypeOK
<1>3. \E k \in Range(story'[h]) : UrlOf[k] = url
  BY <1>1, <1>2, StoriesGrow
<1> QED BY <1>2, <1>3 DEF InSome

\* The item that a crawl takes has its address in a version from then on, or has none,
\* or is lost.
LEMMA ConsumeSees ==
  ASSUME RecordsInv, SeenInv, Next, Consume, NEW id, id = Head(crawl.ready).id
  PROVE  Seen(id)'
<1> DEFINE item == Head(crawl.ready)
           v == crawl.version
<1>1. /\ v \in crawled /\ v \in Hours /\ item \in Answers /\ id \in Ids
      /\ item.ok /\ UrlOf[id] \notin crawl.marks \cup {NoUrl} => story' = [story EXCEPT ![v] = Append(story[v], id)]
  BY ConsumeIs
<1>2. v \in crawled'
  BY <1>1, StoriesGrow
<1>3. CASE ~item.ok
  <2>1. id \in lost'
    BY <1>3 DEF Consume
  <2> QED BY <2>1 DEF Seen
<1>4. CASE UrlOf[id] = NoUrl
  BY <1>4 DEF Seen
<1>5. CASE UrlOf[id] \in crawl.marks
  <2>1. \E k \in Range(story[v]) : UrlOf[k] = UrlOf[id]
    BY <1>5 DEF SeenInv, Crawling, Consume
  <2>2. InSome(UrlOf[id])
    BY <1>1, <2>1 DEF InSome
  <2>3. InSome(UrlOf[id])'
    BY <2>2, InSomeStays
  <2> QED BY <2>3 DEF Seen
<1>6. CASE item.ok /\ UrlOf[id] \notin crawl.marks \cup {NoUrl}
  <2>1. story[v] \in Seq(Ids) /\ story'[v] = Append(story[v], id)
    BY <1>1, <1>6 DEF RecordsInv, TypeOK
  <2>2. id \in Range(story'[v])
    BY <1>1, <2>1, AppendIs
  <2>3. InSome(UrlOf[id])'
    BY <1>2, <2>2 DEF InSome
  <2> QED BY <2>3 DEF Seen
<1> QED BY <1>3, <1>4, <1>5, <1>6

\* What is true of an item stays so.
LEMMA SeenStays ==
  ASSUME RecordsInv, SeenInv, Next, NEW id, Seen(id)
  PROVE  Seen(id)'
<1>1. ASSUME Consume, id # Head(crawl.ready).id PROVE id \notin lost' => id \notin lost
  BY <1>1 DEF Consume
<1>2. Consume \/ lost' = lost
  BY CrawlSteps DEF CrawlStays, history, Kill, Submit, StartCrawl, OpenMeta, WriteMeta, Fetched
<1>3. CASE Consume /\ id = Head(crawl.ready).id
  BY <1>3, ConsumeSees
<1>4. CASE id \notin lost' => id \notin lost
  BY <1>4, InSomeStays DEF Seen
<1> QED BY <1>1, <1>2, <1>3, <1>4

\* When a crawl writes its meta file there is no item left between last and max.
LEMMA CrawlDone ==
  ASSUME RecordsInv, pc = "crawlMeta"
  PROVE  /\ crawl.last = crawl.next /\ crawl.next <= crawl.max
         /\ crawl.flying = {} /\ crawl.ready = <<>>
<1>1. /\ crawl.max \in Ids /\ crawl.last \in Ids \cup {0} /\ crawl.next \in 0 .. crawl.max
      /\ crawl.next = crawl.max \/ crawl.next >= crawl.last
      /\ Cardinality(crawl.flying) + Len(crawl.ready) + crawl.taken + crawl.next = crawl.max
      /\ crawl.taken = Expected /\ crawl.next <= crawl.last
  BY DEF RecordsInv, CrawlJob, Crawling
<1>2. /\ crawl.max \in Nat /\ crawl.last \in Nat /\ crawl.next \in Nat /\ crawl.taken \in Nat
      /\ crawl.flying \in SUBSET Ids /\ crawl.ready \in Seq(Answers) /\ Len(crawl.ready) \in Nat
  BY DEF RecordsInv, TypeOK, CrawlTypes
<1>3. IsFiniteSet(crawl.flying) /\ Cardinality(crawl.flying) \in Nat
  BY <1>2, IdsAssumption, FS_Subset, FS_CardinalityType
<1>4. PICK n \in Nat, m \in Nat : n = Cardinality(crawl.flying) /\ m = Len(crawl.ready)
  BY <1>2, <1>3
<1>5. n + m + crawl.taken + crawl.next = crawl.max
  BY <1>1, <1>4, Zenon
<1>6. crawl.last <= crawl.max
  <2>1. CASE crawl.last > crawl.max
    <3>1. Expected > 0
      BY <1>1, <2>1, ExpectedIs
    <3>2. crawl.taken > 0
      BY <1>1, <3>1
    <3>3. crawl.next = crawl.max
      BY <1>1, <1>2, <2>1
    <3> QED BY <1>2, <1>5, <3>2, <3>3
  <2> QED BY <1>2, <2>1
<1>7. crawl.taken = crawl.max - crawl.last /\ crawl.next = crawl.last
  BY <1>1, <1>2, <1>6, ExpectedIs
<1>8. n = 0 /\ m = 0
  BY <1>2, <1>5, <1>7
<1>9. crawl.flying = {} /\ crawl.ready = <<>>
  <2>1. Cardinality(crawl.flying) = 0 /\ Len(crawl.ready) = 0
    BY <1>4, <1>8
  <2>2. crawl.flying = {}
    BY <1>3, <2>1, FS_EmptySet
  <2>3. crawl.ready = <<>>
    BY <1>2, <2>1
  <2> QED BY <2>2, <2>3
<1> QED BY <1>6, <1>7, <1>9

\* So what its meta file then says is true.
LEMMA CrawlSaw ==
  ASSUME RecordsInv, SeenInv, pc = "crawlMeta"
  PROVE  \A id \in 1 .. crawl.max : Seen(id)
<1>1. /\ \A id \in 1 .. crawl.last : Seen(id)
      /\ \A id \in crawl.next + 1 .. crawl.max : id \in crawl.flying \/ Waits(id) \/ Seen(id)
  BY DEF SeenInv, Crawling
<1>2. crawl.last = crawl.next /\ crawl.flying = {} /\ crawl.ready = <<>>
  BY CrawlDone
<1>3. \A id : ~Waits(id)
  BY <1>2 DEF Waits
<1>4. crawl.max \in Nat /\ crawl.last \in Nat
  BY DEF RecordsInv, TypeOK, CrawlTypes
<1> QED BY <1>1, <1>2, <1>3, <1>4

LEMMA StepNothingMissed == RecordsInv /\ SeenInv /\ Next => NothingMissed'
<1> SUFFICES ASSUME RecordsInv, SeenInv, Next,
                    NEW v \in Hours, meta'[v].kind = "whole",
                    NEW id \in 1 .. meta'[v].value
             PROVE  Seen(id)'
  BY DEF NothingMissed, Seen, InSome
<1>1. meta \in [Hours -> SmallFile]
  BY DEF RecordsInv, TypeOK
<1>2. CASE meta'[v] = meta[v]
  <2>1. Seen(id)
    BY <1>2 DEF SeenInv, NothingMissed, Seen, InSome
  <2> QED BY <2>1, SeenStays
<1>3. CASE WriteMeta /\ meta'[v] = Whole(crawl.max)
  <2>1. id \in 1 .. crawl.max /\ pc = "crawlMeta"
    BY <1>3 DEF Whole, WriteMeta
  <2>2. Seen(id)
    BY <2>1, CrawlSaw
  <2> QED BY <2>2, SeenStays
<1>4. ASSUME OpenMeta PROVE meta'[v] = meta[v]
  BY <1>1, <1>4 DEF OpenMeta, TornFile
<1>5. ASSUME WriteMeta PROVE meta'[v] = meta[v] \/ meta'[v] = Whole(crawl.max)
  BY <1>1, <1>5 DEF WriteMeta
<1>6. OpenMeta \/ WriteMeta \/ meta' = meta
  BY CrawlSteps DEF CrawlStays, storyFiles, Kill, Submit, StartCrawl, Consume, Fetched
<1> QED BY <1>2, <1>3, <1>4, <1>5, <1>6

\* Where the items between last and max are, for those not yet submitted.
LEMMA StepSeen == RecordsInv /\ SeenInv /\ Next => SeenInv'
<1> SUFFICES ASSUME RecordsInv, SeenInv, Next PROVE SeenInv'
  OBVIOUS
<1>1. NothingMissed'
  BY StepNothingMissed
<1>2. TypeOK /\ crawl \in CrawlTypes
  BY DEF RecordsInv, TypeOK
<1>3. /\ crawl.max \in Nat /\ crawl.last \in Nat /\ crawl.next \in Nat /\ crawl.ready \in Seq(Answers)
      /\ crawl.flying \in SUBSET Ids
  BY <1>2 DEF CrawlTypes
<1>4. Crawling =>
        /\ \A id \in 1 .. crawl.last : Seen(id)
        /\ \A id \in crawl.next + 1 .. crawl.max : id \in crawl.flying \/ Waits(id) \/ Seen(id)
        /\ \A url \in crawl.marks : \E k \in Range(story[crawl.version]) : UrlOf[k] = url
  BY DEF SeenInv
<1>5. \A id : Seen(id) => Seen(id)'
  BY SeenStays
<1>6. Crawling => crawl.version \in Hours
  BY DEF RecordsInv, CrawlJob, Crawling, TypeOK
<1>7. ASSUME Crawling, crawl'.marks = crawl.marks, crawl'.version = crawl.version, NEW url \in crawl'.marks
      PROVE  \E k \in Range(story'[crawl'.version]) : UrlOf[k] = url
  BY <1>4, <1>6, <1>7, StoriesGrow
<1>8. CASE ~Crawling'
  BY <1>1, <1>8 DEF SeenInv
<1>9. ASSUME Crawling, crawl' = crawl PROVE SeenInv'
  <2>1. \A id : Waits(id)' <=> Waits(id)
    BY <1>9 DEF Waits
  <2> QED BY <1>1, <1>4, <1>5, <1>7, <1>9, <2>1 DEF SeenInv
<1>10. ASSUME NEW max \in Ids, StartCrawl(max) PROVE SeenInv'
  <2>1. /\ crawl'.max = max /\ crawl'.last = LastVersionMeta.value /\ crawl'.next = max /\ crawl'.marks = {}
    BY <1>10 DEF StartCrawl, NoCrawl
  <2>2. max \in Nat /\ LastVersionMeta.kind # "torn"
    BY <1>10, IdsAre DEF StartCrawl
  <2>3. \A id \in 1 .. LastVersionMeta.value : Seen(id)
    <3>1. CASE LastVersionMeta = NoFile
      BY <3>1 DEF NoFile
    <3>2. ASSUME NEW v \in crawled, LastVersionMeta = meta[v]
          PROVE  \A id \in 1 .. LastVersionMeta.value : Seen(id)
      <4>1. v \in Hours /\ meta[v].kind \in {"none", "torn", "whole"}
        BY <1>2 DEF TypeOK, SmallFile
      <4>2. CASE meta[v].kind = "whole"
        BY <3>2, <4>1, <4>2 DEF SeenInv, NothingMissed, Seen, InSome
      <4>3. CASE meta[v].kind = "none"
        BY <3>2, <4>1, <4>3 DEF RecordsInv, FilesInv
      <4> QED BY <2>2, <3>2, <4>1, <4>2, <4>3
    <3> QED BY <3>1, <3>2, LastVersionIs DEF RecordsInv
  <2> QED BY <1>1, <1>5, <2>1, <2>2, <2>3 DEF SeenInv
<1>11. ASSUME Submit PROVE SeenInv'
  <2>1. /\ crawl'.version = crawl.version /\ crawl'.max = crawl.max /\ crawl'.last = crawl.last
        /\ crawl'.next = crawl.next - 1 /\ crawl'.flying = crawl.flying \cup {crawl.next}
        /\ crawl'.ready = crawl.ready /\ crawl'.marks = crawl.marks
    BY <1>2, <1>11 DEF Submit, CrawlTypes
  <2>2. Crawling /\ \A id : Waits(id)' <=> Waits(id)
    BY <1>11, <2>1 DEF Submit, Crawling, Waits
  <2>3. \A id \in crawl.next - 1 + 1 .. crawl.max : id = crawl.next \/ id \in crawl.next + 1 .. crawl.max
    BY <1>3
  <2>4. \A id \in crawl'.next + 1 .. crawl'.max : id \in crawl'.flying \/ Waits(id)' \/ Seen(id)'
    BY <1>4, <1>5, <2>1, <2>2, <2>3
  <2>5. \A id \in 1 .. crawl'.last : Seen(id)'
    BY <1>4, <1>5, <2>1, <2>2
  <2> QED BY <1>1, <1>7, <2>1, <2>2, <2>4, <2>5 DEF SeenInv
<1>12. ASSUME NEW key \in Ids, NEW ok \in BOOLEAN, Fetched(key, ok) PROVE SeenInv'
  <2> DEFINE answer == [id |-> key, ok |-> ok]
  <2>1. /\ crawl'.version = crawl.version /\ crawl'.max = crawl.max /\ crawl'.last = crawl.last
        /\ crawl'.next = crawl.next /\ crawl'.flying = crawl.flying \ {key}
        /\ crawl'.ready = Append(crawl.ready, answer) /\ crawl'.marks = crawl.marks
    BY <1>2, <1>12 DEF Fetched, CrawlTypes
  <2>2. Crawling /\ answer \in Answers /\ answer.id = key
    BY <1>12 DEF Fetched, Crawling, Answers
  <2> HIDE DEF answer
  <2>3. \A id : Waits(id) => Waits(id)'
    BY <1>3, <2>1, <2>2, AppendIs DEF Waits
  <2>4. Waits(key)'
    BY <1>3, <2>1, <2>2, AppendIs DEF Waits
  <2>5. \A id \in crawl'.next + 1 .. crawl'.max : id \in crawl'.flying \/ Waits(id)' \/ Seen(id)'
    BY <1>4, <1>5, <2>1, <2>2, <2>3, <2>4
  <2>6. \A id \in 1 .. crawl'.last : Seen(id)'
    BY <1>4, <1>5, <2>1, <2>2
  <2> QED BY <1>1, <1>7, <2>1, <2>2, <2>5, <2>6 DEF SeenInv
<1>13. ASSUME Consume PROVE SeenInv'
  <2> DEFINE item == Head(crawl.ready)
             keeps == item.ok /\ UrlOf[item.id] \notin crawl.marks \cup {NoUrl}
             v == crawl.version
  <2>1. /\ crawl'.version = v /\ crawl'.max = crawl.max /\ crawl'.last = crawl.last
        /\ crawl'.next = crawl.next /\ crawl'.flying = crawl.flying
        /\ crawl'.ready = Tail(crawl.ready)
        /\ crawl'.marks = IF keeps THEN crawl.marks \cup {UrlOf[item.id]} ELSE crawl.marks
    BY <1>2, <1>13 DEF Consume, CrawlTypes
  <2>2. Crawling /\ crawl.ready # <<>>
    BY <1>13 DEF Consume, Crawling
  <2>3. item = crawl.ready[1] /\ \A id : id = item.id => Seen(id)'
    BY <1>13, ConsumeIs, ConsumeSees
  <2>4. ASSUME NEW id, Waits(id) PROVE Waits(id)' \/ Seen(id)'
    <3>1. PICK i \in DOMAIN crawl.ready : crawl.ready[i].id = id
      BY <2>4 DEF Waits
    <3>2. CASE i = 1
      BY <2>3, <3>1, <3>2
    <3>3. CASE i - 1 \in DOMAIN crawl'.ready /\ crawl'.ready[i - 1] = crawl.ready[i]
      BY <3>1, <3>3 DEF Waits
    <3> QED BY <1>3, <2>1, <2>2, <3>2, <3>3, TailIs
  <2>5. \A id \in crawl'.next + 1 .. crawl'.max : id \in crawl'.flying \/ Waits(id)' \/ Seen(id)'
    BY <1>4, <1>5, <2>1, <2>2, <2>4
  <2>6. \A id \in 1 .. crawl'.last : Seen(id)'
    BY <1>4, <1>5, <2>1, <2>2
  <2>7. ASSUME NEW url \in crawl'.marks PROVE \E k \in Range(story'[v]) : UrlOf[k] = url
    <3>1. CASE url \in crawl.marks
      BY <1>4, <1>6, <2>2, <3>1, StoriesGrow
    <3>2. CASE keeps /\ url = UrlOf[item.id]
      <4>1. v \in Hours /\ item.id \in Ids /\ story' = [story EXCEPT ![v] = Append(story[v], item.id)]
        BY <1>13, <3>2, ConsumeIs
      <4>2. story[v] \in Seq(Ids) /\ story'[v] = Append(story[v], item.id)
        BY <1>2, <4>1 DEF TypeOK
      <4>3. item.id \in Range(story'[v])
        BY <4>1, <4>2, AppendIs
      <4> QED BY <3>2, <4>3
    <3> QED BY <2>1, <2>7, <3>1, <3>2
  <2> HIDE DEF item, keeps, v
  <2> QED BY <1>1, <2>1, <2>5, <2>6, <2>7 DEF SeenInv
<1>14. ASSUME CrawlStays PROVE Crawling' => Crawling /\ crawl' = crawl
  BY <1>14 DEF CrawlStays, Crawling
<1>15. OpenMeta => Crawling /\ crawl' = crawl
  BY DEF OpenMeta, Crawling
<1>16. WriteMeta \/ Kill => ~Crawling'
  BY DEF WriteMeta, Kill, Crawling
<1> QED BY <1>8, <1>9, <1>10, <1>11, <1>12, <1>13, <1>14, <1>15, <1>16, CrawlSteps

LEMMA InitSeen == Init => SeenInv
BY DEF Init, SeenInv, NothingMissed, NoFile, Crawling

LEMMA StutterSeen == SeenInv /\ UNCHANGED vars => SeenInv'
BY DEF vars, world, storyFiles, embFiles, history, SeenInv, NothingMissed, Crawling, Seen, InSome, Waits

\* hacker_news.cpp:82-166: a version's meta file says that everything up to its item has
\* been seen; then the address of every such story is in some version, whatever was
\* killed on the way, unless its fetch failed the last time.
THEOREM HackerNewsNothingMissed == Spec => []NothingMissed
<1>1. Init => RecordsInv /\ SeenInv
  BY InitRecords, InitSeen
<1>2. RecordsInv /\ SeenInv /\ [Next]_vars => (RecordsInv /\ SeenInv)'
  BY StepRecords, StutterRecords, StepSeen, StutterSeen
<1>3. SeenInv => NothingMissed
  BY DEF SeenInv
<1> QED BY <1>1, <1>2, <1>3, PTL DEF Spec

----------------------------------------------------------------------------
(***************************************************************************)
(* An item is in one place.                                                *)
(***************************************************************************)
\* An item that is fetched, or taken, leaves the place where it was.
LEMMA StepAnswers == RecordsInv /\ AnswersInv /\ Next => AnswersInv'
<1> SUFFICES ASSUME RecordsInv, AnswersInv, Next PROVE AnswersInv'
  OBVIOUS
<1>1. crawl \in CrawlTypes
  BY DEF RecordsInv, TypeOK
<1>2. /\ crawl.max \in Nat /\ crawl.next \in Nat /\ crawl.ready \in Seq(Answers)
      /\ crawl.flying \in SUBSET Ids
  BY <1>1 DEF CrawlTypes
<1>3. Crawling =>
        /\ \A i \in DOMAIN crawl.ready : crawl.ready[i].id \in (crawl.next + 1 .. crawl.max) \ crawl.flying
        /\ \A i, j \in DOMAIN crawl.ready : crawl.ready[i].id = crawl.ready[j].id => i = j
  BY DEF AnswersInv
<1>4. Crawling => crawl.flying \subseteq crawl.next + 1 .. crawl.max /\ crawl.next <= crawl.max
  BY <1>2 DEF RecordsInv, CrawlJob
<1>5. CASE ~Crawling'
  BY <1>5 DEF AnswersInv
<1>6. CASE Crawling /\ crawl' = crawl
  BY <1>3, <1>6 DEF AnswersInv
<1>7. ASSUME NEW max \in Ids, StartCrawl(max) PROVE AnswersInv'
  <2>1. crawl'.ready = <<>>
    BY <1>7 DEF StartCrawl, NoCrawl
  <2> QED BY <2>1 DEF AnswersInv
<1>8. ASSUME Submit PROVE AnswersInv'
  <2>1. /\ crawl'.max = crawl.max /\ crawl'.next = crawl.next - 1 /\ crawl'.ready = crawl.ready
        /\ crawl'.flying = crawl.flying \cup {crawl.next} /\ Crawling
    BY <1>1, <1>8 DEF Submit, CrawlTypes, Crawling
  <2>2. \A k \in (crawl.next + 1 .. crawl.max) \ crawl.flying :
          k \in (crawl.next - 1 + 1 .. crawl.max) \ (crawl.flying \cup {crawl.next})
    BY <1>2
  <2> QED BY <1>3, <2>1, <2>2 DEF AnswersInv
<1>9. ASSUME NEW key \in Ids, NEW ok \in BOOLEAN, Fetched(key, ok) PROVE AnswersInv'
  <2> DEFINE answer == [id |-> key, ok |-> ok]
             n == Len(crawl.ready) + 1
  <2>1. /\ crawl'.max = crawl.max /\ crawl'.next = crawl.next /\ crawl'.ready = Append(crawl.ready, answer)
        /\ crawl'.flying = crawl.flying \ {key} /\ Crawling /\ key \in crawl.flying
    BY <1>1, <1>9 DEF Fetched, CrawlTypes, Crawling
  <2>2. answer \in Answers /\ answer.id = key
    BY DEF Answers
  <2> HIDE DEF answer, n
  <2>3. /\ \A i \in DOMAIN crawl.ready : crawl'.ready[i] = crawl.ready[i]
        /\ crawl'.ready[n] = answer
        /\ \A i \in DOMAIN crawl'.ready : i \in DOMAIN crawl.ready \/ i = n
    BY <1>2, <2>1, <2>2, AppendIs DEF n
  <2>4. key \in (crawl.next + 1 .. crawl.max) \ (crawl.flying \ {key})
    BY <1>4, <2>1
  <2>5. \A i \in DOMAIN crawl.ready : crawl.ready[i].id # key
    BY <1>3, <2>1
  <2>6. \A i \in DOMAIN crawl'.ready : crawl'.ready[i].id \in (crawl.next + 1 .. crawl.max) \ (crawl.flying \ {key})
    BY <1>3, <2>1, <2>2, <2>3, <2>4
  <2>7. \A i, j \in DOMAIN crawl'.ready : crawl'.ready[i].id = crawl'.ready[j].id => i = j
    BY <1>3, <2>1, <2>2, <2>3, <2>5
  <2> QED BY <2>1, <2>6, <2>7 DEF AnswersInv
<1>10. ASSUME Consume PROVE AnswersInv'
  <2>1. /\ crawl'.max = crawl.max /\ crawl'.next = crawl.next /\ crawl'.ready = Tail(crawl.ready)
        /\ crawl'.flying = crawl.flying /\ Crawling /\ crawl.ready # <<>>
    BY <1>1, <1>10 DEF Consume, CrawlTypes, Crawling
  <2>2. \A i \in DOMAIN crawl'.ready : i \in Nat /\ i + 1 \in DOMAIN crawl.ready /\ crawl'.ready[i] = crawl.ready[i + 1]
    BY <1>2, <2>1, TailIs
  <2>3. \A i \in DOMAIN crawl'.ready : crawl'.ready[i].id \in (crawl.next + 1 .. crawl.max) \ crawl.flying
    BY <1>3, <2>1, <2>2
  <2>4. ASSUME NEW i \in DOMAIN crawl'.ready, NEW j \in DOMAIN crawl'.ready, crawl'.ready[i].id = crawl'.ready[j].id
        PROVE  i = j
    <3>1. i + 1 = j + 1
      BY <1>3, <2>1, <2>2, <2>4
    <3> QED BY <2>2, <3>1
  <2> QED BY <2>1, <2>3, <2>4 DEF AnswersInv
<1>11. CrawlStays => ~Crawling' \/ (Crawling /\ crawl' = crawl)
  BY DEF CrawlStays, Crawling
<1>12. OpenMeta => Crawling /\ crawl' = crawl
  BY DEF OpenMeta, Crawling
<1>13. WriteMeta \/ Kill => ~Crawling'
  BY DEF WriteMeta, Kill, Crawling
<1> QED BY <1>5, <1>6, <1>7, <1>8, <1>9, <1>10, <1>11, <1>12, <1>13, CrawlSteps

\* The item that a crawl takes is new to the file.
LEMMA ConsumeOnce ==
  ASSUME RecordsInv, OnceInv, Consume, crawl.version \notin cut
  PROVE  LET key == Head(crawl.ready).id
             v == crawl.version
         IN  /\ key \in (crawl.next + 1 .. crawl.max) \ crawl.flying
             /\ \A i \in DOMAIN story[v] : story[v][i] # key
             /\ \A i \in DOMAIN crawl.ready : i # 1 => crawl.ready[i].id # key
<1> DEFINE key == Head(crawl.ready).id
           v == crawl.version
<1>1. /\ v \in Hours /\ key = crawl.ready[1].id /\ 1 \in DOMAIN crawl.ready /\ Crawling
  BY ConsumeIs DEF Consume, Crawling
<1>2. key \in (crawl.next + 1 .. crawl.max) \ crawl.flying /\ \A i \in DOMAIN crawl.ready : i # 1 => crawl.ready[i].id # key
  BY <1>1 DEF OnceInv, AnswersInv
<1>3. ~ (key <= crawl.last)
  <2>1. /\ crawl.max \in Nat /\ crawl.last \in Nat /\ crawl.next \in Nat
        /\ crawl.next = crawl.max \/ crawl.next >= crawl.last
    BY <1>1 DEF RecordsInv, TypeOK, CrawlTypes, CrawlJob
  <2> HIDE DEF key
  <2> QED BY <1>2, <2>1
<1>4. Waits(key)
  BY <1>1 DEF Waits
<1>5. \A i \in DOMAIN story[v] : Placed(v, story[v][i])
  BY <1>1 DEF OnceInv, FilesOnce, Range
<1>6. ~Placed(v, key)
  BY <1>1, <1>3, <1>4 DEF Placed, CrawledNow
<1>7. \A i \in DOMAIN story[v] : story[v][i] # key
  BY <1>5, <1>6
<1> QED BY <1>2, <1>7

\* An item in the file of the crawl that runs stays out of the crawl's hands.
LEMMA PlacedStays ==
  ASSUME RecordsInv, OnceInv, Next, NEW v \in Hours, NEW k \in Ids, Placed(v, k),
         CrawledNow(v), crawl' # crawl, Crawling'
  PROVE  Placed(v, k)'
<1>1. crawl \in CrawlTypes
  BY DEF RecordsInv, TypeOK
<1>2. /\ crawl.max \in Nat /\ crawl.next \in Nat /\ crawl.ready \in Seq(Answers)
  BY <1>1 DEF CrawlTypes
<1>3. k <= crawl.last \/ (k \in (crawl.next + 1 .. crawl.max) \ crawl.flying /\ ~Waits(k))
  BY DEF Placed
<1>4. ASSUME crawl'.version = crawl.version, crawl'.last = crawl.last,
             k \in (crawl.next + 1 .. crawl.max) \ crawl.flying /\ ~Waits(k) =>
               k \in (crawl'.next + 1 .. crawl'.max) \ crawl'.flying /\ ~Waits(k)'
      PROVE  Placed(v, k)'
  BY <1>3, <1>4 DEF Placed, CrawledNow
<1>5. ASSUME Submit PROVE Placed(v, k)'
  <2>1. /\ crawl'.version = crawl.version /\ crawl'.last = crawl.last
        /\ crawl'.max = crawl.max /\ crawl'.next = crawl.next - 1 /\ crawl'.ready = crawl.ready
        /\ crawl'.flying = crawl.flying \cup {crawl.next}
    BY <1>1, <1>5 DEF Submit, CrawlTypes
  <2>2. k \in (crawl.next + 1 .. crawl.max) \ crawl.flying =>
          k \in (crawl.next - 1 + 1 .. crawl.max) \ (crawl.flying \cup {crawl.next})
    BY <1>2
  <2>3. ~Waits(k) => ~Waits(k)'
    BY <2>1 DEF Waits
  <2> QED BY <1>4, <2>1, <2>2, <2>3
<1>6. ASSUME NEW key \in Ids, NEW ok \in BOOLEAN, Fetched(key, ok) PROVE Placed(v, k)'
  <2> DEFINE answer == [id |-> key, ok |-> ok]
  <2>1. /\ crawl'.version = crawl.version /\ crawl'.last = crawl.last
        /\ crawl'.max = crawl.max /\ crawl'.next = crawl.next /\ crawl'.ready = Append(crawl.ready, answer)
        /\ crawl'.flying = crawl.flying \ {key} /\ key \in crawl.flying
    BY <1>1, <1>6 DEF Fetched, CrawlTypes
  <2>2. answer \in Answers /\ answer.id = key
    BY DEF Answers
  <2> HIDE DEF answer
  <2>3. ~Waits(k) /\ k # key => ~Waits(k)'
    BY <1>2, <2>1, <2>2, AppendIs DEF Waits
  <2> QED BY <1>4, <2>1, <2>3
<1>7. ASSUME Consume PROVE Placed(v, k)'
  <2>1. /\ crawl'.version = crawl.version /\ crawl'.last = crawl.last
        /\ crawl'.max = crawl.max /\ crawl'.next = crawl.next /\ crawl'.ready = Tail(crawl.ready)
        /\ crawl'.flying = crawl.flying /\ crawl.ready # <<>>
    BY <1>1, <1>7 DEF Consume, CrawlTypes
  <2>2. ~Waits(k) => ~Waits(k)'
    BY <1>2, <2>1, TailIs DEF Waits
  <2> QED BY <1>4, <2>1, <2>2
<1>8. Submit \/ Consume \/ \E key \in Ids, ok \in BOOLEAN : Fetched(key, ok)
  BY CrawlSteps DEF CrawlStays, Kill, StartCrawl, OpenMeta, WriteMeta, Crawling, CrawledNow, Start
<1> QED BY <1>5, <1>6, <1>7, <1>8

\* A file has no item twice, as long as no crawl into its version was killed.
LEMMA StepFilesOnce == RecordsInv /\ OnceInv /\ Next => FilesOnce'
<1> SUFFICES ASSUME RecordsInv, OnceInv, Next, NEW v \in Hours, v \notin cut'
             PROVE  IsInjective(story'[v]) /\ \A k \in Range(story'[v]) : Placed(v, k)'
  BY DEF FilesOnce
<1>1. v \notin cut
  BY CrawlSteps DEF CrawlStays, history, Kill, Submit, StartCrawl, Consume, OpenMeta, WriteMeta, Fetched
<1>2. IsInjective(story[v]) /\ \A k \in Range(story[v]) : Placed(v, k)
  BY <1>1 DEF OnceInv, FilesOnce
<1>3. story[v] \in Seq(Ids) /\ meta \in [Hours -> SmallFile] /\ story \in [Hours -> Seq(Ids)]
  BY DEF RecordsInv, TypeOK
<1>4. Range(story[v]) \subseteq Ids
  BY <1>3 DEF Range
<1>5. ASSUME story'[v] = story[v], \A k \in Ids : Placed(v, k) => Placed(v, k)'
      PROVE  IsInjective(story'[v]) /\ \A k \in Range(story'[v]) : Placed(v, k)'
  BY <1>2, <1>4, <1>5
<1> DEFINE Goal == IsInjective(story'[v]) /\ \A k \in Range(story'[v]) : Placed(v, k)'
<1> HIDE DEF Goal
<1>6. ASSUME story'[v] = story[v], meta'[v] = meta[v], CrawledNow(v)' <=> CrawledNow(v),
             CrawledNow(v) => crawl' = crawl
      PROVE  Goal
  <2>1. \A k \in Ids : CrawledNow(v) => (Waits(k)' <=> Waits(k))
    BY <1>6 DEF Waits
  <2>2. \A k \in Ids : Placed(v, k) => Placed(v, k)'
    BY <1>6, <2>1 DEF Placed
  <2> QED BY <1>5, <1>6, <2>2 DEF Goal
<1>7. ASSUME CrawlStays PROVE Goal
  BY <1>6, <1>7 DEF CrawlStays, storyFiles, CrawledNow, Crawling
<1>8. ASSUME Kill PROVE Goal
  <2>1. ~CrawledNow(v) /\ ~CrawledNow(v)'
    BY <1>8 DEF Kill, CrawledNow, Crawling
  <2> QED BY <1>6, <1>8, <2>1 DEF Kill, storyFiles
<1>9. ASSUME NEW max \in Ids, StartCrawl(max) PROVE Goal
  <2>1. story' = story /\ meta' = meta /\ pc = "off" /\ pc' = "crawl"
        /\ crawl'.version = hour /\ crawl'.last = LastVersionMeta.value
    BY <1>9 DEF StartCrawl, Start, NoCrawl
  <2>2. ~CrawledNow(v)
    BY <2>1 DEF CrawledNow, Crawling
  <2>3. CASE v # hour
    <3>1. ~CrawledNow(v)'
      BY <2>1, <2>3 DEF CrawledNow
    <3> QED BY <1>6, <2>1, <2>2, <3>1
  <2>4. CASE v = hour
    <3>1. CASE hour \notin crawled
      <4>1. story[v] = <<>>
        BY <2>4, <3>1 DEF RecordsInv, FilesInv
      <4> QED BY <2>1, <4>1 DEF Goal, IsInjective, Range
    <3>2. CASE hour \in crawled
      <4>1. PICK h \in crawled : (\A g \in crawled : g <= h) /\ LastVersionMeta = meta[h]
        BY <3>2, LastVersionIs DEF RecordsInv
      <4>2. h \in 1 .. hour /\ hour \in Nat /\ hour <= h
        BY <3>2, <4>1 DEF RecordsInv, FilesInv, TypeOK, Hours
      <4>3. LastVersionMeta = meta[v]
        BY <2>4, <4>1, <4>2
      <4>4. \A k \in Ids : Placed(v, k) => Placed(v, k)'
        BY <2>1, <2>2, <4>3 DEF Placed, CrawledNow
      <4> QED BY <1>5, <2>1, <4>4 DEF Goal
    <3> QED BY <3>1, <3>2
  <2> QED BY <2>3, <2>4
<1>10. ASSUME Submit \/ \E key \in Ids, ok \in BOOLEAN : Fetched(key, ok) PROVE Goal
  <2>1. /\ story' = story /\ meta' = meta /\ pc' = pc /\ crawl'.version = crawl.version /\ Crawling
    BY <1>10 DEF RecordsInv, TypeOK, CrawlTypes, Submit, Fetched, storyFiles, Crawling
  <2>2. CASE ~CrawledNow(v)
    BY <1>6, <2>1, <2>2 DEF CrawledNow, Crawling
  <2>3. CASE crawl' = crawl
    BY <1>6, <2>1, <2>3 DEF CrawledNow, Crawling
  <2>4. CASE CrawledNow(v) /\ crawl' # crawl
    <3>1. \A k \in Ids : Placed(v, k) => Placed(v, k)'
      BY <2>1, <2>4, PlacedStays DEF Crawling
    <3> QED BY <1>5, <2>1, <3>1 DEF Goal
  <2> QED BY <2>2, <2>3, <2>4
<1>11. ASSUME Consume PROVE Goal
  <2> DEFINE key == Head(crawl.ready).id
  <2>1. /\ meta' = meta /\ pc' = pc /\ crawl'.version = crawl.version /\ Crawling
        /\ crawl'.taken = crawl.taken + 1 /\ crawl.taken \in Nat
        /\ crawl'.max = crawl.max /\ crawl'.next = crawl.next /\ crawl'.flying = crawl.flying
        /\ crawl'.ready = Tail(crawl.ready) /\ crawl.ready # <<>> /\ crawl.ready \in Seq(Answers)
    BY <1>11 DEF RecordsInv, TypeOK, CrawlTypes, Consume, Crawling
  <2>2. /\ key \in Ids /\ crawl.version \in Hours
        /\ story' = story \/ story' = [story EXCEPT ![crawl.version] = Append(story[crawl.version], key)]
    BY <1>11, ConsumeIs
  <2>3. crawl' # crawl
    BY <2>1
  <2> HIDE DEF key
  <2>4. CASE ~CrawledNow(v)
    <3>1. story'[v] = story[v] /\ ~CrawledNow(v)'
      BY <1>3, <2>1, <2>2, <2>4 DEF CrawledNow, Crawling
    <3> QED BY <1>6, <2>1, <2>4, <3>1
  <2>5. CASE CrawledNow(v)
    <3>1. \A k \in Ids : Placed(v, k) => Placed(v, k)'
      BY <2>1, <2>3, <2>5, PlacedStays DEF Crawling
    <3>2. CASE story' = story
      BY <1>5, <3>1, <3>2 DEF Goal
    <3>3. CASE story'[v] = Append(story[v], key)
      <4> DEFINE n == Len(story[v]) + 1
      <4>1. /\ \A i \in DOMAIN story[v] : story'[v][i] = story[v][i]
            /\ story'[v][n] = key
            /\ \A i \in DOMAIN story'[v] : i \in DOMAIN story[v] \/ i = n
        BY <1>3, <2>2, <3>3, AppendIs
      <4>2. /\ key \in (crawl.next + 1 .. crawl.max) \ crawl.flying
            /\ \A i \in DOMAIN story[v] : story[v][i] # key
            /\ \A i \in DOMAIN crawl.ready : i # 1 => crawl.ready[i].id # key
        BY <1>1, <1>11, <2>5, ConsumeOnce DEF CrawledNow, key
      <4> HIDE DEF n
      <4>3. IsInjective(story'[v])
        BY <1>2, <4>1, <4>2 DEF IsInjective
      <4>4. \A k : k = key => ~Waits(k)'
        <5>1. \A i \in DOMAIN crawl'.ready : i \in Nat \ {0} /\ i + 1 \in DOMAIN crawl.ready /\ crawl'.ready[i] = crawl.ready[i + 1]
          BY <2>1, TailIs
        <5>2. \A i \in DOMAIN crawl'.ready : crawl'.ready[i].id # key
          BY <4>2, <5>1
        <5> QED BY <5>2 DEF Waits
      <4>5. \A k : k = key => Placed(v, k)'
        BY <2>1, <2>5, <4>2, <4>4 DEF Placed, CrawledNow, Crawling
      <4>6. Range(story'[v]) = Range(story[v]) \cup {key}
        BY <1>3, <2>2, <3>3, AppendIs
      <4>7. \A k \in Range(story'[v]) : Placed(v, k)'
        BY <1>2, <1>4, <3>1, <4>5, <4>6
      <4> QED BY <4>3, <4>7 DEF Goal
    <3>4. story'[v] = story[v] \/ story'[v] = Append(story[v], key)
      BY <1>3, <2>2, <2>5 DEF CrawledNow
    <3>5. CASE story'[v] = story[v]
      BY <1>5, <3>1, <3>5 DEF Goal
    <3> QED BY <3>3, <3>4, <3>5
  <2> QED BY <2>4, <2>5
<1>12. ASSUME OpenMeta PROVE Goal
  <2>1. story' = story /\ crawl' = crawl /\ (v # crawl.version => meta'[v] = meta[v]) /\ (CrawledNow(v)' <=> CrawledNow(v))
        /\ (CrawledNow(v) <=> v = crawl.version)
    BY <1>3, <1>12 DEF OpenMeta, CrawledNow, Crawling
  <2>2. CASE v # crawl.version
    BY <1>6, <2>1, <2>2
  <2>3. CASE v = crawl.version
    <3>1. \A k \in Ids : Waits(k)' <=> Waits(k)
      BY <2>1 DEF Waits
    <3>2. \A k \in Ids : Placed(v, k) => Placed(v, k)'
      BY <2>1, <2>3, <3>1 DEF Placed
    <3> QED BY <1>5, <2>1, <3>2 DEF Goal
  <2> QED BY <2>2, <2>3
<1>13. ASSUME WriteMeta PROVE Goal
  <2>1. /\ story' = story /\ ~CrawledNow(v)' /\ (CrawledNow(v) <=> v = crawl.version) /\ pc = "crawlMeta"
        /\ (v # crawl.version => meta'[v] = meta[v])
        /\ (v = crawl.version => meta'[v] = Whole(crawl.max))
    BY <1>3, <1>13 DEF WriteMeta, CrawledNow, Crawling
  <2>2. CASE v # crawl.version
    BY <1>6, <2>1, <2>2
  <2>3. CASE v = crawl.version
    <3>1. crawl.last <= crawl.max /\ crawl.max \in Nat /\ crawl.last \in Nat /\ crawl.next \in Nat
      BY <2>1, CrawlDone DEF RecordsInv, TypeOK, CrawlTypes
    <3>2. meta'[v].value = crawl.max
      BY <2>1, <2>3 DEF Whole
    <3>3. ASSUME NEW k \in Ids, Placed(v, k) PROVE k <= crawl.max
      <4>1. k \in Nat
        BY IdsAre
      <4> QED BY <2>1, <2>3, <3>1, <3>3, <4>1 DEF Placed
    <3>4. \A k \in Ids : Placed(v, k) => Placed(v, k)'
      BY <2>1, <3>2, <3>3 DEF Placed
    <3> QED BY <1>5, <2>1, <3>4 DEF Goal
  <2> QED BY <2>2, <2>3
<1>14. Goal
  BY <1>7, <1>8, <1>9, <1>10, <1>11, <1>12, <1>13, CrawlSteps
<1> QED BY <1>14 DEF Goal

\* A crawl is not started if the last version's meta file is torn, and it tears that of
\* the last version only.
LEMMA StepTorn == RecordsInv /\ TornInv /\ Next => TornInv'
<1> SUFFICES ASSUME RecordsInv, TornInv, Next, NEW v \in Hours, meta'[v].kind = "torn"
             PROVE  /\ v \in crawled' /\ \A h \in crawled' : h <= v
                    /\ v \in cut' \/ (pc' = "crawlMeta" /\ v = crawl'.version)
  BY DEF TornInv
<1>1. meta \in [Hours -> SmallFile] /\ hour \in Nat /\ crawled \subseteq 1 .. hour
  BY DEF RecordsInv, TypeOK, FilesInv, Hours
<1>2. meta[v].kind = "torn" =>
        /\ v \in crawled /\ \A h \in crawled : h <= v
        /\ v \in cut \/ (pc = "crawlMeta" /\ v = crawl.version)
  BY DEF TornInv
<1>3. CASE CrawlStays
  BY <1>2, <1>3 DEF CrawlStays, storyFiles, Crawling
<1>4. CASE Kill
  BY <1>2, <1>4 DEF Kill, storyFiles
<1>5. ASSUME NEW max \in Ids, StartCrawl(max) PROVE FALSE
  <2>1. meta[v].kind = "torn" /\ LastVersionMeta.kind # "torn"
    BY <1>5 DEF StartCrawl
  <2>2. v \in crawled /\ \A h \in crawled : h <= v
    BY <1>2, <2>1
  <2>3. PICK h \in crawled : (\A g \in crawled : g <= h) /\ LastVersionMeta = meta[h]
    BY <2>2, LastVersionIs DEF RecordsInv
  <2>4. h = v
    BY <1>1, <2>2, <2>3
  <2> QED BY <2>1, <2>3, <2>4
<1>6. CASE Submit \/ Consume
  BY <1>2, <1>6 DEF Submit, Consume, storyFiles, history
<1>7. ASSUME NEW key \in Ids, NEW ok \in BOOLEAN, Fetched(key, ok)
      PROVE  /\ v \in crawled' /\ \A h \in crawled' : h <= v
             /\ v \in cut' \/ (pc' = "crawlMeta" /\ v = crawl'.version)
  <2>1. meta' = meta /\ crawled' = crawled /\ cut' = cut /\ pc' = pc
    BY <1>7 DEF Fetched, storyFiles, history
  <2>2. crawl'.version = crawl.version
    BY <1>7 DEF Fetched, RecordsInv, TypeOK, CrawlTypes
  <2> QED BY <1>2, <2>1, <2>2
<1>8. CASE OpenMeta
  <2>1. /\ pc = "crawl" /\ pc' = "crawlMeta" /\ crawl' = crawl /\ crawled' = crawled /\ cut' = cut
        /\ v # crawl.version => meta'[v] = meta[v]
    BY <1>1, <1>8 DEF OpenMeta, history
  <2>2. crawl.version = hour /\ hour \in crawled
    BY <2>1 DEF RecordsInv, CrawlJob, Crawling
  <2> QED BY <1>1, <1>2, <2>1, <2>2
<1>9. CASE WriteMeta
  <2>1. crawled' = crawled /\ cut' = cut /\ pc = "crawlMeta" /\ meta' = [meta EXCEPT ![crawl.version] = Whole(crawl.max)]
    BY <1>9 DEF WriteMeta, history
  <2>2. v # crawl.version /\ meta'[v] = meta[v]
    BY <1>1, <2>1 DEF Whole
  <2> QED BY <1>2, <2>1, <2>2
<1> QED BY <1>3, <1>4, <1>5, <1>6, <1>7, <1>8, <1>9, CrawlSteps

LEMMA StepOnce == RecordsInv /\ OnceInv /\ Next => OnceInv'
BY StepAnswers, StepFilesOnce, StepTorn DEF OnceInv

LEMMA InitOnce == Init => OnceInv
BY DEF Init, OnceInv, AnswersInv, FilesOnce, TornInv, NoFile, Crawling, IsInjective, Range

LEMMA StutterOnce == OnceInv /\ UNCHANGED vars => OnceInv'
BY DEF vars, world, storyFiles, embFiles, history, OnceInv, AnswersInv, FilesOnce, TornInv, Crawling, Placed,
   CrawledNow, Waits

\* A sequence without repetition has as many elements as it is long.
LEMMA InjectiveIs ==
  ASSUME NEW S, NEW s \in Seq(S), IsInjective(s)
  PROVE  Cardinality(Range(s)) = Len(s)
<1> DEFINE n == Len(s)
<1>1. n \in Nat /\ DOMAIN s = 1 .. n
  OBVIOUS
<1>2. s \in [1 .. n -> Range(s)]
  BY <1>1 DEF Range
<1> HIDE DEF n
<1>3. s \in Bijection(1 .. n, Range(s))
  BY <1>1, <1>2 DEF Bijection, Injection, Surjection, IsInjective, Range
<1>4. ExistsBijection(1 .. n, Range(s))
  BY <1>3 DEF ExistsBijection
<1>5. Cardinality(Range(s)) = n
  BY <1>1, <1>4, FS_CountingElements
<1> QED BY <1>5 DEF n

LEMMA NoDamage == RecordsInv /\ OnceInv => DamageOnlyAfterKill
<1> SUFFICES ASSUME RecordsInv, OnceInv, NEW v \in Hours
             PROVE  /\ Repeats(v) \/ (pc = "off" /\ meta[v].kind = "torn") => v \in cut
                    /\ meta[v].kind = "torn" => v = Max(crawled)
  BY DEF DamageOnlyAfterKill
<1>1. ASSUME v \notin cut PROVE ~Repeats(v)
  <2>1. story[v] \in Seq(Ids) /\ IsInjective(story[v])
    BY <1>1 DEF OnceInv, FilesOnce, RecordsInv, TypeOK
  <2>2. Cardinality(Range(story[v])) = Len(story[v]) /\ Len(story[v]) \in Nat
    BY <2>1, InjectiveIs
  <2> QED BY <2>2 DEF Repeats
<1>2. meta[v].kind = "torn" =>
        /\ v \in crawled /\ \A h \in crawled : h <= v
        /\ v \in cut \/ pc = "crawlMeta"
  BY DEF OnceInv, TornInv
<1>3. crawled \in SUBSET Nat
  BY DEF RecordsInv, TypeOK, Hours
<1>4. meta[v].kind = "torn" => v = Max(crawled)
  BY <1>2, <1>3, MaxIs
<1> QED BY <1>1, <1>2, <1>4

\* hacker_news.cpp:90, 162, hn_hnsw.hpp:248: a file repeats an item, or a meta file is
\* left torn, only if a crawl into that version was killed; and a torn meta file is the
\* last version's, so that no later version is built on it.
THEOREM HackerNewsDamageOnlyAfterKill == Spec => []DamageOnlyAfterKill
<1>1. Init => RecordsInv /\ OnceInv
  BY InitRecords, InitOnce
<1>2. RecordsInv /\ OnceInv /\ [Next]_vars => (RecordsInv /\ OnceInv)'
  BY StepRecords, StutterRecords, StepOnce, StutterOnce
<1>3. RecordsInv /\ OnceInv => DamageOnlyAfterKill
  BY NoDamage
<1> QED BY <1>1, <1>2, <1>3, PTL DEF Spec

----------------------------------------------------------------------------
(***************************************************************************)
(* Vectors are of lines of their own.                                      *)
(***************************************************************************)
\* The elements of one sequence followed by another.
LEMMA ConcatIs ==
  ASSUME NEW S, NEW s \in Seq(S), NEW t \in Seq(S)
  PROVE  /\ s \o t \in Seq(S) /\ Len(s \o t) = Len(s) + Len(t)
         /\ \A i \in DOMAIN s : i \in DOMAIN (s \o t) /\ (s \o t)[i] = s[i]
         /\ \A i \in DOMAIN (s \o t) :
              i \in DOMAIN s \/ (i - Len(s) \in DOMAIN t /\ (s \o t)[i] = t[i - Len(s)])
BY ConcatProperties

\* No vectors need no lines.
LEMMA LinedEmpty ==
  ASSUME NEW lines, NEW A
  PROVE  Lined(<<>>, lines, A)
<1> DEFINE f == [i \in DOMAIN <<>> |-> CHOOSE k \in A : TRUE]
<1>1. \A i \in DOMAIN <<>> : FALSE
  OBVIOUS
<1>2. f \in [DOMAIN <<>> -> A]
  BY <1>1
<1>3. IsInjective(f)
  BY <1>1 DEF IsInjective
<1> HIDE DEF f
<1> QED BY <1>1, <1>2, <1>3 DEF Lined

\* To have more lines to be of, and to have more lines behind them, is no harm.
LEMMA LinedMono ==
  ASSUME NEW vecs, NEW lines, NEW A, NEW B, A \subseteq B, Lined(vecs, lines, A)
  PROVE  Lined(vecs, lines, B)
<1>1. PICK f \in [DOMAIN vecs -> A] : IsInjective(f) /\ \A i \in DOMAIN vecs : vecs[i] = lines[f[i]]
  BY DEF Lined
<1>2. f \in [DOMAIN vecs -> B]
  BY <1>1
<1> QED BY <1>1, <1>2 DEF Lined

LEMMA MatchesGrow ==
  ASSUME NEW S, NEW vecs \in Seq(S), NEW lines \in Seq(S), NEW x \in S, NEW n \in Nat, Matches(vecs, lines, n)
  PROVE  Matches(vecs, Append(lines, x), n)
<1>1. Len(vecs) = n /\ n <= Len(lines) /\ Len(Append(lines, x)) = Len(lines) + 1 /\ Len(lines) \in Nat
  BY DEF Matches
<1>2. PICK f \in [DOMAIN vecs -> 1 .. n] : IsInjective(f) /\ \A i \in DOMAIN vecs : vecs[i] = lines[f[i]]
  BY DEF Matches, Lined
<1>3. \A k \in 1 .. n : Append(lines, x)[k] = lines[k]
  BY <1>1
<1>4. \A i \in DOMAIN vecs : vecs[i] = Append(lines, x)[f[i]]
  BY <1>2, <1>3
<1>5. Lined(vecs, Append(lines, x), 1 .. n)
  BY <1>2, <1>4 DEF Lined
<1> QED BY <1>1, <1>5 DEF Matches

\* A batch of lines, none of which has a vector yet.
LEMMA LinedMore ==
  ASSUME NEW S, NEW vecs \in Seq(S), NEW lines \in Seq(S), NEW A, Lined(vecs, lines, A),
         NEW a \in Nat \ {0}, NEW b \in Nat, a <= b, b <= Len(lines), A \cap (a .. b) = {}
  PROVE  Lined(vecs \o SubSeq(lines, a, b), lines, A \cup (a .. b))
<1> DEFINE batch == SubSeq(lines, a, b)
           all == vecs \o batch
           n == Len(vecs)
<1>1. n \in Nat /\ DOMAIN vecs = 1 .. n
  OBVIOUS
<1>2. /\ batch \in Seq(S) /\ Len(batch) = b - a + 1
      /\ \A i \in 1 .. b - a + 1 : batch[i] = lines[a + i - 1]
  BY SubSeqProperties
<1>3. DOMAIN batch = 1 .. b - a + 1
  BY <1>2
<1> HIDE DEF batch
<1>4. /\ all \in Seq(S) /\ Len(all) = n + (b - a + 1)
      /\ \A i \in DOMAIN vecs : all[i] = vecs[i]
      /\ \A i \in DOMAIN all : i \in DOMAIN vecs \/ (i - n \in DOMAIN batch /\ all[i] = batch[i - n])
  <2>1. \A s, t \in Seq(S) :
          /\ s \o t \in Seq(S) /\ Len(s \o t) = Len(s) + Len(t)
          /\ \A i \in DOMAIN s : (s \o t)[i] = s[i]
          /\ \A i \in DOMAIN (s \o t) :
               i \in DOMAIN s \/ (i - Len(s) \in DOMAIN t /\ (s \o t)[i] = t[i - Len(s)])
    BY ConcatIs
  <2>2. batch \in Seq(S) /\ Len(batch) = b - a + 1
    BY <1>2
  <2>3. /\ vecs \o batch \in Seq(S) /\ Len(vecs \o batch) = Len(vecs) + Len(batch)
        /\ \A i \in DOMAIN vecs : (vecs \o batch)[i] = vecs[i]
        /\ \A i \in DOMAIN (vecs \o batch) :
             i \in DOMAIN vecs \/ (i - Len(vecs) \in DOMAIN batch /\ (vecs \o batch)[i] = batch[i - Len(vecs)])
    BY <2>1, <2>2, Zenon
  <2> QED BY <2>2, <2>3, Zenon
<1>5. DOMAIN all = 1 .. n + (b - a + 1)
  BY <1>4
<1> HIDE DEF all, n
<1>6. PICK f \in [1 .. n -> A] : IsInjective(f) /\ \A i \in 1 .. n : vecs[i] = lines[f[i]]
  BY <1>1 DEF Lined
<1> DEFINE g == [i \in DOMAIN all |-> IF i \in 1 .. n THEN f[i] ELSE a + (i - n) - 1]
<1>7. \A i \in DOMAIN all : i \in 1 .. n \/ (i - n \in 1 .. b - a + 1 /\ i \notin 1 .. n)
  BY <1>1, <1>5
<1>8. \A i \in DOMAIN all : IF i \in 1 .. n THEN g[i] \in A /\ g[i] = f[i]
                                          ELSE g[i] \in a .. b /\ g[i] = a + (i - n) - 1
  BY <1>1, <1>5, <1>6, <1>7
<1>9. g \in [DOMAIN all -> A \cup (a .. b)]
  BY <1>8
<1>10. ASSUME NEW i \in DOMAIN all, NEW j \in DOMAIN all, g[i] = g[j] PROVE i = j
  <2>1. CASE i \in 1 .. n /\ j \in 1 .. n
    BY <1>6, <1>8, <1>10, <2>1 DEF IsInjective
  <2>2. CASE i \notin 1 .. n /\ j \notin 1 .. n
    <3>1. a + (i - n) - 1 = a + (j - n) - 1 /\ i \in Nat /\ j \in Nat
      BY <1>5, <1>8, <1>10, <2>2
    <3> QED BY <1>1, <3>1
  <2>3. CASE i \in 1 .. n /\ j \notin 1 .. n
    BY <1>8, <1>10, <2>3
  <2>4. CASE i \notin 1 .. n /\ j \in 1 .. n
    BY <1>8, <1>10, <2>4
  <2> QED BY <2>1, <2>2, <2>3, <2>4
<1>11. ASSUME NEW i \in DOMAIN all PROVE all[i] = lines[g[i]]
  <2>1. CASE i \in 1 .. n
    BY <1>1, <1>4, <1>6, <1>8, <2>1
  <2>2. CASE i \notin 1 .. n
    <3>1. i - n \in 1 .. b - a + 1 /\ all[i] = batch[i - n]
      BY <1>1, <1>4, <1>7, <2>2
    <3>2. batch[i - n] = lines[a + (i - n) - 1]
      BY <1>2, <3>1
    <3> QED BY <1>8, <2>2, <3>1, <3>2
  <2> QED BY <2>1, <2>2
<1>12. IsInjective(g)
  BY <1>10 DEF IsInjective
<1> HIDE DEF g
<1>13. Lined(all, lines, A \cup (a .. b))
  BY <1>9, <1>11, <1>12 DEF Lined
<1> QED BY <1>13 DEF all, batch

\* There are no more vectors than lines for them to be of.
LEMMA LinedCount ==
  ASSUME NEW S, NEW vecs \in Seq(S), NEW lines, NEW n \in Nat, NEW A \in SUBSET (1 .. n), Lined(vecs, lines, A)
  PROVE  Len(vecs) <= n
<1> DEFINE m == Len(vecs)
<1>1. m \in Nat /\ DOMAIN vecs = 1 .. m
  OBVIOUS
<1>2. PICK f \in [1 .. m -> A] : IsInjective(f)
  BY <1>1 DEF Lined
<1>3. f \in Injection(1 .. m, 1 .. n)
  BY <1>2 DEF Injection, IsInjective
<1>4. IsFiniteSet(1 .. n) /\ Cardinality(1 .. n) = n /\ Cardinality(1 .. m) = m
  <2>1. ASSUME NEW k \in Nat PROVE IsFiniteSet(1 .. k) /\ Cardinality(1 .. k) = k
    <3>1. Cardinality(1 .. k) = IF 1 > k THEN 0 ELSE k - 1 + 1
      BY FS_Interval
    <3> QED BY <3>1, FS_Interval
  <2> QED BY <1>1, <2>1
<1>5. Cardinality(1 .. m) <= Cardinality(1 .. n)
  BY <1>3, <1>4, FS_Injection
<1> QED BY <1>4, <1>5

\* Where in dom the item k is.
Places(seq, dom, k) == {i \in dom : seq[i] = k}

\* As many vectors as lines: then each item has as many of the one as of the other.
LEMMA MatchesCounts ==
  ASSUME NEW S, NEW vecs \in Seq(S), NEW lines, NEW n \in Nat, Len(vecs) = n, Lined(vecs, lines, 1 .. n), NEW k
  PROVE  Cardinality(Places(vecs, DOMAIN vecs, k)) = Cardinality(Places(lines, 1 .. n, k))
<1> DEFINE A == {i \in DOMAIN vecs : vecs[i] = k}
           B == {i \in 1 .. n : lines[i] = k}
<1>1. DOMAIN vecs = 1 .. n
  OBVIOUS
<1>2. PICK f \in [1 .. n -> 1 .. n] : IsInjective(f) /\ \A i \in 1 .. n : vecs[i] = lines[f[i]]
  <2> PICK f \in [DOMAIN vecs -> 1 .. n] : IsInjective(f) /\ \A i \in DOMAIN vecs : vecs[i] = lines[f[i]]
    BY DEF Lined
  <2>1. f \in [1 .. n -> 1 .. n] /\ \A i \in 1 .. n : vecs[i] = lines[f[i]]
    BY <1>1
  <2> QED BY <2>1
<1>3. IsFiniteSet(1 .. n)
  BY FS_Interval
<1>4. f \in Injection(1 .. n, 1 .. n)
  BY <1>2 DEF Injection, IsInjective
<1>5. f \in Surjection(1 .. n, 1 .. n)
  BY <1>3, <1>4, FS_Injection
<1>6. \A j \in 1 .. n : \E i \in 1 .. n : f[i] = j
  BY <1>5 DEF Surjection
<1> DEFINE g == [i \in A |-> f[i]]
<1>7. g \in [A -> B]
  BY <1>1, <1>2
<1>8. \A i, j \in A : g[i] = g[j] => i = j
  BY <1>1, <1>2 DEF IsInjective
<1>9. \A j \in B : \E i \in A : g[i] = j
  BY <1>1, <1>2, <1>6
<1> HIDE DEF A, B, g
<1>10. g \in Bijection(A, B)
  <2>1. g \in Injection(A, B)
    BY <1>7, <1>8 DEF Injection, IsInjective
  <2>2. g \in Surjection(A, B)
    BY <1>7, <1>9 DEF Surjection
  <2> QED BY <2>1, <2>2 DEF Bijection
<1>11. IsFiniteSet(A)
  BY <1>1, <1>3, FS_Subset DEF A
<1>12. Cardinality(A) = Cardinality(B)
  BY <1>10, <1>11, FS_Bijection DEF ExistsBijection
<1> QED BY <1>12 DEF A, B, Places

\* What is true of the files of a version whose vectors are complete stays so.
LEMMA StepWhole ==
  ASSUME RecordsInv, MatchInv, Next, NEW v \in Hours, embMeta'[v].kind = "whole"
  PROVE  Matches(embs'[v], story'[v], embMeta'[v].value)
<1>1. /\ embs \in [Hours -> Seq(Ids)] /\ embMeta \in [Hours -> SmallFile] /\ story \in [Hours -> Seq(Ids)]
      /\ embed \in EmbedTypes
  BY DEF RecordsInv, TypeOK
<1>2. Embedding => embed.version \in Hours /\ embed.cnt \in Nat
  BY <1>1 DEF RecordsInv, EmbedJob, EmbedTypes
<1>3. embMeta[v].kind = "whole" => Matches(embs[v], story[v], embMeta[v].value)
  BY DEF MatchInv
<1>4. CASE embMeta[v].kind = "whole" /\ embMeta'[v] = embMeta[v] /\ embs'[v] = embs[v]
  <2>1. embs[v] \in Seq(Ids) /\ story[v] \in Seq(Ids) /\ embMeta[v].value \in Nat
    BY <1>1 DEF SmallFile
  <2>2. ASSUME NEW x \in Ids, story'[v] = Append(story[v], x) PROVE Matches(embs'[v], story'[v], embMeta'[v].value)
    BY <1>3, <1>4, <2>1, <2>2, MatchesGrow
  <2>3. ASSUME Consume PROVE story'[v] = story[v] \/ \E x \in Ids : story'[v] = Append(story[v], x)
    <3> DEFINE key == Head(crawl.ready).id
    <3>1. /\ key \in Ids /\ crawl.version \in Hours
          /\ story' = story \/ story' = [story EXCEPT ![crawl.version] = Append(story[crawl.version], key)]
      BY <2>3, ConsumeIs
    <3> HIDE DEF key
    <3> QED BY <1>1, <3>1
  <2>4. Consume \/ story' = story
    BY CrawlSteps DEF CrawlStays, storyFiles, Kill, Submit, StartCrawl, OpenMeta, WriteMeta, Fetched
  <2> QED BY <1>3, <1>4, <2>2, <2>3, <2>4
<1>5. CASE WriteEmbMeta /\ v = embed.version
  <2>1. pc = "embedMeta" /\ embs' = embs /\ story' = story /\ embMeta'[v] = Whole(embed.cnt)
    BY <1>1, <1>5 DEF WriteEmbMeta, storyFiles
  <2>2. Matches(embs[v], Lines, embed.cnt) /\ Lines = story[v]
    BY <1>5, <2>1 DEF MatchInv, Lines
  <2> QED BY <2>1, <2>2 DEF Whole
<1>6. ASSUME EmbedStays \/ Kill \/ StartEmbed \/ EndEmbed \/ SendBatch \/ CountBatch \/ Finish \/ Await
             \/ \E first \in embed.flying, ok \in BOOLEAN : Embedded(first, ok)
      PROVE  embMeta' = embMeta /\ embs' = embs
  BY <1>6 DEF EmbedStays, embFiles, Kill, StartEmbed, EndEmbed, EmbedOnly, SendBatch, CountBatch, Finish, Await,
     Embedded
<1>7. ASSUME NEW h \in Hours, NextVersion(h) \/ SkipVersion(h)
      PROVE  embMeta' = embMeta /\ (embs'[v] = embs[v] \/ embMeta[v].kind = "none")
  <2>1. pc = "cands" /\ h \in embed.cands
    BY <1>7 DEF NextVersion, SkipVersion
  <2>2. embMeta[h].kind = "none"
    BY <2>1 DEF RecordsInv, EmbedJob
  <2> QED BY <1>1, <1>7, <2>2 DEF NextVersion, SkipVersion, embFiles
<1>8. ASSUME Take PROVE embMeta' = embMeta /\ (embs'[v] = embs[v] \/ embMeta[v].kind = "none")
  <2>1. pc = "embed" /\ embMeta[embed.version].kind = "none"
    BY <1>8 DEF Take, RecordsInv, EmbedJob
  <2> QED BY <1>1, <1>8, <2>1 DEF Take
<1>9. ASSUME OpenEmbMeta PROVE embs' = embs /\ embMeta'[v] = embMeta[v]
  <2>1. embMeta' = [embMeta EXCEPT ![embed.version] = TornFile] /\ embs' = embs
    BY <1>9 DEF OpenEmbMeta
  <2> QED BY <1>1, <2>1 DEF TornFile
<1>10. ASSUME WriteEmbMeta, v # embed.version PROVE embs' = embs /\ embMeta'[v] = embMeta[v]
  BY <1>1, <1>10 DEF WriteEmbMeta
<1> QED BY <1>4, <1>5, <1>6, <1>7, <1>8, <1>9, <1>10, EmbedSteps

\* What each step leaves of the batches.
LEMMA StepBatches == RecordsInv /\ BatchesInv /\ Next => BatchesInv'
<1> SUFFICES ASSUME RecordsInv, BatchesInv, Next, pc' = "embed" PROVE BatchesInv'
  BY DEF BatchesInv
<1>1. embed \in EmbedTypes /\ TypeOK
  BY DEF RecordsInv, TypeOK
<1>2. embed.read \in Nat /\ embed.flying \in SUBSET (Nat \ {0})
  BY <1>1 DEF EmbedTypes
<1>3. pc = "embed" => \A first \in embed.flying :
        /\ first <= BatchEnd(first) /\ BatchEnd(first) <= embed.read
        /\ \A other \in embed.flying : other # first => BatchOf(first) \cap BatchOf(other) = {}
  BY DEF BatchesInv
<1>4. story' = story /\ embed'.version = embed.version => \A first : BatchEnd(first)' = BatchEnd(first)
  BY DEF BatchEnd, Lines
<1>5. \A first : BatchEnd(first)' = BatchEnd(first) => BatchOf(first)' = BatchOf(first)
  BY DEF BatchOf
<1>6. ASSUME pc = "embed", story' = story, embed'.version = embed.version, embed'.flying \subseteq embed.flying,
             embed'.read = embed.read
      PROVE  BatchesInv'
  BY <1>3, <1>4, <1>5, <1>6 DEF BatchesInv
<1>7. ASSUME EmbedStays PROVE BatchesInv'
  BY <1>6, <1>7 DEF EmbedStays
<1>8. ASSUME NEW v \in Hours, NextVersion(v) PROVE BatchesInv'
  <2>1. embed'.flying = {}
    BY <1>8 DEF NextVersion, NoEmbed
  <2> QED BY <2>1 DEF BatchesInv
<1>9. ASSUME SendBatch PROVE BatchesInv'
  <2> DEFINE first == embed.read + 1
             end == BatchEnd(first)
  <2>1. pc = "embed" /\ story' = story /\ embed'.version = embed.version
        /\ embed'.flying = embed.flying \cup {first} /\ embed'.read = end /\ embed.read < Len(Lines)
    BY <1>1, <1>9 DEF SendBatch, EmbedOnly, storyFiles, EmbedTypes
  <2>2. end \in Nat /\ first <= end
    <3>1. embed.version \in Hours /\ first \in Nat \ {0} /\ Len(Lines) \in Nat
      BY <1>1, <1>2, <2>1, BatchEndIs DEF RecordsInv, EmbedJob, Embedding
    <3>2. end \in Nat /\ (first <= Len(Lines) => first <= end)
      BY <1>1, <3>1, BatchEndIs
    <3> QED BY <1>2, <2>1, <3>1, <3>2
  <2>3. \A f \in embed.flying : f <= BatchEnd(f) /\ BatchEnd(f) <= embed.read /\ f \in Nat
    BY <1>2, <1>3, <2>1
  <2>4. \A f \in embed.flying : BatchOf(f) \cap BatchOf(first) = {}
    <3>1. \A f \in embed.flying : (f .. BatchEnd(f)) \cap (first .. end) = {}
      <4> HIDE DEF end
      <4>1. ASSUME NEW f \in embed.flying, NEW k \in f .. BatchEnd(f), k \in first .. end PROVE FALSE
        <5>1. PICK e \in Int : e = BatchEnd(f) /\ e <= embed.read
          <6>1. CASE BatchEnd(f) \in Int
            BY <2>3, <6>1
          <6>2. BatchEnd(f) \in Nat
            BY <1>1, <2>1, <2>3, BatchEndIs, <1>2 DEF RecordsInv, EmbedJob, Embedding
          <6> QED BY <6>1, <6>2
        <5>2. k <= e /\ first <= k
          BY <2>2, <2>3, <4>1, <5>1, <1>2
        <5> QED BY <1>2, <5>1, <5>2, <2>3, <4>1
      <4> QED BY <4>1
    <3> QED BY <3>1 DEF BatchOf
  <2>5. ASSUME NEW f \in embed.flying \cup {first}
        PROVE  /\ f <= BatchEnd(f) /\ BatchEnd(f) <= end
               /\ \A other \in embed.flying \cup {first} : other # f => BatchOf(f) \cap BatchOf(other) = {}
    <3>1. CASE f = first
      BY <2>2, <2>4, <3>1
    <3>2. CASE f \in embed.flying
      <4>1. BatchEnd(f) \in Nat
        BY <1>1, <1>2, <2>1, <3>2, BatchEndIs DEF RecordsInv, EmbedJob, Embedding
      <4>2. BatchEnd(f) <= embed.read /\ embed.read < first /\ first \in Nat
        BY <1>2, <2>3, <3>2
      <4>3. BatchEnd(f) <= end
        BY <1>2, <2>2, <4>1, <4>2
      <4> QED BY <1>3, <2>1, <2>3, <2>4, <3>2, <4>3
    <3> QED BY <2>5, <3>1, <3>2
  <2> HIDE DEF first, end
  <2> QED BY <1>4, <1>5, <2>1, <2>5 DEF BatchesInv
<1>10. ASSUME CountBatch \/ Finish \/ Await PROVE BatchesInv'
  <2>1. pc = "embed" /\ story' = story /\ embed'.version = embed.version /\ embed'.flying = embed.flying
        /\ embed'.read = embed.read
    BY <1>1, <1>10 DEF CountBatch, Finish, Await, EmbedOnly, storyFiles, EmbedTypes
  <2> QED BY <1>6, <2>1
<1>11. ASSUME NEW f \in embed.flying, NEW ok \in BOOLEAN, Embedded(f, ok) PROVE BatchesInv'
  <2>1. pc = "embed" /\ story' = story /\ embed'.version = embed.version /\ embed'.flying = embed.flying \ {f}
        /\ embed'.read = embed.read
    BY <1>1, <1>11 DEF Embedded, EmbedOnly, storyFiles, EmbedTypes
  <2> QED BY <1>6, <2>1
<1>12. ASSUME Take PROVE BatchesInv'
  <2>1. pc = "embed" /\ story' = story /\ embed'.version = embed.version /\ embed'.flying = embed.flying
        /\ embed'.read = embed.read
    BY <1>1, <1>12 DEF Take, storyFiles, EmbedTypes
  <2> QED BY <1>6, <2>1
<1>13. ASSUME Kill \/ StartEmbed \/ EndEmbed \/ OpenEmbMeta \/ WriteEmbMeta \/ \E v \in Hours : SkipVersion(v)
       PROVE  pc' # "embed"
  BY <1>13 DEF Kill, StartEmbed, EndEmbed, OpenEmbMeta, WriteEmbMeta, SkipVersion
<1> QED BY <1>7, <1>8, <1>9, <1>10, <1>11, <1>12, <1>13, EmbedSteps

\* The vectors, written or on their way, are of lines that are with no task.
LEMMA StepLined ==
  ASSUME RecordsInv, MatchInv, Next, pc' = "embed"
  PROVE  Lined(embs[embed.version] \o embed.ready, Lines, Available)'
<1> DEFINE Now == embs[embed.version] \o embed.ready
<1>1. embed \in EmbedTypes /\ TypeOK
  BY DEF RecordsInv, TypeOK
<1>2. /\ embed.read \in Nat /\ embed.flying \in SUBSET (Nat \ {0}) /\ embed.ready \in Seq(Ids)
      /\ embs \in [Hours -> Seq(Ids)]
  BY <1>1 DEF EmbedTypes, TypeOK
<1>3. pc = "embed" =>
        /\ embed.version \in Hours /\ Lines \in Seq(Ids) /\ embs[embed.version] \in Seq(Ids) /\ Now \in Seq(Ids)
        /\ Lined(Now, Lines, Available) /\ BatchesInv
  <2>1. pc = "embed" => embed.version \in Hours
    BY DEF RecordsInv, EmbedJob, Embedding
  <2>2. pc = "embed" => Lines \in Seq(Ids) /\ embs[embed.version] \in Seq(Ids)
    BY <1>1, <2>1 DEF TypeOK, Lines
  <2>3. pc = "embed" => Now \in Seq(Ids)
    BY <1>2, <2>2, ConcatProperties
  <2> QED BY <2>1, <2>2, <2>3 DEF MatchInv
<1>4. ASSUME story' = story, embed'.version = embed.version
      PROVE  Lines' = Lines /\ \A first : BatchEnd(first)' = BatchEnd(first) /\ BatchOf(first)' = BatchOf(first)
  BY <1>4 DEF BatchEnd, Lines, BatchOf
<1>5. ASSUME pc = "embed", story' = story, embed'.version = embed.version, Now' = Now, Available \subseteq Available'
      PROVE  Lined(Now', Lines', Available')
  BY <1>3, <1>4, <1>5, LinedMono
<1>6. ASSUME pc = "embed", story' = story, embed'.version = embed.version, embed'.read = embed.read,
             embed'.flying \subseteq embed.flying
      PROVE  Available \subseteq Available'
  <2> HIDE DEF Now
  <2> QED BY <1>4, <1>6 DEF Available
<1>7. ASSUME EmbedStays PROVE Lined(Now', Lines', Available')
  <2>1. pc = "embed" /\ story' = story /\ embed' = embed /\ embs' = embs
    BY <1>7 DEF EmbedStays, embFiles
  <2> QED BY <1>5, <1>6, <2>1
<1>8. ASSUME NEW v \in Hours, NextVersion(v) PROVE Lined(Now', Lines', Available')
  <2>1. embed'.version = v /\ embed'.ready = <<>> /\ embs'[v] = <<>>
    BY <1>2, <1>8 DEF NextVersion, NoEmbed
  <2>2. Now' = <<>>
    BY <2>1
  <2> HIDE DEF Now
  <2> QED BY <2>2, LinedEmpty
<1>9. ASSUME SendBatch PROVE Lined(Now', Lines', Available')
  <2> DEFINE first == embed.read + 1
  <2>1. /\ pc = "embed" /\ story' = story /\ embs' = embs /\ embed'.version = embed.version
        /\ embed'.ready = embed.ready /\ embed'.flying = embed.flying \cup {first}
        /\ embed'.read = BatchEnd(first) /\ embed.read < Len(Lines)
    BY <1>1, <1>9 DEF SendBatch, EmbedOnly, storyFiles, embFiles, EmbedTypes
  <2>2. BatchEnd(first) \in Nat /\ first <= BatchEnd(first)
    <3>1. embed.version \in Hours /\ first \in Nat \ {0} /\ Len(Lines) \in Nat
      BY <1>1, <1>2, <1>3, <2>1
    <3>2. BatchEnd(first) \in Nat /\ (first <= Len(Lines) => first <= BatchEnd(first))
      BY <1>1, <3>1, BatchEndIs
    <3> QED BY <1>2, <2>1, <3>1, <3>2
  <2>3. ASSUME NEW k \in Available PROVE k \in Available'
    <3>1. k \in 1 .. embed.read /\ \A g \in embed.flying : k \notin BatchOf(g)
      BY DEF Available
    <3>2. k \in 1 .. BatchEnd(first) /\ k \notin BatchOf(first)
      BY <1>2, <2>2, <3>1 DEF BatchOf
    <3>3. \A g \in embed'.flying : k \notin BatchOf(g)'
      BY <1>4, <2>1, <3>1, <3>2
    <3> QED BY <2>1, <3>2, <3>3 DEF Available
  <2>4. Available \subseteq Available'
    BY <2>3
  <2> QED BY <1>5, <2>1, <2>4
<1>10. ASSUME CountBatch \/ Finish \/ Await PROVE Lined(Now', Lines', Available')
  <2>1. /\ pc = "embed" /\ story' = story /\ embs' = embs /\ embed'.version = embed.version
        /\ embed'.ready = embed.ready /\ embed'.flying = embed.flying /\ embed'.read = embed.read
    BY <1>1, <1>10 DEF CountBatch, Finish, Await, EmbedOnly, storyFiles, embFiles, EmbedTypes
  <2> QED BY <1>5, <1>6, <2>1
<1>11. ASSUME NEW first \in embed.flying, NEW ok \in BOOLEAN, Embedded(first, ok)
       PROVE  Lined(Now', Lines', Available')
  <2> DEFINE batch == SubSeq(Lines, first, BatchEnd(first))
  <2>1. /\ pc = "embed" /\ story' = story /\ embs' = embs /\ embed'.version = embed.version
        /\ embed'.ready = (IF ok THEN embed.ready \o batch ELSE embed.ready)
        /\ embed'.flying = embed.flying \ {first} /\ embed'.read = embed.read
    BY <1>1, <1>11 DEF Embedded, EmbedOnly, storyFiles, embFiles, EmbedTypes
  <2>2. Available \subseteq Available'
    BY <1>6, <2>1
  <2>3. CASE ~ok
    BY <1>5, <2>1, <2>2, <2>3
  <2>4. CASE ok
    <3>1. /\ first \in Nat \ {0} /\ BatchEnd(first) \in Nat /\ BatchEnd(first) <= Len(Lines)
          /\ first <= BatchEnd(first) /\ BatchEnd(first) <= embed.read
          /\ \A other \in embed.flying : other # first => BatchOf(first) \cap BatchOf(other) = {}
      <4>1. embed.version \in Hours /\ first \in Nat \ {0}
        BY <1>2, <1>3, <2>1
      <4> QED BY <1>1, <1>3, <2>1, <4>1, BatchEndIs DEF BatchesInv
    <3>2. Available \cap (first .. BatchEnd(first)) = {}
      BY DEF Available, BatchOf
    <3>3. first .. BatchEnd(first) \subseteq Available'
      <4>1. ASSUME NEW k \in first .. BatchEnd(first) PROVE k \in Available'
        <5>1. k \in 1 .. embed.read
          BY <1>2, <3>1
        <5>2. k \in BatchOf(first)
          BY DEF BatchOf
        <5>3. \A g \in embed'.flying : k \notin BatchOf(g)'
          BY <1>4, <2>1, <3>1, <5>2
        <5> QED BY <2>1, <5>1, <5>3 DEF Available
      <4> QED BY <4>1
    <3>4. batch \in Seq(Ids)
      <4>1. Lines \in Seq(Ids)
        BY <1>3, <2>1
      <4> QED BY <3>1, <4>1, SubSeqProperties
    <3>5. Now' = Now \o batch
      <4>1. Now' = embs[embed.version] \o (embed.ready \o batch)
        BY <2>1, <2>4
      <4>2. embs[embed.version] \in Seq(Ids)
        BY <1>3, <2>1
      <4>3. \A r, s, t \in Seq(Ids) : r \o (s \o t) = (r \o s) \o t
        OBVIOUS
      <4> HIDE DEF batch
      <4> QED BY <1>2, <3>4, <4>1, <4>2, <4>3, Zenon
    <3>6. Now \in Seq(Ids) /\ Lines \in Seq(Ids) /\ Lined(Now, Lines, Available) /\ Lines' = Lines
      BY <1>3, <1>4, <2>1
    <3> HIDE DEF Now
    <3>7. Lined(Now \o batch, Lines, Available \cup (first .. BatchEnd(first)))
      BY <3>1, <3>2, <3>6, LinedMore
    <3>8. Available \cup (first .. BatchEnd(first)) \subseteq Available'
      BY <2>2, <3>3
    <3>9. Lined(Now \o batch, Lines, Available')
      BY <3>7, <3>8, LinedMono
    <3> QED BY <3>5, <3>6, <3>9
  <2> QED BY <2>3, <2>4
<1>12. ASSUME Take PROVE Lined(Now', Lines', Available')
  <2> DEFINE old == embs[embed.version]
  <2>1. /\ pc = "embed" /\ story' = story /\ embed'.version = embed.version /\ embed.ready # <<>>
        /\ embs' = [embs EXCEPT ![embed.version] = Append(@, Head(embed.ready))]
        /\ embed'.ready = Tail(embed.ready) /\ embed'.flying = embed.flying /\ embed'.read = embed.read
    BY <1>1, <1>12 DEF Take, storyFiles, EmbedTypes
  <2>2. old \in Seq(Ids) /\ embs'[embed.version] = Append(old, Head(embed.ready))
    BY <1>2, <1>3, <2>1
  <2>3. \A s, t \in Seq(Ids) : t # <<>> => Append(s, Head(t)) \o Tail(t) = s \o t
    OBVIOUS
  <2>4. Now' = Append(old, Head(embed.ready)) \o Tail(embed.ready)
    BY <2>1, <2>2
  <2>5. Now' = Now
    BY <1>2, <2>1, <2>2, <2>3, <2>4, Zenon
  <2> QED BY <1>5, <1>6, <2>1, <2>5
<1>13. ASSUME Kill \/ StartEmbed \/ EndEmbed \/ OpenEmbMeta \/ WriteEmbMeta \/ \E v \in Hours : SkipVersion(v)
       PROVE  FALSE
  BY <1>13 DEF Kill, StartEmbed, EndEmbed, OpenEmbMeta, WriteEmbMeta, SkipVersion
<1> QED BY <1>7, <1>8, <1>9, <1>10, <1>11, <1>12, <1>13, EmbedSteps

\* When hn_story_to_emb writes its meta file every line that was counted has its vector.
LEMMA StepComplete ==
  ASSUME RecordsInv, MatchInv, Next, pc' = "embedMeta"
  PROVE  Matches(embs[embed.version], Lines, embed.cnt)'
<1> DEFINE E == embs[embed.version]
<1>1. embed \in EmbedTypes /\ TypeOK
  BY DEF RecordsInv, TypeOK
<1>2. ASSUME EmbedStays PROVE Matches(E', Lines', embed'.cnt)
  <2>1. pc = "embedMeta" /\ story' = story /\ embed' = embed /\ embs' = embs
    BY <1>2 DEF EmbedStays, embFiles
  <2> QED BY <2>1 DEF MatchInv, Lines
<1>3. ASSUME OpenEmbMeta PROVE Matches(E', Lines', embed'.cnt)
  <2>1. /\ pc = "embed" /\ story' = story /\ embed' = embed /\ embs' = embs
        /\ embed.finished /\ ~ (embed.taken < embed.cnt)
    BY <1>3 DEF OpenEmbMeta, storyFiles, GoOn
  <2>2. /\ embed.version \in Hours /\ embed.cnt + embed.batch = embed.read /\ embed.read = Len(Lines)
        /\ embed.batch = 0 /\ embed.taken = Len(E)
    BY <2>1 DEF RecordsInv, EmbedJob, Embedding
  <2>3. /\ embed.cnt \in Nat /\ embed.taken \in Nat /\ embed.ready \in Seq(Ids) /\ Len(embed.ready) \in Nat
        /\ embed.read \in Nat /\ embed.batch \in Nat
    BY <1>1 DEF EmbedTypes
  <2>4. E \in Seq(Ids)
    BY <1>1, <2>2 DEF TypeOK
  <2>5. E \o embed.ready \in Seq(Ids) /\ Len(E \o embed.ready) = Len(E) + Len(embed.ready)
    BY <2>3, <2>4, ConcatProperties
  <2>6. Lined(E \o embed.ready, Lines, Available) /\ Available \subseteq 1 .. embed.read
    BY <2>1 DEF MatchInv, Available
  <2> HIDE DEF E
  <2>7. Len(E \o embed.ready) <= embed.read
    BY <2>3, <2>5, <2>6, LinedCount
  <2>8. embed.read = embed.cnt
    BY <2>2, <2>3
  <2>9. Len(embed.ready) = 0 /\ Len(E) = embed.cnt
    <3>1. \A m, n, k \in Nat : m + n <= k /\ ~ (m < k) => n = 0 /\ m = k
      OBVIOUS
    <3>2. Len(E) \in Nat /\ ~ (Len(E) < embed.cnt) /\ Len(E) + Len(embed.ready) <= embed.cnt
      BY <2>1, <2>2, <2>3, <2>5, <2>7, <2>8
    <3> QED BY <2>3, <3>1, <3>2, Zenon
  <2>10. embed.ready = <<>>
    BY <2>3, <2>9
  <2>11. E \o embed.ready = E
    BY <2>4, <2>10, ConcatEmptySeq
  <2>12. Lined(E, Lines, 1 .. embed.cnt)
    <3>1. Lined(E, Lines, Available)
      BY <2>6, <2>11, Zenon
    <3>2. Available \subseteq 1 .. embed.cnt
      BY <2>6, <2>8, Zenon
    <3> QED BY <3>1, <3>2, LinedMono, Zenon
  <2>13. embed.cnt <= Len(Lines)
    BY <2>2, <2>3, <2>8
  <2>14. E' = E /\ Lines' = Lines
    BY <2>1 DEF E, Lines
  <2> QED BY <2>1, <2>9, <2>12, <2>13, <2>14 DEF Matches
<1>4. ASSUME \/ Kill \/ StartEmbed \/ EndEmbed \/ SendBatch \/ CountBatch \/ Finish \/ Await \/ Take \/ WriteEmbMeta
             \/ \E v \in Hours : NextVersion(v) \/ SkipVersion(v)
             \/ \E first \in embed.flying, ok \in BOOLEAN : Embedded(first, ok)
      PROVE  FALSE
  BY <1>4 DEF Kill, StartEmbed, EndEmbed, EmbedOnly, SendBatch, CountBatch, Finish, Await, Take, WriteEmbMeta,
     NextVersion, SkipVersion, Embedded
<1> QED BY <1>2, <1>3, <1>4, EmbedSteps

LEMMA StepMatch == RecordsInv /\ MatchInv /\ Next => MatchInv'
<1> SUFFICES ASSUME RecordsInv, MatchInv, Next PROVE MatchInv'
  OBVIOUS
<1>1. BatchesInv'
  BY StepBatches DEF MatchInv
<1>2. \A v \in Hours : embMeta'[v].kind = "whole" => Matches(embs'[v], story'[v], embMeta'[v].value)
  BY StepWhole
<1>3. pc' = "embed" => Lined(embs[embed.version] \o embed.ready, Lines, Available)'
  BY StepLined
<1>4. pc' = "embedMeta" => Matches(embs[embed.version], Lines, embed.cnt)'
  BY StepComplete
<1> QED BY <1>1, <1>2, <1>3, <1>4 DEF MatchInv

LEMMA InitMatch == Init => MatchInv
BY DEF Init, MatchInv, BatchesInv, NoFile

LEMMA StutterMatch == MatchInv /\ UNCHANGED vars => MatchInv'
<1> SUFFICES ASSUME MatchInv, UNCHANGED vars PROVE MatchInv'
  OBVIOUS
<1>1. UNCHANGED <<story, embs, embMeta, pc, embed>>
  BY DEF vars, storyFiles, embFiles
<1>2. Lines' = Lines /\ Available' = Available /\ (BatchesInv' <=> BatchesInv)
  BY <1>1 DEF Lines, Available, BatchesInv, BatchOf, BatchEnd
<1> QED BY <1>1, <1>2 DEF MatchInv

\* hacker_news.cpp:263-298: the producer's count and the consumer agree, whichever of
\* them is ahead: a version that has its meta file has exactly that many vectors, one
\* for each of its first lines.
THEOREM HackerNewsVectorsAreStories == Spec => []VectorsAreStories
<1>1. Init => RecordsInv /\ MatchInv
  BY InitRecords, InitMatch
<1>2. RecordsInv /\ MatchInv /\ [Next]_vars => (RecordsInv /\ MatchInv)'
  BY StepRecords, StutterRecords, StepMatch, StutterMatch
<1>3. RecordsInv /\ MatchInv => VectorsAreStories
  <2> SUFFICES ASSUME RecordsInv, MatchInv, NEW v \in Hours, embMeta[v].kind = "whole"
               PROVE  /\ Len(embs[v]) = embMeta[v].value /\ embMeta[v].value <= Len(story[v])
                      /\ \A k \in Ids : Cardinality({i \in DOMAIN embs[v] : embs[v][i] = k})
                                      = Cardinality({i \in 1 .. embMeta[v].value : story[v][i] = k})
    BY DEF VectorsAreStories
  <2>1. Matches(embs[v], story[v], embMeta[v].value)
    BY DEF MatchInv
  <2>2. embs[v] \in Seq(Ids) /\ embMeta[v].value \in Nat
    BY DEF RecordsInv, TypeOK, SmallFile
  <2>3. /\ Len(embs[v]) = embMeta[v].value /\ embMeta[v].value <= Len(story[v])
        /\ Lined(embs[v], story[v], 1 .. embMeta[v].value)
    BY <2>1 DEF Matches
  <2>4. ASSUME NEW k \in Ids
        PROVE  Cardinality({i \in DOMAIN embs[v] : embs[v][i] = k})
                 = Cardinality({i \in 1 .. embMeta[v].value : story[v][i] = k})
    <3> DEFINE vecs == embs[v]
               lines == story[v]
               n == embMeta[v].value
    <3>1. vecs \in Seq(Ids) /\ n \in Nat /\ Len(vecs) = n /\ Lined(vecs, lines, 1 .. n)
      BY <2>2, <2>3
    <3> HIDE DEF vecs, lines, n
    <3>2. Cardinality(Places(vecs, DOMAIN vecs, k)) = Cardinality(Places(lines, 1 .. n, k))
      BY <3>1, MatchesCounts
    <3> QED BY <3>2 DEF vecs, lines, n, Places
  <2> QED BY <2>3, <2>4
<1> QED BY <1>1, <1>2, <1>3, PTL DEF Spec

----------------------------------------------------------------------------
(***************************************************************************)
(* Where a job waits for ever.                                             *)
(***************************************************************************)
\* Unless the model failed on a batch, every line that no task has any more has
\* arrived: as many vectors are written, or on their way, as there are such lines.
AllArrive ==
  pc = "embed" /\ ~embed.failed => embed.taken + Len(embed.ready) = Cardinality(Available)

LEMMA AvailableIs ==
  ASSUME embed.read \in Nat
  PROVE  IsFiniteSet(Available) /\ Cardinality(Available) \in Nat
<1>1. IsFiniteSet(1 .. embed.read)
  BY FS_Interval
<1>2. Available \in SUBSET (1 .. embed.read)
  BY DEF Available
<1> QED BY <1>1, <1>2, FS_Subset, FS_CardinalityType

\* A batch that is sent takes no line from those available ...
LEMMA SendBatchTakesNone == ASSUME RecordsInv, MatchInv, SendBatch PROVE Available' = Available
<1> DEFINE first == embed.read + 1
<1>1. embed \in EmbedTypes /\ TypeOK
  BY DEF RecordsInv, TypeOK
<1>2. /\ embed.read \in Nat /\ embed.flying \in SUBSET (Nat \ {0}) /\ embed.version \in Hours
  BY <1>1 DEF EmbedTypes, SendBatch, RecordsInv, EmbedJob, Embedding
<1>3. /\ story' = story /\ embed'.version = embed.version
      /\ embed'.flying = embed.flying \cup {first}
      /\ embed'.read = BatchEnd(first) /\ embed.read < Len(Lines)
  BY <1>1 DEF SendBatch, EmbedOnly, storyFiles, EmbedTypes
<1>4. \A g : BatchOf(g)' = BatchOf(g)
  BY <1>3 DEF BatchEnd, Lines, BatchOf
<1>5. BatchEnd(first) \in Nat /\ first <= BatchEnd(first)
  <2>1. first \in Nat \ {0} /\ Len(Lines) \in Nat
    BY <1>1, <1>2, BatchEndIs
  <2>2. BatchEnd(first) \in Nat /\ (first <= Len(Lines) => first <= BatchEnd(first))
    BY <1>1, <1>2, <2>1, BatchEndIs
  <2> QED BY <1>2, <1>3, <2>1, <2>2
<1>6. \A k : k \in Available' <=> /\ k \in 1 .. BatchEnd(first) /\ k \notin BatchOf(first)
                                   /\ \A g \in embed.flying : k \notin BatchOf(g)
  BY <1>3, <1>4 DEF Available
<1>7. \A k : k \in Available <=> /\ k \in 1 .. embed.read
                                  /\ \A g \in embed.flying : k \notin BatchOf(g)
  BY DEF Available
<1>8. \A k : k \in 1 .. BatchEnd(first) /\ k \notin BatchOf(first) <=> k \in 1 .. embed.read
  <2>1. BatchOf(first) = first .. BatchEnd(first)
    BY DEF BatchOf
  <2> PICK e \in Nat : e = BatchEnd(first)
    BY <1>5
  <2>2. \A k : k \in 1 .. e /\ k \notin first .. e <=> k \in 1 .. embed.read
    BY <1>2, <1>5
  <2> QED BY <2>1, <2>2
<1> QED BY <1>6, <1>7, <1>8

\* ... and one that is answered gives its own.
LEMMA EmbeddedGives ==
  ASSUME RecordsInv, MatchInv, NEW first \in embed.flying, NEW ok \in BOOLEAN, Embedded(first, ok)
  PROVE  /\ Available' = Available \cup BatchOf(first) /\ Available \cap BatchOf(first) = {}
         /\ first \in Nat \ {0} /\ BatchEnd(first) \in Nat
         /\ first <= BatchEnd(first) /\ BatchEnd(first) <= Len(Lines)
<1>1. embed \in EmbedTypes /\ TypeOK
  BY DEF RecordsInv, TypeOK
<1>2. /\ embed.read \in Nat /\ embed.flying \in SUBSET (Nat \ {0}) /\ embed.version \in Hours
      /\ pc = "embed"
  BY <1>1 DEF EmbedTypes, Embedded, RecordsInv, EmbedJob, Embedding
<1>3. /\ story' = story /\ embed'.version = embed.version
      /\ embed'.flying = embed.flying \ {first} /\ embed'.read = embed.read
  BY <1>1 DEF Embedded, EmbedOnly, storyFiles, EmbedTypes
<1>4. \A g : BatchOf(g)' = BatchOf(g)
  BY <1>3 DEF BatchEnd, Lines, BatchOf
<1>5. /\ first \in Nat \ {0} /\ BatchEnd(first) \in Nat
      /\ first <= BatchEnd(first) /\ BatchEnd(first) <= Len(Lines) /\ BatchEnd(first) <= embed.read
      /\ \A other \in embed.flying : other # first => BatchOf(first) \cap BatchOf(other) = {}
  BY <1>1, <1>2, BatchEndIs DEF MatchInv, BatchesInv
<1>6. \A k : k \in Available' <=> /\ k \in 1 .. embed.read
                                   /\ \A g \in embed.flying \ {first} : k \notin BatchOf(g)
  BY <1>3, <1>4 DEF Available
<1>7. \A k : k \in Available <=> /\ k \in 1 .. embed.read
                                  /\ \A g \in embed.flying : k \notin BatchOf(g)
  BY DEF Available
<1>8. BatchOf(first) \subseteq 1 .. embed.read
  BY <1>2, <1>5 DEF BatchOf
<1>9. \A k \in BatchOf(first) : \A g \in embed.flying \ {first} : k \notin BatchOf(g)
  BY <1>5
<1>10. Available' = Available \cup BatchOf(first)
  BY <1>6, <1>7, <1>8, <1>9
<1>11. Available \cap BatchOf(first) = {}
  BY <1>7
<1> QED BY <1>5, <1>10, <1>11

LEMMA StepAllArrive == RecordsInv /\ MatchInv /\ AllArrive /\ Next => AllArrive'
<1> SUFFICES ASSUME RecordsInv, MatchInv, AllArrive, Next, pc' = "embed", ~embed'.failed
             PROVE  embed'.taken + Len(embed'.ready) = Cardinality(Available')
  BY DEF AllArrive
<1>1. embed \in EmbedTypes /\ TypeOK
  BY DEF RecordsInv, TypeOK
<1>2. /\ embed.read \in Nat /\ embed.ready \in Seq(Ids) /\ embed.taken \in Nat /\ embed.failed \in BOOLEAN
  BY <1>1 DEF EmbedTypes
<1>3. pc = "embed" /\ ~embed.failed => embed.taken + Len(embed.ready) = Cardinality(Available)
  BY DEF AllArrive
<1>4. Cardinality(Available) \in Nat /\ IsFiniteSet(Available)
  BY <1>2, AvailableIs
<1>5. ASSUME pc = "embed", story' = story, embed'.version = embed.version, embed'.failed = embed.failed,
             embed'.read = embed.read, embed'.flying = embed.flying, embed'.ready = embed.ready,
             embed'.taken = embed.taken
      PROVE  embed'.taken + Len(embed'.ready) = Cardinality(Available')
  <2>1. Available' = Available
    BY <1>5 DEF Available, BatchOf, BatchEnd, Lines
  <2> QED BY <1>3, <1>5, <2>1
<1>6. CASE EmbedStays
  <2>1. pc = "embed" /\ story' = story /\ embed' = embed
    BY <1>6 DEF EmbedStays
  <2> QED BY <1>5, <2>1
<1>7. ASSUME NEW v \in Hours, NextVersion(v)
      PROVE  embed'.taken + Len(embed'.ready) = Cardinality(Available')
  <2>1. embed'.taken = 0 /\ embed'.ready = <<>> /\ embed'.read = 0
    BY <1>7 DEF NextVersion, NoEmbed
  <2>2. Available' = {}
    BY <2>1 DEF Available
  <2> QED BY <2>1, <2>2, FS_EmptySet
<1>8. CASE SendBatch
  <2>1. /\ pc = "embed" /\ embed'.failed = embed.failed
        /\ embed'.ready = embed.ready /\ embed'.taken = embed.taken
    BY <1>1, <1>8 DEF SendBatch, EmbedTypes
  <2>2. Available' = Available
    BY <1>8, SendBatchTakesNone
  <2> QED BY <1>3, <2>1, <2>2
<1>9. CASE CountBatch \/ Finish \/ Await
  <2>1. /\ pc = "embed" /\ story' = story /\ embed'.version = embed.version
        /\ embed'.ready = embed.ready /\ embed'.flying = embed.flying /\ embed'.read = embed.read
        /\ embed'.failed = embed.failed /\ embed'.taken = embed.taken
    BY <1>1, <1>9 DEF CountBatch, Finish, Await, EmbedOnly, storyFiles, EmbedTypes
  <2> QED BY <1>5, <2>1
<1>10. ASSUME NEW first \in embed.flying, NEW ok \in BOOLEAN, Embedded(first, ok)
       PROVE  embed'.taken + Len(embed'.ready) = Cardinality(Available')
  <2> DEFINE batch == SubSeq(Lines, first, BatchEnd(first))
  <2>1. /\ pc = "embed" /\ embed'.failed = (embed.failed \/ ~ok) /\ embed'.taken = embed.taken
        /\ embed'.ready = (IF ok THEN embed.ready \o batch ELSE embed.ready)
    BY <1>1, <1>10 DEF Embedded, EmbedTypes
  <2>2. ok /\ ~embed.failed
    BY <1>2, <2>1
  <2>3. /\ Available' = Available \cup BatchOf(first) /\ Available \cap BatchOf(first) = {}
        /\ first \in Nat \ {0} /\ BatchEnd(first) \in Nat
        /\ first <= BatchEnd(first) /\ BatchEnd(first) <= Len(Lines)
    BY <1>10, EmbeddedGives
  <2> PICK e \in Nat : e = BatchEnd(first)
    BY <2>3
  <2>4. IsFiniteSet(first .. e) /\ Cardinality(first .. e) = e - first + 1
    BY <2>3, FS_Interval
  <2>5. BatchOf(first) = first .. e
    BY DEF BatchOf
  <2>6. Cardinality(Available') = Cardinality(Available) + (e - first + 1)
    <3> DEFINE b == first .. e
    <3> HIDE DEF b
    <3>1. Cardinality(Available \cup b) =
            Cardinality(Available) + Cardinality(b) - Cardinality(Available \cap b)
      BY <1>4, <2>4, FS_Union DEF b
    <3>2. Available \cap b = {} /\ Cardinality(b) = e - first + 1 /\ Available' = Available \cup b
      BY <2>3, <2>4, <2>5 DEF b
    <3>3. Cardinality(Available') =
            Cardinality(Available) + (e - first + 1) - 0
      BY <3>1, <3>2, FS_EmptySet
    <3> QED BY <1>4, <2>3, <3>3
  <2>7. Lines \in Seq(Ids)
    <3>1. embed.version \in Hours
      BY <2>1 DEF RecordsInv, EmbedJob, Embedding
    <3> QED BY <1>1, <3>1 DEF TypeOK, Lines
  <2>8. batch \in Seq(Ids) /\ Len(batch) = e - first + 1
    BY <2>3, <2>7, SubSeqProperties
  <2> HIDE DEF batch
  <2>9. Len(embed'.ready) = Len(embed.ready) + (e - first + 1) /\ Len(embed.ready) \in Nat
    <3>1. embed'.ready = embed.ready \o batch
      BY <2>1, <2>2
    <3>2. Len(embed.ready \o batch) = Len(embed.ready) + Len(batch) /\ Len(embed.ready) \in Nat
      BY <1>2, <2>8, ConcatProperties
    <3> QED BY <2>8, <3>1, <3>2
  <2>10. embed.taken + Len(embed.ready) = Cardinality(Available)
    BY <1>3, <2>1, <2>2
  <2> PICK c \in Nat, l \in Nat : c = Cardinality(Available) /\ l = Len(embed.ready)
    BY <1>4, <2>9
  <2> QED BY <1>2, <2>1, <2>3, <2>6, <2>9, <2>10, SMTT(30)
<1>11. CASE Take
  <2>1. /\ pc = "embed" /\ story' = story /\ embed'.version = embed.version /\ embed.ready # <<>>
        /\ embed'.ready = Tail(embed.ready) /\ embed'.flying = embed.flying /\ embed'.read = embed.read
        /\ embed'.taken = embed.taken + 1 /\ embed'.failed = embed.failed
    BY <1>1, <1>11 DEF Take, storyFiles, EmbedTypes
  <2>2. Available' = Available
    BY <2>1 DEF Available, BatchOf, BatchEnd, Lines
  <2>3. Len(Tail(embed.ready)) = Len(embed.ready) - 1 /\ Len(embed.ready) \in Nat
    BY <1>2, <2>1
  <2> QED BY <1>2, <1>3, <2>1, <2>2, <2>3
<1>12. ASSUME Kill \/ StartEmbed \/ EndEmbed \/ OpenEmbMeta \/ WriteEmbMeta \/ \E v \in Hours : SkipVersion(v)
       PROVE  FALSE
  BY <1>12 DEF Kill, StartEmbed, EndEmbed, OpenEmbMeta, WriteEmbMeta, SkipVersion
<1> QED BY <1>6, <1>7, <1>8, <1>9, <1>10, <1>11, <1>12, EmbedSteps

LEMMA InitAllArrive == Init => AllArrive
BY DEF Init, AllArrive

LEMMA StutterAllArrive == AllArrive /\ UNCHANGED vars => AllArrive'
BY DEF AllArrive, vars, storyFiles, Available, BatchOf, BatchEnd, Lines

----------------------------------------------------------------------------
\* What holds at one number and goes on from each to the next.
LEMMA Upwards ==
  ASSUME NEW a \in Nat, NEW b \in Nat, NEW G, a \in G,
         \A k \in a .. b : k < b /\ k \in G => k + 1 \in G
  PROVE  \A k \in a .. b : k \in G
<1> DEFINE Out == {k \in a .. b : k \notin G}
<1> SUFFICES ASSUME Out # {} PROVE FALSE
  OBVIOUS
<1>1. PICK n \in Out : \A k \in Out : n <= k
  <2>1. Out \in SUBSET Nat
    OBVIOUS
  <2> HIDE DEF Out
  <2> QED BY <2>1, Least
<1>2. n # a /\ n - 1 \in a .. b /\ n - 1 < b /\ n \in Nat
  OBVIOUS
<1>3. n - 1 \in G
  BY <1>1, <1>2
<1>4. (n - 1) + 1 \in G
  BY <1>2, <1>3
<1> QED BY <1>2, <1>4

\* The recursion of MapThenSumSet over the sets of at most n members of S.
Drawn(s) == CHOOSE x \in s : TRUE
Small(S, n) == {s \in SUBSET S : Cardinality(s) <= n}
IsSumOver(f, D) ==
  f = [s \in D |-> IF s = {} THEN 0 ELSE embMeta[Drawn(s)].value + f[s \ {Drawn(s)}]]

\* One member less.
LEMMA DrawnIs ==
  ASSUME NEW S, IsFiniteSet(S), NEW s \in SUBSET S, s # {}
  PROVE  /\ IsFiniteSet(s) /\ Drawn(s) \in s /\ Cardinality(s) \in Nat
         /\ s \ {Drawn(s)} \in SUBSET S
         /\ Cardinality(s \ {Drawn(s)}) = Cardinality(s) - 1
<1>1. IsFiniteSet(s) /\ Drawn(s) \in s
  BY FS_Subset DEF Drawn
<1> QED BY <1>1, FS_CardinalityType, FS_RemoveElement

LEMMA SumExists ==
  ASSUME NEW S, IsFiniteSet(S)
  PROVE  \E f : IsSumOver(f, SUBSET S)
<1> DEFINE N == Cardinality(S)
           G == {n \in Nat : \E f : IsSumOver(f, Small(S, n))}
<1>1. N \in Nat
  BY FS_CardinalityType
<1>2. \A s \in SUBSET S : Cardinality(s) \in Nat /\ Cardinality(s) <= N
  BY FS_Subset, FS_CardinalityType
<1>3. 0 \in G
  <2> DEFINE f == [s \in Small(S, 0) |-> 0]
  <2>1. \A s \in Small(S, 0) : s = {}
    BY <1>2, DrawnIs, FS_Subset, FS_EmptySet DEF Small
  <2>2. \A s \in Small(S, 0) : 0 = IF s = {} THEN 0 ELSE embMeta[Drawn(s)].value + f[s \ {Drawn(s)}]
    BY <2>1
  <2>3. IsSumOver(f, Small(S, 0))
    BY <2>2 DEF IsSumOver
  <2> QED BY <2>3
<1>4. ASSUME NEW k \in 0 .. N, k < N, k \in G PROVE k + 1 \in G
  <2> PICK f : IsSumOver(f, Small(S, k))
    BY <1>4
  <2> DEFINE E(g, s) == IF s = {} THEN 0 ELSE embMeta[Drawn(s)].value + g[s \ {Drawn(s)}]
             h == [s \in Small(S, k + 1) |-> IF s \in Small(S, k) THEN f[s] ELSE E(f, s)]
  <2>1. \A s \in Small(S, k) : f[s] = E(f, s)
    BY DEF IsSumOver
  <2>2. \A s \in Small(S, k + 1) : h[s] = IF s \in Small(S, k) THEN f[s] ELSE E(f, s)
    OBVIOUS
  <2>3. \A s \in Small(S, k) : s \in Small(S, k + 1)
    BY <1>2 DEF Small
  <2>4. \A s \in Small(S, k) : h[s] = f[s]
    BY <2>2, <2>3
  <2>5. \A s \in Small(S, k + 1) : s # {} => s \ {Drawn(s)} \in Small(S, k)
    <3> SUFFICES ASSUME NEW s \in Small(S, k + 1), s # {} PROVE s \ {Drawn(s)} \in Small(S, k)
      OBVIOUS
    <3>1. s \in SUBSET S /\ Cardinality(s) <= k + 1
      BY DEF Small
    <3>2. s \ {Drawn(s)} \in SUBSET S /\ Cardinality(s \ {Drawn(s)}) = Cardinality(s) - 1
          /\ Cardinality(s) \in Nat
      BY <3>1, DrawnIs
    <3>3. Cardinality(s \ {Drawn(s)}) <= k
      BY <3>1, <3>2
    <3> QED BY <3>2, <3>3 DEF Small
  <2> HIDE DEF h
  <2>6. \A s \in Small(S, k + 1) : h[s] = E(h, s)
    <3> SUFFICES ASSUME NEW s \in Small(S, k + 1) PROVE h[s] = E(h, s)
      OBVIOUS
    <3>1. E(h, s) = E(f, s)
      BY <2>4, <2>5
    <3>2. h[s] = E(f, s)
      BY <2>1, <2>2
    <3> QED BY <3>1, <3>2
  <2>7. h = [s \in Small(S, k + 1) |-> E(h, s)]
    <3>1. h = [s \in Small(S, k + 1) |-> h[s]]
      BY DEF h
    <3> HIDE DEF E
    <3> QED BY <2>6, <3>1
  <2>8. IsSumOver(h, Small(S, k + 1))
    BY <2>7 DEF IsSumOver
  <2> QED BY <2>8
<1>5. N \in G
  <2>1. 0 \in Nat /\ N \in 0 .. N
    BY <1>1
  <2> HIDE DEF G, N
  <2>2. \A k \in 0 .. N : k \in G
    BY <1>1, <1>3, <1>4, <2>1, Upwards
  <2> QED BY <2>1, <2>2
<1>6. Small(S, N) = SUBSET S
  BY <1>2 DEF Small
<1> QED BY <1>5, <1>6

\* Capacity adds the counts of the versions one by one.
LEMMA CapacityIs ==
  ASSUME IsFiniteSet(crawled)
  PROVE  \E f : /\ Capacity = f[crawled] /\ f[{}] = 0
                /\ \A s \in SUBSET crawled : s # {} =>
                     f[s] = embMeta[Drawn(s)].value + f[s \ {Drawn(s)}]
<1> DEFINE f == CHOOSE g : IsSumOver(g, SUBSET crawled)
<1>1. IsSumOver(f, SUBSET crawled)
  BY SumExists
<1>2. Capacity = f[crawled]
  BY DEF Capacity, MapThenSumSet, MapThenFoldSet, IsSumOver, Drawn
<1> HIDE DEF f
<1>3. \A s \in SUBSET crawled :
        f[s] = IF s = {} THEN 0 ELSE embMeta[Drawn(s)].value + f[s \ {Drawn(s)}]
  BY <1>1 DEF IsSumOver
<1>4. {} \in SUBSET crawled
  OBVIOUS
<1> QED BY <1>2, <1>3, <1>4

\* The items of a set of versions.
LabelsOf(T) == UNION {Range(embs[v]) : v \in {h \in T : embMeta[h].kind = "whole"}}

LEMMA RangeSize ==
  ASSUME NEW S, NEW s \in Seq(S)
  PROVE  IsFiniteSet(Range(s)) /\ Cardinality(Range(s)) \in Nat /\ Cardinality(Range(s)) <= Len(s)
<1> DEFINE n == Len(s)
<1>1. n \in Nat /\ DOMAIN s = 1 .. n
  OBVIOUS
<1>2. s \in Surjection(1 .. n, Range(s))
  BY <1>1 DEF Surjection, Range
<1>3. IsFiniteSet(1 .. n) /\ Cardinality(1 .. n) = n
  BY <1>1, FS_Interval
<1> HIDE DEF n
<1>4. IsFiniteSet(Range(s)) /\ Cardinality(Range(s)) <= n
  BY <1>2, <1>3, FS_Surjection
<1> QED BY <1>4, FS_CardinalityType DEF n

\* There are no more items in a set of versions than their meta files count.
LEMMA LabelsAreCounted ==
  ASSUME RecordsInv, MatchInv, IsFiniteSet(crawled), NEW f, f[{}] = 0,
         \A s \in SUBSET crawled : s # {} => f[s] = embMeta[Drawn(s)].value + f[s \ {Drawn(s)}]
  PROVE  /\ IsFiniteSet(LabelsOf(crawled)) /\ f[crawled] \in Nat
         /\ Cardinality(LabelsOf(crawled)) <= f[crawled]
<1> DEFINE Counted(T) == /\ IsFiniteSet(LabelsOf(T)) /\ f[T] \in Nat
                         /\ Cardinality(LabelsOf(T)) <= f[T]
           N == Cardinality(crawled)
           G == {n \in Nat : \A T \in SUBSET crawled : Cardinality(T) = n => Counted(T)}
<1>1. N \in Nat
  BY FS_CardinalityType
<1>2. crawled \subseteq Hours /\ embs \in [Hours -> Seq(Ids)] /\ embMeta \in [Hours -> SmallFile]
  BY DEF RecordsInv, TypeOK
<1>3. 0 \in G
  <2> SUFFICES ASSUME NEW T \in SUBSET crawled, Cardinality(T) = 0 PROVE Counted(T)
    OBVIOUS
  <2>1. T = {}
    BY FS_Subset, FS_EmptySet
  <2>2. LabelsOf(T) = {}
    BY <2>1 DEF LabelsOf
  <2>3. f[T] = 0 /\ Cardinality(LabelsOf(T)) = 0 /\ IsFiniteSet(LabelsOf(T))
    BY <2>1, <2>2, FS_EmptySet
  <2> QED BY <2>3
<1>4. ASSUME NEW k \in 0 .. N, k < N, k \in G PROVE k + 1 \in G
  <2> SUFFICES ASSUME NEW T \in SUBSET crawled, Cardinality(T) = k + 1 PROVE Counted(T)
    BY <1>1
  <2> DEFINE v == Drawn(T)
             R == T \ {v}
  <2>1. T # {}
    <3>1. k + 1 # 0 /\ Cardinality({}) = 0
      BY <1>1, FS_EmptySet
    <3> QED BY <3>1
  <2>2. v \in T /\ R \in SUBSET crawled /\ Cardinality(R) = k
    <3>1. v \in T /\ R \in SUBSET crawled /\ Cardinality(R) = Cardinality(T) - 1
      BY <2>1, DrawnIs
    <3> HIDE DEF R, v
    <3> QED BY <1>1, <3>1
  <2>3. f[T] = embMeta[v].value + f[R]
    BY <2>1
  <2> HIDE DEF R, v
  <2>4. Counted(R)
    BY <1>4, <2>2
  <2>5. /\ v \in Hours /\ embs[v] \in Seq(Ids) /\ embMeta[v].value \in Nat
        /\ embMeta[v].kind = "whole" => Len(embs[v]) = embMeta[v].value
    <3>1. v \in Hours
      BY <1>2, <2>2
    <3>2. embMeta[v] \in SmallFile
      BY <1>2, <3>1
    <3>3. embMeta[v].kind = "whole" => Matches(embs[v], story[v], embMeta[v].value)
      BY <3>1 DEF MatchInv
    <3> QED BY <1>2, <3>1, <3>2, <3>3 DEF SmallFile, Matches
  <2>6. LabelsOf(T) = LabelsOf(R) \cup (IF embMeta[v].kind = "whole" THEN Range(embs[v]) ELSE {})
    BY <2>2 DEF LabelsOf, R
  <2> DEFINE own == IF embMeta[v].kind = "whole" THEN Range(embs[v]) ELSE {}
  <2>7. IsFiniteSet(own) /\ Cardinality(own) \in Nat /\ Cardinality(own) <= embMeta[v].value
    <3>1. CASE embMeta[v].kind = "whole"
      <4>1. own = Range(embs[v])
        BY <3>1
      <4> HIDE DEF own
      <4> QED BY <2>5, <3>1, <4>1, RangeSize
    <3>2. CASE embMeta[v].kind # "whole"
      <4>1. own = {}
        BY <3>2
      <4> HIDE DEF own
      <4> QED BY <2>5, <4>1, FS_EmptySet
    <3> QED BY <3>1, <3>2
  <2> HIDE DEF own
  <2>8. LabelsOf(T) = LabelsOf(R) \cup own
    BY <2>6 DEF own
  <2> PICK a, b : a = LabelsOf(T) /\ b = LabelsOf(R)
    OBVIOUS
  <2>9. /\ IsFiniteSet(a) /\ Cardinality(a) = Cardinality(b) + Cardinality(own) - Cardinality(b \cap own)
        /\ Cardinality(b) \in Nat /\ Cardinality(b \cap own) \in Nat /\ Cardinality(a) \in Nat
    <3>1. IsFiniteSet(b)
      BY <2>4
    <3>2. IsFiniteSet(b \cap own)
      BY <3>1, FS_Intersection
    <3>3. /\ IsFiniteSet(b \cup own)
          /\ Cardinality(b \cup own) = Cardinality(b) + Cardinality(own) - Cardinality(b \cap own)
      BY <2>7, <3>1, FS_Union
    <3> QED BY <2>8, <3>1, <3>2, <3>3, FS_CardinalityType
  <2>10. f[R] \in Nat /\ Cardinality(b) <= f[R]
    BY <2>4
  <2> PICK m \in Nat, n \in Nat : m = embMeta[v].value /\ n = f[R]
    BY <2>5, <2>10
  <2>11. Cardinality(a) <= m + n
    BY <2>7, <2>9, <2>10
  <2> QED BY <2>3, <2>9, <2>11
<1>5. N \in G
  <2>1. 0 \in Nat /\ N \in 0 .. N
    BY <1>1
  <2> HIDE DEF G, N
  <2>2. \A k \in 0 .. N : k \in G
    BY <1>1, <1>3, <1>4, <2>1, Upwards
  <2> QED BY <2>1, <2>2
<1>6. crawled \in SUBSET crawled
  OBVIOUS
<1> QED BY <1>5, <1>6

\* build_hnsw_index: the index has room for every vector it is given.
LEMMA IndexHasRoom ==
  ASSUME RecordsInv, MatchInv
  PROVE  Cardinality(Labels) \in Nat /\ Capacity \in Nat /\ Cardinality(Labels) <= Capacity
<1>1. IsFiniteSet(crawled)
  <2>1. IsFiniteSet(1 .. MaxHour)
    BY BoundsAssumption, FS_Interval
  <2>2. crawled \in SUBSET (1 .. MaxHour)
    BY DEF RecordsInv, TypeOK, Hours
  <2> QED BY <2>1, <2>2, FS_Subset
<1>2. PICK f : /\ Capacity = f[crawled] /\ f[{}] = 0
               /\ \A s \in SUBSET crawled : s # {} =>
                    f[s] = embMeta[Drawn(s)].value + f[s \ {Drawn(s)}]
  BY <1>1, CapacityIs
<1>3. /\ IsFiniteSet(LabelsOf(crawled)) /\ f[crawled] \in Nat
      /\ Cardinality(LabelsOf(crawled)) <= f[crawled]
  BY <1>1, <1>2, LabelsAreCounted
<1>4. LabelsOf(crawled) = Labels
  BY DEF LabelsOf, Labels
<1> QED BY <1>2, <1>3, <1>4, FS_CardinalityType

----------------------------------------------------------------------------
\* crawl_hn: what is expected comes, unless the crawl was told to start below the last.
LEMMA CrawlWaits ==
  ASSUME RecordsInv, pc = "crawl", crawl.next <= crawl.last, crawl.flying = {},
         crawl.taken # Expected, crawl.taken < Expected => crawl.ready = <<>>
  PROVE  crawl.last > crawl.max
<1>1. /\ crawl.max \in Ids /\ crawl.last \in Ids \cup {0}
      /\ crawl.next \in 0 .. crawl.max /\ (crawl.next = crawl.max \/ crawl.next >= crawl.last)
      /\ Cardinality(crawl.flying) + Len(crawl.ready) + crawl.taken + crawl.next = crawl.max
  BY DEF RecordsInv, CrawlJob, Crawling
<1>2. crawl.ready \in Seq(Answers) /\ crawl.taken \in Nat
  BY DEF RecordsInv, TypeOK, CrawlTypes
<1>3. crawl.max \in Nat /\ crawl.last \in Nat
  <2>1. \A n \in Ids \cup {0} : n \in Nat
    BY IdsAre
  <2> QED BY <1>1, <2>1
<1> SUFFICES ASSUME crawl.last <= crawl.max PROVE FALSE
  BY <1>3
<1>4. Expected = crawl.max - crawl.last
  BY <1>1, ExpectedIs
<1>5. Cardinality(crawl.flying) = 0
  BY FS_EmptySet
<1> PICK max \in Nat, last \in Nat, next \in Nat, taken \in Nat, l \in Nat :
       /\ max = crawl.max /\ last = crawl.last /\ next = crawl.next /\ taken = crawl.taken
       /\ l = Len(crawl.ready)
  BY <1>1, <1>2, <1>3
<1>6. next <= last /\ (next = max \/ next >= last) /\ last <= max
  BY <1>1
<1>7. l + taken + next = max
  BY <1>1, <1>5
<1>8. next = last
  BY <1>6
<1>9. Expected = max - last
  BY <1>4
<1>10. taken # Expected /\ (taken < Expected => l = 0)
  <2>1. crawl.ready = <<>> => l = 0
    OBVIOUS
  <2> QED BY <2>1
<1>11. l + taken = max - last
  BY <1>7, <1>8
<1> QED BY <1>9, <1>10, <1>11

\* hn_story_to_emb: if the model answered every batch, the consumer has all of them.
LEMMA EmbedWaits ==
  ASSUME RecordsInv, AllArrive, pc = "embed", embed.finished, embed.flying = {}, embed.ready = <<>>
  PROVE  embed.failed \/ embed.taken = embed.cnt
<1> SUFFICES ASSUME ~embed.failed PROVE embed.taken = embed.cnt
  OBVIOUS
<1>1. /\ embed.cnt \in Nat /\ embed.batch \in Nat /\ embed.read \in Nat /\ embed.taken \in Nat
  BY DEF RecordsInv, TypeOK, EmbedTypes
<1>2. embed.cnt + embed.batch = embed.read /\ embed.batch = 0
  BY DEF RecordsInv, EmbedJob
<1>3. Available = 1 .. embed.read
  BY DEF Available
<1>4. Cardinality(Available) = embed.read
  BY <1>1, <1>3, FS_Interval
<1>5. embed.taken + Len(embed.ready) = Cardinality(Available) /\ Len(embed.ready) = 0
  BY DEF AllArrive
<1> QED BY <1>1, <1>2, <1>4, <1>5

\* hacker_news.cpp:123, 265, 452, hn_hnsw.hpp:248: for any items, hours and runs, whatever
\* is killed or fails: a job waits for ever only if a crawl was told to start below the
\* last one, the model failed on a batch, the consumer went to wait for one more vector
\* when it had all, or a story file repeats an item; and the index always has room.
THEOREM HackerNewsWaitsOnlyIf == Spec => []WaitsOnlyIf
<1> DEFINE Inv == RecordsInv /\ MatchInv /\ AllArrive
<1>1. Init => Inv
  BY InitRecords, InitMatch, InitAllArrive
<1>2. Inv /\ [Next]_vars => Inv'
  BY StepRecords, StutterRecords, StepMatch, StutterMatch, StepAllArrive, StutterAllArrive
<1>3. Inv => WaitsOnlyIf
  <2> SUFFICES ASSUME RecordsInv, MatchInv, AllArrive, Stuck
               PROVE  \/ pc = "crawl" /\ crawl.last > crawl.max
                      \/ pc = "embed" /\ embed.finished /\ (embed.failed \/ embed.taken = embed.cnt)
                      \/ pc = "load" /\ \E v \in load.todo : Repeats(v)
    BY DEF WaitsOnlyIf
  <2>1. CASE pc = "crawl"
    BY <2>1, CrawlWaits DEF Stuck
  <2>2. CASE pc = "embed"
    <3>1. embed.finished /\ embed.flying = {} /\ embed.ready = <<>>
      BY <2>2 DEF Stuck
    <3> QED BY <2>2, <3>1, EmbedWaits
  <2>3. ~(pc = "build" /\ Cardinality(Labels) > Capacity)
    <3>1. Cardinality(Labels) <= Capacity
      BY IndexHasRoom
    <3>2. Cardinality(Labels) \in Nat /\ Capacity \in Nat
      BY IndexHasRoom
    <3> QED BY <3>1, <3>2
  <2>4. CASE pc = "load"
    BY <2>4 DEF Stuck
  <2> QED BY <2>1, <2>2, <2>3, <2>4 DEF Stuck
<1> HIDE DEF Inv
<1> QED BY <1>1, <1>2, <1>3, PTL DEF Spec
=============================================================================
