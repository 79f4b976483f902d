# LingDong, specified

LingDong (灵动) is a static site generator with a small HTTP server and a handful of
command-line tasks around it, in C++20. This directory holds TLA+ models of the parts
of it in which order, time and failure matter, the TLC configurations that check them,
and proofs that TLAPS checks. Everything is read off the source; a comment before each
property names the lines it is about, and `PROJECT.json` gives the lines behind every
definition ("map"), the runs, the hazards and the theorems.

Contents: 1 Inventory · 2 Modules and code · 3 Runs · 4 Fairness · 5 Proofs ·
6 What the models leave out · 7 What the checks found · 8 Plan · 9 Running the checks

## 1 Inventory

| Part | State | Operations | Interacts with |
|---|---|---|---|
| Thread pool (`utils/executor.hpp`, `utils/blocking_queue.hpp`) | bounded queue, mutex, two condition variables, `closed_`, `done_`, worker threads | `push`, `pop`, `close`, `async_execute`, `join` | everything that runs in the background |
| Rate limiter (`utils/rate_limit.hpp`) | a global bucket, a bucket for each client, time of the last clean-up | `permit`, `try_cleanup` | called by the router on every request, from any worker |
| Server (`service/server.hpp`) | libuv loop and streams, `request_buffers_` (peer → buffer), clean-up thread | `on_new_connection`, `on_read`, `accept`, `handle`, `write_resp`, `free_req_buffer`, clean-up | HTTP parser; libuv's worker threads |
| HTTP parser (`service/http/protocol.hpp`) | parse status and the bytes so far, in a buffer | `probe`, `parse`, `handle` | server, router |
| Router (`service/http/router.hpp`, `base_app.hpp`) | table of routes, the limiter | `add_routes`, `route`, static files | limiter, handlers, `log_req` |
| Web application (`web.hpp`) | none of its own | `log_req`, echo, base64, RSS registration, search | pool, SQLite, index |
| SQLite store (`storage/local_sqlite.*`) | one connection | `open`, `exec`, `query`, `with_transaction` | all workers at once |
| Site generator (`maker.hpp`, `main.cpp`) | sources, parsed posts, the site | `init`, `load`, `parse`, `generate`, `make` | parser, plugins, cache |
| Cache of the generator (`MakerCache`) | the cache file, `pre_state_`, `state_` | `load`, `match_then_get`, `cache`, `store` | generator |
| smms plugin (`plugin/smms.hpp`) | upload history, in memory and on disk | `init`, `run`, `destroy` | image host |
| Plugin framework (`plugin/plugin.h`, `plugins.hpp`) | the plugins that started | `init`, `run`, `destroy` | generator |
| Diagram plugins (`plugin/plantuml.hpp`, `mermaid.hpp`) | pictures on disk, by the hash of their text; a server process, a directory | `init`, `run`, `destroy` | external programs |
| Other plugins (`plugin/*.hpp`) | none | rewrite elements, add tags | generator |
| Markdown parser (`parser/markdown.*`) | the lines, a position, the elements, the footnotes; none between files | `parse` and one `parse_*` for each block, `to_html` | generator |
| Hacker News tasks (`task/hacker_news.cpp`, `storage/hn_hnsw.hpp`) | versions on disk: stories, vectors, two meta files, an index | crawl, embed, build index, load, search | pool, the API, the embedding model |
| m3u8 task (`task/m3u8_to_mp4.cpp`) | progress in a list file | partition, download, combine, listen | external programs |
| Viewer statistics (`task/viewer_stat.cpp`, `utils/mmdb.hpp`) | none | a report over the access log | SQLite |
| Task scheduler (`utils/task_scheduler.hpp`) | priority queue of events, a loop thread | `schedule*`, `stop` | pool; only tests use it |
| RSS parser, config, helpers, other tasks | none | pure functions, one-shot programs | |

How the parts meet: the libuv loop thread reads bytes into the buffer of the *peer*, and
when a request is whole hands it to a worker; the worker asks the limiter for a permit,
hands a log row to the thread pool, runs the handler, and queues the response on libuv's
threads, then frees the buffer. All handlers share one SQLite connection. The generator
is sequential, but authors edit while it runs and it may be killed anywhere; what it
leaves on disk is read by the next run. The Hacker News tasks are separate runs that
communicate through files, and each has a producer, a pool and a consumer inside.

What is hard, part by part, and what would make it right:

- **Pool.** `close()` broadcasts without the lock; waits are limited to 50 ms; `done_` is
  tested apart from the push; a running task submits another to the same pool; `join()`
  joins nobody, since `workers_` is filled by subscript and its size stays 0; only
  `std::runtime_error` is caught. Right: mutual exclusion, capacity, first in first out, a
  task in one place only, truthful answers, workers that leave, no wedge below a bound.
- **Limiter.** The age test, the refill and the time stamp are three steps without a lock; the
  count is read and swapped apart; the table is read without the lock. Right: tokens conserved,
  each request pays both buckets or is refused, the rate bounded.
- **Server.** One buffer for each peer, not for each connection; the response leaves before the
  buffer is freed; `count` and `at` are separate; the clean-up walks the table unlocked; the
  length is compared before the headers have ended; a client may close at any time. Right:
  answers of the peer's own requests, not two for one, not two writes on one stream, an answer
  in the end, no buffer left for ever.
- **Generator.** Times are read at listing, content later, the cache written last, in place,
  or skipped by comparing two sizes; a post that cannot be parsed ends `parse()` early; a file
  that cannot be opened and a plugin that cannot start are only logged.
  Right: the cache never passes old content for new, a skipped store loses nothing, the
  site is the sources.
- **Plugins.** A picture is written in place under the name by which later runs take it; a
  failure of a plugin is only logged, and the page is kept. Right: what a page shows is
  whole, text stays only where something failed, nothing is left running.
- **Markdown parser.** A dozen functions hand a position to each other; three of them overwrite
  the lines they work on (`last_line = lines.at(...)` does not rebind a reference);
  nested lists hand back a line nobody looks at; `at()` throws and nobody catches. Right: the
  elements are the text, nothing twice, nothing missing; marks are taken as they nest.
- **m3u8.** A file is read while others append to it, half lines and all; parts are computed by
  two divisions. Right: each line once, the video is the playlist.
- **Scheduler.** A heap without a lock, a local captured by reference, tasks that throw before
  they are put back, a condition variable that `stop()` does not notify. Right: one event for
  each task, `stop()` returns.
- **RSS registration.** Look, fetch, insert, transaction, on a connection whose transaction
  everybody is in. Right: whole or not at all, items with their own subscription.
- **Hacker News.** Every job ends in a loop that waits for a count; the last version's meta
  file alone says where to go on. Right: no item missed, vectors for the right stories, no
  wait for ever.

`PROJECT.json` lists the hazards at their lines, with the properties that cover them.

## 2 Modules and code

Each module has a header that says what it stands for. Names are the source's where
TLA+ allows it. One action is one step between two points at which another thread (or a
kill) can get in; an unlocked test and the write that follows it are two actions, a
critical section is one.

**`BlockingQueue`** — `BlockingQueue<T>`. Each thread has a program point (`pc`), an argument
and a result. The points are those of `push`, `pop` and `close`: wait for the mutex,
test, sleep on `cv4not_full_`/`cv4not_empty_`, put or take, leave and notify. A sleeper
may be notified, time out, or wake for no reason (`WakeUp`, `TimedOut`); it wants the mutex
again before it goes on. `close()` sets the flag and broadcasts without the mutex.
**`BoundedFifo`** is its specification: a bounded buffer on which push and pop are one
step each. `FifoSpec` says that the queue implements it.

**`Executor`** EXTENDS `BlockingQueue` and drives its threads. `ctl[t]` is where a thread is in
`async_execute`, `join` or the worker loop; when it is inside a queue call the queue's own
actions move it. `Child[k]` is the task that task `k` submits while it runs (`log_req`
submitting its access-log row). `Outcomes` are how a task may end: it returns, throws what
the pool catches, or throws something else, which ends the process (`crashed`).
**`TaskPool`** is the pool as its callers see it: new, asked, pending, running,
finished or refused, with at most one late start for each worker after the stop.

**`RateLimiter`** — `permit()` with all its separate steps: age test, refill (`swap`), stamp,
test, the count read (`Load`) and swapped (`Grant`, or `Retry` when it has changed), look up,
insert and fill under the lock, use of the client's bucket; `try_cleanup` deciding without the
lock and erasing under it. A look-up during a write may give the wrong answer: then the
thread is on record in `misread`. A bucket that was erased while a request holds a
reference to it, or was never there, is used after free (`UseFreed`; `crashed` names the thread).

**`Server`** — connections, the reads they are cut into, `request_buffers_`, the pool's jobs,
the writes and the clean-up thread. A byte stream is a sequence of *parts*, and a read ends
behind any of them: a first line or half of one, a header, a Content-Length (`LengthOf` gives
its value), the empty line that ends the headers, a body. `Heads` are the parts that are a first
line and all headers. `Probe`, `ParseHeaders` and `Status` are what the parser makes of the
parts that a buffer has, whether the headers have ended in it or not; parts are of one size, so
that lengths count parts. A connection one of whose reads was taken for the end of a request
within its headers is in `early`. Each part carries `<<connection, request>>`, so that an answer
can be traced to what it was made from. `UseFreed`, `WriteFreed`, `Torn` and `DropAt` are the
undefined or external ends.

**`Maker`** — one run of the generator after another over files that authors edit. The content
of a file is the time of its last edit. `Parse(f)` reads a post into hand, `RunAndCache` runs
the plugin on it and puts it into `state`; `Store`/`Write` truncate and write the cache file;
`Wipe`/`Render` remake the site. A kill loses memory and may leave a cache file that ends within
an entry or after some entries. The smms history is `history`, what was sent is `sent`. What a
run only logs is in `amiss`: the old cache could not be read, the smms plugin could not start
(`SmmsLeftOut`), the history or the cache could not be opened or written (`Destroy`, `Save`,
`StoreFails`). `bad` files are those that `Markdown::parse` refuses (an open code block, say),
not those whose metadata do not end, which end the program.

**`HackerNews`** — the jobs as runs, one at a time. A version is the hour its directory is
named after. `story`, `embs` are the line files; `meta`, `embMeta` the small files, "none",
"torn" or "whole". The crawl has its submitter (`Submit`), pool tasks (`Fetched`) and
consumer (`Consume`); the embedding its producer (`SendBatch`, `CountBatch`, `Finish`), pool
tasks (`Embedded`) and consumer (`Await`, `Take`). `Expected` is the unsigned difference,
modulo `Word`. The pools are used as `TaskPool` promises: accepted once, run once.

**`Subscription`** — `rss_register_handler` for several requests at once, on the connection of
`LocalSqlite`. One action for each SQL statement; `db` is what the connection sees, `saved` is
`db` at the BEGIN, so `Durable` is what a kill leaves. A COMMIT or ROLLBACK ends whatever
transaction is open. `Destroy` is the second ROLLBACK, that of `~Transaction`.

**`Markdown`** — `Markdown::parse` and the block parsers. A line is a record: the kind its first
marks make it, its indentation, its length, whether the marks of its text close. `at` is
`last_line_idx`; each `parse_*` is an action that consumes lines, appends an element with
the lines it was made from, and overwrites `lines` where the code does. The two list
parsers call each other; `frames` is that call stack, one action for each turn of their
loops, so that what a nested call hands back can be followed.
**`Inline`** — `parse_paragraph` within a line: fragments cut off from the left, and the pass over
the marks of a text. Its reference says, without a stack, when the marks can be paired (`Closes`).

**`Pictures`** — the plugin framework with PlantUML and Mermaid, run after run. `disk` holds the
picture of each diagram, "torn" from the moment it is opened; `page` is what the generator keeps
of a post from earlier runs. A plugin may fail to start, at a diagram, or be killed with the
run. A run may end with its posts done (`EndRun`, in which the call that stops the server may
fail), at a post that cannot be parsed (`GiveUp`, before `destroy()`), or be killed.

**`M3u8`** — the program that listens to a file. Writers append lines, in one write or two; the
program reads the time of the file, then its lines from the start; a line that is still being
written is read as far as it has come (`ReadAs`): it has the wrong format, or both tabs and a
name cut short, and is then worked on like a whole one. A line that is taken up becomes a fetch,
a partition (`PartsOf`), downloads in any order, and a `Combine`.

**`Scheduler`** — `TaskScheduler` step by step: the tests, the sleeps, the copy of the top, the
pop, the hand-over to the pool and the re-insertion by the loop or by the job. Insertions are
two steps, since they take no lock. A task may throw what the pool catches (`ExecThrows`), which
ends its job, or something else, which ends the process. `error` is the undefined step at which
the model stops: an empty heap's top, the heap in two hands, a local gone or reused.

`MC_*` modules give the constants values; `MC_Standalone` puts the last five modules, which
share no state with each other, into one run: `which` says which of them runs.
`*Proof` modules hold theorems (section 5).

## 3 Runs

All runs are exhaustive breadth-first searches of the instance described.

| Run | Instance | What it shows |
|---|---|---|
| `executor` | 2 workers, 2 clients, 2 requests with a nested log row each, capacity 1, all outcomes | a task is in one place, answers are true, at most one late start, no wedge below the bound; the queue within it is a linearizable bounded FIFO (`FifoSpec`), the whole a `TaskPool` (`PoolSpec`) |
| `executor_live` | 1 worker, 2 clients, the same tasks, all of which return, capacity 1 | submissions return, accepted tasks run, a wedge lasts until `join()`, workers exit |
| `rate_limiter` | 2 workers, 2 clients, 5 requests, 3 seconds, limits 2 and 1 | conservation, payment, number of refills in a second; before the first clean-up only a thread that misread the table uses a bucket that is not there |
| `rate_limiter_rate` | 3 workers, 1 client | *violation*: more is handed out than a token bucket would |
| `server` | 1 peer with 2 connections, one request with a body, then two without, every cut into reads, 2 workers | one answer for each request, one write for each stream, unless a cut was taken for the end; a fresh connection's first answer is its own |
| `server_live` | 2 peers, one with a request with a body, one that may fall silent and sends requests that are answered and one that never is; clean-up thread | no answer crosses peers, first requests the code can take are answered, silent buffers go |
| `server_complete` | 1 peer, 2 requests | *violation*: COMPLETE although the body is still to come |
| `maker` | a post and a page, one image, 3 runs, 3 points of time, any file that may fail to open | freshness of the cache, the skipped store, the site, and that a run in which nothing went amiss repairs what an earlier one left |
| `maker_uploads` | 2 posts and a page, one image shared | *violation*: uploads forgotten |
| `hacker_news` | 3 items (2 with one address), 2 hours, batches of 2, 3 runs | nothing missed, damage (repeated lines, torn files) only after a kill, vectors of the right stories, the only waits for ever |
| `subscription` | 3 registrations, 2 of one feed, 2 entries each, one kill | success is stored, all or nothing, items with their own subscription, no transaction left open |
| `standalone` | texts of up to 3 lines of 16 shapes, of up to 5 lines of lists, of 3 that are indented by one, of 4 of tables; lines of up to 7 characters; 2 posts with 3 diagrams, 3 runs; a file of 3 lines, 4 playlists; 3 scheduled tasks, 1 worker | the parser's elements are the text, and when it fails; marks; pictures; lines once, videos whole; one event for each task that has not thrown, `stop()` returns |

Why the bounds are enough for the cases that matter:

- *Pool.* Two requests with children and one worker wedge a queue of capacity 1 (the least
  number, `NoWedge`'s bound is tight); two workers are needed for a task to be raced for,
  and for one worker to be late while the other is not. Four threads on the queue of the
  pool put sleepers of both kinds and a third thread between a test and a sleep.
- *Limiter.* Five requests are what it takes to refill three times within a second with two
  workers (`RefillsBounded` is met with equality). `Quiet` (ten seconds) and `Hour` are
  scaled down, keeping their order, so that a clean-up falls among requests.
- *Server.* Two connections of one peer are what it takes to continue somebody's buffer, two
  peers what it takes to be answered for somebody else; a second request is needed for
  the race with the release. A third connection would only repeat these. The request with a body has
  four parts, so that a read may end within the headers, before and behind the
  length, at their end and within what follows; its length is such that the cut behind the
  Content-Length is taken for its end.
- *Maker.* Three runs: make the cache, spoil it (a kill, a deletion, an edit between listing
  and parsing), use it. A post and a page let a deletion and a parse cancel out in the
  count of entries, the case that `Unchanged` must not take for "no change"; they are the two kinds
  of file of which a bad one does different things.
- *Hacker News.* Three runs: a crawl that is killed, one that repeats it, and one that reads
  what they left; two hours so that the last version may be another one. Three items make
  a full batch and a rest. `Word` stands for 2^32; any value above the number of items
  gives the same wrap-around.
- *Subscription.* The worst case needs three registrations: one rolls back twice, the second
  loses its transaction to the second rollback, and commits that of the third.
- *Markdown.* Every block parser looks at its first line, the lines it runs over and the one it
  stops at: three lines give each of these every kind, so that any two blocks meet.
  Lists need five: two levels down, up by one or two, and a line after. Tables need four: title,
  alignment, and two rows of which the first may end the table.
- *Inline.* Seven characters hold pairs of marks within one another and side by side, stacks up
  to five deep and a run of each length up to seven; the brackets of links and notes need four
  to six characters.
- *Pictures.* Two posts share one diagram and have one each of their own, in both languages: the
  second may find what the first left torn. Three runs: one that is killed, one that takes
  its picture over, one that takes the page over.
- *M3u8.* Two ticks of the clock separate "seen" from "not seen"; the playlists have no segment,
  two, and five with a remainder for degree two, an info line without a uri, and two uris in a
  row.
- *Scheduler.* One task of each kind that requeues itself differently; one worker and a place in
  the pool are enough for a job to run while the loop goes on.

Deadlock is not checked: in every instance the program, or the bounded number of requests and
runs, may really stop. That nothing is stuck is stated by the liveness properties and by
`NoWedge`, `WaitsOnlyIf` and `StopReturns`.

Types are not run as properties of their own where a theorem has them (section 5).

Each property has a mutant: an operator such as `InsertEmpty` or `SelectLastId`,
defined before what it replaces, that contains a plausible bug. The property
is violated when the definition is replaced by it, so that no property holds by the shape
of the model.

## 4 Fairness

Safety runs assume none. `executor_live` assumes, for each thread, weak fairness of its steps
(threads are scheduled by the operating system) and strong fairness of taking the mutex: holders
keep it for a few instructions and those who retry sleep up to 50 ms in between, so that a
thread that wants the lock is not overtaken for ever. A sleeper's time-out is a step of its own
thread. No fairness is given to calls by clients, or to `join` being called: those are choices.
`server_live` assumes weak fairness of the loop thread (which also takes in the bytes sent, when
it is idle), of the writes, of each worker, of the clean-up thread, and of buffers growing old
(time passes). Clients are free to stay silent or leave. `standalone` assumes weak fairness of
the scheduler's loop, of each worker, of calls that have begun, of the return of `join` once the
loop is gone, and that time passes; the notification of a sleeper is not given, nor is a
spurious wake-up. Properties of liveness allow `crashed`, since a process that has ended does
nothing more.

## 5 Proofs

Every theorem holds for all values of the constants that satisfy the named assumptions of the
module. The scheme is the same throughout: an inductive invariant, a lemma or a step for
each action, `PTL` at the end.

- **`ExecutorProof`**, *the queue by itself.* `QInv` is `QTypeOK`, `Mutex`, `Bounded` and two
  facts that make them inductive: a thread at the point of insertion holds the lock and there is
  room (`RoomToPut`), and pushers hold a value. Theorems `QueueSafe` and `QueueImplementsFifo`:
  the insertion of `push` and the removal of `pop` are the linearization points, `TimedOut` with
  a full queue is giving up, everything else stutters.
  *The pool.* `IInv` adds to `QInv` where a worker is in the queue's code for each of
  its own points (`Nested`), who has which task (`Jobs`, `Running`, `Popped`, `JobPlace`) and
  how often a worker may still be late (`Late`). A step of the pool is a step of the queue
  (`PoolStepIsQueueStep`), so `QInv` is inherited. Theorems: `PoolTypeOK`, `PoolAtMostOnce`,
  `PoolAnswerIsTrue`, `PoolOneLateStart`, and `PoolImplementsTaskPool`, in which a task is
  accepted when it is inserted and taken when it is popped. `PoolNoWedge` is by counting: in a
  wedge each worker runs a task of `Burden`, and the tasks in the queue are as many others of
  it (one that is neither from outside nor a parent is there in the place of its parent, which has run:
  `Lineage`), so that `Burden` has at least `Capacity` and `Workers` members together.
  `PoolWedgeEndsByJoinOnly` is the action property: of a wedged pool nothing but `join()`, a time-out
  or a new caller moves.
- **`RateLimiterProof`.** `RInv` is `TypeOK`, `Conservation`, and that a thread using a bucket
  holds it (`RefHeld`), knows its client, and has read a count above zero when it comes to swap
  it (`HasRead`), and that every bucket, in the table or not, adds up. `AccountMoves` says that
  each step changes both sides of `EveryRequestPays` equally. `LimiterCrashOnlyIf` has an
  invariant of its own beside it (`Early`): before the first hour is over no thread is at the
  clean-up and no bucket has left the table, so that a thread about to use the bucket of a
  client the table does not have is on record as having misread it. `LimiterRefillsBounded`: a
  thread that saw an old refill time may refill once, and each refill stamps the time, so the
  refills of a second and the threads that may still refill in it are together no more than the
  bound (`RefillBudget`, `PastTimes`).
- **`MakerProof`.** `MInv` says that every entry anywhere is timely: its content is no older than
  its time says (`AllTimely`); that what was loaded is what the file held (`PreIsFile`), that
  `state` has only entries of it or parsed ones, and what a run has done so far for the
  files handled (`Handled`, `Todo`, `Hand`). `SkipIsSound` is not inductive: it needs that
  if no file was parsed then `state` is a part of what was loaded, and equal sizes make
  the two equal (`SameSizeSameCache`). Theorems `MakerTypeOK`, `MakerCacheFresh`,
  `MakerSkipIsSound`, `MakerSiteIsSource`. `MakerRunRepairs` adds `Repaired`: what a run parsed
  or took over is what it stores, the history is written before the run ends, each unless the record
  of what went `amiss` says otherwise, and a run with `ignore_cache`, or one that could not read the
  cache, over at least one file cannot find the sizes equal (`SkipOnlyFromCache`), since it has
  loaded nothing.
- **`ServerProof`.** `SInv` is `TypeOK` and what is certain of a buffer, a job, a worker, a
  write and the parts still to be read (`BufferOK` … `InOrder`). `OwnedInv`: there is a function
  from buffers to peers such that the table, the loop, the jobs, the workers and the writes
  agree with it; a buffer gets its peer when it is made. `NoCrossTalk` follows. `AnsweredInv`:
  at most one request of a connection is on its way, between the loop and the answer
  (`OnePending`), only while its client waits for an answer (`Awaited`), except for the
  connections in `early`, of whose requests one was taken for complete within its headers: that
  one may be complete again. `FirstInv`: a connection that found no buffer is served from one
  that has nothing but its first request. Theorems `ServerTypeOK`, `ServerNoCrossTalk`,
  `ServerAtMostOneAnswer`, `ServerOneWritePerStream`, `ServerFirstAnswerIsOwn`, for any
  connections, peers, workers and sizes. `ServerFirstNotLost` is the safety that `FirstAnswered`
  rests on: while the client of a connection alone with its peer, which is not a slow one, waits
  for its first answer, the request is with a worker, on its way to or from one, or not all of
  it has been read. Its invariant `NotLostInv` is that what is in the buffer and what is to come
  make up the request (`Coming`), and that no worker and no clean-up has the key of the buffer
  (`Unserved`); so a read that leaves nothing to come completes it (`WholeIsComplete`) and it is
  queued (`AcceptsNext`). It is about clients that send only requests the code can take
  (`Whole`): the first line is one piece, the headers are not empty and end, what follows is as
  long as a Content-Length above zero says, and all is within `SizeLimit`; the others are never
  answered. The theorems assume that what clients send has one first line, in front, and at most
  one end of headers (`RequestAssumption`).
- **`HackerNewsProof`.** `RecordsInv` types the files and the records of both jobs. `SeenInv`:
  of an item up to the counter the address is in some version, one behind it is with a task,
  waits to be taken, or is there already. `OnceInv`: the answers waiting are of different items,
  and a line occurs twice, or a file is torn, only after a kill (`AnswersInv`, `FilesOnce`,
  `TornInv`). `MatchInv`: an injective function takes the vectors, written and waiting, to the
  lines they are of, none of which is with a task still (`Lined`, `BatchesInv`); a new batch
  extends it. `AllArrive`: unless the model failed on a batch, every line that was read and is
  with no task has its vector, written or on its way, so the consumer can wait in vain only
  after it had them all. The room in the index is counted by a sum over the versions, by
  induction on the number of them (`CapacityIs`, `IndexHasRoom`). Theorems `HackerNewsTypeOK`,
  `HackerNewsNothingMissed`, `HackerNewsDamageOnlyAfterKill`, `HackerNewsVectorsAreStories`,
  `HackerNewsWaitsOnlyIf`.
- **`StandaloneProof`**, *pictures.* `PInv` follows a picture from the diagram to the page: the
  post in hand has a page in this run and had none before (`InHand`), what earlier runs made is
  kept (`Kept`), an image in a page has a picture on disk that is whole or was cut
  (`PagesAreThere`, `MadeAreThere`, `TornIsCut`), text is left where a plugin failed or has
  still to come (`CodeIsLeft`, `CodeWasLeft`), temporary files are there, unless a run was
  killed, only while their plugin works, and a server that runs between runs is one that the
  latest run to start it left (`left`: it was killed, gave up, or failed to stop it)
  (`NothingRuns`). Theorem `PicturesAreWhole`, for any posts, diagrams and number of runs.
  *m3u8.* `LinesInv`: the number of lines read in this pass and of those handled agree with
  `processed` (`ReadUpTo`, `Counted`), and what a pass that is over has left was written in the
  tick it has seen or later (`LeftIsNew`, `TimesArePast`). Theorem `M3u8LinesOnce`. `PartSizes`
  is the arithmetic of the two divisions, from which `M3u8PartsFollow` has the first conjunct of
  `WholeVideo`. For the second, `JoinInv` keeps that the output is the join of the pieces that
  came; that such a join has the segments of these parts, each as often as the playlist, and no
  other, is by induction on the pieces (`FlattenSeqIs`, `PiecesJoin`). `WorksOnGood` keeps what
  the line at hand was read as, which differs from what it is only if it was still being
  written, while others write to the file; from it `M3u8DiesOnlyIf` has the third. Together:
  `M3u8WholeVideo`.
  *Scheduler.* `OneInv`: a task that has been scheduled is in one place: an event of the heap,
  in the hands of the loop or of an insertion, or with a job that will insert it, or it has
  thrown and is in none (`OnePlaceEach`), and the slot a job refers to is its own
  (`SlotIsThere`). It holds as long as no undefined step was taken (`Sane`). Theorem
  `SchedulerOneEventEach`. `SchedulerSleepIsEnded` is what `StopReturns` rests on: when the loop
  sleeps on what it took for an empty queue and there is an event in it, a caller has still to
  notify the loop, unless its notification fell between the loop's test and its sleep
  (`missed`).
- **`MarkdownProof`.** `MarkdownInv` follows the elements up to `Base`, the first line that is
  in none of them: they follow one another (`ElementsFollow`), a line before `Base` is in one or
  has nothing to show (`LinesAreIn`), and what was overwritten there lies in a quote, a code
  block or a list (`DamageIsIn`). In a list, the calls are further and further in
  (`FramesDeepen`), and the line at hand is an item of the innermost one or a deeper one ended
  there (`LineIsItem`). That no whole item is taken twice is the hard part: a call gives up on
  an item of its own only if the marks of what it cuts off do not close, and then every list
  around cuts off less and gives up on it as well (`Doomed`), until the text is refused. Theorem
  `MarkdownLinesInOrder`. `FailInv` adds where the nested lists began, with no empty line since
  (`CallsBegan`, `EndIsKnown`), and that the rows of a broken table are as they were read
  (`RowsAreKept`); from it `MarkdownFailsOnlyIf`, with each reason a fact about the text. Both
  are for any texts of lines as `IsLine` has them: a mark leaves something behind the
  indentation.
  *Inline.* `PassFindsPairing`: for any text, the pass over a stack ends with nothing open
  exactly when the marks can be paired without crossing. The recursion over characters is shown
  to have a solution (`ScanExists`) and to skip the second character of each doubled mark and no
  other (`PassSkips`); a mark taken twice leaves the stack as it was, since no mark is ever
  twice in a row on it (`Reduced`, `AfterIs`). One direction is by the length of a stretch that
  no pair leaves (`ApartLeavesStack`), the other keeps a pairing of what is not on the stack
  (`IsHalfway`). With `LineInv`, theorem `InlineIsSound`.
- **`SubscriptionProof`.** A request that was not hit has the transaction it began for itself until
  it ends it (`StorerOwns`), and whoever began the open one is still storing
  (`OwnerStores`); therefore the rows of such a request are known exactly, both in what the
  connection sees (`DbRows`, `DbSub`) and in what a rollback or a kill falls back to
  (`SavedRows`, `SavedSub`). `SInv` is these with the types and two facts about the order of
  steps. A COMMIT keeps it because it hits the one whose transaction it ends, a ROLLBACK
  because it hits all who have rows in flight (`CommitStep`, `UndoStep`). Theorems
  `SubscriptionTypeOK`, `SuccessStays`, `ItemsAllOrNothing`, `ItemsNameTheirFeed`, `OpenHasOwner`.

Model-checked only:

- liveness, which is beyond the prover: the temporal properties of `executor_live` and
  `server_live`, and `StopReturns`; for `FirstAnswered` and `StopReturns` the safety they rest on is
  proved (`ServerFirstNotLost`, `SchedulerSleepIsEnded`), for the others it is not;
- that `Stuck`, the states `WaitsOnlyIf` is about, spelled out for the prover, are just those in
  which a job runs and has no next step: ENABLED. `hacker_news` asserts it in every state
  (`StuckIsStuck`);
- the three expected violations.

## 6 What the models leave out

- *Undefined behaviour.* `workers_[idx]` on an empty vector (executor.hpp:26) is taken to do what
  the build does: the threads start and the size stays 0. A use of freed memory ends in
  `crashed`. Reads of the tables without the lock see one of the values there are.
- *Notification.* Whether `wait_for` reports a time-out or a notification that came at the
  same moment is a choice.
- *Data.* Bodies, headers and names are parts or model values; HTML, SQL text and JSON are left
  out. Each edit has a time of its own (file systems with coarse times could give two edits
  the same; the code cannot tell them apart). A listing of files is atomic.
- *Files.* A line is written at once; a small file is truncated, then written. That a write may
  stay in the operating system's cache at a power cut is not modelled, only kills are.
- *Markdown.* The first character of an empty line is read as the zero that ends it, as the
  build does (`markdown.cpp:817`). What a line's marks look like is not modelled: the kinds are
  those the parsers tell apart, and a line that begins like a block but fails its test is a
  text. The elements' HTML is left out, but for the reads past the cells of a row. Within a link
  or a formula nothing is parsed, as in the code.
- *Pictures.* What a plugin does to an element other than to replace it. That directories can be
  made is assumed; any other call may fail.
- *Server.* Lengths are counted in parts of one size; in the code they are bytes, of which one more
  or less decides whether a cut within the headers is taken for the end. What the process does once
  an exception has left the loop, or after it has used freed memory, is not modelled: the run ends in
  `crashed`, and the liveness properties excuse it.
- *M3u8.* Download and conversion are calls that succeed or fail. What a half-written line is read as is
  one of the kinds it may have so far; where in the name it was cut is not told apart.
- *Scheduler.* The model stops at the first undefined step and says which. The dates of a cron
  expression are a time to wait; the pool is what `TaskPool` promises.
- *Hacker News.* The hour and the newest item change between runs only, since a run asks
  for each once. Before the first crawl the data directory holds a version made by hand.
  An item that is no story takes the way of one without address.
- *SQLite.* In its default mode each call is atomic; the counter of AUTOINCREMENT is rolled back
  with the rest. `~Transaction` rolls back unless `commit()` succeeded (SQLiteCpp 3.3.2).
  The access-log rows are statements like the others and have no variable of their own.
- *Not modelled:* the parts with status `not_modelled` in `PROJECT.json`, each with its
  reason: pure functions, external programs, code that nothing uses, or planned (section 8).

## 7 What the checks found

Three runs show the code doing other than what a comment says of it:

1. `rate_limiter_rate`. Threads that all saw the old refill time refill the bucket in turn: three
   threads with a bucket of one hand out three tokens in a second, where a token bucket
   allows two. (`rate_limit.hpp:60`; `config.hpp:62`.)
2. `server_complete`. A client that is quicker than the release of its last buffer continues it;
   the headers of the next request are then taken for a complete request and the earlier
   request is answered again. (`server.hpp:231-234`; the comment at `server.hpp:285`.)
3. `maker_uploads`. A post that cannot be parsed makes `parse()` return before the plugins write
   their caches, and images uploaded in that run are offered again. (`maker.hpp:406`;
   `smms.hpp:10`.)

What else came up while modelling, each within a property that states the exception:

- *Overwritten lines* (`LinesInOrder`). The first line of every quote, code block and list is
  overwritten by the line that ends it. No line still to be parsed is hit, so the page is
  right; but `body_part()`, from which the Typst plugin makes its PDF, shows the damage.
- *Nested lists* (`LinesInOrder`, `FailsOnlyIf`; `src/README.md:18` has them ticked). The line
  that ends a nested list becomes an item of the list above, whatever it is, with as many
  characters cut off as the list is deep; a line without so many ends the program, as does a
  text that ends within an ordered list that holds a nested one (`markdown.cpp:390`, `416-420`).
- *Lines that vanish* (`LinesInOrder`). A line whose marks do not close is left out of the page
  without a word (`markdown.cpp:522-530`).
- *Uncaught exceptions* (`FailsOnlyIf`). An empty text, metadata that do not end, and a text that ends
  in the first or second row of a table end the generator; a row with fewer cells than titles is
  read past its end (`markdown.cpp:1068`).
- *Pictures* (`PicturesWhole`). A picture cut short by a kill is shown by every later run; a
  diagram whose plugin failed stays text until its post is edited. A post that cannot be parsed
  leaves the PlantUML server running, since `parse()` returns before `destroy()`
  (`maker.hpp:404-441`), as does a stop that fails (`plantuml.hpp:168-171`).
- *Cut headers* (`AtMostOneAnswer`, `OneWritePerStream`). The Content-Length is compared with
  what has come even if the headers have not ended (`protocol.hpp:335-346`, `headers_end_idx` is
  0): a read that ends just so makes a request complete, and what is left of it makes it
  complete again; it is answered twice.
- *Requests without an answer* (`FirstAnswered`). The end of headers is not found right behind
  the first line (`protocol.hpp:310`), nothing is returned for a Content-Length of zero but
  INVALID (`337-357`), and a first line that a read cuts is refused for good (`395`).
- *What is only logged* (`RunRepairs`, `SkipIsSound`). A history or a cache that cannot be
  opened leaves the old file, and the run goes on; a plugin that could not start does not write
  its history either.
- *m3u8* (`LinesOnce`, `WholeVideo`). Up to one part less than twice the degree asked for; a
  playlist that cannot be fetched, or one without segments, ends the program, as does a
  directory that cannot be made or removed; a line read while it is being written is lost or, if
  both its tabs are there, made into a video under half its name (and ends the program if its
  number does), and the rest of it is never read; one appended within the same tick of the
  file's time waits for the next write. What is logged as `failed_task_cnt` counts the parts
  that came.
- *Scheduler* (`OneEventEach`, `StopReturns`). A spurious wake-up reads the top of an empty
  heap; `stop()` does not wake the loop; the notification of an insertion made between the
  loop's test and its sleep is lost; a job may find its task gone or another's; an interval task
  that throws `std::runtime_error` is never run again, and nothing says so
  (`task_scheduler.hpp:182`, `executor.hpp:35`); a cron expression that cannot be read runs
  once.

Properties that hold with an exception say which: `DamageOnlyAfterKill` and `WaitsOnlyIf` name
the cases in which a Hacker News job leaves damage or waits for ever, `SuccessIsStored` and its
neighbours except a registration over which another's rollback went (it is told of a success
that did not last, or its subscription is gone or another's), `CrashOnlyIf` speaks of the time
before the first clean-up, `NoWedge` gives the load below which the pool cannot wedge,
`NothingMissed` excepts items whose fetch failed.

Two proofs corrected a statement. `NoWedge` first counted only the tasks that submit another.
The proof failed on the tasks in the queue that submit none, and TLC found the wedge with such
tasks submitted from outside: they fill the queue just as well. What counts is every task that
comes from outside or submits one (`Burden`). `FailsOnlyIf` first said that a nested list
refuses a text at a line that is less indented than its first item. The line may be indented as
far: it ends the list if it is no item, and the list above cuts off its indentation and a
character of it; what remains need not close. TLC found it in a number with a dash and a text
below it, each indented by one, a shape that the run now includes.

## 8 Plan

Done: 1 queue and pool, with both refinements, proved. 2 Limiter, proved. 3 Server, proved.
4 Generator, cache and smms, proved. 5 Hacker News, proved. 6 Subscription, proved.
7 Markdown, 8 plugins with pictures, 9 m3u8, 10 scheduler, checked in one run and
proved. 11 Server proof, 12 `NoWedge`, 13 Hacker News proof, 14 Markdown proof, for blocks
and lines. 15 The rest of the invariants, `WaitsOnlyIf` and `WholeVideo`, and the safety under
`FirstAnswered` and `StopReturns`, proved.

Next, in this order:

16. *The HTTP parser* byte by byte (protocol.hpp:297-443), shown to give the `Status` that `Server`
    takes for granted; the browser classes of viewer_stat.cpp:42-74.
17. Composition: `Server` with `RateLimiter` and the pool's log rows behind `Route`, if the product
    stays checkable.

## 9 Running the checks

    tlc -workers 2 -config MC_Executor.cfg MC_Executor.tla
    tlapm ExecutorProof.tla

The runs take from a few seconds to three minutes each on two cores, the proofs from
some seconds to seven minutes.
