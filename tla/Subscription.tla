---------------------------- MODULE Subscription ----------------------------
(***************************************************************************)
(* web.hpp: rss_register_handler, with storage/local_sqlite.cpp.  Workers  *)
(* run it for several requests at once, all on one SQLite connection: each *)
(* call is a statement that SQLite does atomically, but there is only one  *)
(* transaction, and whoever executes a statement while it is open is in    *)
(* it.  An exception ends the handler; its guard still answers.            *)
(*                                                                         *)
(* The rows of rss_subscription are numbered from 1 in the order of their  *)
(* insertion (AUTOINCREMENT, whose counter a rollback takes back as well). *)
(* ~Transaction executes ROLLBACK unless commit() has succeeded, and       *)
(* swallows the exception if there is nothing to roll back (SQLiteCpp).    *)
(***************************************************************************)
EXTENDS Naturals, Sequences

CONSTANTS
  Requests,  \* POST /tool/rss/register, each handled by a worker
  UrlOf,     \* the feed that each asks for
  Entries,   \* how many entries a feed has
  Nobody,
  MaxKills   \* bound: how often the process is killed

ASSUME UrlsAssumption == DOMAIN UrlOf = Requests
ASSUME BoundsAssumption == Entries \in Nat \ {0} /\ MaxKills \in Nat /\ Nobody \notin Requests

Urls == {UrlOf[r] : r \in Requests}

VARIABLES
  db,     \* what the connection sees: the subscriptions, and the items with
          \* the subscription they name and the request that stored them
  saved,  \* db when the transaction began
  owner,  \* who began the transaction that is open
  pc,     \* where each request is
  id,     \* subscription_id
  sent,   \* entries inserted
  answer, \* the code of the response; "empty" is 200 without a body
  hit,    \* requests over which the end of another's transaction went
  kills

vars == <<db, saved, owner, pc, id, sent, answer, hit, kills>>

Open == owner # Nobody
Durable == IF Open THEN saved ELSE db

Item == [sub : Nat, by : Requests, entry : 1 .. Entries]
Tables == [subs : Seq(Urls), items : SUBSET Item]

TypeOK ==
  /\ db \in Tables /\ saved \in Tables /\ owner \in Requests \cup {Nobody}
  /\ pc \in [Requests -> {"idle", "fetch", "insert", "id", "begin", "items", "rollback",
                          "destroy", "done"}]
  /\ id \in [Requests -> Nat] /\ sent \in [Requests -> 0 .. Entries]
  /\ answer \in [Requests -> {"none", "already", "unreachable", "success", "error", "empty"}]
  /\ hit \in SUBSET Requests /\ kills \in 0 .. MaxKills

NoRows == [subs |-> <<>>, items |-> {}]

Init ==
  /\ db = NoRows /\ saved = NoRows /\ owner = Nobody
  /\ pc = [r \in Requests |-> "idle"]
  /\ id = [r \in Requests |-> 0] /\ sent = [r \in Requests |-> 0]
  /\ answer = [r \in Requests |-> "none"]
  /\ hit = {} /\ kills = 0

----------------------------------------------------------------------------
Goto(r, from, to) == pc[r] = from /\ pc' = [pc EXCEPT ![r] = to]

\* The handler returns or is left by an exception, and ~DoneCallbackGuard answers.
Answer(r, from, code) ==
  /\ Goto(r, from, "done")
  /\ answer' = [answer EXCEPT ![r] = code]

\* The rows of the connection: a transaction that is open stays open.
Tx == <<saved, owner>>

InFlight == {r \in Requests : pc[r] \in {"id", "begin", "items", "rollback"}}

Rows(url) == {i \in DOMAIN db.subs : db.subs[i] = url}
Stored(r) == {m \in Durable.items : m.by = r}
AllOf(r) == [sub : {id[r]}, by : {r}, entry : 1 .. Entries]

Select(r) ==
  /\ IF Rows(UrlOf[r]) = {} THEN Goto(r, "idle", "fetch") /\ UNCHANGED answer
                            ELSE Answer(r, "idle", "already")
  /\ UNCHANGED <<db, Tx, id, sent, hit, kills>>

\* cpr::Get and RSS::parse.
Fetch(r) ==
  /\ \/ Goto(r, "fetch", "insert") /\ UNCHANGED answer
     \/ Answer(r, "fetch", "unreachable")
  /\ UNCHANGED <<db, Tx, id, sent, hit, kills>>

Insert(r) ==
  /\ Goto(r, "insert", "id")
  /\ db' = [db EXCEPT !.subs = Append(@, UrlOf[r])]
  /\ UNCHANGED <<Tx, id, sent, answer, hit, kills>>

\* The values are pasted into the statement; a quote makes it fail.
InsertThrows(r) ==
  /\ Answer(r, "insert", "empty")
  /\ UNCHANGED <<db, Tx, id, sent, hit, kills>>

\* Mutant of SelectId: the id inserted last.
SelectLastId(r) ==
  /\ Rows(UrlOf[r]) # {}
  /\ Goto(r, "id", "begin")
  /\ id' = [id EXCEPT ![r] = Len(db.subs)]
  /\ UNCHANGED <<db, Tx, sent, answer, hit, kills>>

\* The first of the rows, should there be several.
SelectId(r) ==
  \E i \in Rows(UrlOf[r]) :
    /\ \A j \in Rows(UrlOf[r]) : i <= j
    /\ Goto(r, "id", "begin")
    /\ id' = [id EXCEPT ![r] = i]
    /\ UNCHANGED <<db, Tx, sent, answer, hit, kills>>

\* "failure to add rss subscription"
SelectIdThrows(r) ==
  /\ Rows(UrlOf[r]) = {}
  /\ Answer(r, "id", "empty")
  /\ UNCHANGED <<db, Tx, id, sent, hit, kills>>

\* Mutant of Begin: no transaction.
BeginNone(r) ==
  /\ ~Open
  /\ Goto(r, "begin", "items")
  /\ UNCHANGED <<db, Tx, id, sent, answer, hit, kills>>

Begin(r) ==
  /\ ~Open
  /\ Goto(r, "begin", "items")
  /\ saved' = db /\ owner' = r
  /\ UNCHANGED <<db, id, sent, answer, hit, kills>>

\* There is no transaction within a transaction.
BeginThrows(r) ==
  /\ Open
  /\ Answer(r, "begin", "empty")
  /\ UNCHANGED <<db, Tx, id, sent, hit, kills>>

InsertItem(r) ==
  /\ sent[r] < Entries
  /\ Goto(r, "items", "items")
  /\ db' = [db EXCEPT !.items = @ \cup {[sub |-> id[r], by |-> r, entry |-> sent[r] + 1]}]
  /\ sent' = [sent EXCEPT ![r] = @ + 1]
  /\ UNCHANGED <<Tx, id, answer, hit, kills>>

\* Mutant of InsertItemThrows: the entry is left out.
InsertItemSkips(r) ==
  /\ sent[r] < Entries
  /\ Goto(r, "items", "items")
  /\ sent' = [sent EXCEPT ![r] = @ + 1]
  /\ UNCHANGED <<db, Tx, id, answer, hit, kills>>

InsertItemThrows(r) ==
  /\ sent[r] < Entries
  /\ Goto(r, "items", "rollback")
  /\ UNCHANGED <<db, Tx, id, sent, answer, hit, kills>>

\* Whatever transaction is open is committed.
Commit(r) ==
  /\ Open /\ sent[r] = Entries
  /\ Answer(r, "items", "success")
  /\ owner' = Nobody
  /\ hit' = hit \cup ({owner} \ {r})
  /\ UNCHANGED <<db, saved, id, sent, kills>>

CommitThrows(r) ==
  /\ ~Open /\ sent[r] = Entries
  /\ Goto(r, "items", "rollback")
  /\ UNCHANGED <<db, Tx, id, sent, answer, hit, kills>>

\* Whatever transaction is open is rolled back.
Undo(r) ==
  /\ Open
  /\ db' = saved /\ owner' = Nobody
  /\ hit' = hit \cup (InFlight \ {r})
  /\ UNCHANGED saved

\* Mutant of Rollback: the statement is forgotten.
RollbackForgotten(r) ==
  /\ Answer(r, "rollback", "error")
  /\ UNCHANGED <<db, Tx, id, sent, hit, kills>>

\* The rollback of the handler; it throws if there is none to do.
Rollback(r) ==
  /\ Goto(r, "rollback", "destroy")
  /\ \/ Undo(r) /\ answer' = [answer EXCEPT ![r] = "error"]
     \/ ~Open /\ UNCHANGED <<db, Tx, hit>> /\ answer' = [answer EXCEPT ![r] = "empty"]
  /\ UNCHANGED <<id, sent, kills>>

\* ~Transaction rolls back once more, then the response goes out.
Destroy(r) ==
  /\ Goto(r, "destroy", "done")
  /\ \/ Undo(r)
     \/ ~Open /\ UNCHANGED <<db, Tx, hit>>
  /\ UNCHANGED <<id, sent, answer, kills>>

\* The process is killed; the requests it was handling are gone with it.
Kill ==
  /\ kills < MaxKills
  /\ kills' = kills + 1
  /\ db' = Durable /\ owner' = Nobody
  /\ pc' = [r \in Requests |-> IF pc[r] = "idle" THEN "idle" ELSE "done"]
  /\ UNCHANGED <<saved, id, sent, answer, hit>>

Register(r) ==
  \/ Select(r) \/ Fetch(r) \/ Insert(r) \/ InsertThrows(r) \/ SelectId(r) \/ SelectIdThrows(r)
  \/ Begin(r) \/ BeginThrows(r) \/ InsertItem(r) \/ InsertItemThrows(r)
  \/ Commit(r) \/ CommitThrows(r) \/ Rollback(r) \/ Destroy(r)

Next == Kill \/ \E r \in Requests : Register(r)

Spec == Init /\ [][Next]_vars

----------------------------------------------------------------------------
(***************************************************************************)
(* Properties.  A request is hit when another request rolls back while it  *)
(* runs, or commits the transaction it began.                              *)
(***************************************************************************)
\* web.hpp:169-199: a registration that answered success is stored whole, with a
\* subscription of its feed, and stays so, unless it was hit.
SuccessIsStored ==
  \A r \in Requests : answer[r] = "success" /\ r \notin hit =>
    /\ id[r] \in DOMAIN Durable.subs /\ Durable.subs[id[r]] = UrlOf[r]
    /\ Stored(r) = AllOf(r)

\* web.hpp:179-190: the items of a registration are stored all or not at all,
\* whatever fails and whenever the process is killed, unless it was hit.
AllOrNothing ==
  \A r \in Requests \ hit : Stored(r) \in {{}, AllOf(r)}

\* web.hpp:171-184: an item names the subscription of its feed, also where two
\* registrations interleave, unless its registration was hit.
ItemsBelong ==
  \A m \in db.items : m.by \notin hit =>
    m.sub \in DOMAIN db.subs /\ db.subs[m.sub] = UrlOf[m.by]

\* local_sqlite.cpp:47: the connection is never left in a transaction that nobody is
\* going to end, in which all that is written later would be lost.
TransactionHasOwner == Open => pc[owner] \in {"items", "rollback"}
=============================================================================
