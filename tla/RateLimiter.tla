---------------------------- MODULE RateLimiter ----------------------------
(***************************************************************************)
(* utils/rate_limit.hpp: the token buckets MapBasedRouter asks before it   *)
(* routes a request.  Every worker of the pool may be inside permit(client)*)
(* at the same time.  One bucket is shared by all requests (Global), the   *)
(* others belong to one client each, are made on its first request and are *)
(* dropped by a clean-up that any request may perform.                     *)
(*                                                                         *)
(* The token count of a bucket is atomic; its last_refill_time is not, and *)
(* the table of buckets is locked by writers only.  A step of the model is *)
(* one access to shared state.  Time is counted in seconds.                *)
(***************************************************************************)
EXTENDS Integers, FiniteSets

CONSTANTS
  Threads,      \* workers that route requests
  Clients,      \* hosts that send them
  Global,       \* the name of global_limiter_
  NoBucket,     \* no client, no reference
  NoThread,     \* lock_ is free
  Limit,        \* global_limit_set_ and per_client_limit_set_
  Quiet,        \* seconds(10)
  Hour,         \* hours(1)
  MaxClock,     \* bound: the clock stops there
  MaxRequests   \* bound: requests in all

Buckets == Clients \cup {Global}

ASSUME NamesAssumption ==
  Global \notin Clients /\ NoBucket \notin Buckets /\ NoThread \notin Threads
ASSUME ThreadsAssumption == IsFiniteSet(Threads)
ASSUME LimitAssumption == Limit \in [Buckets -> Nat]
ASSUME TimesAssumption == Quiet \in Nat /\ Hour \in Nat /\ MaxClock \in Nat /\ MaxRequests \in Nat

VARIABLES
  clock,      \* steady_clock::now()
  limit,      \* TimedLimit::limit of each bucket
  refilled,   \* TimedLimit::last_refill_time of each bucket
  table,      \* clients that have an entry in per_client_limiter_
  lock,       \* the holder of lock_, or NoThread
  pc,         \* where each thread is
  client,     \* the client each thread asks for, or NoBucket
  ref,        \* the bucket whose reference permit() holds, or NoBucket
  stamp,      \* a local variable that holds a time
  expired,    \* the local expired_keys of a clean-up
  old,        \* the local old_limit of a count-down
  dangling,   \* threads whose reference to a bucket has been freed
  crashed,    \* the thread that used a freed or null bucket, or NoThread
  misread,    \* threads whose look at the table, during a write of another, was wrong
  spent,      \* tokens taken from each bucket since it was last filled
  taken, refills,  \* tokens taken from, refills of Global in this second
  tally       \* requests begun, that paid Global, admitted, refused by the client's bucket

shared == <<limit, refilled, table, lock>>
history == <<spent, taken, refills, tally>>
faults == <<dangling, crashed, misread>>
local == <<pc, client, ref, stamp, old, expired>>
vars == <<clock, shared, local, faults, history>>

BucketPoints == {"test", "refill", "stamp", "store", "take", "swap"}
Points == {"idle", "lock_cleanup", "erase", "find", "insert", "fill", "use"} \cup BucketPoints

TypeOK ==
  /\ clock \in Nat
  /\ limit \in [Buckets -> Nat] /\ refilled \in [Buckets -> Nat]
  /\ table \in SUBSET Clients
  /\ lock \in Threads \cup {NoThread}
  /\ pc \in [Threads -> Points]
  /\ client \in [Threads -> Clients \cup {NoBucket}]
  /\ ref \in [Threads -> Buckets \cup {NoBucket}]
  /\ stamp \in [Threads -> Nat]
  /\ expired \in [Threads -> SUBSET Clients]
  /\ dangling \in SUBSET Threads
  /\ old \in [Threads -> Nat]
  /\ crashed \in Threads \cup {NoThread}
  /\ misread \in SUBSET Threads
  /\ spent \in [Buckets -> Nat]
  /\ taken \in Nat /\ refills \in Nat
  /\ tally \in [begun : Nat, paid : Nat, admitted : Nat, refused : Nat]

\* The constructor.
Init ==
  /\ clock = 0
  /\ limit = Limit
  /\ refilled = [b \in Buckets |-> 0]
  /\ table = {}
  /\ lock = NoThread
  /\ pc = [t \in Threads |-> "idle"]
  /\ client = [t \in Threads |-> NoBucket]
  /\ ref = [t \in Threads |-> NoBucket]
  /\ stamp = [t \in Threads |-> 0]
  /\ expired = [t \in Threads |-> {}]
  /\ dangling = {}
  /\ old = [t \in Threads |-> 0]
  /\ crashed = NoThread
  /\ misread = {}
  /\ spent = [b \in Buckets |-> 0]
  /\ taken = 0 /\ refills = 0
  /\ tally = [begun |-> 0, paid |-> 0, admitted |-> 0, refused |-> 0]

Goto(t, point) == pc' = [pc EXCEPT ![t] = point]

\* The call of the static permit() on bucket b.
CallPermit(t, b) == Goto(t, "test") /\ ref' = [ref EXCEPT ![t] = b]

Return(t) ==
  /\ Goto(t, "idle")
  /\ client' = [client EXCEPT ![t] = NoBucket]
  /\ ref' = [ref EXCEPT ![t] = NoBucket]

----------------------------------------------------------------------------
\* bool permit(const std::string& client): it begins with try_cleanup(), whose
\* tests read the clock and the global bucket's last_refill_time; nothing
\* changes last_cleanup_time_ after the constructor.
Permit(t, c) ==
  /\ pc[t] = "idle"
  /\ tally.begun < MaxRequests
  /\ tally' = [tally EXCEPT !.begun = @ + 1]
  /\ client' = [client EXCEPT ![t] = c]
  /\ stamp' = [stamp EXCEPT ![t] = clock]
  /\ IF clock < Hour \/ clock - refilled[Global] < Quiet
       THEN CallPermit(t, Global)
       ELSE Goto(t, "lock_cleanup") /\ UNCHANGED ref
  /\ UNCHANGED <<clock, shared, old, expired, faults, spent, taken, refills>>

\* try_cleanup() takes lock_ and collects the keys to drop, by the time it
\* read before it took lock_.
Collect(t) ==
  /\ pc[t] = "lock_cleanup"
  /\ lock = NoThread
  /\ lock' = t
  /\ expired' = [expired EXCEPT ![t] = {c \in table : stamp[t] - refilled[c] >= Hour}]
  /\ Goto(t, "erase")
  /\ UNCHANGED <<clock, limit, refilled, table, client, ref, stamp, old, faults, history>>

Erase(t) ==
  /\ pc[t] = "erase"
  /\ table' = table \ expired[t]
  /\ dangling' = dangling \cup {u \in Threads : ref[u] \in expired[t]}
  /\ lock' = NoThread
  /\ expired' = [expired EXCEPT ![t] = {}]
  /\ CallPermit(t, Global)
  /\ UNCHANGED <<clock, limit, refilled, client, stamp, old, crashed, misread, history>>

----------------------------------------------------------------------------
\* static bool permit(TimedLimit& limiter, const uint32_t& limit_set), for the
\* global bucket and then for the client's.
AtBucket(t, point) == pc[t] = point /\ t \notin dangling

Test(t) ==
  /\ AtBucket(t, "test")
  /\ Goto(t, IF clock - refilled[ref[t]] >= 1 THEN "refill" ELSE "take")
  /\ UNCHANGED <<clock, shared, client, ref, stamp, old, expired, faults, history>>

\* The compare-and-swap loop ends with the count replaced, whatever it was.
Refill(t) ==
  LET b == ref[t] IN
  /\ AtBucket(t, "refill")
  /\ limit' = [limit EXCEPT ![b] = Limit[b]]
  /\ spent' = [spent EXCEPT ![b] = 0]
  /\ refills' = IF b = Global THEN refills + 1 ELSE refills
  /\ Goto(t, "stamp")
  /\ UNCHANGED <<clock, refilled, table, lock, client, ref, stamp, old, expired,
                 faults, taken, tally>>

\* last_refill_time = now(): the clock is read, then the value is stored.
Stamp(t) ==
  /\ AtBucket(t, "stamp")
  /\ stamp' = [stamp EXCEPT ![t] = clock]
  /\ Goto(t, "store")
  /\ UNCHANGED <<clock, shared, client, ref, old, expired, faults, history>>

\* Mutant of Store: last_refill_time is not written.
StoreNothing(t) ==
  /\ AtBucket(t, "store")
  /\ Goto(t, "take")
  /\ UNCHANGED <<clock, shared, client, ref, stamp, old, expired, faults, history>>

Store(t) ==
  /\ AtBucket(t, "store")
  /\ refilled' = [refilled EXCEPT ![ref[t]] = stamp[t]]
  /\ Goto(t, "take")
  /\ UNCHANGED <<clock, limit, table, lock, client, ref, stamp, old, expired, faults, history>>

\* The count is read; what is done next depends on what was read.
Load(t) ==
  /\ AtBucket(t, "take")
  /\ limit[ref[t]] > 0
  /\ old' = [old EXCEPT ![t] = limit[ref[t]]]
  /\ Goto(t, "swap")
  /\ UNCHANGED <<clock, shared, client, ref, stamp, expired, faults, history>>

\* The global bucket's token lets the request go on to its client's bucket, the
\* client's admits it.
TakeToken(t) ==
  LET b == ref[t] IN
  /\ limit' = [limit EXCEPT ![b] = old[t] - 1]
  /\ spent' = [spent EXCEPT ![b] = @ + 1]
  /\ old' = [old EXCEPT ![t] = 0]
  /\ IF b = Global
       THEN /\ Goto(t, "find")
            /\ ref' = [ref EXCEPT ![t] = NoBucket]
            /\ taken' = taken + 1
            /\ tally' = [tally EXCEPT !.paid = @ + 1]
            /\ UNCHANGED client
       ELSE /\ Return(t)
            /\ tally' = [tally EXCEPT !.admitted = @ + 1]
            /\ UNCHANGED taken

\* Mutant of Grant: the count is written back whatever it is by now.
GrantAnyway(t) ==
  /\ AtBucket(t, "swap")
  /\ TakeToken(t)
  /\ UNCHANGED <<clock, refilled, table, lock, stamp, expired, faults, refills>>

\* The compare-and-swap succeeds only while the count is what was read.
Grant(t) ==
  /\ AtBucket(t, "swap")
  /\ limit[ref[t]] = old[t]
  /\ TakeToken(t)
  /\ UNCHANGED <<clock, refilled, table, lock, stamp, expired, faults, refills>>

\* It failed: the loop begins again.
Retry(t) ==
  /\ AtBucket(t, "swap")
  /\ limit[ref[t]] # old[t]
  /\ old' = [old EXCEPT ![t] = 0]
  /\ Goto(t, "take")
  /\ UNCHANGED <<clock, shared, client, ref, stamp, expired, faults, history>>

\* Mutant of Refuse: the answer of the global bucket is not looked at.
RefuseGoesOn(t) ==
  /\ AtBucket(t, "take")
  /\ limit[ref[t]] = 0
  /\ IF ref[t] = Global
       THEN Goto(t, "find") /\ ref' = [ref EXCEPT ![t] = NoBucket] /\ UNCHANGED <<client, tally>>
       ELSE Return(t) /\ tally' = [tally EXCEPT !.refused = @ + 1]
  /\ UNCHANGED <<clock, shared, stamp, old, expired, faults, spent, taken, refills>>

\* No token: the request is refused.
Refuse(t) ==
  /\ AtBucket(t, "take")
  /\ limit[ref[t]] = 0
  /\ tally' = IF ref[t] = Global THEN tally ELSE [tally EXCEPT !.refused = @ + 1]
  /\ Return(t)
  /\ UNCHANGED <<clock, shared, stamp, old, expired, faults, spent, taken, refills>>

----------------------------------------------------------------------------
\* A writer is inside the table.  Readers do not take lock_: what they see then
\* is undefined.
Writing == \E u \in Threads : pc[u] \in {"erase", "fill"}

\* The first contains(client), without lock_.
Find(t) ==
  /\ pc[t] = "find"
  /\ \/ /\ Goto(t, IF client[t] \in table THEN "use" ELSE "insert")
        /\ UNCHANGED misread
     \/ /\ Writing
        /\ Goto(t, IF client[t] \in table THEN "insert" ELSE "use")
        /\ misread' = misread \cup {t}
  /\ UNCHANGED <<clock, shared, client, ref, stamp, old, expired, dangling, crashed, history>>

\* Mutant of Insert: the entry is made and nothing is put in it.
InsertEmpty(t) ==
  /\ pc[t] = "insert"
  /\ lock = NoThread
  /\ Goto(t, "use")
  /\ UNCHANGED <<clock, shared, client, ref, stamp, old, expired, faults, history>>

\* Under lock_ the test is repeated before the entry is made.
Insert(t) ==
  /\ pc[t] = "insert"
  /\ lock = NoThread
  /\ misread' = misread \ {t}
  /\ IF client[t] \in table
       THEN Goto(t, "use") /\ UNCHANGED lock
       ELSE Goto(t, "fill") /\ lock' = t
  /\ UNCHANGED <<clock, limit, refilled, table, client, ref, stamp, old, expired,
                 dangling, crashed, history>>

Fill(t) ==
  LET c == client[t] IN
  /\ pc[t] = "fill"
  /\ table' = table \cup {c}
  /\ limit' = [limit EXCEPT ![c] = Limit[c]]
  /\ refilled' = [refilled EXCEPT ![c] = clock]
  /\ spent' = [spent EXCEPT ![c] = 0]
  /\ lock' = NoThread
  /\ Goto(t, "use")
  /\ UNCHANGED <<clock, client, ref, stamp, old, expired, faults, taken, refills, tally>>

\* *(per_client_limiter_[client]), without lock_: the entry is there, whatever the
\* look at the table said.
Use(t) ==
  /\ pc[t] = "use"
  /\ client[t] \in table
  /\ CallPermit(t, client[t])
  /\ misread' = misread \ {t}
  /\ UNCHANGED <<clock, shared, client, stamp, old, expired, dangling, crashed, history>>

\* When the entry is gone, or cannot be seen, operator[] makes one that holds a
\* null pointer; and a bucket may be freed while a thread has a reference to it.
UseFreed(t) ==
  /\ \/ pc[t] = "use" /\ (client[t] \notin table \/ Writing)
     \/ t \in dangling
  /\ crashed' = t
  /\ UNCHANGED <<clock, shared, local, dangling, misread, history>>

----------------------------------------------------------------------------
Step(t) ==
  \/ Collect(t) \/ Erase(t)
  \/ Test(t) \/ Refill(t) \/ Stamp(t) \/ Store(t) \/ Load(t) \/ Grant(t) \/ Retry(t) \/ Refuse(t)
  \/ Find(t) \/ Insert(t) \/ Fill(t) \/ Use(t) \/ UseFreed(t)

\* A second passes; threads may be preempted anywhere for that long.
Tick ==
  /\ clock < MaxClock
  /\ clock' = clock + 1
  /\ taken' = 0 /\ refills' = 0
  /\ UNCHANGED <<shared, local, faults, spent, tally>>

Next ==
  /\ crashed = NoThread
  /\ \/ Tick
     \/ \E t \in Threads : Step(t) \/ \E c \in Clients : Permit(t, c)

Spec == Init /\ [][Next]_vars

----------------------------------------------------------------------------
(***************************************************************************)
(* Properties.                                                             *)
(***************************************************************************)

\* rate_limit.hpp:62-78: tokens are neither lost nor made: what is left and
\* what was taken since the last refill add up to the limit, and no more than the
\* limit was taken, however reads and swaps of refills and requests of several
\* threads interleave.  (For a client's bucket, while it is in the table.)
Conservation ==
  \A b \in table \cup {Global} : limit[b] + spent[b] = Limit[b] /\ spent[b] <= Limit[b]

\* rate_limit.hpp:86-99: a request is admitted only if it has taken a token of
\* the global bucket and one of its client's; a refusal by the client's bucket
\* does not give the global token back.
InFlight == {t \in Threads : pc[t] \in {"find", "insert", "fill", "use"} \/ ref[t] \in Clients}
EveryRequestPays == tally.paid = tally.admitted + tally.refused + Cardinality(InFlight)

\* rate_limit.hpp:60-69: threads that all saw the old last_refill_time refill
\* one after the other, and a thread that stores its time late makes the bucket
\* look old again to every thread that is free by then: one, then two, ... then
\* all of them.  More refills than that do not fit in one second.
RefillsBounded == 2 * refills <= Cardinality(Threads) * (Cardinality(Threads) + 1)

\* rate_limit.hpp:93-99: the table is read without lock_.  Until the first
\* clean-up can drop a bucket, the only request that dies of this is one that
\* uses the table while another thread writes it, or whose look at the table fell
\* into a write of another thread, came out wrong, and is wrong still.  Without a
\* writer no request dies, whoever else is in flight.
CrashOnlyIf ==
  crashed # NoThread /\ clock < Hour =>
    /\ pc[crashed] = "use"
    /\ Writing \/ (crashed \in misread /\ client[crashed] \notin table)

\* config.hpp:62 names the limit "per second", rate_limit.hpp:11 refers to the
\* token bucket: in one second at most the bucket's content and one second's
\* supply are handed out.
TokenBucketRate == taken <= 2 * Limit[Global]
=============================================================================
