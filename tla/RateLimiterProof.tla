-------------------------- MODULE RateLimiterProof --------------------------
(***************************************************************************)
(* What the rate limiter guarantees for any number of threads and clients  *)
(* and any limits.  The accounts (Conservation, EveryRequestPays) need to  *)
(* know which bucket a thread is at, and that it knows its client: RInv.   *)
(***************************************************************************)
EXTENDS RateLimiter, FiniteSetTheorems, TLAPS

\* A thread has the reference of a bucket exactly while it is inside the
\* static permit().
RefHeld == \A t \in Threads : IF pc[t] \in BucketPoints THEN ref[t] \in Buckets
                                                        ELSE ref[t] = NoBucket

\* Inside permit(client) the client is known.
ClientKnown == \A t \in Threads : pc[t] # "idle" => client[t] \in Clients

\* Conservation, for the buckets outside the table as well.
AllConserved == \A b \in Buckets : limit[b] + spent[b] = Limit[b]

\* Who is about to swap has read a count to take from.
HasRead == \A t \in Threads : pc[t] = "swap" => old[t] > 0

RInv == TypeOK /\ RefHeld /\ ClientKnown /\ AllConserved /\ HasRead

----------------------------------------------------------------------------
\* The constructor (rate_limit.hpp:34-40) establishes RInv.
THEOREM InitRInv == Init => RInv
<1> SUFFICES ASSUME Init PROVE RInv
  OBVIOUS
<1>1. TypeOK
  <2>1. tally \in [begun : Nat, paid : Nat, admitted : Nat, refused : Nat]
    BY DEF Init
  <2>2. \A b \in Buckets : refilled[b] \in Nat /\ spent[b] \in Nat
    BY DEF Init
  <2> QED
    BY <2>1, <2>2, LimitAssumption DEF Init, TypeOK, Points
<1>2. RefHeld /\ ClientKnown /\ HasRead
  BY DEF Init, RefHeld, ClientKnown, HasRead, BucketPoints
<1>3. AllConserved
  BY LimitAssumption DEF Init, AllConserved
<1> QED
  BY <1>1, <1>2, <1>3 DEF RInv

\* Every access of permit() and try_cleanup() to shared state
\* (rate_limit.hpp:59-121) preserves it.
THEOREM StepRInv == RInv /\ [Next]_vars => RInv'
<1> SUFFICES ASSUME RInv, [Next]_vars PROVE RInv'
  OBVIOUS
<1> USE DEF faults, RInv, TypeOK, RefHeld, ClientKnown, AllConserved, HasRead, Points, BucketPoints
<1> USE NamesAssumption, LimitAssumption
<1>1. CASE UNCHANGED vars
  BY <1>1 DEF vars, shared, local, faults, history
<1>2. CASE Tick
  BY <1>2 DEF Tick, shared, local
<1>3. ASSUME NEW t \in Threads, NEW c \in Clients, Permit(t, c) PROVE RInv'
  BY <1>3 DEF Permit, CallPermit, Goto, shared, Buckets
<1>4. ASSUME NEW t \in Threads, Step(t) PROVE RInv'
  <2>1. CASE Collect(t)
    BY <2>1 DEF Collect, Goto, history
  <2>2. CASE Erase(t)
    BY <2>2 DEF Erase, CallPermit, Goto, history, Buckets
  <2>3. CASE Test(t)
    BY <2>3 DEF Test, AtBucket, Goto, shared, history
  <2>4. CASE Refill(t)
    BY <2>4 DEF Refill, AtBucket, Goto
  <2>5. CASE Stamp(t)
    BY <2>5 DEF Stamp, AtBucket, Goto, shared, history
  <2>6. CASE Store(t)
    BY <2>6 DEF Store, AtBucket, Goto, history
  <2>7. CASE Grant(t)
    <3> DEFINE b == ref[t]
    <3>1. /\ pc[t] = "swap" /\ limit[b] = old[t] /\ old[t] > 0 /\ b \in Buckets
          /\ limit[b] \in Nat /\ spent[b] \in Nat
      BY <2>7 DEF Grant, AtBucket
    <3>2. limit' = [limit EXCEPT ![b] = limit[b] - 1] /\ spent' = [spent EXCEPT ![b] = @ + 1]
      BY <2>7, <3>1 DEF Grant, TakeToken
    <3>3. limit' \in [Buckets -> Nat] /\ spent' \in [Buckets -> Nat] /\ AllConserved'
      <4>1. PICK n \in Nat, m \in Nat : n = limit[b] /\ m = spent[b] /\ n > 0 /\ n + m = Limit[b]
        BY <3>1
      <4>2. limit' = [limit EXCEPT ![b] = n - 1] /\ spent' = [spent EXCEPT ![b] = m + 1]
        BY <3>2, <4>1
      <4>3. n - 1 \in Nat /\ m + 1 \in Nat /\ (n - 1) + (m + 1) = Limit[b]
        BY <4>1
      <4> HIDE DEF b
      <4>4. limit' \in [Buckets -> Nat] /\ spent' \in [Buckets -> Nat]
        BY <4>2, <4>3
      <4> QED BY <3>1, <4>2, <4>3, <4>4
    <3> HIDE DEF AllConserved
    <3>4. TypeOK' /\ RefHeld' /\ ClientKnown' /\ HasRead'
      <4>1. CASE b = Global
        BY <2>7, <3>1, <3>3, <4>1 DEF Grant, TakeToken, Goto
      <4>2. CASE b # Global
        BY <2>7, <3>1, <3>3, <4>2 DEF Grant, TakeToken, Goto, Return
      <4> QED BY <4>1, <4>2
    <3> QED BY <3>3, <3>4
  <2>8. CASE Refuse(t)
    BY <2>8 DEF Refuse, AtBucket, Goto, Return, shared
  <2>14. CASE Load(t)
    BY <2>14 DEF Load, AtBucket, Goto, shared, history
  <2>15. CASE Retry(t)
    BY <2>15 DEF Retry, AtBucket, Goto, shared, history
  <2>9. CASE Find(t)
    BY <2>9 DEF Find, Goto, shared, history
  <2>10. CASE Insert(t)
    BY <2>10 DEF Insert, Goto, history
  <2>11. CASE Fill(t)
    BY <2>11 DEF Fill, Goto, Buckets
  <2>12. CASE Use(t)
    BY <2>12 DEF Use, CallPermit, Goto, shared, history, Buckets
  <2>13. CASE UseFreed(t)
    BY <2>13 DEF UseFreed, shared, local, history
  <2> QED
    BY <1>4, <2>1, <2>2, <2>3, <2>4, <2>5, <2>6, <2>7, <2>8, <2>9, <2>10, <2>11, <2>12, <2>13,
       <2>14, <2>15
       DEF Step
<1> QED
  BY <1>1, <1>2, <1>3, <1>4 DEF Next

\* Type correctness, and no token lost or made (rate_limit.hpp:62-78), for
\* every number of threads and clients and all limits.
THEOREM LimiterConserves == Spec => [](TypeOK /\ Conservation)
<1>1. RInv => TypeOK /\ Conservation
  BY DEF RInv, TypeOK, AllConserved, Conservation, Buckets
<1> QED
  BY <1>1, InitRInv, StepRInv, PTL DEF Spec

----------------------------------------------------------------------------
\* The account of EveryRequestPays, without what is in flight.
Settled == tally.admitted + tally.refused

\* Only these three things happen to it (rate_limit.hpp:86-99): a request that
\* pays the global bucket enters the flight, one that gets the client's answer
\* leaves it, and every other step leaves the account alone.
Enters(t) ==
  /\ t \notin InFlight /\ InFlight' = InFlight \cup {t}
  /\ tally.paid' = tally.paid + 1 /\ Settled' = Settled
Leaves(t) ==
  /\ t \in InFlight /\ InFlight' = InFlight \ {t}
  /\ tally.paid' = tally.paid /\ Settled' = Settled + 1
Stays == InFlight' = InFlight /\ tally.paid' = tally.paid /\ Settled' = Settled

LEMMA AccountMoves ==
  ASSUME RInv, Next
  PROVE Stays \/ \E t \in Threads : Enters(t) \/ Leaves(t)
<1> USE DEF faults, RInv, TypeOK, RefHeld, ClientKnown, BucketPoints
<1> USE NamesAssumption DEF InFlight, Settled, Goto, Return, CallPermit, Buckets
<1>2. CASE Tick
  BY <1>2 DEF Tick, Stays, local
<1>3. ASSUME NEW t \in Threads, NEW c \in Clients, Permit(t, c) PROVE Stays
  BY <1>3 DEF Permit, Stays
<1>4. ASSUME NEW t \in Threads, Step(t) PROVE Stays \/ Enters(t) \/ Leaves(t)
  <2>1. CASE Collect(t)
    BY <2>1 DEF Collect, Stays, history
  <2>2. CASE Erase(t)
    BY <2>2 DEF Erase, Stays, history
  <2>3. CASE Test(t)
    BY <2>3 DEF Test, AtBucket, Stays, history
  <2>4. CASE Refill(t)
    BY <2>4 DEF Refill, AtBucket, Stays
  <2>5. CASE Stamp(t)
    BY <2>5 DEF Stamp, AtBucket, Stays, history
  <2>6. CASE Store(t)
    BY <2>6 DEF Store, AtBucket, Stays, history
  <2>7. CASE Grant(t)
    <3>1. CASE ref[t] = Global
      BY <2>7, <3>1 DEF Grant, TakeToken, AtBucket, Enters
    <3>2. CASE ref[t] # Global
      BY <2>7, <3>2 DEF Grant, TakeToken, AtBucket, Leaves
    <3> QED
      BY <3>1, <3>2
  <2>8. CASE Refuse(t)
    <3>1. CASE ref[t] = Global
      BY <2>8, <3>1 DEF Refuse, AtBucket, Stays
    <3>2. CASE ref[t] # Global
      BY <2>8, <3>2 DEF Refuse, AtBucket, Leaves
    <3> QED
      BY <3>1, <3>2
  <2>14. CASE Load(t)
    BY <2>14 DEF Load, AtBucket, Stays, history
  <2>15. CASE Retry(t)
    BY <2>15 DEF Retry, AtBucket, Stays, history
  <2>9. CASE Find(t)
    BY <2>9 DEF Find, Stays, history
  <2>10. CASE Insert(t)
    BY <2>10 DEF Insert, Stays, history
  <2>11. CASE Fill(t)
    BY <2>11 DEF Fill, Stays
  <2>12. CASE Use(t)
    BY <2>12 DEF Use, Stays, history
  <2>13. CASE UseFreed(t)
    BY <2>13 DEF UseFreed, Stays, local, history
  <2> QED
    BY <1>4, <2>1, <2>2, <2>3, <2>4, <2>5, <2>6, <2>7, <2>8, <2>9, <2>10, <2>11, <2>12, <2>13,
       <2>14, <2>15
       DEF Step
<1> QED
  BY <1>2, <1>3, <1>4 DEF Next

\* A request is admitted only if it has paid both buckets, for any number of
\* threads and clients (rate_limit.hpp:86-99).
THEOREM LimiterPays == Spec => []EveryRequestPays
<1> DEFINE Inv == RInv /\ EveryRequestPays
<1>1. Init => EveryRequestPays
  <2> SUFFICES ASSUME Init PROVE EveryRequestPays
    OBVIOUS
  <2>1. InFlight = {}
    BY NamesAssumption DEF Init, InFlight, Buckets
  <2> QED
    BY <2>1, FS_EmptySet DEF Init, EveryRequestPays
<1>2. Inv /\ [Next]_vars => EveryRequestPays'
  <2> SUFFICES ASSUME Inv, [Next]_vars PROVE EveryRequestPays'
    OBVIOUS
  <2>1. IsFiniteSet(InFlight)
    <3>1. InFlight \subseteq Threads
      BY DEF InFlight
    <3> QED
      BY <3>1, ThreadsAssumption, FS_Subset
  <2>2. Cardinality(InFlight) \in Nat
    BY <2>1, FS_CardinalityType
  <2>3. tally.paid \in Nat /\ tally.admitted \in Nat /\ tally.refused \in Nat
    BY DEF RInv, TypeOK
  <2>4. CASE UNCHANGED vars
    BY <2>4 DEF vars, history, local, EveryRequestPays, InFlight
  <2>5. CASE Stays
    BY <2>5 DEF Stays, Settled, EveryRequestPays
  <2>6. ASSUME NEW t \in Threads, Enters(t) PROVE EveryRequestPays'
    <3>1. Cardinality(InFlight') = Cardinality(InFlight) + 1
      BY <2>6, <2>1, FS_AddElement DEF Enters
    <3> QED
      BY <2>6, <3>1, <2>2, <2>3 DEF Enters, Settled, EveryRequestPays
  <2>7. ASSUME NEW t \in Threads, Leaves(t) PROVE EveryRequestPays'
    <3>1. Cardinality(InFlight') = Cardinality(InFlight) - 1
      BY <2>7, <2>1, FS_RemoveElement DEF Leaves
    <3>2. (tally.admitted + tally.refused)' = tally.admitted + tally.refused + 1
      BY <2>7 DEF Leaves, Settled
    <3> QED
      BY <2>7, <3>1, <3>2, <2>2, <2>3 DEF Leaves, EveryRequestPays
  <2> QED
    BY <2>4, <2>5, <2>6, <2>7, AccountMoves
<1>3. Inv => EveryRequestPays
  OBVIOUS
<1> QED
  BY <1>1, <1>2, <1>3, InitRInv, StepRInv, PTL DEF Spec
----------------------------------------------------------------------------
(* Before the first clean-up no bucket is freed, and a thread about to use an
   entry that is not there has misread the table.                            *)
Early ==
  clock < Hour =>
    /\ dangling = {}
    /\ \A t \in Threads : /\ pc[t] \notin {"lock_cleanup", "erase"}
                          /\ pc[t] = "use" /\ client[t] \notin table => t \in misread

\* The unlocked reads of rate_limit.hpp:93-99 keep it, and so does the rest.
LEMMA StepEarly == RInv /\ Early /\ [Next]_vars => Early'
<1> SUFFICES ASSUME RInv, Early, [Next]_vars, clock' < Hour PROVE Early'
  BY DEF Early
<1> USE TimesAssumption DEF faults, RInv, TypeOK, Early, Writing
<1>1. CASE UNCHANGED vars
  BY <1>1 DEF vars, shared, local, faults, history
<1>2. CASE Tick
  BY <1>2 DEF Tick, shared, local
<1>3. ASSUME NEW t \in Threads, NEW c \in Clients, Permit(t, c) PROVE Early'
  BY <1>3 DEF Permit, CallPermit, Goto, shared
<1>4. ASSUME NEW t \in Threads, Step(t) PROVE Early'
  <2>1. CASE Collect(t)
    BY <2>1 DEF Collect, Goto, history
  <2>2. CASE Erase(t)
    BY <2>2 DEF Erase, Goto, CallPermit, history
  <2>3. CASE Test(t)
    BY <2>3 DEF Test, AtBucket, Goto, shared, history
  <2>4. CASE Refill(t)
    BY <2>4 DEF Refill, AtBucket, Goto
  <2>5. CASE Stamp(t)
    BY <2>5 DEF Stamp, AtBucket, Goto, shared, history
  <2>6. CASE Store(t)
    BY <2>6 DEF Store, AtBucket, Goto, history
  <2>7. CASE Grant(t)
    BY <2>7 DEF Grant, TakeToken, AtBucket, Goto, Return
  <2>8. CASE Refuse(t)
    BY <2>8 DEF Refuse, AtBucket, Goto, Return, shared
  <2>14. CASE Load(t)
    BY <2>14 DEF Load, AtBucket, Goto, shared, history
  <2>15. CASE Retry(t)
    BY <2>15 DEF Retry, AtBucket, Goto, shared, history
  <2>9. CASE Find(t)
    BY <2>9 DEF Find, Goto, shared, history
  <2>10. CASE Insert(t)
    BY <2>10 DEF Insert, Goto, history
  <2>11. CASE Fill(t)
    BY <2>11 DEF Fill, Goto
  <2>12. CASE Use(t)
    BY <2>12 DEF Use, CallPermit, Goto, shared, history
  <2>13. CASE UseFreed(t)
    BY <2>13 DEF UseFreed, shared, local, history
  <2> QED
    BY <1>4, <2>1, <2>2, <2>3, <2>4, <2>5, <2>6, <2>7, <2>8, <2>9, <2>10, <2>11, <2>12, <2>13,
       <2>14, <2>15
       DEF Step
<1> QED
  BY <1>1, <1>2, <1>3, <1>4 DEF Next

\* rate_limit.hpp:93-99: until a clean-up can drop buckets, a request dies only
\* while another thread writes the table, or of a look at the table that fell into
\* such a write and came out wrong; for every number of threads and clients.
THEOREM LimiterCrashOnlyIf == Spec => []CrashOnlyIf
<1> DEFINE Inv == RInv /\ Early /\ CrashOnlyIf
<1>1. Init => Early /\ CrashOnlyIf
  BY DEF Init, Early, CrashOnlyIf
<1>2. Inv /\ [Next]_vars => CrashOnlyIf'
  <2> SUFFICES ASSUME Inv, [Next]_vars, crashed' # NoThread, clock' < Hour PROVE CrashOnlyIf'
    BY DEF CrashOnlyIf
  <2>1. CASE UNCHANGED vars
    BY <2>1 DEF vars, shared, local, faults, history, CrashOnlyIf, Writing
  <2>2. CASE Next
    <3>1. PICK t \in Threads : UseFreed(t)
      BY <2>2 DEF Next, Tick, Permit, Step, Collect, Erase, Test, Refill, Stamp, Store, Load,
         Grant, Retry, Refuse, Find, Insert, Fill, Use, faults
    <3>2. /\ crashed' = t /\ UNCHANGED <<clock, table, pc, client, misread>>
          /\ (pc[t] = "use" /\ (client[t] \notin table \/ Writing)) \/ t \in dangling
      BY <3>1 DEF UseFreed, shared, local
    <3>3. pc[t] = "use" /\ (Writing \/ (t \in misread /\ client[t] \notin table))
      BY <3>2 DEF Early
    <3>4. Writing' = Writing
      BY <3>2 DEF Writing
    <3> QED
      BY <3>2, <3>3, <3>4 DEF CrashOnlyIf
  <2> QED
    BY <2>1, <2>2
<1> QED
  BY <1>1, <1>2, InitRInv, StepRInv, StepEarly, PTL DEF Spec
----------------------------------------------------------------------------
(* How many refills fit in one second.  A thread that has read the clock in an
   earlier second and has not stored it yet is Behind: its store makes the global
   bucket look old.  While the bucket looks old every other thread may refill it
   once, and then stores the present time; while it does not, only threads that
   saw it old before will.  Each store by a thread that is Behind starts this
   again, with one thread more.                                                 *)
AtGlobal(t, point) == pc[t] = point /\ ref[t] = Global
Behind == {t \in Threads : AtGlobal(t, "store") /\ stamp[t] < clock}
Stamping == {t \in Threads : AtGlobal(t, "stamp") \/ (AtGlobal(t, "store") /\ stamp[t] = clock)}
Due == {t \in Threads : AtGlobal(t, "refill")}
LooksOld == clock - refilled[Global] >= 1
MayRefill == IF LooksOld THEN Threads \ (Behind \cup Stamping) ELSE Due

\* Nobody has a time of the future.
PastTimes == (\A b \in Buckets : refilled[b] <= clock) /\ (\A t \in Threads : stamp[t] <= clock)

\* The refills so far, those that may come before the next late store, and those
\* that each late store may bring.
Supply(n, k) == k * (2 * n - k + 1)
Budget(n) == n * (n + 1)
RefillBudget ==
  LET n == Cardinality(Threads) IN
  2 * refills + 2 * Cardinality(MayRefill) + Supply(n, Cardinality(Behind)) <= Budget(n)

LEMMA StepPastTimes == RInv /\ PastTimes /\ [Next]_vars => PastTimes'
<1> SUFFICES ASSUME RInv, PastTimes, [Next]_vars PROVE PastTimes'
  OBVIOUS
<1> USE DEF faults, RInv, TypeOK, RefHeld, ClientKnown, BucketPoints, PastTimes
<1>1. CASE UNCHANGED vars
  BY <1>1 DEF vars, shared, local, faults, history
<1>2. CASE Tick
  BY <1>2 DEF Tick, shared, local
<1>3. ASSUME NEW t \in Threads, NEW c \in Clients, Permit(t, c) PROVE PastTimes'
  BY <1>3 DEF Permit, shared
<1>4. ASSUME NEW t \in Threads, Step(t) PROVE PastTimes'
  <2>1. CASE Stamp(t)
    BY <2>1 DEF Stamp, shared
  <2>2. CASE Store(t)
    BY <2>2 DEF Store, AtBucket
  <2>3. CASE Fill(t)
    BY <2>3 DEF Fill
  <2>4. CASE ~ (Stamp(t) \/ Store(t) \/ Fill(t))
    <3>1. UNCHANGED <<clock, refilled, stamp>>
      BY <1>4, <2>4 DEF Step, Collect, Erase, Test, Refill, Load, Grant, TakeToken, Retry, Refuse, Find, Insert, Use, UseFreed,
         shared, local
    <3> QED BY <3>1
  <2> QED BY <2>1, <2>2, <2>3, <2>4
<1> QED BY <1>1, <1>2, <1>3, <1>4 DEF Next

\* What a step does to the budget.
Idles == refills' = refills /\ Behind' = Behind /\ MayRefill' \subseteq MayRefill
Refills(t) == refills' = refills + 1 /\ Behind' = Behind /\ t \in MayRefill /\ MayRefill' \subseteq MayRefill \ {t}
StoresLate(t) == refills' = refills /\ t \in Behind /\ Behind' = Behind \ {t}

LEMMA BudgetMoves ==
  ASSUME RInv, PastTimes, Next
  PROVE  Tick \/ Idles \/ \E t \in Threads : Refills(t) \/ StoresLate(t)
<1> USE NamesAssumption
<1> DEFINE Same == /\ UNCHANGED <<clock, refills>> /\ refilled'[Global] = refilled[Global]
                   /\ \A t \in Threads : \A point \in {"stamp", "store", "refill"} :
                        /\ AtGlobal(t, point)' <=> AtGlobal(t, point)
                        /\ AtGlobal(t, "store") => stamp'[t] = stamp[t]
<1>1. Same => Idles
  BY DEF Idles, Behind, Stamping, Due, LooksOld, MayRefill
<1>2. /\ pc \in [Threads -> Points] /\ ref \in [Threads -> Buckets \cup {NoBucket}]
      /\ stamp \in [Threads -> Nat] /\ refilled \in [Buckets -> Nat] /\ clock \in Nat /\ Global \in Buckets
  BY DEF RInv, TypeOK, Buckets
<1>3. ASSUME NEW t \in Threads, NEW c \in Clients, Permit(t, c) PROVE Idles
  <2>1. Same
    BY <1>2, <1>3 DEF Permit, CallPermit, Goto, shared, AtGlobal
  <2> QED BY <1>1, <2>1
<1>4. ASSUME NEW t \in Threads, Collect(t) \/ Erase(t) \/ Grant(t) \/ Refuse(t) \/ Find(t) \/ Insert(t) \/ Use(t)
                               \/ UseFreed(t) \/ Load(t) \/ Retry(t)
      PROVE  Idles
  <2>1. CASE Collect(t) \/ Erase(t) \/ Find(t) \/ Insert(t) \/ Use(t)
    <3>1. Same
      BY <1>2, <2>1 DEF Collect, Erase, Find, Insert, Use, CallPermit, Goto, shared, history, AtGlobal
    <3> QED BY <1>1, <3>1
  <2>2. CASE Grant(t) \/ Refuse(t) \/ Load(t) \/ Retry(t)
    <3>1. Same
      BY <1>2, <2>2 DEF Grant, TakeToken, Refuse, Load, Retry, AtBucket, Return, Goto, shared, history, AtGlobal
    <3> QED BY <1>1, <3>1
  <2>3. CASE UseFreed(t)
    <3>1. Same
      BY <2>3 DEF UseFreed, shared, local, history, AtGlobal
    <3> QED BY <1>1, <3>1
  <2> QED BY <1>4, <2>1, <2>2, <2>3
<1>5. ASSUME NEW t \in Threads, Fill(t) PROVE Idles
  <2>1. client[t] \in Clients /\ client[t] # Global
    BY <1>5 DEF Fill, RInv, ClientKnown
  <2>2. Same
    BY <1>2, <1>5, <2>1 DEF Fill, Goto, AtGlobal
  <2> QED BY <1>1, <2>2
<1>6. ASSUME NEW t \in Threads, AtBucket(t, "test") \/ AtBucket(t, "refill") \/ AtBucket(t, "stamp") \/ AtBucket(t, "store"),
             ref[t] # Global, Test(t) \/ Refill(t) \/ Stamp(t) \/ Store(t)
      PROVE  Idles
  <2>1. Same
    BY <1>2, <1>6 DEF Test, Refill, Stamp, Store, AtBucket, Goto, shared, history, AtGlobal
  <2> QED BY <1>1, <2>1
<1>7. ASSUME NEW t \in Threads, Test(t), ref[t] = Global PROVE Idles
  <2>1. /\ UNCHANGED <<clock, refills, refilled, ref, stamp>> /\ pc[t] = "test"
        /\ pc' = [pc EXCEPT ![t] = IF LooksOld THEN "refill" ELSE "take"]
    BY <1>7 DEF Test, AtBucket, Goto, shared, history, LooksOld
  <2>2. Behind' = Behind /\ Stamping' = Stamping /\ (LooksOld' <=> LooksOld)
    BY <1>2, <2>1 DEF Behind, Stamping, AtGlobal, LooksOld
  <2>3. ~ LooksOld => Due' = Due
    BY <1>2, <2>1 DEF Due, AtGlobal
  <2> QED BY <2>1, <2>2, <2>3 DEF Idles, MayRefill
<1>8. ASSUME NEW t \in Threads, Refill(t), ref[t] = Global PROVE Refills(t)
  <2>1. /\ UNCHANGED <<clock, refilled, ref, stamp>> /\ pc[t] = "refill" /\ refills' = refills + 1
        /\ pc' = [pc EXCEPT ![t] = "stamp"]
    BY <1>8 DEF Refill, AtBucket, Goto
  <2>2. Behind' = Behind /\ t \notin Behind /\ t \notin Stamping /\ Stamping' = Stamping \cup {t} /\ (LooksOld' <=> LooksOld)
    BY <1>2, <1>8, <2>1 DEF Behind, Stamping, AtGlobal, LooksOld
  <2>3. t \in Due /\ Due' = Due \ {t}
    BY <1>2, <1>8, <2>1 DEF Due, AtGlobal
  <2> QED BY <2>1, <2>2, <2>3 DEF Refills, MayRefill
<1>9. ASSUME NEW t \in Threads, Stamp(t), ref[t] = Global PROVE Idles
  <2>1. /\ UNCHANGED <<clock, refilled, ref, refills>> /\ pc[t] = "stamp"
        /\ pc' = [pc EXCEPT ![t] = "store"] /\ stamp' = [stamp EXCEPT ![t] = clock]
    BY <1>9 DEF Stamp, AtBucket, Goto, shared, history
  <2>2. Behind' = Behind /\ Stamping' = Stamping /\ Due' = Due /\ (LooksOld' <=> LooksOld)
    BY <1>2, <1>9, <2>1 DEF Behind, Stamping, Due, AtGlobal, LooksOld
  <2> QED BY <2>1, <2>2 DEF Idles, MayRefill
<1>10. ASSUME NEW t \in Threads, Store(t), ref[t] = Global PROVE Idles \/ StoresLate(t)
  <2>1. /\ UNCHANGED <<clock, ref, stamp, refills>> /\ pc[t] = "store"
        /\ pc' = [pc EXCEPT ![t] = "take"] /\ refilled' = [refilled EXCEPT ![Global] = stamp[t]]
    BY <1>10 DEF Store, AtBucket, Goto, history
  <2>2. CASE stamp[t] < clock
    <3>1. t \in Behind /\ Behind' = Behind \ {t}
      BY <1>2, <1>10, <2>1, <2>2 DEF Behind, AtGlobal
    <3> QED BY <2>1, <3>1 DEF StoresLate
  <2>3. CASE stamp[t] = clock
    <3>1. Behind' = Behind /\ Due' = Due
      BY <1>2, <2>1, <2>3 DEF Behind, Due, AtGlobal
    <3>2. ~ LooksOld'
      BY <1>2, <2>1, <2>3 DEF LooksOld
    <3>3. Due \cap (Behind \cup Stamping) = {} /\ Due \subseteq Threads
      BY DEF Due, Behind, Stamping, AtGlobal
    <3> QED BY <2>1, <3>1, <3>2, <3>3 DEF Idles, MayRefill
  <2> QED BY <1>2, <2>2, <2>3 DEF PastTimes
<1> QED BY <1>3, <1>4, <1>5, <1>6, <1>7, <1>8, <1>9, <1>10 DEF Next, Step, Test, Refill, Stamp, Store

\* One late store less, and n - k + 1 threads more: the arithmetic of the budget.
LEMMA SupplyStep == \A n, k \in Nat : Supply(n, k + 1) = Supply(n, k) + 2 * (n - k)
BY DEF Supply
LEMMA SupplyTop == \A n, k \in Nat : k <= n => 2 * (n - k) + Supply(n, k) <= Budget(n)
<1> SUFFICES ASSUME NEW n \in Nat, NEW k \in Nat, k <= n PROVE 2 * (n - k) + Supply(n, k) <= Budget(n)
  OBVIOUS
<1>1. PICK d \in Nat : n = k + d
  <2>1. n - k \in Nat /\ n = k + (n - k)
    OBVIOUS
  <2> QED BY <2>1
<1>2. 2 * (n - k) + Supply(n, k) + d * (d - 1) = Budget(n)
  BY <1>1 DEF Supply, Budget
<1>3. d * (d - 1) \in Nat
  <2>1. CASE d = 0
    BY <2>1
  <2>2. CASE d # 0
    <3>1. d - 1 \in Nat
      BY <2>2
    <3> QED BY <3>1
  <2> QED BY <2>1, <2>2
<1>4. Supply(n, k) \in Int /\ Budget(n) \in Int
  BY DEF Supply, Budget
<1> QED BY <1>2, <1>3, <1>4

LEMMA StepBudget ==
  ASSUME RInv, PastTimes, RefillBudget, [Next]_vars
  PROVE  RefillBudget'
<1> DEFINE n == Cardinality(Threads)
           k == Cardinality(Behind)
           m == Cardinality(MayRefill)
<1>1. /\ Behind \subseteq Threads /\ MayRefill \subseteq Threads /\ Behind \cap MayRefill = {}
      /\ refills \in Nat /\ refills' \in Nat
  BY StepRInv DEF RInv, TypeOK, Behind, MayRefill, Due, AtGlobal
<1>2. Behind' \subseteq Threads /\ MayRefill' \subseteq Threads /\ Behind' \cap MayRefill' = {}
  BY DEF Behind, MayRefill, Due, AtGlobal
<1>3. \A S \in SUBSET Threads : IsFiniteSet(S) /\ Cardinality(S) \in Nat /\ Cardinality(S) <= n
  BY ThreadsAssumption, FS_Subset, FS_CardinalityType
<1>4. n \in Nat
  BY ThreadsAssumption, FS_CardinalityType
<1>5. \A S, T \in SUBSET Threads : S \cap T = {} => Cardinality(S) + Cardinality(T) <= n
  <2> SUFFICES ASSUME NEW S \in SUBSET Threads, NEW T \in SUBSET Threads, S \cap T = {}
               PROVE  Cardinality(S) + Cardinality(T) <= n
    OBVIOUS
  <2>1. IsFiniteSet(S) /\ IsFiniteSet(T) /\ Cardinality(S) \in Nat /\ Cardinality(T) \in Nat
    BY <1>3
  <2>2. Cardinality(S \cup T) = Cardinality(S) + Cardinality(T) - Cardinality(S \cap T)
    BY <2>1, FS_Union
  <2>3. Cardinality(S \cap T) = 0
    BY FS_EmptySet
  <2>4. Cardinality(S \cup T) <= n
    BY <1>3
  <2> QED BY <2>1, <2>2, <2>3, <2>4
<1>6. k \in Nat /\ m \in Nat /\ k <= n /\ k' \in Nat /\ m' \in Nat /\ k' + m' <= n /\ n' = n
  BY <1>1, <1>2, <1>3, <1>5
<1>7. 2 * refills + 2 * m + Supply(n, k) <= Budget(n)
  BY DEF RefillBudget
<1>8. Supply(n, k) \in Int /\ Supply(n, k') \in Int /\ Budget(n) \in Int
  BY <1>4, <1>6 DEF Supply, Budget
<1>9. SUFFICES 2 * refills' + 2 * m' + Supply(n, k') <= Budget(n)
  BY DEF RefillBudget
<1> HIDE DEF k, m, n
<1>10. CASE UNCHANGED vars \/ Idles
  <2>1. refills' = refills /\ k' = k /\ MayRefill' \subseteq MayRefill
    BY <1>10 DEF Idles, vars, shared, local, faults, history, k, Behind, MayRefill, Due, Stamping, AtGlobal, LooksOld
  <2>2. m' <= m
    BY <1>1, <1>3, <2>1, FS_Subset DEF m
  <2> QED BY <1>1, <1>6, <1>7, <1>8, <2>1, <2>2
<1>11. ASSUME NEW t \in Threads, Refills(t) PROVE 2 * refills' + 2 * m' + Supply(n, k') <= Budget(n)
  <2>1. refills' = refills + 1 /\ k' = k /\ t \in MayRefill /\ MayRefill' \subseteq MayRefill \ {t}
    BY <1>11 DEF Refills, k
  <2>2. Cardinality(MayRefill \ {t}) = m - 1
    BY <1>1, <1>3, <2>1, FS_RemoveElement DEF m
  <2>3. m' <= m - 1
    BY <1>1, <1>3, <2>1, <2>2, FS_Subset DEF m
  <2> QED BY <1>1, <1>6, <1>7, <1>8, <2>1, <2>3
<1>12. ASSUME NEW t \in Threads, StoresLate(t) PROVE 2 * refills' + 2 * m' + Supply(n, k') <= Budget(n)
  <2>1. refills' = refills /\ t \in Behind /\ Behind' = Behind \ {t}
    BY <1>12 DEF StoresLate
  <2>2. k = k' + 1
    BY <1>1, <1>3, <1>6, <2>1, FS_RemoveElement DEF k
  <2>3. PICK i \in Nat, j \in Nat : i = m' /\ j = k'
    BY <1>6
  <2>4. j + i <= n /\ k = j + 1 /\ Supply(n, j) \in Int
    BY <1>6, <1>8, <2>2, <2>3
  <2>5. Supply(n, k) = Supply(n, j) + 2 * (n - j)
    BY <1>4, <2>4, SupplyStep
  <2>6. 2 * refills + 2 * i + Supply(n, j) <= Budget(n)
    BY <1>1, <1>4, <1>6, <1>7, <1>8, <2>4, <2>5
  <2> QED BY <2>1, <2>3, <2>6, Zenon
<1>13. CASE Tick
  <2>1. refills' = 0
    BY <1>13 DEF Tick
  <2>2. PICK i \in Nat, j \in Nat : i = m' /\ j = k'
    BY <1>6
  <2>3. j + i <= n /\ Supply(n, j) \in Int
    BY <1>6, <1>8, <2>2
  <2>4. 2 * (n - j) + Supply(n, j) <= Budget(n)
    BY <1>4, <2>3, SupplyTop
  <2>5. 2 * 0 + 2 * i + Supply(n, j) <= Budget(n)
    BY <1>4, <1>8, <2>3, <2>4
  <2> QED BY <2>1, <2>2, <2>5, Zenon
<1> QED BY <1>10, <1>11, <1>12, <1>13, BudgetMoves

\* rate_limit.hpp:60-69: one, then two, ... then all of the threads refill the global
\* bucket, and more refills do not fit in a second; for any number of threads.
THEOREM LimiterRefillsBounded == Spec => []RefillsBounded
<1>1. Init => PastTimes /\ RefillBudget
  <2> SUFFICES ASSUME Init PROVE PastTimes /\ RefillBudget
    OBVIOUS
  <2>1. PastTimes
    BY DEF Init, PastTimes
  <2>2. Behind = {} /\ MayRefill = {} /\ refills = 0
    BY DEF Init, Behind, MayRefill, LooksOld, Due, AtGlobal, Buckets
  <2>3. Cardinality(Threads) \in Nat
    BY ThreadsAssumption, FS_CardinalityType
  <2>4. Cardinality(Behind) = 0 /\ Cardinality(MayRefill) = 0
    BY <2>2, FS_EmptySet
  <2> QED BY <2>1, <2>2, <2>3, <2>4 DEF RefillBudget, Supply, Budget
<1>2. RInv /\ PastTimes /\ RefillBudget /\ [Next]_vars => PastTimes' /\ RefillBudget'
  BY StepPastTimes, StepBudget
<1>3. RInv /\ RefillBudget => RefillsBounded
  <2> SUFFICES ASSUME RInv, RefillBudget PROVE RefillsBounded
    OBVIOUS
  <2> DEFINE n == Cardinality(Threads)
             k == Cardinality(Behind)
             m == Cardinality(MayRefill)
  <2>1. Behind \in SUBSET Threads /\ MayRefill \in SUBSET Threads /\ refills \in Nat
    BY DEF RInv, TypeOK, Behind, MayRefill, Due
  <2>2. n \in Nat /\ k \in Nat /\ m \in Nat /\ k <= n
    BY <2>1, ThreadsAssumption, FS_Subset, FS_CardinalityType
  <2>3. 2 * refills + 2 * m + Supply(n, k) <= Budget(n)
    BY DEF RefillBudget
  <2> HIDE DEF n, k, m
  <2>4. 2 * n - k + 1 \in Nat
    BY <2>2
  <2>5. Supply(n, k) \in Nat
    BY <2>2, <2>4 DEF Supply
  <2>6. Budget(n) \in Nat
    BY <2>2 DEF Budget
  <2>7. 2 * refills <= Budget(n)
    BY <2>1, <2>2, <2>3, <2>5, <2>6
  <2> QED BY <2>7 DEF RefillsBounded, n, Budget
<1> QED BY <1>1, <1>2, <1>3, InitRInv, StepRInv, PTL DEF Spec
=============================================================================
