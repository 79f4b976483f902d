-------------------------- MODULE SubscriptionProof --------------------------
(***************************************************************************)
(* What a registration can count on, for any number of requests, feeds and *)
(* entries.  All of it is about requests that were not hit: such a request *)
(* has the transaction it began for itself until it ends it (StorerOwns),  *)
(* so that the rows it sees and the rows that a rollback or a kill would   *)
(* leave are known (DbRows, SavedRows).                                    *)
(***************************************************************************)
EXTENDS Subscription, TLAPS

ItemsIn(t, r) == {m \in t.items : m.by = r}
Part(r) == [sub : {id[r]}, by : {r}, entry : 1 .. sent[r]]
HasSub(t, r) == id[r] \in DOMAIN t.subs /\ t.subs[id[r]] = UrlOf[r]

Storing(r) == pc[r] \in {"items", "rollback"}
Early(r) == pc[r] \in {"idle", "fetch", "insert", "id", "begin"}
Succeeded(r) == answer[r] = "success"
Calm == Requests \ hit

OwnerStores == Open => Storing(owner)
StorerOwns == \A r \in Calm : Storing(r) => owner = r
EarlySent == \A r \in Requests : Early(r) => sent[r] = 0
SuccessEnds == \A r \in Requests : Succeeded(r) => pc[r] = "done" /\ sent[r] = Entries
DbRows == \A r \in Calm : ItemsIn(db, r) = IF Storing(r) \/ Succeeded(r) THEN Part(r) ELSE {}
SavedRows == Open => \A r \in Calm : ItemsIn(saved, r) = IF Succeeded(r) THEN Part(r) ELSE {}
DbSub == \A r \in Calm : Storing(r) \/ pc[r] = "begin" \/ Succeeded(r) => HasSub(db, r)
SavedSub == Open => \A r \in Calm : Succeeded(r) => HasSub(saved, r)

SInv ==
  /\ TypeOK /\ OwnerStores /\ StorerOwns /\ EarlySent /\ SuccessEnds
  /\ DbRows /\ SavedRows /\ DbSub /\ SavedSub

----------------------------------------------------------------------------
(* The first state satisfies the invariant. *)
THEOREM InitSInv == Init => SInv
<1> SUFFICES ASSUME Init PROVE SInv
  OBVIOUS
<1>1. NoRows \in Tables
  BY DEF NoRows, Tables
<1>2. TypeOK
  BY <1>1, BoundsAssumption DEF Init, TypeOK
<1>3. OwnerStores /\ StorerOwns /\ EarlySent /\ SuccessEnds /\ SavedRows /\ DbSub /\ SavedSub
  BY BoundsAssumption DEF Init, OwnerStores, StorerOwns, EarlySent, SuccessEnds, SavedRows, DbSub, SavedSub,
     Open, Storing, Succeeded, Calm
<1>4. DbRows
  BY DEF Init, DbRows, ItemsIn, NoRows, Storing, Succeeded, Calm
<1> QED
  BY <1>2, <1>3, <1>4 DEF SInv

----------------------------------------------------------------------------
(* The types, action by action. *)
LEMMA StepType == TypeOK /\ [Next]_vars => TypeOK'
<1> SUFFICES ASSUME TypeOK, [Next]_vars PROVE TypeOK'
  OBVIOUS
<1> USE BoundsAssumption, UrlsAssumption
<1>1. CASE UNCHANGED vars
  BY <1>1 DEF vars, TypeOK
<1>2. CASE Kill
  <2>1. kills' \in 0 .. MaxKills
    BY <1>2 DEF Kill, TypeOK
  <2>2. db' \in Tables /\ owner' \in Requests \cup {Nobody}
    BY <1>2 DEF Kill, TypeOK, Durable
  <2> QED
    BY <1>2, <2>1, <2>2 DEF Kill, TypeOK
<1>3. ASSUME NEW r \in Requests, Register(r) PROVE TypeOK'
  <2>1. CASE Select(r) \/ Fetch(r) \/ InsertThrows(r) \/ SelectIdThrows(r) \/ BeginThrows(r)
             \/ InsertItemThrows(r) \/ CommitThrows(r)
    BY <2>1 DEF Select, Fetch, InsertThrows, SelectIdThrows, BeginThrows, InsertItemThrows,
       CommitThrows, Goto, Answer, Tx, TypeOK
  <2>2. CASE Insert(r)
    <3>1. UrlOf[r] \in Urls
      BY DEF Urls
    <3>2. db.subs \in Seq(Urls) /\ db.items \in SUBSET Item
      BY DEF TypeOK, Tables
    <3>3. Append(db.subs, UrlOf[r]) \in Seq(Urls)
      BY <3>1, <3>2
    <3>4. db' \in Tables
      BY <2>2, <3>2, <3>3 DEF Insert, TypeOK, Tables
    <3> QED
      BY <2>2, <3>4 DEF Insert, Goto, Tx, TypeOK
  <2>3. CASE SelectId(r)
    <3>1. PICK i \in Rows(UrlOf[r]) : id' = [id EXCEPT ![r] = i] /\ Goto(r, "id", "begin")
      BY <2>3 DEF SelectId
    <3>2. i \in Nat
      BY DEF Rows, TypeOK, Tables
    <3> QED
      BY <2>3, <3>1, <3>2 DEF SelectId, Goto, Tx, TypeOK
  <2>4. CASE Begin(r)
    BY <2>4 DEF Begin, Goto, TypeOK
  <2>5. CASE InsertItem(r)
    <3>1. sent[r] + 1 \in 1 .. Entries
      BY <2>5 DEF InsertItem, TypeOK
    <3>2. [sub |-> id[r], by |-> r, entry |-> sent[r] + 1] \in Item
      BY <3>1 DEF Item, TypeOK
    <3> DEFINE item == [sub |-> id[r], by |-> r, entry |-> sent[r] + 1]
    <3>a. db.subs \in Seq(Urls) /\ db.items \cup {item} \in SUBSET Item
      BY <3>2 DEF TypeOK, Tables
    <3>b. db' = [db EXCEPT !.items = @ \cup {item}]
      BY <2>5 DEF InsertItem
    <3> HIDE DEF item
    <3>3. db' \in Tables
      BY <3>a, <3>b DEF TypeOK, Tables
    <3>4. sent' \in [Requests -> 0 .. Entries]
      BY <2>5, <3>1 DEF InsertItem, TypeOK
    <3> QED
      BY <2>5, <3>3, <3>4 DEF InsertItem, Goto, Tx, TypeOK
  <2>6. CASE Commit(r)
    <3>1. hit' \in SUBSET Requests
      BY <2>6 DEF Commit, Open, TypeOK
    <3> QED
      BY <2>6, <3>1 DEF Commit, Answer, Goto, TypeOK
  <2>7. CASE Rollback(r) \/ Destroy(r)
    <3>1. db' \in Tables /\ saved' = saved /\ owner' \in Requests \cup {Nobody} /\ hit' \in SUBSET Requests
      BY <2>7 DEF Rollback, Destroy, Undo, InFlight, Tx, TypeOK
    <3> QED
      BY <2>7, <3>1 DEF Rollback, Destroy, Goto, TypeOK
  <2> QED
    BY <1>3, <2>1, <2>2, <2>3, <2>4, <2>5, <2>6, <2>7 DEF Register
<1> QED
  BY <1>1, <1>2, <1>3 DEF Next

----------------------------------------------------------------------------
(***************************************************************************)
(* The rest of the invariant, action by action.                            *)
(***************************************************************************)
\* A step that leaves the rows and the transaction alone.
LEMMA QuietStep ==
  ASSUME SInv, TypeOK', UNCHANGED <<db, saved, owner, sent, hit>>,
         \A s \in Requests : Storing(s)' <=> Storing(s),
         \A s \in Requests : Succeeded(s)' <=> Succeeded(s),
         \A s \in Requests : pc[s] = "done" => pc'[s] = "done",
         \A s \in Requests : Early(s)' => Early(s),
         \A s \in Requests : Storing(s) \/ Succeeded(s) \/ pc[s] = "begin" => id'[s] = id[s],
         \A s \in Requests : pc'[s] = "begin" => pc[s] = "begin" \/ HasSub(db, s)'
  PROVE  SInv'
<1>1. Calm' = Calm
  BY DEF Calm
<1>2. OwnerStores' /\ StorerOwns' /\ EarlySent' /\ SuccessEnds'
  BY <1>1 DEF SInv, TypeOK, OwnerStores, StorerOwns, EarlySent, SuccessEnds, Open, Calm
<1>3. ASSUME NEW r \in Calm, Storing(r) \/ Succeeded(r) PROVE Part(r)' = Part(r)
  BY <1>3 DEF Part, Calm
<1>4. DbRows'
  BY <1>1, <1>3 DEF SInv, DbRows, ItemsIn, Calm
<1>5. SavedRows'
  BY <1>1, <1>3 DEF SInv, SavedRows, ItemsIn, Calm, Open
<1>6. DbSub' /\ SavedSub'
  BY <1>1 DEF SInv, DbSub, SavedSub, HasSub, Calm, Open
<1> QED
  BY <1>2, <1>4, <1>5, <1>6 DEF SInv

\* A subscription at the end moves no other.
LEMMA InsertStep ==
  ASSUME SInv, TypeOK', NEW r \in Requests, Insert(r)
  PROVE  SInv'
<1>1. /\ UNCHANGED <<saved, owner, sent, hit, id, answer>> /\ Calm' = Calm
      /\ pc[r] = "insert" /\ pc' = [pc EXCEPT ![r] = "id"]
  BY DEF Insert, Goto, Tx, Calm
<1>2. \A s \in Requests :
        /\ (Storing(s)' <=> Storing(s)) /\ (Succeeded(s)' <=> Succeeded(s)) /\ (Early(s)' <=> Early(s))
        /\ (pc[s] = "done" => pc'[s] = "done") /\ (pc'[s] = "begin" => pc[s] = "begin")
        /\ Part(s)' = Part(s)
  BY <1>1 DEF SInv, TypeOK, Storing, Succeeded, Early, Part
<1>3. OwnerStores' /\ StorerOwns' /\ EarlySent' /\ SuccessEnds'
  BY <1>1, <1>2 DEF SInv, TypeOK, OwnerStores, StorerOwns, EarlySent, SuccessEnds, Open, Calm
<1>4. db'.items = db.items /\ db'.subs = Append(db.subs, UrlOf[r]) /\ db.subs \in Seq(Urls)
  BY DEF Insert, SInv, TypeOK, Tables
<1>5. \A i \in DOMAIN db.subs : i \in DOMAIN db'.subs /\ db'.subs[i] = db.subs[i]
  BY <1>4
<1>6. DbRows' /\ SavedRows'
  BY <1>1, <1>2, <1>4 DEF SInv, DbRows, SavedRows, ItemsIn, Calm, Open
<1>7. DbSub' /\ SavedSub'
  BY <1>1, <1>2, <1>5 DEF SInv, DbSub, SavedSub, HasSub, Calm, Open
<1> QED
  BY <1>3, <1>6, <1>7 DEF SInv

\* The transaction starts with the rows that the connection sees.
LEMMA BeginStep ==
  ASSUME SInv, TypeOK', NEW r \in Requests, Begin(r)
  PROVE  SInv'
<1> USE BoundsAssumption
<1>1. /\ UNCHANGED <<db, sent, hit, id, answer>> /\ Calm' = Calm
      /\ pc[r] = "begin" /\ pc' = [pc EXCEPT ![r] = "items"] /\ owner = Nobody /\ owner' = r /\ saved' = db
  BY DEF Begin, Goto, Calm, Open
<1>2. \A s \in Calm : ~Storing(s)
  BY <1>1 DEF SInv, StorerOwns, Calm
<1>3. \A s \in Requests :
        /\ (Storing(s)' <=> Storing(s) \/ s = r) /\ (Succeeded(s)' <=> Succeeded(s))
        /\ (Early(s)' => Early(s)) /\ (pc[s] = "done" => pc'[s] = "done")
        /\ (pc'[s] = "begin" => pc[s] = "begin") /\ Part(s)' = Part(s)
  BY <1>1 DEF SInv, TypeOK, Storing, Succeeded, Early, Part
<1>4. OwnerStores' /\ StorerOwns' /\ EarlySent' /\ SuccessEnds'
  BY <1>1, <1>2, <1>3 DEF SInv, OwnerStores, StorerOwns, EarlySent, SuccessEnds, Open, Calm
<1>5. Part(r) = {} /\ ~Succeeded(r)
  <2>1. sent[r] = 0
    BY <1>1 DEF SInv, EarlySent, Early
  <2>2. 1 .. sent[r] = {}
    BY <2>1
  <2> QED
    BY <1>1, <2>2 DEF Part, SInv, SuccessEnds
<1>6. DbRows'
  BY <1>1, <1>2, <1>3, <1>5 DEF SInv, DbRows, ItemsIn, Calm
<1>7. SavedRows'
  BY <1>1, <1>2, <1>3 DEF SInv, DbRows, SavedRows, ItemsIn, Calm
<1>8. DbSub' /\ SavedSub'
  BY <1>1, <1>2, <1>3 DEF SInv, DbSub, SavedSub, HasSub, Calm
<1> QED
  BY <1>4, <1>6, <1>7, <1>8 DEF SInv

\* Records with one more value in the last field.
LEMMA OneMoreRow ==
  ASSUME NEW a, NEW b, NEW S, NEW n
  PROVE  [sub : {a}, by : {b}, entry : S \cup {n}]
           = [sub : {a}, by : {b}, entry : S] \cup {[sub |-> a, by |-> b, entry |-> n]}
<1> DEFINE more == [sub : {a}, by : {b}, entry : S \cup {n}]
           less == [sub : {a}, by : {b}, entry : S]
           row == [sub |-> a, by |-> b, entry |-> n]
<1>1. ASSUME NEW m \in more PROVE m \in less \cup {row}
  <2>1. m = [sub |-> a, by |-> b, entry |-> m.entry] /\ m.entry \in S \cup {n}
    OBVIOUS
  <2>2. CASE m.entry = n
    BY <2>1, <2>2
  <2>3. CASE m.entry \in S
    BY <2>1, <2>3
  <2> QED
    BY <2>1, <2>2, <2>3
<1>2. less \subseteq more /\ row \in more
  OBVIOUS
<1> QED
  BY <1>1, <1>2

\* An item more, in the request's own transaction if it was not hit.
LEMMA InsertItemStep ==
  ASSUME SInv, TypeOK', NEW r \in Requests, InsertItem(r)
  PROVE  SInv'
<1> DEFINE item == [sub |-> id[r], by |-> r, entry |-> sent[r] + 1]
<1>1. /\ UNCHANGED <<saved, owner, hit, id, answer>> /\ Calm' = Calm
      /\ pc[r] = "items" /\ pc' = pc /\ sent' = [sent EXCEPT ![r] = @ + 1]
  BY DEF InsertItem, Goto, Tx, Calm, SInv, TypeOK
<1>2. \A s \in Requests :
        /\ (Storing(s)' <=> Storing(s)) /\ (Succeeded(s)' <=> Succeeded(s)) /\ (Early(s)' => Early(s))
        /\ (s # r => sent'[s] = sent[s] /\ Part(s)' = Part(s))
  BY <1>1 DEF SInv, TypeOK, Storing, Succeeded, Early, Part
<1>3. Storing(r) /\ ~Early(r) /\ ~Succeeded(r)
  BY <1>1 DEF Storing, Early, SInv, SuccessEnds
<1>4. OwnerStores' /\ StorerOwns' /\ EarlySent' /\ SuccessEnds'
  BY <1>1, <1>2, <1>3 DEF SInv, TypeOK, OwnerStores, StorerOwns, EarlySent, SuccessEnds, Open, Calm
<1>5. db'.subs = db.subs /\ db'.items = db.items \cup {item}
  BY DEF InsertItem, SInv, TypeOK, Tables
<1>6. Part(r)' = Part(r) \cup {item}
  <2>1. sent[r] \in Nat /\ sent'[r] = sent[r] + 1
    BY <1>1 DEF SInv, TypeOK
  <2>2. 1 .. sent'[r] = (1 .. sent[r]) \cup {sent[r] + 1}
    BY <2>1
  <2>3. [sub : {id[r]}, by : {r}, entry : (1 .. sent[r]) \cup {sent[r] + 1}]
          = [sub : {id[r]}, by : {r}, entry : 1 .. sent[r]] \cup {item}
    BY OneMoreRow
  <2>4. Part(r)' = [sub : {id[r]}, by : {r}, entry : 1 .. sent'[r]]
    BY <1>1 DEF Part
  <2> QED
    BY <2>2, <2>3, <2>4 DEF Part
<1>7. item.by = r
  OBVIOUS
<1> HIDE DEF item
<1>8. ASSUME NEW s \in Calm PROVE ItemsIn(db, s)' = IF s = r THEN ItemsIn(db, s) \cup {item} ELSE ItemsIn(db, s)
  BY <1>5, <1>7 DEF ItemsIn
<1>9. DbRows'
  BY <1>1, <1>2, <1>3, <1>6, <1>8 DEF SInv, DbRows, Calm
<1>10. SavedRows'
  BY <1>1, <1>2, <1>3 DEF SInv, SavedRows, ItemsIn, Calm, Open
<1>11. DbSub' /\ SavedSub'
  BY <1>1, <1>2, <1>5 DEF SInv, DbSub, SavedSub, HasSub, Calm, Open
<1> QED
  BY <1>4, <1>9, <1>10, <1>11 DEF SInv

\* If r was not hit the transaction it commits is its own; if it commits another
\* one, the one that began that is hit by it.
LEMMA CommitStep ==
  ASSUME SInv, TypeOK', NEW r \in Requests, Commit(r)
  PROVE  SInv'
<1> USE BoundsAssumption
<1>1. /\ UNCHANGED <<db, saved, sent, id>> /\ owner' = Nobody /\ hit' = hit \cup ({owner} \ {r})
      /\ pc[r] = "items" /\ pc' = [pc EXCEPT ![r] = "done"]
      /\ answer' = [answer EXCEPT ![r] = "success"] /\ sent[r] = Entries
  BY DEF Commit, Answer, Goto
<1>2. \A s \in Requests :
        /\ (s # r => (Storing(s)' <=> Storing(s)) /\ (Succeeded(s)' <=> Succeeded(s)))
        /\ (Early(s)' => Early(s)) /\ (pc[s] = "done" => pc'[s] = "done")
        /\ (pc'[s] = "begin" => pc[s] = "begin") /\ Part(s)' = Part(s)
  BY <1>1 DEF SInv, TypeOK, Storing, Succeeded, Early, Part
<1>3. Storing(r) /\ ~Storing(r)' /\ Succeeded(r)' /\ pc'[r] = "done"
  BY <1>1 DEF SInv, TypeOK, Storing, Succeeded
<1>4. \A s \in Calm' : s \in Calm
  BY <1>1 DEF Calm
<1>5. \A s \in Calm' : ~Storing(s)'
  BY <1>1, <1>2, <1>3, <1>4 DEF SInv, StorerOwns, Calm
<1>6. OwnerStores' /\ StorerOwns' /\ SavedRows' /\ SavedSub'
  BY <1>1, <1>5 DEF OwnerStores, StorerOwns, SavedRows, SavedSub, Open
<1>7. EarlySent' /\ SuccessEnds'
  BY <1>1, <1>2, <1>3 DEF SInv, EarlySent, SuccessEnds
<1>8. DbRows'
  BY <1>1, <1>2, <1>3, <1>4 DEF SInv, DbRows, ItemsIn, Calm
<1>9. DbSub'
  BY <1>1, <1>2, <1>3, <1>4 DEF SInv, DbSub, HasSub, Calm
<1> QED
  BY <1>6, <1>7, <1>8, <1>9 DEF SInv

\* A rollback, by the handler or by the destructor: it hits all others that have
\* rows in flight.
LEMMA UndoStep ==
  ASSUME SInv, TypeOK', NEW r \in Requests, Undo(r), UNCHANGED <<id, sent>>,
         pc' = [pc EXCEPT ![r] = pc'[r]], pc'[r] \in {"destroy", "done"},
         pc[r] \in {"rollback", "destroy"},
         \A s \in Requests : Succeeded(s)' <=> Succeeded(s)
  PROVE  SInv'
<1> USE BoundsAssumption
<1>1. Open /\ db' = saved /\ saved' = saved /\ owner' = Nobody /\ hit' = hit \cup (InFlight \ {r})
  BY DEF Undo
<1>2. \A s \in Requests :
        /\ (Early(s)' => Early(s)) /\ (pc[s] = "done" => pc'[s] = "done")
        /\ (s # r => pc'[s] = pc[s]) /\ Part(s)' = Part(s)
  BY DEF SInv, TypeOK, Early, Part
<1>3. \A s \in Calm' : s \in Calm /\ ~Storing(s)' /\ pc'[s] # "begin"
  BY <1>1, <1>2 DEF Calm, InFlight, Storing
<1>4. OwnerStores' /\ StorerOwns' /\ SavedRows' /\ SavedSub'
  BY <1>1, <1>3 DEF OwnerStores, StorerOwns, SavedRows, SavedSub, Open
<1>5. ~Succeeded(r)
  BY DEF SInv, SuccessEnds
<1>6. EarlySent' /\ SuccessEnds'
  BY <1>2, <1>5 DEF SInv, EarlySent, SuccessEnds
<1>7. DbRows'
  BY <1>1, <1>2, <1>3 DEF SInv, DbRows, SavedRows, ItemsIn, Calm
<1>8. DbSub'
  BY <1>1, <1>2, <1>3 DEF SInv, DbSub, SavedSub, HasSub, Calm
<1> QED
  BY <1>4, <1>6, <1>7, <1>8 DEF SInv

\* The end of a request whose transaction is gone already: it was hit.
LEMMA LoneEnd ==
  ASSUME SInv, TypeOK', NEW r \in Requests, ~Open, UNCHANGED <<db, saved, owner, hit, id, sent>>,
         \A s \in Requests : s # r => pc'[s] = pc[s],
         pc[r] \in {"rollback", "destroy"}, pc'[r] \in {"destroy", "done"},
         \A s \in Requests : Succeeded(s)' <=> Succeeded(s)
  PROVE  SInv'
<1> USE BoundsAssumption
<1>1. Calm' = Calm /\ ~Open' /\ \A s \in Requests : Part(s)' = Part(s)
  BY DEF Calm, Open, Part
<1>2. \A s \in Calm : ~Storing(s) /\ ~Storing(s)'
  BY DEF SInv, StorerOwns, Storing, Open, Calm
<1>3. ~Succeeded(r) /\ \A s \in Requests : Early(s)' => Early(s)
  BY DEF SInv, SuccessEnds, Early
<1>4. OwnerStores' /\ StorerOwns' /\ SavedRows' /\ SavedSub' /\ EarlySent' /\ SuccessEnds'
  BY <1>1, <1>2, <1>3 DEF SInv, OwnerStores, StorerOwns, SavedRows, SavedSub, EarlySent, SuccessEnds
<1>5. DbRows' /\ DbSub'
  BY <1>1, <1>2, <1>3 DEF SInv, DbRows, DbSub, ItemsIn, HasSub, Calm
<1> QED
  BY <1>4, <1>5 DEF SInv

\* A kill leaves what is durable; nobody is left in a transaction.
LEMMA KillStep ==
  ASSUME SInv, TypeOK', Kill
  PROVE  SInv'
<1> USE BoundsAssumption
<1>1. /\ UNCHANGED <<saved, id, sent, answer, hit>> /\ owner' = Nobody /\ Calm' = Calm
      /\ db' = IF Open THEN saved ELSE db
      /\ \A s \in Requests : pc'[s] = IF pc[s] = "idle" THEN "idle" ELSE "done"
  BY DEF Kill, Calm, Durable
<1>2. \A s \in Requests :
        /\ ~Storing(s)' /\ (Succeeded(s)' <=> Succeeded(s)) /\ (Early(s)' => Early(s))
        /\ (pc[s] = "done" => pc'[s] = "done") /\ pc'[s] # "begin" /\ Part(s)' = Part(s)
  BY <1>1 DEF Storing, Succeeded, Early, Part
<1>3. OwnerStores' /\ StorerOwns' /\ SavedRows' /\ SavedSub' /\ EarlySent' /\ SuccessEnds'
  BY <1>1, <1>2 DEF SInv, OwnerStores, StorerOwns, SavedRows, SavedSub, EarlySent, SuccessEnds, Open, Calm
<1>4. ~Open => \A s \in Calm : ~Storing(s)
  BY DEF SInv, StorerOwns, Open, Calm
<1>5. DbRows'
  BY <1>1, <1>2, <1>4 DEF SInv, DbRows, SavedRows, ItemsIn, Calm
<1>6. DbSub'
  BY <1>1, <1>2 DEF SInv, DbSub, SavedSub, HasSub, Calm
<1> QED
  BY <1>3, <1>5, <1>6 DEF SInv

----------------------------------------------------------------------------
(* Every step keeps the invariant. *)
THEOREM StepSInv == SInv /\ [Next]_vars => SInv'
<1> SUFFICES ASSUME SInv, [Next]_vars PROVE SInv'
  OBVIOUS
<1>1. TypeOK /\ TypeOK'
  BY StepType DEF SInv
<1>2. CASE UNCHANGED vars
  <2>1. \A s \in Requests : pc'[s] = pc[s] /\ answer'[s] = answer[s] /\ id'[s] = id[s]
    BY <1>2 DEF vars
  <2> QED
    BY <1>1, <1>2, <2>1, QuietStep DEF vars, Storing, Succeeded, Early
<1>3. CASE Kill
  BY <1>1, <1>3, KillStep
<1>4. ASSUME NEW r \in Requests, Register(r) PROVE SInv'
  <2>1. CASE Select(r) \/ Fetch(r) \/ InsertThrows(r) \/ SelectIdThrows(r) \/ BeginThrows(r)
    <3>1. /\ UNCHANGED <<db, saved, owner, sent, hit, id>>
          /\ pc[r] \in {"idle", "fetch", "insert", "id", "begin"}
          /\ pc' = [pc EXCEPT ![r] = pc'[r]] /\ pc'[r] \in {"fetch", "insert", "done"}
          /\ (pc'[r] = "done" \/ answer' = answer)
          /\ answer' = [answer EXCEPT ![r] = answer'[r]] /\ answer'[r] # "success"
      BY <1>1, <2>1 DEF Select, Fetch, InsertThrows, SelectIdThrows, BeginThrows, Goto, Answer, Tx,
         SInv, TypeOK, SuccessEnds, Succeeded
    <3>2. \A s \in Requests :
            /\ (s # r => pc'[s] = pc[s] /\ answer'[s] = answer[s])
            /\ id'[s] = id[s]
      BY <3>1, <1>1 DEF TypeOK
    <3>3. ~Succeeded(r) /\ ~Succeeded(r)' /\ ~Storing(r) /\ ~Storing(r)' /\ Early(r)
      BY <3>1 DEF SInv, SuccessEnds, Succeeded, Storing, Early
    <3> QED
      BY <1>1, <3>1, <3>2, <3>3, QuietStep DEF Storing, Succeeded, Early
  <2>2. CASE Insert(r)
    BY <1>1, <2>2, InsertStep
  <2>3. CASE SelectId(r)
    <3>1. PICK i \in Rows(UrlOf[r]) : id' = [id EXCEPT ![r] = i] /\ Goto(r, "id", "begin")
      BY <2>3 DEF SelectId
    <3>2. /\ UNCHANGED <<db, saved, owner, sent, hit, answer>>
          /\ pc[r] = "id" /\ pc' = [pc EXCEPT ![r] = "begin"]
      BY <2>3, <3>1 DEF SelectId, Goto, Tx
    <3>3. /\ HasSub(db, r)' /\ pc'[r] = "begin"
          /\ \A s \in Requests : s # r => pc'[s] = pc[s] /\ id'[s] = id[s]
      BY <1>1, <3>1, <3>2 DEF Rows, HasSub, TypeOK
    <3>4. ~Succeeded(r)
      BY <3>2 DEF SInv, SuccessEnds
    <3> QED
      BY <1>1, <3>2, <3>3, <3>4, QuietStep DEF Storing, Succeeded, Early
  <2>4. CASE Begin(r)
    BY <1>1, <2>4, BeginStep
  <2>5. CASE InsertItem(r)
    BY <1>1, <2>5, InsertItemStep
  <2>6. CASE InsertItemThrows(r) \/ CommitThrows(r)
    <3>1. /\ UNCHANGED <<db, saved, owner, sent, hit, id, answer>>
          /\ pc[r] = "items" /\ pc' = [pc EXCEPT ![r] = "rollback"]
      BY <2>6 DEF InsertItemThrows, CommitThrows, Goto, Tx
    <3>2. \A s \in Requests : (s # r => pc'[s] = pc[s]) /\ pc'[r] = "rollback"
      BY <1>1, <3>1 DEF TypeOK
    <3> QED
      BY <1>1, <3>1, <3>2, QuietStep DEF Storing, Succeeded, Early
  <2>7. CASE Commit(r)
    BY <1>1, <2>7, CommitStep
  <2>8. CASE Rollback(r) \/ Destroy(r)
    <3>1. /\ UNCHANGED <<id, sent>> /\ pc' = [pc EXCEPT ![r] = pc'[r]]
          /\ \/ pc[r] = "rollback" /\ pc'[r] = "destroy"
             \/ pc[r] = "destroy" /\ pc'[r] = "done"
          /\ answer' = [answer EXCEPT ![r] = answer'[r]]
          /\ (answer'[r] # "success" \/ answer' = answer)
          /\ (Undo(r) \/ (~Open /\ UNCHANGED <<db, saved, owner, hit>>))
      <4>1. CASE Rollback(r)
        <5>1. Goto(r, "rollback", "destroy") /\ UNCHANGED <<id, sent>>
          BY <4>1 DEF Rollback
        <5>2. \/ Undo(r) /\ answer' = [answer EXCEPT ![r] = "error"]
              \/ ~Open /\ UNCHANGED <<db, saved, owner, hit>> /\ answer' = [answer EXCEPT ![r] = "empty"]
          BY <4>1 DEF Rollback, Tx
        <5>3. answer' = [answer EXCEPT ![r] = answer'[r]] /\ answer'[r] # "success"
          BY <1>1, <5>2 DEF TypeOK
        <5> QED
          BY <1>1, <5>1, <5>2, <5>3 DEF Goto, TypeOK
      <4>2. CASE Destroy(r)
        <5>1. Goto(r, "destroy", "done") /\ UNCHANGED <<id, sent, answer>>
          BY <4>2 DEF Destroy
        <5>2. Undo(r) \/ (~Open /\ UNCHANGED <<db, saved, owner, hit>>)
          BY <4>2 DEF Destroy, Tx
        <5> QED
          BY <1>1, <5>1, <5>2 DEF Goto, TypeOK
      <4> QED
        BY <2>8, <4>1, <4>2
    <3>2. \A s \in Requests : s # r => pc'[s] = pc[s] /\ answer'[s] = answer[s]
      BY <1>1, <3>1 DEF TypeOK
    <3>3. ~Succeeded(r) /\ ~Succeeded(r)'
      BY <3>1 DEF SInv, SuccessEnds, Succeeded
    <3>4. \A s \in Requests : Succeeded(s)' <=> Succeeded(s)
      BY <3>2, <3>3 DEF Succeeded
    <3>5. CASE Undo(r)
      BY <1>1, <3>1, <3>4, <3>5, UndoStep
    <3>6. CASE ~Open /\ UNCHANGED <<db, saved, owner, hit>>
      BY <1>1, <3>1, <3>2, <3>4, <3>6, LoneEnd
    <3> QED
      BY <3>1, <3>5, <3>6
  <2> QED
    BY <1>4, <2>1, <2>2, <2>3, <2>4, <2>5, <2>6, <2>7, <2>8 DEF Register
<1> QED
  BY <1>2, <1>3, <1>4 DEF Next

----------------------------------------------------------------------------
\* The invariant holds throughout.
LEMMA SpecSInv == Spec => []SInv
<1> QED
  BY InitSInv, StepSInv, PTL DEF Spec

(* Type correctness, for any requests, feeds and number of entries. *)
THEOREM SubscriptionTypeOK == Spec => []TypeOK
<1>1. SInv => TypeOK
  BY DEF SInv
<1> QED
  BY <1>1, SpecSInv, PTL

(* local_sqlite.cpp:47: somebody is always going to end the open transaction. *)
THEOREM OpenHasOwner == Spec => []TransactionHasOwner
<1>1. SInv => TransactionHasOwner
  BY DEF SInv, OwnerStores, Storing, TransactionHasOwner
<1> QED
  BY <1>1, SpecSInv, PTL

(* What a kill would leave of the rows of a request that was not hit. *)
LEMMA DurableRows ==
  ASSUME SInv, NEW r \in Calm
  PROVE  /\ Stored(r) = IF Succeeded(r) THEN AllOf(r) ELSE {}
         /\ Succeeded(r) => HasSub(Durable, r)
<1>1. Succeeded(r) => Part(r) = AllOf(r)
  BY DEF SInv, SuccessEnds, Part, AllOf, Calm
<1>2. CASE Open
  BY <1>1, <1>2 DEF SInv, SavedRows, SavedSub, ItemsIn, Stored, Durable
<1>3. CASE ~Open
  <2>1. ~Storing(r)
    BY <1>3, BoundsAssumption DEF SInv, StorerOwns, Open, Calm
  <2> QED
    BY <1>1, <1>3, <2>1 DEF SInv, DbRows, DbSub, ItemsIn, Stored, Durable
<1> QED
  BY <1>2, <1>3

(* web.hpp:169-199: success is stored whole and stays. *)
THEOREM SuccessStays == Spec => []SuccessIsStored
<1>1. SInv => SuccessIsStored
  BY DurableRows DEF SuccessIsStored, Calm, Succeeded, HasSub
<1> QED
  BY <1>1, SpecSInv, PTL

(* web.hpp:179-190: the items of a registration are stored all or not at all. *)
THEOREM ItemsAllOrNothing == Spec => []AllOrNothing
<1>1. SInv => AllOrNothing
  BY DurableRows DEF AllOrNothing, Calm
<1> QED
  BY <1>1, SpecSInv, PTL

(* web.hpp:171-184: an item names the subscription of its feed. *)
THEOREM ItemsNameTheirFeed == Spec => []ItemsBelong
<1>1. ASSUME SInv, NEW m \in db.items, m.by \notin hit
      PROVE  m.sub \in DOMAIN db.subs /\ db.subs[m.sub] = UrlOf[m.by]
  <2>1. m.by \in Calm /\ m \in ItemsIn(db, m.by)
    BY <1>1 DEF SInv, TypeOK, Tables, Item, Calm, ItemsIn
  <2>2. (Storing(m.by) \/ Succeeded(m.by)) /\ m \in Part(m.by)
    BY <1>1, <2>1 DEF SInv, DbRows
  <2>3. m.sub = id[m.by] /\ HasSub(db, m.by)
    BY <1>1, <2>1, <2>2 DEF SInv, DbSub, Part
  <2> QED
    BY <2>3 DEF HasSub
<1>2. SInv => ItemsBelong
  BY <1>1 DEF ItemsBelong
<1> QED
  BY <1>2, SpecSInv, PTL
=============================================================================
