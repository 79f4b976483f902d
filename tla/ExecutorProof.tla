---------------------------- MODULE ExecutorProof ----------------------------
(***************************************************************************)
(* The safety of BlockingQueue, and of Executor which is built on it, for  *)
(* any number of workers, clients and tasks, any capacity and any tree of  *)
(* nested submissions.                                                     *)
(*                                                                         *)
(* Neither Mutex nor Bounded of the queue is inductive alone: the          *)
(* insertion at PushPut relies on a test made one step before, which still *)
(* holds because lock_ was held in between.  QInv adds that fact, and that *)
(* a pusher keeps the element it was called with.                          *)
(*                                                                         *)
(* Executor and BlockingQueue share their variables, so every step of the  *)
(* pool is a step of the queue or leaves the queue alone: QInv holds of    *)
(* the pool.  IInv adds what ties the two program counters together and    *)
(* where each task is.                                                     *)
(***************************************************************************)
EXTENDS Executor, FiniteSetTheorems, TLAPS

---------------------------------------------------------------------------
(* The queue, whoever uses it: nothing here is about the pool. *)

\* A thread about to insert, or about to sleep, still sees what it tested.
RoomToPut == \A t \in Threads : pc[t] = "push_put" => Len(queue) < Capacity

PushersHoldValues == \A t \in Threads : pc[t] \in InPush => arg[t] \in Values

QInv == QTypeOK /\ Mutex /\ Bounded /\ RoomToPut /\ PushersHoldValues

USE DEF Points, InPush, InPop, InClose, Critical

\* What notify_one() and the return of its caller do to the program counters.
LEMMA LeaveAndNotifyPoints ==
  ASSUME NEW t \in Threads, NEW waiting, NEW wake \in Points \ Critical,
         waiting \notin Critical, waiting \in InPush <=> wake \in InPush,
         pc \in [Threads -> Points],
         LeaveAndNotify(t, waiting, wake)
  PROVE  /\ pc' \in [Threads -> Points]
         /\ pc'[t] \notin Critical
         /\ \A u \in Threads \ {t} : (pc'[u] \in Critical <=> pc[u] \in Critical)
         /\ \A u \in Threads : pc'[u] = "push_put" => pc[u] = "push_put" /\ u # t
         /\ \A u \in Threads : pc'[u] \in InPush => pc[u] \in InPush
<1>1. CASE pc' = [pc EXCEPT ![t] = "idle"]
  BY <1>1
<1>2. ASSUME NEW u \in Threads, pc[u] = waiting,
             pc' = [pc EXCEPT ![t] = "idle", ![u] = wake]
      PROVE  /\ pc' \in [Threads -> Points]
             /\ pc'[t] \notin Critical
             /\ \A w \in Threads \ {t} : (pc'[w] \in Critical <=> pc[w] \in Critical)
             /\ \A w \in Threads : pc'[w] = "push_put" => pc[w] = "push_put" /\ w # t
             /\ \A w \in Threads : pc'[w] \in InPush => pc[w] \in InPush
  BY <1>2
<1> QED BY <1>1, <1>2 DEF LeaveAndNotify, Goto

THEOREM InitQInv == QInit => QInv
<1> SUFFICES ASSUME QInit PROVE QInv
  OBVIOUS
<1> USE DEF QInit
<1>1. queue \in Seq(Values) /\ Len(queue) = 0
  OBVIOUS
<1>2. QTypeOK
  BY <1>1 DEF QTypeOK
<1>3. Mutex
  BY NoThreadAssumption DEF Mutex
<1>4. Bounded /\ RoomToPut /\ PushersHoldValues
  BY <1>1, CapacityAssumption DEF Bounded, RoomToPut, PushersHoldValues
<1> QED BY <1>2, <1>3, <1>4 DEF QInv

LEMMA CallQInv ==
  ASSUME QInv, NEW t \in Threads, QCall(t) PROVE QInv'
<1> USE DEF QInv, QTypeOK, Mutex, Bounded, RoomToPut, PushersHoldValues, Goto, Result
<1>1. ASSUME NEW v \in Values, CallPush(t, v) PROVE QInv'
  BY <1>1 DEF CallPush
<1>2. CASE CallPop(t)
  BY <1>2 DEF CallPop
<1>3. CASE CallClose(t)
  BY <1>3 DEF CallClose
<1> QED BY <1>1, <1>2, <1>3 DEF QCall

LEMMA LockQInv ==
  ASSUME QInv, NEW t \in Threads,
         \/ Lock(t, "push_lock", "push_test") \/ Lock(t, "push_wake", "push_test")
         \/ Lock(t, "pop_lock", "pop_test") \/ Lock(t, "pop_wake", "pop_test")
  PROVE  QInv'
<1> USE DEF QInv, QTypeOK, Mutex, Bounded, RoomToPut, PushersHoldValues, Goto
<1> QED BY NoThreadAssumption DEF Lock

LEMMA SleepQInv ==
  ASSUME QInv, NEW t \in Threads,
         Sleep(t, "push_sleep", "push_wait") \/ Sleep(t, "pop_sleep", "pop_wait")
  PROVE  QInv'
<1> USE DEF QInv, QTypeOK, Mutex, Bounded, RoomToPut, PushersHoldValues, Goto
<1> QED BY NoThreadAssumption DEF Sleep, Unlock

LEMMA PushTestQInv ==
  ASSUME QInv, NEW t \in Threads, PushTest(t) PROVE QInv'
<1> USE DEF PushTest, Goto, Result, Unlock
<1>1. Len(queue) \in Nat /\ Capacity \in Nat
  BY CapacityAssumption DEF QInv, QTypeOK
<1>2. CASE closed
  BY <1>2, NoThreadAssumption
     DEF QInv, QTypeOK, Mutex, Bounded, RoomToPut, PushersHoldValues
<1>3. CASE ~closed
  <2>1. QTypeOK' /\ PushersHoldValues' /\ Bounded'
    BY <1>3 DEF QInv, QTypeOK, PushersHoldValues, Bounded
  <2>2. Mutex'
    BY <1>3 DEF QInv, QTypeOK, Mutex
  <2>3. RoomToPut'
    BY <1>1, <1>3 DEF QInv, QTypeOK, RoomToPut
  <2> QED BY <2>1, <2>2, <2>3 DEF QInv
<1> QED BY <1>2, <1>3

LEMMA PushPutQInv ==
  ASSUME QInv, NEW t \in Threads, PushPut(t) PROVE QInv'
<1> USE DEF PushPut, Result, Unlock
<1>1. /\ pc' \in [Threads -> Points]
      /\ pc'[t] \notin Critical
      /\ \A u \in Threads \ {t} : (pc'[u] \in Critical <=> pc[u] \in Critical)
      /\ \A u \in Threads : pc'[u] = "push_put" => pc[u] = "push_put" /\ u # t
      /\ \A u \in Threads : pc'[u] \in InPush => pc[u] \in InPush
  BY LeaveAndNotifyPoints DEF QInv, QTypeOK
<1>2. lock = t /\ \A u \in Threads \ {t} : pc[u] \notin Critical
  BY DEF QInv, Mutex
<1>3. /\ arg[t] \in Values
      /\ queue' \in Seq(Values)
      /\ Len(queue') = Len(queue) + 1
      /\ Len(queue) \in Nat /\ Capacity \in Nat
  BY CapacityAssumption DEF QInv, PushersHoldValues, QTypeOK
<1>4. QTypeOK' /\ PushersHoldValues'
  BY <1>1, <1>3 DEF QInv, QTypeOK, PushersHoldValues
<1>5. Mutex'
  BY <1>1, <1>2, NoThreadAssumption DEF Mutex
<1>6. Bounded'
  BY <1>3 DEF QInv, RoomToPut, Bounded
<1>7. RoomToPut'
  BY <1>1, <1>2 DEF RoomToPut
<1> QED BY <1>4, <1>5, <1>6, <1>7 DEF QInv

LEMMA PopTestQInv ==
  ASSUME QInv, NEW t \in Threads, PopTest(t) PROVE QInv'
<1> USE DEF PopTest, Goto, Result, Unlock
<1>1. CASE queue = <<>>
  BY <1>1, NoThreadAssumption
     DEF QInv, QTypeOK, Mutex, Bounded, RoomToPut, PushersHoldValues
<1>2. CASE queue # <<>>
  <2>1. LeaveAndNotify(t, "push_wait", "push_wake")
    BY <1>2
  <2>2. /\ pc' \in [Threads -> Points]
        /\ pc'[t] \notin Critical
        /\ \A u \in Threads \ {t} : (pc'[u] \in Critical <=> pc[u] \in Critical)
        /\ \A u \in Threads : pc'[u] = "push_put" => pc[u] = "push_put" /\ u # t
        /\ \A u \in Threads : pc'[u] \in InPush => pc[u] \in InPush
    BY <2>1, LeaveAndNotifyPoints DEF QInv, QTypeOK
  <2>3. lock = t /\ \A u \in Threads \ {t} : pc[u] \notin Critical
    BY DEF QInv, Mutex
  <2>4. /\ Head(queue) \in Values
        /\ queue' \in Seq(Values)
        /\ Len(queue') = Len(queue) - 1
        /\ Len(queue) \in Nat /\ Capacity \in Nat
    BY <1>2, CapacityAssumption DEF QInv, QTypeOK
  <2>5. QTypeOK'
    BY <1>2, <2>2, <2>4 DEF QInv, QTypeOK
  <2>6. PushersHoldValues'
    BY <1>2, <2>2, <2>3, <2>4 DEF QInv, QTypeOK, PushersHoldValues
  <2>7. Mutex'
    BY <1>2, <2>2, <2>3, NoThreadAssumption DEF Mutex
  <2>8. Bounded' /\ RoomToPut'
    BY <2>2, <2>4 DEF QInv, Bounded, RoomToPut
  <2> QED BY <2>5, <2>6, <2>7, <2>8 DEF QInv
<1> QED BY <1>1, <1>2

LEMMA CloseStepQInv ==
  ASSUME QInv, NEW t \in Threads, CloseStep(t) PROVE QInv'
<1> USE DEF CloseStep, NotifyAll
<1> QED BY DEF QInv, QTypeOK, Mutex, Bounded, RoomToPut, PushersHoldValues

LEMMA WakeUpQInv ==
  ASSUME QInv, NEW t \in Threads, WakeUp(t) \/ TimedOut(t) PROVE QInv'
<1> USE DEF WakeUp, TimedOut, Goto, Result
<1> QED BY NoThreadAssumption
        DEF QInv, QTypeOK, Mutex, Bounded, RoomToPut, PushersHoldValues

THEOREM StepQInv == QInv /\ [QNext]_qvars => QInv'
<1> SUFFICES ASSUME QInv, [QNext]_qvars PROVE QInv'
  OBVIOUS
<1>1. CASE UNCHANGED qvars
  BY <1>1 DEF qvars, QInv, QTypeOK, Mutex, Bounded, RoomToPut, PushersHoldValues
<1>2. ASSUME NEW t \in Threads, QCall(t) PROVE QInv'
  BY <1>2, CallQInv
<1>3. ASSUME NEW t \in Threads, QStep(t) PROVE QInv'
  BY <1>3, LockQInv, SleepQInv, PushTestQInv, PushPutQInv, PopTestQInv,
     CloseStepQInv, WakeUpQInv DEF QStep, PushStep, PopStep
<1> QED BY <1>1, <1>2, <1>3 DEF QNext

\* blocking_queue.hpp: every state of the queue, for any number of threads
\* and any capacity, is type-correct, has at most one thread in the code that
\* lock_ guards, and holds at most capacity_ elements.
THEOREM QueueSafe == QSpec => [](QTypeOK /\ Mutex /\ Bounded)
<1>1. QInv => QTypeOK /\ Mutex /\ Bounded
  BY DEF QInv
<1> QED BY InitQInv, StepQInv, <1>1, PTL DEF QSpec

----------------------------------------------------------------------------
(***************************************************************************)
(* The queue implements the atomic buffer BoundedFifo.  An operation takes *)
(* effect at PushPut or PopTest, which are also the instants at which it   *)
(* returns; the steps before them are stutters of the abstract buffer.     *)
(***************************************************************************)
Op == [t \in Threads |-> OpAt(pc[t])]

\* A thread that wakes another one changes nobody's operation but its own.
LEMMA LeaveAndNotifyOp ==
  ASSUME NEW t \in Threads, NEW waiting, NEW wake,
         pc[t] # waiting, OpAt(waiting) = OpAt(wake),
         pc \in [Threads -> Points],
         LeaveAndNotify(t, waiting, wake)
  PROVE  Op' = [Op EXCEPT ![t] = "none"]
<1>1. OpAt("idle") = "none"
  BY DEF OpAt
<1>2. \A w \in Threads : OpAt(pc'[w]) = IF w = t THEN "none" ELSE OpAt(pc[w])
  <2>1. CASE pc' = [pc EXCEPT ![t] = "idle"]
    BY <1>1, <2>1
  <2>2. ASSUME NEW u \in Threads, pc[u] = waiting, u # t,
               pc' = [pc EXCEPT ![t] = "idle", ![u] = wake]
        PROVE  \A w \in Threads : OpAt(pc'[w]) = IF w = t THEN "none" ELSE OpAt(pc[w])
    BY <1>1, <2>2
  <2> QED BY <2>1, <2>2 DEF LeaveAndNotify, Goto
<1> QED BY <1>2 DEF Op

LEMMA InitFifo == QInit => Fifo!Init
BY DEF QInit, Fifo!Init, OpAt

\* Between the call and the effect: nothing the abstract buffer sees.
LEMMA Stutters ==
  ASSUME QTypeOK, NEW t \in Threads,
         \/ Lock(t, "push_lock", "push_test") \/ Lock(t, "push_wake", "push_test")
         \/ Lock(t, "pop_lock", "pop_test") \/ Lock(t, "pop_wake", "pop_test")
         \/ Sleep(t, "push_sleep", "push_wait") \/ Sleep(t, "pop_sleep", "pop_wait")
         \/ WakeUp(t)
         \/ CloseStep(t)
  PROVE  UNCHANGED Fifo!vars
<1>1. UNCHANGED <<queue, closed, arg, ret>>
  BY DEF Lock, Sleep, WakeUp, CloseStep
<1>2. Op' = Op
  BY DEF Lock, Sleep, WakeUp, CloseStep, NotifyAll, Goto, Op, OpAt, QTypeOK
<1> QED BY <1>1, <1>2 DEF Fifo!vars, Op

LEMMA CallFifo ==
  ASSUME QTypeOK, NEW t \in Threads, QCall(t) PROVE Fifo!Call(t) \/ Fifo!Close
<1> USE DEF QTypeOK, Goto, Result, OpAt
<1>1. ASSUME NEW v \in Values, CallPush(t, v) PROVE Fifo!Call(t)
  BY <1>1 DEF CallPush, Fifo!Call
<1>2. ASSUME CallPop(t) PROVE Fifo!Call(t)
  BY <1>2 DEF CallPop, Fifo!Call
<1>3. ASSUME CallClose(t) PROVE Fifo!Close
  BY <1>3 DEF CallClose, Fifo!Close
<1> QED BY <1>1, <1>2, <1>3 DEF QCall

LEMMA PushTestFifo ==
  ASSUME QTypeOK, NEW t \in Threads, PushTest(t)
  PROVE  Fifo!GiveUp(t) \/ UNCHANGED Fifo!vars
<1> USE DEF PushTest, Goto, QTypeOK, OpAt
<1>1. CASE closed
  BY <1>1 DEF Fifo!GiveUp, Fifo!Done, Result
<1>2. CASE ~closed
  BY <1>2 DEF Fifo!vars
<1> QED BY <1>1, <1>2

LEMMA PushPutFifo ==
  ASSUME QTypeOK, RoomToPut, NEW t \in Threads, PushPut(t) PROVE Fifo!Push(t)
<1>1. Op' = [Op EXCEPT ![t] = "none"]
  BY LeaveAndNotifyOp DEF PushPut, QTypeOK, OpAt
<1>2. Op[t] = "push" /\ Len(queue) < Capacity
  BY DEF PushPut, Op, OpAt, RoomToPut
<1> QED BY <1>1, <1>2 DEF PushPut, Op, Fifo!Push, Fifo!Done, Result

LEMMA PopTestFifo ==
  ASSUME QTypeOK, NEW t \in Threads, PopTest(t)
  PROVE  Fifo!Pop(t) \/ Fifo!GiveUp(t) \/ UNCHANGED Fifo!vars
<1>1. Op[t] = "pop"
  BY DEF PopTest, Op, OpAt
<1>2. CASE queue # <<>>
  <2>1. LeaveAndNotify(t, "push_wait", "push_wake")
    BY <1>2 DEF PopTest
  <2>2. Op' = [Op EXCEPT ![t] = "none"]
    BY <2>1, LeaveAndNotifyOp DEF QTypeOK, OpAt, PopTest
  <2> QED BY <1>1, <1>2, <2>2 DEF PopTest, Op, Fifo!Pop, Fifo!Done, Result
<1>3. CASE queue = <<>> /\ ~closed
  BY <1>3 DEF PopTest, Goto, OpAt, Fifo!vars, QTypeOK
<1>4. CASE queue = <<>> /\ closed
  BY <1>4 DEF PopTest, Goto, OpAt, QTypeOK, Fifo!GiveUp, Fifo!Done, Result
<1> QED BY <1>2, <1>3, <1>4 DEF QTypeOK

LEMMA TimedOutFifo ==
  ASSUME QTypeOK, NEW t \in Threads, TimedOut(t) PROVE Fifo!GiveUp(t)
BY DEF TimedOut, Goto, Result, OpAt, QTypeOK, Fifo!GiveUp, Fifo!Done

LEMMA StepFifo == QInv /\ [QNext]_qvars => [Fifo!Next]_(Fifo!vars)
<1> SUFFICES ASSUME QInv, [QNext]_qvars PROVE [Fifo!Next]_(Fifo!vars)
  OBVIOUS
<1>1. QTypeOK /\ RoomToPut
  BY DEF QInv
<1>2. CASE UNCHANGED qvars
  BY <1>2 DEF qvars, Fifo!vars
<1>3. ASSUME NEW t \in Threads, QCall(t) PROVE Fifo!Next
  BY <1>1, <1>3, CallFifo DEF Fifo!Next
<1>4. ASSUME NEW t \in Threads, QStep(t) PROVE [Fifo!Next]_(Fifo!vars)
  BY <1>1, <1>4, Stutters, PushTestFifo, PushPutFifo, PopTestFifo, TimedOutFifo
     DEF QStep, PushStep, PopStep, Fifo!Next
<1> QED BY <1>2, <1>3, <1>4 DEF QNext

\* blocking_queue.hpp:18-62: for any number of threads and any capacity the
\* queue is a linearizable bounded FIFO buffer: a call that returned false had
\* no effect, one that returned true exactly one, in first-in first-out order.
THEOREM QueueImplementsFifo == QSpec => FifoSpec
BY InitFifo, InitQInv, StepQInv, StepFifo, PTL DEF QSpec, FifoSpec, Fifo!Spec

---------------------------------------------------------------------------
(* The pool. *)

USE DEF WorkerPoints, ClientPoints, ExecutePoints, Tasks

\* A thread is in the queue's code only from the matching point of the pool's.
Nested ==
  \A t \in Threads :
    /\ pc[t] \in InPush => ctl[t] = "push"
    /\ pc[t] \in InPop => ctl[t] = "pop"
    /\ pc[t] \in InClose => ctl[t] = "close"

\* async_execute works for one task, which nobody else submits.
Jobs ==
  /\ \A t \in Threads : ctl[t] \in ExecutePoints =>
       job[t] \in Tasks /\ answer[job[t]] = "pending"
  /\ \A t \in Threads : ctl[t] = "push" => arg[t] = job[t]
  /\ \A s, t \in Threads :
       ctl[s] \in ExecutePoints /\ ctl[t] \in ExecutePoints /\ job[s] = job[t] => s = t

\* A worker has a task exactly while it runs one.
Running ==
  \A w \in Workers :
    task[w] # NoValue <=> ctl[w] \in {"run"} \cup ExecutePoints

\* The push of t has succeeded and its caller has not looked yet.
Pushed(t) == ctl[t] = "push" /\ pc[t] = "idle" /\ ret[t]

\* The task being submitted is in the pool exactly once the push has succeeded.
JobPlace ==
  \A t \in Threads : ctl[t] \in ExecutePoints => (job[t] \in InPool <=> Pushed(t))

\* A pop that has succeeded has delivered a task.
Popped == \A w \in Workers : ctl[w] = "pop" /\ pc[w] = "idle" /\ ret[w] => arg[w] \in Tasks

\* A worker that may still pop has not started a task since done_ was set.
Late ==
  \A w \in Workers :
    /\ ~done \/ ctl[w] \in {"pop_call", "pop"} => late[w] = 0
    /\ late[w] <= 1

IInv ==
  /\ TypeOK /\ QInv /\ Nested /\ Jobs /\ Running /\ Popped
  /\ JobPlace /\ AnswerIsTrue /\ AtMostOnce /\ Late

----------------------------------------------------------------------------
(***************************************************************************)
(* The pool's steps are steps of the queue.                                *)
(***************************************************************************)
LEMMA ThreadKinds == Workers \subseteq Threads /\ Clients \subseteq Threads
BY ThreadsAssumption

LEMMA PoolStepIsQueueStep ==
  ASSUME TypeOK, Jobs, [Next]_vars PROVE [QNext]_qvars
<1> USE ThreadKinds
<1>1. CASE UNCHANGED vars
  BY <1>1 DEF vars
<1>2. ASSUME NEW t \in Threads, InQueue(t) PROVE QNext
  BY <1>2 DEF InQueue, QNext
<1>3. ASSUME NEW t \in Threads, ExecuteStep(t) PROVE [QNext]_qvars
  BY <1>3 DEF ExecuteStep, ExecuteLoop, ExecutePush, ExecutePushed, QNext, QCall,
     Jobs, At
<1>4. ASSUME NEW w \in Workers, WorkerStep(w) PROVE [QNext]_qvars
  BY <1>4 DEF WorkerStep, WorkerLoop, WorkerPop, WorkerPopped, Spawn, AsyncExecute,
     Finish, QNext, QCall
<1>5. ASSUME NEW c \in Clients, ClientStep(c) \/ ClientCall(c) PROVE [QNext]_qvars
  BY <1>5 DEF ClientStep, ClientCall, AsyncExecute, Join, JoinClose, JoinReturn,
     QNext, QCall
<1> QED BY <1>1, <1>2, <1>3, <1>4, <1>5 DEF Next

LEMMA PoolQInv == ASSUME IInv, [Next]_vars PROVE QInv'
BY PoolStepIsQueueStep, StepQInv DEF IInv

----------------------------------------------------------------------------
(***************************************************************************)
(* Steps that move no task.                                                *)
(***************************************************************************)
LEMMA QuietPlaces ==
  ASSUME UNCHANGED <<queue, finished>>,
         \A w \in Workers : Held(w)' = Held(w)
  PROVE  /\ Queued' = Queued
         /\ InPool' = InPool
         /\ AtMostOnce => AtMostOnce'
<1>1. Queued' = Queued
  BY DEF Queued
<1>2. InPool' = InPool
  <2> DEFINE H(w) == Held(w)
  <2>1. UNION {Held(w)' : w \in Workers} = UNION {Held(w) : w \in Workers}
    OBVIOUS
  <2> QED BY <1>1, <2>1 DEF InPool
<1>3. AtMostOnce => AtMostOnce'
  BY <1>1 DEF AtMostOnce
<1> QED BY <1>1, <1>2, <1>3

\* The queue's last operation of t has returned true.
Delivered(t) == pc[t] = "idle" /\ ret[t]

\* A step inside the queue that neither inserts nor takes an element.
LEMMA QuietInv ==
  ASSUME IInv, QTypeOK', Nested', UNCHANGED evars, UNCHANGED <<queue, arg>>,
         \A t \in Threads : ctl[t] \in {"push", "pop"} =>
           (Delivered(t)' <=> Delivered(t))
  PROVE  /\ TypeOK' /\ Jobs' /\ Running' /\ Popped'
         /\ JobPlace' /\ AnswerIsTrue' /\ AtMostOnce' /\ Late'
         /\ \A w \in Workers : Held(w)' = Held(w)
<1> USE DEF evars, Delivered
<1>1. TypeOK'
  BY DEF IInv, TypeOK
<1>2. Jobs' /\ Running' /\ Late'
  BY DEF IInv, Jobs, Running, Late
<1>3. Popped'
  BY ThreadKinds DEF IInv, Popped
<1>4. \A w \in Workers : Held(w)' = Held(w)
  BY ThreadKinds DEF Held, TaskInHand
<1>5. InPool' = InPool /\ AtMostOnce'
  BY <1>4, QuietPlaces DEF IInv
<1>6. JobPlace'
  BY <1>5 DEF IInv, JobPlace, Pushed
<1>7. AnswerIsTrue'
  BY <1>5 DEF IInv, AnswerIsTrue
<1> QED BY <1>4, <1>1, <1>2, <1>3, <1>5, <1>6, <1>7

\* Locking, sleeping, waking, timing out, refusing and broadcasting.
LEMMA QuietQueueInv ==
  ASSUME IInv, NEW t \in Threads, UNCHANGED evars, QTypeOK',
         \/ Lock(t, "push_lock", "push_test") \/ Lock(t, "push_wake", "push_test")
         \/ Lock(t, "pop_lock", "pop_test") \/ Lock(t, "pop_wake", "pop_test")
         \/ Sleep(t, "push_sleep", "push_wait") \/ Sleep(t, "pop_sleep", "pop_wait")
         \/ WakeUp(t) \/ TimedOut(t) \/ PushTest(t) \/ CloseStep(t)
         \/ PopTest(t) /\ queue = <<>>
  PROVE  /\ TypeOK' /\ Nested' /\ Jobs' /\ Running' /\ Popped'
         /\ JobPlace' /\ AnswerIsTrue' /\ AtMostOnce' /\ Late'
         /\ \A w \in Workers : Held(w)' = Held(w)
<1> USE DEF Goto, Result, Unlock
<1>1. QTypeOK /\ Nested
  BY DEF IInv, TypeOK
<1>2. UNCHANGED <<queue, arg, ctl>>
  BY DEF Lock, Sleep, WakeUp, TimedOut, PushTest, CloseStep, PopTest, evars
<1>3. CASE CloseStep(t)
  <2>1. Nested'
    BY <1>1, <1>2, <1>3 DEF CloseStep, NotifyAll, Nested, QTypeOK
  <2>2. \A u \in Threads : ctl[u] \in {"push", "pop"} => (Delivered(u)' <=> Delivered(u))
    BY <1>1, <1>2, <1>3 DEF CloseStep, NotifyAll, Nested, QTypeOK, Delivered
  <2> QED BY <1>2, <2>1, <2>2, QuietInv
<1>4. CASE ~CloseStep(t)
  <2>1. Nested'
    BY <1>1, <1>2, <1>4 DEF Lock, Sleep, WakeUp, TimedOut, PushTest, PopTest, Nested, QTypeOK
  <2>2. \A u \in Threads : ctl[u] \in {"push", "pop"} => (Delivered(u)' <=> Delivered(u))
    BY <1>1, <1>2, <1>4
       DEF Lock, Sleep, WakeUp, TimedOut, PushTest, PopTest, Nested, QTypeOK, Delivered
  <2> QED BY <1>2, <2>1, <2>2, QuietInv
<1> QED BY <1>3, <1>4

----------------------------------------------------------------------------
(***************************************************************************)
(* The two steps that move a task through the queue.                       *)
(***************************************************************************)
\* What a thread that leaves an operation and wakes another does to the pool.
LEMMA NotifyNested ==
  ASSUME Nested, QTypeOK, UNCHANGED ctl, NEW t \in Threads, NEW waiting, NEW wake,
         \/ waiting = "pop_wait" /\ wake = "pop_wake"
         \/ waiting = "push_wait" /\ wake = "push_wake",
         pc[t] # waiting,
         LeaveAndNotify(t, waiting, wake)
  PROVE  /\ Nested'
         /\ pc'[t] = "idle"
         /\ \A u \in Threads \ {t} : pc'[u] = "idle" <=> pc[u] = "idle"
<1>1. CASE pc' = [pc EXCEPT ![t] = "idle"]
  BY <1>1 DEF Nested, QTypeOK
<1>2. ASSUME NEW u \in Threads, pc[u] = waiting, u # t,
             pc' = [pc EXCEPT ![t] = "idle", ![u] = wake]
      PROVE  /\ Nested'
             /\ pc'[t] = "idle"
             /\ \A v \in Threads \ {t} : pc'[v] = "idle" <=> pc[v] = "idle"
  BY <1>2 DEF Nested, QTypeOK
<1> QED BY <1>1, <1>2 DEF LeaveAndNotify, Goto

LEMMA AppendQueued ==
  ASSUME queue \in Seq(Tasks), NEW k \in Tasks, queue' = Append(queue, k)
  PROVE  /\ Queued' = Queued \cup {k}
         /\ (k \notin Queued /\ \A i, j \in 1..Len(queue) : queue[i] = queue[j] => i = j)
              => \A i, j \in 1..Len(queue') : queue'[i] = queue'[j] => i = j
<1>1. /\ Len(queue) \in Nat
      /\ Len(queue') = Len(queue) + 1
      /\ \A i \in 1..Len(queue) : queue'[i] = queue[i]
      /\ queue'[Len(queue) + 1] = k
  OBVIOUS
<1>2. 1..Len(queue') = 1..Len(queue) \cup {Len(queue) + 1}
  BY <1>1
<1> QED BY <1>1, <1>2 DEF Queued

LEMMA TailQueued ==
  ASSUME queue \in Seq(Tasks), queue # <<>>, queue' = Tail(queue),
         \A i, j \in 1..Len(queue) : queue[i] = queue[j] => i = j
  PROVE  /\ Queued = Queued' \cup {Head(queue)}
         /\ Head(queue) \notin Queued'
         /\ \A i, j \in 1..Len(queue') : queue'[i] = queue'[j] => i = j
<1>1. /\ Len(queue) \in Nat \ {0}
      /\ Len(queue') = Len(queue) - 1
      /\ \A i \in 1..Len(queue') : queue'[i] = queue[i + 1]
      /\ Head(queue) = queue[1]
  OBVIOUS
<1>2. \A i \in 1..Len(queue) : i = 1 \/ i - 1 \in 1..Len(queue')
  BY <1>1
<1>3. \A i \in 1..Len(queue) : i = 1 \/ queue[i] = queue'[i - 1]
  BY <1>1
<1>4. \A i \in 1..Len(queue') : i + 1 \in 1..Len(queue) /\ i + 1 # 1
  BY <1>1
<1>5. Queued = Queued' \cup {Head(queue)}
  BY <1>1, <1>2, <1>3, <1>4 DEF Queued
<1>6. Head(queue) \notin Queued'
  BY <1>1, <1>4 DEF Queued
<1>7. ASSUME NEW i \in 1..Len(queue'), NEW j \in 1..Len(queue'), queue'[i] = queue'[j]
      PROVE  i = j
  <2>1. queue[i + 1] = queue[j + 1]
    BY <1>1, <1>7
  <2>2. i + 1 = j + 1
    BY <1>4, <2>1
  <2> QED BY <1>1, <2>2
<1> QED BY <1>5, <1>6, <1>7

\* PushPut(t) puts t's job in the pool, at the end of the queue.
LEMMA PushPutFacts ==
  ASSUME IInv, NEW t \in Threads, PushPut(t), UNCHANGED evars, QTypeOK'
  PROVE  LET k == job[t] IN
         /\ ctl[t] = "push" /\ arg[t] = k /\ k \in Tasks /\ k \notin InPool
         /\ answer[k] = "pending" /\ t \notin {w \in Workers : ctl[w] = "pop"}
         /\ Nested' /\ pc'[t] = "idle"
         /\ \A u \in Threads \ {t} : pc'[u] = "idle" <=> pc[u] = "idle"
         /\ Queued' = Queued \cup {k}
         /\ \A i, j \in 1..Len(queue') : queue'[i] = queue'[j] => i = j
         /\ \A w \in Workers : Held(w)' = Held(w)
         /\ InPool' = InPool \cup {k}
<1> DEFINE k == job[t]
<1>1. /\ ctl[t] = "push" /\ arg[t] = k /\ k \in Tasks /\ k \notin InPool
      /\ answer[k] = "pending" /\ t \notin {w \in Workers : ctl[w] = "pop"}
  BY DEF IInv, PushPut, Nested, Jobs, JobPlace, Pushed
<1>2. /\ Nested' /\ pc'[t] = "idle"
      /\ \A u \in Threads \ {t} : pc'[u] = "idle" <=> pc[u] = "idle"
  BY NotifyNested DEF IInv, TypeOK, PushPut, evars
<1>3. /\ Queued' = Queued \cup {k}
      /\ \A i, j \in 1..Len(queue') : queue'[i] = queue'[j] => i = j
  <2>1. k \notin Queued
    BY <1>1 DEF InPool
  <2> QED BY <1>1, <2>1, AppendQueued DEF IInv, TypeOK, QTypeOK, PushPut, AtMostOnce
<1>4. \A w \in Workers : Held(w)' = Held(w)
  BY <1>1, <1>2, ThreadKinds DEF Held, TaskInHand, PushPut, Result, evars, IInv, TypeOK, QTypeOK
<1>5. InPool' = InPool \cup {k}
  BY <1>3, <1>4 DEF InPool, evars
<1> QED BY <1>1, <1>2, <1>3, <1>4, <1>5

LEMMA PushPutInv ==
  ASSUME IInv, NEW t \in Threads, PushPut(t), UNCHANGED evars, QTypeOK'
  PROVE  /\ TypeOK' /\ Nested' /\ Jobs' /\ Running' /\ Popped'
         /\ JobPlace' /\ AnswerIsTrue' /\ AtMostOnce' /\ Late'
<1> DEFINE k == job[t]
<1>1. /\ ctl[t] = "push" /\ arg[t] = k /\ k \in Tasks /\ k \notin InPool
      /\ answer[k] = "pending" /\ t \notin {w \in Workers : ctl[w] = "pop"}
  BY PushPutFacts
<1>2. /\ Nested' /\ pc'[t] = "idle"
      /\ \A u \in Threads \ {t} : pc'[u] = "idle" <=> pc[u] = "idle"
  BY PushPutFacts
<1>3. /\ Queued' = Queued \cup {k}
      /\ \A i, j \in 1..Len(queue') : queue'[i] = queue'[j] => i = j
  BY PushPutFacts
<1>4. \A w \in Workers : Held(w)' = Held(w)
  BY PushPutFacts
<1>5. InPool' = InPool \cup {k}
  BY PushPutFacts
<1>6. AtMostOnce'
  BY <1>1, <1>3, <1>4 DEF IInv, AtMostOnce, InPool, evars
<1>7. TypeOK'
  BY DEF IInv, TypeOK, evars
<1>8. Jobs' /\ Running' /\ Late'
  BY DEF IInv, Jobs, Running, Late, evars, PushPut
<1>9. Popped'
  BY <1>1, <1>2, ThreadKinds DEF IInv, TypeOK, QTypeOK, Popped, evars, PushPut, Result
<1>10. JobPlace'
  <2>1. Pushed(t)'
    BY <1>1, <1>2 DEF Pushed, PushPut, Result, evars, IInv, TypeOK, QTypeOK
  <2>2. ASSUME NEW u \in Threads \ {t}, ctl[u] \in ExecutePoints
        PROVE  job[u] # k /\ (Pushed(u)' <=> Pushed(u))
    BY <1>1, <1>2, <2>2 DEF Pushed, PushPut, Result, evars, IInv, Jobs, TypeOK, QTypeOK
  <2> QED BY <1>5, <2>1, <2>2 DEF IInv, JobPlace, evars
<1>11. AnswerIsTrue'
  BY <1>1, <1>5 DEF IInv, AnswerIsTrue, evars
<1> QED BY <1>2, <1>6, <1>7, <1>8, <1>9, <1>10, <1>11

\* PopTest(t) moves the oldest queued task into the hands of worker t.
LEMMA PopTakeFacts ==
  ASSUME IInv, NEW t \in Threads, PopTest(t), queue # <<>>, UNCHANGED evars, QTypeOK'
  PROVE  LET k == Head(queue) IN
         /\ ctl[t] = "pop" /\ t \in Workers /\ pc[t] # "idle"
         /\ queue \in Seq(Tasks) /\ k \in Tasks
         /\ arg' = [arg EXCEPT ![t] = k] /\ queue' = Tail(queue)
         /\ ret' = [ret EXCEPT ![t] = TRUE]
         /\ Nested' /\ pc'[t] = "idle"
         /\ \A u \in Threads \ {t} : pc'[u] = "idle" <=> pc[u] = "idle"
         /\ Queued = Queued' \cup {k} /\ k \notin Queued'
         /\ \A i, j \in 1..Len(queue') : queue'[i] = queue'[j] => i = j
         /\ Held(t) = {} /\ Held(t)' = {k}
         /\ \A w \in Workers \ {t} : Held(w)' = Held(w)
         /\ InPool' = InPool
<1> DEFINE k == Head(queue)
<1>1. /\ ctl[t] = "pop" /\ t \in Workers /\ pc[t] # "idle"
      /\ queue \in Seq(Tasks) /\ k \in Tasks
  <2>1. ctl[t] = "pop" /\ pc[t] # "idle"
    BY DEF IInv, PopTest, Nested
  <2>2. t \in Workers
    BY <2>1, ThreadsAssumption DEF IInv, TypeOK
  <2> QED BY <2>1, <2>2 DEF IInv, TypeOK, QTypeOK
<1>2. /\ LeaveAndNotify(t, "push_wait", "push_wake")
      /\ arg' = [arg EXCEPT ![t] = k] /\ queue' = Tail(queue)
      /\ ret' = [ret EXCEPT ![t] = TRUE]
  BY DEF PopTest, Result
<1>3. /\ Nested' /\ pc'[t] = "idle"
      /\ \A u \in Threads \ {t} : pc'[u] = "idle" <=> pc[u] = "idle"
  BY <1>2, NotifyNested DEF IInv, TypeOK, PopTest, evars
<1>4. /\ Queued = Queued' \cup {k} /\ k \notin Queued'
      /\ \A i, j \in 1..Len(queue') : queue'[i] = queue'[j] => i = j
  BY <1>1, <1>2, TailQueued DEF IInv, AtMostOnce
<1>5. /\ Held(t) = {} /\ Held(t)' = {k}
      /\ \A w \in Workers \ {t} : Held(w)' = Held(w)
  BY <1>1, <1>2, <1>3, ThreadKinds, NoValueAssumption
     DEF Held, TaskInHand, evars, IInv, TypeOK, QTypeOK
<1>6. InPool' = InPool
  <2>1. UNION {Held(w)' : w \in Workers} = {k} \cup UNION {Held(w) : w \in Workers}
    BY <1>1, <1>5
  <2> QED BY <1>4, <2>1 DEF InPool, evars
<1> QED BY <1>1, <1>2, <1>3, <1>4, <1>5, <1>6

LEMMA PopTakeInv ==
  ASSUME IInv, NEW t \in Threads, PopTest(t), queue # <<>>, UNCHANGED evars, QTypeOK'
  PROVE  /\ TypeOK' /\ Nested' /\ Jobs' /\ Running' /\ Popped'
         /\ JobPlace' /\ AnswerIsTrue' /\ AtMostOnce' /\ Late'
<1> DEFINE k == Head(queue)
<1>1. /\ ctl[t] = "pop" /\ t \in Workers /\ pc[t] # "idle"
      /\ queue \in Seq(Tasks) /\ k \in Tasks
  BY PopTakeFacts
<1>2. /\ arg' = [arg EXCEPT ![t] = k] /\ queue' = Tail(queue)
      /\ ret' = [ret EXCEPT ![t] = TRUE]
  BY PopTakeFacts
<1>3. /\ Nested' /\ pc'[t] = "idle"
      /\ \A u \in Threads \ {t} : pc'[u] = "idle" <=> pc[u] = "idle"
  BY PopTakeFacts
<1>4. /\ Queued = Queued' \cup {k} /\ k \notin Queued'
      /\ \A i, j \in 1..Len(queue') : queue'[i] = queue'[j] => i = j
  BY PopTakeFacts
<1>5. /\ Held(t) = {} /\ Held(t)' = {k}
      /\ \A w \in Workers \ {t} : Held(w)' = Held(w)
  BY PopTakeFacts
<1>6. InPool' = InPool
  BY PopTakeFacts
<1>7. AtMostOnce'
  <2>1. \A w \in Workers : k \notin Held(w)
    BY <1>4 DEF IInv, AtMostOnce
  <2>2. k \notin finished
    BY <1>4 DEF IInv, AtMostOnce
  <2>3. \A w \in Workers : Held(w)' \cap (Queued' \cup finished') = {}
    BY <1>4, <1>5, <2>2 DEF IInv, AtMostOnce, evars
  <2>4. \A v, w \in Workers : Held(v)' \cap Held(w)' # {} => v = w
    BY <1>5, <2>1 DEF IInv, AtMostOnce
  <2>5. Queued' \cap finished' = {}
    BY <1>4 DEF IInv, AtMostOnce, evars
  <2> QED BY <1>4, <2>3, <2>4, <2>5 DEF AtMostOnce
<1>8. TypeOK'
  BY DEF IInv, TypeOK, evars
<1>9. Jobs' /\ Running' /\ Late'
  BY <1>1, <1>2 DEF IInv, Jobs, Running, Late, evars, TypeOK, QTypeOK
<1>10. Popped'
  BY <1>1, <1>2, <1>3, ThreadKinds DEF IInv, TypeOK, QTypeOK, Popped, evars
<1>11. JobPlace'
  <2>1. \A u \in Threads : ctl[u] \in ExecutePoints => (Pushed(u)' <=> Pushed(u))
    BY <1>1, <1>2, <1>3 DEF Pushed, evars, IInv, TypeOK, QTypeOK
  <2> QED BY <1>6, <2>1 DEF IInv, JobPlace, evars
<1>12. AnswerIsTrue'
  BY <1>6 DEF IInv, AnswerIsTrue, evars
<1> QED BY <1>3, <1>7, <1>8, <1>9, <1>10, <1>11, <1>12

----------------------------------------------------------------------------
(***************************************************************************)
(* The executor's own steps.                                               *)
(***************************************************************************)
LEMMA AsyncExecuteInv ==
  ASSUME IInv, NEW t \in Threads, NEW k \in Tasks, AsyncExecute(t, k), QTypeOK'
  PROVE  /\ TypeOK' /\ Nested' /\ Jobs' /\ Running' /\ Popped'
         /\ JobPlace' /\ AnswerIsTrue' /\ AtMostOnce' /\ Late'
         /\ \A w \in Workers : Held(w)' = Held(w)
<1> USE ThreadKinds DEF AsyncExecute, At, Move, Answer, Caller, qvars
<1>1. /\ ctl[t] \in {"run", "free"} /\ ctl'[t] \in {"run", "free", "execute"}
      /\ t \in Workers => ctl[t] = "run" /\ ctl'[t] \in {"run", "execute"}
      /\ \A u \in Threads \ {t} : ctl'[u] = ctl[u]
  BY DEF IInv, TypeOK
<1>2. TypeOK'
  BY ThreadsAssumption DEF IInv, TypeOK
<1>3. Nested'
  BY DEF IInv, Nested, TypeOK
<1>4. Running' /\ Popped' /\ Late'
  BY DEF IInv, Running, Popped, Late, TypeOK
<1>5. Jobs'
  BY DEF IInv, Jobs, TypeOK
<1>6. \A w \in Workers : Held(w)' = Held(w)
  BY <1>1 DEF Held, TaskInHand
<1>7. InPool' = InPool /\ AtMostOnce'
  BY <1>6, QuietPlaces DEF IInv
<1>8. k \notin InPool
  BY DEF IInv, AnswerIsTrue
<1>9. JobPlace'
  BY <1>1, <1>7, <1>8 DEF IInv, JobPlace, Pushed, TypeOK
<1>10. AnswerIsTrue'
  BY <1>7, <1>8 DEF IInv, AnswerIsTrue, TypeOK
<1> QED BY <1>6, <1>2, <1>3, <1>4, <1>5, <1>7, <1>9, <1>10

LEMMA ExecuteStepInv ==
  ASSUME IInv, NEW t \in Threads, ExecuteStep(t), QTypeOK'
  PROVE  /\ TypeOK' /\ Nested' /\ Jobs' /\ Running' /\ Popped'
         /\ JobPlace' /\ AnswerIsTrue' /\ AtMostOnce' /\ Late'
         /\ \A w \in Workers : Held(w)' = Held(w)
<1> USE ThreadKinds, ThreadsAssumption
    DEF ExecuteStep, ExecuteLoop, ExecutePush, ExecutePushed, At, Move, Answer,
        Caller, qvars, CallPush, Goto, Result
<1>1. /\ ctl[t] \in ExecutePoints /\ ctl'[t] \in ExecutePoints \cup {"run", "free"}
      /\ t \in Workers => ctl'[t] # "free"
      /\ t \notin Workers => ctl'[t] # "run"
      /\ \A u \in Threads \ {t} : ctl'[u] = ctl[u] /\ pc'[u] = pc[u] /\ arg'[u] = arg[u]
                                  /\ ret'[u] = ret[u] /\ job'[u] = job[u]
      /\ job[t] \in Tasks /\ answer[job[t]] = "pending"
      /\ \A j \in Tasks \ {job[t]} : answer'[j] = answer[j]
      /\ UNCHANGED <<queue, finished, task, late, done, crashed>>
  BY DEF IInv, Jobs, TypeOK, QTypeOK
<1>2. TypeOK'
  BY <1>1 DEF IInv, TypeOK
<1>3. Nested'
  BY DEF IInv, Nested, TypeOK, QTypeOK
<1>4. Running' /\ Popped' /\ Late'
  BY <1>1 DEF IInv, Running, Popped, Late, TypeOK
<1>5. Jobs'
  <2>1. ctl'[t] \in ExecutePoints => job'[t] = job[t] /\ UNCHANGED answer
    BY <1>1 DEF IInv, TypeOK
  <2>2. \A u \in Threads \ {t} : ctl[u] \in ExecutePoints => job[u] # job[t]
    BY <1>1 DEF IInv, Jobs
  <2>3. \A u \in Threads : ctl'[u] \in ExecutePoints =>
           job'[u] \in Tasks /\ answer'[job'[u]] = "pending"
    BY <1>1, <2>1, <2>2 DEF IInv, Jobs
  <2>4. \A u \in Threads : ctl'[u] = "push" => arg'[u] = job'[u]
    <3>1. \A u \in Threads \ {t} : ctl'[u] = "push" => arg'[u] = job'[u]
      BY <1>1 DEF IInv, Jobs
    <3>2. ctl'[t] = "push" => arg'[t] = job'[t]
      BY DEF IInv, TypeOK, QTypeOK
    <3> QED BY <3>1, <3>2
  <2>5. \A u, v \in Threads :
          ctl'[u] \in ExecutePoints /\ ctl'[v] \in ExecutePoints /\ job'[u] = job'[v]
            => u = v
    BY <1>1, <2>1, <2>2 DEF IInv, Jobs
  <2> QED BY <2>3, <2>4, <2>5 DEF Jobs
<1>6. \A w \in Workers : Held(w)' = Held(w)
  BY <1>1 DEF Held, TaskInHand
<1>7. InPool' = InPool /\ AtMostOnce'
  BY <1>1, <1>6, QuietPlaces DEF IInv
<1>8. JobPlace'
  <2>1. ASSUME NEW u \in Threads \ {t}, ctl'[u] \in ExecutePoints
        PROVE  job'[u] \in InPool' <=> Pushed(u)'
    BY <1>1, <1>7, <2>1 DEF IInv, JobPlace, Pushed
  <2>2. ASSUME ctl'[t] \in ExecutePoints
        PROVE  job'[t] \in InPool' <=> Pushed(t)'
    BY <1>1, <1>7, <2>2 DEF IInv, JobPlace, Pushed, TypeOK, QTypeOK
  <2> QED BY <2>1, <2>2 DEF JobPlace
<1>9. AnswerIsTrue'
  BY <1>1, <1>7 DEF IInv, AnswerIsTrue, TypeOK, JobPlace, Pushed
<1> QED BY <1>6, <1>2, <1>3, <1>4, <1>5, <1>7, <1>8, <1>9

LEMMA ClientStepInv ==
  ASSUME IInv, NEW c \in Clients, ClientStep(c) \/ Join(c), QTypeOK'
  PROVE  /\ TypeOK' /\ Nested' /\ Jobs' /\ Running' /\ Popped'
         /\ JobPlace' /\ AnswerIsTrue' /\ AtMostOnce' /\ Late'
         /\ \A w \in Workers : Held(w)' = Held(w)
<1> USE ThreadKinds, ThreadsAssumption
    DEF ClientStep, Join, JoinClose, JoinReturn, At, Move, qvars, CallClose, Goto
<1>1. /\ ctl[c] \in ClientPoints /\ ctl'[c] \in ClientPoints /\ c \notin Workers
      /\ \A u \in Threads \ {c} : ctl'[u] = ctl[u] /\ pc'[u] = pc[u]
      /\ UNCHANGED <<queue, arg, ret, finished, task, job, answer, late, crashed>>
      /\ done => done'
  BY DEF IInv, TypeOK, QTypeOK
<1>2. TypeOK'
  <2>1. ctl' \in [Threads -> WorkerPoints \cup ClientPoints \cup ExecutePoints]
    BY DEF IInv, TypeOK
  <2>2. done' \in BOOLEAN
    BY DEF IInv, TypeOK
  <2> QED BY <1>1, <2>1, <2>2 DEF IInv, TypeOK
<1>3. Nested'
  BY DEF IInv, Nested, TypeOK, QTypeOK
<1>4. Jobs' /\ Running' /\ Popped' /\ Late'
  BY <1>1 DEF IInv, Jobs, Running, Popped, Late
<1>5. \A w \in Workers : Held(w)' = Held(w)
  BY <1>1 DEF Held, TaskInHand
<1>6. InPool' = InPool /\ AtMostOnce'
  BY <1>1, <1>5, QuietPlaces DEF IInv
<1>7. JobPlace'
  BY <1>1, <1>6 DEF IInv, JobPlace, Pushed
<1>8. AnswerIsTrue'
  BY <1>1, <1>6 DEF IInv, AnswerIsTrue
<1> QED BY <1>5, <1>2, <1>3, <1>4, <1>6, <1>7, <1>8

LEMMA WorkerTurnInv ==
  ASSUME IInv, NEW w \in Workers,
         WorkerLoop(w) \/ WorkerPop(w) \/ WorkerPopped(w), QTypeOK'
  PROVE  /\ TypeOK' /\ Nested' /\ Jobs' /\ Running' /\ Popped'
         /\ JobPlace' /\ AnswerIsTrue' /\ AtMostOnce' /\ Late'
         /\ \A u \in Workers : Held(u)' = Held(u)
<1> USE ThreadKinds, ThreadsAssumption
    DEF WorkerLoop, WorkerPop, WorkerPopped, At, Move, qvars, CallPop, Goto, Result
<1>1. /\ ctl[w] \in {"loop", "pop_call", "pop"}
      /\ ctl'[w] \in {"loop", "pop_call", "pop", "run", "exited"}
      /\ \A u \in Threads \ {w} : ctl'[u] = ctl[u] /\ pc'[u] = pc[u] /\ arg'[u] = arg[u]
                                  /\ ret'[u] = ret[u]
      /\ \A u \in Workers \ {w} : task'[u] = task[u] /\ late'[u] = late[u]
      /\ UNCHANGED <<queue, finished, job, answer, done, crashed>>
  BY DEF IInv, TypeOK, QTypeOK
<1>2. late'[w] \in Nat /\ task'[w] \in Tasks \cup {NoValue}
  BY DEF IInv, TypeOK, Popped
<1>3. TypeOK'
  <2>1. task' \in [Workers -> Tasks \cup {NoValue}]
    BY DEF IInv, TypeOK, Popped
  <2>2. late' \in [Workers -> Nat]
    BY DEF IInv, TypeOK
  <2>3. ctl' \in [Threads -> WorkerPoints \cup ClientPoints \cup ExecutePoints]
    BY DEF IInv, TypeOK
  <2> QED BY <1>1, <2>1, <2>2, <2>3 DEF IInv, TypeOK
<1>4. Nested'
  BY DEF IInv, Nested, TypeOK, QTypeOK
<1>5. Jobs'
  BY <1>1 DEF IInv, Jobs
<1>6. task[w] = NoValue /\ (ctl'[w] = "run" => task'[w] = arg[w] /\ arg[w] \in Tasks)
      /\ (ctl'[w] # "run" => task'[w] = NoValue)
  BY DEF IInv, Running, Popped, TypeOK
<1>7. Running'
  BY <1>1, <1>6, NoValueAssumption DEF IInv, Running
<1>8. Popped'
  BY <1>1 DEF IInv, Popped, TypeOK, QTypeOK
<1>9. Late'
  BY <1>1 DEF IInv, Late, TypeOK
<1>10. \A u \in Workers : Held(u)' = Held(u)
  <2>1. Held(w)' = Held(w)
    <3>1. CASE WorkerLoop(w)
      BY <1>6, <3>1 DEF Held, TaskInHand, IInv, TypeOK
    <3>2. CASE WorkerPop(w)
      BY <1>6, <3>2 DEF Held, TaskInHand, IInv, TypeOK, QTypeOK
    <3>3. CASE WorkerPopped(w) /\ ret[w]
      BY <1>6, <3>3, NoValueAssumption DEF Held, TaskInHand, IInv, TypeOK
    <3>4. CASE WorkerPopped(w) /\ ~ret[w]
      BY <1>6, <3>4 DEF Held, TaskInHand, IInv, TypeOK
    <3> QED BY <3>1, <3>2, <3>3, <3>4
  <2> QED BY <1>1, <2>1 DEF Held, TaskInHand
<1>11. InPool' = InPool /\ AtMostOnce'
  BY <1>1, <1>10, QuietPlaces DEF IInv
<1>12. JobPlace'
  BY <1>1, <1>11 DEF IInv, JobPlace, Pushed
<1>13. AnswerIsTrue'
  BY <1>1, <1>11 DEF IInv, AnswerIsTrue
<1> QED BY <1>10, <1>3, <1>4, <1>5, <1>7, <1>8, <1>9, <1>11, <1>12, <1>13

LEMMA FinishInv ==
  ASSUME IInv, NEW w \in Workers, NEW outcome, Finish(w, outcome), QTypeOK'
  PROVE  /\ TypeOK' /\ Nested' /\ Jobs' /\ Running' /\ Popped'
         /\ JobPlace' /\ AnswerIsTrue' /\ AtMostOnce' /\ Late'
<1> USE ThreadKinds, ThreadsAssumption DEF Finish, At, Move, qvars
<1> DEFINE k == task[w]
<1>1. /\ ctl[w] = "run" /\ ctl'[w] = "loop" /\ k \in Tasks /\ k # NoValue
      /\ \A u \in Threads \ {w} : ctl'[u] = ctl[u]
      /\ \A u \in Workers \ {w} : task'[u] = task[u]
      /\ task'[w] = NoValue
      /\ finished' = finished \cup {k}
      /\ UNCHANGED <<queue, pc, arg, ret, job, answer, done, late>>
  BY DEF IInv, TypeOK, Running
<1>2. TypeOK'
  BY <1>1 DEF IInv, TypeOK
<1>3. Nested' /\ Jobs' /\ Popped' /\ Late'
  BY <1>1 DEF IInv, Nested, Jobs, Popped, Late, TypeOK
<1>4. Running'
  BY <1>1 DEF IInv, Running
<1>5. /\ Held(w) = {k} /\ Held(w)' = {}
      /\ \A u \in Workers \ {w} : Held(u)' = Held(u)
  BY <1>1 DEF Held, TaskInHand
<1>6. Queued' = Queued
  BY <1>1 DEF Queued
<1>7. InPool' = InPool
  <2>1. {k} \cup UNION {Held(u)' : u \in Workers} = UNION {Held(u) : u \in Workers}
    BY <1>5
  <2> QED BY <1>1, <1>6, <2>1 DEF InPool
<1>8. AtMostOnce'
  BY <1>1, <1>5, <1>6 DEF IInv, AtMostOnce
<1>9. JobPlace'
  BY <1>1, <1>7 DEF IInv, JobPlace, Pushed
<1>10. AnswerIsTrue'
  BY <1>1, <1>7 DEF IInv, AnswerIsTrue
<1> QED BY <1>2, <1>3, <1>4, <1>8, <1>9, <1>10

----------------------------------------------------------------------------
THEOREM InitInv == Init => IInv
<1> SUFFICES ASSUME Init PROVE IInv
  OBVIOUS
<1> USE ThreadKinds, ThreadsAssumption DEF Init
<1>1. QInv
  BY InitQInv
<1>2. /\ queue = <<>> /\ finished = {} /\ Queued = {}
      /\ \A t \in Threads : pc[t] = "idle" /\ ctl[t] \in {"loop", "free"}
      /\ \A w \in Workers : ctl[w] = "loop" /\ task[w] = NoValue
  BY DEF QInit, Queued
<1>3. \A w \in Workers : Held(w) = {}
  BY <1>2 DEF Held, TaskInHand
<1>4. InPool = {}
  BY <1>2, <1>3 DEF InPool
<1>5. TypeOK
  BY <1>1 DEF QInv, TypeOK
<1>6. Nested /\ Jobs /\ Running /\ Popped /\ JobPlace
  BY <1>2 DEF Nested, Jobs, Running, Popped, JobPlace
<1>7. Late
  BY DEF Late
<1>8. AnswerIsTrue /\ AtMostOnce
  BY <1>2, <1>3, <1>4 DEF AnswerIsTrue, AtMostOnce
<1> QED BY <1>1, <1>5, <1>6, <1>7, <1>8 DEF IInv

THEOREM StepInv == IInv /\ [Next]_vars => IInv'
<1> SUFFICES ASSUME IInv, [Next]_vars PROVE IInv'
  OBVIOUS
<1> USE ThreadKinds
<1> DEFINE Rest == /\ TypeOK /\ Nested /\ Jobs /\ Running /\ Popped
                   /\ JobPlace /\ AnswerIsTrue /\ AtMostOnce /\ Late
<1>1. QInv' /\ QTypeOK'
  BY PoolQInv DEF QInv
<1>2. CASE UNCHANGED vars
  <2>1. \A w \in Workers : Held(w)' = Held(w)
    BY <1>2 DEF vars, qvars, evars, Held, TaskInHand
  <2>2. InPool' = InPool /\ AtMostOnce'
    BY <1>2, <2>1, QuietPlaces DEF vars, qvars, evars, IInv
  <2>3. JobPlace' /\ AnswerIsTrue'
    BY <1>2, <2>2 DEF vars, qvars, evars, IInv, JobPlace, AnswerIsTrue, Pushed
  <2>4. TypeOK' /\ Nested' /\ Jobs' /\ Running' /\ Popped' /\ Late'
    BY <1>1, <1>2 DEF vars, qvars, evars, IInv, TypeOK, Nested, Jobs, Running, Popped, Late
  <2> QED BY <1>1, <2>2, <2>3, <2>4 DEF IInv
<1>3. ASSUME NEW t \in Threads, InQueue(t) PROVE Rest'
  <2>1. UNCHANGED evars /\ QStep(t)
    BY <1>3 DEF InQueue
  <2>2. CASE PushPut(t)
    BY <1>1, <2>1, <2>2, PushPutInv
  <2>3. CASE PopTest(t) /\ queue # <<>>
    BY <1>1, <2>1, <2>3, PopTakeInv
  <2>4. CASE ~PushPut(t) /\ ~(PopTest(t) /\ queue # <<>>)
    BY <1>1, <2>1, <2>4, QuietQueueInv DEF QStep, PushStep, PopStep
  <2> QED BY <2>2, <2>3, <2>4
<1>4. ASSUME NEW t \in Threads, ExecuteStep(t) PROVE Rest'
  BY <1>1, <1>4, ExecuteStepInv
<1>5. ASSUME NEW w \in Workers, WorkerStep(w) PROVE Rest'
  <2>1. CASE WorkerLoop(w) \/ WorkerPop(w) \/ WorkerPopped(w)
    BY <1>1, <2>1, WorkerTurnInv
  <2>2. CASE Spawn(w)
    <3>1. Child[task[w]] \in Tasks
      BY <2>2, ChildAssumption DEF Spawn, At, IInv, Running, TypeOK
    <3> QED BY <1>1, <2>2, <3>1, AsyncExecuteInv DEF Spawn
  <2>3. ASSUME NEW outcome \in Outcomes, Finish(w, outcome) PROVE Rest'
    BY <1>1, <2>3, FinishInv
  <2> QED BY <1>5, <2>1, <2>2, <2>3 DEF WorkerStep
<1>6. ASSUME NEW c \in Clients, ClientStep(c) \/ ClientCall(c) PROVE Rest'
  <2>1. CASE ClientStep(c) \/ Join(c)
    BY <1>1, <2>1, ClientStepInv
  <2>2. ASSUME NEW k \in Roots, AsyncExecute(c, k) PROVE Rest'
    BY <1>1, <2>2, RootsAssumption, AsyncExecuteInv
  <2> QED BY <1>6, <2>1, <2>2 DEF ClientCall
<1> QED BY <1>1, <1>2, <1>3, <1>4, <1>5, <1>6 DEF Next, IInv

\* executor.hpp: every state of the pool is type-correct, for any number of
\* threads and tasks.
THEOREM PoolTypeOK == Spec => []TypeOK
<1>1. IInv => TypeOK
  BY DEF IInv
<1> QED BY InitInv, StepInv, <1>1, PTL DEF Spec

\* executor.hpp:28-40, 57-69: no task is queued twice, given to two workers or
\* run again, however pushes are retried and whoever is woken.
THEOREM PoolAtMostOnce == Spec => []AtMostOnce
<1>1. IInv => AtMostOnce
  BY DEF IInv
<1> QED BY InitInv, StepInv, <1>1, PTL DEF Spec

\* executor.hpp:57-69: what async_execute returns is true of the task, also
\* when it races with join().
THEOREM PoolAnswerIsTrue == Spec => []AnswerIsTrue
<1>1. IInv => AnswerIsTrue
  BY DEF IInv
<1> QED BY InitInv, StepInv, <1>1, PTL DEF Spec

\* executor.hpp:28-31: after done_ is set each worker starts at most the one
\* task that its pop was about to deliver.
THEOREM PoolOneLateStart == Spec => []OneLateStart
<1>1. IInv => OneLateStart
  BY DEF IInv, Late, OneLateStart
<1> QED BY InitInv, StepInv, <1>1, PTL DEF Spec

----------------------------------------------------------------------------
(***************************************************************************)
(* The wedge.  When every worker waits for a place in a full queue, the    *)
(* tasks they run and, for each task in the queue, that task itself or the *)
(* one that submitted it, are different tasks of Burden.                   *)
(***************************************************************************)
\* A worker in async_execute submits the child of the task it runs.
NestedJob == \A w \in Workers : ctl[w] \in ExecutePoints => job[w] = Child[task[w]]

\* A task that was submitted came from outside, or the task it is the child of has begun.
Begun(k) == k \in finished \/ \E w \in Workers : task[w] = k
Lineage ==
  \A k \in Tasks : answer[k] # "none" => k \in Roots \/ \E parent \in Tasks : Child[parent] = k /\ Begun(parent)

LEMMA BegunLasts ==
  ASSUME TypeOK, Lineage,
         UNCHANGED answer \/ (\E k \in Tasks, a \in {"pending", "accepted", "rejected"} :
           answer' = [answer EXCEPT ![k] = a] /\
             (answer[k] # "none" \/ k \in Roots \/ \E parent \in Tasks : Child[parent] = k /\ Begun(parent))),
         \A k \in Tasks : Begun(k) => Begun(k)'
  PROVE  Lineage'
<1> SUFFICES ASSUME NEW k \in Tasks, answer'[k] # "none"
             PROVE  k \in Roots \/ \E parent \in Tasks : Child[parent] = k /\ Begun(parent)'
  BY DEF Lineage
<1>1. answer[k] # "none" \/ k \in Roots \/ \E parent \in Tasks : Child[parent] = k /\ Begun(parent)
  <2>1. CASE UNCHANGED answer
    BY <2>1
  <2>2. CASE ~ UNCHANGED answer
    <3>1. PICK j \in Tasks : /\ \A i \in Tasks \ {j} : answer'[i] = answer[i]
                             /\ \/ answer[j] # "none" \/ j \in Roots
                                \/ \E parent \in Tasks : Child[parent] = j /\ Begun(parent)
      BY <2>2 DEF TypeOK
    <3> QED BY <3>1
  <2> QED BY <2>1, <2>2
<1> QED BY <1>1 DEF Lineage

LEMMA StepLineage ==
  ASSUME IInv, NestedJob, Lineage, [Next]_vars
  PROVE  NestedJob' /\ Lineage'
<1> USE ThreadKinds
<1>1. CASE UNCHANGED vars
  BY <1>1 DEF vars, evars, NestedJob, Lineage, Begun
<1>2. ASSUME NEW t \in Threads, InQueue(t) PROVE NestedJob' /\ Lineage'
  BY <1>2 DEF InQueue, evars, NestedJob, Lineage, Begun
<1>3. ASSUME NEW t \in Threads, ExecuteStep(t) PROVE NestedJob' /\ Lineage'
  <2>1. ctl[t] \in ExecutePoints /\ job[t] \in Tasks /\ answer[job[t]] = "pending"
    BY <1>3 DEF ExecuteStep, ExecuteLoop, ExecutePush, ExecutePushed, At, IInv, Jobs
  <2>2. NestedJob'
    BY <1>3, <2>1 DEF ExecuteStep, ExecuteLoop, ExecutePush, ExecutePushed, At, Move, NestedJob, Caller, IInv, TypeOK
  <2>3. UNCHANGED <<finished, task>>
    BY <1>3 DEF ExecuteStep, ExecuteLoop, ExecutePush, ExecutePushed
  <2>4. UNCHANGED answer \/ \E a \in {"accepted", "rejected"} : answer' = [answer EXCEPT ![job[t]] = a]
    BY <1>3 DEF ExecuteStep, ExecuteLoop, ExecutePush, ExecutePushed, Answer
  <2> QED BY <2>1, <2>2, <2>3, <2>4, BegunLasts DEF Begun, IInv
<1>4. ASSUME NEW w \in Workers, WorkerLoop(w) \/ WorkerPop(w) \/ WorkerPopped(w)
      PROVE  NestedJob' /\ Lineage'
  <2>1. ctl[w] \in {"loop", "pop_call", "pop"} /\ task[w] = NoValue
    BY <1>4 DEF WorkerLoop, WorkerPop, WorkerPopped, At, IInv, Running
  <2>2. ctl'[w] \notin ExecutePoints /\ \A u \in Workers \ {w} : ctl'[u] = ctl[u] /\ task'[u] = task[u]
    BY <1>4 DEF WorkerLoop, WorkerPop, WorkerPopped, At, Move, IInv, TypeOK
  <2>3. UNCHANGED <<answer, job, finished>>
    BY <1>4 DEF WorkerLoop, WorkerPop, WorkerPopped
  <2>4. NestedJob'
    BY <2>2, <2>3 DEF NestedJob
  <2>5. \A k \in Tasks : Begun(k) => Begun(k)'
    BY <2>1, <2>2, <2>3, NoValueAssumption DEF Begun
  <2> QED BY <2>3, <2>4, <2>5, BegunLasts DEF IInv
<1>5. ASSUME NEW w \in Workers, Spawn(w) PROVE NestedJob' /\ Lineage'
  <2>1. ctl[w] = "run" /\ task[w] \in Tasks /\ Child[task[w]] \in Tasks
    BY <1>5, ChildAssumption DEF Spawn, At, IInv, Running, TypeOK
  <2>2. UNCHANGED <<finished, task>>
    BY <1>5 DEF Spawn, AsyncExecute
  <2>3. NestedJob'
    BY <1>5, <2>1 DEF Spawn, AsyncExecute, NestedJob, Move, IInv, TypeOK
  <2>4. \E a \in {"pending", "rejected"} : answer' = [answer EXCEPT ![Child[task[w]]] = a]
    BY <1>5 DEF Spawn, AsyncExecute, Answer
  <2>5. Begun(task[w]) /\ \A k \in Tasks : Begun(k) => Begun(k)'
    BY <2>2 DEF Begun
  <2> QED BY <2>1, <2>3, <2>4, <2>5, BegunLasts DEF IInv
<1>6. ASSUME NEW w \in Workers, NEW outcome, Finish(w, outcome) PROVE NestedJob' /\ Lineage'
  <2>1. /\ ctl'[w] = "loop" /\ finished' = finished \cup {task[w]}
        /\ \A u \in Workers \ {w} : ctl'[u] = ctl[u] /\ task'[u] = task[u]
        /\ UNCHANGED <<answer, job>>
    BY <1>6 DEF Finish, Move, IInv, TypeOK
  <2>2. NestedJob'
    BY <2>1 DEF NestedJob
  <2>3. \A k \in Tasks : Begun(k) => Begun(k)'
    BY <2>1 DEF Begun
  <2> QED BY <2>1, <2>2, <2>3, BegunLasts DEF IInv
<1>7. ASSUME NEW c \in Clients, ClientStep(c) \/ Join(c) PROVE NestedJob' /\ Lineage'
  <2>1. UNCHANGED <<answer, job, task, finished>> /\ \A w \in Workers : ctl'[w] = ctl[w]
    BY <1>7, ThreadsAssumption DEF ClientStep, Join, JoinClose, JoinReturn, Move, IInv, TypeOK
  <2> QED BY <2>1 DEF NestedJob, Lineage, Begun
<1>8. ASSUME NEW c \in Clients, NEW k \in Roots, AsyncExecute(c, k) PROVE NestedJob' /\ Lineage'
  <2>1. UNCHANGED <<task, finished>> /\ \A w \in Workers : ctl'[w] = ctl[w] /\ job'[w] = job[w]
    BY <1>8, ThreadsAssumption DEF AsyncExecute, Move, IInv, TypeOK
  <2>2. \E a \in {"pending", "rejected"} : answer' = [answer EXCEPT ![k] = a]
    BY <1>8 DEF AsyncExecute, Answer
  <2>3. NestedJob'
    BY <2>1 DEF NestedJob
  <2> QED BY <2>1, <2>2, <2>3, RootsAssumption, BegunLasts DEF Begun, IInv
<1> QED BY <1>1, <1>2, <1>3, <1>4, <1>5, <1>6, <1>7, <1>8 DEF Next, WorkerStep, ClientCall

\* The task of the burden that a queued task stands for.
StandsFor(k, b) == b = k \/ (k \notin Burden /\ b \in finished \cup {task[w] : w \in Workers} /\ Child[b] = k)

\* When the pool is wedged: the tasks that are run submit one each that is not in the
\* pool, and no queued task stands for them.
LEMMA WedgedTasks ==
  ASSUME IInv, NestedJob, Lineage, Wedged
  PROVE  /\ \A w \in Workers : task[w] \in Burden
         /\ \A v, w \in Workers : task[v] = task[w] => v = w
         /\ \A i \in 1 .. Len(queue) : \E b \in Burden : StandsFor(queue[i], b)
         /\ \A i, j \in 1 .. Len(queue), b \in Burden :
              StandsFor(queue[i], b) /\ StandsFor(queue[j], b) => i = j
         /\ \A i \in 1 .. Len(queue), w \in Workers : ~ StandsFor(queue[i], task[w])
<1> USE ThreadKinds
<1>1. \A w \in Workers : ctl[w] \in ExecutePoints /\ ~ Pushed(w)
  BY DEF Wedged, Waiting, Pushed, At
<1>2. \A w \in Workers : task[w] \in Tasks /\ Held(w) = {task[w]}
  BY <1>1 DEF IInv, Running, TypeOK, Held, TaskInHand
<1>3. \A w \in Workers : Child[task[w]] \in Tasks /\ Child[task[w]] \notin InPool
  BY <1>1, <1>2 DEF NestedJob, IInv, Jobs, JobPlace
<1>4. \A w \in Workers : task[w] \in Burden
  BY <1>2, <1>3, NoValueAssumption DEF Burden
<1>5. \A v, w \in Workers : task[v] = task[w] => v = w
  BY <1>2 DEF IInv, AtMostOnce
<1>6. \A i \in 1 .. Len(queue) : queue[i] \in Tasks /\ queue[i] \in Queued /\ queue[i] \in InPool
  BY DEF IInv, TypeOK, QTypeOK, Queued, InPool
<1>7. \A i \in 1 .. Len(queue) : answer[queue[i]] # "none"
  BY <1>6 DEF IInv, AnswerIsTrue
<1>8. \A i \in 1 .. Len(queue) : \E b \in Burden : StandsFor(queue[i], b)
  <2> SUFFICES ASSUME NEW i \in 1 .. Len(queue), queue[i] \notin Burden
               PROVE  \E b \in Burden : StandsFor(queue[i], b)
    BY DEF StandsFor
  <2>1. queue[i] \notin Roots
    BY <1>6 DEF Burden
  <2>2. PICK parent \in Tasks : Child[parent] = queue[i] /\ Begun(parent)
    BY <1>6, <1>7, <2>1 DEF Lineage
  <2>3. parent \in Burden
    BY <1>6, <2>2, NoValueAssumption DEF Burden
  <2> QED BY <2>2, <2>3 DEF StandsFor, Begun
<1>9. \A w \in Workers : Queued \cap Held(w) = {}
  BY DEF IInv, AtMostOnce
<1>10. \A k \in Queued : k \notin finished \cup {task[w] : w \in Workers}
  BY <1>2, <1>9 DEF IInv, AtMostOnce
<1>11. \A i, j \in 1 .. Len(queue), b \in Burden :
         StandsFor(queue[i], b) /\ StandsFor(queue[j], b) => i = j
  BY <1>6, <1>10 DEF IInv, AtMostOnce, StandsFor
<1>12. \A i \in 1 .. Len(queue), w \in Workers : ~ StandsFor(queue[i], task[w])
  BY <1>3, <1>6, <1>10 DEF StandsFor
<1> QED BY <1>4, <1>5, <1>8, <1>11, <1>12

\* So they are at least as many as the workers and the places in the queue.
LEMMA WedgeNeeds ==
  ASSUME IInv, NestedJob, Lineage, Wedged, IsFiniteSet(Burden)
  PROVE  Capacity + Cardinality(Workers) <= Cardinality(Burden)
<1> DEFINE A == {task[w] : w \in Workers}
           At1(i) == CHOOSE b \in Burden : StandsFor(queue[i], b)
           B == {At1(i) : i \in 1 .. Len(queue)}
<1>1. \A i \in 1 .. Len(queue) : At1(i) \in Burden /\ StandsFor(queue[i], At1(i))
  BY WedgedTasks
<1>2. Len(queue) \in Nat /\ Capacity \in Nat /\ Capacity <= Len(queue)
  BY CapacityAssumption DEF IInv, QTypeOK, TypeOK, Wedged
<1> HIDE DEF At1
<1>3. Cardinality(A) = Cardinality(Workers) /\ IsFiniteSet(A)
  <2> DEFINE f == [w \in Workers |-> task[w]]
  <2>1. f \in Bijection(Workers, A)
    BY WedgedTasks DEF Bijection, Injection, Surjection, IsInjective
  <2> HIDE DEF f
  <2> QED BY <2>1, WorkersAssumption, FS_Bijection DEF ExistsBijection
<1>4. Cardinality(B) = Len(queue) /\ IsFiniteSet(B)
  <2> DEFINE f == [i \in 1 .. Len(queue) |-> At1(i)]
  <2>1. \A i, j \in 1 .. Len(queue) : At1(i) = At1(j) => i = j
    BY <1>1, WedgedTasks
  <2>2. f \in Bijection(1 .. Len(queue), B)
    BY <2>1 DEF Bijection, Injection, Surjection, IsInjective
  <2>3. IsFiniteSet(1 .. Len(queue)) /\ Cardinality(1 .. Len(queue)) = Len(queue)
    <3>1. \A n \in Nat : IsFiniteSet(1 .. n) /\ Cardinality(1 .. n) = n
      BY FS_Interval
    <3> QED BY <1>2, <3>1
  <2> HIDE DEF f
  <2> QED BY <2>2, <2>3, FS_Bijection DEF ExistsBijection
<1>5. A \cap B = {}
  BY <1>1, WedgedTasks
<1>6. A \cup B \subseteq Burden
  BY <1>1, WedgedTasks
<1> HIDE DEF A, B
<1>7. Cardinality(A \cup B) = Cardinality(A) + Cardinality(B)
  <2>1. Cardinality(A \cap B) = 0
    BY <1>5, FS_EmptySet
  <2>2. Cardinality(A \cup B) = Cardinality(A) + Cardinality(B) - Cardinality(A \cap B)
    BY <1>3, <1>4, FS_Union
  <2>3. Cardinality(A) \in Nat /\ Cardinality(B) \in Nat
    BY <1>3, <1>4, FS_CardinalityType
  <2> QED BY <2>1, <2>2, <2>3
<1>8. Cardinality(A \cup B) <= Cardinality(Burden)
  BY <1>6, FS_Subset
<1>9. Cardinality(Workers) \in Nat /\ Cardinality(Burden) \in Nat
  BY WorkersAssumption, FS_CardinalityType
<1> QED BY <1>2, <1>3, <1>4, <1>7, <1>8, <1>9

\* executor.hpp:63, web.hpp:44: fewer than capacity_ + worker_num_ tasks that come from
\* outside or submit one cannot wedge the pool, whatever their number otherwise.
THEOREM PoolNoWedge == Spec => []NoWedge
<1>1. Init => NestedJob /\ Lineage
  BY ThreadKinds DEF Init, NestedJob, Lineage
<1>2. IInv /\ NestedJob /\ Lineage /\ [Next]_vars => NestedJob' /\ Lineage'
  BY StepLineage
<1>3. IInv /\ NestedJob /\ Lineage => NoWedge
  <2> SUFFICES ASSUME IInv, NestedJob, Lineage, IsFiniteSet(Burden), Wedged,
                      Cardinality(Burden) < Capacity + Cardinality(Workers)
               PROVE  FALSE
    BY DEF NoWedge
  <2>1. Cardinality(Burden) \in Nat /\ Cardinality(Workers) \in Nat /\ Capacity \in Nat
    BY WorkersAssumption, CapacityAssumption, FS_CardinalityType
  <2> QED BY <2>1, WedgeNeeds
<1> QED BY <1>1, <1>2, <1>3, InitInv, StepInv, PTL DEF Spec

\* executor.hpp:63-68: nobody frees a place in a full queue while every worker is in
\* async_execute, and nobody leaves it: each push ends in vain and is repeated.
LEMMA WedgeStays ==
  ASSUME IInv, Wedged, Next, ~ done'
  PROVE  Wedged'
<1> USE ThreadKinds
<1>1. QTypeOK /\ Len(queue) \in Nat /\ Len(queue) >= Capacity /\ Capacity \in Nat \ {0}
  BY CapacityAssumption DEF Wedged, IInv, TypeOK, QTypeOK
<1>2. \A w \in Workers : ctl[w] \in ExecutePoints /\ ~ (ctl[w] = "push" /\ Delivered(w))
  BY DEF Wedged, Waiting, At, Delivered
<1>3. \A t \in Threads : pc[t] \notin InPop /\ pc[t] # "push_put"
  <2>1. \A t \in Threads : pc[t] # "push_put"
    BY <1>1 DEF IInv, QInv, RoomToPut
  <2>2. \A t \in Threads : ctl[t] # "pop"
    BY <1>2, ThreadsAssumption DEF IInv, TypeOK, ClientPoints
  <2> QED BY <2>1, <2>2 DEF IInv, Nested
<1>4. SUFFICES /\ UNCHANGED queue
               /\ \A w \in Workers : ctl'[w] \in ExecutePoints /\ ~ (ctl'[w] = "push" /\ Delivered(w)')
  BY <1>1 DEF Wedged, Waiting, At, Delivered
<1> DEFINE Stays == /\ UNCHANGED queue
                    /\ \A w \in Workers : ctl'[w] \in ExecutePoints /\ ~ (ctl'[w] = "push" /\ Delivered(w)')
<1>5. ASSUME NEW t \in Threads, InQueue(t) PROVE Stays
  <2>1. UNCHANGED ctl
    BY <1>5 DEF InQueue, evars
  <2>2. \/ Lock(t, "push_lock", "push_test") \/ Lock(t, "push_wake", "push_test")
        \/ Sleep(t, "push_sleep", "push_wait") \/ PushTest(t) \/ CloseStep(t) \/ WakeUp(t) \/ TimedOut(t)
    BY <1>3, <1>5 DEF InQueue, QStep, PushStep, PopStep, PushPut, PopTest, Lock, Sleep
  <2>3. UNCHANGED queue
    BY <2>2 DEF Lock, Sleep, PushTest, CloseStep, WakeUp, TimedOut
  <2>4. CASE CloseStep(t)
    <3>1. pc[t] \in InClose /\ ctl[t] = "close"
      BY <2>4 DEF CloseStep, IInv, Nested
    <3>2. \A w \in Workers : w # t /\ (pc'[w] = "idle" => pc[w] = "idle") /\ ret'[w] = ret[w]
      BY <1>1, <1>2, <2>4, <3>1 DEF CloseStep, NotifyAll, QTypeOK
    <3> QED BY <1>2, <2>1, <2>3, <3>2 DEF Delivered
  <2>5. CASE ~ CloseStep(t)
    <3>1. \A w \in Workers : pc'[w] = "idle" /\ ret'[w] => pc[w] = "idle" /\ ret[w]
      BY <1>1, <2>2, <2>5 DEF Lock, Sleep, PushTest, WakeUp, TimedOut, Goto, Result, QTypeOK
    <3> QED BY <1>2, <2>1, <2>3, <3>1 DEF Delivered
  <2> QED BY <2>4, <2>5
<1>6. ASSUME NEW t \in Threads, ExecuteStep(t) PROVE Stays
  <2>1. UNCHANGED queue /\ ~ done
    <3>1. UNCHANGED <<queue, done>>
      BY <1>6 DEF ExecuteStep, ExecuteLoop, ExecutePush, ExecutePushed, CallPush, qvars
    <3>2. ~ done
      BY <3>1, Zenon
    <3> QED BY <3>1, <3>2
  <2>2. \A w \in Workers \ {t} : ctl'[w] = ctl[w] /\ pc'[w] = pc[w] /\ ret'[w] = ret[w]
    BY <1>1, <1>6 DEF ExecuteStep, ExecuteLoop, ExecutePush, ExecutePushed, CallPush, qvars, Goto, Result, Move,
         QTypeOK, IInv, TypeOK
  <2>3. t \in Workers => ctl'[t] \in ExecutePoints /\ ~ (ctl'[t] = "push" /\ Delivered(t)')
    BY <1>1, <1>2, <1>6, <2>1 DEF ExecuteStep, ExecuteLoop, ExecutePush, ExecutePushed, CallPush, qvars, Goto, Result,
         Move, At, Delivered, QTypeOK, IInv, TypeOK
  <2> QED BY <1>2, <2>1, <2>2, <2>3 DEF Delivered
<1>7. ASSUME NEW w \in Workers, WorkerStep(w) PROVE FALSE
  BY <1>2, <1>7 DEF WorkerStep, WorkerLoop, WorkerPop, WorkerPopped, Spawn, Finish, At
<1>8. ASSUME NEW c \in Clients, ClientStep(c) \/ ClientCall(c) PROVE Stays
  <2>1. UNCHANGED queue
    BY <1>8 DEF ClientStep, ClientCall, JoinClose, JoinReturn, Join, AsyncExecute, CallClose, qvars
  <2>2. \A w \in Workers : ctl'[w] = ctl[w] /\ pc'[w] = pc[w] /\ ret'[w] = ret[w]
    BY <1>1, <1>8, ThreadsAssumption DEF ClientStep, ClientCall, JoinClose, JoinReturn, Join, AsyncExecute, CallClose,
         qvars, Goto, Move, QTypeOK, IInv, TypeOK
  <2> QED BY <1>2, <2>1, <2>2 DEF Delivered
<1> QED BY <1>5, <1>6, <1>7, <1>8 DEF Next

\* executor.hpp:63-68: whatever happens, and however many tasks and threads there are,
\* a pool that is wedged stays so until join() sets done_.
THEOREM PoolWedgeEndsByJoinOnly == Spec => WedgeEndsByJoinOnly
<1>1. IInv /\ [Next]_vars => [Wedged => (Wedged \/ done)']_vars
  BY WedgeStays
<1> QED BY <1>1, InitInv, StepInv, PTL DEF Spec, WedgeEndsByJoinOnly

----------------------------------------------------------------------------
(***************************************************************************)
(* The pool implements TaskPool.  Accept happens at the insertion into the *)
(* queue, Take at the removal, GoHome when a worker of a stopped pool      *)
(* leaves its last pop with nothing; the rest of the code is invisible.    *)
(***************************************************************************)
MayTake == IF done THEN {w \in Workers : Popping(w)} ELSE Workers
Status == [k \in Tasks |-> StatusOf(k)]
Busy == [w \in Workers |-> TaskInHand(w)]

LEMMA SameHand ==
  ASSUME NEW w, Held(w)' = Held(w) PROVE TaskInHand(w)' = TaskInHand(w)
BY DEF Held

\* A step that moves no task and changes no answer that TaskPool can see.
LEMMA QuietStatus ==
  ASSUME UNCHANGED <<queue, finished>>,
         \A w \in Workers : Held(w)' = Held(w),
         \A k \in Tasks : answer'[k] = answer[k] \/ (answer'[k] = "accepted" /\ k \in InPool)
  PROVE  Status' = Status /\ Busy' = Busy
<1>1. Queued' = Queued /\ InPool' = InPool
  BY QuietPlaces
<1>2. ASSUME NEW k \in Tasks PROVE StatusOf(k)' = StatusOf(k)
  <2>1. CASE k \in InPool
    BY <1>1, <2>1 DEF StatusOf, InPool
  <2>2. CASE k \notin InPool
    BY <1>1, <2>2 DEF StatusOf
  <2> QED BY <2>1, <2>2
<1>3. ASSUME NEW w \in Workers PROVE TaskInHand(w)' = TaskInHand(w)
  BY SameHand
<1> QED BY <1>2, <1>3 DEF Status, Busy

\* If only t's position in pop changes, and t does not enter pop once the pool
\* is stopped, then mayTake stays or loses t.
LEMMA StayOrGoHome ==
  ASSUME TypeOK, NEW t \in Threads, UNCHANGED <<queue, done, crashed>>, ~crashed,
         Status' = Status, Busy' = Busy,
         \A w \in Workers \ {t} : Popping(w)' <=> Popping(w),
         done /\ Popping(t)' => Popping(t)
  PROVE  UNCHANGED Pool!vars \/ Pool!Next
<1>1. CASE MayTake' = MayTake
  BY <1>1 DEF Pool!vars, Status, Busy, MayTake
<1>2. CASE MayTake' # MayTake
  <2>1. done /\ t \in Workers
    BY <1>2 DEF MayTake
  <2>2. MayTake' = MayTake \ {t}
    BY <1>2, <2>1 DEF MayTake
  <2>3. Pool!GoHome(t)
    BY <2>1, <2>2 DEF Pool!GoHome, Status, Busy, MayTake
  <2> QED BY <2>1, <2>3 DEF Pool!Next
<1> QED BY <1>1, <1>2

\* A step that moves task k only.
LEMMA StatusMoves ==
  ASSUME NEW k \in Tasks, NEW to, StatusOf(k)' = to,
         \A l \in Tasks \ {k} : StatusOf(l)' = StatusOf(l)
  PROVE  Status[k] = StatusOf(k) /\ Status' = [Status EXCEPT ![k] = to]
BY DEF Status

LEMMA QuietQueueRef ==
  ASSUME IInv, ~crashed, NEW t \in Threads, UNCHANGED evars, QTypeOK',
         \/ Lock(t, "push_lock", "push_test") \/ Lock(t, "push_wake", "push_test")
         \/ Lock(t, "pop_lock", "pop_test") \/ Lock(t, "pop_wake", "pop_test")
         \/ Sleep(t, "push_sleep", "push_wait") \/ Sleep(t, "pop_sleep", "pop_wait")
         \/ WakeUp(t) \/ TimedOut(t) \/ PushTest(t) \/ CloseStep(t)
         \/ PopTest(t) /\ queue = <<>>
  PROVE  UNCHANGED Pool!vars \/ Pool!Next
<1>1. \A w \in Workers : Held(w)' = Held(w)
  BY QuietQueueInv
<1>2. UNCHANGED queue
  BY DEF Lock, Sleep, WakeUp, TimedOut, PushTest, CloseStep, PopTest
<1>3. Status' = Status /\ Busy' = Busy
  BY <1>1, <1>2, QuietStatus DEF evars
<1>4. \A w \in Workers : Popping(w)' => Popping(w)
  BY ThreadKinds
     DEF Popping, Lock, Sleep, WakeUp, TimedOut, PushTest, CloseStep, PopTest, NotifyAll,
         Goto, Result, Unlock, evars, IInv, TypeOK, QTypeOK, Nested
<1>5. \A w \in Workers \ {t} : Popping(w)' <=> Popping(w)
  BY ThreadKinds
     DEF Popping, Lock, Sleep, WakeUp, TimedOut, PushTest, CloseStep, PopTest, NotifyAll,
         Goto, Result, Unlock, evars, IInv, TypeOK, QTypeOK, Nested
<1>6. done /\ Popping(t)' => Popping(t)
  <2>1. CASE t \in Workers
    BY <1>4, <2>1
  <2>2. CASE t \notin Workers
    BY <2>2, ThreadsAssumption DEF Popping, evars, IInv, TypeOK
  <2> QED BY <2>1, <2>2
<1> QED BY <1>2, <1>3, <1>5, <1>6, StayOrGoHome DEF evars, IInv

LEMMA PushPutRef ==
  ASSUME IInv, ~crashed, NEW t \in Threads, PushPut(t), UNCHANGED evars, QTypeOK'
  PROVE  Pool!Next
<1>. PICK k \in Tasks : k = job[t]
  BY PushPutFacts
<1>1. /\ ctl[t] = "push" /\ k \in Tasks /\ k \notin InPool /\ answer[k] = "pending"
      /\ pc'[t] = "idle" /\ \A u \in Threads \ {t} : pc'[u] = "idle" <=> pc[u] = "idle"
      /\ Queued' = Queued \cup {k}
      /\ \A w \in Workers : Held(w)' = Held(w)
      /\ queue' = Append(queue, k) /\ arg[t] = k
  BY PushPutFacts DEF PushPut
<1>2. Len(queue) < Capacity
  BY DEF PushPut, IInv, QInv, RoomToPut
<1>3. Busy' = Busy
  BY <1>1 DEF Busy, Held
<1>4. Status[k] = "asked" /\ Status' = [Status EXCEPT ![k] = "pending"]
  <2>1. StatusOf(k) = "asked" /\ StatusOf(k)' = "pending"
    BY <1>1 DEF StatusOf, InPool, evars
  <2>2. \A l \in Tasks \ {k} : StatusOf(l)' = StatusOf(l)
    BY <1>1 DEF StatusOf, evars
  <2> QED BY <1>1, <2>1, <2>2, StatusMoves
<1>5. MayTake' = MayTake
  BY <1>1, ThreadKinds DEF MayTake, Popping, evars
<1>6. Pool!Accept(k)
  BY <1>1, <1>2, <1>3, <1>4, <1>5
     DEF Pool!Accept, Pool!Become, Status, Busy, MayTake, evars
<1> QED BY <1>1, <1>6 DEF Pool!Next

LEMMA PopTakeRef ==
  ASSUME IInv, ~crashed, NEW t \in Threads, PopTest(t), queue # <<>>, UNCHANGED evars,
         QTypeOK'
  PROVE  Pool!Next
<1>. PICK k \in Tasks : k = Head(queue)
  BY PopTakeFacts
<1>1. /\ ctl[t] = "pop" /\ t \in Workers /\ pc[t] # "idle" /\ k \in Tasks
      /\ queue' = Tail(queue)
      /\ pc'[t] = "idle" /\ \A u \in Threads \ {t} : pc'[u] = "idle" <=> pc[u] = "idle"
      /\ Queued = Queued' \cup {k} /\ k \notin Queued'
      /\ Held(t) = {} /\ Held(t)' = {k}
      /\ \A w \in Workers \ {t} : Held(w)' = Held(w)
  BY PopTakeFacts
<1>2. Busy[t] = NoValue /\ Busy' = [Busy EXCEPT ![t] = k]
  <2>1. TaskInHand(t) = NoValue /\ TaskInHand(t)' = k
    BY <1>1 DEF Held
  <2>2. \A w \in Workers \ {t} : TaskInHand(w)' = TaskInHand(w)
    BY <1>1, SameHand
  <2> QED BY <1>1, <2>1, <2>2 DEF Busy
<1>3. Status[k] = "pending" /\ Status' = [Status EXCEPT ![k] = "running"]
  <2>1. k \notin finished /\ \A w \in Workers : k \notin Held(w)
    BY <1>1 DEF IInv, AtMostOnce
  <2>2. StatusOf(k) = "pending" /\ StatusOf(k)' = "running"
    <3>1. k \in Held(t)' /\ k \in Queued /\ finished' = finished
      BY <1>1 DEF evars
    <3> QED BY <1>1, <2>1, <3>1 DEF StatusOf
  <2>3. ASSUME NEW l \in Tasks \ {k} PROVE StatusOf(l)' = StatusOf(l)
    <3>1. (\E w \in Workers : l \in Held(w)') <=> (\E w \in Workers : l \in Held(w))
      BY <1>1
    <3> QED BY <1>1, <3>1 DEF StatusOf, evars
  <2> QED BY <1>1, <2>2, <2>3, StatusMoves
<1>4. t \in MayTake /\ MayTake' = IF done THEN MayTake \ {t} ELSE MayTake
  BY <1>1, ThreadKinds DEF MayTake, Popping, evars
<1>5. Pool!Take(t)
  BY <1>1, <1>2, <1>3, <1>4 DEF Pool!Take, Pool!Become, Status, Busy, MayTake, evars
<1> QED BY <1>1, <1>5 DEF Pool!Next

LEMMA AsyncExecuteRef ==
  ASSUME IInv, ~crashed, NEW t \in Threads, NEW k \in Tasks, AsyncExecute(t, k), QTypeOK'
  PROVE  Pool!Next
<1> USE DEF AsyncExecute, At, Move, Answer, Caller, qvars
<1>1. /\ \A w \in Workers : Held(w)' = Held(w)
      /\ UNCHANGED <<queue, pc, finished, done, crashed>>
      /\ answer[k] = "none" /\ k \notin InPool
      /\ ctl[t] \in {"run", "free"} /\ ctl'[t] \in {"run", "free", "execute"}
      /\ \A u \in Threads \ {t} : ctl'[u] = ctl[u]
      /\ answer' = [answer EXCEPT ![k] = IF done THEN "rejected" ELSE "pending"]
  BY AsyncExecuteInv DEF IInv, TypeOK, AnswerIsTrue
<1>2. Queued' = Queued /\ InPool' = InPool
  BY <1>1, QuietPlaces
<1>3. Busy' = Busy
  BY <1>1, SameHand DEF Busy
<1>4. Status[k] = "new"
      /\ Status' = [Status EXCEPT ![k] = IF ~done THEN "asked" ELSE "refused"]
  <2>1. StatusOf(k) = "new" /\ StatusOf(k)' = IF ~done THEN "asked" ELSE "refused"
    BY <1>1, <1>2 DEF StatusOf, InPool, IInv, TypeOK
  <2>2. \A l \in Tasks \ {k} : StatusOf(l)' = StatusOf(l)
    BY <1>1, <1>2 DEF StatusOf, IInv, TypeOK
  <2> QED BY <2>1, <2>2, StatusMoves
<1>5. MayTake' = MayTake
  BY <1>1, ThreadKinds DEF MayTake, Popping
<1>6. Pool!Ask(k)
  BY <1>1, <1>3, <1>4, <1>5 DEF Pool!Ask, Pool!Become, Status, Busy, MayTake
<1> QED BY <1>6 DEF Pool!Next

LEMMA ExecuteStepRef ==
  ASSUME IInv, ~crashed, NEW t \in Threads, ExecuteStep(t), QTypeOK'
  PROVE  UNCHANGED Pool!vars \/ Pool!Next
<1>1. /\ \A w \in Workers : Held(w)' = Held(w)
      /\ UNCHANGED <<queue, finished, done, crashed>>
  BY ExecuteStepInv DEF ExecuteStep, ExecuteLoop, ExecutePush, ExecutePushed, CallPush, qvars
<1>2. Queued' = Queued /\ InPool' = InPool
  BY <1>1, QuietPlaces
<1>3. Busy' = Busy
  BY <1>1, SameHand DEF Busy
<1>4. MayTake' = MayTake
  <2>1. /\ ctl[t] \in ExecutePoints /\ ctl'[t] \in ExecutePoints \cup {"run", "free"}
        /\ \A u \in Threads \ {t} : ctl'[u] = ctl[u] /\ pc'[u] = pc[u]
    BY DEF ExecuteStep, ExecuteLoop, ExecutePush, ExecutePushed, At, Move, Caller, CallPush,
           Goto, qvars, IInv, TypeOK, QTypeOK
  <2>2. \A w \in Workers : Popping(w)' <=> Popping(w)
    BY <2>1, ThreadKinds DEF Popping
  <2> QED BY <1>1, <2>2 DEF MayTake
<1>5. PICK k \in Tasks : k = job[t] /\ answer[k] = "pending"
  BY DEF ExecuteStep, ExecuteLoop, ExecutePush, ExecutePushed, At, IInv, Jobs
<1>6. CASE ExecuteLoop(t) /\ done
  <2>1. k \notin InPool /\ answer' = [answer EXCEPT ![k] = "rejected"]
    BY <1>5, <1>6 DEF ExecuteLoop, At, Answer, IInv, JobPlace, Pushed
  <2>2. Status[k] = "asked" /\ Status' = [Status EXCEPT ![k] = "refused"]
    <3>1. StatusOf(k) = "asked" /\ StatusOf(k)' = "refused"
      BY <1>1, <1>2, <1>5, <2>1 DEF StatusOf, InPool, IInv, TypeOK
    <3>2. \A l \in Tasks \ {k} : StatusOf(l)' = StatusOf(l)
      BY <1>1, <1>2, <2>1 DEF StatusOf, IInv, TypeOK
    <3> QED BY <3>1, <3>2, StatusMoves
  <2>3. Pool!Refuse(k)
    BY <1>1, <1>3, <1>4, <1>6, <2>2 DEF Pool!Refuse, Pool!Become, Status, Busy, MayTake
  <2> QED BY <2>3 DEF Pool!Next
<1>7. CASE ~(ExecuteLoop(t) /\ done)
  <2>1. \A l \in Tasks : answer'[l] = answer[l] \/ (answer'[l] = "accepted" /\ l \in InPool)
    BY <1>5, <1>7
       DEF ExecuteStep, ExecuteLoop, ExecutePush, ExecutePushed, At, Answer, IInv, TypeOK,
           JobPlace, Pushed
  <2>2. Status' = Status
    BY <1>1, <2>1, QuietStatus
  <2> QED BY <1>1, <1>3, <1>4, <2>2 DEF Pool!vars, Status, Busy, MayTake
<1> QED BY <1>6, <1>7

LEMMA ClientStepRef ==
  ASSUME IInv, ~crashed, NEW c \in Clients, ClientStep(c) \/ Join(c), QTypeOK'
  PROVE  UNCHANGED Pool!vars \/ Pool!Next
<1>1. /\ \A w \in Workers : Held(w)' = Held(w)
      /\ UNCHANGED <<queue, finished, answer, crashed>>
      /\ c \notin Workers
      /\ \A u \in Threads \ {c} : ctl'[u] = ctl[u] /\ pc'[u] = pc[u]
  BY ClientStepInv, ThreadsAssumption
     DEF ClientStep, Join, JoinClose, JoinReturn, CallClose, qvars, Move, Goto, At, IInv,
         TypeOK, QTypeOK
<1>2. Status' = Status /\ Busy' = Busy
  BY <1>1, QuietStatus
<1>3. \A w \in Workers : Popping(w)' <=> Popping(w)
  BY <1>1, ThreadKinds DEF Popping
<1>4. CASE Join(c)
  <2>1. ~done /\ done' /\ MayTake' \in SUBSET MayTake
    BY <1>4 DEF Join, MayTake
  <2>2. Pool!Stop
    BY <1>1, <1>2, <2>1 DEF Pool!Stop, Status, Busy, MayTake
  <2> QED BY <2>2 DEF Pool!Next
<1>5. CASE ClientStep(c)
  <2>1. UNCHANGED done
    BY <1>5 DEF ClientStep, JoinClose, JoinReturn
  <2> QED BY <1>1, <1>2, <1>3, <2>1 DEF Pool!vars, Status, Busy, MayTake
<1> QED BY <1>4, <1>5

LEMMA WorkerTurnRef ==
  ASSUME IInv, ~crashed, NEW w \in Workers,
         WorkerLoop(w) \/ WorkerPop(w) \/ WorkerPopped(w), QTypeOK'
  PROVE  UNCHANGED Pool!vars \/ Pool!Next
<1> USE ThreadKinds
<1>1. /\ \A u \in Workers : Held(u)' = Held(u)
      /\ UNCHANGED <<queue, finished, answer, done, crashed>>
  BY WorkerTurnInv DEF WorkerLoop, WorkerPop, WorkerPopped, CallPop, qvars
<1>2. Status' = Status /\ Busy' = Busy
  BY <1>1, QuietStatus
<1>3. \A u \in Workers \ {w} : Popping(u)' <=> Popping(u)
  BY DEF WorkerLoop, WorkerPop, WorkerPopped, CallPop, qvars, At, Move, Goto, Popping,
         IInv, TypeOK, QTypeOK
<1>4. done /\ Popping(w)' => Popping(w)
  BY DEF WorkerLoop, WorkerPop, WorkerPopped, CallPop, qvars, At, Move, Goto, Popping,
         IInv, TypeOK, QTypeOK
<1> QED BY <1>1, <1>2, <1>3, <1>4, StayOrGoHome DEF IInv

LEMMA FinishRef ==
  ASSUME IInv, ~crashed, NEW w \in Workers, NEW outcome, Finish(w, outcome), QTypeOK'
  PROVE  Pool!Next
<1> USE ThreadKinds DEF Finish, At, Move, qvars
<1>. PICK k \in Tasks : k = task[w] /\ k # NoValue
  BY DEF IInv, TypeOK, Running
<1>1. /\ ctl[w] = "run" /\ ctl'[w] = "loop" /\ task'[w] = NoValue
      /\ \A u \in Workers \ {w} : ctl'[u] = ctl[u] /\ task'[u] = task[u]
      /\ finished' = finished \cup {k}
      /\ UNCHANGED <<queue, pc, arg, ret, answer, done>>
      /\ crashed' \in BOOLEAN
  BY DEF IInv, TypeOK
<1>2. /\ TaskInHand(w) = k /\ TaskInHand(w)' = NoValue
      /\ \A u \in Workers \ {w} : TaskInHand(u)' = TaskInHand(u)
  BY <1>1 DEF TaskInHand
<1>3. Busy[w] = k /\ Busy' = [Busy EXCEPT ![w] = NoValue]
  BY <1>2 DEF Busy
<1>4. /\ Held(w) = {k} /\ Held(w)' = {}
      /\ \A u \in Workers \ {w} : Held(u)' = Held(u)
  BY <1>2 DEF Held
<1>5. Queued' = Queued /\ k \notin finished
  BY <1>1, <1>4 DEF Queued, IInv, AtMostOnce
<1>6. Status[k] = "running" /\ Status' = [Status EXCEPT ![k] = "finished"]
  <2>1. StatusOf(k) = "running" /\ StatusOf(k)' = "finished"
    BY <1>1, <1>4, <1>5 DEF StatusOf
  <2>2. ASSUME NEW l \in Tasks \ {k} PROVE StatusOf(l)' = StatusOf(l)
    <3>1. (\E u \in Workers : l \in Held(u)') <=> (\E u \in Workers : l \in Held(u))
      BY <1>4
    <3> QED BY <1>1, <1>5, <3>1 DEF StatusOf
  <2> QED BY <2>1, <2>2, StatusMoves
<1>7. MayTake' = MayTake
  BY <1>1 DEF MayTake, Popping
<1>8. Pool!End(w)
  BY <1>1, <1>3, <1>6, <1>7 DEF Pool!End, Pool!Become, Status, Busy, MayTake
<1> QED BY <1>8 DEF Pool!Next

LEMMA InitRef == Init => Pool!Init
<1> SUFFICES ASSUME Init PROVE Pool!Init
  OBVIOUS
<1>1. /\ queue = <<>> /\ finished = {}
      /\ \A w \in Workers : ctl[w] = "loop" /\ task[w] = NoValue
  BY ThreadKinds DEF Init, QInit
<1>2. \A w \in Workers : TaskInHand(w) = NoValue /\ Held(w) = {}
  BY <1>1 DEF Held, TaskInHand
<1>3. Queued = {}
  BY <1>1 DEF Queued
<1>4. \A k \in Tasks : StatusOf(k) = "new"
  BY <1>1, <1>2, <1>3 DEF StatusOf, Init
<1> QED BY <1>1, <1>2, <1>4 DEF Pool!Init, Init

LEMMA StepRef == IInv /\ [Next]_vars => [Pool!Next]_(Pool!vars)
<1> SUFFICES ASSUME IInv, [Next]_vars PROVE UNCHANGED Pool!vars \/ Pool!Next
  OBVIOUS
<1> USE ThreadKinds
<1>1. QTypeOK'
  BY PoolQInv DEF QInv
<1>2. CASE UNCHANGED vars
  <2>1. \A w \in Workers : Held(w)' = Held(w)
    BY <1>2 DEF vars, qvars, evars, Held, TaskInHand
  <2>2. Status' = Status /\ Busy' = Busy
    BY <1>2, <2>1, QuietStatus DEF vars, qvars, evars
  <2>3. MayTake' = MayTake
    BY <1>2 DEF vars, qvars, evars, MayTake, Popping
  <2> QED BY <1>2, <2>2, <2>3 DEF vars, qvars, evars, Pool!vars, Status, Busy, MayTake
<1>3. ASSUME ~crashed, NEW t \in Threads, InQueue(t) PROVE UNCHANGED Pool!vars \/ Pool!Next
  <2>1. UNCHANGED evars /\ QStep(t)
    BY <1>3 DEF InQueue
  <2>2. CASE PushPut(t)
    BY <1>1, <1>3, <2>1, <2>2, PushPutRef
  <2>3. CASE PopTest(t) /\ queue # <<>>
    BY <1>1, <1>3, <2>1, <2>3, PopTakeRef
  <2>4. CASE ~PushPut(t) /\ ~(PopTest(t) /\ queue # <<>>)
    BY <1>1, <1>3, <2>1, <2>4, QuietQueueRef DEF QStep, PushStep, PopStep
  <2> QED BY <2>2, <2>3, <2>4
<1>4. ASSUME ~crashed, NEW t \in Threads, ExecuteStep(t) PROVE UNCHANGED Pool!vars \/ Pool!Next
  BY <1>1, <1>4, ExecuteStepRef
<1>5. ASSUME ~crashed, NEW w \in Workers, WorkerStep(w) PROVE UNCHANGED Pool!vars \/ Pool!Next
  <2>1. CASE WorkerLoop(w) \/ WorkerPop(w) \/ WorkerPopped(w)
    BY <1>1, <1>5, <2>1, WorkerTurnRef
  <2>2. CASE Spawn(w)
    <3>1. Child[task[w]] \in Tasks
      BY <2>2, ChildAssumption DEF Spawn, At, IInv, Running, TypeOK
    <3> QED BY <1>1, <1>5, <2>2, <3>1, AsyncExecuteRef DEF Spawn
  <2>3. ASSUME NEW outcome \in Outcomes, Finish(w, outcome)
        PROVE  UNCHANGED Pool!vars \/ Pool!Next
    BY <1>1, <1>5, <2>3, FinishRef
  <2> QED BY <1>5, <2>1, <2>2, <2>3 DEF WorkerStep
<1>6. ASSUME ~crashed, NEW c \in Clients, ClientStep(c) \/ ClientCall(c)
      PROVE  UNCHANGED Pool!vars \/ Pool!Next
  <2>1. CASE ClientStep(c) \/ Join(c)
    BY <1>1, <1>6, <2>1, ClientStepRef
  <2>2. ASSUME NEW k \in Roots, AsyncExecute(c, k) PROVE UNCHANGED Pool!vars \/ Pool!Next
    BY <1>1, <1>6, <2>2, RootsAssumption, AsyncExecuteRef
  <2> QED BY <1>6, <2>1, <2>2 DEF ClientCall
<1> QED BY <1>2, <1>3, <1>4, <1>5, <1>6 DEF Next

\* executor.hpp: for any number of threads and tasks the pool is a TaskPool:
\* tasks run in the order of acceptance, each at most once, and a pool that was
\* stopped accepts no new request and lets each worker take at most one more.
THEOREM PoolImplementsTaskPool == Spec => PoolSpec
BY InitInv, StepInv, InitRef, StepRef, PTL DEF Spec, PoolSpec, Pool!Spec
=============================================================================
