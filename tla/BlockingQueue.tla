--------------------------- MODULE BlockingQueue ---------------------------
(***************************************************************************)
(* utils/blocking_queue.hpp: the bounded queue between the threads that    *)
(* submit work and the threads that run it.  One mutex, two condition      *)
(* variables (waiting pushers, waiting poppers), and an atomic flag that   *)
(* close() sets WITHOUT taking the mutex.                                  *)
(*                                                                         *)
(* A thread in an operation is at one of the program points below; a step  *)
(* is what happens between two points where another thread may interfere.  *)
(* Both waits last 50 ms: a sleeper leaves the wait when it is notified,   *)
(* spuriously, or because the time is over, and std::cv_status compares    *)
(* the clock once the mutex is held again, so that even a notified thread  *)
(* may find "timeout".                                                     *)
(***************************************************************************)
EXTENDS Integers, Sequences

CONSTANTS
  Threads,    \* threads that use the queue
  Values,     \* what is queued
  Capacity,   \* capacity_
  NoThread,   \* lock_ is free
  NoValue     \* a local variable that holds no element

ASSUME CapacityAssumption == Capacity \in Nat \ {0}
ASSUME NoThreadAssumption == NoThread \notin Threads
ASSUME NoValueAssumption == NoValue \notin Values

VARIABLES
  queue,   \* queue_
  closed,  \* closed_
  lock,    \* the holder of lock_, or NoThread
  pc,      \* where each thread is in the queue's code
  arg,     \* the element a thread is pushing, or the last one it popped
  ret      \* what the thread's last operation returned

qvars == <<queue, closed, lock, pc, arg, ret>>

\* Points at which a thread holds lock_.
Critical == {"push_test", "push_sleep", "push_put", "pop_test", "pop_sleep"}

InPush == {"push_lock", "push_test", "push_sleep", "push_wait", "push_wake", "push_put"}
InPop == {"pop_lock", "pop_test", "pop_sleep", "pop_wait", "pop_wake"}
InClose == {"close_full", "close_empty"}
Points == {"idle"} \cup InPush \cup InPop \cup InClose

QTypeOK ==
  /\ queue \in Seq(Values)
  /\ closed \in BOOLEAN
  /\ lock \in Threads \cup {NoThread}
  /\ pc \in [Threads -> Points]
  /\ arg \in [Threads -> Values \cup {NoValue}]
  /\ ret \in [Threads -> BOOLEAN]

QInit ==
  /\ queue = <<>>
  /\ closed = FALSE
  /\ lock = NoThread
  /\ pc = [t \in Threads |-> "idle"]
  /\ arg = [t \in Threads |-> NoValue]
  /\ ret = [t \in Threads |-> FALSE]

----------------------------------------------------------------------------
Goto(t, point) == pc' = [pc EXCEPT ![t] = point]
Unlock == lock' = NoThread
Result(t, r) == ret' = [ret EXCEPT ![t] = r]

\* t leaves its operation, and notify_one() wakes one of the threads that
\* wait at `waiting', whichever the scheduler picks; nobody if none waits.
LeaveAndNotify(t, waiting, wake) ==
  LET sleepers == {u \in Threads : pc[u] = waiting}
  IN  IF sleepers = {}
        THEN Goto(t, "idle")
        ELSE \E u \in sleepers : pc' = [pc EXCEPT ![t] = "idle", ![u] = wake]

\* notify_all()
NotifyAll(t, next, waiting, wake) ==
  pc' = [u \in Threads |-> IF u = t THEN next
                           ELSE IF pc[u] = waiting THEN wake ELSE pc[u]]

\* The mutex is taken: the first line of both operations after the test of
\* closed_, and the last act of a wait.
Lock(t, from, to) ==
  /\ pc[t] = from
  /\ lock = NoThread
  /\ lock' = t
  /\ Goto(t, to)
  /\ UNCHANGED <<queue, closed, arg, ret>>

\* wait_for() puts the thread to sleep and frees the mutex in one step.
Sleep(t, from, to) ==
  /\ pc[t] = from
  /\ Unlock
  /\ Goto(t, to)
  /\ UNCHANGED <<queue, closed, arg, ret>>

\* Mutant of WakeUp: wait() in place of wait_for(); only notifications wake.
WakeUpNever(t) == FALSE /\ UNCHANGED qvars

\* 50 ms have passed, or the wake-up is spurious: no notification needed.
WakeUp(t) ==
  /\ \/ pc[t] = "push_wait" /\ Goto(t, "push_wake")
     \/ pc[t] = "pop_wait" /\ Goto(t, "pop_wake")
  /\ UNCHANGED <<queue, closed, lock, arg, ret>>

\* Mutant of TimedOut: the status of the wait is not looked at.
TimedOutTrue(t) ==
  /\ pc[t] \in {"push_wake", "pop_wake"}
  /\ lock = NoThread
  /\ Goto(t, "idle")
  /\ Result(t, TRUE)
  /\ UNCHANGED <<queue, closed, lock, arg>>

\* The wait has the mutex again and reports timeout: the operation gives up.
TimedOut(t) ==
  /\ pc[t] \in {"push_wake", "pop_wake"}
  /\ lock = NoThread
  /\ Goto(t, "idle")
  /\ Result(t, FALSE)
  /\ UNCHANGED <<queue, closed, lock, arg>>

----------------------------------------------------------------------------
\* bool push(const T& data)
CallPush(t, v) ==
  /\ pc[t] = "idle"
  /\ arg' = [arg EXCEPT ![t] = v]
  /\ IF closed THEN Result(t, FALSE) /\ UNCHANGED pc
               ELSE Goto(t, "push_lock") /\ UNCHANGED ret
  /\ UNCHANGED <<queue, closed, lock>>

\* The loop's test and the test of closed_ after it.  closed_ may still be
\* set between this step and PushPut: close() does not take the mutex.
PushTest(t) ==
  /\ pc[t] = "push_test"
  /\ \/ /\ closed
        /\ Goto(t, "idle")
        /\ Result(t, FALSE)
        /\ Unlock
     \/ /\ ~closed
        /\ Goto(t, IF Len(queue) >= Capacity THEN "push_sleep" ELSE "push_put")
        /\ UNCHANGED <<lock, ret>>
  /\ UNCHANGED <<queue, closed, arg>>

PushPut(t) ==
  /\ pc[t] = "push_put"
  /\ queue' = Append(queue, arg[t])
  /\ LeaveAndNotify(t, "pop_wait", "pop_wake")
  /\ Unlock
  /\ Result(t, TRUE)
  /\ UNCHANGED <<closed, arg>>

PushStep(t) ==
  \/ Lock(t, "push_lock", "push_test")
  \/ Lock(t, "push_wake", "push_test")
  \/ Sleep(t, "push_sleep", "push_wait")
  \/ PushTest(t)
  \/ PushPut(t)

----------------------------------------------------------------------------
\* bool pop(T& t)
CallPop(t) ==
  /\ pc[t] = "idle"
  /\ arg' = [arg EXCEPT ![t] = NoValue]
  /\ IF closed THEN Result(t, FALSE) /\ UNCHANGED pc
               ELSE Goto(t, "pop_lock") /\ UNCHANGED ret
  /\ UNCHANGED <<queue, closed, lock>>

\* The loop's test and, when it does not wait, the rest of pop: what is
\* queued is still handed out after close() to a thread that is already here.
PopTest(t) ==
  /\ pc[t] = "pop_test"
  /\ \/ /\ queue = <<>> /\ ~closed
        /\ Goto(t, "pop_sleep")
        /\ UNCHANGED <<queue, lock, arg, ret>>
     \/ /\ queue = <<>> /\ closed
        /\ Goto(t, "idle")
        /\ Result(t, FALSE)
        /\ Unlock
        /\ UNCHANGED <<queue, arg>>
     \/ /\ queue # <<>>
        /\ arg' = [arg EXCEPT ![t] = Head(queue)]
        /\ queue' = Tail(queue)
        /\ LeaveAndNotify(t, "push_wait", "push_wake")
        /\ Result(t, TRUE)
        /\ Unlock
  /\ UNCHANGED closed

PopStep(t) ==
  \/ Lock(t, "pop_lock", "pop_test")
  \/ Lock(t, "pop_wake", "pop_test")
  \/ Sleep(t, "pop_sleep", "pop_wait")
  \/ PopTest(t)

----------------------------------------------------------------------------
\* void close(): the flag first, then the two broadcasts, all without lock_.
CallClose(t) ==
  /\ pc[t] = "idle"
  /\ closed' = TRUE
  /\ Goto(t, "close_full")
  /\ UNCHANGED <<queue, lock, arg, ret>>

CloseStep(t) ==
  /\ \/ /\ pc[t] = "close_full"
        /\ NotifyAll(t, "close_empty", "push_wait", "push_wake")
     \/ /\ pc[t] = "close_empty"
        /\ NotifyAll(t, "idle", "pop_wait", "pop_wake")
  /\ UNCHANGED <<queue, closed, lock, arg, ret>>

----------------------------------------------------------------------------
\* What goes on inside an operation once it is called.
QStep(t) ==
  PushStep(t) \/ PopStep(t) \/ CloseStep(t) \/ WakeUp(t) \/ TimedOut(t)

QCall(t) == (\E v \in Values : CallPush(t, v)) \/ CallPop(t) \/ CallClose(t)

QNext == \E t \in Threads : QCall(t) \/ QStep(t)

\* The steps that take lock_.  Where liveness is claimed (module Executor) they
\* get strong fairness: lock_ is held for a few instructions, and a thread that
\* retries sleeps up to 50 ms between two attempts, so that nobody who asks
\* for it is passed over for ever.
TakesLock(t) ==
  \/ Lock(t, "push_lock", "push_test") \/ Lock(t, "push_wake", "push_test")
  \/ Lock(t, "pop_lock", "pop_test") \/ Lock(t, "pop_wake", "pop_test")
  \/ TimedOut(t)

QSpec == QInit /\ [][QNext]_qvars

----------------------------------------------------------------------------
(***************************************************************************)
(* Properties.                                                             *)
(***************************************************************************)

\* blocking_queue.hpp:22, 49: lock_ is held by a thread exactly at the points
\* between the mutex being taken and being freed; so two threads are never
\* there together, whatever the notifications, time-outs and spurious wakes.
Mutex == \A t \in Threads : pc[t] \in Critical <=> lock = t

\* blocking_queue.hpp:23-31: the queue never grows past capacity_.  The test
\* and the insertion are separate steps, and a sleeper tests again after it
\* wakes, because somebody else may have taken the free place.
Bounded == Len(queue) <= Capacity

\* blocking_queue.hpp:19-33, 46-61: the operations are linearizable; each
\* call has at most one effect, at one instant between call and return, and
\* returns true exactly if it had it (see BoundedFifo).
OpAt(point) == IF point \in InPush THEN "push"
               ELSE IF point \in InPop THEN "pop" ELSE "none"
Fifo == INSTANCE BoundedFifo WITH op <- [t \in Threads |-> OpAt(pc[t])]
FifoSpec == Fifo!Spec
=============================================================================
