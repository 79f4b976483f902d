------------------------------ MODULE Executor ------------------------------
(***************************************************************************)
(* utils/executor.hpp: the thread pool every part of the server runs on.   *)
(* Clients (the libuv loop thread, the main thread) call async_execute and *)
(* join; workers pop tasks and run them.  A running task may itself call   *)
(* async_execute on the same pool: a request handler submits the write of  *)
(* its access-log row (web.hpp, log_req).                                  *)
(*                                                                         *)
(* The queue between them is BlockingQueue, step by step; pc is a thread's *)
(* position in the queue's code and ctl its position in the executor's.    *)
(* A task is submitted once: two submissions are two tasks.                *)
(***************************************************************************)
EXTENDS BlockingQueue, FiniteSets

CONSTANTS
  Workers,   \* the threads the constructor starts
  Clients,   \* the threads that call the pool from outside
  Roots,     \* tasks that clients submit
  Child,     \* the task that a running task submits, or NoValue
  Outcomes   \* how a task may end: "returns", "runtime_error", "other_error"

Tasks == Values

ASSUME ThreadsAssumption ==
  Threads = Workers \cup Clients /\ Workers \cap Clients = {}
ASSUME WorkersAssumption == IsFiniteSet(Workers)
ASSUME RootsAssumption == Roots \subseteq Tasks
\* A submitted task is a new std::function object: nobody else submits it.
ASSUME ChildAssumption ==
  /\ Child \in [Tasks -> (Tasks \ Roots) \cup {NoValue}]
  /\ \A s, t \in Tasks : Child[s] = Child[t] => s = t \/ Child[s] = NoValue
ASSUME OutcomesAssumption ==
  Outcomes \subseteq {"returns", "runtime_error", "other_error"}

VARIABLES
  done,      \* done_
  ctl,       \* where each thread is in the executor's code
  task,      \* the task a worker runs: the local t of the worker's loop
  job,       \* the argument of the async_execute a thread is in
  answer,    \* what async_execute has told the submitter of each task
  finished,  \* tasks that have ended, by returning or by an error
  late,      \* how many tasks each worker started after done_ was set
  crashed    \* std::terminate was called

evars == <<done, ctl, task, job, answer, finished, late, crashed>>
vars == <<qvars, evars>>

WorkerPoints == {"loop", "pop_call", "pop", "run", "exited"}
ClientPoints == {"free", "close_call", "close"}
\* async_execute, called by a client or by the task of a worker
ExecutePoints == {"execute", "push_call", "push"}

TypeOK ==
  /\ QTypeOK
  /\ done \in BOOLEAN
  /\ \A w \in Workers : ctl[w] \in WorkerPoints \cup ExecutePoints
  /\ \A c \in Clients : ctl[c] \in ClientPoints \cup ExecutePoints
  /\ ctl \in [Threads -> WorkerPoints \cup ClientPoints \cup ExecutePoints]
  /\ task \in [Workers -> Tasks \cup {NoValue}]
  /\ job \in [Threads -> Tasks \cup {NoValue}]
  /\ answer \in [Tasks -> {"none", "pending", "accepted", "rejected"}]
  /\ finished \in SUBSET Tasks
  /\ late \in [Workers -> Nat]
  /\ crashed \in BOOLEAN

Init ==
  /\ QInit
  /\ done = FALSE
  /\ ctl = [t \in Threads |-> IF t \in Workers THEN "loop" ELSE "free"]
  /\ task = [w \in Workers |-> NoValue]
  /\ job = [t \in Threads |-> NoValue]
  /\ answer = [t \in Tasks |-> "none"]
  /\ finished = {}
  /\ late = [w \in Workers |-> 0]
  /\ crashed = FALSE

At(t, point) == ctl[t] = point /\ pc[t] = "idle"
Move(t, point) == ctl' = [ctl EXCEPT ![t] = point]
Answer(k, a) == answer' = [answer EXCEPT ![k] = a]

\* Where async_execute returns to.
Caller(t) == IF t \in Workers THEN "run" ELSE "free"

----------------------------------------------------------------------------
\* bool async_execute(const AsyncTask& t), called by thread t for task k.
AsyncExecute(t, k) ==
  /\ At(t, Caller(t))
  /\ answer[k] = "none"
  /\ IF done
       THEN Answer(k, "rejected") /\ UNCHANGED <<ctl, job>>
       ELSE /\ Move(t, "execute")
            /\ job' = [job EXCEPT ![t] = k]
            /\ Answer(k, "pending")
  /\ UNCHANGED <<qvars, done, task, finished, late, crashed>>

\* Mutants of ExecuteLoop: `status || done_' for `status || !done_';
\* while (true) for while (!done_).
ExecuteLoopTrue(t) ==
  /\ At(t, "execute") /\ done
  /\ Move(t, Caller(t))
  /\ Answer(job[t], "accepted")
  /\ job' = [job EXCEPT ![t] = NoValue]
  /\ UNCHANGED <<qvars, done, task, finished, late, crashed>>

ExecuteLoopForever(t) ==
  /\ At(t, "execute")
  /\ Move(t, "push_call")
  /\ UNCHANGED <<qvars, done, task, job, answer, finished, late, crashed>>

\* while (!done_): the loop ends with status false once done_ is seen, and
\* then `status || !done_' is false too, because done_ is never reset.
ExecuteLoop(t) ==
  /\ At(t, "execute")
  /\ IF done
       THEN /\ Move(t, Caller(t))
            /\ Answer(job[t], "rejected")
            /\ job' = [job EXCEPT ![t] = NoValue]
       ELSE Move(t, "push_call") /\ UNCHANGED <<job, answer>>
  /\ UNCHANGED <<qvars, done, task, finished, late, crashed>>

ExecutePush(t) ==
  /\ At(t, "push_call")
  /\ CallPush(t, job[t])
  /\ Move(t, "push")
  /\ UNCHANGED <<done, task, job, answer, finished, late, crashed>>

\* Mutants of ExecutePushed: no break after a push that succeeded; no retry
\* after one that failed.
ExecutePushedAgain(t) ==
  /\ At(t, "push")
  /\ Move(t, "execute")
  /\ UNCHANGED <<qvars, done, task, job, answer, finished, late, crashed>>

ExecutePushedGivesUp(t) ==
  /\ At(t, "push")
  /\ Move(t, Caller(t))
  /\ Answer(job[t], IF ret[t] THEN "accepted" ELSE "rejected")
  /\ job' = [job EXCEPT ![t] = NoValue]
  /\ UNCHANGED <<qvars, done, task, finished, late, crashed>>

\* A push that failed is tried again; one that succeeded ends the loop.
ExecutePushed(t) ==
  /\ At(t, "push")
  /\ IF ret[t]
       THEN /\ Move(t, Caller(t))
            /\ Answer(job[t], "accepted")
            /\ job' = [job EXCEPT ![t] = NoValue]
       ELSE Move(t, "execute") /\ UNCHANGED <<job, answer>>
  /\ UNCHANGED <<qvars, done, task, finished, late, crashed>>

----------------------------------------------------------------------------
\* void join().  workers_ was filled by subscript after a reserve(): its size
\* is 0, so the loop that would join the threads has no iterations.
Join(c) ==
  /\ At(c, "free")
  /\ ~done
  /\ done' = TRUE
  /\ Move(c, "close_call")
  /\ UNCHANGED <<qvars, task, job, answer, finished, late, crashed>>

JoinClose(c) ==
  /\ At(c, "close_call")
  /\ CallClose(c)
  /\ Move(c, "close")
  /\ UNCHANGED <<done, task, job, answer, finished, late, crashed>>

JoinReturn(c) ==
  /\ At(c, "close")
  /\ Move(c, "free")
  /\ UNCHANGED <<qvars, done, task, job, answer, finished, late, crashed>>

----------------------------------------------------------------------------
\* Mutant of WorkerLoop: while (true).
WorkerLoopForever(w) ==
  /\ At(w, "loop")
  /\ Move(w, "pop_call")
  /\ UNCHANGED <<qvars, done, task, job, answer, finished, late, crashed>>

\* The worker's while (!done_).
WorkerLoop(w) ==
  /\ At(w, "loop")
  /\ Move(w, IF done THEN "exited" ELSE "pop_call")
  /\ UNCHANGED <<qvars, done, task, job, answer, finished, late, crashed>>

WorkerPop(w) ==
  /\ At(w, "pop_call")
  /\ CallPop(w)
  /\ Move(w, "pop")
  /\ UNCHANGED <<done, task, job, answer, finished, late, crashed>>

\* Mutants of WorkerPopped: done_ is tested once more and the popped task
\* dropped; break for continue.
WorkerPoppedDrops(w) ==
  /\ At(w, "pop")
  /\ IF ret[w] /\ ~done
       THEN Move(w, "run") /\ task' = [task EXCEPT ![w] = arg[w]]
       ELSE Move(w, "loop") /\ UNCHANGED task
  /\ UNCHANGED <<qvars, done, job, answer, finished, late, crashed>>

WorkerPoppedBreaks(w) ==
  /\ At(w, "pop")
  /\ IF ret[w]
       THEN Move(w, "run") /\ task' = [task EXCEPT ![w] = arg[w]]
       ELSE Move(w, "exited") /\ UNCHANGED task
  /\ UNCHANGED <<qvars, done, job, answer, finished, late, crashed>>

\* A task that pop returned is run, even if done_ was set meanwhile.
WorkerPopped(w) ==
  /\ At(w, "pop")
  /\ IF ret[w]
       THEN /\ Move(w, "run")
            /\ task' = [task EXCEPT ![w] = arg[w]]
            /\ late' = IF done THEN [late EXCEPT ![w] = @ + 1] ELSE late
       ELSE Move(w, "loop") /\ UNCHANGED <<task, late>>
  /\ UNCHANGED <<qvars, done, job, answer, finished, crashed>>

\* The task submits its child.
Spawn(w) ==
  /\ At(w, "run")
  /\ Child[task[w]] # NoValue
  /\ AsyncExecute(w, Child[task[w]])

\* The task ends, at any point before or after it has submitted its child:
\* only std::runtime_error is caught, anything else ends the process.
Finish(w, outcome) ==
  /\ At(w, "run")
  /\ finished' = finished \cup {task[w]}
  /\ crashed' = (outcome = "other_error")
  /\ Move(w, "loop")
  /\ task' = [task EXCEPT ![w] = NoValue]
  /\ UNCHANGED <<qvars, done, job, answer, late>>

----------------------------------------------------------------------------
InQueue(t) == QStep(t) /\ UNCHANGED evars

ExecuteStep(t) == ExecuteLoop(t) \/ ExecutePush(t) \/ ExecutePushed(t)

WorkerStep(w) ==
  \/ WorkerLoop(w) \/ WorkerPop(w) \/ WorkerPopped(w) \/ Spawn(w)
  \/ \E outcome \in Outcomes : Finish(w, outcome)

ClientStep(c) == JoinClose(c) \/ JoinReturn(c)

\* A call that a client is free to make or not.
ClientCall(c) == (\E k \in Roots : AsyncExecute(c, k)) \/ Join(c)

Next ==
  /\ ~crashed
  /\ \/ \E t \in Threads : InQueue(t) \/ ExecuteStep(t)
     \/ \E w \in Workers : WorkerStep(w)
     \/ \E c \in Clients : ClientStep(c) \/ ClientCall(c)

\* Every thread is scheduled: it goes on with what it is doing, and a task
\* ends sooner or later.  The mutex is strongly fair, as in BlockingQueue.
Fairness ==
  /\ \A t \in Threads :
       /\ WF_vars(~crashed /\ (InQueue(t) \/ ExecuteStep(t)))
       /\ SF_vars(~crashed /\ TakesLock(t) /\ UNCHANGED evars)
  /\ \A w \in Workers : WF_vars(~crashed /\ WorkerStep(w))
  /\ \A c \in Clients : WF_vars(~crashed /\ ClientStep(c))

Spec == Init /\ [][Next]_vars
FairSpec == Spec /\ Fairness

----------------------------------------------------------------------------
(***************************************************************************)
(* Properties.                                                             *)
(***************************************************************************)
Queued == {queue[i] : i \in 1..Len(queue)}

\* What worker w has in its hands: popped, or running.
TaskInHand(w) == IF ctl[w] # "pop" THEN task[w]
                 ELSE IF pc[w] = "idle" /\ ret[w] THEN arg[w] ELSE NoValue
Held(w) == {TaskInHand(w)} \ {NoValue}

InPool == Queued \cup finished \cup UNION {Held(w) : w \in Workers}

\* executor.hpp:28-40, 57-69: a task is in one place only.  It is not queued
\* twice by a retried push, not given to two workers, and not run again.
AtMostOnce ==
  /\ \A i, j \in 1..Len(queue) : queue[i] = queue[j] => i = j
  /\ \A w \in Workers : Held(w) \cap (Queued \cup finished) = {}
  /\ \A v, w \in Workers : Held(v) \cap Held(w) # {} => v = w
  /\ Queued \cap finished = {}

\* executor.hpp:57-69: the answer of async_execute is the truth.  A task it
\* accepted is queued, in a worker's hands or finished (it may stay queued for
\* ever once the pool is stopped); one it refused is never run, although a
\* push inside it may have been racing with join.
AnswerIsTrue ==
  \A k \in Tasks :
    /\ answer[k] = "accepted" => k \in InPool
    /\ answer[k] \in {"none", "rejected"} => k \notin InPool

\* executor.hpp:28-31, 71-82: join() waits for nobody, so a worker may start
\* a task after join() has returned; but only the one its pop was about to
\* deliver: it tests done_ before the next.
OneLateStart == \A w \in Workers : late[w] <= 1

\* executor.hpp:63, blocking_queue.hpp:24: every worker is inside the nested
\* async_execute of its task and the queue is full: each waits for a place
\* that only the others could free.
Waiting(w) == ctl[w] \in ExecutePoints /\ ~(At(w, "push") /\ ret[w])
Wedged ==
  /\ Len(queue) >= Capacity
  /\ \A w \in Workers : Waiting(w)

\* executor.hpp:63, web.hpp:44: the pool cannot wedge as long as fewer than
\* capacity_ + worker_num_ tasks come from outside or submit a task themselves
\* (a task that does neither is queued in the place of the one that submitted it).
Burden == {k \in Tasks : k \in Roots \/ Child[k] # NoValue}
NoWedge ==
  IsFiniteSet(Burden) /\ Cardinality(Burden) < Capacity + Cardinality(Workers) => ~Wedged

\* executor.hpp:63-68: the retry loop has no other way out: once the pool is
\* wedged it stays so until join() sets done_.
WedgeEndsByJoinOnly == [][Wedged => (Wedged \/ done)']_vars

\* executor.hpp:63-68: a caller that waits for a place in the queue gets an
\* answer, unless the tasks wedge the pool (NoWedge says when they can).
SubmitReturns ==
  \A k \in Tasks : answer[k] = "pending" ~> (answer[k] # "pending" \/ crashed \/ Wedged)

\* executor.hpp:28-40: an accepted task is run, unless the pool is stopped or
\* wedged.
AcceptedRuns ==
  \A k \in Tasks : answer[k] = "accepted" ~> (k \in finished \/ done \/ crashed \/ Wedged)

\* executor.hpp:28, 62, 71-78: once join() has set done_ every worker leaves
\* its loop, those that were wedged in a nested submission included.  The
\* broadcast of close() is sent without lock_ and can miss a worker that has
\* tested the flag and is not yet asleep (blocking_queue.hpp:64-68); the 50 ms
\* limit of the waits makes up for it.
WorkersExit ==
  done ~> (crashed \/ \A w \in Workers : ctl[w] = "exited")

\* executor.hpp:57-82: the pool as its callers see it (see TaskPool).  A task
\* is accepted when it is inserted, before async_execute returns, and taken
\* when it is popped.
StatusOf(k) ==
  IF k \in finished THEN "finished"
  ELSE IF \E w \in Workers : k \in Held(w) THEN "running"
  ELSE IF k \in Queued THEN "pending"
  ELSE CASE answer[k] = "none" -> "new"
         [] answer[k] = "rejected" -> "refused"
         [] OTHER -> "asked"

Popping(w) == ctl[w] = "pop_call" \/ (ctl[w] = "pop" /\ pc[w] # "idle")

Pool == INSTANCE TaskPool
          WITH pending <- queue, open <- ~done,
               status <- [k \in Tasks |-> StatusOf(k)],
               busy <- [w \in Workers |-> TaskInHand(w)],
               mayTake <- IF done THEN {w \in Workers : Popping(w)} ELSE Workers
PoolSpec == Pool!Spec
=============================================================================
