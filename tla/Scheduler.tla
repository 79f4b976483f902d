----------------------------- MODULE Scheduler -----------------------------
(***************************************************************************)
(* utils/task_scheduler.hpp: a loop waits for the earliest event, hands    *)
(* its task to an Executor and puts the next event into the queue; a task  *)
(* with a fixed interval puts its own next event there when it has run.    *)
(* Only the loop takes lock_: clients and jobs use the heap of event_q_    *)
(* beside it, and the job reads the loop's local task_event by reference.  *)
(*                                                                         *)
(* Times count from now: an event has `wait' ticks left, 0 when it is due. *)
(* Of the pool (module TaskPool) a job needs that it is accepted, runs     *)
(* once and at some time.                                                  *)
(***************************************************************************)
EXTENDS Naturals, Sequences, FiniteSets

CONSTANTS
  Tasks,          \* one for each call of a schedule function
  Kind,           \* "interval", "rate", "cron" or "badCron"
  Workers,        \* the threads of runner_
  Capacity,       \* of its queue
  Delay, Period,  \* in ticks
  NoEvent

ASSUME KindAssumption == Kind \in [Tasks -> {"interval", "rate", "cron", "badCron"}]
ASSUME TimeAssumption == Capacity \in Nat \ {0} /\ Delay \in Nat /\ Period \in Nat \ {0}

VARIABLES
  queue,    \* event_q_: a set of events, equal ones told apart by `copy'
  call,     \* each client: "new", "emplace", "notify" or "done"
  loop,     \* where the loop is
  slot,     \* its task_event; NoEvent out of the scope of the local
  changed,  \* an event was inserted since it was copied
  jobs,     \* handed to runner_ and not begun
  hand,     \* each worker: its job and where it is, or NoEvent
  ran,      \* tasks with exec_cnt_ > 0
  dropped,  \* tasks with an interval whose function threw what the pool catches
  stop,     \* stop(): "no", "set" or "returned"
  error,    \* what has gone wrong, if anything: the model ends there
  missed    \* a notification came between the test of the queue and the sleep on it

schedVars == <<queue, call, loop, slot, changed, jobs, hand, ran, dropped, stop, error, missed>>

Longest == IF Delay > Period THEN Delay ELSE Period
Event == [wait : 0..Longest, task : Tasks, copy : Nat]
Mishaps == {"none",
            "heap",   \* two threads in the heap
            "empty",  \* the top of an empty heap
            "died",   \* a function threw what nobody catches
            "gone",   \* a reference to a local that is gone
            "mixed"}  \* an event popped that is not the one copied, or a job
                      \* that uses the event of another
Steps == {"exec", "next", "emplace"}
Job == [event : Event, at : Steps]

ASSUME NoEventAssumption == NoEvent \notin Event \cup Job

SchedTypeOK ==
  /\ queue \subseteq Event /\ call \in [Tasks -> {"new", "emplace", "notify", "done"}]
  /\ loop \in {"test", "look", "empty", "asleep", "top", "early", "asleepUntil", "pop",
               "dispatch", "requeue", "end", "gone"}
  /\ slot \in Event \cup {NoEvent} /\ jobs \in Seq(Event)
  /\ hand \in [Workers -> Job \cup {NoEvent}]
  /\ changed \in BOOLEAN /\ ran \subseteq Tasks /\ dropped \subseteq Tasks /\ stop \in {"no", "set", "returned"}
  /\ error \in Mishaps /\ missed \in BOOLEAN

SchedInit ==
  /\ queue = {} /\ call = [t \in Tasks |-> "new"]
  /\ loop = "test" /\ slot = NoEvent /\ changed = FALSE
  /\ jobs = <<>> /\ hand = [w \in Workers |-> NoEvent] /\ ran = {} /\ dropped = {}
  /\ stop = "no" /\ error = "none" /\ missed = FALSE

---------------------------------------------------------------------------
\* next_time() of a task, from now; a cron that cannot be read gives 0, a time
\* in the past.  A cron's next time is after now.
NextWait(t) ==
  CASE Kind[t] = "cron" -> Period
    [] Kind[t] = "badCron" -> 0
    [] OTHER -> IF t \in ran THEN Period ELSE Delay

EventsOf(t) == {e \in queue : e.task = t}
NewCopy(t) == CHOOSE n \in 0 .. Cardinality(EventsOf(t)) : \A e \in EventsOf(t) : e.copy # n
AddEvent(t) == queue' = queue \cup {[wait |-> NextWait(t), task |-> t, copy |-> NewCopy(t)]}
Earliest == {e \in queue : \A f \in queue : e.wait <= f.wait}
InHeap == {t \in Tasks : call[t] = "emplace"} \cup
          {w \in Workers : hand[w] # NoEvent /\ hand[w].at = "emplace"}

Sane == error = "none"
Err(what) == /\ error' = what
             /\ UNCHANGED <<queue, call, loop, slot, changed, jobs, hand, ran, dropped, stop, missed>>

\* Clients and jobs touch the heap over two steps, the loop in one.
TouchHeap(Step) == /\ Sane
                   /\ IF InHeap = {} THEN Step ELSE Err("heap")

---------------------------------------------------------------------------
\* schedule(), schedule_at_fixed_rate(), schedule_with_cron()
Schedule(t) ==
  /\ call[t] = "new"
  /\ TouchHeap(/\ call' = [call EXCEPT ![t] = "emplace"]
               /\ UNCHANGED <<queue, loop, slot, changed, jobs, hand, ran, dropped, stop, error, missed>>)

Emplaced(t) ==
  /\ Sane /\ call[t] = "emplace"
  /\ AddEvent(t) /\ changed' = TRUE
  /\ call' = [call EXCEPT ![t] = "notify"]
  /\ UNCHANGED <<loop, slot, jobs, hand, ran, dropped, stop, error, missed>>

\* Nobody holds lock_: the loop may be anywhere.  A wait that is notified
\* begins the round anew (no time-out); the other one goes on.
Notify(t) ==
  /\ Sane /\ call[t] = "notify"
  /\ call' = [call EXCEPT ![t] = "done"]
  /\ loop' = CASE loop = "asleep" -> "top" [] loop = "asleepUntil" -> "end" [] OTHER -> loop
  /\ missed' = (loop = "empty" \/ (missed /\ loop # "asleep"))
  /\ UNCHANGED <<queue, slot, changed, jobs, hand, ran, dropped, stop, error>>

---------------------------------------------------------------------------
GoTo(place) ==
  /\ loop' = place
  /\ UNCHANGED <<queue, call, slot, changed, jobs, hand, ran, dropped, stop, error, missed>>

\* Mutant of TestStop: while (true).
TestStopNot == Sane /\ loop = "test" /\ GoTo("look")

TestStop == Sane /\ loop = "test" /\ GoTo(IF stop = "no" THEN "look" ELSE "gone")
TestEmpty == loop = "look" /\ TouchHeap(GoTo(IF queue = {} THEN "empty" ELSE "top"))
Doze == Sane /\ loop = "empty" /\ GoTo("asleep")
SpuriousWakeUp ==
  /\ Sane /\ loop = "asleep" /\ loop' = "top" /\ missed' = FALSE
  /\ UNCHANGED <<queue, call, slot, changed, jobs, hand, ran, dropped, stop, error>>

CopyTop ==
  /\ loop = "top"
  /\ TouchHeap(IF queue = {} THEN Err("empty")
               ELSE \E e \in Earliest :
                      /\ slot' = e /\ changed' = FALSE
                      /\ loop' = IF e.wait = 0 THEN "pop" ELSE "early"
                      /\ UNCHANGED <<queue, call, jobs, hand, ran, dropped, stop, error, missed>>)

DozeUntil == Sane /\ loop = "early" /\ GoTo(IF slot.wait = 0 THEN "pop" ELSE "asleepUntil")
TimeOut == Sane /\ loop = "asleepUntil" /\ slot.wait = 0 /\ GoTo("pop")
SpuriousWakeUpUntil == Sane /\ loop = "asleepUntil" /\ GoTo("end")

\* pop() takes what is on top now.
Pop ==
  /\ loop = "pop"
  /\ TouchHeap(\E e \in IF changed THEN Earliest ELSE {slot} :
                 /\ queue' = queue \ {e}
                 /\ error' = IF e = slot THEN "none" ELSE "mixed"
                 /\ loop' = "dispatch"
                 /\ UNCHANGED <<call, slot, changed, jobs, hand, ran, dropped, stop, missed>>)

\* async_execute() retries until there is a place.
Dispatch ==
  /\ Sane /\ loop = "dispatch" /\ Len(jobs) < Capacity
  /\ jobs' = Append(jobs, slot)
  /\ loop' = "requeue"
  /\ UNCHANGED <<queue, call, slot, changed, hand, ran, dropped, stop, error, missed>>

\* Mutant of RequeuedByLoop: the loop schedules what its job will schedule, too.
RequeuedByBoth(t) == TRUE

RequeuedByLoop(t) == Kind[t] # "interval"
Legal(t) == Kind[t] # "badCron"

\* schedule_next_after_exec() of the base class: the loop schedules at once.
Requeue ==
  /\ loop = "requeue"
  /\ IF RequeuedByLoop(slot.task) /\ Legal(slot.task)
     THEN TouchHeap(/\ AddEvent(slot.task) /\ changed' = TRUE /\ loop' = "end"
                    /\ UNCHANGED <<call, slot, jobs, hand, ran, dropped, stop, error, missed>>)
     ELSE Sane /\ GoTo("end")

\* The local goes out of scope.
EndRound ==
  /\ Sane /\ loop = "end"
  /\ slot' = NoEvent /\ loop' = "test"
  /\ UNCHANGED <<queue, call, changed, jobs, hand, ran, dropped, stop, error, missed>>

---------------------------------------------------------------------------
BeginJob(w) ==
  /\ Sane /\ hand[w] = NoEvent /\ jobs # <<>>
  /\ hand' = [hand EXCEPT ![w] = [event |-> Head(jobs), at |-> "exec"]]
  /\ jobs' = Tail(jobs)
  /\ UNCHANGED <<queue, call, loop, slot, changed, ran, dropped, stop, error, missed>>

JobAt(w, step) == hand[w] # NoEvent /\ hand[w].at = step
SlotIsOther(w) == slot.task # hand[w].event.task

\* task_event.second->exec()
Exec(w) ==
  /\ Sane /\ JobAt(w, "exec")
  /\ IF slot = NoEvent THEN Err("gone")
     ELSE /\ ran' = ran \cup {slot.task}
          /\ error' = IF SlotIsOther(w) THEN "mixed" ELSE "none"
          /\ hand' = [hand EXCEPT ![w].at = "next"]
          /\ UNCHANGED <<queue, call, loop, slot, changed, jobs, dropped, stop, missed>>

\* The function throws std::runtime_error, which the pool catches (executor.hpp:35):
\* the job ends there, uncounted, and what was to come after it does not.
ExecThrows(w) ==
  /\ Sane /\ JobAt(w, "exec") /\ slot # NoEvent
  /\ dropped' = dropped \cup {t \in {slot.task} : Kind[t] = "interval"}
  /\ error' = IF SlotIsOther(w) THEN "mixed" ELSE "none"
  /\ hand' = [hand EXCEPT ![w] = NoEvent]
  /\ UNCHANGED <<queue, call, loop, slot, changed, jobs, ran, stop, missed>>

\* It throws something else: the process ends.
ExecDies(w) == Sane /\ JobAt(w, "exec") /\ slot # NoEvent /\ Err("died")

\* An interval task: next_time() and the insertion, without lock or notification.
NextOfJob(w) ==
  /\ Sane /\ JobAt(w, "next")
  /\ IF slot = NoEvent THEN Err("gone")
     ELSE IF Kind[slot.task] = "interval" /\ InHeap # {} THEN Err("heap")
     ELSE /\ error' = IF SlotIsOther(w) THEN "mixed" ELSE "none"
          /\ hand' = [hand EXCEPT ![w] = IF Kind[slot.task] = "interval"
                                         THEN [@ EXCEPT !.at = "emplace"] ELSE NoEvent]
          /\ UNCHANGED <<queue, call, loop, slot, changed, jobs, ran, dropped, stop, missed>>

EmplacedByJob(w) ==
  /\ Sane /\ JobAt(w, "emplace")
  /\ IF slot = NoEvent THEN Err("gone")
     ELSE /\ AddEvent(slot.task) /\ changed' = TRUE
          /\ error' = IF SlotIsOther(w) THEN "mixed" ELSE "none"
          /\ hand' = [hand EXCEPT ![w] = NoEvent]
          /\ UNCHANGED <<call, loop, slot, jobs, ran, dropped, stop, missed>>

---------------------------------------------------------------------------
Stop ==
  /\ Sane /\ stop = "no" /\ stop' = "set"
  /\ UNCHANGED <<queue, call, loop, slot, changed, jobs, hand, ran, dropped, error, missed>>

\* loop_.join(), then the end of the pool, which waits for nothing.
StopReturn ==
  /\ Sane /\ stop = "set" /\ loop = "gone" /\ stop' = "returned"
  /\ UNCHANGED <<queue, call, loop, slot, changed, jobs, hand, ran, dropped, error, missed>>

Sooner(e) == [e EXCEPT !.wait = IF @ = 0 THEN 0 ELSE @ - 1]
Tick ==
  /\ Sane
  /\ \/ \E e \in queue : e.wait > 0
     \/ slot # NoEvent /\ slot.wait > 0
  /\ queue' = {Sooner(e) : e \in queue}
  /\ slot' = IF slot = NoEvent THEN NoEvent ELSE Sooner(slot)
  /\ UNCHANGED <<call, loop, changed, jobs, hand, ran, dropped, stop, error, missed>>

LoopStep ==
  \/ TestStop \/ TestEmpty \/ Doze \/ CopyTop \/ DozeUntil \/ TimeOut
  \/ Pop \/ Dispatch \/ Requeue \/ EndRound
JobStep(w) == BeginJob(w) \/ Exec(w) \/ ExecThrows(w) \/ ExecDies(w) \/ NextOfJob(w) \/ EmplacedByJob(w)
CallStep(t) == Emplaced(t) \/ Notify(t)

SchedNext ==
  \/ LoopStep \/ SpuriousWakeUp \/ SpuriousWakeUpUntil
  \/ \E w \in Workers : JobStep(w)
  \/ \E t \in Tasks : Schedule(t) \/ CallStep(t)
  \/ Stop \/ StopReturn \/ Tick

SchedFairness ==
  /\ WF_schedVars(LoopStep) /\ WF_schedVars(StopReturn) /\ WF_schedVars(Tick)
  /\ \A w \in Workers : WF_schedVars(JobStep(w))
  /\ \A t \in Tasks : WF_schedVars(CallStep(t))

SchedSpec == SchedInit /\ [][SchedNext]_schedVars /\ SchedFairness

---------------------------------------------------------------------------
\* The event of the task is with the loop, or with its job.
WithLoop(t) ==
  /\ loop \in (IF Kind[t] = "interval" THEN {"dispatch"} ELSE {"dispatch", "requeue"})
  /\ slot.task = t
WithJob(t) ==
  /\ Kind[t] = "interval"
  /\ \/ \E i \in DOMAIN jobs : jobs[i].task = t
     \/ \E w \in Workers : hand[w] # NoEvent /\ hand[w].event.task = t

\* task_scheduler.hpp:181-198: two hand the next event on, the loop and the job: a task that was scheduled
\* has one event in the queue, or one of the two is about to put it there; never two, and none
\* only if it has an interval and has thrown: it never has an event again.  The model stops at the errors
\* above.  A cron that cannot be read runs once, at once.
OneEventEach ==
  Sane => \A t \in Tasks : call[t] \in {"notify", "done"} =>
    LET places == Cardinality(EventsOf(t)) + (IF WithLoop(t) THEN 1 ELSE 0) + (IF WithJob(t) THEN 1 ELSE 0)
    IN IF t \in dropped THEN places = 0 ELSE IF Legal(t) THEN places = 1 ELSE places <= 1

\* task_scheduler.hpp:165-173, 222-226: stop() returns unless the loop sleeps on an empty queue or missed the call
\* that filled it: stop() wakes nobody.
StopReturns ==
  (stop = "set") ~> \/ stop = "returned" \/ ~Sane
                    \/ loop = "asleep" /\ (queue = {} \/ missed)
=============================================================================
