------------------------------ MODULE TaskPool ------------------------------
(***************************************************************************)
(* What Executor promises to those who submit tasks: the life of a task    *)
(*                                                                         *)
(*   new -> asked -> pending -> running -> finished                        *)
(*     \       \-> refused                                                 *)
(*      \-> refused                                                        *)
(*                                                                         *)
(* Tasks run in the order in which they were accepted, at most one per     *)
(* worker and at most capacity of them waiting.  A pool that has been      *)
(* stopped takes no new request; a request under way may go either way,    *)
(* and a worker that was about to take a task takes at most that one.      *)
(***************************************************************************)
EXTENDS Integers, Sequences

CONSTANTS Tasks, Workers, Capacity, NoValue

VARIABLES
  status,    \* where each task is in its life
  pending,   \* accepted tasks that wait, oldest first
  busy,      \* the task each worker runs, or NoValue
  open,      \* the pool has not been stopped
  mayTake,   \* workers that may still take a task
  crashed    \* a task has ended the process

vars == <<status, pending, busy, open, mayTake, crashed>>

Init ==
  /\ status = [k \in Tasks |-> "new"]
  /\ pending = <<>>
  /\ busy = [w \in Workers |-> NoValue]
  /\ open = TRUE
  /\ mayTake = Workers
  /\ crashed = FALSE

Become(k, from, to) == status[k] = from /\ status' = [status EXCEPT ![k] = to]

Ask(k) ==
  /\ Become(k, "new", IF open THEN "asked" ELSE "refused")
  /\ UNCHANGED <<pending, busy, open, mayTake, crashed>>

Refuse(k) ==
  /\ ~open
  /\ Become(k, "asked", "refused")
  /\ UNCHANGED <<pending, busy, open, mayTake, crashed>>

Accept(k) ==
  /\ Len(pending) < Capacity
  /\ Become(k, "asked", "pending")
  /\ pending' = Append(pending, k)
  /\ UNCHANGED <<busy, open, mayTake, crashed>>

Take(w) ==
  /\ w \in mayTake /\ busy[w] = NoValue /\ pending # <<>>
  /\ busy' = [busy EXCEPT ![w] = Head(pending)]
  /\ Become(Head(pending), "pending", "running")
  /\ pending' = Tail(pending)
  /\ mayTake' = IF open THEN mayTake ELSE mayTake \ {w}
  /\ UNCHANGED <<open, crashed>>

End(w) ==
  /\ busy[w] # NoValue
  /\ Become(busy[w], "running", "finished")
  /\ busy' = [busy EXCEPT ![w] = NoValue]
  /\ crashed' \in BOOLEAN
  /\ UNCHANGED <<pending, open, mayTake>>

Stop ==
  /\ open
  /\ open' = FALSE
  /\ mayTake' \in SUBSET mayTake
  /\ UNCHANGED <<status, pending, busy, crashed>>

GoHome(w) ==
  /\ ~open
  /\ mayTake' = mayTake \ {w}
  /\ UNCHANGED <<status, pending, busy, open, crashed>>

Next ==
  /\ ~crashed
  /\ \/ Stop
     \/ \E k \in Tasks : Ask(k) \/ Refuse(k) \/ Accept(k)
     \/ \E w \in Workers : Take(w) \/ End(w) \/ GoHome(w)

Spec == Init /\ [][Next]_vars
=============================================================================
