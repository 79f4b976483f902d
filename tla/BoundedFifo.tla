---------------------------- MODULE BoundedFifo ----------------------------
(***************************************************************************)
(* What BlockingQueue promises its callers: a bounded first-in first-out   *)
(* buffer whose operations take effect at one instant.  push and pop may   *)
(* fail at any time (they wait at most 50 ms), but a call that returns     *)
(* false has changed nothing, one that returns true has changed exactly    *)
(* one element, and a call made after close() fails.                       *)
(***************************************************************************)
EXTENDS Integers, Sequences

CONSTANTS Threads, Values, Capacity, NoValue

VARIABLES queue, closed,
          op,    \* the operation each thread is in: "push", "pop" or "none"
          arg, ret

vars == <<queue, closed, op, arg, ret>>

Init ==
  /\ queue = <<>>
  /\ closed = FALSE
  /\ op = [t \in Threads |-> "none"]
  /\ arg = [t \in Threads |-> NoValue]
  /\ ret = [t \in Threads |-> FALSE]

Call(t) ==
  /\ op[t] = "none"
  /\ \/ /\ \E v \in Values : arg' = [arg EXCEPT ![t] = v]
        /\ op' = [op EXCEPT ![t] = IF closed THEN "none" ELSE "push"]
     \/ /\ arg' = [arg EXCEPT ![t] = NoValue]
        /\ op' = [op EXCEPT ![t] = IF closed THEN "none" ELSE "pop"]
  /\ ret' = IF closed THEN [ret EXCEPT ![t] = FALSE] ELSE ret
  /\ UNCHANGED <<queue, closed>>

Done(t, r) ==
  /\ op' = [op EXCEPT ![t] = "none"]
  /\ ret' = [ret EXCEPT ![t] = r]

Push(t) ==
  /\ op[t] = "push" /\ Len(queue) < Capacity
  /\ queue' = Append(queue, arg[t])
  /\ Done(t, TRUE)
  /\ UNCHANGED <<closed, arg>>

Pop(t) ==
  /\ op[t] = "pop" /\ queue # <<>>
  /\ arg' = [arg EXCEPT ![t] = Head(queue)]
  /\ queue' = Tail(queue)
  /\ Done(t, TRUE)
  /\ UNCHANGED closed

GiveUp(t) ==
  /\ op[t] \in {"push", "pop"}
  /\ Done(t, FALSE)
  /\ UNCHANGED <<queue, closed, arg>>

Close ==
  /\ closed' = TRUE
  /\ UNCHANGED <<queue, op, arg, ret>>

Next == Close \/ \E t \in Threads : Call(t) \/ Push(t) \/ Pop(t) \/ GiveUp(t)

Spec == Init /\ [][Next]_vars
=============================================================================
