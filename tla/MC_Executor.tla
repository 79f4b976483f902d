---------------------------- MODULE MC_Executor ----------------------------
(* One or two workers, two clients; capacity 1.  Request r1 (r2) submits its
   log row l1 (l2) while it runs.  With one worker two such requests are enough
   to wedge the pool. *)
EXTENDS Executor, TLC

CONSTANTS w1, w2, c1, c2, r1, r2, l1, l2

FewTasks == {r1, r2, l1, l2}
FewRoots == {r1, r2}
FewChild == [k \in FewTasks |-> CASE k = r1 -> l1 [] k = r2 -> l2
                                  [] OTHER -> NoValue]

Symm == Permutations({w1, w2}) \cup Permutations({c1, c2})
=============================================================================
