--------------------------- MODULE MC_RateLimiter ---------------------------
(* Two or three workers, one or two clients; five requests are what it takes to
   refill the bucket three times in a second.  Ten seconds are scaled down to
   two and the hour to three; the order 1 < Quiet < Hour is kept. *)
EXTENDS RateLimiter, TLC

CONSTANTS t1, t2, t3, ca, cb

\* The global bucket holds two tokens, a client's one.
SmallLimit == [x \in Buckets |-> IF x = Global THEN 2 ELSE 1]
OneEach == [x \in Buckets |-> 1]

Symm == Permutations(Threads) \cup Permutations(Clients)
=============================================================================
