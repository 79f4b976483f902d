-------------------------- MODULE MC_Subscription --------------------------
(* Three registrations, two of them of the same feed. *)
EXTENDS Subscription

CONSTANTS r1, r2, r3, f, g

TwoFeeds == [r \in {r1, r2, r3} |-> IF r = r3 THEN g ELSE f]
=============================================================================
