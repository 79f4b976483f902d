--------------------------- MODULE MC_HackerNews ---------------------------
(* Three stories, the last with the address of the first; two hours.  (An item
   that is no story takes the way of an address seen before.) *)
EXTENDS HackerNews, TLC

CONSTANTS u, v1

SameAddress == <<u, v1, u>>

\* The conditions spelled out in Stuck are the guards of the steps of a job: TLC stops
\* at a state where they are not.
StuckIsStuck ==
  Assert(Stuck <=> pc # "off" /\ ~ENABLED RunStep, "Stuck is not what RunStep says")
=============================================================================
