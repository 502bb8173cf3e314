------------------------------ MODULE MCCloud -------------------------------
(* CloudSync on small sets, and CloudStore under requests in any order.    *)
(* A behaviour is of one of the two: `part` is drawn at the start.  The    *)
(* careful client uploads under the empty root and never more than it was  *)
(* asked for; the free requests take any root, empty hashes, any number.   *)
EXTENDS CloudSync, TLC

CONSTANT MaxFreeCn   \* bound: change number the free requests reach

VARIABLE part

MCInit == SyncInit /\ part \in {"client", "requests"}

FreeRequest == Next /\ Version' <= MaxFreeCn /\ UNCHANGED client

MCNext ==
  /\ UNCHANGED part
  /\ \/ part = "client"   /\ SyncNext
     \/ part = "requests" /\ FreeRequest

MCSpec == MCInit /\ [][MCNext]_<<syncVars, part>>

(* Names and contents are interchangeable: the invariants and the action   *)
(* properties name none of them.                                           *)
Symmetry == Permutations(Names) \cup Permutations(Shas)
=============================================================================
