------------------------------- MODULE MCDisk -------------------------------
(***************************************************************************)
(* Disk with pages of a few bytes and a cache of two slots, which the      *)
(* first two pages share and the third has for itself.  The data and the   *)
(* list of free pages are disjoint state, so that a behaviour exercises    *)
(* one or the other, chosen at the start.                                  *)
(***************************************************************************)
EXTENDS Disk

VARIABLE workload       \* what the run exercises: "data" or "pages"

MCInit == Init /\ workload \in {"data", "pages"}

MCNext ==
    /\ \/ workload = "data" /\ CacheNext
       \/ workload = "pages" /\ PagesNext
    /\ UNCHANGED workload

MCSpec == MCInit /\ [][MCNext]_<<vars, workload>>

=============================================================================
