---------------------------- MODULE PageAllocator ----------------------------
(***************************************************************************)
(* What Disk and VirtualMemory rely on when they keep page numbers or      *)
(* process ids in a FreeBlockList: a set of numbers, each either free or   *)
(* in use, from which a request is refused only when nothing is free       *)
(* (Disk::get_free_page, disk.h:79-90, "Get a free disk page that is not   *)
(* currently in use").  Which free number is handed out is left open.      *)
(***************************************************************************)
EXTENDS Integers

CONSTANT Pages      \* the numbers managed

VARIABLES
    free,           \* numbers that may be handed out
    used,           \* numbers handed out and not yet returned
    reply           \* answer to the last call

vars == <<free, used, reply>>

Init ==
    /\ free = Pages
    /\ used = {}
    /\ reply = [status |-> "ok", addr |-> 0]

Get ==
    \E p \in free :
        /\ free' = free \ {p}
        /\ used' = used \cup {p}
        /\ reply' = [status |-> "ok", addr |-> p]

Refuse ==
    /\ free = {}
    /\ reply' = [status |-> "throw", addr |-> 0]
    /\ UNCHANGED <<free, used>>

Return ==
    \E p \in used :
        /\ free' = free \cup {p}
        /\ used' = used \ {p}
        /\ reply' = [status |-> "ok", addr |-> 0]

ReturnAll ==
    /\ free' = Pages
    /\ used' = {}
    /\ reply' = [status |-> "ok", addr |-> 0]

Next == Get \/ Refuse \/ Return \/ ReturnAll

Spec == Init /\ [][Next]_vars

=============================================================================
