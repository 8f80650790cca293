--------------------------- MODULE MCVirtualMemory ---------------------------
(***************************************************************************)
(* VirtualMemory with fewer physical pages and fewer disk pages than the   *)
(* processes have virtual ones, so that both run out.                      *)
(***************************************************************************)
EXTENDS VirtualMemory
=============================================================================
