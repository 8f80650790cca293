--------------------------- MODULE MCFreeBlockList ---------------------------
(***************************************************************************)
(* FreeBlockList on a range that starts above 0, as a block list of any    *)
(* range may, with room for several free blocks at once.                   *)
(***************************************************************************)
EXTENDS FreeBlockList
=============================================================================
