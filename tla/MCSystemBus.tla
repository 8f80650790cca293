---------------------------- MODULE MCSystemBus ----------------------------
(***************************************************************************)
(* Two processes with two pages each, two pages of RAM and one of ROM: a   *)
(* fourth page in use reaches the disk, and physical addresses go past it. *)
(***************************************************************************)
EXTENDS SystemBus
=============================================================================
