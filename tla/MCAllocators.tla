---------------------------- MODULE MCAllocators ----------------------------
(***************************************************************************)
(* Instances of Allocators for TLC: a heap of a few blocks, sizes from 0   *)
(* to one that an int does not hold.                                       *)
(***************************************************************************)
EXTENDS Allocators

Small == {0, 4, 20, 120}
=============================================================================
