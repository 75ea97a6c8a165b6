---------------------------- MODULE MCMMNoFooter ----------------------------
(***************************************************************************)
(* Instances of MMNoFooter for TLC: a heap of a few blocks.                *)
(***************************************************************************)
EXTENDS MMNoFooter

Small == {0, 4, 20}
=============================================================================
