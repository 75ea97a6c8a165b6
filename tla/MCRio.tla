------------------------------- MODULE MCRio --------------------------------
(***************************************************************************)
(* An instance of Rio for TLC: streams of four bytes, newlines at the      *)
(* first and fourth, read through a buffer of two bytes.                   *)
(***************************************************************************)
EXTENDS Rio, TLC

MCNewlines  == {1, 4}
MCSizes     == {0, 1, 3}
MCLineSizes == {1, 3, 5}
=============================================================================
