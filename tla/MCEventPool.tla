----------------------------- MODULE MCEventPool -----------------------------
(***************************************************************************)
(* Instances of EventPool for TLC: descriptors for two clients at a time.  *)
(***************************************************************************)
EXTENDS EventPool

CONSTANTS c1, c2, c3

MCThree == {c1, c2, c3}
MCOne   == {c1}
=============================================================================
