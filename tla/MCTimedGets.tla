---------------------------- MODULE MCTimedGets ----------------------------
(***************************************************************************)
(* Instances of TimedGets for TLC: all four programs.                      *)
(***************************************************************************)
EXTENDS TimedGets

MCPrograms == {"getsProc1231", "getsProc1232", "getsProc1233", "fgets"}
=============================================================================
