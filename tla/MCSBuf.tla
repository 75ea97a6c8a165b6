------------------------------- MODULE MCSBuf -------------------------------
(***************************************************************************)
(* Instances of SBuf for TLC, in which rear does not wrap: the threads and *)
(* the descriptors are sets of interchangeable model values.               *)
(***************************************************************************)
EXTENDS SBufProofs, TLC

CONSTANTS t1, t2, t3, c1, c2

MCThreads == {t1, t2, t3}
MCItems   == {c1, c2}
=============================================================================
