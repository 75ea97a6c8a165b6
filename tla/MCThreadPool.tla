---------------------------- MODULE MCThreadPool ----------------------------
(***************************************************************************)
(* Instances of ThreadPool for TLC.                                        *)
(***************************************************************************)
EXTENDS ThreadPool

CONSTANTS w0, w1, w2, c1, c2, main, noFd

MCThree     == {w0, w1, w2}
MCTwoConns  == {c1, c2}
=============================================================================
