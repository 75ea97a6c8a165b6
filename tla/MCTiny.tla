------------------------------- MODULE MCTiny -------------------------------
(***************************************************************************)
(* Instances of Tiny for TLC.                                              *)
(***************************************************************************)
EXTENDS Tiny

CONSTANTS c1, c2, noConn

MCConns    == {c1, c2}
MCVariants == DOMAIN Servers
MCGrown    == 2
=============================================================================
