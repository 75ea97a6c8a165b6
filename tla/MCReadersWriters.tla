-------------------------- MODULE MCReadersWriters ---------------------------
(***************************************************************************)
(* An instance of ReadersWriters for TLC.                                  *)
(***************************************************************************)
EXTENDS ReadersWriters

CONSTANTS s1, s2, s3, l1, l2

MCSharers  == {s1, s2, s3}
MCLoners   == {l1, l2}
MCPrograms == DOMAIN Limit
=============================================================================
