----------------------------- MODULE MCPhpClient -----------------------------
(***************************************************************************)
(* Instance of PhpClient for TLC: three servers and a table of two         *)
(* connections, so that the third call may find the table full.            *)
(***************************************************************************)
EXTENDS PhpClient, TLC

CONSTANTS s1, s2, s3, bad

\* The client treats all servers alike.
DestSymmetry == Permutations(Dests)
==============================================================================
