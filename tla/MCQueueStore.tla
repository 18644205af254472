----------------------------- MODULE MCQueueStore -----------------------------
(***************************************************************************)
(* Instances of QueueStore for TLC.  A db file of 8 bytes with a head of 2 *)
(* and message heads of 1 holds two or three messages, so that the bounds  *)
(* below reach several files behind each other.                            *)
(***************************************************************************)
EXTENDS QueueStore

\* The layout instance leaves the settings alone.
NoDelay == {0}
NoWlock == {0}

\* -1 is what a delay request with a refused number sets.
DelayArgs == {-1, 0, 1}
WlockArgs == {-1, 0, 1}
==============================================================================
