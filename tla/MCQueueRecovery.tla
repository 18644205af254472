--------------------------- MODULE MCQueueRecovery ---------------------------
(* Instances of QueueRecovery for TLC. *)
EXTENDS QueueRecovery

NoDelay == {0}
NoWlock == {0}
WlockArgs == {-1, 0}

\* No action reads reply: states that differ only in it have the same future.
RecoveryView ==
  <<files, cursors, counters, config, now, history, status, short, crashes, base, doubtful,
    asked, torn>>
==============================================================================
