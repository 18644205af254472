---------------------------- MODULE MCQueueServer ----------------------------
EXTENDS QueueServer, TLC

\* What atoi makes of the numbers in requests: below, at and above each limit
\* the handlers test (0, -1 and, with QueueMaxSize = 1, 2).
NumArgs == {-2, -1, 0, 1, 2}

\* The handlers treat all names alike.
NameSymmetry == Permutations(Names)

\* No action reads last: states that differ only in it have the same future.
ServerView == <<status, qlist, disk, count, space, puts, crashes>>
==============================================================================
