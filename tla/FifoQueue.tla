------------------------------ MODULE FifoQueue ------------------------------
(***************************************************************************)
(* What one ucmq queue promises its producers and consumers: an accepted   *)
(* message joins the end of the queue, a successful get takes the message  *)
(* at its front, and nothing else moves a message.  Messages are numbered  *)
(* in the order in which their put was acknowledged.                       *)
(***************************************************************************)
EXTENDS Naturals, Sequences

VARIABLES queue,     \* the numbers of the accepted messages nobody got yet
          delivered  \* the numbers of the messages handed out, in order

fifoVars == <<queue, delivered>>

FifoInit ==
  /\ queue = << >>
  /\ delivered = << >>

\* The next put to be acknowledged.
Accept ==
  /\ queue' = Append(queue, Len(queue) + Len(delivered) + 1)
  /\ UNCHANGED delivered

\* A get that is answered with a message.
Deliver ==
  /\ queue # << >>
  /\ queue' = Tail(queue)
  /\ delivered' = Append(delivered, Head(queue))

FifoNext == Accept \/ Deliver

FifoSpec == FifoInit /\ [][FifoNext]_fifoVars
==============================================================================
