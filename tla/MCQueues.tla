------------------------------- MODULE MCQueues -------------------------------
(* A small instance of Queues for TLC. *)
EXTENDS Queues, TLC

CONSTANTS p1, o1, w1, j1, q1, q2

\* A worker that prefers the first queue and now and then asks for the other.
MCOrders == {<<q1, q2>>, <<q2>>}

=============================================================================
