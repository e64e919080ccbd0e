-------------------------- MODULE MCQueueDelivery --------------------------
(* A small instance of QueueDelivery for TLC. *)
EXTENDS QueueDelivery

CONSTANT t1

OneThread == [i \in Items |-> t1]
=============================================================================
