------------------------- MODULE MCProducerConsumer -------------------------
(* Small instances of ProducerConsumer for TLC. *)
EXTENDS ProducerConsumer
=============================================================================
