---------------------------- MODULE MCOpenQueue ----------------------------
(* Small instances of OpenQueue for TLC. *)
EXTENDS OpenQueue
=============================================================================
