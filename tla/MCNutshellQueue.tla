-------------------------- MODULE MCNutshellQueue --------------------------
(* Small instances of NutshellQueue for TLC. *)
EXTENDS NutshellQueue
=============================================================================
