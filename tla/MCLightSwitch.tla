--------------------------- MODULE MCLightSwitch ---------------------------
(* Small instances of LightSwitch for TLC. *)
EXTENDS LightSwitch
=============================================================================
