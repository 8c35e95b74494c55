--------------------------- MODULE MCConfigReload ---------------------------
(* Instances of ConfigReload for TLC: Bot and Nothing are model values. *)
EXTENDS ConfigReload
=============================================================================
