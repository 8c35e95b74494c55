--------------------------- MODULE MCProcessLock ---------------------------
(* Instances of ProcessLock for TLC: processes and NoFile are model values. *)
EXTENDS ProcessLock
=============================================================================
