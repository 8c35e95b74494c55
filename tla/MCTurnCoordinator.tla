------------------------- MODULE MCTurnCoordinator -------------------------
(* Instances of TurnCoordinator for TLC: Stage and Nothing are model values. *)
EXTENDS TurnCoordinator
=============================================================================
