-------------------------- MODULE MCTurnLifecycle --------------------------
(***************************************************************************)
(* TurnLifecycle for TLC: the drivers are interchangeable.                 *)
(***************************************************************************)
EXTENDS TurnLifecycle, TLC

DriverSymmetry == Permutations(Drivers)

=============================================================================
