---------------------------- MODULE MCGateCLaunch ----------------------------
(* GateCLaunch for TLC: launchers and targets are interchangeable. *)
EXTENDS GateCLaunch, TLC

Symmetry == Permutations(Launchers) \cup Permutations(Targets)
=============================================================================
