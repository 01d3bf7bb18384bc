--------------------------- MODULE MCFleetSession ---------------------------
(***************************************************************************)
(* Instances of FleetSession for TLC.                                      *)
(***************************************************************************)
EXTENDS FleetSession, TLC

ProcSymmetry == Permutations(Callers) \cup Permutations(AGVs)
=============================================================================
