-------------------------- MODULE MCFleetAutoTrack ---------------------------
(* Instances of FleetAutoTrack for TLC. *)
EXTENDS FleetAutoTrack
=============================================================================
