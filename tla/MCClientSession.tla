--------------------------- MODULE MCClientSession ---------------------------
(* Instances of ClientSession for TLC. *)
EXTENDS ClientSession
=============================================================================
