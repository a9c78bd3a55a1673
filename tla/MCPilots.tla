------------------------------ MODULE MCPilots ------------------------------
(* Pilots for a handful of sessions of one pilot. *)
EXTENDS Pilots
=============================================================================
