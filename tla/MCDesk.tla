-------------------------------- MODULE MCDesk -------------------------------
(* A colony with one rifle at its desk, a bounty of each kind, one thing to put away at
   home, and a server that stops once, anywhere. *)
EXTENDS Desk
=============================================================================
