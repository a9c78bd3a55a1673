------------------------------ MODULE MCHomes ------------------------------
(* Homes for two pilots, one with the credits for a flat and a bed or a chest in it, or for
   a house; a rent that doubles with the two of them on the crew; and hours enough for a
   panel to run dry and the lease to lapse, the server up, down or closed. *)
EXTENDS Homes, TLC

CONSTANTS ada, bo, flat, house
Both == {ada, bo}
Purse == ada :> 3 @@ bo :> 0
Bay == ada :> 1 @@ bo :> 0
Rent(n) == IF n > 1 THEN 2 ELSE 1
=============================================================================
