----------------------------- MODULE MCCharter -----------------------------
(* Charter for two pilots, one with the credits to post a contract and one with the goods
   it asks for, at a reward that doesn't divide by them; and works small enough
   to be finished and voted on. *)
EXTENDS Charter, TLC

CONSTANTS ada, bo
Both == {ada, bo}
Purse == ada :> 3 @@ bo :> 0
Hold == ada :> 0 @@ bo :> 2
=============================================================================
