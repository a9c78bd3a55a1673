---------------------------- MODULE MCSlotLease ----------------------------
(* SlotLease on small sectors: two pilots who may share a slot one after the other
   or fly at once, and suits enough for one of them to be cleared for the other. *)
EXTENDS SlotLease

(* Pilots are alike (slots are not: the sector goes through them in order). *)
Alike == Permutations(Pilots)
=============================================================================
