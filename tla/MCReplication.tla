---------------------------- MODULE MCReplication ----------------------------
(* Replication for one client, with the rings and counts small. *)
EXTENDS Replication

MCTicks == [s \in Subjects |-> CASE s = "commands" -> 3 [] s = "events" -> 4 [] OTHER -> 5]
MCFlight == [s \in Subjects |-> IF s = "commands" THEN 1 ELSE 2]
MCAcks == [s \in Subjects |-> IF s \in {"suit", "commands"} THEN 1 ELSE 2]
=============================================================================
