------------------------------- MODULE Sortie -------------------------------
(***************************************************************************)
(* What becomes of a pilot's suit, as the pilot may rely on it: it is in   *)
(* one place at a time, and goes from one to the next only as suits do.    *)
(* Of the two who keep track of it, the sector that flies it and the       *)
(* record whose hangar it stands in (Hangar::bay), neither is named here:  *)
(* SlotLease shows that together they implement this.                      *)
(***************************************************************************)
CONSTANT Pilots
VARIABLE where  \* where each pilot's suit is

Places ==
    {"new", "docked",       \* in the bay: never out yet, or back from a sortie
     "leaving",             \* on its way to a cradle
     "flying", "asleep",    \* out there, its pilot awake or away
     "homeward",            \* out of the sector whole, and not yet in the bay
     "lost", "none"}        \* destroyed; and written off

Init == where = [p \in Pilots |-> "new"]

(* The ways a suit goes. *)
Launched == {"new", "docked"} \X {"leaving"}
Seated == {<<"leaving", "flying">>}
Slept == {<<"flying", "asleep">>}
Woke == {<<"asleep", "flying">>}
(* Docked, never thrown out of its cradle, or asleep and cleared for another's room. *)
CameIn == {"flying", "asleep"} \X {"homeward"}
Destroyed == {"flying", "asleep"} \X {"lost"}
(* Only a suit that came in, or was refused its cradle, is in the bay again; only one
   destroyed is written off or replaced. *)
Docked == {"homeward", "leaving"} \X {"docked"}
WrittenOff == {<<"lost", "none">>}
Replaced == {"lost", "none"} \X {"new"}

Ways ==
    UNION {Launched, Seated, Slept, Woke, CameIn, Destroyed, Docked, WrittenOff, Replaced}

(* Two may go at once: one is cleared from a full sector for another to be seated. *)
Next ==
    /\ where' \in [Pilots -> Places]
    /\ \A p \in Pilots : where'[p] = where[p] \/ <<where[p], where'[p]>> \in Ways

Spec == Init /\ [][Next]_where
=============================================================================
