------------------------------- MODULE Inputs -------------------------------
(***************************************************************************)
(* A pilot's commands, one for each tick, on their way to the sector: the  *)
(* windows of them a client's input packets carry                          *)
(* (crates/bc-client-core/src/lib.rs, inputs.rs) and the sector's buffer   *)
(* (crates/bc-sector/src/jitter.rs).  A command is known by its tick.      *)
(* Nothing here keeps state: Replication does.                             *)
(***************************************************************************)
EXTENDS Integers, FiniteSets

CONSTANTS
    Slots,     \* SLOTS: commands the buffer has room for
    MaxCmds,   \* MAX_CMDS: commands in a packet
    Stalled    \* ticks behind the clock a client gives its missed commands up (30)

ASSUME InputsAssumption ==
    Slots \in Nat \ {0, 1, 2} /\ MaxCmds \in Nat \ {0, 1} /\ Stalled \in Nat

NoCmd == 0
Empty == [k \in 0 .. Slots - 1 |-> NoCmd]

(* JitterBuffer::insert, with `next` the tick to run next. *)
M_insert(buf, t, next) == IF t < next THEN buf ELSE [buf EXCEPT ![t % Slots] = t]
insert(buf, t, next) ==
    IF t < next \/ t >= next + Slots - 2 THEN buf ELSE [buf EXCEPT ![t % Slots] = t]

(* JitterBuffer::take: the command for t, if it came. *)
held(buf, t) == buf[t % Slots] = t
take(buf, t) == IF held(buf, t) THEN [buf EXCEPT ![t % Slots] = NoCmd] ELSE buf

(* Where a client at tick `target` goes on from: its next command, unless it's the first or
   the client stalled. *)
resume(next, newest, target) ==
    LET back == IF target > 3 THEN target - 3 ELSE 0
    IN  IF next = 0 \/ target > next + Stalled
        THEN IF back > newest + 1 THEN back ELSE newest + 1
        ELSE next

(* The packets for commands first to last: each one's newest, half a packet apart. *)
M_windows(first, last) ==
    {last - k * (MaxCmds \div 2) : k \in 0 .. (last - first - 1) \div (MaxCmds \div 2)} \cup {last}
windows(first, last) ==
    {last - k * (MaxCmds \div 2) : k \in 0 .. (last - first) \div (MaxCmds \div 2)}

(* What a packet carries of the commands made: the newest, and those before it up to a gap. *)
packet(made, newest) ==
    {t \in made : newest - MaxCmds < t /\ t <= newest /\ t .. newest \subseteq made}
=============================================================================
