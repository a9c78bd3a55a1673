--------------------------------- MODULE Ack ---------------------------------
(***************************************************************************)
(* Which snapshot datagrams a client has, as its input packets tell the    *)
(* server (crates/bc-proto/src/ack.rs): sequence numbers cut to 16 bits on *)
(* the wire, a stream for each seat, and the client's window of what it    *)
(* took.  Nothing here keeps state: Replication does.                      *)
(***************************************************************************)
EXTENDS Integers

CONSTANTS
    Half,      \* half of what a sequence number on the wire counts to (0x8000)
    AckBits,   \* datagrams before the newest an ack names (32)
    MaxEpoch   \* seats are counted from 1 to this, and round again (63)

ASSUME AckAssumption ==
    /\ Half \in Nat \ {0} /\ AckBits \in Nat \ {0} /\ MaxEpoch \in Nat \ {0, 1}

Modulus == 2 * Half
NoStream == 0

(* The seat after `epoch`. *)
M_SameEpoch(epoch) == IF epoch = 0 THEN 1 ELSE epoch
next_epoch(epoch) == IF epoch >= MaxEpoch THEN 1 ELSE epoch + 1

(* The full number nearest `near` that goes on the wire as `seq`. *)
M_ExpandInPlace(seq, near) == near - (near % Modulus) + seq
expand(seq, near) ==
    LET candidate == near - (near % Modulus) + seq
    IN  IF candidate >= near + Half /\ candidate >= Modulus THEN candidate - Modulus
        ELSE IF candidate + Half < near THEN candidate + Modulus
        ELSE candidate

(* A datagram's number is read right while the client's newest is less than half the
   count away, and an ack's while the server's is: a connection that lost that many in
   a row (minutes of them) is over. *)
InReach(n, near) == near - Half <= n /\ n < near + Half

(* The client's AckWindow: the newest datagram taken on the stream in hand, and how far
   behind it the others were (the u64 mask's bits, twice AckBits of them). *)
NoWindow == [stream |-> NoStream, newest |-> 0, mask |-> {}, tick |-> 0, any |-> FALSE]

(* AckWindow::check: what it makes of datagram d, and its full number. *)
Stale == [is |-> "stale", n |-> 0]
check(win, d) ==
    IF d.stream = win.stream /\ win.mask # {}
    THEN LET s == expand(d.seq, win.newest)
         IN  IF s > win.newest THEN [is |-> "next", n |-> s] ELSE Stale
    ELSE IF ~win.any \/ d.tick > win.tick THEN [is |-> "new", n |-> d.seq] ELSE Stale

(* AckWindow::commit: a datagram check let through is taken. *)
commit(win, d, verdict) ==
    LET gap == verdict.n - win.newest
        older == IF verdict.is = "new" THEN {}
                 ELSE {o + gap : o \in win.mask} \cap (1 .. 2 * AckBits - 1)
    IN  [stream |-> d.stream, newest |-> verdict.n, mask |-> {0} \cup older,
         tick |-> IF d.tick > win.tick THEN d.tick ELSE win.tick, any |-> TRUE]

(* AckWindow::ack, in the next input packet. *)
ack(win) ==
    [stream |-> win.stream, seq |-> win.newest % Modulus,
     bits |-> {i \in 0 .. AckBits - 1 : i + 1 \in win.mask}]
=============================================================================
