----------------------------- MODULE Admission -----------------------------
(***************************************************************************)
(* Who gets a connection: crates/bc-server/src/net/admit.rs, driven by the *)
(* accept loop of net/endpoint.rs.                                         *)
(*                                                                         *)
(* `admit` runs under the by_address lock from its first check to its last *)
(* write, so it is one step.  `Pass::drop` is not: it takes the pass out   *)
(* of `handshaking` and then of `open`, two atomics written without the    *)
(* lock, and only then takes the lock for the address's count.  Those      *)
(* three writes are three steps here, and any admit or drop may come       *)
(* between them.                                                           *)
(***************************************************************************)
EXTENDS Integers, FiniteSets

CONSTANTS
    Conns,           \* connection attempts, each with a life of its own
    Addrs,           \* whom a connection counts against (whose(ip))
    Loopback,        \* the addresses excepted from the per-address share
    MaxConnections,  \* Limits::connections
    PerAddress,      \* Limits::per_address
    RetryAbove       \* Limits::retry_above

ASSUME LimitsAssumption ==
    /\ MaxConnections \in Nat
    /\ PerAddress \in Nat
    /\ RetryAbove \in Nat
    /\ Loopback \subseteq Addrs
    /\ Addrs # {}

VARIABLES
    phase,        \* where a connection attempt stands
    ip,           \* the address it comes from
    validated,    \* it has proved it hears back at that address
    open,         \* Admission::open
    handshaking,  \* Admission::handshaking
    byAddress     \* Admission::by_address (0: no entry)

AdmissionVars == <<phase, ip, validated, open, handshaking, byAddress>>

(***************************************************************************)
(* "away": not here; "retry": sent a Retry, to come back validated;        *)
(* "shaking"/"held": its task holds the Pass, before and after             *)
(* established(); "unshaken", "uncounted": inside Pass::drop, after its    *)
(* first and its second write.                                             *)
(***************************************************************************)
Places == {"away", "retry", "shaking", "held", "unshaken", "uncounted"}

AdmissionInit ==
    /\ phase = [c \in Conns |-> "away"]
    /\ ip \in [Conns -> Addrs]
    /\ validated = [c \in Conns |-> FALSE]
    /\ open = 0
    /\ handshaking = 0
    /\ byAddress = [a \in Addrs |-> 0]

(* Mutants of the three checks: the bound itself let through; Retry asked
   one handshake late. *)
M_FullOffByOne == open > MaxConnections
M_ShareOffByOne(a) == a \notin Loopback /\ byAddress[a] > PerAddress
M_MustRetryLate(c) == ~validated[c] /\ handshaking > RetryAbove

Full == open >= MaxConnections

ShareTaken(a) == a \notin Loopback /\ byAddress[a] >= PerAddress

MustRetry(c) == ~validated[c] /\ handshaking >= RetryAbove

(* An attempt comes in and is admitted. *)
Admit(c) ==
    /\ phase[c] \in {"away", "retry"}
    /\ ~Full
    /\ ~ShareTaken(ip[c])
    /\ ~MustRetry(c)
    /\ byAddress' = [byAddress EXCEPT ![ip[c]] = @ + 1]
    /\ open' = open + 1
    /\ handshaking' = handshaking + 1
    /\ phase' = [phase EXCEPT ![c] = "shaking"]
    /\ UNCHANGED <<ip, validated>>

(* An attempt is sent a QUIC Retry; the client that answers it is validated. *)
Retry(c) ==
    /\ phase[c] = "away"
    /\ ~Full
    /\ ~ShareTaken(ip[c])
    /\ MustRetry(c)
    /\ phase' = [phase EXCEPT ![c] = "retry"]
    /\ validated' = [validated EXCEPT ![c] = TRUE]
    /\ UNCHANGED <<ip, open, handshaking, byAddress>>

(* Full, or the address has its share: the attempt is refused and gone. *)
Refuse(c) ==
    /\ phase[c] = "retry"
    /\ Full \/ ShareTaken(ip[c])
    /\ phase' = [phase EXCEPT ![c] = "away"]
    /\ validated' = [validated EXCEPT ![c] = FALSE]
    /\ UNCHANGED <<ip, open, handshaking, byAddress>>

(* Both handshakes are done: Pass::established. *)
Established(c) ==
    /\ phase[c] = "shaking"
    /\ handshaking' = handshaking - 1
    /\ phase' = [phase EXCEPT ![c] = "held"]
    /\ UNCHANGED <<ip, validated, open, byAddress>>

(* Mutant: drop takes every pass out of `handshaking`, established or not. *)
M_DropHandshakeTwice(c) ==
    /\ phase[c] \in {"shaking", "held"}
    /\ handshaking' = handshaking - 1
    /\ phase' = [phase EXCEPT ![c] = "unshaken"]
    /\ UNCHANGED <<ip, validated, open, byAddress>>

(* The connection ends (or its handshake failed or timed out): Pass::drop's
   first write, which only a pass still handshaking makes. *)
DropHandshake(c) ==
    /\ phase[c] \in {"shaking", "held"}
    /\ handshaking' = IF phase[c] = "shaking" THEN handshaking - 1 ELSE handshaking
    /\ phase' = [phase EXCEPT ![c] = "unshaken"]
    /\ UNCHANGED <<ip, validated, open, byAddress>>

(* Mutant: drop forgets the pass's place in `open`. *)
M_DropOpenLeaks(c) ==
    /\ phase[c] = "unshaken"
    /\ phase' = [phase EXCEPT ![c] = "uncounted"]
    /\ UNCHANGED <<ip, validated, open, handshaking, byAddress>>

(* Its second write, still without the lock. *)
DropOpen(c) ==
    /\ phase[c] = "unshaken"
    /\ open' = open - 1
    /\ phase' = [phase EXCEPT ![c] = "uncounted"]
    /\ UNCHANGED <<ip, validated, handshaking, byAddress>>

(* Its third, under the lock; the entry goes when it reaches 0.  The next
   attempt may come from anywhere. *)
DropAddress(c) ==
    /\ phase[c] = "uncounted"
    /\ byAddress' = IF byAddress[ip[c]] > 0
                    THEN [byAddress EXCEPT ![ip[c]] = @ - 1]
                    ELSE byAddress
    /\ phase' = [phase EXCEPT ![c] = "away"]
    /\ validated' = [validated EXCEPT ![c] = FALSE]
    /\ ip' \in {[ip EXCEPT ![c] = a] : a \in Addrs}
    /\ UNCHANGED <<open, handshaking>>

AdmissionNext ==
    \E c \in Conns :
        \/ Admit(c)
        \/ Retry(c)
        \/ Refuse(c)
        \/ Established(c)
        \/ DropHandshake(c)
        \/ DropOpen(c)
        \/ DropAddress(c)

AdmissionSpec == AdmissionInit /\ [][AdmissionNext]_AdmissionVars

-----------------------------------------------------------------------------
Shaking == {c \in Conns : phase[c] = "shaking"}
Passes  == {c \in Conns : phase[c] \in {"shaking", "held", "unshaken"}}
Listed(a) == {c \in Conns :
                /\ phase[c] \in {"shaking", "held", "unshaken", "uncounted"}
                /\ ip[c] = a}

(* Every variable has its type; the counters never go below 0 (they are
   u32, and a wrapped one would refuse everyone). *)
AdmissionTypeOK ==
    /\ phase \in [Conns -> Places]
    /\ ip \in [Conns -> Addrs]
    /\ validated \in [Conns -> BOOLEAN]
    /\ open \in Nat
    /\ handshaking \in Nat
    /\ byAddress \in [Addrs -> Nat]

(* The counters say what is held, whatever drops are half done: the two
   atomics and the map are written apart, and a pass leaks out of none of
   them (admit.rs: "A connection's place, given back when it's dropped"). *)
CountersExact ==
    /\ handshaking = Cardinality(Shaking)
    /\ open = Cardinality(Passes)
    /\ \A a \in Addrs : byAddress[a] = Cardinality(Listed(a))

(* Never more passes than the server takes (admit.rs: "A ceiling"), though
   `open` is written outside the lock that the check is made under. *)
Ceiling == Cardinality(Passes) <= MaxConnections

(* An address that is not loopback never holds more than its share
   (admit.rs: "A share per address"). *)
AddressShare ==
    \A a \in Addrs \ Loopback : Cardinality(Listed(a)) <= PerAddress

(* Unproved addresses never hold more handshakes than the mark past which
   they are asked to prove themselves (admit.rs: "Retry under load"). *)
UnprovedBound ==
    Cardinality({c \in Shaking : ~validated[c]}) <= RetryAbove

(* The three limits of admit.rs, though each is checked under a lock that the writes
   of a pass half dropped don't take. *)
Limits == Ceiling /\ AddressShare /\ UnprovedBound

=============================================================================
