------------------------------ MODULE NetProofs ------------------------------
(***************************************************************************)
(* The server's network edge.  The admission limits hold for every set of  *)
(* connections and addresses and every setting of the limits.  The         *)
(* invariant that carries them ties each counter to the set it counts:     *)
(* that a counter does not go below 0, or stay above what is held, is what *)
(* makes the checks in `admit` mean anything.  And sequence numbers are    *)
(* read off the wire as they were sent, whatever the count they wrap at.   *)
(*                                                                         *)
(* What a client is told, over any loss, delay and reordering of datagrams *)
(* and acks, for every size of the rings, queues and buffers.  The         *)
(* argument goes up in four storeys, each an inductive invariant that uses *)
(* those below it: the types (TypeInv); what may be in flight of a stream  *)
(* the server hasn't reached (StreamInv); that what an ack names was taken *)
(* (AckInv) and what the client's window stands at (WinInv); and, for each *)
(* kind of news, what the server's books say of what the client holds      *)
(* (HeardInv, ChunkInv, SuitInv, KeptInv).  All above the types rests on   *)
(* FreshStreams: no datagram or ack of an earlier seat is still in flight  *)
(* when the count of streams has gone round and a seat gets its stream     *)
(* again.  OneRoundIsFresh is the case the bound on seats covers.          *)
(***************************************************************************)
EXTENDS Admission, Replication, Sums, FiniteSetTheorems, TLAPS

(* The sets the counters count are finite (Conns itself need not be). *)
Counted ==
    /\ IsFiniteSet(Shaking)
    /\ IsFiniteSet(Passes)
    /\ \A a \in Addrs : IsFiniteSet(Listed(a))

Unproved == {c \in Shaking : ~validated[c]}

IInv ==
    /\ AdmissionTypeOK
    /\ Counted
    /\ CountersExact
    /\ open <= MaxConnections
    /\ \A a \in Addrs \ Loopback : byAddress[a] <= PerAddress
    /\ Cardinality(Unproved) <= RetryAbove

(* Before anyone connects (Admission::new) nothing is counted. *)
LEMMA InitIInv == AdmissionInit => IInv
<1> SUFFICES ASSUME AdmissionInit PROVE IInv
  OBVIOUS
<1>1. AdmissionTypeOK
  BY DEF AdmissionInit, AdmissionTypeOK, Places
<1>2. /\ Shaking = {} /\ Passes = {} /\ Unproved = {}
      /\ \A a \in Addrs : Listed(a) = {}
  BY DEF AdmissionInit, Shaking, Passes, Unproved, Listed
<1>3. Counted /\ CountersExact /\ Cardinality(Unproved) <= RetryAbove
  BY <1>2, FS_EmptySet, LimitsAssumption DEF Counted, CountersExact, AdmissionInit
<1> QED
  BY <1>1, <1>3, LimitsAssumption DEF AdmissionInit, IInv

(* Handshakes ending can only take unproved ones away. *)
LEMMA UnprovedShrinks ==
    ASSUME IInv, NEW T \in SUBSET Unproved
    PROVE  Cardinality(T) <= RetryAbove
<1>1. IsFiniteSet(Unproved)
  BY FS_Subset DEF IInv, Counted, Unproved
<1>2. Cardinality(T) <= Cardinality(Unproved) /\ IsFiniteSet(T)
  BY <1>1, FS_Subset
<1>3. Cardinality(T) \in Nat /\ Cardinality(Unproved) \in Nat
  BY <1>1, <1>2, FS_CardinalityType
<1> QED
  BY <1>2, <1>3, LimitsAssumption DEF IInv

(* Every step of the accept loop, of a session's task and of a pass half
   dropped keeps each counter equal to what it counts. *)
LEMMA NextIInv == IInv /\ [AdmissionNext]_AdmissionVars => IInv'
<1> SUFFICES ASSUME IInv, [AdmissionNext]_AdmissionVars PROVE IInv'
  OBVIOUS
<1> USE LimitsAssumption DEF IInv, AdmissionTypeOK, Places
<1>1. ASSUME NEW c \in Conns, Admit(c) PROVE IInv'
  <2> USE <1>1 DEF Admit
  <2>1. AdmissionTypeOK'
    OBVIOUS
  <2>2. /\ Shaking' = Shaking \cup {c} /\ c \notin Shaking
        /\ Passes' = Passes \cup {c} /\ c \notin Passes
    BY DEF Shaking, Passes
  <2>3. \A a \in Addrs : /\ a = ip[c] => /\ Listed(a)' = Listed(a) \cup {c}
                                         /\ c \notin Listed(a)
                         /\ a # ip[c] => Listed(a)' = Listed(a)
    BY DEF Listed
  <2>4. /\ IsFiniteSet(Shaking') /\ Cardinality(Shaking') = Cardinality(Shaking) + 1
        /\ IsFiniteSet(Passes') /\ Cardinality(Passes') = Cardinality(Passes) + 1
    BY <2>2, FS_AddElement DEF Counted
  <2>5. ASSUME NEW a \in Addrs
        PROVE  /\ IsFiniteSet(Listed(a)')
               /\ byAddress'[a] = Cardinality(Listed(a)')
               /\ a \notin Loopback => byAddress'[a] <= PerAddress
    <3>1. IsFiniteSet(Listed(a)) /\ byAddress[a] = Cardinality(Listed(a))
      BY DEF Counted, CountersExact
    <3>2. CASE a = ip[c]
      <4>1. /\ IsFiniteSet(Listed(a) \cup {c})
            /\ Cardinality(Listed(a) \cup {c}) = Cardinality(Listed(a)) + 1
        BY <2>3, <3>1, <3>2, FS_AddElement
      <4> QED
        BY <4>1, <2>3, <3>1, <3>2, SMTT(30) DEF ShareTaken
    <3>3. CASE a # ip[c]
      BY <2>3, <3>1, <3>3
    <3> QED
      BY <3>2, <3>3
  <2>6. Cardinality(Unproved') <= RetryAbove
    <3>1. CASE validated[c]
      <4>1. Unproved' = Unproved
        BY <3>1 DEF Unproved, Shaking
      <4> QED
        BY <4>1
    <3>2. CASE ~validated[c]
      <4>1. Unproved' \in SUBSET Shaking'
        BY DEF Unproved, Shaking
      <4>2. Cardinality(Unproved') <= Cardinality(Shaking')
        BY <4>1, <2>4, FS_Subset
      <4>3. handshaking + 1 <= RetryAbove
        BY <3>2 DEF MustRetry
      <4>4. Cardinality(Unproved') \in Nat
        BY <4>1, <2>4, FS_Subset, FS_CardinalityType
      <4> QED
        BY <4>2, <4>3, <4>4, <2>4 DEF CountersExact
    <3> QED
      BY <3>1, <3>2
  <2> QED
    BY <2>1, <2>4, <2>5, <2>6 DEF Counted, CountersExact, Full
<1>2. ASSUME NEW c \in Conns, Retry(c) PROVE IInv'
  <2>1. /\ Shaking' = Shaking /\ Passes' = Passes /\ Unproved' = Unproved
        /\ \A a \in Addrs : Listed(a)' = Listed(a)
    BY <1>2 DEF Retry, Shaking, Passes, Unproved, Listed
  <2> QED
    BY <2>1, <1>2 DEF Retry, Counted, CountersExact
<1>3. ASSUME NEW c \in Conns, Refuse(c) PROVE IInv'
  <2>1. /\ Shaking' = Shaking /\ Passes' = Passes /\ Unproved' = Unproved
        /\ \A a \in Addrs : Listed(a)' = Listed(a)
    BY <1>3 DEF Refuse, Shaking, Passes, Unproved, Listed
  <2> QED
    BY <2>1, <1>3 DEF Refuse, Counted, CountersExact
<1>4. ASSUME NEW c \in Conns, Established(c) PROVE IInv'
  <2>1. /\ Shaking' = Shaking \ {c} /\ c \in Shaking
        /\ Passes' = Passes /\ Unproved' \in SUBSET Unproved
        /\ \A a \in Addrs : Listed(a)' = Listed(a)
    BY <1>4 DEF Established, Shaking, Passes, Unproved, Listed
  <2>2. /\ IsFiniteSet(Shaking') /\ Cardinality(Shaking') = Cardinality(Shaking) - 1
        /\ Cardinality(Shaking') \in Nat
    BY <2>1, FS_RemoveElement, FS_CardinalityType DEF Counted
  <2>3. Cardinality(Unproved') <= RetryAbove
    BY <2>1, UnprovedShrinks
  <2> QED
    BY <2>1, <2>2, <2>3, <1>4 DEF Established, Counted, CountersExact
<1>5. ASSUME NEW c \in Conns, DropHandshake(c) PROVE IInv'
  <2>1. /\ Shaking' = Shaking \ {c} /\ (c \in Shaking <=> phase[c] = "shaking")
        /\ Passes' = Passes /\ Unproved' \in SUBSET Unproved
        /\ \A a \in Addrs : Listed(a)' = Listed(a)
    BY <1>5 DEF DropHandshake, Shaking, Passes, Unproved, Listed
  <2>2. /\ IsFiniteSet(Shaking') /\ Cardinality(Shaking') = handshaking'
        /\ Cardinality(Shaking') \in Nat
    BY <2>1, <1>5, FS_RemoveElement, FS_CardinalityType DEF Counted, CountersExact, DropHandshake
  <2>3. Cardinality(Unproved') <= RetryAbove
    BY <2>1, UnprovedShrinks
  <2> QED
    BY <2>1, <2>2, <2>3, <1>5 DEF DropHandshake, Counted, CountersExact
<1>6. ASSUME NEW c \in Conns, DropOpen(c) PROVE IInv'
  <2>1. /\ Passes' = Passes \ {c} /\ c \in Passes
        /\ Shaking' = Shaking /\ Unproved' = Unproved
        /\ \A a \in Addrs : Listed(a)' = Listed(a)
    BY <1>6 DEF DropOpen, Shaking, Passes, Unproved, Listed
  <2>2. /\ IsFiniteSet(Passes') /\ Cardinality(Passes') = Cardinality(Passes) - 1
        /\ Cardinality(Passes') \in Nat
    BY <2>1, FS_RemoveElement, FS_CardinalityType DEF Counted
  <2> QED
    BY <2>1, <2>2, <1>6 DEF DropOpen, Counted, CountersExact
<1>7. ASSUME NEW c \in Conns, DropAddress(c) PROVE IInv'
  <2> USE <1>7 DEF DropAddress
  <2>1. /\ Shaking' = Shaking /\ Passes' = Passes /\ Unproved' = Unproved
    BY DEF Shaking, Passes, Unproved
  <2>2. \A a \in Addrs : /\ a = ip[c] => /\ Listed(a)' = Listed(a) \ {c}
                                         /\ c \in Listed(a)
                         /\ a # ip[c] => Listed(a)' = Listed(a)
    BY DEF Listed
  <2>3. ASSUME NEW a \in Addrs
        PROVE  /\ IsFiniteSet(Listed(a)')
               /\ byAddress'[a] = Cardinality(Listed(a)')
               /\ byAddress'[a] \in Nat
               /\ byAddress'[a] <= byAddress[a]
    <3>1. IsFiniteSet(Listed(a)) /\ byAddress[a] = Cardinality(Listed(a))
      BY DEF Counted, CountersExact
    <3>2. CASE a = ip[c]
      <4>1. /\ IsFiniteSet(Listed(a) \ {c})
            /\ Cardinality(Listed(a) \ {c}) = Cardinality(Listed(a)) - 1
            /\ Cardinality(Listed(a) \ {c}) \in Nat
        BY <2>2, <3>1, <3>2, FS_RemoveElement, FS_CardinalityType
      <4>2. byAddress[a] \in Nat /\ byAddress[a] > 0
        BY <4>1, <3>1
      <4>3. byAddress'[a] = byAddress[a] - 1
        BY <4>2, <3>2
      <4>4. Listed(a)' = Listed(a) \ {c}
        BY <2>2, <3>2
      <4> QED
        BY <4>1, <4>2, <4>3, <4>4, <3>1
    <3>3. CASE a # ip[c]
      BY <2>2, <3>1, <3>3
    <3> QED
      BY <3>2, <3>3
  <2>4. AdmissionTypeOK'
    BY <2>3
  <2> QED
    BY <2>1, <2>3, <2>4 DEF Counted, CountersExact
<1>8. CASE UNCHANGED AdmissionVars
  BY <1>8 DEF AdmissionVars, Counted, CountersExact, Shaking, Passes, Unproved, Listed
<1> QED
  BY <1>1, <1>2, <1>3, <1>4, <1>5, <1>6, <1>7, <1>8 DEF AdmissionNext

(* Every variable keeps its type; no counter of admit.rs wraps below 0. *)
THEOREM TypeCorrect == AdmissionSpec => []AdmissionTypeOK
<1>1. IInv => AdmissionTypeOK
  BY DEF IInv
<1> QED
  BY <1>1, InitIInv, NextIInv, PTL DEF AdmissionSpec

(* The counters of admit.rs are exact in every reachable state, drops half
   done included. *)
THEOREM CountersAreExact == AdmissionSpec => []CountersExact
<1>1. IInv => CountersExact
  BY DEF IInv
<1> QED
  BY <1>1, InitIInv, NextIInv, PTL DEF AdmissionSpec

(* The limits of admit.rs hold: the ceiling, the share of every address but
   loopback, and the handshakes of unproved addresses. *)
THEOREM LimitsHold == AdmissionSpec => []Limits
<1>1. IInv => Limits
  BY DEF IInv, CountersExact, Limits, Ceiling, AddressShare, UnprovedBound, Unproved
<1> QED
  BY <1>1, InitIInv, NextIInv, PTL DEF AdmissionSpec

-----------------------------------------------------------------------------
(* Sequence numbers. *)

(* The parts of a number: which turn of the count it is in, and where in it. *)
LEMMA Turns ==
    ASSUME NEW n \in Nat
    PROVE  /\ n \div Modulus \in Nat /\ n % Modulus \in 0 .. Modulus - 1
           /\ n = Modulus * (n \div Modulus) + (n % Modulus)
BY AckAssumption, SMTT(30) DEF Modulus

(* Two numbers in reach are in the same turn, or in the ones before and after. *)
LEMMA NextTurns ==
    ASSUME NEW n \in Nat, NEW near \in Nat, InReach(n, near)
    PROVE  n \div Modulus - near \div Modulus \in {-1, 0, 1}
<1> DEFINE q == n \div Modulus
           p == near \div Modulus
           r == n % Modulus
           s == near % Modulus
<1>1. /\ q \in Nat /\ p \in Nat /\ r \in 0 .. Modulus - 1 /\ s \in 0 .. Modulus - 1
      /\ n = Modulus * q + r /\ near = Modulus * p + s
  BY Turns
<1>2. Modulus \in Nat \ {0} /\ Half \in Nat /\ Modulus = 2 * Half
  BY AckAssumption DEF Modulus
<1> HIDE DEF q, p, r, s
<1>3. n - near = Modulus * (q - p) + r - s
  BY <1>1, <1>2
<1>4. ASSUME q - p >= 2 PROVE FALSE
  <2>1. Modulus * (q - p) >= 2 * Modulus
    BY <1>1, <1>2, <1>4
  <2> QED BY <2>1, <1>1, <1>2, <1>3 DEF InReach
<1>5. ASSUME q - p <= -2 PROVE FALSE
  <2>1. Modulus * (q - p) <= -2 * Modulus
    BY <1>1, <1>2, <1>5
  <2> QED BY <2>1, <1>1, <1>2, <1>3 DEF InReach
<1> QED BY <1>1, <1>4, <1>5 DEF q, p

(* expand: the number nearest `near` is the one that was sent, if that was in reach; what
   AckWindow::check and ClientState::on_ack rest on, on either side of a wrap. *)
THEOREM ExpandNearest ==
    ASSUME NEW n \in Nat, NEW near \in Nat, InReach(n, near)
    PROVE  expand(n % Modulus, near) = n
<1> DEFINE q == n \div Modulus
           p == near \div Modulus
           candidate == near - (near % Modulus) + (n % Modulus)
<1>1. Modulus \in Nat \ {0} /\ Half \in Nat \ {0} /\ Modulus = 2 * Half
  BY AckAssumption DEF Modulus
<1>2. candidate = n + Modulus * (p - q) /\ candidate \in Nat /\ q \in Nat /\ p \in Nat
  <2> DEFINE r == n % Modulus
             s == near % Modulus
  <2>1. /\ q \in Nat /\ p \in Nat /\ r \in 0 .. Modulus - 1 /\ s \in 0 .. Modulus - 1
        /\ n = Modulus * q + r /\ near = Modulus * p + s /\ candidate = near - s + r
    BY Turns
  <2> HIDE DEF q, p, r, s, candidate
  <2>2. Modulus * p \in Nat /\ Modulus * q \in Nat /\ Modulus * (p - q) = Modulus * p - Modulus * q
    BY <1>1, <2>1
  <2>3. candidate = Modulus * p + r
    BY <1>1, <2>1, <2>2
  <2> QED BY <1>1, <2>1, <2>2, <2>3
<1>3. q - p \in {-1, 0, 1}
  BY NextTurns
<1> HIDE DEF q, p, candidate
<1>4. expand(n % Modulus, near) =
        IF candidate >= near + Half /\ candidate >= Modulus THEN candidate - Modulus
        ELSE IF candidate + Half < near THEN candidate + Modulus
        ELSE candidate
  BY DEF expand, candidate
<1>5. CASE q - p = 0
  BY <1>1, <1>2, <1>4, <1>5 DEF InReach
<1>6. CASE q - p = 1
  <2>1. candidate = n - Modulus
    BY <1>1, <1>2, <1>6
  <2> QED BY <1>1, <1>4, <2>1 DEF InReach
<1>7. CASE q - p = -1
  <2>1. candidate = n + Modulus
    BY <1>1, <1>2, <1>7
  <2> QED BY <1>1, <1>4, <2>1 DEF InReach
<1> QED BY <1>3, <1>5, <1>6, <1>7, <1>2

-----------------------------------------------------------------------------
Objs == Nothing .. MaxVersion
Ents == [nth : Nat, tick : Nat]
Recs == [n : Nat, done : Nat, leaves : Nat, obj : Objs, ents : SUBSET Ents]
Bases == [has : BOOLEAN, nth : Nat, tick : Nat]
Rings == [0 .. SentRing - 1 -> Recs]
Servers ==
    [stream : Nat, seq : Nat, floor : Nat, sent : Rings, leaves : Seq(Nat), known : BOOLEAN,
     acked : NONE .. MaxVersion, sends : Nat, base : Bases, event_acked : Nat,
     retired : SUBSET Nat, joined : Nat]
Downs ==
    [stream : Nat, seq : Nat, n : Nat, tick : Nat, more : BOOLEAN, leaves : Seq(Nat),
     events : SUBSET Nat, suit : BOOLEAN, nth : Nat, base : Nat, obj : Objs]
Ups == [stream : Nat, seq : Nat, bits : SUBSET (0 .. AckBits - 1), n : Nat, cmds : SUBSET Nat]
Windows ==
    [stream : Nat, newest : Nat, mask : SUBSET (0 .. 2 * AckBits - 1), tick : Nat, any : BOOLEAN]

(* What the sector keeps of a client is well formed. *)
Fit(s) ==
    /\ s \in Servers
    /\ s.stream \in 1 .. MaxEpoch /\ s.floor <= s.seq /\ Len(s.leaves) <= LeaveQueue

JitterFits == \A k \in DOMAIN jitter : jitter[k] # NoCmd => jitter[k] % Slots = k

WorldTypes ==
    /\ subject \in Subjects /\ tick \in Nat /\ sight \in BOOLEAN
    /\ place \in {"near", "edge", "far"} /\ version \in 1 .. MaxVersion /\ events \in Seq(Nat)
    /\ seated \in {"flying", "docked", "home"} /\ seats \in Nat
ClientTypes ==
    /\ win \in Windows /\ kept \in Seq(Nat) /\ Len(kept) <= Kept
    /\ track \in Nat /\ chunk \in NONE .. MaxVersion
CommandTypes ==
    /\ jitter \in [0 .. Slots - 1 -> Nat] /\ JitterFits
    /\ made \in SUBSET Nat /\ next_cmd \in Nat /\ once \in SUBSET Nat /\ twice \in SUBSET Nat
    /\ \A t \in made : t < next_cmd
    /\ came \in SUBSET Nat /\ missed \in SUBSET Nat
HistoryTypes ==
    /\ taken \in SUBSET (Nat \X Nat) /\ named \in SUBSET (Nat \X Nat)
    /\ heard \in SUBSET Nat /\ spilled \in BOOLEAN
WireTypes == down \in SUBSET Downs /\ up \in SUBSET Ups

TypeInv ==
    /\ WorldTypes /\ ClientTypes /\ CommandTypes /\ HistoryTypes /\ WireTypes
    /\ Fit(srv)

LEMMA TypeInvImplies == TypeInv => TypeOK
BY DEF TypeInv, WorldTypes, ClientTypes, CommandTypes, HistoryTypes, WireTypes, Fit, TypeOK,
       Servers, Windows, JitterFits

-----------------------------------------------------------------------------
(* A remainder stays below what it's a remainder of. *)
LEMMA ModIs == ASSUME NEW n \in Int, NEW m \in Nat \ {0} PROVE n % m \in 0 .. m - 1
OBVIOUS

LEMMA ConstantsAre ==
    /\ SentRing \in Nat \ {0} /\ Kept \in Nat \ {0} /\ LeaveQueue \in Nat \ {0}
    /\ StaleTicks \in Nat \ {0} /\ MaxVersion \in Nat \ {0} /\ EventMaxAge \in Nat
    /\ AckBits \in Nat \ {0} /\ Half \in Nat \ {0} /\ MaxEpoch \in Nat \ {0, 1}
    /\ Modulus \in Nat \ {0} /\ Modulus = 2 * Half
    /\ Slots \in Nat \ {0, 1, 2} /\ MaxCmds \in Nat \ {0, 1} /\ Stalled \in Nat
    /\ Starts \subseteq Nat
BY ReplicationAssumption, AckAssumption, InputsAssumption DEF Modulus

LEMMA BlankIs == Blank \in Recs /\ Nothing \in Objs /\ NONE \in Objs
BY ConstantsAre DEF Blank, Recs, Objs, Nothing, NONE

(* A new seat's. *)
IsSeat(s, epoch, e) ==
    /\ Fit(s)
    /\ s.stream = epoch /\ s.seq = 0 /\ s.floor = 0 /\ s.leaves = <<>> /\ ~s.known
    /\ s.acked = NONE /\ s.sends = 0 /\ s.base = [has |-> FALSE, nth |-> 0, tick |-> 0]
    /\ s.event_acked = e /\ s.joined = e /\ s.retired = {}
    /\ \A k \in 0 .. SentRing - 1 : s.sent[k] = Blank

LEMMA SeatedIs ==
    ASSUME NEW epoch \in 1 .. MaxEpoch, NEW e \in Nat
    PROVE  IsSeat(Seated(epoch, e), epoch, e)
BY ConstantsAre, BlankIs DEF Seated, IsSeat, Fit, Servers, Rings, Bases, NONE

(* A datagram's record is noted. *)
RecordOf(s, d, done) ==
    [n |-> s.seq, done |-> done, leaves |-> Len(d.leaves), obj |-> d.obj,
     ents |-> IF d.suit THEN {[nth |-> s.sends, tick |-> d.tick]} ELSE {}]

IsSent(t, s, d, done) ==
    /\ Fit(t)
    /\ t.stream = s.stream /\ t.seq = s.seq + 1 /\ t.floor = s.floor
    /\ t.leaves = s.leaves /\ t.acked = s.acked /\ t.base = s.base
    /\ t.event_acked = s.event_acked /\ t.retired = s.retired /\ t.joined = s.joined
    /\ (t.known <=> s.known \/ d.suit)
    /\ t.sends = IF d.suit THEN s.sends + 1 ELSE s.sends
    /\ t.sent = [s.sent EXCEPT ![s.seq % SentRing] = RecordOf(s, d, done)]
    /\ RecordOf(s, d, done) \in Recs /\ s.seq % SentRing \in 0 .. SentRing - 1

LEMMA SentIs ==
    ASSUME NEW s, Fit(s), NEW d \in Downs, NEW done \in Nat
    PROVE  IsSent(Sent(s, d, done), s, d, done)
<1>1. s.seq \in Nat /\ s.seq % SentRing \in 0 .. SentRing - 1 /\ s.sent \in Rings
      BY ConstantsAre DEF Fit, Servers
<1>2. RecordOf(s, d, done) \in Recs
      BY DEF RecordOf, Recs, Ents, Downs, Fit, Servers
<1> DEFINE noted == IF d.suit THEN WroteSuit(s) ELSE s
<1>3. /\ noted \in Servers
      /\ noted.stream = s.stream /\ noted.seq = s.seq /\ noted.floor = s.floor
      /\ noted.leaves = s.leaves /\ noted.acked = s.acked /\ noted.base = s.base
      /\ noted.event_acked = s.event_acked /\ noted.retired = s.retired
      /\ noted.joined = s.joined /\ (noted.known <=> s.known \/ d.suit)
      /\ noted.sends = (IF d.suit THEN s.sends + 1 ELSE s.sends) /\ noted.sent = s.sent
  <2>1. CASE d.suit
    <3>1. noted = [s EXCEPT !.sends = s.sends + 1, !.known = TRUE]
          BY <2>1 DEF WroteSuit
    <3>2. s \in Servers /\ s.sends + 1 \in Nat
          BY DEF Fit, Servers
    <3> HIDE DEF noted
    <3> QED BY <2>1, <3>1, <3>2 DEF Servers
  <2>2. CASE ~d.suit
        BY <2>2 DEF Fit, Servers
  <2> QED BY <2>1, <2>2
<1>4. Sent(s, d, done) =
          [noted EXCEPT !.seq = @ + 1, !.sent[s.seq % SentRing] = RecordOf(s, d, done)]
      BY DEF Sent, RecordOf
<1> HIDE DEF noted
<1>5. [s.sent EXCEPT ![s.seq % SentRing] = RecordOf(s, d, done)] \in Rings
      BY <1>1, <1>2 DEF Rings
<1>6. s.floor <= s.seq + 1 /\ s.seq + 1 \in Nat /\ noted.floor \in Nat
      BY <1>1, <1>3 DEF Fit, Servers
<1> DEFINE r == [s.sent EXCEPT ![s.seq % SentRing] = RecordOf(s, d, done)]
<1>7. Sent(s, d, done) = [noted EXCEPT !.seq = s.seq + 1, !.sent = r]
      BY <1>3, <1>4 DEF Servers
<1> HIDE DEF r
<1>8. LET t == Sent(s, d, done) IN
      /\ t \in Servers
      /\ t.stream = noted.stream /\ t.seq = s.seq + 1 /\ t.floor = noted.floor
      /\ t.leaves = noted.leaves /\ t.acked = noted.acked /\ t.base = noted.base
      /\ t.event_acked = noted.event_acked /\ t.retired = noted.retired
      /\ t.joined = noted.joined /\ t.known = noted.known /\ t.sends = noted.sends /\ t.sent = r
  <2>1. r \in Rings
        BY <1>5 DEF r
  <2> QED BY <1>3, <1>6, <1>7, <2>1 DEF Servers
<1>9. Fit(Sent(s, d, done))
      BY <1>3, <1>6, <1>8 DEF Fit
<1> QED BY <1>1, <1>2, <1>3, <1>8, <1>9 DEF r, IsSent

(* The suit has left the client's sensors. *)
IsNoticed(u, s, seen, t) ==
    /\ Fit(u)
    /\ u.stream = s.stream /\ u.seq = s.seq /\ u.floor = s.floor
    /\ u.sent = s.sent /\ u.acked = s.acked /\ u.base = s.base /\ u.sends = s.sends
    /\ u.event_acked = s.event_acked /\ u.retired = s.retired /\ u.joined = s.joined
    /\ (u.known <=> s.known /\ seen)
    /\ u.leaves = IF s.known /\ ~seen /\ Len(s.leaves) < LeaveQueue THEN Append(s.leaves, t)
                  ELSE s.leaves

LEMMA NoticedIs ==
    ASSUME NEW s, Fit(s), NEW seen \in BOOLEAN, NEW t \in Nat
    PROVE  IsNoticed(Noticed(s, seen, t), s, seen, t)
<1>1. CASE seen \/ ~s.known
      BY <1>1 DEF Noticed, Fit, Servers, IsNoticed
<1>2. CASE ~seen /\ s.known
  <2>1. Append(s.leaves, t) \in Seq(Nat) /\ Len(Append(s.leaves, t)) = Len(s.leaves) + 1
        BY DEF Fit, Servers
  <2>2. Len(s.leaves) \in Nat
        BY DEF Fit, Servers
  <2> DEFINE l == IF Len(s.leaves) < LeaveQueue THEN Append(s.leaves, t) ELSE s.leaves
  <2>3. l \in Seq(Nat) /\ Len(l) <= LeaveQueue
        BY <2>1, <2>2, ConstantsAre DEF Fit, Servers
  <2>4. Noticed(s, seen, t) = [s EXCEPT !.known = FALSE, !.leaves = l]
        BY <1>2 DEF Noticed
  <2> HIDE DEF l
  <2>5. LET u == Noticed(s, seen, t) IN
        /\ Fit(u) /\ u.leaves = l /\ u.known = FALSE
        /\ u.stream = s.stream /\ u.seq = s.seq /\ u.floor = s.floor
        /\ u.sent = s.sent /\ u.acked = s.acked /\ u.base = s.base /\ u.sends = s.sends
        /\ u.event_acked = s.event_acked /\ u.retired = s.retired /\ u.joined = s.joined
        BY <2>3, <2>4 DEF Fit, Servers
  <2> QED BY <1>2, <2>5 DEF l, IsNoticed
<1> QED BY <1>1, <1>2

-----------------------------------------------------------------------------
(* What holds of 0 and goes from each number to the next holds of all. *)
LEMMA UpTo ==
    ASSUME NEW n \in Nat, NEW P, 0 \in P, \A k \in 1 .. n : k - 1 \in P => k \in P
    PROVE  \A k \in 0 .. n : k \in P
<1> DEFINE bad == {k \in 0 .. n : k \notin P}
<1> SUFFICES ASSUME bad # {} PROVE FALSE
    OBVIOUS
<1>1. bad \in SUBSET Nat
      OBVIOUS
<1>2. PICK k \in bad : \A m \in bad : k <= m
      BY <1>1, LeastOf
<1>3. k \in 1 .. n /\ k - 1 \in 0 .. n /\ k - 1 \notin bad
      BY <1>2
<1> QED BY <1>3

-----------------------------------------------------------------------------
(* A datagram is retired: its record is taken for delivered. *)
Least(i, j) == IF i < j THEN i ELSE j

LEMMA ShiftedIs ==
    ASSUME NEW r \in Rings, NEW n \in Nat, NEW k \in Nat
    PROVE  /\ Shifted(r, n, k) \in Rings
           /\ \A i \in 0 .. SentRing - 1 :
                 LET o == r[i]
                     e == Shifted(r, n, k)[i]
                 IN  /\ e.n = o.n /\ e.done = o.done /\ e.obj = o.obj /\ e.ents = o.ents
                     /\ e.leaves = IF o.n > n THEN IF o.leaves > k THEN o.leaves - k ELSE 0
                                   ELSE o.leaves
<1> DEFINE e(i) == IF r[i].n > n THEN [r[i] EXCEPT !.leaves = IF @ > k THEN @ - k ELSE 0] ELSE r[i]
<1>1. Shifted(r, n, k) = [i \in 0 .. SentRing - 1 |-> e(i)]
      BY DEF Shifted, Rings
<1>2. ASSUME NEW i \in 0 .. SentRing - 1
      PROVE  /\ e(i) \in Recs
             /\ e(i).n = r[i].n /\ e(i).done = r[i].done /\ e(i).obj = r[i].obj
             /\ e(i).ents = r[i].ents
             /\ e(i).leaves = IF r[i].n > n THEN IF r[i].leaves > k THEN r[i].leaves - k ELSE 0
                              ELSE r[i].leaves
  <2>1. r[i] \in Recs
        BY DEF Rings
  <2> DEFINE l == IF r[i].leaves > k THEN r[i].leaves - k ELSE 0
  <2>2. l \in Nat
        BY <2>1 DEF Recs
  <2>3. r[i].n > n => e(i) = [r[i] EXCEPT !.leaves = l]
        BY <2>1
  <2>4. ~(r[i].n > n) => e(i) = r[i]
        OBVIOUS
  <2> HIDE DEF l, e
  <2>5. CASE r[i].n > n
        BY <2>1, <2>2, <2>3, <2>5 DEF Recs, l
  <2>6. CASE ~(r[i].n > n)
        BY <2>1, <2>4, <2>6
  <2> QED BY <2>5, <2>6
<1> HIDE DEF e
<1> QED BY <1>1, <1>2 DEF Rings

IsRetired(t, s, n) ==
    LET r == s.sent[n % SentRing]
        k == Least(r.leaves, Len(s.leaves))
    IN  /\ Fit(t) /\ r \in Recs /\ n % SentRing \in 0 .. SentRing - 1
        /\ ~Retires(s, n) => t = s
        /\ Retires(s, n) =>
              /\ t.stream = s.stream /\ t.seq = s.seq /\ t.floor = n + 1
              /\ t.retired = s.retired \cup {n} /\ t.joined = s.joined
              /\ (t.known <=> s.known) /\ t.sends = s.sends
              /\ t.event_acked = IF r.done > s.event_acked THEN r.done ELSE s.event_acked
              /\ t.acked = IF r.obj = Nothing THEN s.acked ELSE r.obj
              /\ \/ t.base = s.base /\ \A e \in r.ents : s.base.has /\ e.nth <= s.base.nth
                 \/ \E e \in r.ents :
                       /\ ~s.base.has \/ e.nth > s.base.nth
                       /\ t.base = [has |-> TRUE, nth |-> e.nth, tick |-> e.tick]
              /\ t.leaves = SubSeq(s.leaves, k + 1, Len(s.leaves))
              /\ t.sent = Shifted(s.sent, n, k)

LEMMA RetireIs ==
    ASSUME NEW s, Fit(s), NEW n \in Nat, n < s.seq
    PROVE  IsRetired(retire(s, n), s, n)
<1> DEFINE t == retire(s, n)
           r == s.sent[n % SentRing]
           k == Least(r.leaves, Len(s.leaves))
<1>1. /\ s \in Servers /\ s.sent \in Rings /\ n % SentRing \in 0 .. SentRing - 1
      /\ r \in Recs /\ r.leaves \in Nat /\ s.leaves \in Seq(Nat) /\ Len(s.leaves) \in Nat
      /\ r.ents \in SUBSET Ents /\ s.base \in Bases
  <2>1. n % SentRing \in 0 .. SentRing - 1
        BY ConstantsAre, ModIs
  <2>2. s \in Servers /\ s.sent \in Rings /\ s.leaves \in Seq(Nat) /\ s.base \in Bases
        BY DEF Fit, Servers
  <2>3. r \in Recs
        BY <2>1, <2>2 DEF Rings
  <2>4. r.leaves \in Nat /\ r.ents \in SUBSET Ents /\ Len(s.leaves) \in Nat
        BY <2>2, <2>3 DEF Recs
  <2> QED BY <2>1, <2>2, <2>3, <2>4
<1>2. k \in 0 .. Len(s.leaves) /\ k \in Nat
      BY <1>1 DEF Least
<1> SUFFICES ASSUME Retires(s, n)
             PROVE  /\ Fit(t)
                    /\ t.stream = s.stream /\ t.seq = s.seq /\ t.floor = n + 1
                    /\ t.retired = s.retired \cup {n} /\ t.joined = s.joined
                    /\ (t.known <=> s.known) /\ t.sends = s.sends
                    /\ t.event_acked = IF r.done > s.event_acked THEN r.done ELSE s.event_acked
                    /\ t.acked = IF r.obj = Nothing THEN s.acked ELSE r.obj
                    /\ \/ t.base = s.base
                             /\ \A e \in r.ents : s.base.has /\ e.nth <= s.base.nth
                       \/ \E e \in r.ents :
                             /\ ~s.base.has \/ e.nth > s.base.nth
                             /\ t.base = [has |-> TRUE, nth |-> e.nth, tick |-> e.tick]
                    /\ t.leaves = SubSeq(s.leaves, k + 1, Len(s.leaves))
                    /\ t.sent = Shifted(s.sent, n, k)
    BY <1>1 DEF retire, IsRetired
<1> DEFINE newer == {e \in r.ents : ~s.base.has \/ e.nth > s.base.nth}
           b == IF newer = {} THEN s.base
                ELSE LET e == CHOOSE e \in newer : TRUE
                     IN  [has |-> TRUE, nth |-> e.nth, tick |-> e.tick]
           ea == IF r.done > s.event_acked THEN r.done ELSE s.event_acked
           ac == IF r.obj = Nothing THEN s.acked ELSE r.obj
           lv == SubSeq(s.leaves, k + 1, Len(s.leaves))
           sn == Shifted(s.sent, n, k)
<1> HIDE DEF r, k, t
<1>3. \/ b = s.base /\ \A e \in r.ents : s.base.has /\ e.nth <= s.base.nth
      \/ \E e \in r.ents : /\ ~s.base.has \/ e.nth > s.base.nth
                           /\ b = [has |-> TRUE, nth |-> e.nth, tick |-> e.tick]
  <2>1. CASE newer = {}
    <3>1. b = s.base
          BY <2>1
    <3>2. ASSUME NEW e \in r.ents PROVE s.base.has /\ e.nth <= s.base.nth
      <4>1. s.base.has /\ ~(e.nth > s.base.nth)
            BY <2>1
      <4>2. e.nth \in Nat /\ s.base.nth \in Nat
            BY <1>1 DEF Ents, Bases
      <4> QED BY <4>1, <4>2
    <3> QED BY <3>1, <3>2
  <2>2. CASE newer # {}
    <3>1. (CHOOSE e \in newer : TRUE) \in newer
          BY <2>2
    <3> QED BY <2>2, <3>1
  <2> QED BY <2>1, <2>2
<1>4. b \in Bases
      BY <1>1, <1>3 DEF Bases, Ents
<1>5. ea \in Nat /\ ac \in NONE .. MaxVersion
      BY <1>1, SMTT(30) DEF Recs, Servers, Objs, Nothing, NONE
<1>6. lv \in Seq(Nat) /\ Len(lv) <= Len(s.leaves)
  <2> DEFINE l == s.leaves
  <2>1. l \in Seq(Nat) /\ Len(l) \in Nat /\ k \in 0 .. Len(l)
        BY <1>1, <1>2
  <2> HIDE DEF l, k
  <2>2. SubSeq(l, k + 1, Len(l)) \in Seq(Nat) /\ Len(SubSeq(l, k + 1, Len(l))) = Len(l) - k
        BY <2>1
  <2>3. Len(l) - k <= Len(l)
        BY <2>1
  <2> QED BY <2>2, <2>3 DEF l
<1>7. sn \in Rings
      BY <1>1, <1>2, ShiftedIs
<1>8. t = [s EXCEPT !.floor = n + 1, !.retired = s.retired \cup {n}, !.event_acked = ea, !.acked = ac,
                    !.base = b, !.leaves = lv, !.sent = sn]
      BY <1>1 DEF retire, Least, Servers, t, k, r
<1> HIDE DEF ea, ac, lv, sn, b
<1> HIDE DEF newer
<1>9. /\ s \in Servers /\ n + 1 \in Nat /\ s.retired \cup {n} \in SUBSET Nat
      BY <1>1 DEF Servers
<1>11. t \in Servers
      BY <1>4, <1>5, <1>6, <1>7, <1>8, <1>9 DEF Servers
<1>12. /\ t.stream = s.stream /\ t.seq = s.seq /\ t.floor = n + 1
      /\ t.retired = s.retired \cup {n} /\ t.joined = s.joined
      /\ (t.known <=> s.known) /\ t.sends = s.sends /\ t.event_acked = ea /\ t.acked = ac
      /\ t.base = b /\ t.leaves = lv /\ t.sent = sn
      BY <1>8, <1>9 DEF Servers
<1>10. Fit(t)
  <2>1. n + 1 <= s.seq
        BY <1>1 DEF Servers
  <2>2. Len(lv) <= LeaveQueue
        BY <1>1, <1>6, ConstantsAre DEF Fit
  <2> QED BY <1>11, <1>12, <2>1, <2>2 DEF Fit
<1> QED BY <1>3, <1>12, <1>10 DEF ea, ac, lv, sn

(* A number near another one, read off the wire. *)
LEMMA ExpandNat ==
    ASSUME NEW seq \in Nat, NEW near \in Nat
    PROVE  expand(seq, near) \in Nat
<1> DEFINE c == near - (near % Modulus) + seq
<1>1. c \in Nat
      BY ConstantsAre
<1> HIDE DEF c
<1>2. expand(seq, near) = IF c >= near + Half /\ c >= Modulus THEN c - Modulus
                          ELSE IF c + Half < near THEN c + Modulus ELSE c
      BY DEF expand, c
<1> QED BY <1>1, <1>2, ConstantsAre

(* An ack retires the datagrams it names one by one, the oldest first. *)
Steps(f, a, newest) ==
    /\ f[0] = srv
    /\ \A k \in 1 .. AckBits :
          \/ f[k] = f[k - 1]
          \/ /\ AckBits - k \in a.bits /\ newest - 1 - (AckBits - k) \in Nat
             /\ f[k] = retire(f[k - 1], newest - 1 - (AckBits - k))
    /\ \A k \in 1 .. AckBits :
          AckBits - k \in a.bits /\ newest - 1 - (AckBits - k) >= 0 =>
             f[k] = retire(f[k - 1], newest - 1 - (AckBits - k))

LEMMA OnAckIs ==
    ASSUME Fit(srv), NEW a \in Ups, NEW newest, newest = expand(a.seq, srv.seq - 1)
    PROVE  /\ a.stream # srv.stream \/ srv.seq = 0 \/ newest >= srv.seq => on_ack(a) = srv
           /\ a.stream = srv.stream /\ srv.seq # 0 /\ ~(newest >= srv.seq) =>
                 /\ newest \in Nat
                 /\ \E f : Steps(f, a, newest) /\ on_ack(a) = retire(f[AckBits], newest)
<1>1. a.stream # srv.stream \/ srv.seq = 0 \/ newest >= srv.seq => on_ack(a) = srv
      BY DEF on_ack
<1> SUFFICES ASSUME a.stream = srv.stream, srv.seq # 0, ~(newest >= srv.seq)
             PROVE  /\ newest \in Nat
                    /\ \E f : Steps(f, a, newest) /\ on_ack(a) = retire(f[AckBits], newest)
    BY <1>1
<1>2. newest \in Nat
  <2>1. srv.seq - 1 \in Nat /\ a.seq \in Nat
        BY DEF Fit, Servers, Ups
  <2> QED BY <2>1, ExpandNat
<1> DEFINE n(k) == newest - 1 - (AckBits - k)
           next(k, s) == IF AckBits - k \in a.bits /\ n(k) >= 0 THEN retire(s, n(k)) ELSE s
           loop(f, m) == f = [k \in 0 .. m |-> IF k = 0 THEN srv ELSE next(k, f[k - 1])]
           P == {m \in Nat : \E f : loop(f, m)}
<1>3. \A m \in 0 .. AckBits : m \in P
  <2>1. 0 \in P
    <3> DEFINE f == [k \in 0 .. 0 |-> srv]
    <3>1. loop(f, 0)
          OBVIOUS
    <3> QED BY <3>1
  <2>2. ASSUME NEW m \in 1 .. AckBits, m - 1 \in P
        PROVE  m \in P
    <3>1. PICK g : loop(g, m - 1)
          BY <2>2
    <3> DEFINE f == [k \in 0 .. m |-> IF k = m THEN next(m, g[m - 1]) ELSE g[k]]
    <3> HIDE DEF next
    <3>2. \A k \in 0 .. m - 1 : g[k] = IF k = 0 THEN srv ELSE next(k, g[k - 1])
          BY <3>1
    <3>3. \A k \in 0 .. m - 1 : f[k] = g[k]
          BY ConstantsAre
    <3>4. \A k \in 0 .. m : k = 0 \/ k - 1 \in 0 .. m - 1
          BY ConstantsAre
    <3>5. \A k \in 0 .. m : f[k] = IF k = 0 THEN srv ELSE next(k, f[k - 1])
      <4> TAKE k \in 0 .. m
      <4>1. CASE k = m
            BY <3>3, <3>4, <4>1, ConstantsAre
      <4>2. CASE k # m
        <5>1. k \in 0 .. m - 1
              BY <4>2, ConstantsAre
        <5> QED BY <3>2, <3>3, <3>4, <5>1
      <4> QED BY <4>1, <4>2
    <3>6. f = [k \in 0 .. m |-> f[k]]
          OBVIOUS
    <3> HIDE DEF f
    <3>7. loop(f, m)
          BY <3>5, <3>6
    <3> QED BY <3>7
  <2> HIDE DEF P
  <2> QED BY <2>1, <2>2, UpTo, ConstantsAre
<1> DEFINE older == CHOOSE f : loop(f, AckBits)
<1>4. loop(older, AckBits)
  <2>1. \E f : loop(f, AckBits)
        BY <1>3, ConstantsAre
  <2> QED BY <2>1
<1>5. on_ack(a) = retire(older[AckBits], newest)
      BY DEF on_ack
<1> HIDE DEF older, next
<1>6. \A k \in 0 .. AckBits : older[k] = IF k = 0 THEN srv ELSE next(k, older[k - 1])
      BY <1>4
<1>7. older[0] = srv
      BY <1>6, ConstantsAre
<1>8. \A k \in 1 .. AckBits : older[k] = next(k, older[k - 1])
  <2> TAKE k \in 1 .. AckBits
  <2>1. k \in 0 .. AckBits /\ k # 0
        BY ConstantsAre
  <2> QED BY <1>6, <2>1
<1>9. ASSUME NEW k \in 1 .. AckBits, n(k) >= 0 PROVE n(k) \in Nat
      BY <1>2, <1>9, ConstantsAre
<1>10. Steps(older, a, newest)
       BY <1>7, <1>8, <1>9 DEF Steps, next
<1> QED BY <1>2, <1>5, <1>10

-----------------------------------------------------------------------------
(* What every retirement of what an ack names keeps, the ack keeps. *)
Names(a, newest) == {newest} \cup {n \in Nat : \E i \in a.bits : n = newest - 1 - i}

LEMMA OnAckStays ==
    ASSUME Fit(srv), NEW a \in Ups, NEW newest, newest = expand(a.seq, srv.seq - 1),
           NEW G, srv \in G,
           a.stream = srv.stream,
           \A s \in G : \A n \in Names(a, newest) :
              n \in Nat /\ n < srv.seq => retire(s, n) \in G
    PROVE  on_ack(a) \in G
<1> SUFFICES ASSUME srv.seq # 0, ~(newest >= srv.seq) PROVE on_ack(a) \in G
    BY OnAckIs
<1>1. PICK f : Steps(f, a, newest) /\ on_ack(a) = retire(f[AckBits], newest)
      BY OnAckIs
<1>2. newest \in Nat /\ srv.seq \in Nat
      BY OnAckIs DEF Fit, Servers
<1> DEFINE P == {k \in Nat : f[k] \in G}
<1>3. 0 \in P
      BY <1>1 DEF Steps
<1>4. ASSUME NEW k \in 1 .. AckBits, k - 1 \in P
      PROVE  k \in P
  <2>1. CASE f[k] = f[k - 1]
        BY <1>4, <2>1
  <2>2. CASE f[k] # f[k - 1]
    <3> DEFINE n == newest - 1 - (AckBits - k)
    <3>1. n \in Nat /\ AckBits - k \in a.bits /\ f[k] = retire(f[k - 1], n)
          BY <1>1, <2>2 DEF Steps
    <3>2. n < srv.seq
          BY <1>2, ConstantsAre
    <3>3. n \in Names(a, newest)
          BY <3>1 DEF Names
    <3> HIDE DEF n
    <3> QED BY <1>4, <3>1, <3>2, <3>3
  <2> QED BY <2>1, <2>2
<1> HIDE DEF P
<1>5. AckBits \in P
      BY <1>3, <1>4, UpTo, ConstantsAre
<1>6. f[AckBits] \in G
      BY <1>5 DEF P
<1>7. newest \in Names(a, newest) /\ newest < srv.seq
      BY <1>2 DEF Names
<1>8. newest \in Nat /\ newest < srv.seq
      BY <1>2, <1>7
<1>9. retire(f[AckBits], newest) \in G
      BY <1>6, <1>7, <1>8
<1> QED BY <1>1, <1>9

LEMMA OnAckFits ==
    ASSUME Fit(srv), NEW a \in Ups
    PROVE  Fit(on_ack(a)) /\ on_ack(a).stream = srv.stream /\ on_ack(a).seq = srv.seq
<1> DEFINE newest == expand(a.seq, srv.seq - 1)
           G == {s \in Servers : Fit(s) /\ s.stream = srv.stream /\ s.seq = srv.seq}
<1>1. CASE a.stream # srv.stream
      BY <1>1, OnAckIs
<1>2. CASE a.stream = srv.stream
  <2>1. srv \in G
        BY DEF Fit
  <2>2. ASSUME NEW s \in G, NEW n \in Names(a, newest), n \in Nat, n < srv.seq
        PROVE  retire(s, n) \in G
    <3>1. Fit(retire(s, n)) /\ retire(s, n).stream = s.stream /\ retire(s, n).seq = s.seq
          BY <2>2, RetireIs DEF Fit, IsRetired
    <3> QED BY <3>1 DEF Fit
  <2> HIDE DEF G, newest
  <2>3. on_ack(a) \in G
        BY <1>2, <2>1, <2>2, OnAckStays DEF newest
  <2> QED BY <2>3 DEF G
<1> QED BY <1>1, <1>2

-----------------------------------------------------------------------------
(* The buffer of commands, each in its tick's slot. *)
Buffers == {b \in [0 .. Slots - 1 -> Nat] : \A k \in 0 .. Slots - 1 : b[k] # NoCmd => b[k] % Slots = k}

LEMMA SlotIs == ASSUME NEW t \in Nat PROVE t % Slots \in 0 .. Slots - 1
BY ConstantsAre, ModIs

LEMMA InsertIs ==
    ASSUME NEW b \in Buffers, NEW t \in Nat, NEW next \in Nat
    PROVE  /\ insert(b, t, next) \in Buffers
           /\ \A k \in 0 .. Slots - 1 :
                 insert(b, t, next)[k] = IF next <= t /\ t < next + Slots - 2 /\ k = t % Slots
                                         THEN t ELSE b[k]
<1>1. t % Slots \in 0 .. Slots - 1
      BY SlotIs
<1>2. CASE t < next \/ t >= next + Slots - 2
      BY <1>2, ConstantsAre DEF insert
<1>3. CASE ~(t < next \/ t >= next + Slots - 2)
  <2>1. insert(b, t, next) = [b EXCEPT ![t % Slots] = t]
        BY <1>3 DEF insert
  <2> DEFINE slot == t % Slots
  <2>2. slot \in 0 .. Slots - 1 /\ slot = t % Slots
        BY <1>1
  <2> HIDE DEF slot
  <2>3. insert(b, t, next) = [b EXCEPT ![slot] = t]
        BY <2>1, <2>2
  <2>4. \A k \in 0 .. Slots - 1 : insert(b, t, next)[k] = IF k = slot THEN t ELSE b[k]
        BY <2>2, <2>3 DEF Buffers
  <2>5. insert(b, t, next) \in [0 .. Slots - 1 -> Nat]
        BY <2>2, <2>3 DEF Buffers
  <2>6. insert(b, t, next) \in Buffers
        BY <2>2, <2>4, <2>5 DEF Buffers
  <2>7. next <= t /\ t < next + Slots - 2
        BY <1>3, ConstantsAre
  <2> QED BY <2>2, <2>4, <2>6, <2>7
<1> QED BY <1>2, <1>3

LEMMA TakeIs ==
    ASSUME NEW b \in Buffers, NEW t \in Nat
    PROVE  /\ take(b, t) \in Buffers
           /\ \A k \in 0 .. Slots - 1 : take(b, t)[k] = IF b[k] = t THEN NoCmd ELSE b[k]
<1> DEFINE slot == t % Slots
<1>1. slot \in 0 .. Slots - 1 /\ slot = t % Slots
      BY SlotIs
<1> HIDE DEF slot
<1>2. CASE b[slot] = t
  <2>1. take(b, t) = [b EXCEPT ![slot] = NoCmd]
        BY <1>1, <1>2 DEF take, held
  <2>2. \A k \in 0 .. Slots - 1 : take(b, t)[k] = IF k = slot THEN NoCmd ELSE b[k]
        BY <1>1, <2>1 DEF Buffers
  <2>3. take(b, t) \in [0 .. Slots - 1 -> Nat]
        BY <1>1, <2>1 DEF Buffers, NoCmd
  <2>4. take(b, t) \in Buffers
        BY <2>2, <2>3 DEF Buffers
  <2>5. \A k \in 0 .. Slots - 1 : b[k] = t => k = slot \/ t = NoCmd
        BY <1>1 DEF Buffers
  <2> QED BY <1>2, <2>2, <2>4, <2>5
<1>3. CASE b[slot] # t
  <2>1. take(b, t) = b
        BY <1>1, <1>3 DEF take, held
  <2>2. \A k \in 0 .. Slots - 1 : b[k] = t => t = NoCmd
        BY <1>1, <1>3 DEF Buffers
  <2> QED BY <2>1, <2>2
<1> QED BY <1>2, <1>3

(* A packet's commands are put in one by one, the newest first. *)
Fills(f, buf, cmds, newest) ==
    /\ f[0] = buf
    /\ \A k \in 1 .. MaxCmds :
          f[k] = IF newest - k + 1 \in cmds THEN insert(f[k - 1], newest - k + 1, tick + 1)
                 ELSE f[k - 1]

LEMMA InsertedIs ==
    ASSUME NEW buf, NEW cmds, NEW newest, newest = Max({0} \cup cmds)
    PROVE  \E f : Fills(f, buf, cmds, newest) /\ Inserted(buf, cmds) = f[MaxCmds]
<1> DEFINE next(k, b) == IF newest - k + 1 \in cmds THEN insert(b, newest - k + 1, tick + 1) ELSE b
           loop(f, m) == f = [k \in 0 .. m |-> IF k = 0 THEN buf ELSE next(k, f[k - 1])]
           P == {m \in Nat : \E f : loop(f, m)}
<1>3. \A m \in 0 .. MaxCmds : m \in P
  <2>1. 0 \in P
    <3> DEFINE f == [k \in 0 .. 0 |-> buf]
    <3>1. loop(f, 0)
          OBVIOUS
    <3> QED BY <3>1
  <2>2. ASSUME NEW m \in 1 .. MaxCmds, m - 1 \in P
        PROVE  m \in P
    <3>1. PICK g : loop(g, m - 1)
          BY <2>2
    <3> DEFINE f == [k \in 0 .. m |-> IF k = m THEN next(m, g[m - 1]) ELSE g[k]]
    <3> HIDE DEF next
    <3>2. \A k \in 0 .. m - 1 : g[k] = IF k = 0 THEN buf ELSE next(k, g[k - 1])
          BY <3>1
    <3>3. \A k \in 0 .. m - 1 : f[k] = g[k]
          BY ConstantsAre
    <3>4. \A k \in 0 .. m : k = 0 \/ k - 1 \in 0 .. m - 1
          BY ConstantsAre
    <3>5. \A k \in 0 .. m : f[k] = IF k = 0 THEN buf ELSE next(k, f[k - 1])
      <4> TAKE k \in 0 .. m
      <4>1. CASE k = m
            BY <3>3, <3>4, <4>1, ConstantsAre
      <4>2. CASE k # m
        <5>1. k \in 0 .. m - 1
              BY <4>2, ConstantsAre
        <5> QED BY <3>2, <3>3, <3>4, <5>1
      <4> QED BY <4>1, <4>2
    <3>6. f = [k \in 0 .. m |-> f[k]]
          OBVIOUS
    <3> HIDE DEF f
    <3>7. loop(f, m)
          BY <3>5, <3>6
    <3> QED BY <3>7
  <2> HIDE DEF P
  <2> QED BY <2>1, <2>2, UpTo, ConstantsAre
<1> DEFINE after == CHOOSE f : loop(f, MaxCmds)
<1>4. loop(after, MaxCmds)
  <2>1. MaxCmds \in P
    <3> HIDE DEF P
    <3> QED BY <1>3, ConstantsAre
  <2> HIDE DEF loop
  <2> QED BY <2>1
<1>5. Inserted(buf, cmds) = after[MaxCmds]
      BY DEF Inserted
<1> HIDE DEF after, next
<1>6. \A k \in 0 .. MaxCmds : after[k] = IF k = 0 THEN buf ELSE next(k, after[k - 1])
      BY <1>4
<1>7. after[0] = buf
      BY <1>6, ConstantsAre
<1>8. \A k \in 1 .. MaxCmds : after[k] = next(k, after[k - 1])
  <2> TAKE k \in 1 .. MaxCmds
  <2>1. k \in 0 .. MaxCmds /\ k # 0
        BY ConstantsAre
  <2> QED BY <1>6, <2>1
<1>10. Fills(after, buf, cmds, newest)
       BY <1>7, <1>8 DEF Fills, next
<1> QED BY <1>5, <1>10

(* What every command's insertion keeps, the packet's keeps. *)
LEMMA InsertedStays ==
    ASSUME NEW buf, NEW cmds \in SUBSET Nat, NEW G, buf \in G,
           \A b \in G : \A t \in cmds : insert(b, t, tick + 1) \in G
    PROVE  Inserted(buf, cmds) \in G
<1> DEFINE newest == Max({0} \cup cmds)
<1> HIDE DEF newest
<1>1. PICK f : Fills(f, buf, cmds, newest) /\ Inserted(buf, cmds) = f[MaxCmds]
      BY InsertedIs DEF newest
<1> DEFINE P == {k \in Nat : f[k] \in G}
<1>2. 0 \in P
      BY <1>1 DEF Fills
<1>3. ASSUME NEW k \in 1 .. MaxCmds, k - 1 \in P PROVE k \in P
  <2>1. f[k - 1] \in G
        BY <1>3
  <2>2. CASE newest - k + 1 \in cmds
    <3>1. f[k] = insert(f[k - 1], newest - k + 1, tick + 1)
          BY <1>1, <2>2 DEF Fills
    <3> DEFINE t == newest - k + 1
               b == f[k - 1]
    <3>2. b \in G /\ t \in cmds
          BY <2>1, <2>2
    <3>3. f[k] = insert(b, t, tick + 1)
          BY <3>1
    <3> HIDE DEF t, b
    <3>4. f[k] \in G
          BY <3>2, <3>3
    <3> QED BY <3>4
  <2>3. CASE newest - k + 1 \notin cmds
        BY <1>1, <2>1, <2>3 DEF Fills
  <2> QED BY <2>2, <2>3
<1> HIDE DEF P
<1>4. MaxCmds \in P
      BY <1>2, <1>3, UpTo, ConstantsAre
<1> QED BY <1>1, <1>4 DEF P

(* A bounded set of numbers has its largest. *)
LEMMA MaxIs ==
    ASSUME NEW S \in SUBSET Nat, S # {}, NEW b \in Nat, \A n \in S : n <= b
    PROVE  Max(S) \in S /\ \A n \in S : n <= Max(S)
<1> DEFINE T == {n \in Nat : \A m \in S : m <= n}
<1>1. T # {} /\ T \in SUBSET Nat
      OBVIOUS
<1>2. PICK n \in T : \A m \in T : n <= m
      BY <1>1, LeastOf
<1>3. n \in S
  <2> SUFFICES ASSUME n \notin S PROVE FALSE
      OBVIOUS
  <2>1. \A m \in S : m <= n /\ m # n /\ m \in Nat
        BY <1>2
  <2>2. n \in Nat /\ n # 0
    <3>1. PICK m \in S : TRUE
          OBVIOUS
    <3>2. m \in Nat /\ m <= n /\ m # n
          BY <2>1
    <3>3. n \in Nat
          OBVIOUS
    <3> HIDE DEF T
    <3> QED BY <3>2, <3>3
  <2>3. n - 1 \in T
        BY <2>1, <2>2
  <2> QED BY <1>2, <2>2, <2>3
<1>4. \A m \in S : n >= m
      BY <1>2
<1>5. \E x \in S : \A y \in S : x >= y
      BY <1>3, <1>4
<1>6. Max(S) \in S /\ \A y \in S : Max(S) >= y
      BY <1>5 DEF Max
<1>7. ASSUME NEW y \in S PROVE y <= Max(S)
      BY <1>6
<1> QED BY <1>6, <1>7

LEMMA MinIs ==
    ASSUME NEW S \in SUBSET Nat, S # {}
    PROVE  Min(S) \in S /\ \A n \in S : Min(S) <= n
<1>1. \E x \in S : \A y \in S : x <= y
      BY LeastOf
<1> QED BY <1>1 DEF Min

-----------------------------------------------------------------------------
(* What goes on the wire of what the sector keeps. *)
LEMMA WireIs ==
    ASSUME NEW s, Fit(s), NEW t \in Nat
    PROVE  /\ s.seq \in Nat /\ s.seq % Modulus \in Nat /\ s.stream \in Nat /\ s.sends \in Nat
           /\ baseline(s, t) \in Nat
<1>1. s.seq \in Nat /\ s.stream \in Nat /\ s.sends \in Nat
      BY DEF Fit, Servers
<1>2. s.seq % Modulus \in Nat
      BY <1>1, ConstantsAre, ModIs
<1>3. baseline(s, t) \in Nat
      BY DEF baseline, Fit, Servers, Bases
<1> QED BY <1>1, <1>2, <1>3

LEMMA PendingIs ==
    ASSUME NEW s, Fit(s), NEW evs \in Seq(Nat), NEW t
    PROVE  /\ Pending(s, evs, t) \in SUBSET Nat
           /\ \A unfit \in SUBSET Pending(s, evs, t) :
                 /\ DoneWith(unfit, evs) \in Nat /\ DoneWith(unfit, evs) <= Len(evs)
                 /\ \A e \in unfit : DoneWith(unfit, evs) < e
<1>1. s.event_acked \in Nat /\ Len(evs) \in Nat
      BY DEF Fit, Servers
<1>2. ASSUME NEW e \in Pending(s, evs, t) PROVE e \in Nat /\ 1 <= e /\ e <= Len(evs)
      BY <1>1 DEF Pending
<1>3. ASSUME NEW unfit \in SUBSET Pending(s, evs, t)
      PROVE  /\ DoneWith(unfit, evs) \in Nat /\ DoneWith(unfit, evs) <= Len(evs)
             /\ \A e \in unfit : DoneWith(unfit, evs) < e
  <2>1. CASE unfit = {}
        BY <1>1, <2>1 DEF DoneWith
  <2>2. CASE unfit # {}
    <3>1. unfit \in SUBSET Nat
          BY <1>2
    <3>2. Min(unfit) \in unfit /\ \A n \in unfit : Min(unfit) <= n
          BY <2>2, <3>1, MinIs
    <3>3. DoneWith(unfit, evs) = Min(unfit) - 1
          BY <2>2 DEF DoneWith
    <3> DEFINE m == Min(unfit)
    <3>4. m \in Nat /\ 1 <= m /\ m <= Len(evs)
          BY <1>2, <3>2
    <3> HIDE DEF m
    <3>5. DoneWith(unfit, evs) = m - 1
          BY <3>3 DEF m
    <3>6. \A n \in unfit : n \in Nat /\ m <= n
          BY <1>2, <3>2 DEF m
    <3> QED BY <1>1, <3>4, <3>5, <3>6
  <2> QED BY <2>1, <2>2
<1> QED BY <1>2, <1>3

(* The first datagram of a tick, and a further one. *)
Snapshot(d, s, t, evs, k, unfit, suit, obj) ==
    /\ d \in Downs
    /\ d.stream = s.stream /\ d.seq = s.seq % Modulus /\ d.n = s.seq /\ d.tick = t
    /\ ~d.more /\ d.leaves = SubSeq(s.leaves, 1, k) /\ Len(d.leaves) = k
    /\ d.events = Pending(s, evs, t) \ unfit /\ (d.suit <=> suit)
    /\ d.nth = s.sends /\ d.base = (IF suit THEN baseline(s, t) ELSE 0) /\ d.obj = obj
Further(m, s, t) ==
    /\ m \in Downs
    /\ m.stream = s.stream /\ m.seq = s.seq % Modulus /\ m.n = s.seq /\ m.tick = t
    /\ m.more /\ m.leaves = <<>> /\ m.events = {} /\ m.suit
    /\ m.nth = s.sends /\ m.base = baseline(s, t) /\ m.obj = Nothing

LEMMA BuiltIs ==
    ASSUME NEW s, Fit(s), NEW t \in Nat, NEW evs \in Seq(Nat), NEW k \in 0 .. Len(s.leaves),
           NEW unfit \in SUBSET Pending(s, evs, t), NEW suit \in BOOLEAN, NEW obj \in Objs,
           NEW d, d = build_snapshot(s, t, evs, k, unfit, suit, obj)
    PROVE  Snapshot(d, s, t, evs, k, unfit, suit, obj)
<1>1. s.leaves \in Seq(Nat) /\ Len(s.leaves) \in Nat
      BY DEF Fit, Servers
<1>2. SubSeq(s.leaves, 1, k) \in Seq(Nat) /\ Len(SubSeq(s.leaves, 1, k)) = k
      BY <1>1
<1>3. Pending(s, evs, t) \ unfit \in SUBSET Nat
      BY PendingIs
<1> DEFINE l == SubSeq(s.leaves, 1, k)
           es == Pending(s, evs, t) \ unfit
<1> DEFINE sq == s.seq % Modulus
           b == baseline(s, t)
<1>4. sq \in Nat /\ b \in Nat /\ s.seq \in Nat /\ s.stream \in Nat /\ s.sends \in Nat
      BY WireIs
<1>6. l \in Seq(Nat) /\ Len(l) = k /\ es \in SUBSET Nat
      BY <1>2, <1>3
<1> HIDE DEF l, es, sq, b
<1>5. d = [stream |-> s.stream, seq |-> sq, n |-> s.seq, tick |-> t, more |-> FALSE, leaves |-> l,
           events |-> es, suit |-> suit, nth |-> s.sends, base |-> IF suit THEN b ELSE 0,
           obj |-> obj]
      BY DEF build_snapshot, Datagram, l, es, sq, b
<1>7. /\ d \in Downs
      /\ d.stream = s.stream /\ d.seq = sq /\ d.n = s.seq /\ d.tick = t
      /\ ~d.more /\ d.leaves = l /\ d.events = es /\ (d.suit <=> suit)
      /\ d.nth = s.sends /\ d.base = (IF suit THEN b ELSE 0) /\ d.obj = obj
      BY <1>4, <1>5, <1>6 DEF Downs
<1> QED BY <1>6, <1>7 DEF l, es, sq, b, Snapshot

LEMMA FurtherIs ==
    ASSUME NEW s, Fit(s), NEW t \in Nat, NEW m, m = build_more(s, t)
    PROVE  Further(m, s, t)
<1> DEFINE sq == s.seq % Modulus
           b == baseline(s, t)
<1>1. sq \in Nat /\ b \in Nat /\ s.seq \in Nat /\ s.stream \in Nat /\ s.sends \in Nat
      BY WireIs
<1> HIDE DEF sq, b
<1>2. m = [stream |-> s.stream, seq |-> sq, n |-> s.seq, tick |-> t, more |-> TRUE, leaves |-> <<>>,
           events |-> {}, suit |-> TRUE, nth |-> s.sends, base |-> b, obj |-> Nothing]
      BY DEF build_more, Datagram, sq, b
<1>3. /\ m \in Downs
      /\ m.stream = s.stream /\ m.seq = sq /\ m.n = s.seq /\ m.tick = t
      /\ m.more /\ m.leaves = <<>> /\ m.events = {} /\ m.suit
      /\ m.nth = s.sends /\ m.base = b /\ m.obj = Nothing
      BY <1>1, <1>2, BlankIs DEF Downs
<1> QED BY <1>3 DEF Further, sq, b

LEMMA CandidateIs ==
    ASSUME Fit(srv), NEW p, NEW v \in 1 .. MaxVersion
    PROVE  object_candidates(p, v) \in Objs
BY ConstantsAre DEF object_candidates, Objs, Nothing, NONE, Fit, Servers

(* A tick: what is sent, and what of it is in flight. *)
LEMMA TickIs ==
    ASSUME TypeInv, Tick
    PROVE  \E s \in Servers, evs \in Seq(Nat), suit \in BOOLEAN, more \in BOOLEAN, obj \in Objs,
              done \in Nat, d \in Downs, m \in Downs, s1 \in Servers :
              /\ s = Noticed(srv, sight', tick + 1) /\ Fit(s) /\ evs = events'
              /\ sight' \in BOOLEAN /\ version' \in 1 .. MaxVersion
              /\ \E k \in 0 .. Len(s.leaves), unfit \in SUBSET Pending(s, evs, tick + 1) :
                    /\ done = DoneWith(unfit, evs)
                    /\ Snapshot(d, s, tick + 1, evs, k, unfit, suit, obj)
              /\ s1 = Sent(s, d, done) /\ Fit(s1)
              /\ Further(m, s1, tick + 1)
              /\ suit \/ more => sight'
              /\ ~(suit /\ more)
              /\ obj \in {object_candidates(place', version'), Nothing}
              /\ srv' = IF more THEN Sent(s1, m, 0) ELSE s1
              /\ down \in SUBSET down'
              /\ down' \in SUBSET (down \cup {d} \cup (IF more THEN {m} ELSE {}))
<1> DEFINE t == tick + 1
           s == Noticed(srv, sight', t)
           evs == events'
<1>1. /\ t \in Nat /\ sight' \in BOOLEAN /\ evs \in Seq(Nat) /\ version' \in 1 .. MaxVersion
  <2>1. tick \in Nat /\ sight \in BOOLEAN /\ events \in Seq(Nat) /\ version \in 1 .. MaxVersion
        BY DEF TypeInv, WorldTypes
  <2>2. Step(t)
        BY DEF Tick
  <2>3. t \in Nat
        BY <2>1
  <2> HIDE DEF t
  <2>4. Append(events, t) \in Seq(Nat)
        BY <2>1, <2>3
  <2>5. sight' \in BOOLEAN
        BY <2>1, <2>2 DEF Step
  <2>6. events' \in Seq(Nat)
        BY <2>1, <2>2, <2>4 DEF Step
  <2>7. version' \in 1 .. MaxVersion
        BY <2>1, <2>2, ConstantsAre DEF Step
  <2> QED BY <2>3, <2>5, <2>6, <2>7
<1>2. Fit(srv)
      BY DEF TypeInv
<1>3. Fit(s)
  <2> HIDE DEF t
  <2> QED BY <1>1, <1>2, NoticedIs DEF IsNoticed
<1> DEFINE candidate == object_candidates(place', version')
<1>4. candidate \in Objs /\ Nothing \in Objs
      BY <1>1, <1>2, CandidateIs, BlankIs
<1>5. PICK k \in 0 .. Len(s.leaves), unfit \in SUBSET Pending(s, evs, t),
           turn \in IF sight' THEN {"first", "more", "no"} ELSE {"no"}, obj \in {candidate, Nothing} :
         LET d == build_snapshot(s, t, evs, k, unfit, turn = "first", obj)
             s1 == Sent(s, d, DoneWith(unfit, evs))
             m == build_more(s1, t)
             out == IF turn = "more" THEN {d, m} ELSE {d}
         IN  /\ turn = "more" => t <= LastParts
             /\ /\ srv' = IF turn = "more" THEN Sent(s1, m, 0) ELSE s1
                /\ \E arriving \in SUBSET out : down' = down \cup arriving
      BY Zenon DEF Tick
<1> DEFINE suit == turn = "first"
           more == turn = "more"
           done == DoneWith(unfit, evs)
           d == build_snapshot(s, t, evs, k, unfit, suit, obj)
           s1 == Sent(s, d, done)
           m == build_more(s1, t)
<1>6. suit \in BOOLEAN /\ more \in BOOLEAN /\ obj \in Objs /\ ~(suit /\ more) /\ (suit \/ more => sight')
  <2>1. suit \in BOOLEAN /\ more \in BOOLEAN /\ ~(suit /\ more)
        OBVIOUS
  <2>2. obj \in Objs
        BY <1>4, <1>5
  <2>3. suit \/ more => sight'
        BY <1>5
  <2> QED BY <2>1, <2>2, <2>3
<1>11. srv' = IF more THEN Sent(s1, m, 0) ELSE s1
       BY <1>5
<1>12. down \in SUBSET down' /\ down' \in SUBSET (down \cup {d} \cup (IF more THEN {m} ELSE {}))
  <2> DEFINE out == IF more THEN {d, m} ELSE {d}
  <2>1. \E arriving \in SUBSET out : down' = down \cup arriving
        BY <1>5
  <2> HIDE DEF d, m, more
  <2> QED BY <2>1
<1>13. obj \in {candidate, Nothing}
       BY <1>5
<1> HIDE DEF suit, more, t, s, evs
<1>7. done \in Nat
      BY <1>1, <1>3, PendingIs
<1>8. d \in Downs /\ Snapshot(d, s, t, evs, k, unfit, suit, obj)
  <2>1. Snapshot(d, s, t, evs, k, unfit, suit, obj)
        BY <1>1, <1>3, <1>6, BuiltIs
  <2> QED BY <2>1 DEF Snapshot
<1> HIDE DEF d, done
<1>9. Fit(s1) /\ s1 \in Servers /\ s \in Servers
      BY <1>3, <1>7, <1>8, SentIs DEF Fit, IsSent
<1> HIDE DEF s1
<1>10. m \in Downs /\ Further(m, s1, t)
  <2>1. Further(m, s1, t)
        BY <1>1, <1>9, FurtherIs
  <2> QED BY <2>1 DEF Further
<1>14. /\ s1 = Sent(s, d, done) /\ done = DoneWith(unfit, evs)
       /\ s = Noticed(srv, sight', t) /\ evs = events'
       BY DEF done, s1, s, evs
<1> HIDE DEF m, candidate
<1> USE <1>1, <1>3, <1>6, <1>7, <1>8, <1>9, <1>10
<1> WITNESS s \in Servers, evs \in Seq(Nat), suit \in BOOLEAN, more \in BOOLEAN, obj \in Objs,
            done \in Nat, d \in Downs, m \in Downs, s1 \in Servers
<1>15. \E k1 \in 0 .. Len(s.leaves), u \in SUBSET Pending(s, evs, t) :
          done = DoneWith(u, evs) /\ Snapshot(d, s, t, evs, k1, u, suit, obj)
       BY <1>8, <1>14
<1> QED BY <1>10, <1>11, <1>12, <1>13, <1>14, <1>15 DEF t, candidate

-----------------------------------------------------------------------------
LEMMA InitTypes == Init => TypeInv
<1> SUFFICES ASSUME Init PROVE TypeInv
    OBVIOUS
<1>1. PICK s \in Starts :
          /\ srv = [Seated(1, 0) EXCEPT !.seq = s, !.floor = s]
          /\ win = IF s = 0 THEN NoWindow
                   ELSE [stream |-> 1, newest |-> s - 1, mask |-> {0}, tick |-> 1, any |-> TRUE]
      BY DEF Init
<1>2. s \in Nat
      BY ConstantsAre
<1>3. Fit(srv)
  <2> DEFINE u == Seated(1, 0)
  <2>1. Fit(u) /\ u.stream = 1 /\ u.leaves = <<>>
        BY ConstantsAre, SeatedIs DEF IsSeat
  <2> HIDE DEF u
  <2>2. srv = [u EXCEPT !.seq = s, !.floor = s]
        BY <1>1 DEF u
  <2>3. u \in Servers /\ 1 \in 1 .. MaxEpoch
        BY <2>1, ConstantsAre DEF Fit
  <2>4. srv \in Servers /\ srv.stream = 1 /\ srv.floor = s /\ srv.seq = s /\ srv.leaves = <<>>
        BY <1>2, <2>1, <2>2, <2>3 DEF Servers
  <2> QED BY <1>2, <2>3, <2>4, ConstantsAre DEF Fit
<1>4. win \in Windows
      BY <1>1, <1>2, ConstantsAre DEF Windows, NoWindow, NoStream
<1>5. WorldTypes
  <2>1. <<>> \in Seq(Nat) /\ 1 \in 1 .. MaxVersion
        BY ConstantsAre
  <2> QED BY <2>1 DEF Init, WorldTypes
<1>6. ClientTypes
      BY <1>4, ConstantsAre DEF Init, ClientTypes, NONE
<1>7. CommandTypes
      BY ConstantsAre DEF Init, CommandTypes, Empty, NoCmd, JitterFits
<1>8. HistoryTypes /\ WireTypes
      BY DEF Init, HistoryTypes, WireTypes
<1> QED BY <1>3, <1>5, <1>6, <1>7, <1>8 DEF TypeInv

LEMMA JitterIs == TypeInv => jitter \in Buffers
BY DEF TypeInv, CommandTypes, JitterFits, Buffers

LEMMA TickTypes == ASSUME TypeInv, Tick PROVE TypeInv'
<1>1. PICK s \in Servers, evs \in Seq(Nat), suit \in BOOLEAN, more \in BOOLEAN, obj \in Objs,
           done \in Nat, d \in Downs, m \in Downs, s1 \in Servers :
              /\ s = Noticed(srv, sight', tick + 1) /\ Fit(s) /\ evs = events'
              /\ sight' \in BOOLEAN /\ version' \in 1 .. MaxVersion
              /\ s1 = Sent(s, d, done) /\ Fit(s1)
              /\ srv' = IF more THEN Sent(s1, m, 0) ELSE s1
              /\ down' \in SUBSET (down \cup {d} \cup (IF more THEN {m} ELSE {}))
      BY TickIs
<1>2. Fit(srv')
  <2>1. Fit(Sent(s1, m, 0))
        BY <1>1, SentIs DEF IsSent
  <2> QED BY <1>1, <2>1
<1>3. WireTypes'
      BY <1>1 DEF Tick, TypeInv, WireTypes
<1>4. WorldTypes'
  <2>1. tick \in Nat /\ subject \in Subjects /\ place \in {"near", "edge", "far"}
        BY DEF TypeInv, WorldTypes
  <2>2. Step(tick + 1) /\ tick' = tick + 1
        BY DEF Tick
  <2>3. subject' \in Subjects /\ place' \in {"near", "edge", "far"}
        BY <2>1, <2>2 DEF Step
  <2>4. seated' \in {"flying", "docked", "home"} /\ seats' \in Nat
        BY DEF Tick, TypeInv, WorldTypes
  <2> QED BY <1>1, <2>1, <2>2, <2>3, <2>4 DEF WorldTypes
<1>5. ClientTypes'
      BY DEF Tick, client, TypeInv, ClientTypes
<1>6. CommandTypes'
  <2>1. jitter \in Buffers /\ tick + 1 \in Nat
        BY JitterIs DEF TypeInv, WorldTypes
  <2>2. jitter' = take(jitter, tick + 1)
        BY DEF Tick, apply_inputs
  <2>3. jitter' \in Buffers
        BY <2>1, <2>2, TakeIs
  <2>4. missed' \in SUBSET Nat
        BY <2>1 DEF Tick, apply_inputs, TypeInv, CommandTypes
  <2>5. UNCHANGED <<made, next_cmd, once, twice, came>>
        BY DEF Tick, apply_inputs
  <2> QED BY <2>3, <2>4, <2>5 DEF TypeInv, CommandTypes, JitterFits, Buffers
<1>7. HistoryTypes'
      BY DEF Tick, TypeInv, HistoryTypes
<1> QED BY <1>2, <1>3, <1>4, <1>5, <1>6, <1>7 DEF TypeInv

(* A datagram the client takes. *)
Takes(d, verdict) ==
    /\ verdict = check(win, d) /\ verdict # Stale /\ Decodes(d, verdict)
    /\ win' = commit(win, d, verdict)
    /\ kept' = LET before == IF verdict.is = "new" THEN <<>> ELSE kept
               IN  IF d.suit THEN Put(before, d.tick) ELSE before
    /\ track' = apply(d)
    /\ chunk' = IF d.obj = Nothing THEN chunk ELSE d.obj
    /\ taken' = taken \cup {<<d.stream, d.n>>}
    /\ heard' = heard \cup d.events

LEMMA DeliverIs ==
    ASSUME NEW d, Deliver(d)
    PROVE  /\ d \in down /\ InTime(d) /\ down' = down \ {d}
           /\ UNCHANGED <<world, tick, seated, seats, srv, up, commands, named, spilled>>
           /\ \/ UNCHANGED <<client, taken, heard>>
              \/ Takes(d, check(win, d))
BY DEF Deliver, Takes

(* What a check lets through is a number, past the newest or the first of a stream. *)
LEMMA CheckIs ==
    ASSUME NEW w \in Windows, NEW d \in Downs, NEW verdict, verdict = check(w, d), verdict # Stale
    PROVE  /\ verdict.n \in Nat
           /\ \/ /\ verdict.is = "next" /\ d.stream = w.stream /\ w.mask # {}
                 /\ verdict.n = expand(d.seq, w.newest) /\ verdict.n > w.newest
              \/ /\ verdict.is = "new" /\ ~(d.stream = w.stream /\ w.mask # {})
                 /\ verdict.n = d.seq /\ (~w.any \/ d.tick > w.tick)
<1>1. w.newest \in Nat /\ d.seq \in Nat
      BY DEF Windows, Downs
<1>2. expand(d.seq, w.newest) \in Nat
      BY <1>1, ExpandNat
<1> QED BY <1>1, <1>2 DEF check, Stale

LEMMA CommitIs ==
    ASSUME NEW w \in Windows, NEW d \in Downs, NEW verdict, verdict.n \in Nat,
           NEW c, c = commit(w, d, verdict)
    PROVE  /\ c \in Windows
           /\ c.stream = d.stream /\ c.newest = verdict.n /\ c.any
           /\ c.tick = IF d.tick > w.tick THEN d.tick ELSE w.tick
           /\ c.mask = {0} \cup (IF verdict.is = "new" THEN {}
                                 ELSE {o + (verdict.n - w.newest) : o \in w.mask} \cap (1 .. 2 * AckBits - 1))
<1> DEFINE gap == verdict.n - w.newest
           older == IF verdict.is = "new" THEN {}
                    ELSE {o + gap : o \in w.mask} \cap (1 .. 2 * AckBits - 1)
           mask == {0} \cup older
           tk == IF d.tick > w.tick THEN d.tick ELSE w.tick
<1>1. mask \in SUBSET (0 .. 2 * AckBits - 1)
      BY ConstantsAre
<1>2. tk \in Nat /\ d.stream \in Nat
      BY DEF Windows, Downs
<1>3. c = [stream |-> d.stream, newest |-> verdict.n, mask |-> mask, tick |-> tk, any |-> TRUE]
      BY DEF commit
<1> HIDE DEF mask, tk
<1>4. /\ c \in Windows
      /\ c.stream = d.stream /\ c.newest = verdict.n /\ c.any /\ c.tick = tk /\ c.mask = mask
      BY <1>1, <1>2, <1>3 DEF Windows
<1> QED BY <1>4 DEF mask, tk

LEMMA PutIs ==
    ASSUME NEW k \in Seq(Nat), Len(k) <= Kept, NEW t \in Nat
    PROVE  /\ Put(k, t) \in Seq(Nat) /\ Len(Put(k, t)) <= Kept
           /\ Len(k) < Kept => Put(k, t) = Append(k, t)
           /\ ~(Len(k) < Kept) => Put(k, t) = Append(Tail(k), t) /\ Len(k) = Kept
<1>1. CASE Len(k) < Kept
      BY <1>1, ConstantsAre DEF Put
<1>2. CASE ~(Len(k) < Kept)
  <2>1. k # <<>> /\ Len(k) = Kept
        BY <1>2, ConstantsAre
  <2>2. Tail(k) \in Seq(Nat) /\ Len(Tail(k)) = Len(k) - 1
        BY <2>1
  <2> DEFINE l == Tail(k)
  <2> HIDE DEF l
  <2>3. l \in Seq(Nat) /\ Len(l) = Kept - 1 /\ Put(k, t) = Append(l, t)
        BY <1>2, <2>1, <2>2 DEF Put, l
  <2>4. Append(l, t) \in Seq(Nat) /\ Len(Append(l, t)) = Len(l) + 1
        BY <2>3
  <2> QED BY <1>2, <2>1, <2>3, <2>4, ConstantsAre DEF l
<1> QED BY <1>1, <1>2

LEMMA DeliverTypes == ASSUME TypeInv, NEW d \in down, Deliver(d) PROVE TypeInv'
<1>1. /\ down' = down \ {d}
      /\ UNCHANGED <<world, tick, seated, seats, srv, up, commands, named, spilled>>
      /\ \/ UNCHANGED <<client, taken, heard>>
         \/ Takes(d, check(win, d))
      BY DeliverIs
<1>2. WorldTypes' /\ CommandTypes' /\ WireTypes' /\ Fit(srv')
  <2>1. WorldTypes'
        BY <1>1 DEF TypeInv, WorldTypes, world
  <2>2. CommandTypes'
        BY <1>1 DEF TypeInv, CommandTypes, commands, JitterFits
  <2>3. WireTypes' /\ Fit(srv')
        BY <1>1 DEF TypeInv, WireTypes
  <2> QED BY <2>1, <2>2, <2>3
<1>3. CASE UNCHANGED <<client, taken, heard>>
  <2>1. ClientTypes' /\ HistoryTypes'
        BY <1>1, <1>3 DEF TypeInv, ClientTypes, HistoryTypes, client
  <2> QED BY <1>2, <2>1 DEF TypeInv
<1>4. CASE Takes(d, check(win, d))
  <2> DEFINE verdict == check(win, d)
  <2>1. d \in Downs /\ win \in Windows /\ kept \in Seq(Nat) /\ Len(kept) <= Kept
        BY DEF TypeInv, WireTypes, ClientTypes
  <2>2. verdict.n \in Nat
        BY <1>4, <2>1, CheckIs DEF Takes
  <2> HIDE DEF verdict
  <2>3. win' \in Windows
        BY <1>4, <2>1, <2>2, CommitIs DEF Takes, verdict
  <2>4. kept' \in Seq(Nat) /\ Len(kept') <= Kept
    <3> DEFINE before == IF verdict.is = "new" THEN <<>> ELSE kept
    <3>1. before \in Seq(Nat) /\ Len(before) <= Kept
          BY <2>1, ConstantsAre
    <3>2. kept' = IF d.suit THEN Put(before, d.tick) ELSE before
          BY <1>4 DEF Takes, verdict
    <3>3. d.tick \in Nat
          BY <2>1 DEF Downs
    <3> HIDE DEF before
    <3> QED BY <3>1, <3>2, <3>3, PutIs
  <2>5. track' \in Nat
        BY <1>4, <2>1 DEF Takes, apply, Downs, TypeInv, ClientTypes
  <2>6. chunk' \in NONE .. MaxVersion
        BY <1>4, <2>1, ConstantsAre DEF Takes, Downs, Objs, TypeInv, ClientTypes, Nothing, NONE
  <2>7. HistoryTypes'
    <3>1. <<d.stream, d.n>> \in Nat \X Nat /\ d.events \in SUBSET Nat
          BY <2>1 DEF Downs
    <3>2. taken' = taken \cup {<<d.stream, d.n>>} /\ heard' = heard \cup d.events
          BY <1>4 DEF Takes
    <3>3. taken' \in SUBSET (Nat \X Nat) /\ heard' \in SUBSET Nat
          BY <3>1, <3>2 DEF TypeInv, HistoryTypes
    <3> QED BY <1>1, <3>3 DEF TypeInv, HistoryTypes
  <2> QED BY <1>2, <2>3, <2>4, <2>5, <2>6, <2>7 DEF TypeInv, ClientTypes
<1> QED BY <1>1, <1>3, <1>4

LEMMA PacketIs ==
    ASSUME win \in Windows, NEW cmds \in SUBSET Nat, NEW a, a = Packet(cmds)
    PROVE  /\ a \in Ups
           /\ a.stream = win.stream /\ a.seq = win.newest % Modulus /\ a.n = win.newest
           /\ a.bits = {i \in 0 .. AckBits - 1 : i + 1 \in win.mask} /\ a.cmds = cmds
<1> DEFINE bits == {i \in 0 .. AckBits - 1 : i + 1 \in win.mask}
           sq == win.newest % Modulus
<1>1. win.newest \in Nat /\ win.stream \in Nat
      BY DEF Windows
<1>2. sq \in Nat /\ bits \in SUBSET (0 .. AckBits - 1)
      BY <1>1, ConstantsAre, ModIs
<1>3. a = [stream |-> win.stream, seq |-> sq, bits |-> bits, n |-> win.newest, cmds |-> cmds]
      BY DEF Packet, ack
<1> HIDE DEF bits, sq
<1>4. a \in Ups /\ a.stream = win.stream /\ a.seq = sq /\ a.n = win.newest /\ a.bits = bits /\ a.cmds = cmds
      BY <1>1, <1>2, <1>3 DEF Ups
<1> QED BY <1>4 DEF bits, sq

LEMMA PollTypes == ASSUME TypeInv, poll_inputs PROVE TypeInv'
<1>1. Packet({}) \in Ups
  <2>1. win \in Windows
        BY DEF TypeInv, ClientTypes
  <2> QED BY <2>1, PacketIs
<1>2. WireTypes'
      BY <1>1 DEF poll_inputs, TypeInv, WireTypes
<1> QED BY <1>2 DEF poll_inputs, TypeInv, WorldTypes, ClientTypes, CommandTypes, HistoryTypes,
                    world, client, commands, history, JitterFits

-----------------------------------------------------------------------------
(* The commands made next are later than all made before. *)
LEMMA ResumeIs ==
    ASSUME TypeInv, NEW target \in Nat, NEW first, first = resume(next_cmd, Max({0} \cup made), target)
    PROVE  /\ first \in Nat /\ \A t \in made : t < first
           /\ \/ first = next_cmd /\ next_cmd # 0 /\ target <= next_cmd + Stalled
              \/ /\ first \in Nat \ {0}
                 /\ next_cmd = 0 \/ target > next_cmd + Stalled
                 /\ target - 3 <= first
<1>1. /\ made \in SUBSET Nat /\ next_cmd \in Nat /\ \A t \in made : t < next_cmd
      BY DEF TypeInv, CommandTypes
<1> DEFINE newest == Max({0} \cup made)
<1>2. newest \in Nat /\ \A t \in made : t <= newest
  <2> DEFINE S == {0} \cup made
  <2>1. S \in SUBSET Nat /\ S # {} /\ \A n \in S : n <= next_cmd
        BY <1>1
  <2> HIDE DEF S
  <2>2. Max(S) \in S /\ \A n \in S : n <= Max(S)
        BY <1>1, <2>1, MaxIs
  <2>3. Max(S) \in Nat
        BY <2>1, <2>2
  <2> QED BY <2>2, <2>3 DEF S
<1>3. first = resume(next_cmd, newest, target)
      OBVIOUS
<1> HIDE DEF newest
<1> DEFINE back == IF target > 3 THEN target - 3 ELSE 0
<1>4. back \in Nat /\ target - 3 <= back
      OBVIOUS
<1>5. first = IF next_cmd = 0 \/ target > next_cmd + Stalled
              THEN IF back > newest + 1 THEN back ELSE newest + 1
              ELSE next_cmd
      BY <1>3 DEF resume
<1> HIDE DEF back
<1>6. CASE next_cmd = 0 \/ target > next_cmd + Stalled
  <2>1. first = IF back > newest + 1 THEN back ELSE newest + 1
        BY <1>5, <1>6
  <2>2. first \in Nat \ {0} /\ newest < first /\ back <= first
        BY <1>2, <1>4, <2>1
  <2>3. \A t \in made : t < first
        BY <1>1, <1>2, <2>2
  <2>4. target - 3 <= first
        BY <1>4, <2>2
  <2> QED BY <1>6, <2>2, <2>3, <2>4
<1>7. CASE ~(next_cmd = 0 \/ target > next_cmd + Stalled)
  <2>1. first = next_cmd
        BY <1>5, <1>7
  <2>2. next_cmd # 0 /\ target <= next_cmd + Stalled /\ next_cmd \in Nat
        BY <1>1, <1>7, ConstantsAre
  <2>3. \A t \in made : t < first
        BY <1>1, <2>1
  <2> QED BY <2>1, <2>2, <2>3
<1> QED BY <1>6, <1>7

(* Commands are made, and go in packets. *)
IsMade(first, now, out, target) ==
    /\ first = resume(next_cmd, Max({0} \cup made), target) /\ first \in Nat /\ first <= target
    /\ now = made \cup first .. target
    /\ out = {packet(now, newest) : newest \in windows(first, target)}
    /\ subject = "commands" /\ win.mask # {}
    /\ made' = now /\ next_cmd' = target + 1
    /\ once' = once \cup UNION out
    /\ twice' = twice \cup (once \cap UNION out)
                    \cup UNION {x[1] \cap x[2] : x \in {y \in out \X out : y[1] # y[2]}}
    /\ \E arriving \in SUBSET out : up' = up \cup {Packet(cmds) : cmds \in arriving}
    /\ UNCHANGED <<world, tick, seated, seats, srv, down, client, jitter, came, missed, history>>

LEMMA PollCommandsIs ==
    ASSUME TypeInv, NEW target \in Nat, poll_commands(target)
    PROVE  \E first \in Nat, now \in SUBSET Nat, out \in SUBSET (SUBSET Nat) : IsMade(first, now, out, target)
<1> DEFINE first == resume(next_cmd, Max({0} \cup made), target)
           now == made \cup first .. target
           out == {packet(now, newest) : newest \in windows(first, target)}
<1>1. first \in Nat
      BY ResumeIs
<1>2. /\ target >= first /\ subject = "commands" /\ win.mask # {}
      /\ made' = now /\ next_cmd' = target + 1
      /\ once' = once \cup UNION out
      /\ twice' = twice \cup (once \cap UNION out)
                    \cup UNION {x[1] \cap x[2] : x \in {y \in out \X out : y[1] # y[2]}}
      /\ \E arriving \in SUBSET out : up' = up \cup {Packet(cmds) : cmds \in arriving}
      /\ UNCHANGED <<world, tick, seated, seats, srv, down, client, jitter, came, missed, history>>
      BY Zenon DEF poll_commands
<1>3. now \in SUBSET Nat
  <2> HIDE DEF first
  <2> QED BY <1>1 DEF TypeInv, CommandTypes
<1>4. out \in SUBSET (SUBSET Nat)
  <2> HIDE DEF now, first
  <2> QED BY <1>3 DEF packet
<1>5. first <= target
  <2> HIDE DEF first
  <2> QED BY <1>1, <1>2
<1>6. IsMade(first, now, out, target)
      BY <1>1, <1>2, <1>5, Zenon DEF IsMade
<1> HIDE DEF first, now, out
<1> QED BY <1>1, <1>3, <1>4, <1>6

LEMMA PollCommandsTypes == ASSUME TypeInv, NEW target \in Nat, poll_commands(target) PROVE TypeInv'
<1>1. PICK first \in Nat, now \in SUBSET Nat, out \in SUBSET (SUBSET Nat) : IsMade(first, now, out, target)
      BY PollCommandsIs
<1>2. \A t \in made : t < first
  <2>1. first = resume(next_cmd, Max({0} \cup made), target)
        BY <1>1 DEF IsMade
  <2> QED BY <2>1, ResumeIs
<1>3. UNION out \in SUBSET Nat
      OBVIOUS
<1>4. WireTypes'
  <2>1. PICK arriving \in SUBSET out : up' = up \cup {Packet(cmds) : cmds \in arriving}
        BY <1>1 DEF IsMade
  <2>2. win \in Windows
        BY DEF TypeInv, ClientTypes
  <2>3. \A cmds \in arriving : Packet(cmds) \in Ups
        BY <2>2, PacketIs
  <2>4. down' = down
        BY <1>1 DEF IsMade
  <2> QED BY <2>1, <2>3, <2>4 DEF TypeInv, WireTypes
<1>5. CommandTypes'
  <2>1. \A t \in now : t < target + 1
    <3>1. first <= target /\ now = made \cup first .. target
          BY <1>1 DEF IsMade
    <3>2. \A t \in made : t \in Nat
          BY DEF TypeInv, CommandTypes
    <3> QED BY <1>2, <3>1, <3>2
  <2>2. once' \in SUBSET Nat /\ made' = now /\ next_cmd' = target + 1
        BY <1>1, <1>3 DEF IsMade, TypeInv, CommandTypes
  <2>3. twice' \in SUBSET Nat
    <3> DEFINE both == UNION {x[1] \cap x[2] : x \in {y \in out \X out : y[1] # y[2]}}
    <3>1. both \in SUBSET Nat
      <4>1. \A x \in out \X out : x[1] \in SUBSET Nat
            OBVIOUS
      <4> QED BY <4>1
    <3>2. twice' = twice \cup (once \cap UNION out) \cup both
          BY <1>1 DEF IsMade
    <3> HIDE DEF both
    <3> QED BY <3>1, <3>2 DEF TypeInv, CommandTypes
  <2>4. UNCHANGED <<jitter, came, missed>>
        BY <1>1 DEF IsMade
  <2> QED BY <2>1, <2>2, <2>3, <2>4 DEF TypeInv, CommandTypes, JitterFits
<1>6. UNCHANGED <<world, tick, seated, seats, srv, client, history>>
      BY <1>1 DEF IsMade
<1> QED BY <1>4, <1>5, <1>6 DEF TypeInv, WorldTypes, ClientTypes, HistoryTypes, world, client, history

LEMMA DrainTypes == ASSUME TypeInv, NEW a \in up, drain_inputs(a) PROVE TypeInv'
<1>1. a \in Ups /\ jitter \in Buffers /\ Fit(srv) /\ tick \in Nat
      BY JitterIs DEF TypeInv, WireTypes, WorldTypes
<1>2. WorldTypes' /\ ClientTypes'
      BY DEF drain_inputs, TypeInv, WorldTypes, ClientTypes, world, client
<1>3. WireTypes'
      BY DEF drain_inputs, TypeInv, WireTypes
<1>4. CommandTypes'
  <2>1. jitter' \in Buffers
    <3>1. Inserted(jitter, a.cmds) \in Buffers
      <4>1. a.cmds \in SUBSET Nat /\ tick + 1 \in Nat
            BY <1>1 DEF Ups
      <4>2. \A b \in Buffers : \A t \in a.cmds : insert(b, t, tick + 1) \in Buffers
            BY <4>1, InsertIs
      <4> QED BY <1>1, <4>1, <4>2, InsertedStays
    <3> QED BY <1>1, <3>1 DEF drain_inputs
  <2>2. came' \in SUBSET Nat
        BY <1>1 DEF drain_inputs, Ups, TypeInv, CommandTypes
  <2>3. UNCHANGED <<made, next_cmd, once, twice, missed>>
        BY DEF drain_inputs
  <2> QED BY <2>1, <2>2, <2>3 DEF TypeInv, CommandTypes, JitterFits, Buffers
<1>5. Fit(srv')
  <2>1. Fit(on_ack(a))
        BY <1>1, OnAckFits
  <2> QED BY <1>1, <2>1 DEF drain_inputs
<1>6. HistoryTypes'
  <2>1. Timely(a) \in SUBSET (Nat \X Nat)
    <3>1. a.stream \in Nat /\ a.n \in Nat /\ a.bits \in SUBSET Int /\ srv.floor \in Nat
          BY <1>1 DEF Ups, Fit, Servers
    <3>2. \A m \in {a.n} \cup {a.n - 1 - i : i \in a.bits} : m \in Int
          BY <3>1
    <3>3. \A m \in {a.n} \cup {a.n - 1 - i : i \in a.bits} : m >= srv.floor => m \in Nat
          BY <3>1, <3>2
    <3> QED BY <3>1, <3>3 DEF Timely
  <2> QED BY <2>1 DEF drain_inputs, TypeInv, HistoryTypes
<1> QED BY <1>2, <1>3, <1>4, <1>5, <1>6 DEF TypeInv

LEMMA LeaveTypes == ASSUME TypeInv, Dock \/ left_the_sector \/ Seat PROVE TypeInv'
<1>1. CASE Dock
      BY <1>1 DEF Dock, TypeInv, WorldTypes, ClientTypes, CommandTypes, HistoryTypes, WireTypes,
                  world, client, commands, history, JitterFits
<1>2. CASE left_the_sector
  <2>1. ClientTypes'
        BY <1>2, ConstantsAre DEF left_the_sector, ClientTypes, Windows, NoWindow, NoStream, NONE
  <2>2. WorldTypes' /\ HistoryTypes' /\ WireTypes' /\ Fit(srv')
        BY <1>2 DEF left_the_sector, TypeInv, WorldTypes, HistoryTypes, WireTypes, world
  <2>3. CommandTypes'
        BY <1>2 DEF left_the_sector, TypeInv, CommandTypes, JitterFits
  <2> QED BY <2>1, <2>2, <2>3 DEF TypeInv
<1>3. CASE Seat
  <2>1. Fit(srv')
    <3>1. next_epoch(srv.stream) \in 1 .. MaxEpoch
          BY ConstantsAre DEF next_epoch, TypeInv, Fit
    <3>2. Len(events) \in Nat
          BY DEF TypeInv, WorldTypes
    <3> DEFINE e == next_epoch(srv.stream)
               l == Len(events)
    <3> HIDE DEF e, l
    <3>3. Fit(Seated(e, l))
          BY <3>1, <3>2, SeatedIs DEF e, l, IsSeat
    <3> QED BY <1>3, <3>3 DEF Seat, e, l
  <2>2. CommandTypes'
    <3>1. Empty \in [0 .. Slots - 1 -> Nat] /\ \A k \in DOMAIN Empty : Empty[k] = NoCmd
          BY DEF Empty, NoCmd
    <3> QED BY <1>3, <3>1 DEF Seat, TypeInv, CommandTypes, JitterFits
  <2>3. WorldTypes' /\ ClientTypes' /\ HistoryTypes' /\ WireTypes'
        BY <1>3 DEF Seat, TypeInv, WorldTypes, ClientTypes, HistoryTypes, WireTypes, world, client, history
  <2> QED BY <2>1, <2>2, <2>3 DEF TypeInv
<1> QED BY <1>1, <1>2, <1>3

LEMMA StutterTypes == ASSUME TypeInv, UNCHANGED vars PROVE TypeInv'
BY DEF vars, world, client, commands, history, TypeInv, WorldTypes, ClientTypes, CommandTypes,
       HistoryTypes, WireTypes, JitterFits

LEMMA TargetIs == ASSUME TypeInv, NEW target \in 1 .. tick + MaxLead PROVE target \in Nat
BY DEF TypeInv, WorldTypes

LEMMA NextTypes == TypeInv /\ [Next]_vars => TypeInv'
<1> SUFFICES ASSUME TypeInv, [Next]_vars PROVE TypeInv'
    OBVIOUS
<1>1. CASE Tick
      BY <1>1, TickTypes
<1>2. CASE poll_inputs
      BY <1>2, PollTypes
<1>3. CASE Dock \/ left_the_sector \/ Seat
      BY <1>3, LeaveTypes
<1>4. CASE \E d \in down : Deliver(d)
      BY <1>4, DeliverTypes
<1>5. CASE \E target \in 1 .. tick + MaxLead : poll_commands(target)
      BY <1>5, TargetIs, PollCommandsTypes
<1>6. CASE \E a \in up : drain_inputs(a)
      BY <1>6, DrainTypes
<1>7. CASE UNCHANGED vars
      BY <1>7, StutterTypes
<1> QED BY <1>1, <1>2, <1>3, <1>4, <1>5, <1>6, <1>7 DEF Next

(* The state's shape: the server's ring of records and queue of leave notices, the client's
   window, its kept records and the buffer of commands stay within their sizes, whatever is
   lost, late or acked twice (ClientState, AckWindow, Baselines, InputBuffer). *)
THEOREM ReplicationTypes == Spec => []TypeOK
<1>1. TypeInv /\ [Next]_vars => TypeInv'
      BY NextTypes
<1> QED BY <1>1, InitTypes, TypeInvImplies, PTL DEF Spec

-----------------------------------------------------------------------------
(* Quotient and remainder. *)
LEMMA DivIs ==
    ASSUME NEW n \in Nat, NEW m \in Nat \ {0}
    PROVE  n \div m \in Nat /\ n % m \in 0 .. m - 1 /\ n = m * (n \div m) + (n % m)
BY SMTT(30)

LEMMA SameRemainder ==
    ASSUME NEW n \in Nat, NEW k \in Nat, NEW m \in Nat \ {0}, n % m = k % m,
           n < k + m, k < n + m
    PROVE  n = k
<1> DEFINE q == n \div m
           p == k \div m
           r == n % m
<1>1. /\ q \in Nat /\ p \in Nat /\ r \in 0 .. m - 1
      /\ n = m * q + r /\ k = m * p + r
  <2>1. q \in Nat /\ r \in 0 .. m - 1 /\ n = m * q + r
        BY DivIs
  <2>2. p \in Nat /\ k = m * p + (k % m)
        BY DivIs
  <2> QED BY <2>1, <2>2
<1> HIDE DEF q, p, r
<1>2. m * q \in Nat /\ m * p \in Nat
      BY <1>1
<1>3. ASSUME q > p PROVE FALSE
  <2>1. m * q >= m * p + m
        BY <1>1, <1>3
  <2> QED BY <1>1, <1>2, <2>1
<1>4. ASSUME p > q PROVE FALSE
  <2>1. m * p >= m * q + m
        BY <1>1, <1>4
  <2> QED BY <1>1, <1>2, <2>1
<1>5. q = p
      BY <1>1, <1>3, <1>4
<1> QED BY <1>1, <1>5

-----------------------------------------------------------------------------
(* Commands that came in time are run. *)

(* A command that came and is to run is in the buffer, in reach of the tick to run next; a
   packet's commands are within a packet of each other. *)
Waits(b, t) == t < tick + Slots - 1 /\ b[t % Slots] = t
Near(cmds) == \A t, u \in cmds : t < u + MaxCmds
CameInv ==
    /\ missed = {}
    /\ \A t \in came : tick < t => Waits(jitter, t)
    /\ \A a \in up : Near(a.cmds)

LEMMA CameImplies == CameInv => CommandsRun
BY DEF CameInv, CommandsRun

(* What a packet inserts stays, and so does what was there. *)
LEMMA InsertKeeps ==
    ASSUME NEW b \in Buffers, tick \in Nat, NEW t \in Nat, NEW u \in Nat,
           tick < u, Waits(b, u)
    PROVE  Waits(insert(b, t, tick + 1), u)
<1> DEFINE c == insert(b, t, tick + 1)
<1>1. u % Slots \in 0 .. Slots - 1
      BY SlotIs
<1>2. c[u % Slots] = IF tick + 1 <= t /\ t < tick + 1 + Slots - 2 /\ u % Slots = t % Slots THEN t
                     ELSE b[u % Slots]
  <2>1. tick + 1 \in Nat
        OBVIOUS
  <2>2. \A k \in 0 .. Slots - 1 :
           c[k] = IF tick + 1 <= t /\ t < tick + 1 + Slots - 2 /\ k = t % Slots THEN t ELSE b[k]
        BY <2>1, InsertIs
  <2> HIDE DEF c
  <2> QED BY <1>1, <2>2
<1> HIDE DEF c
<1>3. tick + 1 <= t /\ t < tick + 1 + Slots - 2 /\ u % Slots = t % Slots => t = u
  <2> SUFFICES ASSUME tick + 1 <= t, t < tick + 1 + Slots - 2, u % Slots = t % Slots PROVE t = u
      OBVIOUS
  <2>1. u < tick + Slots - 1
        BY DEF Waits
  <2>2. t < u + Slots /\ u < t + Slots /\ Slots \in Nat \ {0}
        BY <2>1, ConstantsAre
  <2> QED BY <2>2, SameRemainder
<1> QED BY <1>2, <1>3 DEF Waits, c

LEMMA InsertedKeeps ==
    ASSUME NEW b \in Buffers, tick \in Nat, NEW cmds \in SUBSET Nat, NEW u \in Nat,
           tick < u, Waits(b, u)
    PROVE  Waits(Inserted(b, cmds), u)
<1> DEFINE G == {c \in Buffers : Waits(c, u)}
<1>1. b \in G /\ tick + 1 \in Nat
      OBVIOUS
<1>2. ASSUME NEW c \in G, NEW t \in cmds PROVE insert(c, t, tick + 1) \in G
      BY InsertIs, InsertKeeps, <1>1
<1> HIDE DEF G
<1>3. Inserted(b, cmds) \in G
      BY <1>1, <1>2, InsertedStays
<1> QED BY <1>3 DEF G

LEMMA InsertedHolds ==
    ASSUME NEW b \in Buffers, tick \in Nat, NEW cmds \in SUBSET Nat, Near(cmds),
           NEW u \in cmds, tick < u, u < tick + Slots - 1
    PROVE  Waits(Inserted(b, cmds), u)
<1> DEFINE newest == Max({0} \cup cmds)
<1>1. newest \in Nat /\ u <= newest /\ newest < u + MaxCmds
  <2> DEFINE S == {0} \cup cmds
  <2>1. S \in SUBSET Nat /\ S # {} /\ u + MaxCmds \in Nat
        BY ConstantsAre
  <2>2. \A n \in S : n < u + MaxCmds
        BY ConstantsAre DEF Near
  <2>3. \A n \in S : n <= u + MaxCmds
        BY <2>1, <2>2
  <2> HIDE DEF S
  <2>4. Max(S) \in S /\ \A n \in S : n <= Max(S)
        BY <2>1, <2>3, MaxIs
  <2>5. u \in S
        BY DEF S
  <2> QED BY <2>1, <2>2, <2>4, <2>5 DEF S
<1> HIDE DEF newest
<1>2. PICK f : Fills(f, b, cmds, newest) /\ Inserted(b, cmds) = f[MaxCmds]
      BY InsertedIs DEF newest
<1> DEFINE at == newest - u + 1
<1>3. at \in 1 .. MaxCmds /\ newest - at + 1 = u
      BY <1>1, ConstantsAre
<1> HIDE DEF at
<1> DEFINE P == {k \in Nat : f[k] \in Buffers /\ (at <= k => Waits(f[k], u))}
<1>4. 0 \in P
      BY <1>2, <1>3 DEF Fills
<1>5. ASSUME NEW k \in 1 .. MaxCmds, k - 1 \in P PROVE k \in P
  <2> DEFINE c == f[k - 1]
             t == newest - k + 1
  <2>1. c \in Buffers /\ (at <= k - 1 => Waits(c, u)) /\ k \in Nat
        BY <1>5
  <2>2. f[k] = IF t \in cmds THEN insert(c, t, tick + 1) ELSE c
        BY <1>2 DEF Fills
  <2>3. k = at => t = u
        BY <1>3
  <2>4. at <= k => k = at \/ at <= k - 1
        BY <1>3
  <2> HIDE DEF c, t
  <2>5. CASE t \in cmds
    <3>1. t \in Nat /\ tick + 1 \in Nat
          BY <2>5
    <3>2. f[k] \in Buffers
          BY <2>1, <2>2, <2>5, <3>1, InsertIs
    <3>3. CASE at <= k - 1
          BY <2>1, <2>2, <2>5, <3>1, <3>2, <3>3, InsertKeeps
    <3>4. CASE k = at
      <4>1. u % Slots \in 0 .. Slots - 1
            BY SlotIs
      <4>2. tick + 1 <= u /\ u < tick + 1 + Slots - 2 /\ tick + 1 \in Nat
            BY <3>1, ConstantsAre
      <4>3. insert(c, u, tick + 1)[u % Slots] = u
            BY <2>1, <4>1, <4>2, InsertIs
      <4>4. f[k][u % Slots] = u
            BY <2>2, <2>3, <2>5, <3>4, <4>3
      <4> QED BY <3>2, <2>1, <4>4 DEF Waits
    <3> QED BY <2>1, <2>4, <3>2, <3>3, <3>4
  <2>6. CASE t \notin cmds
    <3>1. k # at
          BY <2>3, <2>6
    <3> QED BY <2>1, <2>2, <2>4, <2>6, <3>1
  <2> QED BY <2>5, <2>6
<1> HIDE DEF P
<1>6. MaxCmds \in P
      BY <1>4, <1>5, UpTo, ConstantsAre
<1>7. Waits(f[MaxCmds], u)
      BY <1>3, <1>6 DEF P
<1> QED BY <1>2, <1>7

LEMMA CameInit == Init => CameInv
BY DEF Init, CameInv

LEMMA CameNext == TypeInv /\ CameInv /\ [Next]_vars => CameInv'
<1> SUFFICES ASSUME TypeInv, CameInv, [Next]_vars PROVE CameInv'
    OBVIOUS
<1>1. jitter \in Buffers /\ tick \in Nat /\ up \in SUBSET Ups /\ came \in SUBSET Nat /\ win \in Windows
      BY JitterIs DEF TypeInv, WorldTypes, WireTypes, CommandTypes, ClientTypes
<1>2. CASE Tick
  <2>1. /\ tick' = tick + 1 /\ jitter' = take(jitter, tick + 1) /\ UNCHANGED <<came, up>>
        /\ missed' = IF tick + 1 \in came /\ ~held(jitter, tick + 1) THEN missed \cup {tick + 1}
                     ELSE missed
        BY <1>2 DEF Tick, apply_inputs
  <2>2. tick + 1 \in Nat
        BY <1>1
  <2>3. missed' = {}
    <3>1. tick + 1 \in came => held(jitter, tick + 1)
          BY <1>1 DEF CameInv, Waits, held
    <3> QED BY <2>1, <3>1 DEF CameInv
  <2>4. ASSUME NEW t \in came, tick + 1 < t
        PROVE  t < tick + 1 + Slots - 1 /\ jitter'[t % Slots] = t
    <3>1. t \in Nat /\ t < tick + Slots - 1 /\ jitter[t % Slots] = t
          BY <1>1, <2>4 DEF CameInv, Waits
    <3>2. t % Slots \in 0 .. Slots - 1
          BY <3>1, SlotIs
    <3>3. take(jitter, tick + 1)[t % Slots] = IF jitter[t % Slots] = tick + 1 THEN NoCmd
                                             ELSE jitter[t % Slots]
          BY <1>1, <2>2, <3>2, TakeIs
    <3> QED BY <1>1, <2>1, <2>4, <3>1, <3>3, ConstantsAre
  <2> QED BY <2>1, <2>3, <2>4 DEF CameInv, Waits
<1>3. CASE \E a \in up : drain_inputs(a)
  <2>1. PICK a \in up : drain_inputs(a)
        BY <1>3
  <2>2. /\ UNCHANGED <<tick, missed>> /\ up' \in SUBSET up /\ a.cmds \in SUBSET Nat /\ Near(a.cmds)
        BY <1>1, <2>1 DEF drain_inputs, CameInv, Ups
  <2>3. CASE UNCHANGED <<jitter, came>>
        BY <2>2, <2>3 DEF CameInv, Waits
  <2>4. CASE ~UNCHANGED <<jitter, came>>
    <3>1. /\ jitter' = Inserted(jitter, a.cmds)
          /\ came' = came \cup {t \in a.cmds : tick < t /\ t < tick + Slots - 1}
          BY <2>1, <2>4 DEF drain_inputs
    <3>2. ASSUME NEW t \in came', tick < t
          PROVE  Waits(Inserted(jitter, a.cmds), t)
      <4>1. CASE t \in came
        <5>1. Waits(jitter, t) /\ t \in Nat
              BY <1>1, <3>2, <4>1 DEF CameInv
        <5> QED BY <1>1, <2>2, <3>2, <5>1, InsertedKeeps
      <4>2. CASE t \in a.cmds /\ t < tick + Slots - 1
            BY <1>1, <2>2, <3>2, <4>2, InsertedHolds
      <4> QED BY <3>1, <3>2, <4>1, <4>2
    <3> DEFINE b == Inserted(jitter, a.cmds)
    <3> HIDE DEF b
    <3>3. jitter' = b /\ \A t \in came' : tick < t => t < tick + Slots - 1 /\ b[t % Slots] = t
          BY <3>1, <3>2 DEF Waits, b
    <3> QED BY <2>2, <3>3 DEF CameInv, Waits
  <2> QED BY <2>3, <2>4
<1>4. CASE \E target \in 1 .. tick + MaxLead : poll_commands(target)
  <2>1. PICK target \in 1 .. tick + MaxLead : poll_commands(target)
        BY <1>4
  <2>2. target \in Nat
        BY TargetIs
  <2>3. PICK first \in Nat, now \in SUBSET Nat, out \in SUBSET (SUBSET Nat) : IsMade(first, now, out, target)
        BY <2>1, <2>2, PollCommandsIs
  <2>4. PICK arriving \in SUBSET out : up' = up \cup {Packet(cmds) : cmds \in arriving}
        BY <2>3 DEF IsMade
  <2>5. out = {packet(now, newest) : newest \in windows(first, target)}
        BY <2>3 DEF IsMade
  <2>6. ASSUME NEW cmds \in arriving PROVE Near(cmds) /\ Packet(cmds).cmds = cmds
    <3>1. Packet(cmds).cmds = cmds
          BY <1>1, PacketIs
    <3>2. PICK newest \in windows(first, target) : cmds = packet(now, newest)
          BY <2>5
    <3>3. newest \in Int
          BY <2>2, ConstantsAre DEF windows
    <3>4. \A t \in cmds : t \in Nat /\ newest - MaxCmds < t /\ t <= newest
          BY <3>2 DEF packet
    <3> QED BY <3>1, <3>3, <3>4, ConstantsAre DEF Near
  <2>7. UNCHANGED <<jitter, came, missed, tick>>
        BY <2>3 DEF IsMade
  <2>8. \A p \in up' : Near(p.cmds)
        BY <2>4, <2>6 DEF CameInv
  <2> QED BY <2>7, <2>8 DEF CameInv, Waits
<1>5. CASE poll_inputs
  <2>1. Packet({}).cmds = {}
        BY <1>1, PacketIs
  <2>2. \A p \in up' : Near(p.cmds)
        BY <1>5, <2>1 DEF poll_inputs, CameInv, Near
  <2>3. UNCHANGED <<jitter, came, missed, tick>>
        BY <1>5 DEF poll_inputs, commands
  <2> QED BY <2>2, <2>3 DEF CameInv, Waits
<1>6. CASE Seat
      BY <1>6 DEF Seat, CameInv
<1>7. CASE Dock \/ left_the_sector \/ (\E d \in down : Deliver(d)) \/ UNCHANGED vars
  <2>1. UNCHANGED <<jitter, came, missed, tick, up>>
        BY <1>7 DEF Dock, left_the_sector, Deliver, vars, commands
  <2> QED BY <2>1 DEF CameInv, Waits
<1> QED BY <1>2, <1>3, <1>4, <1>5, <1>6, <1>7 DEF Next

(* A command that came in time is the one its tick runs (InputBuffer::insert and take): what
   comes after it, however late, never takes its slot. *)
THEOREM InTimeIsRun == Spec => []CommandsRun
<1>1. Spec => []TypeInv
      BY InitTypes, NextTypes, PTL DEF Spec
<1> QED BY <1>1, CameInit, CameNext, CameImplies, PTL DEF Spec

-----------------------------------------------------------------------------
(* Every command is carried, and twice if half a packet was made after it. *)
TwiceInv == made \subseteq once /\ TravelsTwice

LEMMA TwiceInit == Init => TwiceInv
BY DEF Init, TwiceInv, TravelsTwice

HalfPacket == MaxCmds \div 2
LEMMA StepIs == HalfPacket \in Nat \ {0} /\ 2 * HalfPacket <= MaxCmds
BY ConstantsAre DEF HalfPacket

(* The packets' newest commands, a step apart: one is the first at or after any command made. *)
LEMMA WindowsIs ==
    ASSUME NEW first \in Nat, NEW target \in Nat, NEW t \in Nat, first <= t, t <= target
    PROVE  \E n \in windows(first, target) :
              /\ n \in Nat /\ t <= n /\ n < t + HalfPacket /\ n <= target
              /\ t + HalfPacket <= target => n + HalfPacket \in windows(first, target) /\ n + HalfPacket <= target
<1> DEFINE h == HalfPacket
           k == (target - t) \div h
           r == (target - t) % h
           l == (target - first) \div h
           n == target - k * h
<1>1. h \in Nat \ {0} /\ target - t \in Nat /\ target - first \in Nat
      BY StepIs
<1>2. k \in Nat /\ r \in 0 .. h - 1 /\ target - t = h * k + r
      BY <1>1, DivIs
<1>3. l \in Nat /\ (target - first) % h \in 0 .. h - 1 /\ target - first = h * l + ((target - first) % h)
      BY <1>1, DivIs
<1>4. windows(first, target) = {target - j * h : j \in 0 .. l}
      BY DEF windows, HalfPacket
<1> DEFINE q == (target - first) % h
<1>5. q \in 0 .. h - 1 /\ target - first = h * l + q
      BY <1>3
<1> HIDE DEF h, k, r, l, q
<1>6. k * h = h * k /\ h * k \in Nat /\ h * l \in Nat
      BY <1>1, <1>2, <1>3
<1>7. k <= l
  <2> SUFFICES ASSUME l + 1 <= k PROVE FALSE
      BY <1>2, <1>3
  <2>1. h * k >= h * l + h
        BY <1>1, <1>2, <1>3
  <2> QED BY <1>1, <1>2, <1>5, <1>6, <2>1
<1>8. n \in windows(first, target) /\ n = t + r /\ n \in Nat
  <2>1. k \in 0 .. l
        BY <1>2, <1>3, <1>7
  <2>2. n \in windows(first, target)
        BY <1>4, <2>1
  <2> DEFINE y == k * h
  <2>3. y \in Nat /\ target - t = y + r /\ n = target - y
        BY <1>2, <1>6
  <2> HIDE DEF y, n
  <2>4. n = t + r /\ n \in Nat
        BY <1>2, <2>3
  <2> QED BY <2>2, <2>4
<1>9. ASSUME t + h <= target
      PROVE  n + h \in windows(first, target) /\ n + h <= target
  <2>1. k # 0
    <3> SUFFICES ASSUME k = 0 PROVE FALSE
        OBVIOUS
    <3>1. h * k = 0
          BY <1>1
    <3> QED BY <1>1, <1>2, <1>9, <3>1
  <2>2. k - 1 \in 0 .. l /\ (k - 1) * h = k * h - h /\ h <= k * h
        BY <1>1, <1>2, <1>3, <1>7, <2>1
  <2>3. n + h = target - (k - 1) * h
        BY <1>1, <1>6, <2>2
  <2> QED BY <1>1, <1>4, <1>6, <2>2, <2>3
<1> HIDE DEF n
<1>10. n < t + h /\ t <= n /\ n <= target
       BY <1>1, <1>2, <1>8, <1>6
<1> QED BY <1>8, <1>9, <1>10 DEF h

LEMMA PollTwice ==
    ASSUME TypeInv, TwiceInv, NEW target \in Nat, poll_commands(target)
    PROVE  TwiceInv'
<1>1. PICK first \in Nat, now \in SUBSET Nat, out \in SUBSET (SUBSET Nat) : IsMade(first, now, out, target)
      BY PollCommandsIs
<1> DEFINE h == HalfPacket
<1>2. h \in Nat \ {0} /\ 2 * h <= MaxCmds /\ MaxCmds \in Nat
      BY StepIs, ConstantsAre
<1>3. made \in SUBSET Nat /\ \A t \in made : t < first
  <2>1. first = resume(next_cmd, Max({0} \cup made), target)
        BY <1>1 DEF IsMade
  <2> QED BY <2>1, ResumeIs DEF TypeInv, CommandTypes
<1>4. /\ first <= target /\ now = made \cup first .. target
      /\ out = {packet(now, newest) : newest \in windows(first, target)}
      /\ made' = now /\ once' = once \cup UNION out
      /\ twice' = twice \cup (once \cap UNION out)
                    \cup UNION {x[1] \cap x[2] : x \in {y \in out \X out : y[1] # y[2]}}
      BY <1>1 DEF IsMade
<1>5. \A t, n \in Nat : t <= n /\ n < t + MaxCmds /\ t .. n \subseteq now => t \in packet(now, n)
  <2> SUFFICES ASSUME NEW t \in Nat, NEW n \in Nat, t <= n, n < t + MaxCmds, t .. n \subseteq now
               PROVE  t \in packet(now, n)
      OBVIOUS
  <2> QED BY <1>2 DEF packet
<1>6. ASSUME NEW t \in now, t \notin made PROVE t \in UNION out
  <2>1. t \in Nat /\ first <= t /\ t <= target
        BY <1>4, <1>6
  <2>2. PICK n \in windows(first, target) : n \in Nat /\ t <= n /\ n < t + h /\ n <= target
        BY <2>1, WindowsIs
  <2>3. t .. n \subseteq now
        BY <1>4, <2>1, <2>2
  <2>4. n < t + MaxCmds
        BY <1>2, <2>1, <2>2
  <2>5. t \in packet(now, n) /\ packet(now, n) \in out
        BY <1>4, <1>5, <2>1, <2>2, <2>3, <2>4
  <2> QED BY <2>5
<1>7. made' \subseteq once'
      BY <1>4, <1>6 DEF TwiceInv
<1>8. ASSUME NEW t \in now, t .. t + h \subseteq now PROVE t \in twice'
  <2> DEFINE later == {u \in t .. t + h : u \notin made}
  <2>1. CASE later = {}
    <3>1. t .. t + h \subseteq made /\ t \in made
      <4>1. t \in t .. t + h
            BY <1>2
      <4> QED BY <2>1, <4>1
    <3> HIDE DEF later
    <3>2. t \in twice
          BY <3>1 DEF TwiceInv, TravelsTwice, HalfPacket
    <3> QED BY <1>4, <3>2
  <2>2. CASE later # {}
    <3>1. PICK u \in t .. t + h : u \notin made
          BY <2>2
    <3>2. u \in Nat /\ first <= u /\ u <= target /\ t <= u /\ u <= t + h /\ t \in Nat
          BY <1>2, <1>4, <1>8, <3>1
    <3>3. t + h \in now /\ t + h \in Nat /\ first <= t + h
          BY <1>2, <1>8, <3>2
    <3>4. t + h <= target
          BY <1>3, <1>4, <3>3
    <3>5. CASE first <= t
      <4>0. t <= target
            BY <1>2, <3>2, <3>4
      <4>1. PICK n \in windows(first, target) :
               /\ n \in Nat /\ t <= n /\ n < t + h /\ n <= target
               /\ n + h \in windows(first, target) /\ n + h <= target
            BY <3>2, <3>4, <3>5, <4>0, WindowsIs
      <4> DEFINE p == packet(now, n)
                 q == packet(now, n + h)
      <4>2. p \in out /\ q \in out
            BY <1>4, <4>1
      <4>3. n + h \in Nat /\ n < n + h /\ n + h < t + MaxCmds /\ n < t + MaxCmds /\ t <= n + h
            BY <1>2, <3>2, <4>1
      <4>4. t .. n + h \subseteq now /\ t .. n \subseteq now /\ n + h .. n + h \subseteq now
        <5>1. \A x \in t .. n + h : x \in first .. target
              BY <3>2, <3>5, <4>1, <4>3
        <5>2. \A x \in t .. n : x \in first .. target
              BY <3>2, <3>5, <4>1, <4>3
        <5>3. \A x \in n + h .. n + h : x \in first .. target
              BY <3>2, <3>5, <4>1, <4>3
        <5> QED BY <1>4, <5>1, <5>2, <5>3
      <4>5. t \in p /\ t \in q
            BY <1>5, <3>2, <4>1, <4>3, <4>4
      <4>6. n + h \in q /\ n + h \notin p
        <5>1. n + h < n + h + MaxCmds /\ n + h <= n + h
              BY <1>2, <4>3, ConstantsAre
        <5>2. n + h \in q
              BY <1>5, <4>3, <4>4, <5>1
        <5>3. n + h \notin p
              BY <4>1, <4>3 DEF packet
        <5> QED BY <5>2, <5>3
      <4> HIDE DEF p, q
      <4>7. p # q
            BY <4>6
      <4>8. <<p, q>> \in {y \in out \X out : y[1] # y[2]}
            BY <4>2, <4>7
      <4>9. t \in UNION {x[1] \cap x[2] : x \in {y \in out \X out : y[1] # y[2]}}
            BY <4>5, <4>8
      <4> QED BY <1>4, <4>9
    <3>6. CASE ~(first <= t)
      <4>1. t \in once
            BY <1>4, <1>8, <3>6, <3>2 DEF TwiceInv
      <4>2. PICK n \in windows(first, target) : n \in Nat /\ first <= n /\ n < first + h /\ n <= target
        <5>1. first <= first
              OBVIOUS
        <5> QED BY <1>4, <5>1, WindowsIs
      <4>3. t <= n /\ n < t + MaxCmds
            BY <1>2, <3>2, <3>3, <3>6, <4>2
      <4>4. t .. n \subseteq now
        <5>1. ASSUME NEW x \in t .. n PROVE x \in now
          <6>1. CASE x <= t + h
                BY <1>8, <3>2, <4>2, <6>1, <1>2
          <6>2. CASE ~(x <= t + h)
                BY <1>2, <1>4, <3>2, <3>3, <4>2, <6>2
          <6> QED BY <6>1, <6>2
        <5> QED BY <5>1
      <4>5. t \in packet(now, n) /\ packet(now, n) \in out
            BY <1>4, <1>5, <3>2, <4>2, <4>3, <4>4
      <4>6. t \in once \cap UNION out
            BY <4>1, <4>5
      <4> QED BY <1>4, <4>6
    <3> QED BY <3>5, <3>6
  <2> QED BY <2>1, <2>2
<1>9. TravelsTwice'
  <2>1. \A t \in made' : t .. t + (MaxCmds \div 2) \subseteq made' => t \in twice'
        BY <1>4, <1>8 DEF HalfPacket
  <2> QED BY <2>1 DEF TravelsTwice
<1> QED BY <1>7, <1>9 DEF TwiceInv

LEMMA TwiceNext == TypeInv /\ TwiceInv /\ [Next]_vars => TwiceInv'
<1> SUFFICES ASSUME TypeInv, TwiceInv, [Next]_vars PROVE TwiceInv'
    OBVIOUS
<1>1. CASE \E target \in 1 .. tick + MaxLead : poll_commands(target)
      BY <1>1, TargetIs, PollTwice
<1>2. CASE left_the_sector
      BY <1>2 DEF left_the_sector, TwiceInv, TravelsTwice
<1>3. CASE Tick \/ poll_inputs \/ Dock \/ Seat \/ (\E d \in down : Deliver(d))
           \/ (\E a \in up : drain_inputs(a)) \/ UNCHANGED vars
  <2>1. UNCHANGED <<made, once, twice>>
        BY <1>3 DEF Tick, apply_inputs, poll_inputs, Dock, Seat, Deliver, drain_inputs, vars, commands
  <2> QED BY <2>1 DEF TwiceInv, TravelsTwice
<1> QED BY <1>1, <1>2, <1>3 DEF Next

(* Every command with half a packet made after it was in two packets (Client::poll_inputs),
   however far the client's clock jumps at once. *)
THEOREM CommandsTravelTwice == Spec => []TravelsTwice
<1>1. Spec => []TypeInv
      BY InitTypes, NextTypes, PTL DEF Spec
<1>2. TwiceInv => TravelsTwice
      BY DEF TwiceInv
<1> QED BY <1>1, <1>2, TwiceInit, TwiceNext, PTL DEF Spec

-----------------------------------------------------------------------------
(* What a tick leaves of the server's books as it was. *)
LEMMA TickKeeps ==
    ASSUME TypeInv, Tick
    PROVE  /\ srv'.stream = srv.stream /\ srv'.floor = srv.floor /\ srv'.retired = srv.retired
           /\ srv'.joined = srv.joined /\ srv'.event_acked = srv.event_acked
           /\ srv'.acked = srv.acked /\ srv'.base = srv.base
           /\ srv.seq \in Nat /\ srv'.seq \in Nat /\ srv.seq < srv'.seq
           /\ \A d \in down' : \/ d \in down
                               \/ /\ d.stream = srv.stream /\ srv.seq <= d.n /\ d.n < srv'.seq
                                  /\ d.seq = d.n % Modulus /\ d.tick = tick + 1 /\ srv.sends <= d.nth
<1>1. PICK s \in Servers, evs \in Seq(Nat), suit \in BOOLEAN, more \in BOOLEAN, obj \in Objs,
           done \in Nat, d \in Downs, m \in Downs, s1 \in Servers :
              /\ s = Noticed(srv, sight', tick + 1) /\ Fit(s) /\ sight' \in BOOLEAN
              /\ \E k \in 0 .. Len(s.leaves), unfit \in SUBSET Pending(s, evs, tick + 1) :
                    Snapshot(d, s, tick + 1, evs, k, unfit, suit, obj)
              /\ s1 = Sent(s, d, done) /\ Fit(s1)
              /\ Further(m, s1, tick + 1)
              /\ srv' = IF more THEN Sent(s1, m, 0) ELSE s1
              /\ down' \in SUBSET (down \cup {d} \cup (IF more THEN {m} ELSE {}))
      BY TickIs
<1>2. Fit(srv) /\ tick + 1 \in Nat
      BY DEF TypeInv, WorldTypes
<1>3. /\ s.stream = srv.stream /\ s.floor = srv.floor /\ s.retired = srv.retired /\ s.joined = srv.joined
      /\ s.event_acked = srv.event_acked /\ s.acked = srv.acked /\ s.base = srv.base
      /\ s.seq = srv.seq /\ s.sends = srv.sends
  <2>1. IsNoticed(Noticed(srv, sight', tick + 1), srv, sight', tick + 1)
        BY <1>1, <1>2, NoticedIs
  <2> QED BY <1>1, <2>1 DEF IsNoticed
<1>4. /\ s1.stream = s.stream /\ s1.floor = s.floor /\ s1.retired = s.retired /\ s1.joined = s.joined
      /\ s1.event_acked = s.event_acked /\ s1.acked = s.acked /\ s1.base = s.base
      /\ s1.seq = s.seq + 1 /\ s1.sends = IF d.suit THEN s.sends + 1 ELSE s.sends
  <2>1. IsSent(Sent(s, d, done), s, d, done)
        BY <1>1, SentIs
  <2> QED BY <1>1, <2>1 DEF IsSent
<1> DEFINE u == Sent(s1, m, 0)
<1>5. /\ u.stream = s1.stream /\ u.floor = s1.floor /\ u.retired = s1.retired /\ u.joined = s1.joined
      /\ u.event_acked = s1.event_acked /\ u.acked = s1.acked /\ u.base = s1.base
      /\ u.seq = s1.seq + 1
  <2>1. IsSent(Sent(s1, m, 0), s1, m, 0)
        BY <1>1, SentIs
  <2> QED BY <2>1 DEF IsSent
<1> HIDE DEF u
<1>6. srv' = IF more THEN u ELSE s1
      BY <1>1 DEF u
<1>7. srv.seq \in Nat /\ srv.sends \in Nat
      BY <1>2 DEF Fit, Servers
<1>8. /\ d.stream = srv.stream /\ d.n = srv.seq /\ d.seq = d.n % Modulus /\ d.tick = tick + 1
      /\ d.nth = srv.sends
      BY <1>1, <1>3 DEF Snapshot
<1>9. /\ m.stream = srv.stream /\ m.n = srv.seq + 1 /\ m.seq = m.n % Modulus /\ m.tick = tick + 1
      /\ srv.sends <= m.nth
  <2>1. m.stream = s1.stream /\ m.n = s1.seq /\ m.seq = s1.seq % Modulus /\ m.tick = tick + 1 /\ m.nth = s1.sends
        BY <1>1 DEF Further
  <2> QED BY <1>3, <1>4, <1>7, <2>1
<1>10. srv'.seq \in Nat /\ srv.seq < srv'.seq /\ (more => srv.seq + 1 < srv'.seq)
       BY <1>3, <1>4, <1>5, <1>6, <1>7
<1>11. ASSUME NEW x \in down', x \notin down
       PROVE  /\ x.stream = srv.stream /\ srv.seq <= x.n /\ x.n < srv'.seq
              /\ x.seq = x.n % Modulus /\ x.tick = tick + 1 /\ srv.sends <= x.nth
  <2>1. CASE x = d
        BY <1>7, <1>8, <1>10, <2>1
  <2>2. CASE more /\ x = m
        BY <1>7, <1>9, <1>10, <2>2
  <2> QED BY <1>1, <1>11, <2>1, <2>2
<1>12. /\ srv'.stream = srv.stream /\ srv'.floor = srv.floor /\ srv'.retired = srv.retired
       /\ srv'.joined = srv.joined /\ srv'.event_acked = srv.event_acked
       /\ srv'.acked = srv.acked /\ srv'.base = srv.base
       BY <1>3, <1>4, <1>5, <1>6
<1> QED BY <1>7, <1>10, <1>11, <1>12

(* What an input packet's going leaves as it was, and what is in flight after. *)
Polls == poll_inputs \/ \E target \in 1 .. tick + MaxLead : poll_commands(target)

LEMMA PollIs ==
    ASSUME TypeInv, Polls
    PROVE  /\ \E sets \in SUBSET (SUBSET Nat) :
                 up \in SUBSET up' /\ up' \in SUBSET (up \cup {Packet(cmds) : cmds \in sets})
           /\ win.mask # {}
           /\ UNCHANGED <<world, tick, seated, seats, srv, down, client, jitter, came, missed, history>>
<1>1. CASE poll_inputs
  <2>1. {{}} \in SUBSET (SUBSET Nat)
        /\ up' \in SUBSET (up \cup {Packet(cmds) : cmds \in {{}}}) /\ up \in SUBSET up'
        BY <1>1 DEF poll_inputs
  <2>2. /\ win.mask # {}
        /\ UNCHANGED <<world, tick, seated, seats, srv, down, client, jitter, came, missed, history>>
        BY <1>1 DEF poll_inputs, commands
  <2> QED BY <2>1, <2>2
<1>2. CASE \E target \in 1 .. tick + MaxLead : poll_commands(target)
  <2>1. PICK target \in 1 .. tick + MaxLead : poll_commands(target)
        BY <1>2
  <2>2. target \in Nat
        BY TargetIs
  <2>3. PICK first \in Nat, now \in SUBSET Nat, out \in SUBSET (SUBSET Nat) : IsMade(first, now, out, target)
        BY <2>1, <2>2, PollCommandsIs
  <2>4. PICK arriving \in SUBSET out : up' = up \cup {Packet(cmds) : cmds \in arriving}
        BY <2>3 DEF IsMade
  <2>5. /\ win.mask # {}
        /\ UNCHANGED <<world, tick, seated, seats, srv, down, client, jitter, came, missed, history>>
        BY <2>3 DEF IsMade
  <2> QED BY <2>4, <2>5
<1> QED BY <1>1, <1>2 DEF Polls

-----------------------------------------------------------------------------
(* Streams and numbers as they go on the wire. *)
StreamInv ==
    /\ (win.mask # {} \/ win.any) => win.stream # 0
    /\ win.stream # 0 => 0 \in win.mask /\ win.any
    /\ \A d \in down : d.stream # 0 /\ d.seq = d.n % Modulus
    /\ \A a \in up : a.stream # 0 /\ a.seq = a.n % Modulus

LEMMA StreamInit == Init => StreamInv
<1> SUFFICES ASSUME Init PROVE StreamInv
    OBVIOUS
<1>1. PICK s \in Starts :
          /\ srv = [Seated(1, 0) EXCEPT !.seq = s, !.floor = s]
          /\ win = IF s = 0 THEN NoWindow
                   ELSE [stream |-> 1, newest |-> s - 1, mask |-> {0}, tick |-> 1, any |-> TRUE]
      BY DEF Init
<1>2. srv.stream = 1
      BY <1>1 DEF Seated
<1>3. /\ (win.mask # {} \/ win.any) => win.stream # 0
      /\ win.stream # 0 => 0 \in win.mask /\ win.any
      BY <1>1 DEF NoWindow, NoStream
<1> QED BY <1>2, <1>3, ConstantsAre DEF Init, StreamInv

LEMMA StreamNext == TypeInv /\ StreamInv /\ [Next]_vars => StreamInv'
<1> SUFFICES ASSUME TypeInv, StreamInv, [Next]_vars PROVE StreamInv'
    OBVIOUS
<1>1. /\ win \in Windows /\ down \in SUBSET Downs /\ up \in SUBSET Ups
      /\ srv.stream # 0
      BY DEF TypeInv, WireTypes, ClientTypes, Fit
<1>2. CASE Tick
  <2>1. UNCHANGED <<up, win>>
        BY <1>2 DEF Tick, client
  <2>2. \A d \in down' : d.stream # 0 /\ d.seq = d.n % Modulus
        BY <1>1, <1>2, TickKeeps DEF StreamInv
  <2> QED BY <2>1, <2>2 DEF StreamInv
<1>3. CASE Polls
  <2>1. PICK sets \in SUBSET (SUBSET Nat) :
           /\ up' \in SUBSET (up \cup {Packet(cmds) : cmds \in sets})
           /\ win.mask # {} /\ UNCHANGED <<down, win>>
        BY <1>3, PollIs DEF client
  <2>2. ASSUME NEW a \in up' PROVE a.stream # 0 /\ a.seq = a.n % Modulus
    <3>1. CASE a \in up
          BY <3>1 DEF StreamInv
    <3>2. CASE a \notin up
      <4>1. PICK cmds \in sets : a = Packet(cmds)
            BY <2>1, <3>2
      <4>2. a.stream = win.stream /\ a.seq = win.newest % Modulus /\ a.n = win.newest
            BY <1>1, <2>1, <4>1, PacketIs
      <4> QED BY <1>1, <2>1, <4>2 DEF StreamInv
    <3> QED BY <3>1, <3>2
  <2> QED BY <2>1, <2>2 DEF StreamInv
<1>4. CASE \E d \in down : Deliver(d)
  <2>1. PICK d \in down : Deliver(d)
        BY <1>4
  <2>2. /\ down' \in SUBSET down
        /\ UNCHANGED up
        /\ UNCHANGED win \/ Takes(d, check(win, d))
        BY <2>1, DeliverIs DEF client
  <2>3. CASE UNCHANGED win
        BY <2>2, <2>3 DEF StreamInv
  <2>4. CASE Takes(d, check(win, d))
    <3>1. check(win, d).n \in Nat
          BY <1>1, <2>4, CheckIs DEF Takes
    <3>2. win'.stream = d.stream /\ win'.any /\ 0 \in win'.mask
      <4> DEFINE verdict == check(win, d)
      <4>1. verdict.n \in Nat /\ win' = commit(win, d, verdict)
            BY <2>4, <3>1 DEF Takes
      <4> HIDE DEF verdict
      <4>2. /\ win'.stream = d.stream /\ win'.any
            /\ win'.mask = {0} \cup (IF verdict.is = "new" THEN {}
                                 ELSE {o + (verdict.n - win.newest) : o \in win.mask} \cap (1 .. 2 * AckBits - 1))
            BY <1>1, <4>1, CommitIs
      <4> QED BY <4>2
    <3>3. d.stream # 0
          BY DEF StreamInv
    <3> QED BY <1>1, <2>2, <3>2, <3>3 DEF StreamInv
  <2> QED BY <2>2, <2>3, <2>4
<1>5. CASE (\E a \in up : drain_inputs(a)) \/ Dock \/ Seat \/ UNCHANGED vars
  <2>1. UNCHANGED <<down, win>> /\ up' \in SUBSET up
        BY <1>5 DEF drain_inputs, Dock, Seat, vars, client
  <2> QED BY <2>1 DEF StreamInv
<1>6. CASE left_the_sector
  <2>1. UNCHANGED <<down, up>> /\ win' = NoWindow
        BY <1>6 DEF left_the_sector
  <2> QED BY <2>1 DEF StreamInv, NoWindow, NoStream
<1> QED BY <1>2, <1>3, <1>4, <1>5, <1>6 DEF Next, Polls

(* The stream of the next seat is one that nothing in flight is of, nor the client's window:
   the epochs haven't come round to it while some of its last use was about. *)
FreshStreams ==
    seated = "home" => \A x \in {win} \cup down \cup up : x.stream # next_epoch(srv.stream)

-----------------------------------------------------------------------------
(* What an ack in flight names, and the window its client keeps, was taken on this seat's
   stream, or is from before the seat's first datagram. *)
Had(n) == <<srv.stream, n>> \in taken \/ n < srv.floor

AckInv ==
    /\ seated = "flying" =>
          /\ \A d \in down : d.stream = srv.stream => d.n < srv.seq
          /\ \A n \in Nat : <<srv.stream, n>> \in taken => n < srv.seq
          /\ win.stream = srv.stream =>
                /\ win.newest < srv.seq
                /\ \A o \in win.mask : win.newest - o >= 0 => Had(win.newest - o)
          /\ \A a \in up : a.stream = srv.stream =>
                /\ a.n < srv.seq /\ Had(a.n)
                /\ \A i \in a.bits : a.n - 1 - i >= 0 => Had(a.n - 1 - i)
          /\ \A n \in srv.retired : <<srv.stream, n>> \in taken
    /\ seated = "home" => \A n \in Nat : <<next_epoch(srv.stream), n>> \notin taken

LEMMA AckImplies == AckInv => AckedWasTaken
BY DEF AckInv, AckedWasTaken, Retired

LEMMA AckInit == Init => AckInv
<1> SUFFICES ASSUME Init PROVE AckInv
    OBVIOUS
<1>1. PICK s \in Starts :
          /\ srv = [Seated(1, 0) EXCEPT !.seq = s, !.floor = s]
          /\ win = IF s = 0 THEN NoWindow
                   ELSE [stream |-> 1, newest |-> s - 1, mask |-> {0}, tick |-> 1, any |-> TRUE]
      BY DEF Init
<1>2. srv.stream = 1 /\ srv.seq = s /\ srv.floor = s /\ srv.retired = {} /\ s \in Nat
      BY <1>1, ConstantsAre DEF Seated
<1>3. win.stream = 1 => win.newest = s - 1 /\ win.mask = {0}
      BY <1>1 DEF NoWindow, NoStream
<1>4. down = {} /\ up = {} /\ taken = {}
      BY DEF Init
<1> QED BY <1>2, <1>3, <1>4 DEF AckInv, Had

(* A datagram of this seat's stream that is taken has its number read right. *)
LEMMA TakenIs ==
    ASSUME TypeInv, StreamInv, seated = "flying", NEW d \in down, d.stream = srv.stream,
           InTime(d), check(win, d) # Stale
    PROVE  /\ check(win, d).n = d.n
           /\ \/ /\ check(win, d).is = "next" /\ win.stream = d.stream /\ win.newest < d.n
              \/ /\ check(win, d).is = "new" /\ win.stream # d.stream
                 /\ ~win.any \/ d.tick > win.tick
<1> DEFINE verdict == check(win, d)
<1>1. d \in Downs /\ win \in Windows /\ d.n \in Nat /\ d.seq = d.n % Modulus /\ win.newest \in Nat
      /\ d.stream # 0
      BY DEF TypeInv, WireTypes, ClientTypes, StreamInv, Downs, Windows
<1>2. /\ verdict.n \in Nat
      /\ \/ /\ verdict.is = "next" /\ d.stream = win.stream /\ win.mask # {}
            /\ verdict.n = expand(d.seq, win.newest) /\ verdict.n > win.newest
         \/ /\ verdict.is = "new" /\ ~(d.stream = win.stream /\ win.mask # {})
            /\ verdict.n = d.seq /\ (~win.any \/ d.tick > win.tick)
      BY <1>1, CheckIs
<1> HIDE DEF verdict
<1>3. CASE win.stream = d.stream
  <2>1. win.mask # {}
        BY <1>1, <1>3 DEF StreamInv
  <2>2. InReach(d.n, win.newest)
        BY <1>3 DEF InTime
  <2>3. expand(d.n % Modulus, win.newest) = d.n
        BY <1>1, <2>2, ExpandNearest
  <2> QED BY <1>1, <1>2, <1>3, <2>1, <2>3 DEF verdict
<1>4. CASE win.stream # d.stream
  <2>1. d.n < Modulus
        BY <1>4 DEF InTime
  <2>2. d.n % Modulus = d.n
        BY <1>1, <2>1, ConstantsAre
  <2> QED BY <1>1, <1>2, <1>4, <2>2 DEF verdict
<1> QED BY <1>3, <1>4

(* What the sector reads in an ack it hears in time is what the client said. *)
LEMMA AckRead ==
    ASSUME TypeInv, StreamInv, AckInv, seated = "flying", NEW a \in up, a.stream = srv.stream,
           InReach(a.n, srv.seq - 1)
    PROVE  /\ srv.seq # 0 /\ expand(a.seq, srv.seq - 1) = a.n
           /\ \A n \in Names(a, a.n) : n \in Nat => Had(n)
<1>1. a \in Ups /\ a.n \in Nat /\ a.seq = a.n % Modulus /\ a.n < srv.seq /\ srv.seq \in Nat
      /\ a.bits \in SUBSET Int
      BY DEF TypeInv, WireTypes, StreamInv, AckInv, Ups, Fit, Servers
<1>2. srv.seq - 1 \in Nat
      BY <1>1
<1>3. expand(a.n % Modulus, srv.seq - 1) = a.n
      BY <1>1, <1>2, ExpandNearest
<1>4. Had(a.n) /\ \A i \in a.bits : a.n - 1 - i >= 0 => Had(a.n - 1 - i)
      BY DEF AckInv
<1>5. ASSUME NEW n \in Names(a, a.n), n \in Nat PROVE Had(n)
  <2>1. CASE n = a.n
        BY <1>4, <2>1
  <2>2. CASE n # a.n
    <3>1. PICK i \in a.bits : n = a.n - 1 - i
          BY <2>2 DEF Names
    <3> QED BY <1>4, <1>5, <3>1
  <2> QED BY <2>1, <2>2
<1> QED BY <1>1, <1>3, <1>5

(* So the ack retires what was taken, and the floor only rises. *)
LEMMA AckRetires ==
    ASSUME TypeInv, StreamInv, AckInv, seated = "flying", NEW a \in up, drain_inputs(a)
    PROVE  /\ on_ack(a).stream = srv.stream /\ on_ack(a).seq = srv.seq
           /\ on_ack(a).floor >= srv.floor
           /\ \A n \in on_ack(a).retired : <<srv.stream, n>> \in taken
<1>1. a \in Ups /\ Fit(srv) /\ srv.floor \in Nat
      BY DEF TypeInv, WireTypes, Fit, Servers
<1>2. CASE a.stream # srv.stream
  <2>1. on_ack(a) = srv
        BY <1>1, <1>2, OnAckIs
  <2> QED BY <1>1, <2>1 DEF AckInv
<1>3. CASE a.stream = srv.stream
  <2>1. InReach(a.n, srv.seq - 1)
        BY <1>3 DEF drain_inputs
  <2>2. expand(a.seq, srv.seq - 1) = a.n /\ \A n \in Names(a, a.n) : n \in Nat => Had(n)
        BY <1>3, <2>1, AckRead
  <2> DEFINE G == {s \in Servers : /\ Fit(s) /\ s.stream = srv.stream /\ s.seq = srv.seq
                                   /\ s.floor >= srv.floor
                                   /\ \A n \in s.retired : <<srv.stream, n>> \in taken}
  <2>3. srv \in G
        BY <1>1 DEF Fit, AckInv
  <2>4. ASSUME NEW s \in G, NEW n \in Names(a, a.n), n \in Nat, n < srv.seq
        PROVE  retire(s, n) \in G
    <3> DEFINE t == retire(s, n)
    <3>1. IsRetired(t, s, n)
          BY <2>4, RetireIs
    <3>2. CASE ~Retires(s, n)
          BY <3>1, <3>2 DEF IsRetired
    <3>3. CASE Retires(s, n)
      <4>1. Fit(t) /\ t.stream = s.stream /\ t.seq = s.seq /\ t.floor = n + 1 /\ t.retired = s.retired \cup {n}
            BY <3>1, <3>3 DEF IsRetired
      <4>2. n >= s.floor /\ s.floor \in Nat
            BY <3>3, <2>4 DEF Retires, Servers
      <4>3. <<srv.stream, n>> \in taken
            BY <1>1, <2>2, <2>4, <4>2 DEF Had
      <4> HIDE DEF t
      <4>4. t \in G
            BY <1>1, <2>4, <4>1, <4>2, <4>3 DEF Fit
      <4> QED BY <4>4 DEF t
    <3> QED BY <3>2, <3>3
  <2> HIDE DEF G
  <2>5. on_ack(a) \in G
        BY <1>1, <1>3, <2>2, <2>3, <2>4, OnAckStays
  <2> QED BY <2>5 DEF G
<1> QED BY <1>2, <1>3

LEMMA AckDeliver ==
    ASSUME TypeInv, StreamInv, AckInv, FreshStreams, NEW d \in down, Deliver(d)
    PROVE  AckInv'
<1>1. /\ d \in Downs /\ win \in Windows /\ Fit(srv) /\ d.n \in Nat
      /\ win.newest \in Nat /\ win.mask \in SUBSET Nat /\ d.stream \in Nat
      BY DEF TypeInv, WireTypes, ClientTypes, Downs, Windows
<1>2. /\ InTime(d) /\ down' = down \ {d}
      /\ UNCHANGED <<seated, seats, srv, up>>
      /\ \/ UNCHANGED <<client, taken>>
         \/ Takes(d, check(win, d))
      BY DeliverIs
<1>3. CASE UNCHANGED <<client, taken>>
      BY <1>2, <1>3 DEF AckInv, Had, client
<1>4. CASE Takes(d, check(win, d))
  <2>7. seated = "home" => \A n \in Nat : <<next_epoch(srv.stream), n>> \notin taken'
    <3>1. seated = "home" => d.stream # next_epoch(srv.stream)
          BY DEF FreshStreams
    <3>2. taken' = taken \cup {<<d.stream, d.n>>}
          BY <1>4 DEF Takes
    <3> QED BY <3>1, <3>2 DEF AckInv
  <2> SUFFICES ASSUME seated = "flying" PROVE AckInv'
      BY <1>2, <2>7 DEF AckInv
  <2> DEFINE verdict == check(win, d)
  <2>1. taken' = taken \cup {<<d.stream, d.n>>} /\ win' = commit(win, d, verdict)
        BY <1>4 DEF Takes
  <2>2. verdict.n \in Nat
        BY <1>1, <1>4, CheckIs DEF Takes
  <2> HIDE DEF verdict
  <2>3. /\ win'.stream = d.stream /\ win'.newest = verdict.n
        /\ win'.mask = {0} \cup (IF verdict.is = "new" THEN {}
                                 ELSE {o + (verdict.n - win.newest) : o \in win.mask} \cap (1 .. 2 * AckBits - 1))
        BY <1>1, <2>1, <2>2, CommitIs
  <2> DEFINE Later(n) == <<srv.stream, n>> \in taken' \/ n < srv.floor
  <2>4. \A n : Had(n) => Later(n)
        BY <1>2, <2>1 DEF Had
  <2>5. CASE d.stream # srv.stream
        BY <1>2, <2>1, <2>3, <2>4, <2>5 DEF AckInv, Had
  <2>6. CASE d.stream = srv.stream
    <3>1. /\ verdict.n = d.n
          /\ \/ verdict.is = "next" /\ win.stream = d.stream /\ win.newest < d.n
             \/ verdict.is = "new" /\ win.stream # d.stream
          BY <1>2, <1>4, <2>6, TakenIs DEF verdict, Takes
    <3>2. d.n < srv.seq
          BY <2>6 DEF AckInv
    <3>3. Later(d.n)
          BY <1>2, <2>1, <2>6
    <3>4. ASSUME NEW o \in win'.mask, win'.newest - o >= 0
          PROVE  Later(win'.newest - o)
      <4>0. win'.newest = d.n
            BY <2>3, <3>1
      <4>1. CASE o = 0
            BY <1>1, <3>3, <4>0, <4>1
      <4>2. CASE o # 0
        <5>1. verdict.is # "new"
              BY <2>3, <3>4, <4>2
        <5>2. PICK p \in win.mask : o = p + (d.n - win.newest)
              BY <2>3, <3>1, <3>4, <4>2, <5>1
        <5>3. d.n - o = win.newest - p
              BY <1>1, <5>2
        <5>4. Had(win.newest - p)
              BY <2>6, <3>1, <3>4, <4>0, <5>1, <5>3 DEF AckInv
        <5> QED BY <2>4, <4>0, <5>3, <5>4
      <4> QED BY <4>1, <4>2
    <3>5. \A n \in Nat : <<srv.stream, n>> \in taken' => n < srv.seq
          BY <2>1, <3>2 DEF AckInv
    <3>6. /\ \A x \in down' : x.stream = srv.stream => x.n < srv.seq
          /\ \A n \in srv.retired : <<srv.stream, n>> \in taken'
          BY <1>2, <2>1 DEF AckInv
    <3>7. \A a \in up : a.stream = srv.stream =>
              /\ a.n < srv.seq /\ Later(a.n)
              /\ \A i \in a.bits : a.n - 1 - i >= 0 => Later(a.n - 1 - i)
          BY <2>4 DEF AckInv
    <3>8. win'.newest < srv.seq
          BY <2>3, <3>1, <3>2
    <3> QED BY <1>2, <3>4, <3>5, <3>6, <3>7, <3>8, <2>3, <2>6 DEF AckInv, Had
  <2> QED BY <2>5, <2>6
<1> QED BY <1>2, <1>3, <1>4

-----------------------------------------------------------------------------
LEMMA AckTick == ASSUME TypeInv, AckInv, Tick PROVE AckInv'
<1>1. /\ UNCHANGED <<seated, up, win, taken>>
      /\ srv'.stream = srv.stream /\ srv'.floor = srv.floor /\ srv'.retired = srv.retired
      /\ srv.seq \in Nat /\ srv'.seq \in Nat /\ srv.seq < srv'.seq
      /\ \A d \in down' : d \in down \/ d.n < srv'.seq
      BY TickKeeps DEF Tick, client
<1>2. /\ \A d \in down : d.n \in Nat
      /\ \A a \in up : a.n \in Nat
      /\ win.newest \in Nat
      BY DEF TypeInv, WireTypes, ClientTypes, Downs, Ups, Windows
<1> SUFFICES ASSUME seated = "flying" PROVE AckInv'
    BY <1>1 DEF AckInv
<1>3. \A d \in down' : d.stream = srv.stream => d.n < srv'.seq
      BY <1>1, <1>2 DEF AckInv
<1>4. \A n \in Nat : <<srv.stream, n>> \in taken => n < srv'.seq
      BY <1>1 DEF AckInv
<1>5. win.stream = srv.stream => win.newest < srv'.seq
      BY <1>1, <1>2 DEF AckInv
<1>6. \A a \in up : a.stream = srv.stream => a.n < srv'.seq
      BY <1>1, <1>2 DEF AckInv
<1> QED BY <1>1, <1>3, <1>4, <1>5, <1>6 DEF AckInv, Had

LEMMA AckPolls == ASSUME TypeInv, StreamInv, AckInv, Polls PROVE AckInv'
<1>1. PICK sets \in SUBSET (SUBSET Nat) : up' \in SUBSET (up \cup {Packet(cmds) : cmds \in sets})
      BY PollIs
<1>2. win.mask # {} /\ UNCHANGED <<seated, srv, down, win, taken>>
      BY PollIs DEF client, history
<1>3. win \in Windows /\ win.newest \in Nat /\ win.mask \in SUBSET Nat
      BY DEF TypeInv, ClientTypes, Windows
<1> SUFFICES ASSUME seated = "flying" PROVE AckInv'
    BY <1>2 DEF AckInv
<1>4. ASSUME NEW a \in up', a.stream = srv.stream
      PROVE  /\ a.n < srv.seq /\ Had(a.n)
             /\ \A i \in a.bits : a.n - 1 - i >= 0 => Had(a.n - 1 - i)
  <2>1. CASE a \in up
        BY <1>4, <2>1 DEF AckInv
  <2>2. CASE a \notin up
    <3>1. PICK cmds \in sets : a = Packet(cmds)
          BY <1>1, <1>4, <2>2
    <3>2. a.stream = win.stream /\ a.n = win.newest /\ a.bits = {i \in 0 .. AckBits - 1 : i + 1 \in win.mask}
          BY <1>3, <3>1, PacketIs
    <3>3. /\ win.newest < srv.seq
          /\ \A o \in win.mask : win.newest - o >= 0 => Had(win.newest - o)
          BY <1>4, <3>2 DEF AckInv
    <3>4. Had(a.n)
      <4>1. 0 \in win.mask /\ win.newest - 0 = win.newest
            BY <1>2, <1>3 DEF StreamInv
      <4> QED BY <1>3, <3>2, <3>3, <4>1
    <3>5. ASSUME NEW i \in a.bits, a.n - 1 - i >= 0 PROVE Had(a.n - 1 - i)
      <4>1. i + 1 \in win.mask /\ i \in Int
            BY <3>2
      <4>2. win.newest - (i + 1) = a.n - 1 - i
            BY <1>3, <3>2, <4>1
      <4> QED BY <3>3, <3>5, <4>1, <4>2
    <3> QED BY <3>2, <3>3, <3>4, <3>5
  <2> QED BY <2>1, <2>2
<1> QED BY <1>2, <1>4 DEF AckInv, Had

LEMMA AckDrain == ASSUME TypeInv, StreamInv, AckInv, NEW a \in up, drain_inputs(a) PROVE AckInv'
<1>1. UNCHANGED <<seated, down, win, taken>> /\ up' \in SUBSET up
      BY DEF drain_inputs, client
<1> SUFFICES ASSUME seated = "flying" PROVE AckInv'
  <2>1. seated # "flying" => srv' = srv
        BY DEF drain_inputs
  <2> QED BY <1>1, <2>1 DEF AckInv
<1>2. srv' = on_ack(a)
      BY DEF drain_inputs
<1>3. /\ srv'.stream = srv.stream /\ srv'.seq = srv.seq /\ srv'.floor >= srv.floor
      /\ \A n \in srv'.retired : <<srv.stream, n>> \in taken
      BY <1>2, AckRetires
<1>4. srv.floor \in Nat /\ srv'.floor \in Nat
      BY NextTypes DEF TypeInv, Fit, Servers, Next
<1>5. \A a1 \in up : a1.n \in Nat /\ a1.bits \in SUBSET Int
      BY DEF TypeInv, WireTypes, Ups
<1>6. win.newest \in Nat /\ win.mask \in SUBSET Nat
      BY DEF TypeInv, ClientTypes, Windows
<1> DEFINE Later(n) == <<srv.stream, n>> \in taken \/ n < srv'.floor
<1>7. \A n \in Int : Had(n) => Later(n)
      BY <1>3, <1>4 DEF Had
<1>8. win.stream = srv.stream => \A o \in win.mask : win.newest - o >= 0 => Later(win.newest - o)
      BY <1>6, <1>7 DEF AckInv
<1>9. \A x \in up : x.stream = srv.stream =>
         x.n < srv.seq /\ Later(x.n) /\ \A i \in x.bits : x.n - 1 - i >= 0 => Later(x.n - 1 - i)
      BY <1>5, <1>7 DEF AckInv
<1> QED BY <1>1, <1>3, <1>8, <1>9 DEF AckInv, Had

LEMMA AckNext == TypeInv /\ StreamInv /\ AckInv /\ FreshStreams /\ [Next]_vars => AckInv'
<1> SUFFICES ASSUME TypeInv, StreamInv, AckInv, FreshStreams, [Next]_vars PROVE AckInv'
    OBVIOUS
<1>1. CASE Tick
      BY <1>1, AckTick
<1>2. CASE Polls
      BY <1>2, AckPolls
<1>3. CASE \E d \in down : Deliver(d)
      BY <1>3, AckDeliver
<1>4. CASE \E a \in up : drain_inputs(a)
      BY <1>4, AckDrain
<1>5. CASE Dock \/ left_the_sector
      BY <1>5 DEF Dock, left_the_sector, AckInv, client, history
<1>6. CASE Seat
  <2>1. /\ seated = "home" /\ UNCHANGED <<down, up, win, taken>>
        /\ srv' = Seated(next_epoch(srv.stream), Len(events))
        BY <1>6 DEF Seat, client, history
  <2>2. srv'.retired = {} /\ srv'.stream = next_epoch(srv.stream)
        BY <2>1 DEF Seated
  <2>3. /\ \A d \in down : d.stream # srv'.stream
        /\ win.stream # srv'.stream
        /\ \A x \in up : x.stream # srv'.stream
        BY <2>1, <2>2 DEF FreshStreams
  <2>4. \A n \in Nat : <<srv'.stream, n>> \notin taken
        BY <2>1, <2>2 DEF AckInv
  <2>5. seated' = "flying"
        BY <1>6 DEF Seat
  <2> QED BY <2>1, <2>2, <2>3, <2>4, <2>5 DEF AckInv
<1>7. CASE UNCHANGED vars
      BY <1>7 DEF vars, client, history, AckInv, Had
<1> QED BY <1>1, <1>2, <1>3, <1>4, <1>5, <1>6, <1>7 DEF Next, Polls

(* The invariant of what is acked. *)
LEMMA AckAlways == Spec => ([]FreshStreams => [](TypeInv /\ StreamInv /\ AckInv))
<1>1. Init => TypeInv /\ StreamInv /\ AckInv
      BY InitTypes, StreamInit, AckInit
<1>2. TypeInv /\ StreamInv /\ AckInv /\ FreshStreams /\ [Next]_vars => (TypeInv /\ StreamInv /\ AckInv)'
      BY NextTypes, StreamNext, AckNext
<1> QED BY <1>1, <1>2, PTL DEF Spec

(* What the server takes for acked (ClientState::retire) the client took, on this seat's stream:
   sequence numbers expand to the datagrams they were cut from, and acks of other seats are
   told by their stream. *)
THEOREM NothingUntakenIsAcked == Spec => ([]FreshStreams => []AckedWasTaken)
<1>1. TypeInv /\ StreamInv /\ AckInv => AckedWasTaken
      BY AckImplies
<1> QED BY <1>1, AckAlways, PTL

-----------------------------------------------------------------------------
(* Within one round of the epochs every stream is fresh. *)
SeatsInv ==
    /\ srv.stream = seats /\ (seated # "flying" => seats < MaxEpoch)
    /\ \A x \in {win} \cup down \cup up : x.stream <= seats

LEMMA SeatsInit == Init => SeatsInv
<1> SUFFICES ASSUME Init PROVE SeatsInv
    OBVIOUS
<1>1. PICK s \in Starts :
          /\ srv = [Seated(1, 0) EXCEPT !.seq = s, !.floor = s]
          /\ win = IF s = 0 THEN NoWindow
                   ELSE [stream |-> 1, newest |-> s - 1, mask |-> {0}, tick |-> 1, any |-> TRUE]
      BY DEF Init
<1>2. srv.stream = 1
      BY <1>1 DEF Seated
<1>3. win.stream <= 1
      BY <1>1 DEF NoWindow, NoStream
<1> QED BY <1>2, <1>3 DEF Init, SeatsInv

LEMMA SeatsNext == ASSUME MaxSeats <= MaxEpoch PROVE TypeInv /\ SeatsInv /\ [Next]_vars => SeatsInv'
<1> SUFFICES ASSUME TypeInv, SeatsInv, [Next]_vars PROVE SeatsInv'
    OBVIOUS
<1>1. /\ win \in Windows /\ down \in SUBSET Downs /\ up \in SUBSET Ups
      /\ seats \in Nat /\ Fit(srv)
      BY DEF TypeInv, WorldTypes, WireTypes, ClientTypes
<1>2. CASE Tick
  <2>1. UNCHANGED <<seated, seats, up, win>> /\ srv'.stream = srv.stream
        BY <1>2, TickKeeps DEF Tick, client
  <2>2. \A d \in down' : d.stream <= seats
        BY <1>1, <1>2, TickKeeps DEF SeatsInv
  <2> QED BY <2>1, <2>2 DEF SeatsInv
<1>3. CASE Polls
  <2>1. PICK sets \in SUBSET (SUBSET Nat) : up' \in SUBSET (up \cup {Packet(cmds) : cmds \in sets})
        BY <1>3, PollIs
  <2>2. UNCHANGED <<seated, seats, srv, down, win>>
        BY <1>3, PollIs DEF client
  <2>3. \A cmds \in sets : Packet(cmds).stream = win.stream
        BY <1>1, PacketIs
  <2> QED BY <2>1, <2>2, <2>3 DEF SeatsInv
<1>4. CASE \E d \in down : Deliver(d)
  <2>1. PICK d \in down : Deliver(d)
        BY <1>4
  <2>2. /\ down' \in SUBSET down
        /\ UNCHANGED <<seated, seats, srv, up>>
        /\ UNCHANGED win \/ Takes(d, check(win, d))
        BY <2>1, DeliverIs DEF client
  <2>3. CASE UNCHANGED win
        BY <2>2, <2>3 DEF SeatsInv
  <2>4. CASE Takes(d, check(win, d))
    <3>1. win'.stream = d.stream
          BY <2>4 DEF Takes, commit
    <3> QED BY <2>2, <3>1 DEF SeatsInv
  <2> QED BY <2>2, <2>3, <2>4
<1>5. CASE \E a \in up : drain_inputs(a)
  <2>1. PICK a \in up : drain_inputs(a)
        BY <1>5
  <2>2. /\ UNCHANGED <<seated, seats, down, win>> /\ up' \in SUBSET up
        /\ srv' = srv \/ srv' = on_ack(a)
        BY <2>1 DEF drain_inputs, client
  <2>3. srv'.stream = srv.stream
        BY <1>1, <2>2, OnAckFits
  <2> QED BY <2>2, <2>3 DEF SeatsInv
<1>6. CASE Dock
  <2>1. seats < MaxSeats /\ UNCHANGED <<seats, srv, down, up, win>>
        BY <1>6 DEF Dock, client
  <2>2. seats < MaxEpoch
        BY <1>1, <2>1, ConstantsAre, ReplicationAssumption
  <2> QED BY <2>1, <2>2 DEF SeatsInv
<1>7. CASE left_the_sector
  <2>1. seated = "docked" /\ seated' = "home" /\ UNCHANGED <<seats, srv, down, up>> /\ win' = NoWindow
        BY <1>7 DEF left_the_sector
  <2> QED BY <1>1, <2>1 DEF SeatsInv, NoWindow, NoStream
<1>8. CASE Seat
  <2>1. seated = "home" /\ seated' = "flying" /\ seats' = seats + 1 /\ UNCHANGED <<down, up, win>>
        /\ srv' = Seated(next_epoch(srv.stream), Len(events))
        BY <1>8 DEF Seat, client
  <2>2. srv'.stream = next_epoch(srv.stream)
        BY <2>1 DEF Seated
  <2>3. srv'.stream = seats + 1
        BY <1>1, <2>1, <2>2, ConstantsAre DEF next_epoch, SeatsInv
  <2>4. win.stream <= seats + 1 /\ (\A d \in down : d.stream <= seats + 1) /\ \A a \in up : a.stream <= seats + 1
        BY <1>1 DEF SeatsInv, Windows, Downs, Ups
  <2> QED BY <2>1, <2>3, <2>4 DEF SeatsInv
<1>9. CASE UNCHANGED vars
      BY <1>9 DEF vars, client, SeatsInv
<1> QED BY <1>2, <1>3, <1>4, <1>5, <1>6, <1>7, <1>8, <1>9 DEF Next, Polls

(* Streams are fresh while the count of seats hasn't gone round the stream numbers once
   (next_epoch): stream numbers then go up with the seats. *)
THEOREM OneRoundIsFresh == ASSUME MaxSeats <= MaxEpoch PROVE Spec => []FreshStreams
<1>1. TypeInv /\ SeatsInv => FreshStreams
  <2> SUFFICES ASSUME TypeInv, SeatsInv, seated = "home"
               PROVE  \A x \in {win} \cup down \cup up : x.stream # next_epoch(srv.stream)
      BY DEF FreshStreams
  <2>1. seats \in Nat /\ next_epoch(srv.stream) = seats + 1
        BY ConstantsAre DEF TypeInv, WorldTypes, SeatsInv, next_epoch
  <2> QED BY <2>1 DEF SeatsInv
<1>2. Init => TypeInv /\ SeatsInv
      BY InitTypes, SeatsInit
<1>3. TypeInv /\ SeatsInv /\ [Next]_vars => (TypeInv /\ SeatsInv)'
      BY NextTypes, SeatsNext
<1> QED BY <1>1, <1>2, <1>3, PTL DEF Spec

-----------------------------------------------------------------------------
(* What the retirement of every datagram that was taken keeps, an ack keeps. *)
LEMMA OnAckKeeps ==
    ASSUME TypeInv, StreamInv, AckInv, seated = "flying", NEW a \in up, drain_inputs(a),
           NEW G, srv \in G,
           \A s \in G : \A n \in Nat :
              /\ Fit(s) /\ s.stream = srv.stream /\ s.seq = srv.seq /\ s.floor >= srv.floor
              /\ n < srv.seq /\ Retires(s, n) /\ <<srv.stream, n>> \in taken
              => retire(s, n) \in G
    PROVE  on_ack(a) \in G
<1>1. a \in Ups /\ Fit(srv) /\ srv.floor \in Nat
      BY DEF TypeInv, WireTypes, Fit, Servers
<1>2. CASE a.stream # srv.stream
      BY <1>1, <1>2, OnAckIs
<1>3. CASE a.stream = srv.stream
  <2>1. InReach(a.n, srv.seq - 1)
        BY <1>3 DEF drain_inputs
  <2>2. expand(a.seq, srv.seq - 1) = a.n /\ \A n \in Names(a, a.n) : n \in Nat => Had(n)
        BY <1>3, <2>1, AckRead
  <2> DEFINE H == {s \in G : Fit(s) /\ s.stream = srv.stream /\ s.seq = srv.seq /\ s.floor >= srv.floor}
  <2>3. srv \in H
        BY <1>1
  <2>4. ASSUME NEW s \in H, NEW n \in Names(a, a.n), n \in Nat, n < srv.seq
        PROVE  retire(s, n) \in H
    <3> DEFINE t == retire(s, n)
    <3>1. IsRetired(t, s, n)
          BY <2>4, RetireIs
    <3>2. CASE ~Retires(s, n)
          BY <2>4, <3>1, <3>2 DEF IsRetired
    <3>3. CASE Retires(s, n)
      <4>1. Fit(t) /\ t.stream = s.stream /\ t.seq = s.seq /\ t.floor = n + 1
            BY <3>1, <3>3 DEF IsRetired
      <4>2. n >= s.floor /\ s.floor \in Nat
            BY <3>3, <2>4 DEF Retires, Fit, Servers
      <4>3. <<srv.stream, n>> \in taken
            BY <1>1, <2>2, <2>4, <4>2 DEF Had
      <4>4. t \in G
            BY <2>4, <3>3, <4>3
      <4> HIDE DEF t
      <4>5. t \in H
            BY <1>1, <2>4, <4>1, <4>2, <4>4
      <4> QED BY <4>5 DEF t
    <3> QED BY <3>2, <3>3
  <2> HIDE DEF H
  <2>5. on_ack(a) \in H
        BY <1>1, <1>3, <2>2, <2>3, <2>4, OnAckStays
  <2> QED BY <2>5 DEF H
<1> QED BY <1>2, <1>3

(* What the sector makes of a packet from a client that isn't flying: nothing. *)
LEMMA DrainIs ==
    ASSUME NEW a \in up, drain_inputs(a)
    PROVE  /\ UNCHANGED <<world, tick, seated, seats, down, client, taken, heard, spilled>>
           /\ up' \in SUBSET up
           /\ seated = "flying" => srv' = on_ack(a) /\ named' = named \cup Timely(a)
           /\ seated # "flying" => srv' = srv /\ named' = named
BY DEF drain_inputs

-----------------------------------------------------------------------------
(* The client's window while it flies: nothing late of another stream gets in once a datagram
   of this seat has, and what it took of the seat is no newer than the newest. *)
WinInv ==
    /\ \A d \in down : d.tick <= tick
    /\ seated = "flying" =>
          /\ \A d \in down : d.stream # srv.stream =>
                /\ \A d0 \in down : d0.stream = srv.stream => d.tick < d0.tick
                /\ win.stream = srv.stream => d.tick <= win.tick
          /\ \A n \in Nat : <<srv.stream, n>> \in taken =>
                win.stream = srv.stream /\ n <= win.newest

LEMMA WinInit == Init => WinInv
BY DEF Init, WinInv

LEMMA WinDeliver ==
    ASSUME TypeInv, StreamInv, WinInv, NEW d \in down, Deliver(d)
    PROVE  WinInv'
<1>1. /\ d \in Downs /\ down \in SUBSET Downs /\ win \in Windows /\ d.n \in Nat /\ d.tick \in Nat
      /\ win.newest \in Nat /\ win.tick \in Nat /\ srv.stream # 0
      /\ \A x \in down : x.tick \in Nat
  <2>1. down \in SUBSET Downs /\ win \in Windows /\ srv.stream # 0
        BY DEF TypeInv, WireTypes, ClientTypes, Fit
  <2>2. \A x \in down : x.tick \in Nat /\ x.n \in Nat
        BY <2>1 DEF Downs
  <2>3. win.newest \in Nat /\ win.tick \in Nat
        BY <2>1 DEF Windows
  <2> QED BY <2>1, <2>2, <2>3
<1>2. /\ InTime(d) /\ down' = down \ {d}
      /\ UNCHANGED <<tick, seated, seats, srv, up>>
      /\ \/ UNCHANGED <<client, taken>>
         \/ Takes(d, check(win, d))
      BY DeliverIs
<1>3. CASE UNCHANGED <<client, taken>>
      BY <1>2, <1>3 DEF WinInv, client
<1>4. CASE Takes(d, check(win, d))
  <2> SUFFICES ASSUME seated = "flying" PROVE WinInv'
      BY <1>2 DEF WinInv
  <2> DEFINE verdict == check(win, d)
  <2>1. taken' = taken \cup {<<d.stream, d.n>>} /\ win' = commit(win, d, verdict) /\ verdict # Stale
        BY <1>4 DEF Takes
  <2>2. /\ verdict.n \in Nat
        /\ verdict.is = "next" => d.stream = win.stream
        /\ d.stream # win.stream => ~win.any \/ d.tick > win.tick
        BY <1>1, <2>1, CheckIs
  <2> HIDE DEF verdict
  <2>3. /\ win'.stream = d.stream /\ win'.newest = verdict.n
        /\ win'.tick = IF d.tick > win.tick THEN d.tick ELSE win.tick
        BY <1>1, <2>1, <2>2, CommitIs
  <2>4. CASE d.stream # srv.stream
    <3>1. win.stream # srv.stream
          BY <1>1, <2>2, <2>4 DEF WinInv, StreamInv
    <3>2. \A n \in Nat : <<srv.stream, n>> \notin taken'
          BY <2>1, <2>4, <3>1 DEF WinInv
    <3> QED BY <1>2, <2>3, <2>4, <3>2 DEF WinInv
  <2>5. CASE d.stream = srv.stream
    <3>1. /\ verdict.n = d.n
          /\ win.stream = d.stream => win.newest < d.n
          BY <1>2, <2>1, <2>5, TakenIs DEF verdict
    <3>2. ASSUME NEW n \in Nat, <<srv.stream, n>> \in taken' PROVE n <= win'.newest
          BY <1>1, <2>1, <2>3, <2>5, <3>1, <3>2 DEF WinInv
    <3>3. ASSUME NEW x \in down', x.stream # srv.stream PROVE x.tick <= win'.tick
      <4>1. x \in down /\ x.tick < d.tick
            BY <1>2, <2>5, <3>3 DEF WinInv
      <4> QED BY <1>1, <2>3, <4>1
    <3> QED BY <1>2, <2>3, <2>5, <3>2, <3>3 DEF WinInv
  <2> QED BY <2>4, <2>5
<1> QED BY <1>2, <1>3, <1>4

LEMMA WinNext == TypeInv /\ StreamInv /\ AckInv /\ WinInv /\ FreshStreams /\ [Next]_vars => WinInv'
<1> SUFFICES ASSUME TypeInv, StreamInv, AckInv, WinInv, FreshStreams, [Next]_vars PROVE WinInv'
    OBVIOUS
<1>1. /\ win \in Windows /\ down \in SUBSET Downs /\ tick \in Nat /\ win.tick \in Nat
      /\ \A x \in down : x.tick \in Nat
      BY DEF TypeInv, WorldTypes, WireTypes, ClientTypes, Downs, Windows
<1>2. CASE Tick
  <2>1. UNCHANGED <<seated, taken, win>> /\ srv'.stream = srv.stream /\ tick' = tick + 1
        BY <1>2, TickKeeps DEF Tick, client
  <2>2. \A d \in down' : d \in down \/ (d.stream = srv.stream /\ d.tick = tick + 1)
        BY <1>2, TickKeeps
  <2>3. \A d \in down' : d.tick <= tick'
        BY <1>1, <2>1, <2>2 DEF WinInv
  <2>4. seated = "flying" =>
          \A d \in down' : d.stream # srv.stream =>
                /\ \A d0 \in down' : d0.stream = srv.stream => d.tick < d0.tick
                /\ win.stream = srv.stream => d.tick <= win.tick
    <3> SUFFICES ASSUME seated = "flying", NEW d \in down', d.stream # srv.stream
                 PROVE  /\ \A d0 \in down' : d0.stream = srv.stream => d.tick < d0.tick
                        /\ win.stream = srv.stream => d.tick <= win.tick
        OBVIOUS
    <3>1. d \in down /\ d.tick <= tick
          BY <2>2 DEF WinInv
    <3>2. ASSUME NEW d0 \in down', d0.stream = srv.stream PROVE d.tick < d0.tick
          BY <1>1, <2>2, <3>1, <3>2 DEF WinInv
    <3> QED BY <3>1, <3>2 DEF WinInv
  <2> QED BY <2>1, <2>3, <2>4 DEF WinInv
<1>3. CASE Polls
      BY <1>3, PollIs DEF WinInv, client, history
<1>4. CASE \E d \in down : Deliver(d)
      BY <1>4, WinDeliver
<1>5. CASE \E a \in up : drain_inputs(a)
  <2>1. PICK a \in up : drain_inputs(a)
        BY <1>5
  <2>2. UNCHANGED <<tick, seated, down, taken, win>> /\ (srv' = srv \/ srv' = on_ack(a))
        BY <2>1, DrainIs DEF client
  <2>3. srv'.stream = srv.stream
        BY <2>2, OnAckFits DEF TypeInv, WireTypes
  <2> QED BY <2>2, <2>3 DEF WinInv
<1>6. CASE Dock \/ left_the_sector
      BY <1>6 DEF Dock, left_the_sector, WinInv
<1>7. CASE Seat
  <2>1. /\ seated = "home" /\ UNCHANGED <<down, taken, win, tick>>
        /\ srv' = Seated(next_epoch(srv.stream), Len(events))
        BY <1>7 DEF Seat, client, history
  <2>2. srv'.stream = next_epoch(srv.stream)
        BY <2>1 DEF Seated
  <2>3. /\ \A d \in down : d.stream # srv'.stream
        /\ win.stream # srv'.stream
        /\ \A n \in Nat : <<srv'.stream, n>> \notin taken
        BY <2>1, <2>2 DEF FreshStreams, AckInv
  <2> QED BY <2>1, <2>3 DEF WinInv
<1>8. CASE UNCHANGED vars
      BY <1>8 DEF vars, client, history, WinInv
<1> QED BY <1>2, <1>3, <1>4, <1>5, <1>6, <1>7, <1>8 DEF Next, Polls

-----------------------------------------------------------------------------
(* A tick, by what the sector writes: its first datagram d, a further one m if there's more,
   and their records in the ring. *)
RecordFor(x, done) ==
    [n |-> x.n, done |-> done, leaves |-> Len(x.leaves), obj |-> x.obj,
     ents |-> IF x.suit THEN {[nth |-> x.nth, tick |-> x.tick]} ELSE {}]

Writes(d, m, more, done) ==
    /\ d \in Downs /\ d.stream = srv.stream /\ d.n = srv.seq /\ d.tick = tick + 1
    /\ ~d.more /\ d.nth = srv.sends
    /\ d.base = IF d.suit THEN baseline(srv, tick + 1) ELSE 0
    /\ m \in Downs /\ m.stream = srv.stream /\ m.n = srv.seq + 1 /\ m.tick = tick + 1
    /\ m.more /\ m.suit /\ m.leaves = <<>> /\ m.events = {} /\ m.obj = Nothing
    /\ more => m.nth = srv.sends /\ ~d.suit /\ m.base = baseline(srv, tick + 1)
    /\ d.suit \/ more => sight'
    /\ sight' \in BOOLEAN
Tells(d, done) ==
    /\ done \in Nat /\ done <= Len(events') /\ events' \in Seq(Nat)
    /\ \A e \in srv.event_acked + 1 .. done : e \in d.events \/ tick + 1 - events'[e] > EventMaxAge
Notices(d) ==
    /\ srv'.leaves = IF srv.known /\ ~sight' /\ Len(srv.leaves) < LeaveQueue
                     THEN Append(srv.leaves, tick + 1) ELSE srv.leaves
    /\ Len(d.leaves) <= Len(srv'.leaves) /\ d.leaves = SubSeq(srv'.leaves, 1, Len(d.leaves))
Books(d, m, more, done) ==
    /\ (srv'.known <=> (srv.known /\ sight') \/ d.suit \/ more)
    /\ srv'.sends = IF d.suit \/ more THEN srv.sends + 1 ELSE srv.sends
    /\ srv'.seq = IF more THEN srv.seq + 2 ELSE srv.seq + 1
    /\ down' \in SUBSET (down \cup {d} \cup (IF more THEN {m} ELSE {}))
    /\ \A k \in 0 .. SentRing - 1 :
          \/ /\ k # srv.seq % SentRing /\ (more => k # (srv.seq + 1) % SentRing)
             /\ srv'.sent[k] = srv.sent[k]
          \/ /\ k = srv.seq % SentRing /\ (more => k # (srv.seq + 1) % SentRing)
             /\ srv'.sent[k] = RecordFor(d, done)
          \/ more /\ k = (srv.seq + 1) % SentRing /\ srv'.sent[k] = RecordFor(m, 0)

LEMMA TickWrites ==
    ASSUME TypeInv, Tick
    PROVE  \E d, m \in Downs, more \in BOOLEAN, done \in Nat :
              Writes(d, m, more, done) /\ Tells(d, done) /\ Notices(d) /\ Books(d, m, more, done)
<1>1. PICK s \in Servers, evs \in Seq(Nat), suit \in BOOLEAN, more \in BOOLEAN, obj \in Objs,
           done \in Nat, d \in Downs, m \in Downs, s1 \in Servers :
              /\ s = Noticed(srv, sight', tick + 1) /\ Fit(s) /\ evs = events' /\ sight' \in BOOLEAN
              /\ \E k \in 0 .. Len(s.leaves), unfit \in SUBSET Pending(s, evs, tick + 1) :
                    /\ done = DoneWith(unfit, evs)
                    /\ Snapshot(d, s, tick + 1, evs, k, unfit, suit, obj)
              /\ s1 = Sent(s, d, done) /\ Fit(s1)
              /\ Further(m, s1, tick + 1)
              /\ suit \/ more => sight'
              /\ ~(suit /\ more)
              /\ srv' = IF more THEN Sent(s1, m, 0) ELSE s1
              /\ down' \in SUBSET (down \cup {d} \cup (IF more THEN {m} ELSE {}))
      BY TickIs
<1>2. PICK k \in 0 .. Len(s.leaves), unfit \in SUBSET Pending(s, evs, tick + 1) :
         /\ done = DoneWith(unfit, evs)
         /\ Snapshot(d, s, tick + 1, evs, k, unfit, suit, obj)
      BY <1>1
<1>3. Fit(srv) /\ tick \in Nat /\ tick + 1 \in Nat
      BY DEF TypeInv, WorldTypes
<1>4. IsNoticed(s, srv, sight', tick + 1)
      BY <1>1, <1>3, NoticedIs
<1>5. IsSent(s1, s, d, done)
      BY <1>1, SentIs
<1> DEFINE u == Sent(s1, m, 0)
<1>6. IsSent(u, s1, m, 0)
      BY <1>1, SentIs
<1> HIDE DEF u
<1>7. srv' = IF more THEN u ELSE s1
      BY <1>1 DEF u
<1>8. /\ d.stream = s.stream /\ d.n = s.seq /\ d.tick = tick + 1 /\ ~d.more
      /\ d.leaves = SubSeq(s.leaves, 1, k) /\ Len(d.leaves) = k
      /\ d.events = Pending(s, evs, tick + 1) \ unfit /\ (d.suit <=> suit)
      /\ d.nth = s.sends /\ d.base = IF suit THEN baseline(s, tick + 1) ELSE 0
      BY <1>2 DEF Snapshot
<1>9. /\ m.stream = s1.stream /\ m.n = s1.seq /\ m.tick = tick + 1
      /\ m.more /\ m.leaves = <<>> /\ m.events = {} /\ m.suit
      /\ m.nth = s1.sends /\ m.base = baseline(s1, tick + 1) /\ m.obj = Nothing
      BY <1>1 DEF Further
<1>10. srv.seq \in Nat /\ srv.sends \in Nat /\ srv.event_acked \in Nat /\ Len(evs) \in Nat
       BY <1>3 DEF Fit, Servers
<1>11. /\ s.stream = srv.stream /\ s.seq = srv.seq /\ s.sends = srv.sends /\ s.base = srv.base
       /\ s.event_acked = srv.event_acked /\ s.sent = srv.sent
       BY <1>4 DEF IsNoticed
<1>12. /\ s1.stream = srv.stream /\ s1.seq = srv.seq + 1 /\ s1.base = srv.base
       /\ (more => s1.sends = srv.sends)
       BY <1>1, <1>5, <1>8, <1>11 DEF IsSent
<1>13. Writes(d, m, more, done)
  <2>1. baseline(s, tick + 1) = baseline(srv, tick + 1)
        BY <1>11 DEF baseline
  <2>2. more => baseline(s1, tick + 1) = baseline(srv, tick + 1)
        BY <1>12 DEF baseline
  <2>3. more => m.nth = srv.sends /\ ~d.suit /\ m.base = baseline(srv, tick + 1)
        BY <1>1, <1>8, <1>9, <1>12, <2>2
  <2>4. m.stream = srv.stream /\ m.n = srv.seq + 1
        BY <1>9, <1>12
  <2>5. /\ d.stream = srv.stream /\ d.n = srv.seq /\ d.nth = srv.sends
        /\ d.base = IF d.suit THEN baseline(srv, tick + 1) ELSE 0
        BY <1>8, <1>11, <2>1
  <2> QED BY <1>1, <1>8, <1>9, <2>3, <2>4, <2>5 DEF Writes
<1>14. Tells(d, done)
  <2>1. done <= Len(evs) /\ \A e \in unfit : done < e
        BY <1>1, <1>2, PendingIs
  <2>2. ASSUME NEW e \in srv.event_acked + 1 .. done, ~(tick + 1 - evs[e] > EventMaxAge)
        PROVE  e \in d.events
    <3>1. e \in s.event_acked + 1 .. Len(evs) /\ e \notin unfit /\ e \in 1 .. Len(evs)
      <4>1. e \in Int /\ srv.event_acked + 1 <= e /\ e <= done
            BY <1>10
      <4> QED BY <1>10, <1>11, <2>1, <4>1, SMTT(30)
    <3>2. evs[e] \in Nat /\ tick \in Nat /\ EventMaxAge \in Nat
      <4>1. EventMaxAge \in Nat
            BY ReplicationAssumption
      <4>2. evs[e] \in Nat
            BY <3>1
      <4> QED BY <1>3, <4>1, <4>2
    <3>3. tick + 1 - evs[e] <= EventMaxAge
          BY <2>2, <3>2
    <3>4. e \in Pending(s, evs, tick + 1)
          BY <3>1, <3>2, <3>3 DEF Pending
    <3>5. d.events = Pending(s, evs, tick + 1) \ unfit
          BY <1>8
    <3> QED BY <3>1, <3>4, <3>5
  <2> QED BY <1>1, <2>1, <2>2 DEF Tells
<1>15. srv'.leaves = s.leaves
       BY <1>5, <1>6, <1>7 DEF IsSent
<1>16. Notices(d)
  <2>1. s.leaves = IF srv.known /\ ~sight' /\ Len(srv.leaves) < LeaveQueue
                   THEN Append(srv.leaves, tick + 1) ELSE srv.leaves
        BY <1>4 DEF IsNoticed
  <2>2. Len(d.leaves) <= Len(s.leaves) /\ d.leaves = SubSeq(s.leaves, 1, Len(d.leaves))
    <3>1. Len(s.leaves) \in Nat
      <4>1. s.leaves \in Seq(Nat)
            BY DEF Servers
      <4> QED BY <4>1
    <3>2. Len(d.leaves) = k /\ k \in 0 .. Len(s.leaves)
          BY <1>2, <1>8
    <3>3. Len(d.leaves) <= Len(s.leaves)
          BY <3>1, <3>2
    <3> QED BY <1>8, <3>2, <3>3
  <2> QED BY <1>15, <2>1, <2>2 DEF Notices
<1>17. Books(d, m, more, done)
  <2>1. s1.known <=> (srv.known /\ sight') \/ d.suit
        BY <1>4, <1>5 DEF IsNoticed, IsSent
  <2>2. u.known <=> s1.known \/ m.suit
        BY <1>6 DEF IsSent
  <2>3. srv'.known <=> (srv.known /\ sight') \/ d.suit \/ more
        BY <1>7, <1>9, <2>1, <2>2
  <2>4. s1.sends = IF d.suit THEN srv.sends + 1 ELSE srv.sends
        BY <1>5, <1>11 DEF IsSent
  <2>5. u.sends = s1.sends + 1 /\ u.seq = s1.seq + 1
        BY <1>6, <1>9 DEF IsSent
  <2>6. srv'.sends = IF d.suit \/ more THEN srv.sends + 1 ELSE srv.sends
        BY <1>1, <1>7, <1>8, <2>4, <2>5
  <2>7. srv'.seq = IF more THEN srv.seq + 2 ELSE srv.seq + 1
        BY <1>7, <1>10, <1>12, <2>5
  <2>8. RecordOf(s, d, done) = RecordFor(d, done) /\ RecordOf(s1, m, 0) = RecordFor(m, 0)
        BY <1>8, <1>9 DEF RecordOf, RecordFor
  <2>9. s1.sent = [srv.sent EXCEPT ![srv.seq % SentRing] = RecordFor(d, done)]
        BY <1>5, <1>11, <2>8 DEF IsSent
  <2>10. u.sent = [s1.sent EXCEPT ![(srv.seq + 1) % SentRing] = RecordFor(m, 0)]
        BY <1>6, <1>12, <2>8 DEF IsSent
  <2>11. DOMAIN srv.sent = 0 .. SentRing - 1 /\ DOMAIN s1.sent = 0 .. SentRing - 1
        BY <1>1, <1>3 DEF Fit, Servers, Rings
  <2>12. ASSUME NEW j \in 0 .. SentRing - 1
         PROVE  \/ /\ j # srv.seq % SentRing /\ (more => j # (srv.seq + 1) % SentRing)
                   /\ srv'.sent[j] = srv.sent[j]
                \/ /\ j = srv.seq % SentRing /\ (more => j # (srv.seq + 1) % SentRing)
                   /\ srv'.sent[j] = RecordFor(d, done)
                \/ more /\ j = (srv.seq + 1) % SentRing /\ srv'.sent[j] = RecordFor(m, 0)
    <3> DEFINE k0 == srv.seq % SentRing
               k1 == (srv.seq + 1) % SentRing
               q == RecordFor(d, done)
               r == RecordFor(m, 0)
    <3> HIDE DEF k0, k1, q, r
    <3>1. s1.sent[j] = IF j = k0 THEN q ELSE srv.sent[j]
          BY <2>9, <2>11 DEF k0, q
    <3>2. u.sent[j] = IF j = k1 THEN r ELSE s1.sent[j]
          BY <2>10, <2>11 DEF k1, r
    <3>3. srv'.sent[j] = IF more THEN u.sent[j] ELSE s1.sent[j]
          BY <1>7
    <3> QED BY <3>1, <3>2, <3>3 DEF k0, k1, q, r
  <2> QED BY <1>1, <2>3, <2>6, <2>7, <2>12 DEF Books
<1> QED BY <1>13, <1>14, <1>16, <1>17

-----------------------------------------------------------------------------
(* An event that needn't be told again, and what the sector has in hand to tell: what a record
   counts as done with is told if its datagram was taken, and in it or told while it's in
   flight. *)
Told(e) == e \in heard \/ (e <= Len(events) /\ tick - events[e] > EventMaxAge)

HeardRecord(r) ==
    /\ r.done <= Len(events)
    /\ r.done # 0 => r.n < srv.seq
    /\ \A e \in srv.joined + 1 .. r.done :
          /\ <<srv.stream, r.n>> \in taken => Told(e)
          /\ \A d \in down : d.stream = srv.stream /\ d.n = r.n => Told(e) \/ e \in d.events

HeardInv ==
    /\ srv.event_acked <= Len(events)
    /\ \A e \in srv.joined + 1 .. srv.event_acked : Told(e)
    /\ \A k \in 0 .. SentRing - 1 : HeardRecord(srv.sent[k])

LEMMA HeardImplies == HeardInv => EventsHeard
BY DEF HeardInv, EventsHeard, Told

(* With nothing in the ring there's nothing to account for. *)
LEMMA BlankHeard == ASSUME NEW r, r = Blank, srv.joined \in Nat, Len(events) \in Nat PROVE HeardRecord(r)
BY DEF Blank, HeardRecord

LEMMA HeardInit == Init => HeardInv
<1> SUFFICES ASSUME Init PROVE HeardInv
    OBVIOUS
<1>1. PICK s \in Starts : srv = [Seated(1, 0) EXCEPT !.seq = s, !.floor = s]
      BY DEF Init
<1>2. /\ srv.event_acked = 0 /\ srv.joined = 0
      /\ srv.sent = [k \in 0 .. SentRing - 1 |-> Blank]
      BY <1>1 DEF Seated
<1>3. events = <<>> /\ Len(events) = 0
      BY DEF Init
<1>4. \A k \in 0 .. SentRing - 1 : srv.sent[k] = Blank
      BY <1>2
<1> QED BY <1>2, <1>3, <1>4, BlankHeard DEF HeardInv

LEMMA EventsGrow ==
    ASSUME TypeInv, Tick
    PROVE  /\ events' \in Seq(Nat) /\ Len(events) \in Nat /\ Len(events') \in Nat
           /\ Len(events) <= Len(events')
           /\ \A e \in 1 .. Len(events) : events'[e] = events[e] /\ events[e] \in Nat
<1>1. events \in Seq(Nat) /\ tick \in Nat
      BY DEF TypeInv, WorldTypes
<1> DEFINE t == tick + 1
<1>2. t \in Nat
      BY <1>1
<1>3. Step(t)
      BY DEF Tick
<1> HIDE DEF t
<1>4. events' = events \/ events' = Append(events, t)
      BY <1>3 DEF Step
<1>5. /\ Append(events, t) \in Seq(Nat) /\ Len(Append(events, t)) = Len(events) + 1
      /\ \A e \in 1 .. Len(events) : Append(events, t)[e] = events[e] /\ events[e] \in Nat
      BY <1>1, <1>2
<1>6. CASE events' = events
      BY <1>1, <1>6
<1>7. CASE events' = Append(events, t)
  <2> DEFINE more == Append(events, t)
  <2> HIDE DEF more
  <2>1. /\ more \in Seq(Nat) /\ Len(more) = Len(events) + 1 /\ Len(events) \in Nat
        /\ \A e \in 1 .. Len(events) : more[e] = events[e] /\ events[e] \in Nat
        BY <1>1, <1>5 DEF more
  <2> QED BY <1>7, <2>1 DEF more
<1> QED BY <1>4, <1>6, <1>7

LEMMA HeardTick == ASSUME TypeInv, AckInv, HeardInv, Tick PROVE HeardInv'
<1>1. PICK d \in Downs, m \in Downs, more \in BOOLEAN, done \in Nat :
         Writes(d, m, more, done) /\ Tells(d, done) /\ Books(d, m, more, done)
      BY TickWrites
<1>2. /\ srv.joined \in Nat /\ srv.event_acked \in Nat /\ srv.seq \in Nat /\ tick \in Nat
      /\ EventMaxAge \in Nat /\ \A k \in 0 .. SentRing - 1 : srv.sent[k] \in Recs
      /\ \A x \in down : x.n \in Nat
      BY ReplicationAssumption DEF TypeInv, WorldTypes, WireTypes, Fit, Servers, Rings, Downs
<1>3. /\ seated = "flying" /\ tick' = tick + 1 /\ UNCHANGED <<seated, heard, taken>>
      /\ srv'.stream = srv.stream /\ srv'.joined = srv.joined /\ srv'.event_acked = srv.event_acked
      /\ srv'.seq \in Nat /\ srv.seq < srv'.seq
      BY TickKeeps DEF Tick
<1>4. ASSUME NEW e \in Nat, 1 <= e, Told(e) PROVE Told(e)'
  <2>1. CASE e \in heard
        BY <1>3, <2>1 DEF Told
  <2>2. CASE e <= Len(events) /\ tick - events[e] > EventMaxAge
    <3>1. e \in 1 .. Len(events)
          BY <1>4, <2>2, EventsGrow
    <3>2. events'[e] = events[e] /\ events[e] \in Nat /\ e <= Len(events')
          BY <3>1, EventsGrow
    <3>3. tick' - events'[e] > EventMaxAge
          BY <1>2, <1>3, <2>2, <3>2
    <3> QED BY <3>2, <3>3 DEF Told
  <2> QED BY <1>4, <2>1, <2>2 DEF Told
<1>5. ASSUME NEW e \in srv.joined + 1 .. srv.event_acked PROVE Told(e)'
      BY <1>2, <1>4, <1>5 DEF HeardInv
<1>6. ASSUME NEW k \in 0 .. SentRing - 1
      PROVE  /\ srv'.sent[k].done <= Len(events')
             /\ srv'.sent[k].done # 0 => srv'.sent[k].n < srv'.seq
             /\ \A e \in srv'.joined + 1 .. srv'.sent[k].done :
                   /\ <<srv'.stream, srv'.sent[k].n>> \in taken' => Told(e)'
                   /\ \A x \in down' : x.stream = srv'.stream /\ x.n = srv'.sent[k].n =>
                         Told(e)' \/ e \in x.events
  <2>1. PICK r : r = srv'.sent[k]
        OBVIOUS
  <2>2. \/ r = srv.sent[k] \/ r = RecordFor(d, done) \/ r = RecordFor(m, 0)
        BY <1>1, <2>1 DEF Books
  <2>3. \A x \in down' : x \in down \/ x = d \/ x = m
        BY <1>1 DEF Books
  <2>4. d.n = srv.seq /\ m.n = srv.seq + 1
        BY <1>1 DEF Writes
  <2>5. CASE r = srv.sent[k]
    <3>1. HeardRecord(r) /\ r \in Recs
          BY <1>2, <2>5 DEF HeardInv
    <3>2. r.done <= Len(events') /\ (r.done # 0 => r.n < srv.seq)
          BY <3>1, EventsGrow DEF HeardRecord, Recs
    <3>3. ASSUME NEW e \in srv.joined + 1 .. r.done
          PROVE  /\ <<srv.stream, r.n>> \in taken => Told(e)'
                 /\ \A x \in down' : x.stream = srv.stream /\ x.n = r.n => Told(e)' \/ e \in x.events
      <4>1. e \in Nat /\ 1 <= e /\ r.done # 0 /\ r.n < srv.seq /\ r.n \in Nat
            BY <1>2, <3>1, <3>2 DEF Recs
      <4>2. ASSUME NEW x \in down', x.stream = srv.stream, x.n = r.n PROVE Told(e)' \/ e \in x.events
        <5>1. x \in down
              BY <1>2, <2>3, <2>4, <4>1, <4>2
        <5>2. Told(e) \/ e \in x.events
              BY <3>1, <4>2, <5>1 DEF HeardRecord
        <5> QED BY <1>4, <4>1, <5>2
      <4>3. <<srv.stream, r.n>> \in taken => Told(e)
            BY <3>1 DEF HeardRecord
      <4> QED BY <1>4, <4>1, <4>2, <4>3
    <3>4. r.done # 0 => r.n < srv'.seq
          BY <1>2, <1>3, <3>1, <3>2 DEF Recs
    <3> QED BY <1>3, <2>1, <3>2, <3>3, <3>4
  <2>6. CASE r = RecordFor(d, done)
    <3>1. r.n = srv.seq /\ r.done = done
          BY <2>4, <2>6 DEF RecordFor
    <3>2. done <= Len(events')
          BY <1>1 DEF Tells
    <3>3. <<srv.stream, r.n>> \notin taken
          BY <1>2, <1>3, <3>1 DEF AckInv
    <3>4. ASSUME NEW e \in srv.joined + 1 .. done,
                 NEW x \in down', x.stream = srv.stream, x.n = r.n
          PROVE  Told(e)' \/ e \in x.events
      <4>1. x = d
        <5>1. x \notin down
              BY <1>2, <1>3, <3>1, <3>4 DEF AckInv
        <5> QED BY <1>2, <2>3, <2>4, <3>1, <3>4, <5>1
      <4>2. CASE e <= srv.event_acked
            BY <1>2, <1>5, <4>2
      <4>3. CASE ~(e <= srv.event_acked)
        <5>1. e \in srv.event_acked + 1 .. done
              BY <1>2, <4>3
        <5>2. e \in d.events \/ tick + 1 - events'[e] > EventMaxAge
              BY <1>1, <5>1 DEF Tells
        <5>3. e \in 1 .. Len(events') /\ events'[e] \in Nat
          <6>1. e \in 1 .. Len(events')
                BY <1>2, <3>2, <5>1
          <6>2. events' \in Seq(Nat)
                BY EventsGrow
          <6> QED BY <6>1, <6>2
        <5>4. tick + 1 - events'[e] > EventMaxAge => tick' - events'[e] > EventMaxAge
              BY <1>2, <1>3, <5>3
        <5>5. tick + 1 - events'[e] > EventMaxAge => Told(e)'
              BY <5>3, <5>4 DEF Told
        <5> QED BY <4>1, <5>2, <5>5
      <4> QED BY <4>2, <4>3
    <3> QED BY <1>3, <2>1, <3>1, <3>2, <3>3, <3>4
  <2>7. CASE r = RecordFor(m, 0)
    <3>1. r.done = 0
          BY <2>7 DEF RecordFor
    <3> QED BY <1>2, <1>3, <2>1, <3>1, EventsGrow
  <2> QED BY <2>2, <2>5, <2>6, <2>7
<1>7. srv'.event_acked <= Len(events')
      BY <1>2, <1>3, EventsGrow DEF HeardInv
<1>8. \A e \in srv'.joined + 1 .. srv'.event_acked : Told(e)'
      BY <1>3, <1>5
<1> QED BY <1>6, <1>7, <1>8 DEF HeardInv, HeardRecord

LEMMA HeardDeliver == ASSUME TypeInv, HeardInv, NEW d \in down, Deliver(d) PROVE HeardInv'
<1>1. /\ down' = down \ {d} /\ UNCHANGED <<world, tick, srv>>
      /\ \/ UNCHANGED <<taken, heard>>
         \/ taken' = taken \cup {<<d.stream, d.n>>} /\ heard' = heard \cup d.events
      BY DeliverIs DEF Takes
<1>2. UNCHANGED events
      BY <1>1 DEF world
<1>3. \A e : Told(e) => Told(e)'
      BY <1>1, <1>2 DEF Told
<1>4. ASSUME NEW k \in 0 .. SentRing - 1 PROVE HeardRecord(srv.sent[k])'
  <2>1. PICK r : r = srv.sent[k]
        OBVIOUS
  <2>2. HeardRecord(r)
        BY <2>1 DEF HeardInv
  <2>3. ASSUME NEW e \in srv.joined + 1 .. r.done
        PROVE  /\ <<srv.stream, r.n>> \in taken' => Told(e)'
               /\ \A x \in down' : x.stream = srv.stream /\ x.n = r.n => Told(e)' \/ e \in x.events
    <3>1. \A x \in down : x.stream = srv.stream /\ x.n = r.n => Told(e) \/ e \in x.events
          BY <2>2 DEF HeardRecord
    <3>2. <<srv.stream, r.n>> \in taken => Told(e)
          BY <2>2 DEF HeardRecord
    <3>3. ASSUME <<srv.stream, r.n>> \in taken', <<srv.stream, r.n>> \notin taken PROVE Told(e)'
      <4>1. d.stream = srv.stream /\ d.n = r.n /\ heard' = heard \cup d.events
            BY <1>1, <3>3
      <4>2. Told(e) \/ e \in d.events
            BY <3>1, <4>1
      <4> QED BY <1>3, <4>1, <4>2 DEF Told
    <3> QED BY <1>1, <1>3, <3>1, <3>2, <3>3
  <2> QED BY <1>1, <1>2, <2>1, <2>2, <2>3 DEF HeardRecord
<1> QED BY <1>1, <1>2, <1>3, <1>4 DEF HeardInv

LEMMA HeardDrain ==
    ASSUME TypeInv, StreamInv, AckInv, HeardInv, NEW a \in up, drain_inputs(a)
    PROVE  HeardInv'
<1>1. /\ UNCHANGED <<world, tick, down, taken, heard>>
      /\ seated = "flying" => srv' = on_ack(a)
      /\ seated # "flying" => srv' = srv
      BY DrainIs
<1>2. UNCHANGED events
      BY <1>1 DEF world
<1>3. CASE srv' = srv
      BY <1>1, <1>2, <1>3 DEF HeardInv, HeardRecord, Told
<1>4. CASE seated = "flying"
  <2> DEFINE Same(s, k) == s.sent[k].n = srv.sent[k].n /\ s.sent[k].done = srv.sent[k].done
             G == {s \in Servers :
                     /\ s.stream = srv.stream /\ s.joined = srv.joined /\ s.seq = srv.seq
                     /\ s.event_acked <= Len(events)
                     /\ \A e \in srv.joined + 1 .. s.event_acked : Told(e)
                     /\ \A k \in 0 .. SentRing - 1 : Same(s, k)}
  <2>1. srv \in G
        BY DEF TypeInv, Fit, HeardInv
  <2>2. ASSUME NEW s \in G, NEW n \in Nat, Fit(s), n < srv.seq, Retires(s, n),
               <<srv.stream, n>> \in taken
        PROVE  retire(s, n) \in G
    <3> DEFINE t == retire(s, n)
               k0 == n % SentRing
               r == s.sent[k0]
    <3>1. IsRetired(t, s, n)
          BY <2>2, RetireIs
    <3>2. /\ t \in Servers /\ t.stream = s.stream /\ t.joined = s.joined /\ t.seq = s.seq
          /\ r \in Recs /\ k0 \in 0 .. SentRing - 1
          /\ t.event_acked = IF r.done > s.event_acked THEN r.done ELSE s.event_acked
          /\ t.sent = Shifted(s.sent, n, Least(r.leaves, Len(s.leaves)))
          BY <2>2, <3>1 DEF IsRetired, Fit
    <3>3. r.n = n
          BY <2>2 DEF Retires
    <3>4. HeardRecord(srv.sent[k0]) /\ Same(s, k0)
          BY <3>2 DEF HeardInv
    <3>5. r.done <= Len(events) /\ \A e \in srv.joined + 1 .. r.done : Told(e)
          BY <2>2, <3>3, <3>4 DEF HeardRecord
    <3>6. Least(r.leaves, Len(s.leaves)) \in Nat /\ s.sent \in Rings
      <4>1. s.sent \in Rings /\ s.leaves \in Seq(Nat)
            BY DEF Servers
      <4>2. Len(s.leaves) \in Nat
            BY <4>1
      <4>3. r.leaves \in Nat
        <5> HIDE DEF r
        <5> QED BY <3>2 DEF Recs
      <4> QED BY <4>1, <4>2, <4>3 DEF Least
    <3>7. \A k \in 0 .. SentRing - 1 : t.sent[k].n = s.sent[k].n /\ t.sent[k].done = s.sent[k].done
      <4> DEFINE l == Least(r.leaves, Len(s.leaves))
      <4> HIDE DEF l, t, r
      <4>1. t.sent = Shifted(s.sent, n, l) /\ l \in Nat
            BY <3>2, <3>6 DEF l
      <4> DEFINE ring == s.sent
      <4>2. ring \in Rings
            BY <3>6
      <4> HIDE DEF ring
      <4>3. \A k \in 0 .. SentRing - 1 :
               Shifted(ring, n, l)[k].n = ring[k].n /\ Shifted(ring, n, l)[k].done = ring[k].done
            BY <4>1, <4>2, ShiftedIs
      <4> QED BY <4>1, <4>3 DEF ring
    <3>8. \A k \in 0 .. SentRing - 1 : Same(t, k)
          BY <3>7
    <3> HIDE DEF t, r, k0, Same
    <3> QED BY <3>2, <3>5, <3>8 DEF t
  <2> HIDE DEF G
  <2>3. on_ack(a) \in G
        BY <1>4, <2>1, <2>2, OnAckKeeps
  <2>4. PICK s \in Servers : s = srv' /\ s \in G
        BY <1>1, <1>4, <2>3 DEF G
  <2>5. /\ srv'.stream = srv.stream /\ srv'.joined = srv.joined /\ srv'.seq = srv.seq
        /\ srv'.event_acked <= Len(events)
        /\ \A e \in srv.joined + 1 .. srv'.event_acked : Told(e)
        /\ \A k \in 0 .. SentRing - 1 :
              srv'.sent[k].n = srv.sent[k].n /\ srv'.sent[k].done = srv.sent[k].done
        BY <2>4 DEF G
  <2>6. \A e : Told(e)' <=> Told(e)
        BY <1>1, <1>2 DEF Told
  <2>7. ASSUME NEW k \in 0 .. SentRing - 1 PROVE HeardRecord(srv.sent[k])'
    <3>1. HeardRecord(srv.sent[k])
          BY DEF HeardInv
    <3> QED BY <1>1, <1>2, <2>5, <2>6, <3>1 DEF HeardRecord
  <2> QED BY <1>1, <1>2, <2>5, <2>6, <2>7 DEF HeardInv
<1> QED BY <1>1, <1>3, <1>4

LEMMA HeardNext == TypeInv /\ StreamInv /\ AckInv /\ HeardInv /\ [Next]_vars => HeardInv'
<1> SUFFICES ASSUME TypeInv, StreamInv, AckInv, HeardInv, [Next]_vars PROVE HeardInv'
    OBVIOUS
<1>1. CASE Tick
      BY <1>1, HeardTick
<1>2. CASE Polls \/ Dock \/ UNCHANGED vars
  <2>1. UNCHANGED <<events, tick, srv, down, taken, heard>>
        BY <1>2, PollIs DEF Dock, vars, world, history
  <2> QED BY <2>1 DEF HeardInv, HeardRecord, Told
<1>3. CASE \E d \in down : Deliver(d)
      BY <1>3, HeardDeliver
<1>4. CASE \E a \in up : drain_inputs(a)
      BY <1>4, HeardDrain
<1>5. CASE left_the_sector
  <2>1. UNCHANGED <<events, tick, srv, down, heard>> /\ taken' = {}
        BY <1>5 DEF left_the_sector, world
  <2> QED BY <2>1 DEF HeardInv, HeardRecord, Told
<1>6. CASE Seat
  <2>1. UNCHANGED events /\ srv' = Seated(next_epoch(srv.stream), Len(events))
        BY <1>6 DEF Seat, world
  <2>2. /\ srv'.event_acked = Len(events) /\ srv'.joined = Len(events)
        /\ srv'.sent = [k \in 0 .. SentRing - 1 |-> Blank]
        BY <2>1 DEF Seated
  <2>3. Len(events) \in Nat
        BY DEF TypeInv, WorldTypes
  <2>4. ASSUME NEW k \in 0 .. SentRing - 1 PROVE HeardRecord(srv.sent[k])'
    <3>1. srv'.sent[k].done = 0
          BY <2>2 DEF Blank
    <3> QED BY <2>1, <2>2, <2>3, <3>1 DEF HeardRecord
  <2> QED BY <2>1, <2>2, <2>3, <2>4 DEF HeardInv
<1> QED BY <1>1, <1>2, <1>3, <1>4, <1>5, <1>6 DEF Next, Polls

(* An event the server no longer sends (ClientState::retire raised event_acked past it) was
   heard, or was too old to tell: what doesn't fit a datagram ends what its record counts done. *)
THEOREM EventsAreHeard == Spec => ([]FreshStreams => []EventsHeard)
<1>1. Init => HeardInv
      BY HeardInit
<1>2. TypeInv /\ StreamInv /\ AckInv /\ HeardInv /\ [Next]_vars => HeardInv'
      BY HeardNext
<1>3. HeardInv => EventsHeard
      BY HeardImplies
<1> QED BY <1>1, <1>2, <1>3, AckAlways, PTL DEF Spec

-----------------------------------------------------------------------------
(* The ring has the records of the last SentRing datagrams, but for those acked or older. *)
RingHolds ==
    \A n \in Nat : srv.floor <= n /\ n < srv.seq /\ srv.seq <= n + SentRing =>
        srv.sent[n % SentRing].n = n

LEMMA RingTick == ASSUME TypeInv, RingHolds, Tick PROVE RingHolds'
<1>1. PICK d \in Downs, m \in Downs, more \in BOOLEAN, done \in Nat :
         Writes(d, m, more, done) /\ Books(d, m, more, done)
      BY TickWrites
<1>2. srv.seq \in Nat /\ srv.floor \in Nat /\ SentRing \in Nat \ {0}
      BY ConstantsAre DEF TypeInv, Fit, Servers
<1>3. srv'.floor = srv.floor /\ srv'.seq \in Nat
      BY TickKeeps
<1>4. srv'.seq = IF more THEN srv.seq + 2 ELSE srv.seq + 1
      BY <1>1 DEF Books
<1>5. d.n = srv.seq /\ m.n = srv.seq + 1
      BY <1>1 DEF Writes
<1>6. ASSUME NEW n \in Nat, srv.floor <= n, n < srv'.seq, srv'.seq <= n + SentRing
      PROVE  srv'.sent[n % SentRing].n = n
  <2> DEFINE k == n % SentRing
             k0 == srv.seq % SentRing
             k1 == (srv.seq + 1) % SentRing
  <2>1. k \in 0 .. SentRing - 1
        BY <1>2, ModIs
  <2>2. \/ /\ k # k0 /\ (more => k # k1)
           /\ srv'.sent[k] = srv.sent[k]
        \/ k = k0 /\ (more => k # k1) /\ srv'.sent[k] = RecordFor(d, done)
        \/ more /\ k = k1 /\ srv'.sent[k] = RecordFor(m, 0)
        BY <1>1, <2>1 DEF Books
  <2>3. k = k0 => n = srv.seq \/ ~(srv.seq < n + SentRing) \/ ~(n < srv.seq + SentRing)
        BY <1>2, SameRemainder
  <2>4. k = k1 => n = srv.seq + 1 \/ ~(srv.seq + 1 < n + SentRing) \/ ~(n < srv.seq + 1 + SentRing)
    <3>1. srv.seq + 1 \in Nat
          BY <1>2
    <3> QED BY <1>2, <3>1, SameRemainder
  <2>5. n = srv.seq => k = k0
        OBVIOUS
  <2>6. n = srv.seq + 1 => k = k1
        OBVIOUS
  <2>7. RecordFor(d, done).n = srv.seq /\ RecordFor(m, 0).n = srv.seq + 1
        BY <1>5 DEF RecordFor
  <2> HIDE DEF k, k0, k1
  <2>8. CASE k # k0 /\ (more => k # k1) /\ srv'.sent[k] = srv.sent[k]
    <3>1. n < srv.seq /\ srv.seq <= n + SentRing
          BY <1>2, <1>4, <1>6, <2>5, <2>6, <2>8
    <3> QED BY <1>6, <2>8, <3>1 DEF RingHolds, k
  <2>9. CASE k = k0 /\ (more => k # k1) /\ srv'.sent[k] = RecordFor(d, done)
    <3>1. n = srv.seq
      <4>1. srv.seq < n + SentRing /\ n < srv.seq + SentRing
        <5>1. CASE more
              BY <1>2, <1>4, <1>6, <2>6, <2>9, <5>1
        <5>2. CASE ~more
              BY <1>2, <1>4, <1>6, <5>2
        <5> QED BY <5>1, <5>2
      <4> QED BY <2>3, <2>9, <4>1
    <3> QED BY <2>7, <2>9, <3>1 DEF k
  <2>10. CASE more /\ k = k1 /\ srv'.sent[k] = RecordFor(m, 0)
    <3>1. n = srv.seq + 1
      <4>1. srv.seq + 1 < n + SentRing /\ n < srv.seq + 1 + SentRing
            BY <1>2, <1>4, <1>6, <2>10
      <4> QED BY <2>4, <2>10, <4>1
    <3> QED BY <2>7, <2>10, <3>1 DEF k
  <2> QED BY <2>2, <2>8, <2>9, <2>10 DEF k
<1> QED BY <1>3, <1>6 DEF RingHolds

(* An ack retires every datagram it names in time. *)
LEMMA TimelyRetired ==
    ASSUME TypeInv, StreamInv, AckInv, RingHolds, seated = "flying", NEW a \in up, drain_inputs(a)
    PROVE  /\ srv.retired \in SUBSET on_ack(a).retired
           /\ \A x \in Timely(a) : x[1] = srv.stream /\ x[2] \in on_ack(a).retired
           /\ \A k \in 0 .. SentRing - 1 : on_ack(a).sent[k].n = srv.sent[k].n
<1>1. /\ a \in Ups /\ Fit(srv) /\ srv.floor \in Nat /\ srv.seq \in Nat /\ AckBits \in Nat \ {0}
      /\ a.bits \in SUBSET (0 .. AckBits - 1) /\ a.n \in Nat
      BY ConstantsAre DEF TypeInv, WireTypes, Fit, Servers, Ups
<1>2. CASE a.stream # srv.stream
  <2>1. on_ack(a) = srv
        BY <1>1, <1>2, OnAckIs
  <2> QED BY <1>2, <2>1 DEF Timely
<1>3. CASE a.stream = srv.stream
  <2> DEFINE newest == a.n
             Pertains(n) == n \in Nat /\ srv.floor <= n /\ srv.seq <= n + SentRing
             Q(s) == /\ Fit(s) /\ s.stream = srv.stream /\ s.seq = srv.seq
                     /\ srv.retired \in SUBSET s.retired
                     /\ \A k \in 0 .. SentRing - 1 : s.sent[k].n = srv.sent[k].n
  <2>1. InReach(a.n, srv.seq - 1)
        BY <1>3 DEF drain_inputs
  <2>2. newest < srv.seq /\ srv.seq # 0 /\ expand(a.seq, srv.seq - 1) = newest
        BY <1>1, <1>3, <2>1, AckRead DEF AckInv
  <2>3. PICK f : Steps(f, a, newest) /\ on_ack(a) = retire(f[AckBits], newest)
        BY <1>1, <1>3, <2>2, OnAckIs
  <2>4. ASSUME NEW s, Q(s), NEW n \in Nat, n < srv.seq
        PROVE  /\ Q(retire(s, n))
               /\ s.retired \in SUBSET retire(s, n).retired
               /\ retire(s, n).floor = s.floor \/ retire(s, n).floor = n + 1
               /\ Pertains(n) /\ s.floor <= n => n \in retire(s, n).retired
    <3> DEFINE t == retire(s, n)
               r == s.sent[n % SentRing]
               l == Least(r.leaves, Len(s.leaves))
    <3>1. IsRetired(t, s, n)
          BY <2>4, RetireIs
    <3>2. CASE ~Retires(s, n)
      <4>1. t = s
            BY <3>1, <3>2 DEF IsRetired
      <4>2. ~(Pertains(n) /\ s.floor <= n)
        <5> SUFFICES ASSUME Pertains(n), s.floor <= n PROVE FALSE
            OBVIOUS
        <5>1. srv.sent[n % SentRing].n = n
              BY <2>4 DEF RingHolds
        <5>2. n % SentRing \in 0 .. SentRing - 1
              BY ConstantsAre, ModIs
        <5>3. s.sent[n % SentRing].n = n
              BY <2>4, <5>1, <5>2
        <5>4. s.floor \in Nat
              BY <2>4 DEF Fit, Servers
        <5> QED BY <3>2, <5>3, <5>4 DEF Retires
      <4> QED BY <2>4, <4>1, <4>2
    <3>3. CASE Retires(s, n)
      <4>1. /\ Fit(t) /\ t.stream = s.stream /\ t.seq = s.seq /\ t.floor = n + 1
            /\ t.retired = s.retired \cup {n} /\ t.sent = Shifted(s.sent, n, l)
            /\ r \in Recs
            BY <3>1, <3>3 DEF IsRetired
      <4>2. l \in Nat /\ s.sent \in Rings
        <5>1. s.sent \in Rings /\ s.leaves \in Seq(Nat)
              BY <2>4 DEF Fit, Servers
        <5>2. Len(s.leaves) \in Nat
              BY <5>1
        <5>3. r.leaves \in Nat
          <6> HIDE DEF r
          <6> QED BY <4>1 DEF Recs
        <5> QED BY <5>1, <5>2, <5>3 DEF Least
      <4>3. \A k \in 0 .. SentRing - 1 : t.sent[k].n = s.sent[k].n
        <5> DEFINE ring == s.sent
        <5> HIDE DEF l, t, r, ring
        <5>1. \A k \in 0 .. SentRing - 1 : Shifted(ring, n, l)[k].n = ring[k].n
              BY <4>2, ShiftedIs DEF ring
        <5> QED BY <4>1, <5>1 DEF ring
      <4> HIDE DEF t, l, r
      <4>4. Q(t)
            BY <2>4, <4>1, <4>3
      <4>5. s.retired \in SUBSET t.retired /\ n \in t.retired
            BY <2>4, <4>1
      <4> QED BY <4>1, <4>4, <4>5 DEF t
    <3> QED BY <3>2, <3>3
  <2> DEFINE Below(k) == newest - (AckBits - k)
             R(s, k) == /\ Q(s)
                        /\ s.floor <= srv.floor \/ s.floor <= Below(k)
                        /\ \A i \in a.bits : /\ newest - 1 - i < Below(k) /\ Pertains(newest - 1 - i)
                              => newest - 1 - i \in s.retired
             P == {k \in Nat : R(f[k], k)}
  <2> HIDE DEF Q
  <2>5. 0 \in P
    <3>1. f[0] = srv
          BY <2>3 DEF Steps
    <3>2. Q(srv)
          BY <1>1 DEF Q
    <3>3. \A i \in a.bits : ~(newest - 1 - i < Below(0))
          BY <1>1
    <3> QED BY <1>1, <3>1, <3>2, <3>3
  <2>6. ASSUME NEW k \in 1 .. AckBits, k - 1 \in P PROVE k \in P
    <3> DEFINE n == newest - 1 - (AckBits - k)
               s == f[k - 1]
    <3>1. R(s, k - 1)
          BY <2>6
    <3>2. /\ k \in Nat /\ n \in Int /\ n < srv.seq /\ Below(k) = n + 1 /\ Below(k - 1) = n
          BY <1>1, <2>2
    <3>3. Q(s) /\ s.floor \in Nat
          BY <3>1 DEF Q, Fit, Servers
    <3> HIDE DEF s
    <3>4. CASE f[k] = retire(s, n) /\ n \in Nat
      <4> DEFINE t == retire(s, n)
      <4>1. /\ Q(t) /\ s.retired \in SUBSET t.retired
            /\ t.floor = s.floor \/ t.floor = n + 1
            /\ Pertains(n) /\ s.floor <= n => n \in t.retired
            BY <2>4, <3>2, <3>3, <3>4
      <4> HIDE DEF t
      <4>2. t.floor <= srv.floor \/ t.floor <= Below(k)
            BY <1>1, <3>1, <3>2, <3>3, <4>1
      <4>3. ASSUME NEW i \in a.bits, newest - 1 - i < Below(k), Pertains(newest - 1 - i)
            PROVE  newest - 1 - i \in t.retired
        <5>1. CASE newest - 1 - i < n
              BY <3>1, <3>2, <4>1, <4>3, <5>1
        <5>2. CASE ~(newest - 1 - i < n)
          <6>1. newest - 1 - i = n
                BY <1>1, <3>2, <4>3, <5>2
          <6>2. s.floor <= n
                BY <1>1, <3>1, <3>2, <3>3, <4>3, <6>1
          <6> QED BY <4>1, <4>3, <6>1, <6>2
        <5> QED BY <5>1, <5>2
      <4> QED BY <3>2, <3>4, <4>1, <4>2, <4>3 DEF t
    <3>5. CASE f[k] = s /\ ~(f[k] = retire(s, n) /\ n \in Nat)
      <4>1. s.floor <= srv.floor \/ s.floor <= Below(k)
            BY <1>1, <3>1, <3>2, <3>3
      <4>2. ASSUME NEW i \in a.bits, newest - 1 - i < Below(k), Pertains(newest - 1 - i)
            PROVE  newest - 1 - i \in s.retired
        <5>1. CASE newest - 1 - i < n
              BY <3>1, <3>2, <4>2, <5>1
        <5>2. CASE ~(newest - 1 - i < n)
          <6>1. newest - 1 - i = n /\ i = AckBits - k
                BY <1>1, <3>2, <4>2, <5>2
          <6>2. f[k] = retire(s, n)
                BY <2>3, <3>2, <4>2, <6>1 DEF Steps, s
          <6> QED BY <3>5, <4>2, <6>1, <6>2
        <5> QED BY <5>1, <5>2
      <4> QED BY <3>2, <3>3, <3>5, <4>1, <4>2
    <3>6. f[k] = s \/ (f[k] = retire(s, n) /\ n \in Nat)
          BY <2>3 DEF Steps, s
    <3> QED BY <3>4, <3>5, <3>6
  <2> HIDE DEF P
  <2>7. AckBits \in P
    <3>1. \A k \in 1 .. AckBits : k - 1 \in P => k \in P
          BY <2>6
    <3>2. \A k \in 0 .. AckBits : k \in P
          BY <1>1, <2>5, <3>1, UpTo
    <3> QED BY <1>1, <3>2
  <2> DEFINE s == f[AckBits]
             t == retire(s, newest)
  <2>8. R(s, AckBits)
        BY <2>7 DEF P
  <2>9. /\ Q(t) /\ s.retired \in SUBSET t.retired
        /\ Pertains(newest) /\ s.floor <= newest => newest \in t.retired
        BY <1>1, <2>2, <2>4, <2>8
  <2>10. Q(s) /\ s.floor \in Nat
         BY <2>8 DEF Q, Fit, Servers
  <2>11. Below(AckBits) = newest
         BY <1>1
  <2> HIDE DEF s, t
  <2>12. ASSUME NEW x \in Timely(a) PROVE x[1] = srv.stream /\ x[2] \in t.retired
    <3>1. PICK n \in {a.n} \cup {a.n - 1 - i : i \in a.bits} :
             x = <<a.stream, n>> /\ n >= srv.floor /\ srv.seq - n <= SentRing
          BY DEF Timely
    <3>2. n \in Int
          BY <1>1
    <3>3. Pertains(n)
          BY <1>1, <3>1, <3>2, ConstantsAre
    <3>4. n \in t.retired
      <4>1. CASE n = newest
            BY <1>1, <2>8, <2>9, <2>10, <2>11, <3>3, <4>1
      <4>2. CASE n # newest
        <5>1. PICK i \in a.bits : n = newest - 1 - i
              BY <3>1, <4>2
        <5>2. newest - 1 - i < Below(AckBits)
              BY <1>1, <2>11
        <5>3. n \in s.retired
              BY <2>8, <3>3, <5>1, <5>2
        <5> QED BY <2>9, <5>3
      <4> QED BY <4>1, <4>2
    <3> QED BY <1>3, <3>1, <3>4
  <2>13. on_ack(a) = t
         BY <2>3 DEF t, s
  <2> QED BY <2>9, <2>12, <2>13 DEF Q
<1> QED BY <1>2, <1>3

-----------------------------------------------------------------------------
(* Of the datagrams numbered in S, which say O[n] of the chunk, the last that says anything
   says v; or none does, and v is NONE. *)
LastSays(O, S, v) ==
    \/ v = NONE /\ \A n \in S : O[n] = Nothing
    \/ \E n \in S : v = O[n] /\ O[n] # Nothing /\ \A m \in S : m > n => O[m] = Nothing

LEMMA LastIsOne ==
    ASSUME NEW O, NEW S \in SUBSET Nat, NEW v, NEW w, LastSays(O, S, v), LastSays(O, S, w)
    PROVE  v = w
BY DEF LastSays

LEMMA LastGrows ==
    ASSUME NEW O, NEW S \in SUBSET Nat, NEW v, LastSays(O, S, v), NEW n \in Nat, \A m \in S : m < n
    PROVE  LastSays(O, S \cup {n}, IF O[n] = Nothing THEN v ELSE O[n])
BY DEF LastSays

LEMMA LastStays ==
    ASSUME NEW O, NEW Q, NEW S, NEW v, LastSays(O, S, v), \A n \in S : Q[n] = O[n]
    PROVE  LastSays(Q, S, v)
BY DEF LastSays

Now == {n \in Nat : <<srv.stream, n>> \in taken}

(* Each datagram of the seat said one thing of the chunk, and the server and the client each
   go by the last of those acked and of those taken. *)
Says(O) ==
    /\ \A n \in Nat : srv.floor <= n /\ n < srv.seq /\ srv.sent[n % SentRing].n = n =>
          srv.sent[n % SentRing].obj = O[n]
    /\ \A d \in down : d.stream = srv.stream => d.obj = O[d.n]
    /\ LastSays(O, srv.retired, srv.acked)
    /\ OneStream => LastSays(O, Now, chunk)
ChunkInv ==
    /\ seated = "flying" =>
          /\ RingHolds
          /\ named \in SUBSET Retired
          /\ \A n \in srv.retired : n < srv.floor
          /\ \E O \in [Nat -> Objs] : Says(O)
    /\ seated = "home" => named = {} /\ (taken = {} => chunk = NONE)

LEMMA ChunkImplies == TypeInv /\ AckInv /\ ChunkInv => InStep
<1> SUFFICES ASSUME TypeInv, AckInv, ChunkInv, NothingToSay, taken = named PROVE chunk = Due
    BY DEF InStep
<1>1. seated = "flying" /\ object_candidates(place, version) = Nothing
      BY DEF NothingToSay
<1>2. PICK O \in [Nat -> Objs] : Says(O)
      BY <1>1 DEF ChunkInv
<1>3. taken \in SUBSET Retired /\ srv.retired \in SUBSET Nat
      BY <1>1 DEF ChunkInv, TypeInv, Fit, Servers
<1>4. OneStream
      BY <1>3 DEF Retired, OneStream
<1>5. Now = srv.retired
      BY <1>1, <1>3 DEF Now, Retired, AckInv
<1>6. chunk = srv.acked
      BY <1>2, <1>3, <1>4, <1>5, LastIsOne DEF Says
<1>7. version \in 1 .. MaxVersion /\ srv.acked \in NONE .. MaxVersion
      BY DEF TypeInv, WorldTypes, Fit, Servers
<1> QED BY <1>1, <1>6, <1>7, ConstantsAre DEF object_candidates, Due, Nothing, NONE

LEMMA ChunkInit == Init => ChunkInv
<1> SUFFICES ASSUME Init PROVE ChunkInv
    OBVIOUS
<1>1. PICK s \in Starts : srv = [Seated(1, 0) EXCEPT !.seq = s, !.floor = s]
      BY DEF Init
<1>2. srv.seq = s /\ srv.floor = s /\ srv.retired = {} /\ srv.acked = NONE /\ s \in Nat
      BY <1>1, ConstantsAre DEF Seated
<1>3. down = {} /\ taken = {} /\ named = {} /\ chunk = NONE
      BY DEF Init
<1> DEFINE O == [n \in Nat |-> Nothing]
<1>4. O \in [Nat -> Objs]
      BY BlankIs
<1>5. Says(O)
      BY <1>2, <1>3 DEF Says, LastSays, Now
<1>6. RingHolds
      BY <1>2 DEF RingHolds
<1> QED BY <1>2, <1>3, <1>4, <1>5, <1>6 DEF ChunkInv

LEMMA ChunkTick == ASSUME TypeInv, AckInv, ChunkInv, Tick PROVE ChunkInv'
<1>1. PICK d \in Downs, m \in Downs, more \in BOOLEAN, done \in Nat :
         Writes(d, m, more, done) /\ Books(d, m, more, done)
      BY TickWrites
<1>2. /\ srv.seq \in Nat /\ srv.floor \in Nat /\ srv.retired \in SUBSET Nat /\ srv.floor <= srv.seq
      /\ \A x \in down : x.n \in Nat
      BY DEF TypeInv, WireTypes, Fit, Servers, Downs
<1>3. /\ seated = "flying" /\ UNCHANGED <<seated, taken, named, chunk>>
      /\ srv'.stream = srv.stream /\ srv'.floor = srv.floor /\ srv'.retired = srv.retired
      /\ srv'.acked = srv.acked
      BY TickKeeps DEF Tick, client
<1>4. PICK O \in [Nat -> Objs] : Says(O)
      BY <1>3 DEF ChunkInv
<1>5. PICK Q \in [Nat -> Objs] :
         /\ \A n \in Nat : n < srv.seq => Q[n] = O[n]
         /\ Q[srv.seq] = d.obj /\ Q[srv.seq + 1] = Nothing
  <2> DEFINE P == [n \in Nat |->
                     IF n = srv.seq THEN d.obj ELSE IF n = srv.seq + 1 THEN Nothing ELSE O[n]]
  <2>1. P \in [Nat -> Objs]
        BY BlankIs DEF Downs
  <2>2. /\ \A n \in Nat : n < srv.seq => P[n] = O[n]
        /\ P[srv.seq] = d.obj /\ P[srv.seq + 1] = Nothing
        BY <1>2
  <2> HIDE DEF P
  <2> QED BY <2>1, <2>2
<1>8. d.n = srv.seq /\ m.n = srv.seq + 1 /\ m.obj = Nothing
      BY <1>1 DEF Writes
<1>9. ASSUME NEW n \in Nat, srv.floor <= n, n < srv'.seq, srv'.sent[n % SentRing].n = n
      PROVE  srv'.sent[n % SentRing].obj = Q[n]
  <2> DEFINE k == n % SentRing
  <2>1. k \in 0 .. SentRing - 1
        BY ConstantsAre, ModIs
  <2> HIDE DEF k
  <2>2. \/ /\ k # srv.seq % SentRing /\ (more => k # (srv.seq + 1) % SentRing)
           /\ srv'.sent[k] = srv.sent[k]
        \/ srv'.sent[k] = RecordFor(d, done)
        \/ srv'.sent[k] = RecordFor(m, 0)
        BY <1>1, <2>1 DEF Books
  <2>3. CASE srv'.sent[k] = RecordFor(d, done)
        BY <1>5, <1>8, <1>9, <2>3 DEF RecordFor, k
  <2>4. CASE srv'.sent[k] = RecordFor(m, 0)
        BY <1>5, <1>8, <1>9, <2>4 DEF RecordFor, k
  <2>5. CASE /\ k # srv.seq % SentRing /\ (more => k # (srv.seq + 1) % SentRing)
             /\ srv'.sent[k] = srv.sent[k]
    <3>1. srv'.seq = IF more THEN srv.seq + 2 ELSE srv.seq + 1
          BY <1>1 DEF Books
    <3>2. n # srv.seq /\ (more => n # srv.seq + 1)
          BY <2>5 DEF k
    <3>3. n < srv.seq
          BY <1>2, <1>9, <3>1, <3>2
    <3>4. srv.sent[k].obj = O[n]
          BY <1>4, <1>9, <2>5, <3>3 DEF Says, k
    <3> QED BY <1>5, <2>5, <3>3, <3>4 DEF k
  <2> QED BY <2>2, <2>3, <2>4, <2>5
<1>10. ASSUME NEW x \in down', x.stream = srv.stream PROVE x.obj = Q[x.n]
  <2>1. CASE x \in down
    <3>1. x.n < srv.seq /\ x.obj = O[x.n]
          BY <1>3, <1>4, <1>10, <2>1 DEF AckInv, Says
    <3> QED BY <1>2, <1>5, <2>1, <3>1
  <2>2. CASE x = d \/ x = m
        BY <1>5, <1>8, <2>2
  <2> QED BY <1>1, <2>1, <2>2 DEF Books
<1>11. LastSays(Q, srv.retired, srv.acked)
  <2>1. \A n \in srv.retired : n \in Nat /\ n < srv.seq
        BY <1>2, <1>3 DEF ChunkInv
  <2> QED BY <1>4, <1>5, <2>1, LastStays DEF Says
<1>12. OneStream => LastSays(Q, Now, chunk)
  <2>1. \A n \in Now : n \in Nat /\ n < srv.seq
        BY <1>3 DEF AckInv, Now
  <2> QED BY <1>4, <1>5, <2>1, LastStays DEF Says
<1>13. Now' = Now /\ (OneStream' <=> OneStream) /\ Retired' = Retired
       BY <1>3 DEF Now, OneStream, Retired
<1>14. Says(Q)'
       BY <1>3, <1>9, <1>10, <1>11, <1>12, <1>13 DEF Says
<1>15. RingHolds'
       BY <1>3, RingTick DEF ChunkInv
<1> QED BY <1>3, <1>5, <1>13, <1>14, <1>15 DEF ChunkInv

LEMMA ChunkDeliver ==
    ASSUME TypeInv, StreamInv, AckInv, WinInv, ChunkInv, NEW d \in down, Deliver(d)
    PROVE  ChunkInv'
<1>1. /\ InTime(d) /\ down' = down \ {d}
      /\ UNCHANGED <<seated, srv, named>>
      /\ \/ UNCHANGED <<client, taken>>
         \/ Takes(d, check(win, d))
      BY DeliverIs
<1>2. RingHolds' <=> RingHolds
      BY <1>1 DEF RingHolds
<1>3. CASE UNCHANGED <<client, taken>>
  <2>1. Now' = Now /\ (OneStream' <=> OneStream) /\ UNCHANGED chunk
        BY <1>1, <1>3 DEF Now, OneStream, client
  <2>2. ASSUME NEW O \in [Nat -> Objs], Says(O) PROVE Says(O)'
        BY <1>1, <2>1, <2>2 DEF Says
  <2> QED BY <1>1, <1>2, <1>3, <2>1, <2>2 DEF ChunkInv, Retired
<1>4. CASE Takes(d, check(win, d))
  <2>1. /\ check(win, d) # Stale /\ taken' = taken \cup {<<d.stream, d.n>>}
        /\ chunk' = IF d.obj = Nothing THEN chunk ELSE d.obj
        BY <1>4 DEF Takes
  <2> SUFFICES ASSUME seated = "flying" PROVE ChunkInv'
      BY <1>1, <2>1 DEF ChunkInv
  <2>2. PICK O \in [Nat -> Objs] : Says(O)
        BY DEF ChunkInv
  <2>3. ASSUME OneStream' PROVE LastSays(O, Now', chunk')
    <3>1. OneStream /\ d.stream = srv.stream
      <4>1. \A x \in taken' : x[1] = srv.stream
            BY <1>1, <2>3 DEF OneStream
      <4>2. <<d.stream, d.n>> \in taken' /\ taken \in SUBSET taken'
            BY <2>1
      <4> QED BY <4>1, <4>2 DEF OneStream
    <3>2. d.n \in Nat /\ win.newest \in Nat
          BY DEF TypeInv, WireTypes, ClientTypes, Downs, Windows
    <3>3. win.stream = srv.stream => win.newest < d.n
          BY <1>1, <2>1, <3>1, TakenIs
    <3>4. \A n \in Now : n \in Nat /\ n < d.n
          BY <3>2, <3>3 DEF WinInv, Now
    <3>5. Now' = Now \cup {d.n}
          BY <1>1, <2>1, <3>1, <3>2 DEF Now
    <3>6. O[d.n] = d.obj /\ LastSays(O, Now, chunk)
          BY <2>2, <3>1 DEF Says
    <3>7. LastSays(O, Now \cup {d.n}, IF O[d.n] = Nothing THEN chunk ELSE O[d.n])
      <4> DEFINE S == Now
      <4>1. S \in SUBSET Nat /\ LastSays(O, S, chunk) /\ \A n \in S : n < d.n
            BY <3>4, <3>6
      <4> HIDE DEF S
      <4>2. LastSays(O, S \cup {d.n}, IF O[d.n] = Nothing THEN chunk ELSE O[d.n])
            BY <3>2, <4>1, LastGrows
      <4> QED BY <4>2 DEF S
    <3> QED BY <2>1, <3>5, <3>6, <3>7
  <2>4. Says(O)'
        BY <1>1, <2>2, <2>3 DEF Says
  <2> QED BY <1>1, <1>2, <2>4 DEF ChunkInv, Retired
<1> QED BY <1>1, <1>3, <1>4

LEMMA ChunkDrain ==
    ASSUME TypeInv, StreamInv, AckInv, ChunkInv, NEW a \in up, drain_inputs(a)
    PROVE  ChunkInv'
<1>1. /\ UNCHANGED <<seated, down, taken, chunk>>
      /\ seated = "flying" => srv' = on_ack(a) /\ named' = named \cup Timely(a)
      /\ seated # "flying" => srv' = srv /\ named' = named
      BY DrainIs DEF client
<1> SUFFICES ASSUME seated = "flying" PROVE ChunkInv'
    BY <1>1 DEF ChunkInv
<1>2. PICK O \in [Nat -> Objs] : Says(O)
      BY DEF ChunkInv
<1> DEFINE Same(s) == \A k \in 0 .. SentRing - 1 :
                          s.sent[k].n = srv.sent[k].n /\ s.sent[k].obj = srv.sent[k].obj
           G == {s \in Servers :
                   /\ Fit(s) /\ s.stream = srv.stream /\ s.seq = srv.seq /\ s.floor >= srv.floor
                   /\ Same(s) /\ (\A n \in s.retired : n < s.floor)
                   /\ LastSays(O, s.retired, s.acked)}
<1>3. srv \in G
  <2>1. Fit(srv) /\ srv \in Servers /\ srv.floor \in Nat
        BY DEF TypeInv, Fit, Servers
  <2>2. \A n \in srv.retired : n < srv.floor
        BY DEF ChunkInv
  <2>3. LastSays(O, srv.retired, srv.acked)
        BY <1>2 DEF Says
  <2> QED BY <2>1, <2>2, <2>3
<1>4. ASSUME NEW s \in G, NEW n \in Nat, n < srv.seq, Retires(s, n)
      PROVE  retire(s, n) \in G
  <2> DEFINE t == retire(s, n)
             k0 == n % SentRing
             r == s.sent[k0]
             l == Least(r.leaves, Len(s.leaves))
  <2>1. IsRetired(t, s, n)
        BY <1>4, RetireIs
  <2>2. /\ Fit(t) /\ t.stream = s.stream /\ t.seq = s.seq /\ t.floor = n + 1
        /\ t.retired = s.retired \cup {n} /\ t.acked = IF r.obj = Nothing THEN s.acked ELSE r.obj
        /\ t.sent = Shifted(s.sent, n, l)
        /\ r \in Recs /\ k0 \in 0 .. SentRing - 1
        BY <1>4, <2>1 DEF IsRetired
  <2>3. l \in Nat /\ s.sent \in Rings /\ s.retired \in SUBSET Nat /\ s.floor \in Nat /\ srv.floor \in Nat
    <3>1. s \in Servers /\ srv \in Servers
          BY <1>4 DEF TypeInv, Fit
    <3>2. s.sent \in Rings /\ s.retired \in SUBSET Nat /\ s.floor \in Nat /\ srv.floor \in Nat
          /\ Len(s.leaves) \in Nat
          BY <3>1 DEF Servers
    <3>3. r.leaves \in Nat
          BY <2>2 DEF Recs
    <3> QED BY <3>2, <3>3 DEF Least
  <2>4. n >= s.floor /\ r.n = n
        BY <1>4 DEF Retires
  <2>5. Same(t)
    <3>1. \A k \in 0 .. SentRing - 1 : t.sent[k].n = s.sent[k].n /\ t.sent[k].obj = s.sent[k].obj
      <4> DEFINE ring == s.sent
      <4> HIDE DEF l, t, r
      <4>2. ring \in Rings /\ l \in Nat
            BY <2>3
      <4> HIDE DEF ring
      <4>1. \A k \in 0 .. SentRing - 1 :
               Shifted(ring, n, l)[k].n = ring[k].n /\ Shifted(ring, n, l)[k].obj = ring[k].obj
            BY <4>2, ShiftedIs
      <4> QED BY <2>2, <4>1 DEF ring
    <3> HIDE DEF t
    <3> QED BY <1>4, <3>1
  <2>6. O[n] = r.obj
    <3>1. srv.floor <= n /\ srv.sent[k0].n = n /\ srv.sent[k0].obj = r.obj
          BY <1>4, <2>2, <2>3, <2>4
    <3> QED BY <1>2, <1>4, <3>1 DEF Says
  <2>7. \A m \in s.retired : m < n
        BY <1>4, <2>3, <2>4
  <2>8. LastSays(O, t.retired, t.acked)
    <3> DEFINE S == s.retired
               v == s.acked
    <3>1. S \in SUBSET Nat /\ LastSays(O, S, v) /\ \A m \in S : m < n
          BY <1>4, <2>3, <2>7
    <3>2. t.retired = S \cup {n} /\ t.acked = IF O[n] = Nothing THEN v ELSE O[n]
          BY <2>2, <2>6
    <3> HIDE DEF S, v, t
    <3>3. LastSays(O, S \cup {n}, IF O[n] = Nothing THEN v ELSE O[n])
          BY <3>1, LastGrows
    <3> QED BY <3>2, <3>3
  <2> HIDE DEF t, r, l, k0, Same
  <2>9. \A m \in t.retired : m < t.floor
        BY <2>2, <2>3, <2>7
  <2>10. t.floor >= srv.floor
        BY <1>4, <2>2, <2>3, <2>4
  <2>11. t \in Servers
        BY <2>2 DEF Fit
  <2> QED BY <1>4, <2>2, <2>5, <2>8, <2>9, <2>10, <2>11 DEF t
<1> HIDE DEF G
<1>5. on_ack(a) \in G
      BY <1>3, <1>4, OnAckKeeps
<1>6. PICK s \in Servers : s = srv' /\ s \in G
      BY <1>1, <1>5 DEF G
<1>7. /\ srv'.stream = srv.stream /\ srv'.seq = srv.seq /\ srv'.floor >= srv.floor
      /\ \A k \in 0 .. SentRing - 1 :
            srv'.sent[k].n = srv.sent[k].n /\ srv'.sent[k].obj = srv.sent[k].obj
      /\ \A n \in srv'.retired : n < srv'.floor
      /\ LastSays(O, srv'.retired, srv'.acked)
      BY <1>6 DEF G
<1>8. srv.floor \in Nat /\ srv'.floor \in Nat
      BY <1>6 DEF TypeInv, Fit, Servers
<1>9. \A n \in Nat : n % SentRing \in 0 .. SentRing - 1
      BY ConstantsAre, ModIs
<1>10. RingHolds'
       BY <1>7, <1>8, <1>9 DEF RingHolds, ChunkInv
<1>11. named' \in SUBSET Retired'
  <2>1. RingHolds
        BY DEF ChunkInv
  <2>2. srv.retired \in SUBSET srv'.retired /\ \A x \in Timely(a) : x[1] = srv.stream /\ x[2] \in srv'.retired
        BY <1>1, <2>1, TimelyRetired
  <2>3. \A x \in Timely(a) : x = <<x[1], x[2]>>
        BY DEF Timely
  <2>4. \A x \in named : \E n \in srv.retired : x = <<srv.stream, n>>
        BY DEF ChunkInv, Retired
  <2>5. named' = named \cup Timely(a)
        BY <1>1
  <2>6. ASSUME NEW x \in named' PROVE \E n \in srv'.retired : x = <<srv'.stream, n>>
        BY <1>7, <2>2, <2>3, <2>4, <2>5
  <2> QED BY <2>6 DEF Retired
<1>12. Says(O)'
  <2>1. Now' = Now /\ (OneStream' <=> OneStream)
        BY <1>1, <1>7 DEF Now, OneStream
  <2>2. ASSUME NEW n \in Nat, srv'.floor <= n, n < srv'.seq, srv'.sent[n % SentRing].n = n
        PROVE  srv'.sent[n % SentRing].obj = O[n]
    <3>1. srv.floor <= n /\ n < srv.seq /\ srv.sent[n % SentRing].n = n
          BY <1>7, <1>8, <1>9, <2>2
    <3> QED BY <1>2, <1>7, <1>9, <3>1 DEF Says
  <2> QED BY <1>1, <1>2, <1>7, <2>1, <2>2 DEF Says
<1> QED BY <1>1, <1>7, <1>10, <1>11, <1>12 DEF ChunkInv

LEMMA ChunkNext ==
    TypeInv /\ StreamInv /\ AckInv /\ WinInv /\ ChunkInv /\ FreshStreams /\ [Next]_vars => ChunkInv'
<1> SUFFICES ASSUME TypeInv, StreamInv, AckInv, WinInv, ChunkInv, FreshStreams, [Next]_vars
             PROVE  ChunkInv'
    OBVIOUS
<1>1. CASE Tick
      BY <1>1, ChunkTick
<1>2. CASE Polls \/ UNCHANGED vars
  <2>1. UNCHANGED <<seated, srv, down, taken, named, chunk>>
        BY <1>2, PollIs DEF vars, client, history
  <2>2. Now' = Now /\ (OneStream' <=> OneStream) /\ Retired' = Retired
        BY <2>1 DEF Now, OneStream, Retired
  <2>3. ASSUME NEW O \in [Nat -> Objs], Says(O) PROVE Says(O)'
        BY <2>1, <2>2, <2>3 DEF Says
  <2>4. RingHolds' <=> RingHolds
        BY <2>1 DEF RingHolds
  <2> QED BY <2>1, <2>2, <2>3, <2>4 DEF ChunkInv
<1>3. CASE \E d \in down : Deliver(d)
      BY <1>3, ChunkDeliver
<1>4. CASE \E a \in up : drain_inputs(a)
      BY <1>4, ChunkDrain
<1>5. CASE Dock
      BY <1>5 DEF Dock, ChunkInv
<1>6. CASE left_the_sector
      BY <1>6 DEF left_the_sector, ChunkInv
<1>7. CASE Seat
  <2>1. /\ seated = "home" /\ UNCHANGED <<down, taken, named, chunk>>
        /\ srv' = Seated(next_epoch(srv.stream), Len(events))
        BY <1>7 DEF Seat, client, history
  <2>2. /\ srv'.stream = next_epoch(srv.stream) /\ srv'.seq = 0 /\ srv'.retired = {}
        /\ srv'.acked = NONE
        BY <2>1 DEF Seated
  <2>3. /\ \A d \in down : d.stream # srv'.stream
        /\ \A n \in Nat : <<srv'.stream, n>> \notin taken
        BY <2>1, <2>2 DEF FreshStreams, AckInv
  <2>4. taken \in SUBSET (Nat \X Nat)
        BY DEF TypeInv, HistoryTypes
  <2>5. OneStream' => taken = {}
        BY <2>1, <2>3, <2>4 DEF OneStream
  <2> DEFINE O == [n \in Nat |-> Nothing]
  <2>6. O \in [Nat -> Objs]
        BY BlankIs
  <2>7. Now' = {}
        BY <2>1, <2>3 DEF Now
  <2>8. Says(O)'
        BY <2>1, <2>2, <2>3, <2>5, <2>7 DEF Says, LastSays, ChunkInv
  <2>9. RingHolds'
        BY <2>2 DEF RingHolds
  <2>10. named' = {}
        BY <2>1 DEF ChunkInv
  <2> QED BY <1>7, <2>2, <2>6, <2>8, <2>9, <2>10 DEF ChunkInv, Seat
<1> QED BY <1>1, <1>2, <1>3, <1>4, <1>5, <1>6, <1>7 DEF Next, Polls

-----------------------------------------------------------------------------
LEMMA WinAlways == Spec => ([]FreshStreams => []WinInv)
<1>1. Init => WinInv
      BY WinInit
<1>2. TypeInv /\ StreamInv /\ AckInv /\ WinInv /\ FreshStreams /\ [Next]_vars => WinInv'
      BY WinNext
<1> QED BY <1>1, <1>2, AckAlways, PTL DEF Spec

(* With every datagram the client took named in time, and nothing more to say of the chunk, the
   client has it as it is: the last record it took of it is the last the server retired
   (object_candidates against the acked version). *)
THEOREM ChunkIsInStep == Spec => ([]FreshStreams => []InStep)
<1>1. Init => ChunkInv
      BY ChunkInit
<1>2. TypeInv /\ StreamInv /\ AckInv /\ WinInv /\ ChunkInv /\ FreshStreams /\ [Next]_vars => ChunkInv'
      BY ChunkNext
<1>3. TypeInv /\ AckInv /\ ChunkInv => InStep
      BY ChunkImplies
<1> QED BY <1>1, <1>2, <1>3, AckAlways, WinAlways, PTL DEF Spec

-----------------------------------------------------------------------------
(* A suit that has left the client's sensors is forgotten.  In the books s of the server, a
   record counts no more notices than are queued; while the suit isn't known and the last
   notice, of tick T, waits, nothing in flight shows the suit later than T, and a datagram
   with all the notices shows none and none after it does: once the client has that one it
   knows the suit no more.  Once they're all acked, nothing it will take shows the suit. *)
LiveIn(s, n) == s.floor <= n /\ n < s.seq /\ s.sent[n % SentRing].n = n
LeavesFit(s) == \A n \in Nat : LiveIn(s, n) => s.sent[n % SentRing].leaves <= Len(s.leaves)
Silent(T, n) ==
    /\ \A d \in down : d.stream = srv.stream /\ d.n >= n => ~d.suit
    /\ \A d \in down : d.stream = srv.stream /\ d.n = n =>
          ~d.more /\ \E k \in DOMAIN d.leaves : d.leaves[k] = T
    /\ <<srv.stream, n>> \in taken => track = 0
AllAcked ==
    /\ track = 0
    /\ \A d \in down : d.stream = srv.stream /\ d.suit => win.stream = srv.stream /\ d.n <= win.newest
Waiting(s) ==
    \E T \in Nat :
       /\ T = s.leaves[Len(s.leaves)] /\ track <= T
       /\ \A d \in down : d.stream = srv.stream /\ d.suit => d.tick <= T
       /\ \A n \in Nat : LiveIn(s, n) /\ s.sent[n % SentRing].leaves = Len(s.leaves) => Silent(T, n)
Forgotten(s) == (s.leaves = <<>> => AllAcked) /\ (s.leaves # <<>> => Waiting(s))
SuitInv ==
    /\ track <= tick
    /\ seated = "home" /\ taken = {} => track = 0
    /\ seated = "flying" =>
          /\ LeavesFit(srv)
          /\ OneStream /\ ~spilled /\ ~srv.known => Forgotten(srv)

LEMMA SuitImplies == SuitInv => SuitForgotten
BY DEF SuitInv, SuitForgotten, Forgotten, AllAcked

LEMMA SuitInit == Init => SuitInv
<1> SUFFICES ASSUME Init PROVE SuitInv
    OBVIOUS
<1>1. PICK s \in Starts : srv = [Seated(1, 0) EXCEPT !.seq = s, !.floor = s]
      BY DEF Init
<1>2. srv.seq = s /\ srv.floor = s /\ srv.leaves = <<>> /\ s \in Nat
      BY <1>1, ConstantsAre DEF Seated
<1>3. down = {} /\ track = 0 /\ tick = 1
      BY DEF Init
<1> QED BY <1>2, <1>3 DEF SuitInv, LeavesFit, LiveIn, Forgotten, AllAcked

LEMMA SuitTick == ASSUME TypeInv, AckInv, WinInv, SuitInv, Tick PROVE SuitInv'
<1>1. PICK d \in Downs, m \in Downs, more \in BOOLEAN, done \in Nat :
         Writes(d, m, more, done) /\ Notices(d) /\ Books(d, m, more, done)
      BY TickWrites
<1>2. /\ srv.seq \in Nat /\ srv.floor \in Nat /\ srv.leaves \in Seq(Nat) /\ Len(srv.leaves) \in Nat
      /\ Len(srv.leaves) <= LeaveQueue /\ LeaveQueue \in Nat /\ tick \in Nat /\ track \in Nat
      /\ \A x \in down : x.n \in Nat /\ x.tick \in Nat
      /\ srv.known \in BOOLEAN /\ sight' \in BOOLEAN
  <2>1. /\ srv.seq \in Nat /\ srv.floor \in Nat /\ srv.leaves \in Seq(Nat) /\ srv.known \in BOOLEAN
        /\ Len(srv.leaves) <= LeaveQueue
        BY DEF TypeInv, Fit, Servers
  <2>2. tick \in Nat /\ track \in Nat
        BY DEF TypeInv, WorldTypes, ClientTypes
  <2>3. \A x \in down : x.n \in Nat /\ x.tick \in Nat
        BY DEF TypeInv, WireTypes, Downs
  <2>4. sight' \in BOOLEAN
        BY <1>1 DEF Writes
  <2> QED BY <2>1, <2>2, <2>3, <2>4, ConstantsAre
<1>3. /\ seated = "flying" /\ UNCHANGED <<seated, taken, track, win>> /\ tick' = tick + 1
      /\ srv'.stream = srv.stream /\ srv'.floor = srv.floor
      /\ (spilled' <=> spilled \/ (srv.known /\ ~sight' /\ Len(srv.leaves) = LeaveQueue))
  <2>1. /\ seated = "flying" /\ UNCHANGED <<seated, taken, track, win>> /\ tick' = tick + 1
        /\ spilled' = (spilled \/ (srv.known /\ ~sight' /\ Len(srv.leaves) = LeaveQueue))
        BY DEF Tick, client
  <2> QED BY <2>1, TickKeeps
<1>4. /\ d.n = srv.seq /\ d.tick = tick + 1 /\ d.stream = srv.stream /\ ~d.more
      /\ m.n = srv.seq + 1
      BY <1>1 DEF Writes
<1>5. /\ srv'.leaves = IF srv.known /\ ~sight' /\ Len(srv.leaves) < LeaveQueue
                       THEN Append(srv.leaves, tick + 1) ELSE srv.leaves
      /\ Len(d.leaves) <= Len(srv'.leaves) /\ d.leaves = SubSeq(srv'.leaves, 1, Len(d.leaves))
      BY <1>1 DEF Notices
<1>6. /\ srv'.leaves \in Seq(Nat) /\ Len(srv'.leaves) \in Nat /\ Len(srv.leaves) <= Len(srv'.leaves)
      /\ srv'.leaves # srv.leaves => /\ Len(srv'.leaves) = Len(srv.leaves) + 1
                                     /\ srv'.leaves[Len(srv.leaves) + 1] = tick + 1
  <2> DEFINE l == Append(srv.leaves, tick + 1)
  <2>1. l \in Seq(Nat) /\ Len(l) = Len(srv.leaves) + 1 /\ l[Len(srv.leaves) + 1] = tick + 1
        BY <1>2
  <2>2. srv'.leaves = l \/ srv'.leaves = srv.leaves
        BY <1>5
  <2> HIDE DEF l
  <2> QED BY <1>2, <2>1, <2>2
<1>7. \A x \in down' : x \in down \/ x = d \/ (more /\ x = m)
      BY <1>1 DEF Books
<1>8. \A x \in down : x.stream = srv.stream => x.n < srv.seq
      BY <1>3 DEF AckInv
(* What is live after the tick was before, or is new. *)
<1>9. ASSUME NEW n \in Nat, LiveIn(srv, n)'
      PROVE  \/ LiveIn(srv, n) /\ srv'.sent[n % SentRing] = srv.sent[n % SentRing]
             \/ n = srv.seq /\ srv'.sent[n % SentRing].leaves = Len(d.leaves)
             \/ more /\ n = srv.seq + 1 /\ srv'.sent[n % SentRing].leaves = 0
  <2> DEFINE k == n % SentRing
  <2>0. srv'.floor <= n /\ n < srv'.seq /\ srv'.sent[k].n = n
        BY <1>9 DEF LiveIn
  <2>1. k \in 0 .. SentRing - 1
        BY ConstantsAre, ModIs
  <2> HIDE DEF k
  <2>2. \/ /\ k # srv.seq % SentRing /\ (more => k # (srv.seq + 1) % SentRing)
           /\ srv'.sent[k] = srv.sent[k]
        \/ srv'.sent[k] = RecordFor(d, done)
        \/ more /\ srv'.sent[k] = RecordFor(m, 0)
        BY <1>1, <2>1 DEF Books
  <2>3. CASE srv'.sent[k] = RecordFor(d, done)
        BY <1>4, <2>0, <2>3 DEF RecordFor, k
  <2>4. CASE more /\ srv'.sent[k] = RecordFor(m, 0)
    <3>1. m.leaves = <<>>
          BY <1>1 DEF Writes
    <3> QED BY <1>4, <2>0, <2>4, <3>1 DEF RecordFor, k
  <2>5. CASE /\ k # srv.seq % SentRing /\ (more => k # (srv.seq + 1) % SentRing)
             /\ srv'.sent[k] = srv.sent[k]
    <3>1. srv'.seq = IF more THEN srv.seq + 2 ELSE srv.seq + 1
          BY <1>1 DEF Books
    <3>2. n # srv.seq /\ (more => n # srv.seq + 1)
          BY <2>5 DEF k
    <3>3. n < srv.seq
          BY <1>2, <2>0, <3>1, <3>2
    <3> QED BY <1>3, <2>0, <2>5, <3>3 DEF LiveIn, k
  <2> QED BY <2>2, <2>3, <2>4, <2>5
<1>10. LeavesFit(srv)'
  <2> SUFFICES ASSUME NEW n \in Nat, LiveIn(srv, n)'
               PROVE  srv'.sent[n % SentRing].leaves <= Len(srv'.leaves)
      BY DEF LeavesFit
  <2>1. CASE LiveIn(srv, n) /\ srv'.sent[n % SentRing] = srv.sent[n % SentRing]
    <3>1. srv.sent[n % SentRing].leaves <= Len(srv.leaves)
          BY <1>3, <2>1 DEF SuitInv, LeavesFit
    <3>2. srv.sent[n % SentRing].leaves \in Nat
      <4>1. n % SentRing \in 0 .. SentRing - 1
            BY ConstantsAre, ModIs
      <4>2. srv.sent \in [0 .. SentRing - 1 -> Recs]
            BY DEF TypeInv, Fit, Servers, Rings
      <4> QED BY <4>1, <4>2 DEF Recs
    <3> QED BY <1>2, <1>6, <2>1, <3>1, <3>2
  <2> QED BY <1>5, <1>6, <1>9, <2>1
<1>11. ASSUME OneStream, ~spilled', ~srv'.known PROVE Forgotten(srv)'
  <2>1. ~d.suit /\ ~more /\ ~(srv.known /\ sight')
        BY <1>1, <1>11 DEF Books
  <2>2. \A x \in down' : x.stream = srv.stream /\ x.suit => x \in down
        BY <1>7, <2>1
  (* A datagram of this tick that has all the notices. *)
  <2>3. ASSUME srv'.leaves # <<>>, Len(d.leaves) = Len(srv'.leaves),
               NEW T \in Nat, T = srv'.leaves[Len(srv'.leaves)], NEW n, n = srv.seq
        PROVE  Silent(T, n)'
    <3>1. PICK l \in Seq(Nat) : l = srv'.leaves
          BY <1>6
    <3>2. d.leaves = l /\ l # <<>>
      <4>1. l \in Seq(Nat) /\ SubSeq(l, 1, Len(l)) = l
            BY <3>1
      <4> QED BY <1>5, <2>3, <3>1, <4>1
    <3>3. Len(l) \in DOMAIN d.leaves /\ d.leaves[Len(l)] = T
          BY <2>3, <3>1, <3>2
    <3>4. \A x \in down' : x.stream = srv.stream /\ x.n >= srv.seq => x = d
          BY <1>2, <1>7, <1>8, <2>1
    <3>5. <<srv.stream, srv.seq>> \notin taken
          BY <1>2, <1>3 DEF AckInv
    <3>6. \A x \in down' : x.stream = srv.stream /\ x.n >= srv.seq => ~x.suit
          BY <2>1, <3>4
    <3>7. \A x \in down' : x.stream = srv.stream /\ x.n = srv.seq =>
             ~x.more /\ \E k \in DOMAIN x.leaves : x.leaves[k] = T
      <4>1. ~d.more /\ \E k \in DOMAIN d.leaves : d.leaves[k] = T
            BY <1>4, <3>3
      <4>2. \A x \in down' : x.stream = srv.stream /\ x.n = srv.seq => x = d
            BY <1>2, <3>4
      <4> QED BY <4>1, <4>2
    <3> QED BY <1>3, <2>3, <3>5, <3>6, <3>7 DEF Silent
  <2>4. CASE srv.known
    <3>1. ~sight' /\ ~spilled /\ Len(srv.leaves) < LeaveQueue
          BY <1>2, <1>3, <1>11, <2>1, <2>4
    <3>2. srv'.leaves # srv.leaves /\ srv'.leaves # <<>>
      <4>1. srv'.leaves = Append(srv.leaves, tick + 1) /\ Len(Append(srv.leaves, tick + 1)) = Len(srv.leaves) + 1
            BY <1>2, <1>5, <2>4, <3>1
      <4>2. Len(srv'.leaves) = Len(srv.leaves) + 1
            BY <4>1
      <4> QED BY <1>2, <4>2
    <3>3. PICK T \in Nat : T = tick + 1
          BY <1>2
    <3>4. T = srv'.leaves[Len(srv'.leaves)] /\ Len(srv'.leaves) = Len(srv.leaves) + 1
          BY <1>6, <3>2, <3>3
    <3>5. track' <= T
          BY <1>2, <1>3, <3>3 DEF SuitInv
    <3>6. \A x \in down' : x.stream = srv'.stream /\ x.suit => x.tick <= T
          BY <1>2, <1>3, <2>2, <3>3 DEF WinInv
    <3>7. ASSUME NEW n \in Nat, LiveIn(srv, n)', srv'.sent[n % SentRing].leaves = Len(srv'.leaves)
          PROVE  Silent(T, n)'
      <4>1. CASE LiveIn(srv, n) /\ srv'.sent[n % SentRing] = srv.sent[n % SentRing]
        <5>1. srv.sent[n % SentRing].leaves <= Len(srv.leaves)
              BY <1>3, <4>1 DEF SuitInv, LeavesFit
        <5> QED BY <1>2, <3>4, <3>7, <4>1, <5>1
      <4>2. CASE n = srv.seq /\ srv'.sent[n % SentRing].leaves = Len(d.leaves)
            BY <2>3, <3>2, <3>4, <3>7, <4>2
      <4> QED BY <1>9, <2>1, <3>7, <4>1, <4>2
    <3>8. Waiting(srv)'
          BY <3>4, <3>5, <3>6, <3>7 DEF Waiting
    <3> QED BY <3>2, <3>8 DEF Forgotten
  <2>5. CASE ~srv.known
    <3>1. srv'.leaves = srv.leaves /\ Forgotten(srv)
          BY <1>3, <1>5, <1>11, <2>5 DEF SuitInv
    <3>2. CASE srv.leaves = <<>>
      <4>1. AllAcked
            BY <3>1, <3>2 DEF Forgotten
      <4>2. AllAcked'
            BY <1>3, <2>2, <4>1 DEF AllAcked
      <4> QED BY <3>1, <3>2, <4>2 DEF Forgotten
    <3>3. CASE srv.leaves # <<>>
      <4>1. PICK T \in Nat :
               /\ T = srv.leaves[Len(srv.leaves)] /\ track <= T
               /\ \A x \in down : x.stream = srv.stream /\ x.suit => x.tick <= T
               /\ \A n \in Nat : LiveIn(srv, n) /\ srv.sent[n % SentRing].leaves = Len(srv.leaves) => Silent(T, n)
            BY <3>1, <3>3 DEF Forgotten, Waiting
      <4>2. ASSUME NEW n \in Nat, LiveIn(srv, n)', srv'.sent[n % SentRing].leaves = Len(srv'.leaves)
            PROVE  Silent(T, n)'
        <5>1. CASE LiveIn(srv, n) /\ srv'.sent[n % SentRing] = srv.sent[n % SentRing]
          <6>1. Silent(T, n) /\ n < srv.seq
                BY <3>1, <4>1, <4>2, <5>1 DEF LiveIn
          <6>2. \A x \in down' : x.stream = srv.stream /\ x.n = n => x \in down
                BY <1>2, <1>4, <1>7, <2>1, <6>1
          <6> QED BY <1>3, <2>2, <6>1, <6>2 DEF Silent
        <5>2. CASE n = srv.seq /\ srv'.sent[n % SentRing].leaves = Len(d.leaves)
              BY <2>3, <3>1, <3>3, <4>1, <4>2, <5>2
        <5> QED BY <1>9, <2>1, <4>2, <5>1, <5>2
      <4>3. \A x \in down' : x.stream = srv'.stream /\ x.suit => x.tick <= T
            BY <1>3, <2>2, <4>1
      <4>4. Waiting(srv)'
            BY <1>3, <3>1, <4>1, <4>2, <4>3 DEF Waiting
      <4> QED BY <3>1, <3>3, <4>4 DEF Forgotten
    <3> QED BY <3>2, <3>3
  <2> QED BY <2>4, <2>5
<1> QED BY <1>2, <1>3, <1>10, <1>11 DEF SuitInv, OneStream

-----------------------------------------------------------------------------
(* What taking a datagram makes of the track. *)
LEMMA ApplyIs ==
    ASSUME NEW d, Takes(d, check(win, d))
    PROVE  /\ taken' = taken \cup {<<d.stream, d.n>>}
           /\ track' \in {0, IF d.suit THEN d.tick ELSE track}
           /\ \A T : /\ ~d.more /\ (\E k \in DOMAIN d.leaves : d.leaves[k] = T)
                     /\ (IF d.suit THEN d.tick ELSE track) <= T
                     => track' = 0
BY DEF Takes, apply

LEMMA SuitDeliver ==
    ASSUME TypeInv, StreamInv, AckInv, WinInv, SuitInv, NEW d \in down, Deliver(d)
    PROVE  SuitInv'
<1>1. /\ InTime(d) /\ down' = down \ {d}
      /\ UNCHANGED <<seated, srv, spilled, tick>>
      /\ \/ UNCHANGED <<client, taken>>
         \/ Takes(d, check(win, d))
      BY DeliverIs
<1>2. LeavesFit(srv)' <=> LeavesFit(srv)
      BY <1>1 DEF LeavesFit, LiveIn
<1>3. CASE UNCHANGED <<client, taken>>
  <2>1. UNCHANGED <<track, win, taken>> /\ (OneStream' <=> OneStream)
        BY <1>1, <1>3 DEF client, OneStream
  <2>2. \A T, n : Silent(T, n) => Silent(T, n)'
        BY <1>1, <2>1 DEF Silent
  <2>3. Forgotten(srv) => Forgotten(srv)'
        BY <1>1, <2>1, <2>2 DEF Forgotten, AllAcked, Waiting, LiveIn
  <2> QED BY <1>1, <1>2, <2>1, <2>3 DEF SuitInv
<1>4. CASE Takes(d, check(win, d))
  <2> DEFINE with == IF d.suit THEN d.tick ELSE track
  <2>1. /\ tick \in Nat /\ track \in Nat /\ d.tick \in Nat /\ d.n \in Nat /\ d.suit \in BOOLEAN
        /\ win.newest \in Nat /\ win \in Windows /\ d \in Downs
        /\ \A x \in down : x.n \in Nat
        BY DEF TypeInv, WorldTypes, ClientTypes, WireTypes, Downs, Windows
  <2>2. taken' = taken \cup {<<d.stream, d.n>>} /\ track' \in {0, with}
        BY <1>4, ApplyIs
  <2>3. \A T : ~d.more /\ (\E k \in DOMAIN d.leaves : d.leaves[k] = T) /\ with <= T => track' = 0
        BY <1>4, ApplyIs
  <2>4. with \in Nat /\ with <= tick
        BY <2>1 DEF WinInv, SuitInv
  <2> HIDE DEF with
  <2>5. track' <= tick'
        BY <1>1, <2>1, <2>2, <2>4
  <2> SUFFICES ASSUME seated = "flying", OneStream', ~spilled, ~srv.known PROVE Forgotten(srv)'
    <3>1. taken' # {}
          BY <2>2
    <3>2. SuitInv' <=> /\ seated = "flying" => LeavesFit(srv)
                       /\ seated = "flying" /\ OneStream' /\ ~spilled /\ ~srv.known => Forgotten(srv)'
          BY <1>1, <1>2, <2>5, <3>1 DEF SuitInv
    <3> QED BY <3>2 DEF SuitInv
  <2>6. OneStream /\ d.stream = srv.stream
    <3>1. \A x \in taken' : x[1] = srv.stream
          BY <1>1 DEF OneStream
    <3>2. <<d.stream, d.n>> \in taken' /\ taken \in SUBSET taken'
          BY <2>2
    <3> QED BY <3>1, <3>2 DEF OneStream
  <2>7. Forgotten(srv)
        BY <2>6 DEF SuitInv
  <2>8. /\ check(win, d) # Stale /\ check(win, d).n = d.n
        /\ win.stream = srv.stream => win.newest < d.n
        BY <1>1, <1>4, <2>6, TakenIs DEF Takes
  <2>9. win'.stream = srv.stream /\ win'.newest = d.n
    <3> DEFINE verdict == check(win, d)
    <3>1. verdict.n \in Nat /\ win' = commit(win, d, verdict) /\ verdict.n = d.n
          BY <1>4, <2>1, <2>8 DEF Takes
    <3> HIDE DEF verdict
    <3> QED BY <2>1, <2>6, <3>1, CommitIs
  <2>10. CASE srv.leaves = <<>>
    <3>1. AllAcked
          BY <2>7, <2>10 DEF Forgotten
    <3>2. ~d.suit
          BY <2>1, <2>6, <2>8, <3>1 DEF AllAcked
    <3>3. track' = 0
          BY <2>2, <3>1, <3>2 DEF AllAcked, with
    <3>4. ASSUME NEW x \in down', x.stream = srv.stream, x.suit PROVE x.n <= win'.newest
      <4>1. win.stream = srv.stream /\ x.n <= win.newest /\ x.n \in Nat
            BY <1>1, <2>1, <3>1, <3>4 DEF AllAcked
      <4> QED BY <2>1, <2>8, <2>9, <4>1
    <3> QED BY <1>1, <2>9, <2>10, <3>3, <3>4 DEF Forgotten, AllAcked
  <2>11. CASE srv.leaves # <<>>
    <3>1. PICK T \in Nat :
             /\ T = srv.leaves[Len(srv.leaves)] /\ track <= T
             /\ \A x \in down : x.stream = srv.stream /\ x.suit => x.tick <= T
             /\ \A n \in Nat : LiveIn(srv, n) /\ srv.sent[n % SentRing].leaves = Len(srv.leaves) => Silent(T, n)
          BY <2>7, <2>11 DEF Forgotten, Waiting
    <3>2. with <= T
          BY <2>6, <3>1 DEF with
    <3>3. track' <= T
          BY <2>2, <3>1, <3>2
    <3>4. ASSUME NEW n \in Nat, LiveIn(srv, n), srv.sent[n % SentRing].leaves = Len(srv.leaves)
          PROVE  Silent(T, n)'
      <4>1. Silent(T, n)
            BY <3>1, <3>4
      <4>2. <<srv.stream, n>> \in taken' => track' = 0
        <5>1. CASE n = d.n
          <6>1. ~d.more /\ \E k \in DOMAIN d.leaves : d.leaves[k] = T
                BY <2>6, <4>1, <5>1 DEF Silent
          <6> QED BY <2>3, <3>2, <6>1
        <5>2. CASE n # d.n /\ <<srv.stream, n>> \in taken
          <6>1. track = 0 /\ win.stream = srv.stream /\ n <= win.newest
                BY <4>1, <5>2 DEF Silent, WinInv
          <6>2. d.n >= n
                BY <2>1, <2>8, <6>1
          <6>3. ~d.suit
                BY <2>6, <4>1, <6>2 DEF Silent
          <6> QED BY <2>2, <6>1, <6>3 DEF with
        <5> QED BY <2>2, <5>1, <5>2
      <4> QED BY <1>1, <4>1, <4>2 DEF Silent
    <3>5. Waiting(srv)'
          BY <1>1, <3>1, <3>3, <3>4 DEF Waiting, LiveIn
    <3> QED BY <1>1, <2>11, <3>5 DEF Forgotten
  <2> QED BY <2>10, <2>11
<1> QED BY <1>1, <1>3, <1>4

(* What is left of a queue l when its first c are cut off. *)
LeavesLeft(q, l, c) ==
    /\ Len(q) = Len(l) - c
    /\ c < Len(l) => q # <<>> /\ q[Len(q)] = l[Len(l)]
    /\ c = Len(l) => q = <<>>

LEMMA CutIs ==
    ASSUME NEW l \in Seq(Nat), NEW c \in Nat, c <= Len(l)
    PROVE  LeavesLeft(SubSeq(l, c + 1, Len(l)), l, c)
<1> DEFINE q == SubSeq(l, c + 1, Len(l))
<1>0. Len(l) \in Nat
      OBVIOUS
<1>1. q \in Seq(Nat) /\ Len(q) = Len(l) - c
      BY <1>0
<1>2. \A i \in 1 .. Len(l) - c : q[i] = l[c + i]
      BY <1>0
<1>3. c < Len(l) => q[Len(l) - c] = l[Len(l)]
  <2>1. c < Len(l) => Len(l) - c \in 1 .. Len(l) - c /\ c + (Len(l) - c) = Len(l)
        BY <1>0
  <2> QED BY <1>2, <2>1
<1> HIDE DEF q
<1>4. c = Len(l) => q = <<>>
      BY <1>0, <1>1
<1>5. c < Len(l) => q # <<>>
      BY <1>0, <1>1
<1> QED BY <1>1, <1>3, <1>4, <1>5 DEF LeavesLeft, q

LEMMA ShiftedLeaves ==
    ASSUME NEW r \in Rings, NEW n \in Nat, NEW k \in Nat, NEW i \in 0 .. SentRing - 1
    PROVE  /\ Shifted(r, n, k)[i].n = r[i].n
           /\ r[i].n > n => Shifted(r, n, k)[i].leaves = IF r[i].leaves > k THEN r[i].leaves - k ELSE 0
BY ShiftedIs

LEMMA SuitRetire ==
    ASSUME TypeInv, WinInv, seated = "flying", NEW s, Fit(s), s.seq = srv.seq, LeavesFit(s),
           NEW n \in Nat, n < srv.seq, Retires(s, n), <<srv.stream, n>> \in taken
    PROVE  /\ LeavesFit(retire(s, n))
           /\ Forgotten(s) => Forgotten(retire(s, n))
<1> DEFINE t == retire(s, n)
           r == s.sent[n % SentRing]
           l == s.leaves
           c == r.leaves
<1>1. IsRetired(t, s, n)
      BY RetireIs
<1>2. /\ r \in Recs /\ t.seq = s.seq /\ t.floor = n + 1 /\ Fit(t)
      /\ t.leaves = SubSeq(l, Least(c, Len(l)) + 1, Len(l))
      /\ t.sent = Shifted(s.sent, n, Least(c, Len(l)))
      BY <1>1 DEF IsRetired
<1>3. /\ l \in Seq(Nat) /\ Len(l) \in Nat /\ c \in Nat /\ s.floor \in Nat /\ s.seq \in Nat
      /\ s.sent \in Rings
  <2>1. s \in Servers
        BY DEF Fit
  <2>2. l \in Seq(Nat) /\ s.floor \in Nat /\ s.seq \in Nat /\ s.sent \in Rings
        BY <2>1 DEF Servers
  <2>3. Len(l) \in Nat
        BY <2>2
  <2>4. c \in Nat
    <3> HIDE DEF r
    <3> QED BY <1>2 DEF Recs
  <2> QED BY <2>2, <2>3, <2>4
<1>4. n >= s.floor /\ LiveIn(s, n)
      BY DEF Retires, LiveIn
<1>5. c <= Len(l)
      BY <1>4 DEF LeavesFit
<1>6. Least(c, Len(l)) = c
      BY <1>3, <1>5 DEF Least
<1>7. LeavesLeft(t.leaves, l, c)
  <2>1. t.leaves = SubSeq(l, c + 1, Len(l))
        BY <1>2, <1>6
  <2> HIDE DEF l, c, t, r
  <2> QED BY <1>3, <1>5, <2>1, CutIs
<1>8. ASSUME NEW m \in Nat, LiveIn(t, m)
      PROVE  LiveIn(s, m) /\ \E q \in Nat : /\ s.sent[m % SentRing].leaves = q
                                          /\ t.sent[m % SentRing].leaves = IF q > c THEN q - c ELSE 0
  <2> DEFINE k == m % SentRing
             ring == s.sent
  <2>0. t.floor <= m /\ m < t.seq /\ t.sent[k].n = m
        BY <1>8 DEF LiveIn
  <2>1. k \in 0 .. SentRing - 1
        BY ConstantsAre, ModIs
  <2>2. ring \in Rings
        BY <1>3
  <2>3. t.sent = Shifted(ring, n, c)
        BY <1>2, <1>6
  <2>4. s.floor \in Nat /\ s.seq \in Nat /\ c \in Nat /\ t.seq = s.seq /\ t.floor = n + 1 /\ n >= s.floor
        BY <1>2, <1>3, <1>4
  <2> HIDE DEF k, ring, t, r, l, c
  <2>5. /\ Shifted(ring, n, c)[k].n = ring[k].n
        /\ ring[k].n > n =>
              Shifted(ring, n, c)[k].leaves = IF ring[k].leaves > c THEN ring[k].leaves - c ELSE 0
        BY <2>1, <2>2, <2>4, ShiftedLeaves
  <2>6. ring[k].n = m
        BY <2>0, <2>3, <2>5
  <2>7. m > n /\ s.floor <= m /\ m < s.seq
        BY <2>0, <2>4
  <2>8. ring[k].leaves \in Nat
        BY <2>1, <2>2 DEF Rings, Recs
  <2>9. t.sent[k].leaves = IF ring[k].leaves > c THEN ring[k].leaves - c ELSE 0
        BY <2>3, <2>5, <2>6, <2>7
  <2> QED BY <2>6, <2>7, <2>8, <2>9 DEF LiveIn, k, ring
<1> HIDE DEF t, r, l, c
<1>9. LeavesFit(t)
  <2> SUFFICES ASSUME NEW m \in Nat, LiveIn(t, m) PROVE t.sent[m % SentRing].leaves <= Len(t.leaves)
      BY DEF LeavesFit
  <2>1. PICK q \in Nat : /\ s.sent[m % SentRing].leaves = q
                       /\ t.sent[m % SentRing].leaves = IF q > c THEN q - c ELSE 0
        BY <1>8
  <2>2. q <= Len(l)
        BY <1>8, <2>1 DEF LeavesFit, l
  <2>3. Len(t.leaves) = Len(l) - c
        BY <1>7 DEF LeavesLeft
  <2> QED BY <1>3, <1>5, <2>1, <2>2, <2>3
<1>10. ASSUME Forgotten(s) PROVE Forgotten(t)
  <2>1. CASE l = <<>>
    <3>1. AllAcked
          BY <1>10, <2>1 DEF Forgotten, l
    <3>2. c = Len(l)
          BY <1>3, <1>5, <2>1
    <3> QED BY <1>7, <3>1, <3>2 DEF Forgotten, LeavesLeft
  <2>2. CASE l # <<>>
    <3>1. PICK T \in Nat :
             /\ T = l[Len(l)] /\ track <= T
             /\ \A x \in down : x.stream = srv.stream /\ x.suit => x.tick <= T
             /\ \A m \in Nat : LiveIn(s, m) /\ s.sent[m % SentRing].leaves = Len(l) => Silent(T, m)
          BY <1>10, <2>2 DEF Forgotten, Waiting, l
    <3>2. CASE c < Len(l)
      <4>1. ASSUME NEW m \in Nat, LiveIn(t, m), t.sent[m % SentRing].leaves = Len(t.leaves)
            PROVE  Silent(T, m)
        <5>1. PICK q \in Nat : /\ s.sent[m % SentRing].leaves = q
                             /\ t.sent[m % SentRing].leaves = IF q > c THEN q - c ELSE 0
              BY <1>8, <4>1
        <5>2. Len(t.leaves) = Len(l) - c
              BY <1>7 DEF LeavesLeft
        <5>6. \A len \in Nat : c < len /\ (IF q > c THEN q - c ELSE 0) = len - c => q = len
              BY <1>3
        <5>3. q = Len(l)
              BY <1>3, <3>2, <4>1, <5>1, <5>2, <5>6
        <5>4. s.sent[m % SentRing].leaves = Len(l) /\ LiveIn(s, m)
              BY <1>8, <4>1, <5>1, <5>3
        <5> QED BY <3>1, <5>4
      <4>2. Waiting(t)
            BY <1>7, <3>1, <3>2, <4>1 DEF Waiting, LeavesLeft
      <4> QED BY <1>7, <3>2, <4>2 DEF Forgotten, LeavesLeft
    <3>3. CASE c = Len(l)
      <4>1. Silent(T, n)
            BY <1>4, <3>1, <3>3 DEF c, r, l
      <4>2. track = 0 /\ win.stream = srv.stream /\ n <= win.newest
            BY <4>1 DEF Silent, WinInv
      <4>3. ASSUME NEW x \in down, x.stream = srv.stream, x.suit PROVE x.n <= win.newest
        <5>1. x.n \in Nat /\ win.newest \in Nat
              BY DEF TypeInv, WireTypes, ClientTypes, Downs, Windows
        <5>2. ~(x.n >= n)
              BY <4>1, <4>3 DEF Silent
        <5> QED BY <4>2, <5>1, <5>2
      <4>4. AllAcked
            BY <4>2, <4>3 DEF AllAcked
      <4> QED BY <1>7, <3>3, <4>4 DEF Forgotten, LeavesLeft
    <3> QED BY <1>3, <1>5, <3>2, <3>3
  <2> QED BY <2>1, <2>2
<1> QED BY <1>9, <1>10 DEF t

LEMMA SuitDrain ==
    ASSUME TypeInv, StreamInv, AckInv, WinInv, SuitInv, NEW a \in up, drain_inputs(a)
    PROVE  SuitInv'
<1>1. /\ UNCHANGED <<seated, down, taken, track, win, spilled, tick>>
      /\ seated = "flying" => srv' = on_ack(a)
      /\ seated # "flying" => srv' = srv
      BY DrainIs DEF client
<1> SUFFICES ASSUME seated = "flying" PROVE SuitInv'
    BY <1>1 DEF SuitInv
<1> DEFINE G == {s \in Servers :
                   /\ s.stream = srv.stream /\ s.seq = srv.seq /\ (s.known <=> srv.known)
                   /\ LeavesFit(s) /\ (Forgotten(srv) => Forgotten(s))}
<1>2. srv \in G
      BY DEF TypeInv, Fit, SuitInv
<1>3. ASSUME NEW s \in G, NEW n \in Nat, Fit(s), n < srv.seq, Retires(s, n), <<srv.stream, n>> \in taken
      PROVE  retire(s, n) \in G
  <2> DEFINE t == retire(s, n)
  <2>1. LeavesFit(t) /\ (Forgotten(s) => Forgotten(t))
        BY <1>3, SuitRetire
  <2>2. IsRetired(t, s, n)
        BY <1>3, RetireIs
  <2>3. t \in Servers /\ t.stream = s.stream /\ t.seq = s.seq /\ (t.known <=> s.known)
        BY <1>3, <2>2 DEF IsRetired, Fit
  <2> HIDE DEF t
  <2> QED BY <1>3, <2>1, <2>3 DEF t
<1> HIDE DEF G
<1>4. on_ack(a) \in G
      BY <1>2, <1>3, OnAckKeeps
<1>5. PICK s \in Servers : s = srv' /\ s \in G
      BY <1>1, <1>4 DEF G
<1>6. /\ srv'.stream = srv.stream /\ srv'.seq = srv.seq /\ (srv'.known <=> srv.known)
      /\ LeavesFit(s) /\ (Forgotten(srv) => Forgotten(s))
      BY <1>5 DEF G
<1>7. \A T, n : Silent(T, n)' <=> Silent(T, n)
      BY <1>1, <1>6 DEF Silent
<1>8. LeavesFit(srv)'
      BY <1>5, <1>6 DEF LeavesFit, LiveIn
<1>9. Forgotten(srv) => Forgotten(srv)'
      BY <1>1, <1>5, <1>6, <1>7 DEF Forgotten, AllAcked, Waiting, LiveIn
<1>10. OneStream' <=> OneStream
      BY <1>1, <1>6 DEF OneStream
<1> QED BY <1>1, <1>6, <1>8, <1>9, <1>10 DEF SuitInv

LEMMA SuitNext ==
    TypeInv /\ StreamInv /\ AckInv /\ WinInv /\ SuitInv /\ FreshStreams /\ [Next]_vars => SuitInv'
<1> SUFFICES ASSUME TypeInv, StreamInv, AckInv, WinInv, SuitInv, FreshStreams, [Next]_vars
             PROVE  SuitInv'
    OBVIOUS
<1>1. CASE Tick
      BY <1>1, SuitTick
<1>2. CASE Polls \/ UNCHANGED vars
  <2>1. UNCHANGED <<seated, srv, down, taken, track, win, spilled, tick>>
        BY <1>2, PollIs DEF vars, client, history
  <2>2. \A T, n : Silent(T, n)' <=> Silent(T, n)
        BY <2>1 DEF Silent
  <2>3. Forgotten(srv) => Forgotten(srv)'
        BY <2>1, <2>2 DEF Forgotten, AllAcked, Waiting, LiveIn
  <2>4. LeavesFit(srv)' <=> LeavesFit(srv)
        BY <2>1 DEF LeavesFit, LiveIn
  <2> QED BY <2>1, <2>3, <2>4 DEF SuitInv, OneStream
<1>3. CASE \E d \in down : Deliver(d)
      BY <1>3, SuitDeliver
<1>4. CASE \E a \in up : drain_inputs(a)
      BY <1>4, SuitDrain
<1>5. CASE Dock
      BY <1>5 DEF Dock, SuitInv, client
<1>6. CASE left_the_sector
  <2>1. tick \in Nat /\ track' = 0 /\ tick' = tick /\ seated' = "home"
        BY <1>6 DEF left_the_sector, TypeInv, WorldTypes
  <2> QED BY <2>1 DEF SuitInv
<1>7. CASE Seat
  <2>1. /\ seated = "home" /\ seated' = "flying" /\ UNCHANGED <<down, taken, track, tick>>
        /\ srv' = Seated(next_epoch(srv.stream), Len(events))
        BY <1>7 DEF Seat, client, history
  <2>2. /\ srv'.stream = next_epoch(srv.stream) /\ srv'.seq = 0 /\ srv'.leaves = <<>>
        BY <2>1 DEF Seated
  <2>3. /\ \A d \in down : d.stream # srv'.stream
        /\ \A n \in Nat : <<srv'.stream, n>> \notin taken
        BY <2>1, <2>2 DEF FreshStreams, AckInv
  <2>4. taken \in SUBSET (Nat \X Nat)
        BY DEF TypeInv, HistoryTypes
  <2>5. OneStream' => taken = {}
        BY <2>1, <2>3, <2>4 DEF OneStream
  <2>6. OneStream' => Forgotten(srv)'
        BY <2>1, <2>2, <2>3, <2>5 DEF Forgotten, AllAcked, SuitInv
  <2>7. LeavesFit(srv)'
        BY <2>2 DEF LeavesFit, LiveIn
  <2> QED BY <2>1, <2>6, <2>7 DEF SuitInv
<1> QED BY <1>1, <1>2, <1>3, <1>4, <1>5, <1>6, <1>7 DEF Next, Polls

(* A suit no longer known whose notice was sent and acked isn't on the client's screen: no
   record of it newer than the notice can still be taken, and retire cuts from the queue only
   what the datagram that was taken carried. *)
THEOREM SuitIsForgotten == Spec => ([]FreshStreams => []SuitForgotten)
<1>1. Init => SuitInv
      BY SuitInit
<1>2. TypeInv /\ StreamInv /\ AckInv /\ WinInv /\ SuitInv /\ FreshStreams /\ [Next]_vars => SuitInv'
      BY SuitNext
<1>3. SuitInv => SuitForgotten
      BY SuitImplies
<1> QED BY <1>1, <1>2, <1>3, AckAlways, WinAlways, PTL DEF Spec

-----------------------------------------------------------------------------
(* Records are numbered in the order the sector wrote them, f of their ticks: those of a list
   k the client keeps are in that order, with as many between two as were written at most. *)
Rising(f, k) ==
    \A i, j \in 1 .. Len(k) : i < j => f[k[i]] + (j - i) <= f[k[j]]

(* The client kept the record of tick b, and has it still unless it kept Kept later ones. *)
HoldsIn(f, k, b) ==
    \/ \E i \in 1 .. Len(k) : k[i] = b
    \/ Len(k) = Kept /\ \A i \in 1 .. Len(k) : f[b] < f[k[i]]

(* A record is put at the end of the list, with the oldest dropped if it's full. *)
LEMMA PutShifts ==
    ASSUME NEW k \in Seq(Nat), Len(k) <= Kept, NEW t \in Nat
    PROVE  \E c \in Nat :
              /\ c = IF Len(k) = Kept THEN 1 ELSE 0
              /\ Put(k, t) \in Seq(Nat) /\ Len(Put(k, t)) = Len(k) + 1 - c
              /\ Put(k, t)[Len(k) + 1 - c] = t
              /\ \A i \in 1 .. Len(k) - c : Put(k, t)[i] = k[i + c]
<1>0. Len(k) \in Nat
      OBVIOUS
<1>1. CASE Len(k) < Kept
  <2> DEFINE p == Append(k, t)
  <2>1. p \in Seq(Nat) /\ Len(p) = Len(k) + 1 /\ p[Len(k) + 1] = t
        BY <1>0
  <2>2. \A i \in 1 .. Len(k) : p[i] = k[i]
        BY <1>0
  <2>3. Put(k, t) = p
        BY <1>1, PutIs
  <2> HIDE DEF p
  <2>4. \A i \in 1 .. Len(k) - 0 : p[i] = k[i + 0]
        BY <1>0, <2>2
  <2> QED BY <1>0, <1>1, <2>1, <2>3, <2>4, ConstantsAre
<1>2. CASE ~(Len(k) < Kept)
  <2> DEFINE l == Tail(k)
             p == Append(l, t)
  <2>1. Put(k, t) = p /\ Len(k) = Kept /\ k # <<>>
        BY <1>2, PutIs, ConstantsAre
  <2>2. l \in Seq(Nat) /\ Len(l) = Len(k) - 1 /\ \A i \in 1 .. Len(k) - 1 : l[i] = k[i + 1]
        BY <1>0, <2>1
  <2> HIDE DEF l
  <2>3. p \in Seq(Nat) /\ Len(p) = Len(l) + 1 /\ p[Len(l) + 1] = t /\ \A i \in 1 .. Len(l) : p[i] = l[i]
        BY <2>2
  <2> HIDE DEF p
  <2>4. Len(p) = Len(k) + 1 - 1 /\ p[Len(k) + 1 - 1] = t /\ \A i \in 1 .. Len(k) - 1 : p[i] = k[i + 1]
        BY <1>0, <2>2, <2>3
  <2> QED BY <2>1, <2>3, <2>4
<1> QED BY <1>1, <1>2

(* The same of numbers alone: x are those of the list, of n at most m, and y are those once z,
   above them all, is put at its end. *)
Spread(x, n) == \A i, j \in 1 .. n : i < j => x[i] + (j - i) <= x[j]

Grown(x, n, y, m, c) ==
    /\ Spread(y, n + 1 - c)
    /\ \A i \in 1 .. n + 1 - c : i \in 1 .. n - c \/ i = n + 1 - c
    /\ \A b \in Nat : n = m /\ (\A i \in 1 .. n : b < x[i]) =>
           n + 1 - c = m /\ \A i \in 1 .. n + 1 - c : b < y[i]
    /\ n = m => n + 1 - c = m /\ \A i \in 1 .. n + 1 - c : x[1] < y[i]

LEMMA SpreadGrows ==
    ASSUME NEW n \in Nat, NEW m \in Nat \ {0}, n <= m, NEW c \in Nat, c = IF n = m THEN 1 ELSE 0,
           NEW x, \A i \in 1 .. n : x[i] \in Nat, NEW z \in Nat, \A i \in 1 .. n : x[i] < z,
           Spread(x, n), NEW y, y[n + 1 - c] = z, \A i \in 1 .. n - c : y[i] = x[i + c]
    PROVE  Grown(x, n, y, m, c)
<1>1. c <= 1 /\ n - c \in Nat /\ n + 1 - c \in Nat
      OBVIOUS
<1>2. \A i \in 1 .. n - c : i + c \in 1 .. n
      BY <1>1
<1>3. \A i \in 1 .. n + 1 - c : i \in 1 .. n - c \/ i = n + 1 - c
      BY <1>1
<1>4. ASSUME NEW i \in 1 .. n PROVE x[i] + (n + 1 - i) <= z
  <2>1. n \in 1 .. n /\ x[n] \in Nat /\ x[n] < z /\ x[i] \in Nat
        OBVIOUS
  <2>2. i = n \/ x[i] + (n - i) <= x[n]
        BY <2>1 DEF Spread
  <2> QED BY <2>1, <2>2
<1>5. Spread(y, n + 1 - c)
  <2> SUFFICES ASSUME NEW i \in 1 .. n + 1 - c, NEW j \in 1 .. n + 1 - c, i < j
               PROVE  y[i] + (j - i) <= y[j]
      BY DEF Spread
  <2>1. i \in 1 .. n - c /\ i + c \in 1 .. n /\ y[i] = x[i + c] /\ x[i + c] \in Nat
        BY <1>1, <1>2, <1>3
  <2>2. CASE j = n + 1 - c
    <3>1. x[i + c] + (n + 1 - (i + c)) <= z
          BY <1>4, <2>1
    <3> QED BY <1>1, <2>1, <2>2, <3>1
  <2>3. CASE j \in 1 .. n - c
    <3>1. j + c \in 1 .. n /\ y[j] = x[j + c] /\ x[j + c] \in Nat /\ i + c < j + c
          BY <1>1, <1>2, <2>3
    <3>2. x[i + c] + ((j + c) - (i + c)) <= x[j + c]
          BY <2>1, <3>1 DEF Spread
    <3> QED BY <2>1, <3>1, <3>2
  <2> QED BY <1>3, <2>2, <2>3
<1>6. ASSUME NEW b \in Nat, n = m, NEW f, \A i \in 2 .. n : b < x[i], b < z
      PROVE  n + 1 - c = m /\ \A i \in 1 .. n + 1 - c : b < y[i]
  <2>1. c = 1 /\ n + 1 - c = m
        BY <1>6
  <2>2. \A i \in 1 .. n - c : i + c \in 2 .. n
        BY <2>1
  <2> QED BY <1>3, <1>6, <2>1, <2>2
<1>7. ASSUME NEW b \in Nat, n = m, \A i \in 1 .. n : b < x[i]
      PROVE  n + 1 - c = m /\ \A i \in 1 .. n + 1 - c : b < y[i]
  <2>1. 1 \in 1 .. n /\ \A i \in 2 .. n : i \in 1 .. n
        BY <1>7
  <2>2. b < z
        BY <1>7, <2>1
  <2> QED BY <1>6, <1>7, <2>1, <2>2
<1>8. ASSUME n = m PROVE n + 1 - c = m /\ \A i \in 1 .. n + 1 - c : x[1] < y[i]
  <2>1. 1 \in 1 .. n /\ x[1] \in Nat /\ x[1] < z /\ \A i \in 2 .. n : i \in 1 .. n /\ 1 < i
        BY <1>8
  <2>2. \A i \in 2 .. n : x[1] < x[i]
    <3> SUFFICES ASSUME NEW i \in 2 .. n PROVE x[1] < x[i]
        OBVIOUS
    <3>1. x[1] + (i - 1) <= x[i] /\ x[i] \in Nat
          BY <2>1 DEF Spread
    <3> QED BY <2>1, <3>1
  <2> QED BY <1>6, <1>8, <2>1, <2>2
<1> QED BY <1>3, <1>5, <1>7, <1>8 DEF Grown

Numberings == [Nat -> Nat]

LEMMA PutKeeps ==
    ASSUME NEW f \in Numberings, NEW k \in Seq(Nat), Len(k) <= Kept, Rising(f, k),
           NEW t \in Nat, \A i \in 1 .. Len(k) : f[k[i]] < f[t],
           NEW p, p = Put(k, t)
    PROVE  /\ Rising(f, p) /\ HoldsIn(f, p, t)
           /\ \A i \in 1 .. Len(p) : p[i] = t \/ \E j \in 1 .. Len(k) : p[i] = k[j]
           /\ \A b \in Nat : HoldsIn(f, k, b) => HoldsIn(f, p, b)
<1>1. PICK c \in Nat :
         /\ c = IF Len(k) = Kept THEN 1 ELSE 0
         /\ p \in Seq(Nat) /\ Len(p) = Len(k) + 1 - c /\ p[Len(k) + 1 - c] = t
         /\ \A i \in 1 .. Len(k) - c : p[i] = k[i + c]
      BY PutShifts, ZenonT(60)
<1>2. Kept \in Nat \ {0}
      BY ConstantsAre
<1>19. \A b \in Nat : f[b] \in Nat
       BY DEF Numberings
<1> DEFINE n == Len(k)
           N == n + 1 - c
<1>3. n \in Nat /\ n <= Kept /\ c = IF n = Kept THEN 1 ELSE 0
      BY <1>1
<1>14. \A i \in 1 .. n : k[i] \in Nat
      OBVIOUS
<1>15. \A i \in 1 .. n : f[k[i]] < f[t]
      OBVIOUS
<1>16. Len(p) = N /\ p[N] = t /\ \A i \in 1 .. n - c : p[i] = k[i + c]
      BY <1>1
<1>17. \A i, j \in 1 .. n : i < j => f[k[i]] + (j - i) <= f[k[j]]
      BY DEF Rising
<1> HIDE DEF n
<1>18. c <= 1 /\ n - c \in Nat /\ n + 1 - c \in 1 .. n + 1 - c
      BY <1>2, <1>3
<1>5. N \in Nat /\ N \in 1 .. N /\ \A i \in 1 .. n - c : i + c \in 1 .. n /\ i \in 1 .. N
      BY <1>3, <1>18
<1> HIDE DEF N
<1> DEFINE x == [i \in 1 .. n |-> f[k[i]]]
           y == [i \in 1 .. N |-> f[p[i]]]
           z == f[t]
<1>4. \A i \in 1 .. n : k[i] \in Nat /\ x[i] = f[k[i]] /\ x[i] \in Nat /\ x[i] < z
      BY <1>14, <1>15, <1>19
<1>6. z \in Nat /\ \A i \in 1 .. N : y[i] = f[p[i]]
      BY <1>19
<1>7. y[N] = z /\ \A i \in 1 .. n - c : y[i] = x[i + c]
      BY <1>4, <1>5, <1>6, <1>16
<1>8. Spread(x, n)
      BY <1>4, <1>17 DEF Spread
<1> HIDE DEF x, y, z
<1>9. /\ Spread(y, N)
      /\ \A i \in 1 .. N : i \in 1 .. n - c \/ i = N
      /\ \A b \in Nat : n = Kept /\ (\A i \in 1 .. n : b < x[i]) =>
                 N = Kept /\ \A i \in 1 .. N : b < y[i]
      /\ n = Kept => N = Kept /\ \A i \in 1 .. N : x[1] < y[i]
  <2>1. y[n + 1 - c] = z
        BY <1>7 DEF N
  <2> HIDE DEF N
  <2>2. \A i \in 1 .. n : x[i] \in Nat
        BY <1>4
  <2>3. \A i \in 1 .. n : x[i] < z
        BY <1>4
  <2>4. \A i \in 1 .. n - c : y[i] = x[i + c]
        BY <1>7
  <2>5. Grown(x, n, y, Kept, c)
        BY <1>2, <1>3, <1>6, <1>8, <2>1, <2>2, <2>3, <2>4, SpreadGrows
  <2> QED BY <2>5 DEF Grown, N
<1>10. Rising(f, p)
       BY <1>6, <1>9, <1>16 DEF Rising, Spread
<1>11. HoldsIn(f, p, t)
       BY <1>5, <1>16 DEF HoldsIn
<1>12. \A i \in 1 .. N : p[i] = t \/ \E j \in 1 .. n : p[i] = k[j]
       BY <1>5, <1>16, <1>9
<1>13. ASSUME NEW b \in Nat, HoldsIn(f, k, b) PROVE HoldsIn(f, p, b)
  <2>0. f[b] \in Nat
        BY <1>19
  <2>1. CASE \E j \in 1 .. n : k[j] = b
    <3>1. PICK j \in 1 .. n : k[j] = b
          BY <2>1
    <3>2. CASE j > c
      <4>1. \E i \in 1 .. n - c : i + c = j
        <5>1. j - c \in 1 .. n - c /\ (j - c) + c = j
              BY <1>3, <1>18, <3>2
        <5> QED BY <5>1
      <4> QED BY <1>5, <1>16, <3>1, <4>1 DEF HoldsIn
    <3>3. CASE ~(j > c)
      <4>1. j = 1 /\ n = Kept
            BY <1>3, <1>18, <3>3
      <4>2. x[1] = f[b]
            BY <1>4, <3>1, <4>1
      <4> QED BY <1>6, <1>9, <1>16, <4>1, <4>2 DEF HoldsIn
    <3> QED BY <3>2, <3>3
  <2>2. CASE n = Kept /\ \A j \in 1 .. n : f[b] < f[k[j]]
    <3>1. \A i \in 1 .. N : f[b] < y[i]
          BY <1>4, <1>9, <2>0, <2>2
    <3> QED BY <1>4, <1>6, <1>9, <1>16, <2>0, <2>2, <3>1 DEF HoldsIn
  <2> QED BY <1>13, <2>1, <2>2 DEF HoldsIn, n
<1> QED BY <1>16, <1>10, <1>11, <1>12, <1>13 DEF n

-----------------------------------------------------------------------------
LEMMA NumberIs == ASSUME NEW f \in Numberings, NEW t \in Nat PROVE f[t] \in Nat
BY DEF Numberings

(* A tick's record gets the next number, and the others keep theirs. *)
LEMMA NumberNext ==
    ASSUME NEW f \in Numberings, NEW b \in Nat, NEW n \in Nat
    PROVE  \E g \in Numberings : g[b + 1] = n /\ \A t \in Nat : t <= b => g[t] = f[t]
<1> DEFINE g == [f EXCEPT ![b + 1] = n]
<1>1. g \in Numberings
      BY DEF Numberings
<1>2. g[b + 1] = n /\ \A t \in Nat : t <= b => g[t] = f[t]
      BY DEF Numberings
<1> QED BY <1>1, <1>2

(* The numbers of the suit's records on their way, f of their ticks, in the order of the
   datagrams; and in the sector's books s. *)
DownNumbered(f) ==
    /\ \A d \in down : d.stream = srv.stream /\ d.suit => d.nth = f[d.tick] /\ d.nth < srv.sends
    /\ \A d1, d2 \in down :
          /\ d1.stream = srv.stream /\ d1.suit /\ d2.stream = srv.stream /\ d2.suit
          /\ d1.n < d2.n
          => d1.nth < d2.nth
BookNumbered(f, s) ==
    /\ \A k \in 0 .. SentRing - 1 : \A e \in s.sent[k].ents :
          e.nth = f[e.tick] /\ e.tick <= tick /\ e.nth < srv.sends /\ s.sent[k].n < srv.seq
    /\ s.base.has => s.base.nth = f[s.base.tick] /\ s.base.tick <= tick /\ s.base.nth < srv.sends

(* Those the client keeps of the seat were written before any it may still take. *)
KeptNumbered(f) ==
    win.stream = srv.stream =>
        /\ Rising(f, kept)
        /\ \A i \in 1 .. Len(kept) : kept[i] <= tick /\ f[kept[i]] < srv.sends
        /\ \A d \in down : d.stream = srv.stream /\ d.suit /\ win.newest < d.n =>
              \A i \in 1 .. Len(kept) : f[kept[i]] < d.nth

(* What the client kept of the seat: all its acked records, so what those on their way are
   against, unless Kept later ones were kept since. *)
HeldOf(f, b) == win.stream = srv.stream /\ HoldsIn(f, kept, b)
DownHeld(f) ==
    \A d \in down : d.stream = srv.stream /\ d.base # 0 =>
        d.suit /\ HeldOf(f, d.base) /\ d.base <= tick /\ d.nth < f[d.base] + Kept
BookHeld(f, s) ==
    /\ s.base.has => HeldOf(f, s.base.tick)
    /\ \A k \in 0 .. SentRing - 1 : \A e \in s.sent[k].ents :
          /\ <<srv.stream, s.sent[k].n>> \in taken => HeldOf(f, e.tick)
          /\ \A d \in down : d.stream = srv.stream /\ d.n = s.sent[k].n => d.suit /\ d.tick = e.tick

KeptHolds(f) ==
    /\ DownNumbered(f) /\ BookNumbered(f, srv) /\ KeptNumbered(f)
    /\ DownHeld(f) /\ BookHeld(f, srv)
KeptInv == seated = "flying" => \E f \in Numberings : KeptHolds(f)

(* The delta the client is about to take is against a record it still has: were it gone, Kept
   records kept after it would have been written before this one. *)
LEMMA KeptImplies == TypeInv /\ StreamInv /\ KeptInv => DeltaDecodes
<1> SUFFICES ASSUME TypeInv, StreamInv, KeptInv, seated = "flying", NEW d \in down,
                    d.stream = srv.stream, InTime(d), check(win, d) # Stale, d.base # 0
             PROVE  check(win, d).is # "new" /\ d.base \in Range(kept)
    BY DEF DeltaDecodes, Decodes
<1>1. PICK f \in Numberings : KeptHolds(f)
      BY DEF KeptInv
<1>2. d.suit /\ win.stream = srv.stream /\ HoldsIn(f, kept, d.base) /\ d.nth < f[d.base] + Kept
      BY <1>1 DEF KeptHolds, DownHeld, HeldOf
<1>3. check(win, d).is = "next" /\ win.newest < d.n
      BY <1>2, TakenIs
<1>4. /\ Rising(f, kept) /\ \A i \in 1 .. Len(kept) : f[kept[i]] < d.nth
      BY <1>1, <1>2, <1>3 DEF KeptHolds, KeptNumbered
<1>5. kept \in Seq(Nat) /\ d.base \in Nat /\ d.nth \in Nat /\ Kept \in Nat \ {0}
      BY ConstantsAre DEF TypeInv, ClientTypes, WireTypes, Downs
<1>6. f[d.base] \in Nat /\ \A i \in 1 .. Len(kept) : f[kept[i]] \in Nat
      BY <1>5, NumberIs
<1>7. ASSUME Len(kept) = Kept, \A i \in 1 .. Len(kept) : f[d.base] < f[kept[i]] PROVE FALSE
  <2>1. 1 \in 1 .. Len(kept) /\ Kept \in 1 .. Len(kept)
        BY <1>5, <1>7
  <2>2. f[d.base] < f[kept[1]] /\ f[kept[Kept]] < d.nth /\ f[kept[1]] \in Nat /\ f[kept[Kept]] \in Nat
        BY <1>4, <1>6, <1>7, <2>1
  <2>3. Kept = 1 \/ f[kept[1]] + (Kept - 1) <= f[kept[Kept]]
        BY <1>4, <1>5, <2>1 DEF Rising
  <2>4. \A x, y, z, v \in Nat : x < y /\ z < v /\ ((Kept = 1 /\ y = z) \/ y + (Kept - 1) <= z) => ~(v < x + Kept)
        BY <1>5
  <2> QED BY <1>2, <1>5, <1>6, <2>2, <2>3, <2>4
<1>8. \E i \in 1 .. Len(kept) : kept[i] = d.base
      BY <1>2, <1>7 DEF HoldsIn
<1>9. DOMAIN kept = 1 .. Len(kept)
      BY <1>5
<1> QED BY <1>3, <1>8, <1>9 DEF Range

LEMMA KeptInit == Init => KeptInv
<1> SUFFICES ASSUME Init PROVE KeptInv
    OBVIOUS
<1>1. PICK s \in Starts : srv = [Seated(1, 0) EXCEPT !.seq = s, !.floor = s]
      BY DEF Init
<1>2. ~srv.base.has /\ \A k \in 0 .. SentRing - 1 : srv.sent[k].ents = {}
      BY <1>1 DEF Seated, Blank
<1>3. down = {} /\ kept = <<>>
      BY DEF Init
<1>4. PICK f \in Numberings : TRUE
  <2>1. [t \in Nat |-> 0] \in Numberings
        BY DEF Numberings
  <2> QED BY <2>1
<1>5. Rising(f, kept) /\ \A i \in 1 .. Len(kept) : FALSE
      BY <1>3 DEF Rising
<1>6. KeptHolds(f)
      BY <1>2, <1>3, <1>5 DEF KeptHolds, DownNumbered, BookNumbered, KeptNumbered, DownHeld, BookHeld
<1> QED BY <1>6 DEF KeptInv

-----------------------------------------------------------------------------
(* What numbers the records up to tick b as f does holds a list as f does. *)
LEMMA HoldsStays ==
    ASSUME NEW f \in Numberings, NEW g \in Numberings, NEW last \in Nat,
           \A t \in Nat : t <= last => g[t] = f[t],
           NEW k \in Seq(Nat), \A i \in 1 .. Len(k) : k[i] <= last
    PROVE  /\ Rising(f, k) => Rising(g, k)
           /\ \A i \in 1 .. Len(k) : g[k[i]] = f[k[i]]
           /\ \A b \in Nat : b <= last /\ HoldsIn(f, k, b) => HoldsIn(g, k, b)
<1>1. \A i \in 1 .. Len(k) : k[i] \in Nat
      OBVIOUS
<1>2. \A i \in 1 .. Len(k) : g[k[i]] = f[k[i]]
      BY <1>1
<1>3. Rising(f, k) => Rising(g, k)
      BY <1>2 DEF Rising
<1>4. ASSUME NEW b \in Nat, b <= last, HoldsIn(f, k, b) PROVE HoldsIn(g, k, b)
  <2>1. g[b] = f[b]
        BY <1>4
  <2> QED BY <1>2, <1>4, <2>1 DEF HoldsIn
<1> QED BY <1>2, <1>3, <1>4

LEMMA KeptTick ==
    ASSUME TypeInv, AckInv, WinInv, KeptInv, Tick
    PROVE  KeptInv'
<1>1. PICK d \in Downs, m \in Downs, more \in BOOLEAN, done \in Nat :
         Writes(d, m, more, done) /\ Books(d, m, more, done)
      BY TickWrites
<1>2. /\ seated = "flying" /\ seated' = seated /\ tick' = tick + 1
      /\ UNCHANGED <<win, kept, taken>>
      BY DEF Tick, client
<1>3. PICK f \in Numberings : KeptHolds(f)
      BY <1>2 DEF KeptInv
<1>4. /\ tick \in Nat /\ srv.sends \in Nat /\ srv.seq \in Nat /\ Kept \in Nat /\ kept \in Seq(Nat)
      /\ down \in SUBSET Downs /\ srv.base \in Bases /\ srv.sent \in Rings /\ win.newest \in Nat
      BY ConstantsAre DEF TypeInv, WorldTypes, ClientTypes, WireTypes, Fit, Servers, Windows
<1>5. PICK g \in Numberings : g[tick + 1] = srv.sends /\ \A t \in Nat : t <= tick => g[t] = f[t]
      BY <1>4, NumberNext
<1>6. /\ srv'.stream = srv.stream /\ srv'.base = srv.base
      /\ \A x \in down : x.stream = srv.stream => x.n < srv.seq
      /\ \A n \in Nat : <<srv.stream, n>> \in taken => n < srv.seq
      BY <1>2, TickKeeps DEF AckInv
<1>7. /\ d.stream = srv.stream /\ d.n = srv.seq /\ d.tick = tick + 1 /\ d.nth = srv.sends
      /\ d.base = IF d.suit THEN baseline(srv, tick + 1) ELSE 0
      /\ m.stream = srv.stream /\ m.n = srv.seq + 1 /\ m.tick = tick + 1 /\ m.suit
      /\ more => m.nth = srv.sends /\ ~d.suit /\ m.base = baseline(srv, tick + 1)
      BY <1>1 DEF Writes
<1>8. /\ srv'.sends = IF d.suit \/ more THEN srv.sends + 1 ELSE srv.sends
      /\ srv'.seq = IF more THEN srv.seq + 2 ELSE srv.seq + 1
      BY <1>1 DEF Books
<1>9. srv.sends <= srv'.sends /\ srv.seq < srv'.seq /\ srv'.sends \in Nat /\ srv'.seq \in Nat
      BY <1>4, <1>8
<1>10. ASSUME NEW x \in down'
       PROVE  \/ x \in down
              \/ /\ x.stream = srv.stream /\ srv.seq <= x.n /\ x.n \in Nat /\ x.tick = tick + 1
                 /\ x.suit => x.nth = srv.sends /\ srv.sends < srv'.sends
                 /\ x.base # 0 => x.suit /\ x.base = baseline(srv, tick + 1)
                 /\ (x = d /\ (more => ~x.suit)) \/ (x = m /\ more)
  <2>1. x \in down \/ x = d \/ (more /\ x = m)
        BY <1>1, <1>10 DEF Books
  <2>2. CASE x = d
        BY <1>4, <1>7, <1>8, <2>2
  <2>3. CASE more /\ x = m
        BY <1>4, <1>7, <1>8, <2>3
  <2> QED BY <2>1, <2>2, <2>3
<1>11. ASSUME NEW x \in down
       PROVE  /\ x.tick \in Nat /\ x.n \in Nat /\ x.base \in Nat /\ x.nth \in Nat /\ x.tick <= tick
       BY <1>4 DEF WinInv, Downs
<1>12. ASSUME NEW k \in 0 .. SentRing - 1, NEW e \in srv'.sent[k].ents
       PROVE  \/ srv'.sent[k] = srv.sent[k] /\ e \in srv.sent[k].ents
              \/ /\ e.nth = srv.sends /\ e.tick = tick + 1 /\ srv.sends < srv'.sends
                 /\ srv.seq <= srv'.sent[k].n /\ srv'.sent[k].n < srv'.seq /\ srv'.sent[k].n \in Nat
                 /\ (srv'.sent[k].n = d.n /\ d.suit) \/ (srv'.sent[k].n = m.n /\ more)
  <2>1. PICK r : r = srv'.sent[k]
        OBVIOUS
  <2>2. \/ r = srv.sent[k]
        \/ r = RecordFor(d, done)
        \/ more /\ r = RecordFor(m, 0)
        BY <1>1, <2>1 DEF Books
  <2>3. CASE r = srv.sent[k]
        BY <1>12, <2>1, <2>3
  <2>4. CASE r = RecordFor(d, done)
    <3>1. r.n = d.n /\ r.ents = IF d.suit THEN {[nth |-> d.nth, tick |-> d.tick]} ELSE {}
          BY <2>4 DEF RecordFor
    <3>2. d.suit /\ e = [nth |-> d.nth, tick |-> d.tick]
          BY <1>12, <2>1, <3>1
    <3>3. e.nth = srv.sends /\ e.tick = tick + 1 /\ r.n = srv.seq /\ r.n = d.n
          BY <1>7, <3>1, <3>2
    <3>4. srv'.sends = srv.sends + 1
          BY <1>8, <3>2
    <3>5. srv.sends < srv'.sends /\ srv.seq <= r.n /\ r.n < srv'.seq /\ r.n \in Nat
          BY <1>4, <1>9, <3>3, <3>4
    <3> QED BY <2>1, <3>2, <3>3, <3>5
  <2>5. CASE more /\ r = RecordFor(m, 0)
    <3>1. r.n = m.n /\ r.ents = {[nth |-> m.nth, tick |-> m.tick]}
          BY <1>7, <2>5 DEF RecordFor
    <3>2. e = [nth |-> m.nth, tick |-> m.tick]
          BY <1>12, <2>1, <3>1
    <3>3. e.nth = srv.sends /\ e.tick = tick + 1 /\ r.n = srv.seq + 1 /\ r.n = m.n
          BY <1>7, <2>5, <3>1, <3>2
    <3>4. srv'.sends = srv.sends + 1 /\ srv'.seq = srv.seq + 2
          BY <1>8, <2>5
    <3>5. srv.sends < srv'.sends /\ srv.seq <= r.n /\ r.n < srv'.seq /\ r.n \in Nat
          BY <1>4, <3>3, <3>4
    <3> QED BY <2>1, <2>5, <3>3, <3>5
  <2> QED BY <2>2, <2>3, <2>4, <2>5
<1>13. ASSUME NEW k \in 0 .. SentRing - 1, NEW e \in srv.sent[k].ents
       PROVE  e.tick \in Nat /\ e.nth \in Nat /\ srv.sent[k].n \in Nat
  <2>1. srv.sent[k] \in Recs
        BY <1>4 DEF Rings
  <2>2. srv.sent[k].ents \in SUBSET Ents /\ srv.sent[k].n \in Nat
        BY <2>1 DEF Recs
  <2> QED BY <2>2 DEF Ents
<1>14. srv.base.tick \in Nat /\ srv.base.nth \in Nat
       BY <1>4 DEF Bases
<1>15. ASSUME NEW b \in Nat, b <= tick, HeldOf(f, b)
       PROVE  HeldOf(g, b)' /\ HeldOf(g, b)
  <2>1. \A i \in 1 .. Len(kept) : kept[i] <= tick
        BY <1>3, <1>15 DEF KeptHolds, KeptNumbered, HeldOf
  <2>2. HoldsIn(g, kept, b)
        BY <1>4, <1>5, <1>15, <2>1, HoldsStays DEF HeldOf
  <2> QED BY <1>2, <1>6, <1>15, <2>2 DEF HeldOf
<1>16. DownNumbered(g)'
  <2>1. \A x \in down' : x.stream = srv.stream /\ x.suit => x.nth = g[x.tick] /\ x.nth < srv'.sends
    <3> SUFFICES ASSUME NEW x \in down', x.stream = srv.stream, x.suit
                 PROVE  x.nth = g[x.tick] /\ x.nth < srv'.sends
        OBVIOUS
    <3>1. CASE x \in down
      <4>1. x.nth = f[x.tick] /\ x.nth < srv.sends
            BY <1>3, <3>1 DEF KeptHolds, DownNumbered
      <4>2. x.tick \in Nat /\ x.tick <= tick /\ x.nth \in Nat
            BY <1>11, <3>1
      <4>3. g[x.tick] = f[x.tick]
            BY <1>5, <4>2
      <4> QED BY <1>4, <1>9, <4>1, <4>2, <4>3
    <3>2. CASE x \notin down
          BY <1>5, <1>10, <3>2
    <3> QED BY <3>1, <3>2
  <2>2. ASSUME NEW x \in down', NEW y \in down', x.stream = srv.stream, x.suit,
               y.stream = srv.stream, y.suit, x.n < y.n
        PROVE  x.nth < y.nth
    <3>1. CASE x \in down /\ y \in down
          BY <1>3, <2>2, <3>1 DEF KeptHolds, DownNumbered
    <3>2. CASE x \in down /\ y \notin down
      <4>1. x.nth < srv.sends
            BY <1>3, <2>2, <3>2 DEF KeptHolds, DownNumbered
      <4> QED BY <1>10, <2>2, <3>2, <4>1
    <3>3. CASE x \notin down /\ y \in down
      <4>1. y.n < srv.seq /\ srv.seq <= x.n /\ y.n \in Nat /\ x.n \in Nat
            BY <1>6, <1>10, <1>11, <2>2, <3>3
      <4> QED BY <1>4, <2>2, <4>1
    <3>4. CASE x \notin down /\ y \notin down
      <4>1. x = y
            BY <1>10, <2>2, <3>4
      <4> QED BY <1>10, <2>2, <3>4, <4>1
    <3> QED BY <3>1, <3>2, <3>3, <3>4
  <2> QED BY <1>6, <2>1, <2>2 DEF DownNumbered
<1>17. BookNumbered(g, srv)'
  <2>1. ASSUME NEW k \in 0 .. SentRing - 1, NEW e \in srv'.sent[k].ents
        PROVE  e.nth = g[e.tick] /\ e.tick <= tick + 1 /\ e.nth < srv'.sends /\ srv'.sent[k].n < srv'.seq
    <3>1. CASE srv'.sent[k] = srv.sent[k] /\ e \in srv.sent[k].ents
      <4>1. e.tick \in Nat /\ e.nth \in Nat /\ srv.sent[k].n \in Nat
            BY <1>13, <3>1
      <4>2. e.nth = f[e.tick] /\ e.tick <= tick /\ e.nth < srv.sends /\ srv.sent[k].n < srv.seq
            BY <1>3, <3>1 DEF KeptHolds, BookNumbered
      <4>3. e.nth = g[e.tick]
            BY <1>5, <4>1, <4>2
      <4>4. \A x, y, z \in Nat : x <= tick /\ y < srv.sends /\ z < srv.seq =>
               x <= tick + 1 /\ y < srv'.sends /\ z < srv'.seq
            BY <1>4, <1>9
      <4> QED BY <3>1, <4>1, <4>2, <4>3, <4>4
    <3>2. CASE /\ e.nth = srv.sends /\ e.tick = tick + 1 /\ srv.sends < srv'.sends
               /\ srv'.sent[k].n < srv'.seq
          BY <1>4, <1>5, <3>2
    <3> QED BY <1>12, <3>1, <3>2
  <2>2. srv.base.has => srv.base.nth = g[srv.base.tick] /\ srv.base.tick <= tick + 1 /\ srv.base.nth < srv'.sends
    <3>1. srv.base.has => srv.base.nth = f[srv.base.tick] /\ srv.base.tick <= tick /\ srv.base.nth < srv.sends
          BY <1>3 DEF KeptHolds, BookNumbered
    <3>2. srv.base.has => srv.base.nth = g[srv.base.tick]
          BY <1>5, <1>14, <3>1
    <3>3. \A x, y \in Nat : x <= tick /\ y < srv.sends => x <= tick + 1 /\ y < srv'.sends
          BY <1>4, <1>9
    <3> QED BY <1>14, <3>1, <3>2, <3>3
  <2> QED BY <1>2, <1>6, <2>1, <2>2 DEF BookNumbered
<1>18. KeptNumbered(g)'
  <2> SUFFICES ASSUME win.stream = srv.stream
               PROVE  /\ Rising(g, kept)
                      /\ \A i \in 1 .. Len(kept) : kept[i] <= tick + 1 /\ g[kept[i]] < srv'.sends
                      /\ \A x \in down' : x.stream = srv.stream /\ x.suit /\ win.newest < x.n =>
                            \A i \in 1 .. Len(kept) : g[kept[i]] < x.nth
      BY <1>2, <1>6 DEF KeptNumbered
  <2>1. /\ Rising(f, kept)
        /\ \A i \in 1 .. Len(kept) : kept[i] <= tick /\ f[kept[i]] < srv.sends
        /\ \A x \in down : x.stream = srv.stream /\ x.suit /\ win.newest < x.n =>
              \A i \in 1 .. Len(kept) : f[kept[i]] < x.nth
        BY <1>3 DEF KeptHolds, KeptNumbered
  <2>2. Rising(g, kept) /\ \A i \in 1 .. Len(kept) : g[kept[i]] = f[kept[i]]
        BY <1>4, <1>5, <2>1, HoldsStays
  <2>3. \A i \in 1 .. Len(kept) : kept[i] \in Nat /\ f[kept[i]] \in Nat
        BY <1>4, NumberIs
  <2>4. ASSUME NEW i \in 1 .. Len(kept) PROVE kept[i] <= tick + 1 /\ g[kept[i]] < srv'.sends
    <3>1. kept[i] <= tick /\ f[kept[i]] < srv.sends /\ g[kept[i]] = f[kept[i]]
          BY <2>1, <2>2
    <3>2. kept[i] \in Nat /\ f[kept[i]] \in Nat
          BY <2>3
    <3>3. \A x, y \in Nat : x <= tick /\ y < srv.sends => x <= tick + 1 /\ y < srv'.sends
          BY <1>4, <1>9
    <3> QED BY <3>1, <3>2, <3>3
  <2>5. \A x \in down' : x.stream = srv.stream /\ x.suit /\ win.newest < x.n =>
              \A i \in 1 .. Len(kept) : g[kept[i]] < x.nth
        BY <1>10, <2>1, <2>2
  <2> QED BY <2>2, <2>4, <2>5
<1>19. DownHeld(g)'
  <2> SUFFICES ASSUME NEW x \in down', x.stream = srv.stream, x.base # 0
               PROVE  x.suit /\ HeldOf(g, x.base)' /\ x.base <= tick + 1 /\ x.nth < g[x.base] + Kept
      BY <1>2, <1>6 DEF DownHeld, HeldOf
  <2>1. CASE x \in down
    <3>1. x.suit /\ HeldOf(f, x.base) /\ x.base <= tick /\ x.nth < f[x.base] + Kept /\ x.base \in Nat
          BY <1>3, <1>11, <2>1 DEF KeptHolds, DownHeld
    <3> QED BY <1>4, <1>5, <1>15, <3>1
  <2>2. CASE x \notin down
    <3>1. x.suit /\ x.nth = srv.sends /\ x.base = baseline(srv, tick + 1)
          BY <1>10, <2>2
    <3>2. srv.base.has /\ srv.sends - srv.base.nth < Kept /\ x.base = srv.base.tick
          BY <3>1 DEF baseline
    <3>3. srv.base.nth = f[srv.base.tick] /\ srv.base.tick <= tick /\ HeldOf(f, srv.base.tick)
          BY <1>3, <3>2 DEF KeptHolds, BookNumbered, BookHeld
    <3>4. g[x.base] = srv.base.nth
          BY <1>5, <1>14, <3>2, <3>3
    <3>5. HeldOf(g, x.base)'
          BY <1>14, <1>15, <3>2, <3>3
    <3> QED BY <1>4, <1>14, <3>1, <3>2, <3>3, <3>4, <3>5
  <2> QED BY <2>1, <2>2
<1>20. BookHeld(g, srv)'
  <2>0. PICK b \in Nat : b = srv.base.tick
        BY <1>14
  <2>1. srv.base.has => HeldOf(g, b)'
        BY <1>3, <1>15, <2>0 DEF KeptHolds, BookNumbered, BookHeld
  <2>2. ASSUME NEW k \in 0 .. SentRing - 1, NEW e \in srv'.sent[k].ents
        PROVE  /\ <<srv.stream, srv'.sent[k].n>> \in taken => HeldOf(g, e.tick)'
               /\ \A x \in down' : x.stream = srv.stream /\ x.n = srv'.sent[k].n => x.suit /\ x.tick = e.tick
    <3>1. CASE srv'.sent[k] = srv.sent[k] /\ e \in srv.sent[k].ents
      <4>1. /\ e.tick \in Nat /\ srv.sent[k].n \in Nat /\ e.tick <= tick /\ srv.sent[k].n < srv.seq
            /\ <<srv.stream, srv.sent[k].n>> \in taken => HeldOf(f, e.tick)
            /\ \A x \in down : x.stream = srv.stream /\ x.n = srv.sent[k].n => x.suit /\ x.tick = e.tick
            BY <1>3, <1>13, <3>1 DEF KeptHolds, BookNumbered, BookHeld
      <4>2. \A x \in down' : x.stream = srv.stream /\ x.n = srv.sent[k].n => x \in down
            BY <1>4, <1>10, <4>1
      <4> QED BY <1>15, <3>1, <4>1, <4>2
    <3>2. CASE /\ e.nth = srv.sends /\ e.tick = tick + 1
               /\ srv.seq <= srv'.sent[k].n /\ srv'.sent[k].n \in Nat
               /\ (srv'.sent[k].n = d.n /\ d.suit) \/ (srv'.sent[k].n = m.n /\ more)
      <4>1. PICK n \in Nat : n = srv'.sent[k].n
            BY <3>2
      <4>2. <<srv.stream, n>> \notin taken
            BY <1>4, <1>6, <3>2, <4>1
      <4>3. ASSUME NEW x \in down', x.stream = srv.stream, x.n = n PROVE x.suit /\ x.tick = e.tick
        <5>1. x \notin down
              BY <1>4, <1>6, <1>11, <3>2, <4>1, <4>3
        <5>2. x.tick = tick + 1 /\ (x = d \/ x = m)
              BY <1>10, <4>3, <5>1
        <5>3. d.n # m.n
              BY <1>4, <1>7
        <5> QED BY <1>7, <3>2, <4>1, <4>3, <5>2, <5>3
      <4> QED BY <4>1, <4>2, <4>3
    <3> QED BY <1>12, <3>1, <3>2
  <2> QED BY <1>2, <1>6, <2>0, <2>1, <2>2 DEF BookHeld, HeldOf
<1> QED BY <1>16, <1>17, <1>18, <1>19, <1>20 DEF KeptInv, KeptHolds

-----------------------------------------------------------------------------
(* What is held of the seat is held on while the client's window, its list and the server's
   books stay and nothing comes on its way. *)
LEMMA KeptStays ==
    ASSUME UNCHANGED <<tick, srv, win, kept, taken>>, down' \in SUBSET down,
           NEW f \in Numberings, KeptHolds(f)
    PROVE  KeptHolds(f)'
<1>1. DownNumbered(f)' /\ BookNumbered(f, srv)' /\ KeptNumbered(f)'
      BY DEF KeptHolds, DownNumbered, BookNumbered, KeptNumbered
<1>2. DownHeld(f)' /\ BookHeld(f, srv)'
      BY DEF KeptHolds, DownHeld, BookHeld, HeldOf
<1> QED BY <1>1, <1>2 DEF KeptHolds

LEMMA KeptDeliver ==
    ASSUME TypeInv, StreamInv, WinInv, KeptInv, NEW d \in down, Deliver(d)
    PROVE  KeptInv'
<1>1. /\ InTime(d) /\ down' = down \ {d}
      /\ UNCHANGED <<seated, srv, tick>>
      /\ \/ UNCHANGED <<client, taken>>
         \/ Takes(d, check(win, d))
      BY DeliverIs
<1> SUFFICES ASSUME seated = "flying" PROVE \E f \in Numberings : KeptHolds(f)'
    BY <1>1 DEF KeptInv
<1>2. PICK f \in Numberings : KeptHolds(f)
      BY DEF KeptInv
<1>3. CASE UNCHANGED <<client, taken>>
  <2>1. KeptHolds(f)'
        BY <1>1, <1>2, <1>3, KeptStays DEF client
  <2> QED BY <2>1
<1>4. CASE Takes(d, check(win, d))
  <2>1. /\ tick \in Nat /\ srv.sends \in Nat /\ kept \in Seq(Nat) /\ Len(kept) <= Kept
        /\ d \in Downs /\ win \in Windows /\ d.tick \in Nat /\ d.n \in Nat /\ win.newest \in Nat
        /\ d.tick <= tick
        BY DEF TypeInv, WorldTypes, ClientTypes, WireTypes, Fit, Servers, Windows, Downs, WinInv
  <2>2. ASSUME NEW x \in down PROVE x.n \in Nat /\ x.nth \in Nat /\ x.base \in Nat /\ x.tick \in Nat
        BY DEF TypeInv, WireTypes, Downs
  <2> DEFINE verdict == check(win, d)
  <2>3. /\ taken' = taken \cup {<<d.stream, d.n>>}
        /\ verdict # Stale /\ win' = commit(win, d, verdict)
        /\ kept' = LET before == IF verdict.is = "new" THEN <<>> ELSE kept
                   IN  IF d.suit THEN Put(before, d.tick) ELSE before
        BY <1>4 DEF Takes
  <2>4. verdict.n \in Nat /\ (d.stream # win.stream => ~win.any \/ d.tick > win.tick)
        BY <2>1, <2>3, CheckIs
  <2>5. win'.stream = d.stream /\ win'.newest = verdict.n
    <3> HIDE DEF verdict
    <3> QED BY <2>1, <2>3, <2>4, CommitIs
  <2>6. CASE d.stream # srv.stream
    <3>1. win.stream # srv.stream
      <4>1. win.tick \in Nat /\ srv.stream # 0
            BY <2>1 DEF Windows, TypeInv, Fit
      <4> QED BY <2>1, <2>4, <2>6, <4>1 DEF WinInv, StreamInv
    <3>2. win'.stream # srv'.stream
          BY <1>1, <2>5, <2>6
    <3>3. DownNumbered(f)' /\ BookNumbered(f, srv)' /\ KeptNumbered(f)'
          BY <1>1, <1>2, <3>2 DEF KeptHolds, DownNumbered, BookNumbered, KeptNumbered
    <3>4. DownHeld(f)'
          BY <1>1, <1>2, <3>1 DEF KeptHolds, DownHeld, HeldOf
    <3>5. \A n : <<srv.stream, n>> \in taken' => <<srv.stream, n>> \in taken
          BY <2>3, <2>6
    <3>6. BookHeld(f, srv)'
          BY <1>1, <1>2, <3>1, <3>5 DEF KeptHolds, BookHeld, HeldOf
    <3>7. KeptHolds(f)'
          BY <3>3, <3>4, <3>6 DEF KeptHolds
    <3> QED BY <3>7
  <2>7. CASE d.stream = srv.stream
    <3>1. /\ verdict.n = d.n
          /\ \/ verdict.is = "next" /\ win.stream = srv.stream /\ win.newest < d.n
             \/ verdict.is = "new" /\ win.stream # srv.stream
          BY <1>1, <2>3, <2>7, TakenIs
    <3>2. win'.stream = srv.stream /\ win'.newest = d.n
          BY <2>5, <2>7, <3>1
    <3>3. PICK k \in Seq(Nat) : k = IF verdict.is = "new" THEN <<>> ELSE kept
      <4> DEFINE k0 == IF verdict.is = "new" THEN <<>> ELSE kept
      <4>1. <<>> \in Seq(Nat)
            OBVIOUS
      <4> HIDE DEF verdict
      <4>2. k0 \in Seq(Nat)
            BY <2>1, <4>1
      <4> QED BY <4>2
    <3>4. kept' = IF d.suit THEN Put(k, d.tick) ELSE k
          BY <2>3, <3>3
    <3> HIDE DEF verdict
    <3>5. /\ Rising(f, k) /\ Len(k) <= Kept
          /\ \A i \in 1 .. Len(k) : k[i] <= tick /\ f[k[i]] < srv.sends
          /\ \A x \in down : x.stream = srv.stream /\ x.suit /\ d.n <= x.n =>
                \A i \in 1 .. Len(k) : f[k[i]] < x.nth
          /\ \A b \in Nat : HeldOf(f, b) => HoldsIn(f, k, b)
      <4>1. CASE verdict.is = "next" /\ win.stream = srv.stream /\ win.newest < d.n
        <5>1. k = kept
              BY <3>3, <4>1
        <5>2. \A x \in down : d.n <= x.n => win.newest < x.n
              BY <2>1, <2>2, <4>1
        <5> QED BY <1>2, <2>1, <4>1, <5>1, <5>2 DEF KeptHolds, KeptNumbered, HeldOf
      <4>2. CASE verdict.is = "new" /\ win.stream # srv.stream
        <5>1. k = <<>> /\ Len(k) = 0
              BY <3>3, <4>2
        <5>2. \A i \in 1 .. Len(k) : FALSE
              BY <5>1
        <5>3. 0 <= Kept
              BY ConstantsAre
        <5> QED BY <4>2, <5>1, <5>2, <5>3 DEF Rising, HeldOf
      <4> QED BY <3>1, <4>1, <4>2
    <3>6. d.suit => f[d.tick] = d.nth /\ d.nth < srv.sends /\ \A i \in 1 .. Len(k) : f[k[i]] < f[d.tick]
          BY <1>2, <2>1, <2>7, <3>5 DEF KeptHolds, DownNumbered
    <3>7. PICK p : p = kept'
          OBVIOUS
    <3>8. /\ Rising(f, p)
          /\ \A i \in 1 .. Len(p) : (d.suit /\ p[i] = d.tick) \/ \E j \in 1 .. Len(k) : p[i] = k[j]
          /\ \A b \in Nat : HoldsIn(f, k, b) => HoldsIn(f, p, b)
          /\ d.suit => HoldsIn(f, p, d.tick)
      <4>1. CASE d.suit
        <5>1. p = Put(k, d.tick)
              BY <3>4, <3>7, <4>1
        <5> QED BY <2>1, <3>5, <3>6, <4>1, <5>1, PutKeeps
      <4>2. CASE ~d.suit
            BY <3>4, <3>5, <3>7, <4>2
      <4> QED BY <4>1, <4>2
    <3>9. \A i \in 1 .. Len(p) : p[i] <= tick /\ f[p[i]] < srv.sends
          BY <2>1, <3>5, <3>6, <3>8
    <3>10. ASSUME NEW x \in down', x.stream = srv.stream, x.suit, d.n < x.n, NEW i \in 1 .. Len(p)
           PROVE  f[p[i]] < x.nth
      <4>1. x \in down /\ x.n \in Nat /\ d.n <= x.n
            BY <1>1, <2>1, <2>2, <3>10
      <4>2. CASE d.suit /\ p[i] = d.tick
            BY <1>2, <2>7, <3>6, <3>10, <4>1, <4>2 DEF KeptHolds, DownNumbered
      <4>3. CASE \E j \in 1 .. Len(k) : p[i] = k[j]
            BY <3>5, <3>10, <4>1, <4>3
      <4> QED BY <3>8, <4>2, <4>3
    <3>11. \A b \in Nat : HeldOf(f, b) => HeldOf(f, b)'
           BY <1>1, <3>2, <3>5, <3>7, <3>8 DEF HeldOf
    <3>12. d.suit => HeldOf(f, d.tick)'
           BY <1>1, <3>2, <3>7, <3>8 DEF HeldOf
    <3>13. DownNumbered(f)' /\ BookNumbered(f, srv)'
           BY <1>1, <1>2 DEF KeptHolds, DownNumbered, BookNumbered
    <3>14. KeptNumbered(f)'
           BY <1>1, <3>2, <3>7, <3>8, <3>9, <3>10 DEF KeptNumbered
    <3>15. DownHeld(f)'
      <4> SUFFICES ASSUME NEW x \in down', x.stream = srv.stream, x.base # 0
                   PROVE  x.suit /\ HeldOf(f, x.base)' /\ x.base <= tick /\ x.nth < f[x.base] + Kept
          BY <1>1 DEF DownHeld, HeldOf
      <4>1. x \in down /\ x.base \in Nat
            BY <1>1, <2>2
      <4> QED BY <1>2, <3>11, <4>1 DEF KeptHolds, DownHeld
    <3>16. BookHeld(f, srv)'
      <4>1. PICK b : b = srv.base.tick
            OBVIOUS
      <4>2. b \in Nat
            BY <4>1 DEF TypeInv, Fit, Servers, Bases
      <4>3. srv.base.has => HeldOf(f, b)'
            BY <1>2, <3>11, <4>1, <4>2 DEF KeptHolds, BookHeld
      <4>4. ASSUME NEW j \in 0 .. SentRing - 1, NEW e \in srv.sent[j].ents
            PROVE  /\ <<srv.stream, srv.sent[j].n>> \in taken' => HeldOf(f, e.tick)'
                   /\ \A x \in down' : x.stream = srv.stream /\ x.n = srv.sent[j].n => x.suit /\ x.tick = e.tick
        <5>1. e.tick \in Nat
          <6>1. srv.sent[j] \in Recs
                BY <4>4 DEF TypeInv, Fit, Servers, Rings
          <6>2. srv.sent[j].ents \in SUBSET Ents
                BY <6>1 DEF Recs
          <6> QED BY <4>4, <6>2 DEF Ents
        <5>2. /\ <<srv.stream, srv.sent[j].n>> \in taken => HeldOf(f, e.tick)
              /\ \A x \in down : x.stream = srv.stream /\ x.n = srv.sent[j].n => x.suit /\ x.tick = e.tick
              BY <1>2, <4>4 DEF KeptHolds, BookHeld
        <5>3. CASE <<srv.stream, srv.sent[j].n>> \in taken
              BY <1>1, <3>11, <5>1, <5>2, <5>3
        <5>4. CASE srv.sent[j].n = d.n
          <6>1. d.suit /\ d.tick = e.tick
                BY <2>7, <5>2, <5>4
          <6> QED BY <1>1, <3>12, <5>2, <6>1
        <5> QED BY <1>1, <2>3, <5>2, <5>3, <5>4
      <4> QED BY <1>1, <4>1, <4>3, <4>4 DEF BookHeld, HeldOf
    <3>17. KeptHolds(f)'
           BY <3>13, <3>14, <3>15, <3>16 DEF KeptHolds
    <3> QED BY <3>17
  <2> QED BY <2>6, <2>7
<1> QED BY <1>1, <1>3, <1>4

-----------------------------------------------------------------------------
(* A record whose datagram was taken, now acked, is one the client holds. *)
LEMMA KeptRetire ==
    ASSUME TypeInv, NEW f \in Numberings, NEW s, Fit(s), BookNumbered(f, s), BookHeld(f, s),
           NEW n \in Nat, n < s.seq, Retires(s, n), <<srv.stream, n>> \in taken
    PROVE  BookNumbered(f, retire(s, n)) /\ BookHeld(f, retire(s, n))
<1> DEFINE t == retire(s, n)
           k == n % SentRing
           r == s.sent[k]
           l == Least(r.leaves, Len(s.leaves))
<1>1. IsRetired(t, s, n)
      BY RetireIs
<1>2. /\ r \in Recs /\ k \in 0 .. SentRing - 1 /\ t.sent = Shifted(s.sent, n, l)
      /\ \/ t.base = s.base
         \/ \E e \in r.ents : t.base = [has |-> TRUE, nth |-> e.nth, tick |-> e.tick]
      BY <1>1 DEF IsRetired
<1>3. r.n = n
      BY DEF Retires
<1>4. \A j \in 0 .. SentRing - 1 : t.sent[j].n = s.sent[j].n /\ t.sent[j].ents = s.sent[j].ents
  <2> DEFINE ring == s.sent
  <2>1. ring \in Rings /\ s.leaves \in Seq(Nat)
        BY DEF Fit, Servers
  <2>2. l \in Nat
    <3>1. Len(s.leaves) \in Nat
          BY <2>1
    <3>2. r.leaves \in Nat
      <4> HIDE DEF r
      <4> QED BY <1>2 DEF Recs
    <3> QED BY <3>1, <3>2 DEF Least
  <2> HIDE DEF ring, l, t, r
  <2>3. \A j \in 0 .. SentRing - 1 :
           Shifted(ring, n, l)[j].n = ring[j].n /\ Shifted(ring, n, l)[j].ents = ring[j].ents
        BY <2>1, <2>2, ShiftedIs, ZenonT(60)
  <2> QED BY <1>2, <2>3 DEF ring
<1> HIDE DEF t, l, k
<1>5. BookNumbered(f, t)
  <2>1. t.base.has => t.base.nth = f[t.base.tick] /\ t.base.tick <= tick /\ t.base.nth < srv.sends
    <3>1. CASE t.base = s.base
          BY <3>1 DEF BookNumbered
    <3>2. CASE \E e \in r.ents : t.base = [has |-> TRUE, nth |-> e.nth, tick |-> e.tick]
      <4>1. PICK e \in r.ents : t.base = [has |-> TRUE, nth |-> e.nth, tick |-> e.tick]
            BY <3>2
      <4>2. t.base.nth = e.nth /\ t.base.tick = e.tick
            BY <4>1
      <4>3. e.nth = f[e.tick] /\ e.tick <= tick /\ e.nth < srv.sends
            BY <1>2, <4>1 DEF BookNumbered
      <4> QED BY <4>2, <4>3
    <3> QED BY <1>2, <3>1, <3>2
  <2> QED BY <1>4, <2>1 DEF BookNumbered
<1>6. BookHeld(f, t)
  <2>1. \A e \in r.ents : HeldOf(f, e.tick)
        BY <1>2, <1>3 DEF BookHeld
  <2>2. t.base.has => HeldOf(f, t.base.tick)
    <3>1. CASE t.base = s.base
          BY <3>1 DEF BookHeld
    <3>2. CASE \E e \in r.ents : t.base = [has |-> TRUE, nth |-> e.nth, tick |-> e.tick]
      <4>1. PICK e \in r.ents : t.base = [has |-> TRUE, nth |-> e.nth, tick |-> e.tick]
            BY <3>2
      <4>2. t.base.tick = e.tick
            BY <4>1
      <4> QED BY <2>1, <4>1, <4>2
    <3> QED BY <1>2, <3>1, <3>2
  <2> QED BY <1>4, <2>2 DEF BookHeld
<1> QED BY <1>5, <1>6 DEF t

LEMMA KeptDrain ==
    ASSUME TypeInv, StreamInv, AckInv, KeptInv, NEW a \in up, drain_inputs(a)
    PROVE  KeptInv'
<1>1. /\ UNCHANGED <<seated, down, taken, win, kept, tick>>
      /\ seated = "flying" => srv' = on_ack(a)
      BY DrainIs DEF client
<1> SUFFICES ASSUME seated = "flying" PROVE \E f \in Numberings : KeptHolds(f)'
    BY <1>1 DEF KeptInv
<1>2. PICK f \in Numberings : KeptHolds(f)
      BY DEF KeptInv
<1> DEFINE G == {s \in Servers : BookNumbered(f, s) /\ BookHeld(f, s) /\ s.stream = srv.stream
                                 /\ s.sends = srv.sends /\ s.seq = srv.seq}
<1>3. srv \in G
      BY <1>2 DEF KeptHolds, TypeInv, Fit
<1>4. ASSUME NEW s \in G, NEW n \in Nat, Fit(s), s.stream = srv.stream, s.seq = srv.seq,
             n < srv.seq, Retires(s, n), <<srv.stream, n>> \in taken
      PROVE  retire(s, n) \in G
  <2> DEFINE t == retire(s, n)
  <2>1. IsRetired(t, s, n)
        BY <1>4, RetireIs
  <2>2. t \in Servers /\ t.stream = s.stream /\ t.sends = s.sends /\ t.seq = s.seq
        BY <1>4, <2>1 DEF IsRetired, Fit
  <2>3. BookNumbered(f, t) /\ BookHeld(f, t)
        BY <1>4, KeptRetire
  <2> HIDE DEF t
  <2>4. t \in G
        BY <1>4, <2>2, <2>3
  <2> QED BY <2>4 DEF t
<1> HIDE DEF G
<1>5. on_ack(a) \in G
      BY <1>3, <1>4, OnAckKeeps
<1>6. PICK s : s = srv' /\ s \in G
      BY <1>1, <1>5
<1>7. BookNumbered(f, s) /\ BookHeld(f, s) /\ s.stream = srv.stream /\ s.sends = srv.sends /\ s.seq = srv.seq
      BY <1>6 DEF G
<1>8. srv'.stream = srv.stream /\ srv'.sends = srv.sends /\ srv'.seq = srv.seq
      BY <1>6, <1>7
<1>9. DownNumbered(f)' /\ KeptNumbered(f)'
      BY <1>1, <1>2, <1>8 DEF KeptHolds, DownNumbered, KeptNumbered
<1>10. DownHeld(f)'
       BY <1>1, <1>2, <1>8 DEF KeptHolds, DownHeld, HeldOf
<1>11. BookNumbered(f, srv)'
       BY <1>1, <1>6, <1>7 DEF BookNumbered
<1>12. BookHeld(f, srv)'
       BY <1>1, <1>6, <1>7 DEF BookHeld, HeldOf
<1>13. KeptHolds(f)'
       BY <1>9, <1>10, <1>11, <1>12 DEF KeptHolds
<1> QED BY <1>13

LEMMA KeptNext ==
    TypeInv /\ StreamInv /\ AckInv /\ WinInv /\ KeptInv /\ FreshStreams /\ [Next]_vars => KeptInv'
<1> SUFFICES ASSUME TypeInv, StreamInv, AckInv, WinInv, KeptInv, FreshStreams, [Next]_vars
             PROVE  KeptInv'
    OBVIOUS
<1>1. CASE Tick
      BY <1>1, KeptTick
<1>2. CASE Polls \/ UNCHANGED vars
  <2>1. UNCHANGED <<seated, srv, down, taken, win, kept, tick>>
        BY <1>2, PollIs DEF vars, client, history
  <2>2. \A f \in Numberings : KeptHolds(f) => KeptHolds(f)'
        BY <2>1, KeptStays
  <2> QED BY <2>1, <2>2 DEF KeptInv
<1>3. CASE \E d \in down : Deliver(d)
      BY <1>3, KeptDeliver
<1>4. CASE \E a \in up : drain_inputs(a)
      BY <1>4, KeptDrain
<1>5. CASE Dock \/ left_the_sector
  <2>1. seated' # "flying"
        BY <1>5 DEF Dock, left_the_sector
  <2> QED BY <2>1 DEF KeptInv
<1>6. CASE Seat
  <2>1. /\ seated = "home" /\ UNCHANGED <<down, taken, win, kept, tick>>
        /\ srv' = Seated(next_epoch(srv.stream), Len(events))
        BY <1>6 DEF Seat, client, history
  <2>2. /\ srv'.stream = next_epoch(srv.stream) /\ ~srv'.base.has
        /\ \A k \in 0 .. SentRing - 1 : srv'.sent[k].ents = {}
        BY <2>1 DEF Seated, Blank
  <2>3. win.stream # srv'.stream /\ \A d \in down : d.stream # srv'.stream
        BY <2>1, <2>2 DEF FreshStreams
  <2>4. PICK f \in Numberings : TRUE
    <3>1. [t \in Nat |-> 0] \in Numberings
          BY DEF Numberings
    <3> QED BY <3>1
  <2>5. DownNumbered(f)' /\ BookNumbered(f, srv)' /\ KeptNumbered(f)'
        BY <2>1, <2>2, <2>3 DEF DownNumbered, BookNumbered, KeptNumbered
  <2>6. DownHeld(f)' /\ BookHeld(f, srv)'
        BY <2>1, <2>2, <2>3 DEF DownHeld, BookHeld
  <2>7. KeptHolds(f)'
        BY <2>5, <2>6 DEF KeptHolds
  <2> QED BY <2>7 DEF KeptInv
<1> QED BY <1>1, <1>2, <1>3, <1>4, <1>5, <1>6 DEF Next, Polls

(* A delta in a datagram the client will take is against a record it still keeps
   (ClientState::baseline, Baselines::put): the server lets a baseline go while fewer than Kept
   records went after it, and what the client keeps are the last it took. *)
THEOREM DeltasDecode == Spec => ([]FreshStreams => []DeltaDecodes)
<1>1. Init => KeptInv
      BY KeptInit
<1>2. TypeInv /\ StreamInv /\ AckInv /\ WinInv /\ KeptInv /\ FreshStreams /\ [Next]_vars => KeptInv'
      BY KeptNext
<1>3. TypeInv /\ StreamInv /\ KeptInv => DeltaDecodes
      BY KeptImplies
<1> QED BY <1>1, <1>2, <1>3, AckAlways, WinAlways, PTL DEF Spec

(* So, for as many seats as there are stream numbers, a client is told of its sector as it should
   be, whatever is lost, late or overtaken on the way. *)
THEOREM OneRoundIsTold ==
    ASSUME MaxSeats <= MaxEpoch
    PROVE  Spec => [](AckedWasTaken /\ EventsHeard /\ InStep /\ SuitForgotten /\ DeltaDecodes)
BY OneRoundIsFresh, NothingUntakenIsAcked, EventsAreHeard, ChunkIsInStep, SuitIsForgotten,
   DeltasDecode, PTL
=============================================================================
