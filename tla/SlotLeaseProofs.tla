-------------------------- MODULE SlotLeaseProofs --------------------------
(***************************************************************************)
(* Sorties, for any number of pilots, slots, suits and messages.           *)
(*                                                                         *)
(* Whatever times out, is torn or is split (Impatient, Torn, SplitNotes):  *)
(* every slot is the free list's or exactly one session's, and everything  *)
(* shared keeps its type and its bound. OneOwner isn't inductive by        *)
(* itself: a session that connects must hold no slot yet, and one that     *)
(* hands its lease back must hold one. LeaseInv adds that: a pilot has a   *)
(* slot just when their session is on. TypeInv adds to TypeOK the types of *)
(* what the sector has still to write and to hear.                         *)
(*                                                                         *)
(* Unless a wait runs out or an atomic is torn (Calm): a session that      *)
(* stops waiting for its join knows whether it was seated, and leaves      *)
(* nothing at its slot. Both rest on CalmInv, what holds of a session, its *)
(* slot and all that is on its way between them: what the slot's status    *)
(* still shows (StatusInv), that a join's epoch is new until it is         *)
(* answered (SeatInv, JoinInv), what else may be queued (MsgInv), and      *)
(* which reports may be on their way, to whom and in which order           *)
(* (FlightInv to OrderInv). A step of the sector does one of five things   *)
(* to each slot (Effect), and a step of a session little to any but its    *)
(* own (SessionMoves, PilotFits): that every such step keeps CalmInv is    *)
(* proved once for the sector, from SectorStep, and once for the sessions, *)
(* from SessionStep.                                                       *)
(***************************************************************************)
EXTENDS SlotLease, Sums, FiniteSetTheorems, TLAPS

PCs == {"away", "asking", "seating", "entered", "play", "docking",
        "freeing", "towing", "awaitTow", "returning"}

(* What is inductive: the lists' types, a slot for every session that is on, and
   OneOwner. *)
LeaseInv ==
    /\ leases \in Seq(Slots)
    /\ slot \in [Pilots -> Slots \cup {NoSlot}]
    /\ pc \in [Pilots -> PCs]
    /\ \A p \in Pilots : (pc[p] = "away") <=> (slot[p] = NoSlot)
    /\ OneOwner

(* A step that moves no lease: nobody comes or goes. *)
Keeps ==
    /\ leases' = leases
    /\ slot' = slot
    /\ pc' \in [Pilots -> PCs]
    /\ \A q \in Pilots : (pc'[q] = "away") <=> (pc[q] = "away")

(* A step that moves no lease keeps LeaseInv. *)
LEMMA KeepsInv == LeaseInv /\ Keeps => LeaseInv'
BY DEF LeaseInv, Keeps, OneOwner

(* A session on its way from one place to another, neither of them away. *)
LEMMA Moves ==
    ASSUME LeaseInv, NEW p \in Pilots, NEW to \in PCs \ {"away"},
           pc[p] # "away", pc' = [pc EXCEPT ![p] = to], leases' = leases, slot' = slot
    PROVE  Keeps
BY DEF LeaseInv, Keeps, PCs

(* A step of the sector, or of the notes task, touches no session and no lease. *)
LEMMA SectorKeeps == LeaseInv /\ (Sector \/ Notes) => Keeps
<1> SUFFICES ASSUME LeaseInv, Sector \/ Notes PROVE Keeps
    OBVIOUS
<1>1. leases' = leases /\ slot' = slot /\ pc' = pc
  <2>1. CASE SectorWrite
        BY <2>1 DEF SectorWrite, session
  <2>2. CASE HandleJoin
        BY <2>2, Zenon DEF HandleJoin, session
  <2>3. CASE HandleSleep
        BY <2>3, Zenon DEF HandleSleep, session
  <2>4. CASE HandleDock
        BY <2>4 DEF HandleDock, session
  <2>5. CASE HandleEject
        BY <2>5 DEF HandleEject, session
  <2>6. CASE HandleTow
        BY <2>6 DEF HandleTow, session
  <2>7. ASSUME NEW lf, NEW fate, NEW tugs, EndTick(lf, fate, tugs)
        PROVE  leases' = leases /\ slot' = slot /\ pc' = pc
        BY <2>7 DEF EndTick, session
  <2>8. CASE QuietTick
        BY <2>8, <2>7 DEF QuietTick
  <2>9. CASE \E id \in Ids : Thrown(id) \/ Struck(id) \/ WreckCleared(id) \/ SleeperStruck(id)
        BY <2>9, <2>7 DEF Thrown, Struck, WreckCleared, SleeperStruck
  <2>10. CASE \E s \in Slots : TugsArrive(s)
        BY <2>10, <2>7 DEF TugsArrive
  <2>11. CASE Notes
        BY <2>11 DEF Notes, session
  <2> QED BY <2>1, <2>2, <2>3, <2>4, <2>5, <2>6, <2>8, <2>9, <2>10, <2>11 DEF Sector
<1> QED BY <1>1 DEF LeaseInv, Keeps

(* Every step of a session but Connect and Return keeps its slot. *)
LEMMA SessionKeeps ==
    ASSUME LeaseInv, NEW p \in Pilots,
           Progress(p) \/ Whim(p), ~Return(p), ~Connect(p)
    PROVE  Keeps
<1> USE DEF shared, session
<1>1. ASSUME NEW state, Answer(p, state), pc[p] = "seating" PROVE Keeps
  <2>1. CASE sleeper[p] # NoSuit
    <3>1. pc' = [pc EXCEPT ![p] = "entered"] /\ leases' = leases /\ slot' = slot
          BY <1>1, <2>1 DEF Answer
    <3> QED BY <1>1, <3>1, Moves DEF PCs
  <2>2. CASE ~(sleeper[p] # NoSuit)
    <3>1. pc' = [pc EXCEPT ![p] = "play"] /\ leases' = leases /\ slot' = slot
          BY <1>1, <2>2 DEF Answer
    <3> QED BY <1>1, <3>1, Moves DEF PCs
  <2> QED BY <2>1, <2>2
<1>2. ASSUME Settle(p), pc[p] = "freeing" PROVE Keeps
  <2>1. leases' = leases /\ slot' = slot
        BY <1>2 DEF Settle
  <2>2. \/ pc' = [pc EXCEPT ![p] = "towing"]
        \/ pc' = [pc EXCEPT ![p] = "returning"]
        BY <1>2 DEF Settle
  <2> QED BY <1>2, <2>1, <2>2, Moves DEF PCs
<1>3. CASE Ask(p)
      BY <1>3, Moves DEF Ask, PCs
<1>4. CASE AwaitSeat(p) \/ GiveUpSeat(p)
      BY <1>4, <1>1 DEF AwaitSeat, GiveUpSeat
<1>5. CASE PollState(p)
      BY <1>5 DEF PollState, LeaseInv, Keeps
<1>6. CASE PollEpoch(p)
  <2>1. CASE Answer(p, poll[p])
        BY <1>6, <2>1, <1>1 DEF PollEpoch
  <2>2. CASE ~Answer(p, poll[p])
        BY <1>6, <2>2 DEF PollEpoch, LeaseInv, Keeps
  <2> QED BY <2>1, <2>2
<1>7. CASE Enter(p)
  <2>1. pc[p] = "entered" /\ pc' = [pc EXCEPT ![p] = "play"] /\ leases' = leases /\ slot' = slot
        BY <1>7 DEF Enter
  <2> QED BY <2>1, Moves DEF PCs
<1>8. CASE ReadReport(p)
  <2>1. leases' = leases /\ slot' = slot /\ pc[p] \in {"play", "docking"}
        BY <1>8 DEF ReadReport
  <2>2. \/ pc' = [pc EXCEPT ![p] = "play"]
        \/ pc' = [pc EXCEPT ![p] = pc[p]]
        BY <1>8 DEF ReadReport
  <2> QED BY <2>1, <2>2, Moves DEF PCs
<1>9. CASE GiveUpDock(p)
      BY <1>9, Moves DEF GiveUpDock, PCs
<1>10. CASE WreckGone(p) \/ Refit(p) \/ Eject(p)
       BY <1>10 DEF WreckGone, Refit, Eject, LeaseInv, Keeps
<1>11. CASE AwaitFree(p) \/ GiveUpFree(p)
       BY <1>11, <1>2 DEF AwaitFree, GiveUpFree
<1>12. CASE AskTow(p)
       BY <1>12, Moves DEF AskTow, PCs
<1>13. CASE AwaitTow(p)
  <2>1. leases' = leases /\ slot' = slot /\ pc[p] = "awaitTow"
        BY <1>13 DEF AwaitTow
  <2>2. \/ pc' = [pc EXCEPT ![p] = "returning"]
        \/ pc' = [pc EXCEPT ![p] = pc[p]]
        BY <1>13 DEF AwaitTow
  <2> QED BY <2>1, <2>2, Moves DEF PCs
<1>14. CASE GiveUpTow(p)
       BY <1>14, Moves DEF GiveUpTow, PCs
<1>15. CASE Launch(p)
       BY <1>15, Moves DEF Launch, PCs
<1>16. CASE Dock(p)
       BY <1>16, Moves DEF Dock, PCs
<1>17. CASE Leave(p)
  <2>1. leases' = leases /\ slot' = slot /\ pc[p] = "play"
        BY <1>17 DEF Leave
  <2>2. \/ pc' = [pc EXCEPT ![p] = "freeing"]
        \/ pc' = [pc EXCEPT ![p] = "towing"]
        \/ pc' = [pc EXCEPT ![p] = "returning"]
        BY <1>17 DEF Leave
  <2> QED BY <2>1, <2>2, Moves DEF PCs
<1> QED BY <1>3, <1>4, <1>5, <1>6, <1>7, <1>8, <1>9, <1>10, <1>11, <1>12, <1>13, <1>14,
           <1>15, <1>16, <1>17 DEF Progress, Whim

(* A lease popped by Session::run is its session's alone. *)
LEMMA ConnectInv ==
    ASSUME LeaseInv, NEW p \in Pilots, Connect(p)
    PROVE  LeaseInv'
<1> DEFINE s == leases[1]
<1>1. /\ leases \in Seq(Slots) /\ leases # <<>> /\ s \in Slots
      /\ leases' = Tail(leases) /\ slot' = [slot EXCEPT ![p] = s]
      /\ pc[p] = "away" /\ slot[p] = NoSlot /\ s # NoSlot
      BY ConstantsAssumption DEF LeaseInv, Connect
<1>2. /\ Len(leases) \in Nat \ {0} /\ DOMAIN leases = 1..Len(leases)
      /\ Tail(leases) \in Seq(Slots) /\ DOMAIN Tail(leases) = 1..(Len(leases) - 1)
      /\ \A i \in DOMAIN Tail(leases) : Tail(leases)[i] = leases[i + 1] /\ i + 1 \in DOMAIN leases
      BY <1>1
<1>3. \/ pc' = [pc EXCEPT ![p] = "asking"]
      \/ pc' = [pc EXCEPT ![p] = "entered"]
      BY DEF Connect
<1>4. /\ leases' \in Seq(Slots) /\ slot' \in [Pilots -> Slots \cup {NoSlot}]
      /\ pc' \in [Pilots -> PCs]
      /\ \A q \in Pilots : (pc'[q] = "away") <=> (slot'[q] = NoSlot)
      BY <1>1, <1>2, <1>3 DEF LeaseInv, PCs
<1>5. \A i, j \in DOMAIN leases' : leases'[i] = leases'[j] => i = j
      BY <1>1, <1>2 DEF LeaseInv, OneOwner
<1>6. \A q, t \in Pilots : slot'[q] = slot'[t] /\ slot'[q] # NoSlot => q = t
      BY <1>1, <1>2 DEF LeaseInv, OneOwner
<1>7. \A q \in Pilots : \A i \in DOMAIN leases' : slot'[q] # leases'[i]
      BY <1>1, <1>2 DEF LeaseInv, OneOwner
<1>8. ASSUME NEW t \in Slots
      PROVE  (\E i \in DOMAIN leases' : leases'[i] = t) \/ (\E q \in Pilots : slot'[q] = t)
  <2>1. CASE t = s
        BY <2>1, <1>1 DEF LeaseInv
  <2>2. CASE t # s /\ \E i \in DOMAIN leases : leases[i] = t
    <3>1. PICK i \in DOMAIN leases : leases[i] = t
          BY <2>2
    <3>2. i - 1 \in DOMAIN Tail(leases) /\ Tail(leases)[i - 1] = t
          BY <3>1, <2>2, <1>1, <1>2
    <3> QED BY <3>2, <1>1
  <2>3. CASE \E q \in Pilots : slot[q] = t
    <3>1. PICK q \in Pilots : slot[q] = t
          BY <2>3
    <3>2. q # p
          BY <3>1, <1>1, ConstantsAssumption
    <3> QED BY <3>1, <3>2, <1>1 DEF LeaseInv
  <2> QED BY <2>1, <2>2, <2>3 DEF LeaseInv, OneOwner
<1> QED BY <1>4, <1>5, <1>6, <1>7, <1>8 DEF LeaseInv, OneOwner

(* A lease Session::leave pushes was its session's, and nobody else's. *)
LEMMA ReturnInv ==
    ASSUME LeaseInv, NEW p \in Pilots, Return(p)
    PROVE  LeaseInv'
<1> DEFINE s == slot[p]
           n == Len(leases)
<1>1. /\ leases' = Append(leases, s) /\ slot' = [slot EXCEPT ![p] = NoSlot]
      /\ pc[p] = "returning" /\ pc' = [pc EXCEPT ![p] = "away"]
      BY DEF Return
<1>2. s \in Slots /\ s # NoSlot
      BY <1>1, ConstantsAssumption DEF LeaseInv
<1>3. /\ leases \in Seq(Slots) /\ n \in Nat /\ DOMAIN leases = 1..n
      /\ Append(leases, s) \in Seq(Slots) /\ DOMAIN Append(leases, s) = 1..(n + 1)
      /\ Append(leases, s)[n + 1] = s
      /\ \A i \in 1..n : Append(leases, s)[i] = leases[i]
      BY <1>2 DEF LeaseInv
<1>4. /\ leases' \in Seq(Slots) /\ slot' \in [Pilots -> Slots \cup {NoSlot}]
      /\ pc' \in [Pilots -> PCs]
      /\ \A q \in Pilots : (pc'[q] = "away") <=> (slot'[q] = NoSlot)
      BY <1>1, <1>3 DEF LeaseInv, PCs
<1>5. \A i, j \in DOMAIN leases' : leases'[i] = leases'[j] => i = j
  <2> SUFFICES ASSUME NEW i \in 1..(n + 1), NEW j \in 1..(n + 1),
                      Append(leases, s)[i] = Append(leases, s)[j]
               PROVE  i = j
      BY <1>1, <1>3
  <2>1. i \in 1..n \/ i = n + 1
        BY <1>3
  <2>2. j \in 1..n \/ j = n + 1
        BY <1>3
  <2> QED BY <2>1, <2>2, <1>3 DEF LeaseInv, OneOwner
<1>6. \A q, t \in Pilots : slot'[q] = slot'[t] /\ slot'[q] # NoSlot => q = t
      BY <1>1 DEF LeaseInv, OneOwner
<1>7. \A q \in Pilots : \A i \in DOMAIN leases' : slot'[q] # leases'[i]
  <2> SUFFICES ASSUME NEW q \in Pilots, NEW i \in 1..(n + 1)
               PROVE  slot'[q] # Append(leases, s)[i]
      BY <1>1, <1>3
  <2>1. CASE q = p
        BY <2>1, <1>1, <1>3, ConstantsAssumption DEF LeaseInv
  <2>2. CASE q # p /\ i \in 1..n
        BY <2>2, <1>1, <1>3, SMTT(30) DEF LeaseInv, OneOwner
  <2>3. CASE q # p /\ i = n + 1
        BY <2>3, <1>1, <1>2, <1>3 DEF LeaseInv, OneOwner
  <2> QED BY <2>1, <2>2, <2>3, <1>3
<1>8. ASSUME NEW t \in Slots
      PROVE  (\E i \in DOMAIN leases' : leases'[i] = t) \/ (\E q \in Pilots : slot'[q] = t)
  <2>1. CASE \E i \in 1..n : leases[i] = t
        BY <2>1, <1>1, <1>3
  <2>2. CASE t = s
        BY <2>2, <1>1, <1>3
  <2>3. CASE t # s /\ \E q \in Pilots : slot[q] = t
        BY <2>3, <1>1 DEF LeaseInv
  <2> QED BY <2>1, <2>2, <2>3, <1>3 DEF LeaseInv, OneOwner
<1> QED BY <1>4, <1>5, <1>6, <1>7, <1>8 DEF LeaseInv, OneOwner

(* At first all slots are free, each of them once. *)
LEMMA InitInv == Init => LeaseInv
<1> SUFFICES ASSUME Init PROVE LeaseInv
    OBVIOUS
<1> DEFINE n == Cardinality(Slots)
<1>1. n \in Nat
      BY ConstantsAssumption, FS_CardinalityType
<1>2. leases \in [1..n -> Slots] /\ \A i, j \in 1..n : i # j => leases[i] # leases[j]
      BY DEF Init, SetToSeqs
<1>3. leases \in Injection(1..n, Slots)
      BY <1>2 DEF Injection, IsInjective
<1>4. Cardinality(1..n) = n
      BY <1>1, FS_Interval
<1>5. leases \in Surjection(1..n, Slots)
      BY <1>3, <1>4, FS_Injection, ConstantsAssumption
<1>6. leases \in Seq(Slots) /\ DOMAIN leases = 1..n
      BY <1>1, <1>2
<1>7. \A s \in Slots : \E i \in DOMAIN leases : leases[i] = s
      BY <1>5, <1>6 DEF Surjection
<1>8. slot = [p \in Pilots |-> NoSlot] /\ pc = [p \in Pilots |-> "away"]
      BY DEF Init
<1> QED BY <1>2, <1>6, <1>7, <1>8, ConstantsAssumption DEF LeaseInv, OneOwner, PCs

(* Every step keeps LeaseInv. *)
LEMMA NextInv == LeaseInv /\ [Next]_vars => LeaseInv'
<1> SUFFICES ASSUME LeaseInv, [Next]_vars PROVE LeaseInv'
    OBVIOUS
<1>1. CASE Sector \/ Notes
      BY <1>1, SectorKeeps, KeepsInv
<1>2. ASSUME NEW p \in Pilots, Progress(p) \/ Whim(p) PROVE LeaseInv'
  <2>1. CASE Connect(p)
        BY <2>1, ConnectInv
  <2>2. CASE Return(p)
        BY <2>2, ReturnInv
  <2>3. CASE ~Connect(p) /\ ~Return(p)
        BY <2>3, <1>2, SessionKeeps, KeepsInv
  <2> QED BY <2>1, <2>2, <2>3
<1>3. CASE UNCHANGED vars
      BY <1>3 DEF vars, shared, session, LeaseInv, OneOwner
<1> QED BY <1>1, <1>2, <1>3 DEF Next

(* Slots never leak and are never shared: whatever sessions give up on, whatever the
   sector has yet to write, a slot is on the free list once or is one session's. *)
THEOREM SlotsHaveOneOwner == Spec => []OneOwner
<1>1. LeaseInv => OneOwner
      BY DEF LeaseInv
<1> QED BY InitInv, NextInv, <1>1, PTL DEF Spec

-----------------------------------------------------------------------------
(* What a concatenation of two sequences has in it. *)
LEMMA CatIs ==
    ASSUME NEW S, NEW a \in Seq(S), NEW b \in Seq(S)
    PROVE  /\ a \o b \in Seq(S) /\ Len(a \o b) = Len(a) + Len(b)
           /\ Len(a) \in Nat /\ Len(b) \in Nat
           /\ DOMAIN a = 1..Len(a) /\ DOMAIN b = 1..Len(b)
           /\ DOMAIN (a \o b) = 1..(Len(a) + Len(b))
           /\ \A i \in 1..Len(a) : (a \o b)[i] = a[i]
           /\ \A i \in 1..Len(b) : (a \o b)[Len(a) + i] = b[i]
OBVIOUS

(* What is left when the first is taken. *)
LEMMA TailIs ==
    ASSUME NEW S, NEW q \in Seq(S), q # <<>>
    PROVE  /\ Head(q) \in S /\ Head(q) = q[1] /\ 1 \in DOMAIN q
           /\ Tail(q) \in Seq(S) /\ Len(Tail(q)) = Len(q) - 1 /\ Len(q) \in Nat \ {0}
           /\ DOMAIN q = 1..Len(q) /\ DOMAIN Tail(q) = 1..(Len(q) - 1)
           /\ \A i \in DOMAIN Tail(q) : Tail(q)[i] = q[i + 1] /\ i + 1 \in DOMAIN q
           /\ \A i \in DOMAIN q : i = 1 \/ (i - 1 \in DOMAIN Tail(q) /\ Tail(q)[i - 1] = q[i])
OBVIOUS

LEMMA AppendIs ==
    ASSUME NEW S, NEW q \in Seq(S), NEW x \in S
    PROVE  /\ Append(q, x) \in Seq(S) /\ Len(Append(q, x)) = Len(q) + 1 /\ Len(q) \in Nat
           /\ DOMAIN q = 1..Len(q) /\ DOMAIN Append(q, x) = 1..(Len(q) + 1)
           /\ Append(q, x)[Len(q) + 1] = x
           /\ \A i \in 1..Len(q) : Append(q, x)[i] = q[i]
OBVIOUS

-----------------------------------------------------------------------------
(* FlattenSeq, of sequences one after another.  It is defined by recursion on how many. *)

(* g has what the first sequences come to. *)
FlatUpto(ss, g, n) ==
    g = [i \in 1..n |-> IF i = 1 THEN ss[i] ELSE g[i - 1] \o ss[i]]

(* The recursion has a value. *)
LEMMA FlatHas ==
    ASSUME NEW S, NEW n \in Nat, NEW ss \in [1..n -> Seq(S)]
    PROVE  \E g \in [1..n -> Seq(S)] : FlatUpto(ss, g, n)
<1> DEFINE Good(m, g) == /\ g \in [1..m -> Seq(S)]
                         /\ \A i \in 1..m : g[i] = IF i = 1 THEN ss[i] ELSE g[i - 1] \o ss[i]
           bad == {m \in Nat : m <= n /\ ~\E g : Good(m, g)}
<1>1. bad = {}
  <2> SUFFICES ASSUME bad # {} PROVE FALSE
      OBVIOUS
  <2>1. PICK m \in bad : \A k \in bad : m <= k
        BY LeastOf
  <2>2. m # 0
    <3>1. Good(0, <<>>)
          OBVIOUS
    <3> HIDE DEF Good
    <3> QED BY <3>1, <2>1
  <2>3. m - 1 \in Nat /\ m - 1 <= n /\ m \in 1..n /\ m - 1 \notin bad
    <3> HIDE DEF Good
    <3>1. m \in Nat /\ m <= n
          OBVIOUS
    <3>2. m - 1 \in Nat /\ m - 1 <= n /\ m \in 1..n /\ ~(m <= m - 1)
          BY <3>1, <2>2
    <3> HIDE DEF bad
    <3> QED BY <2>1, <3>2
  <2>4. PICK g : Good(m - 1, g)
        BY <2>3
  <2> DEFINE e == IF m = 1 THEN ss[m] ELSE g[m - 1] \o ss[m]
             h == [i \in 1..m |-> IF i = m THEN e ELSE g[i]]
  <2>5. e \in Seq(S)
    <3>1. ss[m] \in Seq(S)
          BY <2>3
    <3>2. m # 1 => g[m - 1] \in Seq(S)
          BY <2>3, <2>4
    <3> QED BY <3>1, <3>2
  <2>6. h \in [1..m -> Seq(S)]
        BY <2>3, <2>4, <2>5
  <2>7. ASSUME NEW i \in 1..m
        PROVE  h[i] = IF i = 1 THEN ss[i] ELSE h[i - 1] \o ss[i]
    <3>1. CASE i = m
      <4>1. m # 1 => h[m - 1] = g[m - 1]
            BY <2>3
      <4> QED BY <3>1, <4>1
    <3>2. CASE i # m
      <4>1. i \in 1..(m - 1) /\ h[i] = g[i] /\ (i # 1 => i - 1 \in 1..m /\ i - 1 # m)
            BY <3>2, <2>3
      <4>2. i # 1 => h[i - 1] = g[i - 1]
            BY <4>1
      <4> QED BY <4>1, <4>2, <2>4
    <3> QED BY <3>1, <3>2
  <2>8. Good(m, h)
        BY <2>6, <2>7
  <2> HIDE DEF Good, h
  <2> QED BY <2>1, <2>8
<1>2. PICK g : Good(n, g)
  <2> HIDE DEF Good
  <2>1. SUFFICES ASSUME ~\E g : Good(n, g) PROVE FALSE
        OBVIOUS
  <2>2. n \in bad
        BY <2>1
  <2> QED BY <1>1, <2>2
<1>3. g \in [1..n -> Seq(S)] /\ FlatUpto(ss, g, n)
      BY <1>2 DEF FlatUpto
<1> QED BY <1>3

LEMMA FlatIs ==
    ASSUME NEW S, NEW n \in Nat \ {0}, NEW ss \in [1..n -> Seq(S)]
    PROVE  \E g \in [1..n -> Seq(S)] : FlatUpto(ss, g, n) /\ FlattenSeq(ss) = g[n]
<1>1. Len(ss) = n
      OBVIOUS
<1>2. FlattenSeq(ss) = (CHOOSE g : FlatUpto(ss, g, n))[n]
      BY <1>1 DEF FlattenSeq, FlatUpto
<1> DEFINE f == CHOOSE g : FlatUpto(ss, g, n)
<1>3. PICK g \in [1..n -> Seq(S)] : FlatUpto(ss, g, n)
      BY FlatHas
<1>4. FlatUpto(ss, f, n)
      BY <1>3
<1> HIDE DEF f
<1>5. f = g
  <2> DEFINE bad == {i \in Nat : i \in 1..n /\ f[i] # g[i]}
  <2>1. bad = {}
    <3> SUFFICES ASSUME bad # {} PROVE FALSE
        OBVIOUS
    <3>1. PICK i \in bad : \A k \in bad : i <= k
          BY LeastOf
    <3>2. i \in 1..n /\ f[i] # g[i]
          BY <3>1
    <3>3. i # 1 => i - 1 \in 1..n /\ i - 1 \notin bad
          BY <3>1, <3>2
    <3>4. i # 1 => f[i - 1] = g[i - 1]
          BY <3>3
    <3>5. f[i] = IF i = 1 THEN ss[i] ELSE f[i - 1] \o ss[i]
          BY <3>2, <1>4 DEF FlatUpto
    <3>6. g[i] = IF i = 1 THEN ss[i] ELSE g[i - 1] \o ss[i]
          BY <3>2, <1>3 DEF FlatUpto
    <3> QED BY <3>2, <3>4, <3>5, <3>6
  <2>2. \A i \in 1..n : f[i] = g[i]
    <3> SUFFICES ASSUME NEW i \in 1..n PROVE f[i] = g[i]
        OBVIOUS
    <3>1. SUFFICES ASSUME f[i] # g[i] PROVE FALSE
          OBVIOUS
    <3>2. i \in bad
          BY <3>1
    <3> QED BY <2>1, <3>2
  <2>3. f = [i \in 1..n |-> f[i]] /\ g = [i \in 1..n |-> g[i]]
        BY <1>3, <1>4 DEF FlatUpto
  <2> QED BY <2>2, <2>3
<1> QED BY <1>2, <1>3, <1>5 DEF f

LEMMA FlatType ==
    ASSUME NEW S, NEW n \in Nat, NEW ss \in [1..n -> Seq(S)]
    PROVE  FlattenSeq(ss) \in Seq(S)
<1>1. CASE n = 0
  <2>1. 1..n = {}
        BY <1>1
  <2>2. ss = <<>>
        BY <2>1
  <2> QED BY <2>2 DEF FlattenSeq
<1>2. CASE n # 0
  <2>1. n \in Nat \ {0} /\ n \in 1..n
        BY <1>2
  <2>2. PICK g \in [1..n -> Seq(S)] : FlattenSeq(ss) = g[n]
        BY <2>1, FlatIs
  <2>3. g[n] \in Seq(S)
        BY <2>1
  <2> QED BY <2>2, <2>3
<1> QED BY <1>1, <1>2

LEMMA ShortIs ==
    ASSUME NEW S, NEW e \in Seq(S), Len(e) <= 1
    PROVE  e = <<>> \/ Len(e) = 1
<1>1. e = <<>> \/ Len(e) # 0
      OBVIOUS
<1> DEFINE k == Len(e)
<1>2. k \in Nat /\ k <= 1
      OBVIOUS
<1> HIDE DEF k
<1>3. k = 0 \/ k = 1
      BY <1>2
<1> QED BY <1>1, <1>3 DEF k

(* Of sequences no longer than one each, w says which of them each element is from. *)
Picked(ss, q, w, n) ==
    /\ w \in [DOMAIN q -> 1..n]
    /\ \A i, j \in DOMAIN q : w[i] = w[j] => i = j
    /\ \A i \in DOMAIN q : ss[w[i]] # <<>> /\ q[i] = ss[w[i]][1]
    /\ \A k \in 1..n : ss[k] # <<>> => \E i \in DOMAIN q : w[i] = k

LEMMA PickedMore ==
    ASSUME NEW S, NEW n \in Nat, NEW m \in 1..n, NEW ss \in [1..n -> Seq(S)],
           NEW e \in Seq(S), e = ss[m], Len(e) <= 1,
           NEW q \in Seq(S), NEW w, Picked(ss, q, w, m - 1)
    PROVE  \E v : Picked(ss, q \o e, v, m)
<1>1. e = <<>> \/ Len(e) = 1
      BY ShortIs
<1>2. CASE e = <<>>
  <2>1. q \o <<>> = q
        OBVIOUS
  <2>2. Picked(ss, q, w, m)
    <3>1. \A k \in 1..m : k = m \/ k \in 1..(m - 1)
          OBVIOUS
    <3>2. 1..(m - 1) \subseteq 1..m
          OBVIOUS
    <3> QED BY <1>2, <3>1, <3>2 DEF Picked
  <2> QED BY <1>2, <2>1, <2>2
<1>3. CASE Len(e) = 1
  <2> DEFINE l == Len(q)
             v == [i \in 1..(l + 1) |-> IF i = l + 1 THEN m ELSE w[i]]
             r == q \o e
  <2>1. /\ l \in Nat /\ DOMAIN q = 1..l /\ DOMAIN r = 1..(l + 1)
        /\ \A i \in 1..l : r[i] = q[i]
        /\ r[l + 1] = e[1] /\ e # <<>>
    <3>1. /\ Len(q) \in Nat /\ DOMAIN q = 1..Len(q)
          /\ DOMAIN (q \o e) = 1..(Len(q) + Len(e))
          /\ \A i \in 1..Len(q) : (q \o e)[i] = q[i]
          /\ \A i \in 1..Len(e) : (q \o e)[Len(q) + i] = e[i]
          BY CatIs
    <3>2. 1 \in 1..Len(e)
          BY <1>3
    <3>3. e # <<>>
      <4> SUFFICES ASSUME e = <<>> PROVE FALSE
          OBVIOUS
      <4>1. Len(e) = 0
            OBVIOUS
      <4> QED BY <4>1, <1>3
    <3> QED BY <3>1, <3>2, <3>3, <1>3
  <2> HIDE DEF r, l
  <2>p. /\ w \in [1..l -> 1..(m - 1)]
        /\ \A i, j \in 1..l : w[i] = w[j] => i = j
        /\ \A i \in 1..l : ss[w[i]] # <<>> /\ q[i] = ss[w[i]][1]
        /\ \A k \in 1..(m - 1) : ss[k] # <<>> => \E i \in 1..l : w[i] = k
        BY <2>1 DEF Picked
  <2>q. \A i \in 1..(l + 1) : i = l + 1 \/ (i \in 1..l /\ i # l + 1 /\ w[i] \in 1..(m - 1) /\ w[i] \in 1..m /\ w[i] # m)
        BY <2>1, <2>p
  <2>r. v[l + 1] = m /\ \A i \in 1..l : v[i] = w[i]
        BY <2>1
  <2>2. v \in [1..(l + 1) -> 1..m]
        BY <2>q
  <2>3. \A i, j \in 1..(l + 1) : v[i] = v[j] => i = j
    <3> SUFFICES ASSUME NEW i \in 1..(l + 1), NEW j \in 1..(l + 1), v[i] = v[j] PROVE i = j
        OBVIOUS
    <3> HIDE DEF v
    <3>1. CASE i = l + 1
          BY <3>1, <2>q, <2>r
    <3>2. CASE j = l + 1
          BY <3>2, <2>q, <2>r
    <3>3. CASE i # l + 1 /\ j # l + 1
          BY <3>3, <2>p, <2>q, <2>r
    <3> QED BY <3>1, <3>2, <3>3
  <2>4. \A i \in 1..(l + 1) : ss[v[i]] # <<>> /\ r[i] = ss[v[i]][1]
    <3> HIDE DEF v
    <3> QED BY <2>1, <2>p, <2>q, <2>r
  <2>5. \A k \in 1..m : ss[k] # <<>> => \E i \in 1..(l + 1) : v[i] = k
    <3> SUFFICES ASSUME NEW k \in 1..m, ss[k] # <<>> PROVE \E i \in 1..(l + 1) : v[i] = k
        OBVIOUS
    <3>1. CASE k = m
          BY <3>1, <2>1
    <3>2. CASE k # m
      <4>1. PICK i \in 1..l : w[i] = k
            BY <3>2, <2>1 DEF Picked
      <4> QED BY <4>1, <2>1
    <3> QED BY <3>1, <3>2
  <2> HIDE DEF v
  <2>6. Picked(ss, r, v, m)
        BY <2>1, <2>2, <2>3, <2>4, <2>5 DEF Picked
  <2> QED BY <2>6 DEF r
<1> QED BY <1>1, <1>2, <1>3

LEMMA FlatShort ==
    ASSUME NEW S, NEW n \in Nat, NEW ss \in [1..n -> Seq(S)], \A i \in 1..n : Len(ss[i]) <= 1
    PROVE  FlattenSeq(ss) \in Seq(S) /\ \E w : Picked(ss, FlattenSeq(ss), w, n)
<1>1. FlattenSeq(ss) \in Seq(S)
      BY FlatType
<1>2. CASE n = 0
  <2>1. 1..n = {}
        BY <1>2
  <2>2. ss = <<>>
        BY <2>1
  <2>3. FlattenSeq(ss) = <<>>
        BY <2>2 DEF FlattenSeq
  <2>4. Picked(ss, <<>>, <<>>, n)
        BY <2>1, SMTT(30) DEF Picked
  <2> QED BY <1>1, <2>3, <2>4
<1>3. CASE n # 0
  <2>1. PICK g \in [1..n -> Seq(S)] : FlatUpto(ss, g, n) /\ FlattenSeq(ss) = g[n]
        BY <1>3, FlatIs
  <2>2. \A i \in 1..n : g[i] = IF i = 1 THEN ss[i] ELSE g[i - 1] \o ss[i]
        BY <2>1 DEF FlatUpto
  <2> DEFINE bad == {m \in Nat : m \in 1..n /\ ~\E w : Picked(ss, g[m], w, m)}
  <2>3. bad = {}
    <3> SUFFICES ASSUME bad # {} PROVE FALSE
        OBVIOUS
    <3>1. PICK m \in bad : \A k \in bad : m <= k
          BY LeastOf
    <3>2. m \in Nat /\ m \in 1..n /\ ~\E w : Picked(ss, g[m], w, m)
          OBVIOUS
    <3>3. CASE m = 1
      <4>1. Picked(ss, <<>>, <<>>, m - 1)
            BY <3>3 DEF Picked
      <4>2. <<>> \in Seq(S) /\ <<>> \o ss[m] = ss[m] /\ g[m] = ss[m]
            BY <2>2, <3>2, <3>3
      <4>3. Len(ss[m]) <= 1 /\ ss[m] \in Seq(S)
            BY <3>2
      <4>4. \E v : Picked(ss, <<>> \o ss[m], v, m)
            BY <3>2, <4>1, <4>2, <4>3, PickedMore
      <4> QED BY <3>2, <4>2, <4>4
    <3>4. CASE m # 1
      <4>1. m - 1 \in Nat /\ m - 1 \in 1..n /\ ~(m <= m - 1)
            BY <3>2, <3>4
      <4>2. m - 1 \notin bad
            BY <3>1, <4>1
      <4>3. PICK w : Picked(ss, g[m - 1], w, m - 1)
            BY <4>1, <4>2
      <4>4. g[m - 1] \in Seq(S) /\ g[m] = g[m - 1] \o ss[m] /\ Len(ss[m]) <= 1
            /\ ss[m] \in Seq(S)
            BY <2>1, <2>2, <3>2, <3>4, <4>1
      <4>5. \E v : Picked(ss, g[m - 1] \o ss[m], v, m)
            BY <3>2, <4>3, <4>4, PickedMore
      <4> QED BY <3>2, <4>4, <4>5
    <3> QED BY <3>3, <3>4
  <2>4. \E w : Picked(ss, g[n], w, n)
    <3>1. SUFFICES ASSUME ~\E w : Picked(ss, g[n], w, n) PROVE FALSE
          OBVIOUS
    <3>2. n \in bad
          BY <3>1, <1>3
    <3> QED BY <2>3, <3>2
  <2> QED BY <1>1, <2>1, <2>4
<1> QED BY <1>2, <1>3

-----------------------------------------------------------------------------
SomeSuit == Ids \cup {NoSuit}
Anyone == Pilots \cup {NoPilot}
Ops == {"Join", "Sleep", "Dock", "Eject", "Tow"}
States == {"Free", "Active", "Refused"}
Outcomes == {"Fresh", "Woke", "Released", "Docked", "Asleep", "Lost"}
Epochs == 0..(EpochMod - 1)

(* What is in the queues, on the slots, and what the sector writes. *)
Msgs == [op : Ops, slot : Slots, who : Pilots, wake : SomeSuit, launch : SomeSuit]
Statuses == [state : States, suit : SomeSuit, epoch : Epochs, outcome : Outcomes]
Tellings == [what : {"Home", "Parked", "Lost", "LostEjected", "DockRefused", "Towed"}, of : Anyone]
Fates == [suit : Ids, fate : {"Lost", "Destroyed"}]
Clients == [active : BOOLEAN, suit : SomeSuit, lost : BOOLEAN,
            loss : {"Destroyed", "Ejected", "Blown"}]

(* A status published whole, or an atomic of it. *)
Whole == [suit : SomeSuit, outcome : Outcomes, state : States]
Values == Whole \cup [suit : SomeSuit] \cup [outcome : Outcomes] \cup [state : States] \cup {<<>>}
Stores == [kind : {"store"}, slot : Slots, val : Values, bump : {0, 1}]
Reports == [kind : {"report"}, slot : Slots, val : Tellings, bump : {0}]
Noticed == [kind : {"note"}, slot : {NoSlot}, val : Fates, bump : {0}]
Writes == Stores \cup Reports \cup Noticed

QueueTypes ==
    /\ control \in Seq(Msgs) /\ Len(control) <= ControlCap
    /\ status \in [Slots -> Statuses]
    /\ reports \in [Slots -> Seq(Tellings)] /\ \A s \in Slots : Len(reports[s]) <= ReportCap
    /\ notes \in Seq(Fates) /\ inHand \in Seq(Fates) /\ fates \in Seq(Fates)
    /\ todo \in Seq(Writes)

SectorTypes ==
    /\ client \in [Slots -> Clients] /\ \A s \in Slots : client[s].active => client[s].suit \in Ids
    /\ claim \in [Slots -> Anyone]
    /\ life \in [Ids -> Lives] /\ owner \in [Ids -> Anyone] /\ launched \in 0..MaxLaunches

TaskTypes ==
    /\ bound \in [Ids -> Anyone] /\ news \in [Pilots -> {"none", "Lost", "Destroyed"}]
    /\ bay \in [Pilots -> {"new", "docked", "out", "empty"}]
    /\ sleeper \in [Pilots -> SomeSuit] /\ suit \in [Pilots -> SomeSuit]
    /\ lost \in [Pilots -> BOOLEAN] /\ towing \in [Pilots -> BOOLEAN]
    /\ seen \in [Pilots -> Epochs] /\ poll \in [Pilots -> {"none"} \cup States \cup Outcomes]

TypeInv == LeaseInv /\ QueueTypes /\ SectorTypes /\ TaskTypes

-----------------------------------------------------------------------------
LEMMA NoSuitIs == NoSuit \notin Ids /\ \A id \in Ids : id \in Nat /\ id # 0
BY ConstantsAssumption DEF NoSuit, Ids

LEMMA SetToSeqIs ==
    ASSUME NEW S, IsFiniteSet(S)
    PROVE  /\ Cardinality(S) \in Nat
           /\ SetToSeq(S) \in [1..Cardinality(S) -> S] /\ SetToSeq(S) \in Seq(S)
           /\ \A i, j \in 1..Cardinality(S) : SetToSeq(S)[i] = SetToSeq(S)[j] => i = j
           /\ \A x \in S : \E i \in 1..Cardinality(S) : SetToSeq(S)[i] = x
<1> DEFINE n == Cardinality(S)
           f == SetToSeq(S)
<1>1. n \in Nat /\ ExistsBijection(1..n, S)
      BY FS_CardinalityType
<1>2. PICK g : g \in Bijection(1..n, S)
      BY <1>1 DEF ExistsBijection
<1>3. g \in [1..n -> S] /\ IsInjective(g)
      BY <1>2 DEF Bijection, Injection
<1>4. f \in [1..n -> S] /\ IsInjective(f)
      BY <1>3 DEF SetToSeq
<1>5. f \in Injection(1..n, S)
      BY <1>4 DEF Injection
<1>6. IsFiniteSet(1..n) /\ Cardinality(1..n) = n
      BY <1>1, FS_Interval
<1>7. f \in Surjection(1..n, S)
      BY <1>5, <1>6, FS_Injection
<1>8. \A x \in S : \E i \in 1..n : f[i] = x
      BY <1>7 DEF Surjection
<1> HIDE DEF f, n
<1>9. f \in Seq(S)
      BY <1>1, <1>4
<1> QED BY <1>1, <1>4, <1>8, <1>9 DEF f, n, IsInjective

LEMMA EvictionsAre ==
    ASSUME NEW from, NEW to
    PROVE  /\ Evictions(from, to) \in Seq(Fates)
           /\ \A i \in DOMAIN Evictions(from, to) :
                 \E id \in Ids : /\ Evictions(from, to)[i] = [suit |-> id, fate |-> "Lost"]
                                 /\ from[id] # "evicted" /\ to[id] = "evicted"
<1> DEFINE gone == {id \in Ids : from[id] # "evicted" /\ to[id] = "evicted"}
           S == {[suit |-> id, fate |-> "Lost"] : id \in gone}
<1>1. IsFiniteSet(gone)
  <2>1. IsFiniteSet(Ids)
        BY ConstantsAssumption, FS_Interval DEF Ids
  <2> QED BY <2>1, FS_Subset
<1>2. IsFiniteSet(S)
  <2> DEFINE f == [id \in gone |-> [suit |-> id, fate |-> "Lost"]]
  <2>1. S = {f[id] : id \in gone}
        OBVIOUS
  <2> HIDE DEF f, S, gone
  <2> QED BY <1>1, <2>1, ImageFinite
<1>3. S \subseteq Fates
      BY DEF Fates
<1>4. /\ Cardinality(S) \in Nat /\ SetToSeq(S) \in [1..Cardinality(S) -> S]
      BY <1>2, SetToSeqIs
<1>5. Evictions(from, to) = SetToSeq(S)
      BY DEF Evictions
<1>6. \A x \in S : \E id \in gone : x = [suit |-> id, fate |-> "Lost"]
      OBVIOUS
<1> DEFINE n == Cardinality(S)
<1> HIDE DEF S, n
<1>7. SetToSeq(S) \in Seq(Fates) /\ DOMAIN SetToSeq(S) = 1..n
      BY <1>3, <1>4 DEF n
<1>8. \A i \in 1..n : SetToSeq(S)[i] \in S
      BY <1>4 DEF n
<1> QED BY <1>5, <1>6, <1>7, <1>8

LEMMA WritesAre ==
    /\ \A s \in Slots, what \in {"Home", "Parked", "Lost", "LostEjected", "DockRefused", "Towed"},
          p \in Anyone : Tell(s, what, p) \in Writes
    /\ \A id \in Ids, fate \in {"Lost", "Destroyed"} : Note(id, fate) \in Writes
    /\ \A s \in Slots, val \in Values, bump \in {0, 1} : Store(s, val, bump) \in Writes
BY DEF Tell, Note, Store, Writes, Stores, Reports, Noticed, Tellings, Fates

LEMMA OneIs == ASSUME NEW S, NEW x \in S PROVE <<x>> \in Seq(S)
OBVIOUS

LEMMA PublishIs ==
    ASSUME NEW s \in Slots, NEW state \in States, NEW id \in SomeSuit, NEW outcome \in Outcomes
    PROVE  Publish(s, state, id, outcome) \in Seq(Writes)
<1> DEFINE b == IF state = "Free" THEN 0 ELSE 1
<1>1. /\ [suit |-> id] \in Values /\ [outcome |-> outcome] \in Values /\ <<>> \in Values
      /\ [state |-> state] \in Values
      /\ [suit |-> id, outcome |-> outcome, state |-> state] \in Values
      BY DEF Values, Whole
<1>2. b \in {0, 1}
      OBVIOUS
<1> HIDE DEF b
<1>3. /\ Store(s, [suit |-> id], 0) \in Writes /\ Store(s, [outcome |-> outcome], 0) \in Writes
      /\ Store(s, <<>>, b) \in Writes /\ Store(s, [state |-> state], 0) \in Writes
      /\ Store(s, [suit |-> id, outcome |-> outcome, state |-> state], b) \in Writes
      BY <1>1, <1>2, WritesAre
<1>4. Publish(s, state, id, outcome) =
         IF Torn
         THEN <<Store(s, [suit |-> id], 0), Store(s, [outcome |-> outcome], 0),
                Store(s, <<>>, b), Store(s, [state |-> state], 0)>>
         ELSE <<Store(s, [suit |-> id, outcome |-> outcome, state |-> state], b)>>
      BY DEF Publish, b
<1> HIDE DEF Store, Writes
<1>5. ASSUME NEW w1 \in Writes, NEW w2 \in Writes, NEW w3 \in Writes, NEW w4 \in Writes
      PROVE  <<w1, w2, w3, w4>> \in Seq(Writes) /\ <<w1>> \in Seq(Writes)
      OBVIOUS
<1> QED BY <1>3, <1>4, <1>5

-----------------------------------------------------------------------------
(* A set of numbers no higher than n has a highest. *)
LEMMA HighestOf ==
    ASSUME NEW n \in Nat, NEW T, T \subseteq 0..n, T # {}
    PROVE  \E x \in T : \A y \in T : y <= x
<1> DEFINE U == {m \in Nat : n - m \in T}
<1>1. \A x \in T : x \in Nat /\ n - x \in Nat /\ n - (n - x) = x
      OBVIOUS
<1>2. PICK z \in T : TRUE
      OBVIOUS
<1>3. n - z \in U
      BY <1>1, <1>2
<1>4. PICK m \in U : \A k \in U : m <= k
      BY <1>3, LeastOf
<1>5. n - m \in T
      OBVIOUS
<1>6. ASSUME NEW y \in T PROVE y <= n - m
  <2>1. n - y \in U
        BY <1>1
  <2>2. m <= n - y /\ y \in Nat /\ m \in Nat
        BY <2>1, <1>1, <1>4
  <2> QED BY <2>2
<1> QED BY <1>5, <1>6

LEMMA MaxIs ==
    ASSUME NEW n \in Nat, NEW T, T \subseteq 0..n, T # {}
    PROVE  Max(T) \in T /\ \A y \in T : y <= Max(T)
<1>1. \E x \in T : \A y \in T : x >= y
  <2>1. PICK x \in T : \A y \in T : y <= x
        BY HighestOf
  <2> QED BY <2>1
<1>2. Max(T) \in T /\ \A y \in T : Max(T) >= y
      BY <1>1 DEF Max
<1> QED BY <1>2

(* The suit a pilot launched last is theirs, and none of theirs is later. *)
LEMMA LastSuitIs ==
    ASSUME NEW p
    PROVE  IF \E id \in Ids : owner[id] = p
           THEN /\ LastSuit(p) \in Ids /\ owner[LastSuit(p)] = p
                /\ \A id \in Ids : owner[id] = p => id <= LastSuit(p)
           ELSE LastSuit(p) = NoSuit
<1> DEFINE theirs == {id \in Ids : owner[id] = p}
<1>1. CASE theirs = {}
      BY <1>1 DEF LastSuit
<1>2. CASE theirs # {}
  <2>1. MaxLaunches \in Nat /\ theirs \subseteq 0..MaxLaunches
        BY ConstantsAssumption DEF Ids
  <2> HIDE DEF theirs
  <2>2. \E id \in theirs : \A other \in theirs : other <= id
        BY <1>2, <2>1, HighestOf
  <2>3. LastSuit(p) = CHOOSE id \in theirs : \A other \in theirs : other <= id
        BY <1>2 DEF LastSuit, theirs
  <2>4. LastSuit(p) \in theirs /\ \A other \in theirs : other <= LastSuit(p)
        BY <2>2, <2>3
  <2> QED BY <2>4 DEF theirs
<1> QED BY <1>1, <1>2

LEMMA LastSuitType == ASSUME NEW p PROVE LastSuit(p) \in SomeSuit
BY LastSuitIs DEF SomeSuit

LEMMA TowType ==
    ASSUME SectorTypes, NEW s \in Slots
    PROVE  TowWrites(s) \in Seq(Writes)
<1>1. claim[s] \in Anyone
      BY DEF SectorTypes
<1>2. Tell(s, "Towed", claim[s]) \in Writes
      BY <1>1, WritesAre
<1> HIDE DEF Writes
<1> QED BY <1>2, OneIs DEF TowWrites

LEMMA LossType ==
    ASSUME SectorTypes, NEW s \in Slots, NEW lf
    PROVE  LossWrites(s, lf) \in Seq(Writes) /\ (~Torn => Len(LossWrites(s, lf)) <= 1)
<1> DEFINE c == client[s]
           what == IF c.loss = "Ejected" THEN "LostEjected" ELSE "Lost"
<1>1. c.active => owner[c.suit] \in Anyone
      BY DEF SectorTypes
<1>2. c.active => Tell(s, what, owner[c.suit]) \in Writes
      BY <1>1, WritesAre
<1>3. Publish(s, "Free", NoSuit, "Lost") \in Seq(Writes)
      BY PublishIs DEF SomeSuit, States, Outcomes
<1>4. <<>> \in Seq(Writes)
      OBVIOUS
<1>5. LossWrites(s, lf) = IF c.active /\ c.suit \notin Held(lf)
                          THEN Publish(s, "Free", NoSuit, "Lost")
                          ELSE IF c.active /\ ~c.lost /\ lf[c.suit] = "wreck"
                          THEN <<Tell(s, what, owner[c.suit])>> ELSE <<>>
      BY DEF LossWrites
<1>6. ~Torn => Len(Publish(s, "Free", NoSuit, "Lost")) <= 1
      BY DEF Publish
<1> HIDE DEF c, what
<1>7. \A x : Len(<<x>>) = 1 /\ Len(<<>>) = 0
      OBVIOUS
<1> HIDE DEF Writes
<1>8. CASE c.active /\ c.suit \notin Held(lf)
  <2>1. LossWrites(s, lf) = Publish(s, "Free", NoSuit, "Lost")
        BY <1>5, <1>8
  <2> DEFINE w == Publish(s, "Free", NoSuit, "Lost")
  <2>2. w \in Seq(Writes) /\ (~Torn => Len(w) <= 1)
        BY <1>3, <1>6
  <2> HIDE DEF w
  <2>3. LossWrites(s, lf) = w
        BY <2>1 DEF w
  <2> QED BY <2>2, <2>3, Zenon
<1>9. CASE ~(c.active /\ c.suit \notin Held(lf)) /\ c.active /\ ~c.lost /\ lf[c.suit] = "wreck"
  <2>1. LossWrites(s, lf) = <<Tell(s, what, owner[c.suit])>>
        BY <1>5, <1>9
  <2>2. <<Tell(s, what, owner[c.suit])>> \in Seq(Writes)
        BY <1>2, <1>9, OneIs
  <2> QED BY <1>7, <2>1, <2>2
<1>10. CASE ~(c.active /\ c.suit \notin Held(lf)) /\ ~(c.active /\ ~c.lost /\ lf[c.suit] = "wreck")
  <2>1. LossWrites(s, lf) = <<>>
        BY <1>5, <1>10
  <2> QED BY <1>4, <1>7, <2>1
<1> QED BY <1>8, <1>9, <1>10

LEMMA RoomType ==
    ASSUME NEW lf \in [Ids -> Lives], NEW full, NEW room \in MadeRoom(lf, full)
    PROVE  /\ room \in [Ids -> Lives]
           /\ \A id \in Ids : room[id] = lf[id] \/ (room[id] = "evicted" /\ lf[id] = "asleep")
BY DEF MadeRoom, Evictable, Lives

LEMMA ReleasedType == \A l \in Lives : Released(l) \in Lives
BY DEF Released, Lives

LEMMA SeatedType ==
    ASSUME SectorTypes, NEW s \in Slots, NEW id \in Ids
    PROVE  LET c == Seated(s, id)
           IN  c \in [Slots -> Clients] /\ \A t \in Slots : c[t].active => c[t].suit \in Ids
BY DEF Seated, SectorTypes, Clients, SomeSuit

(* What is in a concatenation is in the one or the other. *)
LEMMA HeadIs ==
    ASSUME NEW op, Takes(op), QueueTypes
    PROVE  Head(control) \in Msgs /\ Tail(control) \in Seq(Msgs) /\ Len(Tail(control)) <= ControlCap
<1> HIDE DEF Msgs
<1>1. control \in Seq(Msgs) /\ control # <<>> /\ Len(control) <= ControlCap
      BY DEF Takes, QueueTypes
<1>2. Head(control) \in Msgs /\ Tail(control) \in Seq(Msgs) /\ Len(Tail(control)) = Len(control) - 1
      /\ Len(control) \in Nat
      BY <1>1, TailIs
<1>3. ControlCap \in Nat
      BY ConstantsAssumption
<1> QED BY <1>1, <1>2, <1>3

-----------------------------------------------------------------------------
(* The sector's steps that handle a message keep the types. *)

HandlesTypes ==
    /\ \E t \in Seq(Writes) : todo' = t
    /\ \E f \in Seq(Fates) : fates' = f
    /\ control' = Tail(control)
    /\ UNCHANGED <<status, reports, notes, inHand>>
    /\ SectorTypes'

LEMMA JoinTypes == TypeInv /\ HandleJoin => HandlesTypes
<1> SUFFICES ASSUME TypeInv, HandleJoin PROVE HandlesTypes
    OBVIOUS
<1> DEFINE m == Head(control)
           s == m.slot
           left == IF client[s].active
                   THEN [life EXCEPT ![client[s].suit] = Released(@)] ELSE life
<1>1. SectorTypes /\ QueueTypes
      BY DEF TypeInv
<1>2. /\ s \in Slots /\ m.wake \in SomeSuit /\ m.launch \in SomeSuit
      BY <1>1, HeadIs, Zenon DEF HandleJoin, Msgs
<1>3. life \in [Ids -> Lives] /\ left \in [Ids -> Lives] /\ client[s].suit \in SomeSuit
      BY <1>1, <1>2, ReleasedType DEF SectorTypes, Clients
<1>4. control' = Tail(control) /\ UNCHANGED <<status, reports, notes, inHand, claim, owner, launched>>
      BY Zenon DEF HandleJoin, registry
<1>5. fates \in Seq(Fates)
      BY <1>1 DEF QueueTypes
<1>6. CASE m.wake # NoSuit /\ left[m.wake] = "asleep"
  <2>1. /\ life' = [left EXCEPT ![m.wake] = "flying"]
        /\ client' = Seated(s, m.wake)
        /\ todo' = Publish(s, "Active", m.wake, "Woke")
        /\ fates' = fates
        BY <1>6 DEF HandleJoin
  <2>2. m.wake \in Ids
        BY <1>2, <1>6 DEF SomeSuit
  <2>3. life' \in [Ids -> Lives]
        BY <1>3, <2>1 DEF Lives
  <2>4. Publish(s, "Active", m.wake, "Woke") \in Seq(Writes)
        BY <1>2, PublishIs DEF States, Outcomes
  <2>5. SectorTypes'
    <3>1. \A c : (c = Seated(s, m.wake)) => c \in [Slots -> Clients] /\ \A t \in Slots : c[t].active => c[t].suit \in Ids
          BY <1>1, <1>2, <2>2, SeatedType
    <3> QED BY <1>1, <1>4, <2>1, <2>3, <3>1 DEF SectorTypes
  <2> QED BY <1>4, <1>5, <2>1, <2>4, <2>5 DEF HandlesTypes
<1>7. CASE ~(m.wake # NoSuit /\ left[m.wake] = "asleep") /\ m.launch # NoSuit
  <2>1. PICK room \in MadeRoom(left, Cardinality(Held(left)) >= SimCap) :
           LET fits == Cardinality(Held(room)) < SimCap
           IN  /\ life' = [room EXCEPT ![m.launch] = IF fits THEN "cradle" ELSE "unlaunched"]
               /\ client' = IF fits THEN Seated(s, m.launch) ELSE client
               /\ todo' = IF fits THEN Publish(s, "Active", m.launch, "Fresh")
                          ELSE Publish(s, "Refused", NoSuit, "Fresh")
               /\ fates' = fates \o Evictions(left, room)
        BY <1>7, Zenon DEF HandleJoin
  <2>2. m.launch \in Ids
        BY <1>2, <1>7 DEF SomeSuit
  <2>3. room \in [Ids -> Lives]
    <3> HIDE DEF left
    <3> DEFINE full == Cardinality(Held(left)) >= SimCap
    <3>1. room \in MadeRoom(left, full)
          OBVIOUS
    <3> HIDE DEF full
    <3> QED BY <1>3, <3>1, RoomType
  <2>4. life' \in [Ids -> Lives]
        BY <2>1, <2>3, Zenon DEF Lives
  <2>5. todo' \in Seq(Writes)
    <3>1. /\ Publish(s, "Active", m.launch, "Fresh") \in Seq(Writes)
          /\ Publish(s, "Refused", NoSuit, "Fresh") \in Seq(Writes)
          BY <1>2, PublishIs DEF States, Outcomes, SomeSuit
    <3> QED BY <2>1, <3>1, Zenon
  <2>6. fates' \in Seq(Fates)
    <3>1. Evictions(left, room) \in Seq(Fates)
          BY EvictionsAre
    <3>2. fates \o Evictions(left, room) \in Seq(Fates)
          BY <3>1, <1>5, CatIs
    <3> QED BY <2>1, <3>2, Zenon
  <2>7. SectorTypes'
    <3>1. \A c : (c = Seated(s, m.launch)) => c \in [Slots -> Clients] /\ \A t \in Slots : c[t].active => c[t].suit \in Ids
          BY <1>1, <1>2, <2>2, SeatedType
    <3> QED BY <1>1, <1>4, <2>1, <2>4, <3>1, Zenon DEF SectorTypes
  <2> QED BY <1>4, <2>5, <2>6, <2>7 DEF HandlesTypes
<1>8. CASE ~(m.wake # NoSuit /\ left[m.wake] = "asleep") /\ m.launch = NoSuit
  <2>1. /\ life' = left
        /\ todo' = Publish(s, "Refused", NoSuit, "Fresh")
        /\ client' = client /\ fates' = fates
        BY <1>8, Zenon DEF HandleJoin
  <2>2. Publish(s, "Refused", NoSuit, "Fresh") \in Seq(Writes)
        BY <1>2, PublishIs DEF States, Outcomes, SomeSuit
  <2>3. SectorTypes'
        BY <1>1, <1>3, <1>4, <2>1 DEF SectorTypes
  <2> QED BY <1>4, <1>5, <2>1, <2>2, <2>3 DEF HandlesTypes
<1> QED BY <1>6, <1>7, <1>8

-----------------------------------------------------------------------------
LEMMA TellsAre ==
    ASSUME NEW s \in Slots, NEW p \in Anyone,
           NEW what \in {"Home", "Parked", "Lost", "LostEjected", "DockRefused", "Towed"}
    PROVE  <<Tell(s, what, p)>> \in Seq(Writes)
<1>1. Tell(s, what, p) \in Writes
      BY WritesAre
<1> QED BY <1>1, OneIs

LEMMA JoinedType ==
    ASSUME NEW a \in Seq(Writes), NEW b \in Seq(Writes)
    PROVE  a \o b \in Seq(Writes)
BY CatIs

LEMMA SleepTypes == TypeInv /\ HandleSleep => HandlesTypes
<1> SUFFICES ASSUME TypeInv, HandleSleep PROVE HandlesTypes
    OBVIOUS
<1> DEFINE s == Head(control).slot
           c == client[s]
           id == c.suit
           P(i, outcome) == Publish(s, "Free", i, outcome)
<1>1. SectorTypes /\ QueueTypes
      BY DEF TypeInv
<1>2. s \in Slots
      BY <1>1, HeadIs, Zenon DEF HandleSleep, Msgs
<1>3. /\ c \in Clients /\ id \in SomeSuit /\ (c.active => id \in Ids)
      BY <1>1, <1>2 DEF SectorTypes, Clients
<1>4. /\ control' = Tail(control) /\ UNCHANGED <<status, reports, notes, inHand, owner, launched>>
      /\ claim' = [claim EXCEPT ![s] = NoPilot] /\ client' = [client EXCEPT ![s].active = FALSE]
      BY Zenon DEF HandleSleep, registry
<1>5. fates \in Seq(Fates)
      BY <1>1 DEF QueueTypes
<1>6. /\ TowWrites(s) \in Seq(Writes) /\ <<>> \in Seq(Writes)
      /\ \A i \in SomeSuit, outcome \in Outcomes : P(i, outcome) \in Seq(Writes)
      BY <1>1, <1>2, TowType, PublishIs DEF States
<1>7. NoSuit \in SomeSuit /\ {"Released", "Docked", "Asleep"} \subseteq Outcomes
      BY DEF SomeSuit, Outcomes
<1>8. c.active => owner[id] \in Anyone
      BY <1>1, <1>3 DEF SectorTypes
<1>9. ASSUME life' \in [Ids -> Lives] PROVE SectorTypes'
  <2>1. client' \in [Slots -> Clients] /\ \A t \in Slots : client'[t].active => client'[t].suit \in Ids
        BY <1>1, <1>2, <1>4, ZenonT(60) DEF SectorTypes, Clients
  <2>2. claim' \in [Slots -> Anyone]
        BY <1>1, <1>2, <1>4 DEF SectorTypes, Anyone
  <2> QED BY <1>1, <1>4, <1>9, <2>1, <2>2 DEF SectorTypes
<1> HIDE DEF P
<1>10. CASE ~c.active
  <2>1. todo' = Freed(s, TowWrites(s), NoSuit, "Released") /\ UNCHANGED <<life, fates>>
        BY <1>10, Zenon DEF HandleSleep
  <2>2. todo' = TowWrites(s) \o P(NoSuit, "Released")
        BY <2>1 DEF Freed, P
  <2>3. TowWrites(s) \o P(NoSuit, "Released") \in Seq(Writes)
        BY <1>6, <1>7, JoinedType
  <2>4. SectorTypes'
        BY <1>1, <1>9, <2>1 DEF SectorTypes
  <2> QED BY <1>4, <1>5, <2>1, <2>2, <2>3, <2>4 DEF HandlesTypes
<1>11. CASE c.active /\ life[id] = "cradle"
  <2>1. /\ life' = [life EXCEPT ![id] = "docked"] /\ fates' = fates
        /\ todo' = TowWrites(s) \o Freed(s, <<Tell(s, "Home", owner[id])>>, NoSuit, "Docked")
        BY <1>11, Zenon DEF HandleSleep
  <2>2. todo' = TowWrites(s) \o (<<Tell(s, "Home", owner[id])>> \o P(NoSuit, "Docked"))
        BY <2>1 DEF Freed, P
  <2>3. <<Tell(s, "Home", owner[id])>> \in Seq(Writes)
        BY <1>2, <1>8, <1>11, TellsAre
  <2>4. <<Tell(s, "Home", owner[id])>> \o P(NoSuit, "Docked") \in Seq(Writes)
        BY <1>6, <1>7, <2>3, JoinedType
  <2>5. TowWrites(s) \o (<<Tell(s, "Home", owner[id])>> \o P(NoSuit, "Docked")) \in Seq(Writes)
        BY <1>6, <2>4, JoinedType
  <2>6. SectorTypes'
        BY <1>1, <1>9, <2>1, Zenon DEF SectorTypes, Lives
  <2> QED BY <1>4, <1>5, <2>1, <2>2, <2>5, <2>6, Zenon DEF HandlesTypes
<1>12. CASE c.active /\ life[id] = "flying"
  <2> DEFINE full == Cardinality({i \in Ids : life[i] = "asleep"}) >= MaxSleepers
  <2>1. PICK room \in MadeRoom(life, full), hides \in BOOLEAN :
           /\ life' = [room EXCEPT ![id] = "asleep"]
           /\ fates' = fates \o Evictions(life, room)
           /\ todo' = TowWrites(s)
                      \o Freed(s, IF hides THEN <<Tell(s, "Parked", owner[id])>> ELSE <<>>,
                               id, "Asleep")
        BY <1>12, Zenon DEF HandleSleep
  <2> HIDE DEF full
  <2> DEFINE said == IF hides THEN <<Tell(s, "Parked", owner[id])>> ELSE <<>>
  <2>2. <<Tell(s, "Parked", owner[id])>> \in Seq(Writes)
        BY <1>2, <1>8, <1>12, TellsAre
  <2>3. said \in Seq(Writes)
        BY <1>6, <2>2
  <2>4. todo' = TowWrites(s) \o (said \o P(id, "Asleep"))
        BY <2>1 DEF Freed, P
  <2> HIDE DEF said
  <2>5. said \o P(id, "Asleep") \in Seq(Writes)
        BY <1>3, <1>6, <1>7, <2>3, JoinedType
  <2>6. TowWrites(s) \o (said \o P(id, "Asleep")) \in Seq(Writes)
        BY <1>6, <2>5, JoinedType
  <2>7. room \in [Ids -> Lives]
        BY <1>1, RoomType DEF SectorTypes
  <2>8. SectorTypes'
        BY <1>9, <2>1, <2>7, Zenon DEF Lives
  <2>9. Evictions(life, room) \in Seq(Fates)
        BY EvictionsAre
  <2>10. fates \o Evictions(life, room) \in Seq(Fates)
        BY <2>9, <1>5, CatIs
  <2> QED BY <1>4, <2>1, <2>4, <2>6, <2>8, <2>10, Zenon DEF HandlesTypes
<1>13. CASE c.active /\ life[id] \notin {"cradle", "flying"}
  <2>1. /\ life' = [life EXCEPT ![id] = Released(@)] /\ fates' = fates
        /\ todo' = Freed(s, TowWrites(s), NoSuit, "Released")
        BY <1>13, Zenon DEF HandleSleep
  <2>2. todo' = TowWrites(s) \o P(NoSuit, "Released")
        BY <2>1 DEF Freed, P
  <2>3. TowWrites(s) \o P(NoSuit, "Released") \in Seq(Writes)
        BY <1>6, <1>7, JoinedType
  <2>4. SectorTypes'
        BY <1>1, <1>3, <1>9, <2>1, ReleasedType DEF SectorTypes
  <2> QED BY <1>4, <1>5, <2>1, <2>2, <2>3, <2>4 DEF HandlesTypes
<1> QED BY <1>10, <1>11, <1>12, <1>13

LEMMA DockTypes == TypeInv /\ HandleDock => HandlesTypes
<1> SUFFICES ASSUME TypeInv, HandleDock PROVE HandlesTypes
    OBVIOUS
<1> DEFINE m == Head(control)
           s == m.slot
           id == client[s].suit
<1>1. SectorTypes /\ QueueTypes
      BY DEF TypeInv
<1>2. s \in Slots /\ m.who \in Anyone
      BY <1>1, HeadIs DEF HandleDock, Msgs, Anyone
<1>3. control' = Tail(control) /\ UNCHANGED <<status, reports, notes, inHand, claim, fates, owner, launched>>
      BY DEF HandleDock, registry
<1>4. fates \in Seq(Fates)
      BY <1>1 DEF QueueTypes
<1>5. CASE /\ client[s].active
           /\ life' = [life EXCEPT ![id] = "docked"]
           /\ client' = [client EXCEPT ![s].active = FALSE]
           /\ todo' = Publish(s, "Free", NoSuit, "Docked") \o <<Tell(s, "Home", owner[id])>>
  <2>1. Publish(s, "Free", NoSuit, "Docked") \in Seq(Writes)
        BY <1>2, PublishIs DEF States, SomeSuit, Outcomes
  <2>2. owner[id] \in Anyone
        BY <1>1, <1>2, <1>5 DEF SectorTypes
  <2>3. <<Tell(s, "Home", owner[id])>> \in Seq(Writes)
        BY <1>2, <2>2, TellsAre
  <2>4. Publish(s, "Free", NoSuit, "Docked") \o <<Tell(s, "Home", owner[id])>> \in Seq(Writes)
        BY <2>1, <2>3, JoinedType
  <2>5. life' \in [Ids -> Lives]
        BY <1>1, <1>5 DEF SectorTypes, Lives
  <2>6. client' \in [Slots -> Clients] /\ \A t \in Slots : client'[t].active => client'[t].suit \in Ids
    <3>1. client \in [Slots -> Clients] /\ \A t \in Slots : client[t].active => client[t].suit \in Ids
          BY <1>1, Zenon DEF SectorTypes
    <3>2. [client[s] EXCEPT !.active = FALSE] \in Clients /\ ~[client[s] EXCEPT !.active = FALSE].active
          BY <1>2, <3>1 DEF Clients
    <3> HIDE DEF Clients
    <3>3. client' = [client EXCEPT ![s] = [client[s] EXCEPT !.active = FALSE]]
          BY <1>5
    <3>4. /\ client' \in [Slots -> Clients] /\ client'[s] = [client[s] EXCEPT !.active = FALSE]
          /\ \A t \in Slots : t # s => client'[t] = client[t]
          BY <1>2, <3>1, <3>2, <3>3
    <3> QED BY <3>1, <3>2, <3>4
  <2>7. SectorTypes'
        BY <1>1, <1>3, <2>5, <2>6 DEF SectorTypes
  <2> QED BY <1>3, <1>4, <1>5, <2>4, <2>7 DEF HandlesTypes
<1>6. CASE todo' = <<Tell(s, "DockRefused", m.who)>> /\ UNCHANGED <<life, client>>
  <2>1. <<Tell(s, "DockRefused", m.who)>> \in Seq(Writes)
        BY <1>2, TellsAre
  <2>2. SectorTypes'
        BY <1>1, <1>3, <1>6 DEF SectorTypes
  <2> QED BY <1>3, <1>4, <1>6, <2>1, <2>2 DEF HandlesTypes
<1> QED BY <1>5, <1>6, Zenon DEF HandleDock

LEMMA EjectTypes == TypeInv /\ HandleEject => HandlesTypes
<1> SUFFICES ASSUME TypeInv, HandleEject PROVE HandlesTypes
    OBVIOUS
<1> DEFINE s == Head(control).slot
           id == client[s].suit
<1>1. SectorTypes /\ QueueTypes
      BY DEF TypeInv
<1>2. s \in Slots
      BY <1>1, HeadIs DEF HandleEject, Msgs
<1>3. control' = Tail(control) /\ UNCHANGED <<status, reports, notes, inHand, fates, owner, launched>>
      BY DEF HandleEject, registry
<1>4. fates \in Seq(Fates) /\ todo \in Seq(Writes)
      BY <1>1 DEF QueueTypes
<1>5. TowWrites(s) \in Seq(Writes)
      BY <1>1, <1>2, TowType
<1>6. /\ \/ UNCHANGED <<life, client>>
         \/ /\ client[s].active
            /\ life' = [life EXCEPT ![id] = "wreck"]
            /\ \E l \in {"Ejected", "Blown"} : client' = [client EXCEPT ![s].loss = l]
      /\ UNCHANGED claim \/ (client[s].active /\ claim' = [claim EXCEPT ![s] = owner[id]])
      /\ todo' = todo \/ todo' = TowWrites(s)
      BY DEF HandleEject
<1>7. life' \in [Ids -> Lives]
      BY <1>1, <1>6 DEF SectorTypes, Lives
<1>8. client' \in [Slots -> Clients] /\ \A t \in Slots : client'[t].active => client'[t].suit \in Ids
      BY <1>1, <1>2, <1>6 DEF SectorTypes, Clients
<1>9. claim' \in [Slots -> Anyone]
      BY <1>1, <1>2, <1>6 DEF SectorTypes
<1>10. SectorTypes'
      BY <1>1, <1>3, <1>7, <1>8, <1>9 DEF SectorTypes
<1> QED BY <1>3, <1>4, <1>5, <1>6, <1>10 DEF HandlesTypes

LEMMA TowedTypes == TypeInv /\ HandleTow => HandlesTypes
<1> SUFFICES ASSUME TypeInv, HandleTow PROVE HandlesTypes
    OBVIOUS
<1> DEFINE s == Head(control).slot
<1>1. SectorTypes /\ QueueTypes
      BY DEF TypeInv
<1>2. s \in Slots
      BY <1>1, HeadIs DEF HandleTow, Msgs
<1>3. /\ control' = Tail(control) /\ todo' = TowWrites(s) /\ claim' = [claim EXCEPT ![s] = NoPilot]
      /\ UNCHANGED <<status, reports, notes, inHand, fates, client, life, owner, launched>>
      BY DEF HandleTow, registry, sim
<1>4. fates \in Seq(Fates)
      BY <1>1 DEF QueueTypes
<1>5. TowWrites(s) \in Seq(Writes)
      BY <1>1, <1>2, TowType
<1>6. SectorTypes'
      BY <1>1, <1>2, <1>3 DEF SectorTypes, Anyone
<1> QED BY <1>3, <1>4, <1>5, <1>6 DEF HandlesTypes

-----------------------------------------------------------------------------
(* A tick ends. *)
TickTypes ==
    /\ todo' \in Seq(Writes) /\ fates' = <<>>
    /\ UNCHANGED <<control, status, reports, notes, inHand>>
    /\ SectorTypes'

NotesOf(fs) == [i \in DOMAIN fs |-> Note(fs[i].suit, fs[i].fate)]

LEMMA NotesOfType ==
    ASSUME NEW fs \in Seq(Fates)
    PROVE  NotesOf(fs) \in Seq(Writes) /\ Len(NotesOf(fs)) = Len(fs)
<1>0. Len(fs) \in Nat /\ DOMAIN fs = 1..Len(fs) /\ \A i \in DOMAIN fs : fs[i] \in Fates
      OBVIOUS
<1>1. /\ Len(fs) \in Nat /\ DOMAIN fs = 1..Len(fs)
      /\ \A i \in DOMAIN fs : fs[i].suit \in Ids /\ fs[i].fate \in {"Lost", "Destroyed"}
  <2>1. \A x \in Fates : x.suit \in Ids /\ x.fate \in {"Lost", "Destroyed"}
        BY DEF Fates
  <2> QED BY <1>0, <2>1
<1>2. \A i \in DOMAIN fs : Note(fs[i].suit, fs[i].fate) \in Writes
      BY <1>1, WritesAre
<1> DEFINE n == Len(fs)
<1> HIDE DEF Writes, n
<1>3. NotesOf(fs) \in [1..n -> Writes]
      BY <1>1, <1>2 DEF NotesOf, n
<1> QED BY <1>1, <1>3 DEF n

LEMMA WatchType ==
    ASSUME SectorTypes, NEW lf, WatchLosses(lf)
    PROVE  client' \in [Slots -> Clients] /\ \A t \in Slots : client'[t].active => client'[t].suit \in Ids
<1>1. \A t \in Slots :
         /\ client[t] \in Clients /\ (client[t].active => client[t].suit \in Ids)
         /\ client'[t] = [client[t] EXCEPT
                !.active = client[t].active /\ client[t].suit \in Held(lf),
                !.lost = client[t].lost \/ (client[t].active /\ client[t].suit \in Held(lf)
                                            /\ lf[client[t].suit] = "wreck")]
      BY DEF WatchLosses, SectorTypes
<1>2. client' = [t \in Slots |-> client'[t]]
      BY DEF WatchLosses
<1>3. \A t \in Slots : client'[t] \in Clients /\ (client'[t].active => client'[t].suit \in Ids)
  <2> SUFFICES ASSUME NEW t \in Slots
               PROVE  client'[t] \in Clients /\ (client'[t].active => client'[t].suit \in Ids)
      OBVIOUS
  <2> DEFINE a == client[t].active /\ client[t].suit \in Held(lf)
             b == client[t].lost \/ (client[t].active /\ client[t].suit \in Held(lf)
                                     /\ lf[client[t].suit] = "wreck")
  <2>1. client[t] \in Clients /\ (client[t].active => client[t].suit \in Ids)
        BY <1>1
  <2>2. client'[t] = [client[t] EXCEPT !.active = a, !.lost = b]
        BY <1>1, Zenon
  <2>3. (a => client[t].active) /\ a \in BOOLEAN /\ b \in BOOLEAN
        BY <2>1 DEF Clients
  <2> HIDE DEF a, b
  <2> QED BY <2>1, <2>2, <2>3 DEF Clients
<1> QED BY <1>2, <1>3

LEMMA EndTypes ==
    ASSUME TypeInv, NEW lf \in [Ids -> Lives], NEW fate \in Seq(Fates), NEW tugs,
           EndTick(lf, fate, tugs)
    PROVE  TickTypes
<1> DEFINE order == SetToSeq(Slots)
           n == Cardinality(Slots)
           fs == fates \o fate
           losses == [i \in DOMAIN order |-> LossWrites(order[i], lf)]
           tows == [i \in DOMAIN order |-> IF order[i] \in tugs THEN TowWrites(order[i]) ELSE <<>>]
<1>1. SectorTypes /\ QueueTypes
      BY DEF TypeInv
<1>2. n \in Nat /\ order \in [1..n -> Slots]
      BY ConstantsAssumption, SetToSeqIs
<1>3. NotesOf(fs) \in Seq(Writes)
  <2>1. fs \in Seq(Fates)
        BY <1>1, CatIs DEF QueueTypes
  <2> HIDE DEF fs
  <2> QED BY <2>1, NotesOfType
<1>4. losses \in [1..n -> Seq(Writes)]
  <2>1. \A i \in 1..n : LossWrites(order[i], lf) \in Seq(Writes)
        BY <1>1, <1>2, LossType
  <2> HIDE DEF order, n
  <2> QED BY <1>2, <2>1
<1>5. tows \in [1..n -> Seq(Writes)]
  <2>1. \A i \in 1..n : TowWrites(order[i]) \in Seq(Writes)
        BY <1>1, <1>2, TowType
  <2>2. <<>> \in Seq(Writes)
        OBVIOUS
  <2> HIDE DEF order, n
  <2> QED BY <1>2, <2>1, <2>2
<1>6. todo' = NotesOf(fs) \o FlattenSeq(losses) \o FlattenSeq(tows)
      BY DEF EndTick, NotesOf
<1>7. todo' \in Seq(Writes)
  <2> HIDE DEF losses, tows, n, fs
  <2>1. FlattenSeq(losses) \in Seq(Writes) /\ FlattenSeq(tows) \in Seq(Writes)
        BY <1>2, <1>4, <1>5, FlatType
  <2>2. NotesOf(fs) \o FlattenSeq(losses) \in Seq(Writes)
        BY <1>3, <2>1, JoinedType
  <2>3. NotesOf(fs) \o FlattenSeq(losses) \o FlattenSeq(tows) \in Seq(Writes)
        BY <2>1, <2>2, JoinedType
  <2> QED BY <1>6, <2>3
<1>8. /\ UNCHANGED <<control, status, reports, notes, inHand, owner, launched>>
      /\ fates' = <<>> /\ life' = lf /\ WatchLosses(lf)
      /\ claim' = [s \in Slots |-> IF s \in tugs THEN NoPilot ELSE claim[s]]
      BY DEF EndTick, registry
<1>9. client' \in [Slots -> Clients] /\ \A t \in Slots : client'[t].active => client'[t].suit \in Ids
      BY <1>1, <1>8, WatchType
<1>10. claim' \in [Slots -> Anyone]
      BY <1>1, <1>8 DEF SectorTypes, Anyone
<1>11. SectorTypes'
      BY <1>1, <1>8, <1>9, <1>10 DEF SectorTypes
<1> QED BY <1>7, <1>8, <1>11 DEF TickTypes

LEMMA TicksTypes ==
    ASSUME TypeInv, \/ QuietTick
                    \/ \E id \in Ids : Thrown(id) \/ Struck(id) \/ WreckCleared(id) \/ SleeperStruck(id)
                    \/ \E s \in Slots : TugsArrive(s)
    PROVE  TickTypes
<1>1. life \in [Ids -> Lives] /\ <<>> \in Seq(Fates)
      BY DEF TypeInv, SectorTypes
<1>2. CASE QuietTick
      BY <1>1, <1>2, EndTypes DEF QuietTick
<1>3. ASSUME NEW id \in Ids, Thrown(id) \/ Struck(id) \/ WreckCleared(id) \/ SleeperStruck(id)
      PROVE  TickTypes
  <2>1. \A l \in Lives : [life EXCEPT ![id] = l] \in [Ids -> Lives]
        BY <1>1
  <2>2. <<[suit |-> id, fate |-> "Destroyed"]>> \in Seq(Fates)
        BY DEF Fates
  <2>3. {"flying", "wreck", "destroyed"} \subseteq Lives
        BY DEF Lives
  <2>4. PICK l \in {"flying", "wreck", "destroyed"}, fate \in {<<>>, <<[suit |-> id, fate |-> "Destroyed"]>>} :
           EndTick([life EXCEPT ![id] = l], fate, {})
        BY <1>3 DEF Thrown, Struck, WreckCleared, SleeperStruck
  <2>5. [life EXCEPT ![id] = l] \in [Ids -> Lives] /\ fate \in Seq(Fates)
        BY <1>1, <2>1, <2>2, <2>3
  <2> QED BY <2>4, <2>5, EndTypes
<1>4. ASSUME NEW s \in Slots, TugsArrive(s)
      PROVE  TickTypes
      BY <1>1, <1>4, EndTypes DEF TugsArrive
<1> QED BY <1>2, <1>3, <1>4

(* The sector writes. *)
LEMMA StoredType ==
    ASSUME NEW st \in Statuses, NEW w \in Stores
    PROVE  Stored(st, w) \in Statuses
<1>1. DOMAIN st = {"state", "suit", "epoch", "outcome"}
      BY DEF Statuses
<1>2. (st.epoch + w.bump) % EpochMod \in Epochs
  <2>1. EpochMod \in Nat \ {0} /\ st.epoch \in Nat /\ w.bump \in Nat
        BY ConstantsAssumption DEF Statuses, Stores, Epochs
  <2> QED BY <2>1 DEF Epochs
<1>3. /\ w.val \in Values
      /\ st.state \in States /\ st.suit \in SomeSuit /\ st.epoch \in Epochs /\ st.outcome \in Outcomes
      BY DEF Statuses, Stores
<1>4. /\ "epoch" \notin DOMAIN w.val
      /\ "suit" \in DOMAIN w.val => w.val.suit \in SomeSuit
      /\ "outcome" \in DOMAIN w.val => w.val.outcome \in Outcomes
      /\ "state" \in DOMAIN w.val => w.val.state \in States
  <2>1. CASE w.val \in Whole
        BY <2>1 DEF Whole
  <2>2. CASE w.val \in [suit : SomeSuit]
        BY <2>2
  <2>3. CASE w.val \in [outcome : Outcomes]
        BY <2>3
  <2>4. CASE w.val \in [state : States]
        BY <2>4
  <2>5. CASE w.val = <<>>
    <3>1. DOMAIN <<>> = {}
          OBVIOUS
    <3> QED BY <2>5, <3>1
  <2> QED BY <1>3, <2>1, <2>2, <2>3, <2>4, <2>5 DEF Values
<1> DEFINE v(f) == IF f \in DOMAIN w.val THEN w.val[f]
                   ELSE IF f = "epoch" THEN (st.epoch + w.bump) % EpochMod ELSE st[f]
           e == (st.epoch + w.bump) % EpochMod
<1>5. Stored(st, w) = [f \in {"state", "suit", "epoch", "outcome"} |-> v(f)]
      BY <1>1 DEF Stored
<1>6. v("state") \in States /\ v("suit") \in SomeSuit /\ v("outcome") \in Outcomes
      BY <1>3, <1>4
<1>7. v("epoch") \in Epochs
      BY <1>2, <1>4
<1> HIDE DEF v
<1>8. Stored(st, w) = [state |-> v("state"), suit |-> v("suit"), epoch |-> v("epoch"), outcome |-> v("outcome")]
      BY <1>5
<1> QED BY <1>6, <1>7, <1>8 DEF Statuses

LEMMA WriteTypes == TypeInv /\ SectorWrite => QueueTypes'
<1> SUFFICES ASSUME TypeInv, SectorWrite PROVE QueueTypes'
    OBVIOUS
<1> DEFINE w == Head(todo)
<1>1. QueueTypes
      BY DEF TypeInv
<1>2. /\ todo # <<>> /\ todo' = Tail(todo) /\ UNCHANGED <<control, inHand, fates>>
      /\ status' = IF w.kind = "store" THEN [status EXCEPT ![w.slot] = Stored(@, w)] ELSE status
      /\ reports' = IF w.kind = "report"
                    THEN [reports EXCEPT ![w.slot] = PushReport(@, w.val)] ELSE reports
      /\ notes' = IF w.kind = "note" THEN Append(notes, w.val) ELSE notes
      BY DEF SectorWrite, registry
<1>3. w \in Writes /\ Tail(todo) \in Seq(Writes)
  <2> HIDE DEF Writes
  <2> QED BY <1>1, <1>2, TailIs DEF QueueTypes
<1> HIDE DEF w
<1>4. /\ w.kind = "store" => w \in Stores /\ w.slot \in Slots
      /\ w.kind = "report" => w.slot \in Slots /\ w.val \in Tellings
      /\ w.kind = "note" => w.val \in Fates
      BY <1>3 DEF Writes, Stores, Reports, Noticed
<1>5. status' \in [Slots -> Statuses]
  <2>1. CASE w.kind = "store"
    <3>1. Stored(status[w.slot], w) \in Statuses
          BY <1>1, <1>4, <2>1, StoredType DEF QueueTypes
    <3> HIDE DEF Statuses, Stores
    <3> QED BY <1>1, <1>2, <1>4, <2>1, <3>1 DEF QueueTypes
  <2> QED BY <1>1, <1>2, <2>1 DEF QueueTypes
<1>6. reports' \in [Slots -> Seq(Tellings)] /\ \A s \in Slots : Len(reports'[s]) <= ReportCap
  <2>1. CASE w.kind = "report"
    <3> DEFINE r == PushReport(reports[w.slot], w.val)
    <3>1. r \in Seq(Tellings) /\ Len(r) <= ReportCap
      <4> DEFINE q == reports[w.slot]
                 x == w.val
      <4>1. q \in Seq(Tellings) /\ x \in Tellings /\ Len(q) <= ReportCap
            BY <1>1, <1>4, <2>1 DEF QueueTypes
      <4> HIDE DEF q, x, Tellings
      <4>2. Append(q, x) \in Seq(Tellings) /\ Len(Append(q, x)) = Len(q) + 1 /\ Len(q) \in Nat
            BY <4>1, AppendIs
      <4>3. ReportCap \in Nat
            BY ConstantsAssumption
      <4>4. r = IF Len(q) < ReportCap THEN Append(q, x) ELSE q
            BY DEF PushReport, q, x
      <4> HIDE DEF r
      <4> QED BY <4>1, <4>2, <4>3, <4>4
    <3> HIDE DEF r, Tellings
    <3>2. reports' = [reports EXCEPT ![w.slot] = r]
          BY <1>2, <2>1 DEF r
    <3> QED BY <1>1, <1>4, <2>1, <3>1, <3>2 DEF QueueTypes
  <2>2. CASE w.kind # "report"
        BY <1>1, <1>2, <2>2 DEF QueueTypes
  <2> QED BY <2>1, <2>2
<1>7. notes' \in Seq(Fates)
  <2>1. CASE w.kind = "note"
    <3> HIDE DEF Fates
    <3>1. Append(notes, w.val) \in Seq(Fates)
          BY <1>1, <1>4, <2>1, AppendIs DEF QueueTypes
    <3> QED BY <1>2, <2>1, <3>1
  <2> QED BY <1>1, <1>2, <2>1 DEF QueueTypes
<1> QED BY <1>1, <1>2, <1>3, <1>5, <1>6, <1>7 DEF QueueTypes

-----------------------------------------------------------------------------
(* The notes task, and sessions. *)
LEMMA ToldType ==
    ASSUME TaskTypes, NEW ns \in Seq(Fates)
    PROVE  /\ BoundAfter(ns) \in [Ids -> Anyone]
           /\ NewsAfter(ns) \in [Pilots -> {"none", "Lost", "Destroyed"}]
<1>1. BoundAfter(ns) \in [Ids -> Anyone]
      BY DEF BoundAfter, TaskTypes, Anyone
<1>2. ASSUME NEW p \in Pilots PROVE NewsAfter(ns)[p] \in {"none", "Lost", "Destroyed"}
  <2> DEFINE theirs == {i \in DOMAIN ns : bound[ns[i].suit] = p}
  <2>1. NewsAfter(ns)[p] = IF theirs = {} THEN news[p] ELSE ns[Max(theirs)].fate
        BY DEF NewsAfter
  <2>2. CASE theirs = {}
        BY <2>1, <2>2 DEF TaskTypes
  <2>3. CASE theirs # {}
    <3>1. Max(theirs) \in theirs
      <4>1. theirs \subseteq 0..Len(ns) /\ Len(ns) \in Nat
            OBVIOUS
      <4> HIDE DEF theirs
      <4> QED BY <2>3, <4>1, MaxIs
    <3>2. Max(theirs) \in DOMAIN ns
          BY <3>1
    <3>3. \A i \in DOMAIN ns : ns[i] \in Fates
          OBVIOUS
    <3>4. \A x \in Fates : x.fate \in {"Lost", "Destroyed"}
          BY DEF Fates
    <3> QED BY <2>1, <2>3, <3>2, <3>3, <3>4
  <2> QED BY <2>2, <2>3
<1> QED BY <1>1, <1>2 DEF NewsAfter

Kept == QueueTypes' /\ SectorTypes' /\ TaskTypes'

LEMMA PopType ==
    ASSUME NEW S, NEW q \in Seq(S), q # <<>>
    PROVE  Head(q) \in S /\ Tail(q) \in Seq(S) /\ <<Head(q)>> \in Seq(S) /\ <<>> \in Seq(S)
<1>1. Head(q) \in S /\ Tail(q) \in Seq(S) BY TailIs
<1> QED BY <1>1, OneIs

LEMMA NotesTypes == TypeInv /\ Notes => Kept
<1> SUFFICES ASSUME TypeInv, Notes PROVE Kept
    OBVIOUS
<1>1. QueueTypes /\ SectorTypes /\ TaskTypes
      BY DEF TypeInv
<1>2. /\ UNCHANGED <<control, status, reports, todo, client, claim, fates, life, owner, launched,
                     bay, sleeper, suit, lost, towing, seen, poll>>
      BY DEF Notes, sector, sim, record, session
<1>3. SectorTypes'
      BY <1>1, <1>2 DEF SectorTypes
<1>4. notes \in Seq(Fates) /\ inHand \in Seq(Fates)
      BY <1>1 DEF QueueTypes
<1>5. notes' \in Seq(Fates) /\ inHand' \in Seq(Fates)
  <2> HIDE DEF Fates
  <2>0. <<>> \in Seq(Fates)
        OBVIOUS
  <2>1. CASE notes' = <<>> /\ UNCHANGED inHand
        BY <2>0, <2>1, <1>4
  <2>2. CASE notes # <<>> /\ inHand' = <<Head(notes)>> /\ notes' = Tail(notes)
        BY <2>2, <1>4, PopType
  <2>3. CASE inHand' = <<>> /\ UNCHANGED notes
        BY <2>0, <2>3, <1>4
  <2> QED BY <2>1, <2>2, <2>3 DEF Notes, NotesTask
<1>6. QueueTypes'
      BY <1>1, <1>2, <1>5 DEF QueueTypes
<1>7. bound' \in [Ids -> Anyone] /\ news' \in [Pilots -> {"none", "Lost", "Destroyed"}]
  <2>1. CASE \E ns \in Seq(Fates) : Told(ns)
        BY <1>1, <2>1, ToldType DEF Told
  <2>2. CASE UNCHANGED <<bound, news>>
        BY <1>1, <2>2 DEF TaskTypes
  <2> QED BY <1>4, <2>1, <2>2 DEF Notes, NotesTask
<1>8. TaskTypes'
      BY <1>1, <1>2, <1>7 DEF TaskTypes
<1> QED BY <1>3, <1>6, <1>8 DEF Kept

LEMMA AnswerTypes ==
    ASSUME TypeInv, NEW p \in Pilots, pc[p] = "seating", NEW state, Answer(p, state)
    PROVE  Kept
<1> DEFINE st == status[slot[p]]
           seated == state = "Active" /\ st.suit # NoSuit
<1>1. QueueTypes /\ SectorTypes /\ TaskTypes
      BY DEF TypeInv
<1>2. slot[p] \in Slots
      BY DEF TypeInv, LeaseInv
<1>3. st \in Statuses /\ st.suit \in SomeSuit /\ st.outcome \in Outcomes
      BY <1>1, <1>2 DEF QueueTypes, Statuses
<1>4. QueueTypes' /\ SectorTypes'
      BY <1>1 DEF Answer, shared, sector, sim, QueueTypes, SectorTypes
<1>5. /\ suit' = [suit EXCEPT ![p] = IF seated THEN st.suit ELSE @]
      /\ lost' = [lost EXCEPT ![p] = @ /\ ~seated]
      /\ bound' = IF seated THEN [bound EXCEPT ![st.suit] = p] ELSE bound
      /\ \E b \in {"docked", bay[p]} : bay' = [bay EXCEPT ![p] = b]
      /\ \E x \in {st.outcome, "none"} : poll' = [poll EXCEPT ![p] = x]
      /\ seen' = [seen EXCEPT ![p] = 0]
      /\ UNCHANGED <<news, sleeper, towing>>
      BY DEF Answer
<1> HIDE DEF st, seated
<1>6. suit' \in [Pilots -> SomeSuit] /\ bound' \in [Ids -> Anyone]
      BY <1>1, <1>3, <1>5 DEF TaskTypes, Anyone
<1>7. lost' \in [Pilots -> BOOLEAN] /\ bay' \in [Pilots -> {"new", "docked", "out", "empty"}]
      BY <1>1, <1>5 DEF TaskTypes
<1>8. 0 \in Epochs
      BY ConstantsAssumption DEF Epochs
<1>9. seen' \in [Pilots -> Epochs] /\ poll' \in [Pilots -> {"none"} \cup States \cup Outcomes]
      BY <1>1, <1>3, <1>5, <1>8 DEF TaskTypes
<1> QED BY <1>1, <1>4, <1>5, <1>6, <1>7, <1>9 DEF Kept, TaskTypes

LEMMA SettleTypes ==
    ASSUME TypeInv, NEW p \in Pilots, pc[p] = "freeing", Settle(p)
    PROVE  Kept
<1> DEFINE s == slot[p]
           st == status[s]
           asleep == st.outcome = "Asleep" /\ st.suit # NoSuit
<1>1. QueueTypes /\ SectorTypes /\ TaskTypes
      BY DEF TypeInv
<1>2. s \in Slots
      BY DEF TypeInv, LeaseInv
<1>3. st.suit \in SomeSuit
      BY <1>1, <1>2 DEF QueueTypes, Statuses
<1>4. /\ reports' = [reports EXCEPT ![s] = <<>>]
      /\ sleeper' = [sleeper EXCEPT ![p] = IF asleep THEN st.suit ELSE NoSuit]
      /\ bound' = IF asleep THEN bound ELSE [bound EXCEPT ![suit[p]] = NoPilot]
      /\ \E b \in {"docked", "empty", bay[p]} : bay' = [bay EXCEPT ![p] = b]
      /\ suit' = [suit EXCEPT ![p] = NoSuit]
      /\ lost' = [lost EXCEPT ![p] = FALSE]
      /\ UNCHANGED <<control, status, notes, todo, client, claim, fates, life, owner, launched,
                     news, inHand, seen, poll>>
      BY DEF Settle, BayLeft, sector, sim
<1>5. \E t \in BOOLEAN : towing' = [towing EXCEPT ![p] = t]
  <2>1. towing[p] \in BOOLEAN
        BY <1>1 DEF TaskTypes
  <2> QED BY <2>1 DEF Settle
<1> HIDE DEF st, asleep, s
<1>6. SectorTypes'
      BY <1>1, <1>4 DEF SectorTypes
<1>7. QueueTypes'
  <2>1. <<>> \in Seq(Tellings) /\ Len(<<>>) = 0
        OBVIOUS
  <2>2. 0 <= ReportCap
        BY ConstantsAssumption
  <2> HIDE DEF Tellings
  <2>3. reports' \in [Slots -> Seq(Tellings)] /\ \A t \in Slots : Len(reports'[t]) <= ReportCap
        BY <1>1, <1>2, <1>4, <2>1, <2>2 DEF QueueTypes
  <2> QED BY <1>1, <1>4, <2>3 DEF QueueTypes
<1>8. sleeper' \in [Pilots -> SomeSuit] /\ suit' \in [Pilots -> SomeSuit] /\ bound' \in [Ids -> Anyone]
      BY <1>1, <1>3, <1>4 DEF TaskTypes, Anyone, SomeSuit
<1>9. /\ lost' \in [Pilots -> BOOLEAN] /\ bay' \in [Pilots -> {"new", "docked", "out", "empty"}]
      /\ towing' \in [Pilots -> BOOLEAN]
      BY <1>1, <1>4, <1>5 DEF TaskTypes
<1> QED BY <1>1, <1>4, <1>6, <1>7, <1>8, <1>9 DEF Kept, TaskTypes

LEMMA EnterTypes ==
    ASSUME TypeInv, NEW p \in Pilots, Enter(p)
    PROVE  Kept
<1> DEFINE asks == sleeper[p] # NoSuit /\ ~(poll[p] = "Woke")
           told == NotesRead(asks)
<1>1. QueueTypes /\ SectorTypes /\ TaskTypes
      BY DEF TypeInv
<1>2. /\ notes' = IF told = notes THEN <<>> ELSE notes
      /\ bound' = BoundAfter(told) /\ news' = [NewsAfter(told) EXCEPT ![p] = "none"]
      /\ sleeper' = [sleeper EXCEPT ![p] = NoSuit] /\ poll' = [poll EXCEPT ![p] = "none"]
      /\ UNCHANGED <<control, status, reports, todo, client, claim, fates, life, owner, launched,
                     inHand, suit, lost, towing, seen>>
      BY DEF Enter, sector, sim
<1>3. <<>> \in Seq(Fates)
      OBVIOUS
<1>4. told \in Seq(Fates)
      BY <1>1, <1>3 DEF NotesRead, QueueTypes
<1>5. bay' \in [Pilots -> {"new", "docked", "out", "empty"}]
  <2>0. bay \in [Pilots -> {"new", "docked", "out", "empty"}]
        BY <1>1 DEF TaskTypes
  <2>1. PICK back \in {bay[p], "empty", "docked"} : \E b \in Reissued(back) : bay' = [bay EXCEPT ![p] = b]
        BY DEF Enter
  <2>2. Reissued(back) \subseteq {"new", "docked", "out", "empty"}
        BY <2>0 DEF Reissued
  <2> QED BY <2>0, <2>1, <2>2
<1> HIDE DEF told, asks
<1>6. BoundAfter(told) \in [Ids -> Anyone] /\ NewsAfter(told) \in [Pilots -> {"none", "Lost", "Destroyed"}]
      BY <1>1, <1>4, ToldType
<1>7. notes' \in Seq(Fates)
      BY <1>1, <1>2, <1>3 DEF QueueTypes
<1>8. QueueTypes' /\ SectorTypes'
      BY <1>1, <1>2, <1>7 DEF QueueTypes, SectorTypes
<1>9. news' \in [Pilots -> {"none", "Lost", "Destroyed"}] /\ bound' \in [Ids -> Anyone]
      BY <1>2, <1>6
<1>10. sleeper' \in [Pilots -> SomeSuit] /\ poll' \in [Pilots -> {"none"} \cup States \cup Outcomes]
      BY <1>1, <1>2 DEF TaskTypes, SomeSuit
<1> QED BY <1>1, <1>2, <1>5, <1>8, <1>9, <1>10 DEF Kept, TaskTypes

LEMMA ReportTypes ==
    ASSUME TypeInv, NEW p \in Pilots, ReadReport(p)
    PROVE  Kept
<1> DEFINE s == slot[p]
           r == Head(reports[s])
<1>1. QueueTypes /\ SectorTypes /\ TaskTypes
      BY DEF TypeInv
<1>2. s \in Slots /\ reports[s] # <<>>
      BY DEF TypeInv, LeaseInv, ReadReport
<1>3. /\ reports' = [reports EXCEPT ![s] = Tail(@)] /\ OnReport(p, r)
      /\ UNCHANGED <<control, status, notes, todo, client, claim, fates, life, owner, launched,
                     news, inHand, sleeper, seen, poll>>
      BY DEF ReadReport, sector, sim
<1>4. /\ \E id \in {NoSuit, suit[p]} : suit' = [suit EXCEPT ![p] = id]
      /\ bound' = bound \/ bound' = [bound EXCEPT ![suit[p]] = NoPilot]
      BY <1>3 DEF OnReport
<1>5. lost' \in [Pilots -> BOOLEAN] /\ towing' \in [Pilots -> BOOLEAN]
  <2>1. lost \in [Pilots -> BOOLEAN] /\ towing \in [Pilots -> BOOLEAN]
        BY <1>1 DEF TaskTypes
  <2>2. lost' = [lost EXCEPT ![p] = @ \/ r.what \in {"Lost", "LostEjected"}]
        BY <1>3 DEF OnReport
  <2>3. \E t \in {TRUE, FALSE, towing[p]} : towing' = [towing EXCEPT ![p] = t]
        BY <1>3 DEF OnReport
  <2> QED BY <2>1, <2>2, <2>3
<1>6. bay' \in [Pilots -> {"new", "docked", "out", "empty"}]
  <2>0. bay \in [Pilots -> {"new", "docked", "out", "empty"}]
        BY <1>1 DEF TaskTypes
  <2>1. PICK b \in {"docked", "empty", bay[p]} \cup Reissued(bay[p]) : bay' = [bay EXCEPT ![p] = b]
        BY <1>3 DEF OnReport
  <2>2. Reissued(bay[p]) \subseteq {"new", "docked", "out", "empty"}
        BY <2>0 DEF Reissued
  <2> QED BY <2>0, <2>1, <2>2
<1>7. reports' \in [Slots -> Seq(Tellings)] /\ \A t \in Slots : Len(reports'[t]) <= ReportCap
  <2> DEFINE q == reports[s]
  <2> HIDE DEF Tellings, s
  <2>1. q \in Seq(Tellings) /\ Len(q) <= ReportCap
        BY <1>1, <1>2 DEF QueueTypes
  <2> HIDE DEF q
  <2>2. Tail(q) \in Seq(Tellings) /\ Len(Tail(q)) <= ReportCap
    <3>1. q # <<>>
          BY <1>2 DEF q
    <3>2. Tail(q) \in Seq(Tellings) /\ Len(Tail(q)) = Len(q) - 1 /\ Len(q) \in Nat
          BY <2>1, <3>1, TailIs
    <3>3. ReportCap \in Nat
          BY ConstantsAssumption
    <3> QED BY <2>1, <3>2, <3>3
  <2>3. reports' = [reports EXCEPT ![s] = Tail(q)]
        BY <1>3 DEF q
  <2> QED BY <1>1, <1>2, <2>2, <2>3 DEF QueueTypes
<1> HIDE DEF r, s
<1>8. QueueTypes' /\ SectorTypes'
      BY <1>1, <1>3, <1>7 DEF QueueTypes, SectorTypes
<1>9. suit' \in [Pilots -> SomeSuit] /\ bound' \in [Ids -> Anyone]
      BY <1>1, <1>4 DEF TaskTypes, SomeSuit, Anyone
<1> QED BY <1>1, <1>3, <1>5, <1>6, <1>8, <1>9 DEF Kept, TaskTypes

-----------------------------------------------------------------------------
(* A message joins the control queue, or finds no room there. *)
LEMMA PushType ==
    ASSUME QueueTypes, NEW m \in Msgs, Push(m) \/ Offer(m)
    PROVE  control' \in Seq(Msgs) /\ Len(control') <= ControlCap
<1> HIDE DEF Msgs
<1>1. control \in Seq(Msgs) /\ Len(control) <= ControlCap
      BY DEF QueueTypes
<1>2. Append(control, m) \in Seq(Msgs) /\ Len(Append(control, m)) = Len(control) + 1
      /\ Len(control) \in Nat
      BY <1>1, AppendIs
<1>3. ControlCap \in Nat
      BY ConstantsAssumption
<1>4. (Room /\ control' = Append(control, m)) \/ control' = control
      BY DEF Push, Offer
<1> QED BY <1>1, <1>2, <1>3, <1>4 DEF Room

LEMMA MsgIs ==
    \A op \in Ops, s \in Slots, p \in Pilots, wake \in SomeSuit, launch \in SomeSuit :
        Msg(op, s, p, wake, launch) \in Msgs
BY DEF Msg, Msgs

(* The steps that ask the sector for something. *)
LEMMA AskTypes ==
    ASSUME TypeInv, NEW p \in Pilots,
           Ask(p) \/ Dock(p) \/ Eject(p) \/ Leave(p) \/ AskTow(p)
    PROVE  Kept
<1>1. QueueTypes /\ SectorTypes /\ TaskTypes
      BY DEF TypeInv
<1>2. slot[p] \in Slots
      BY DEF TypeInv, LeaseInv, Ask, Dock, Eject, Leave, AskTow
<1>3. UNCHANGED <<status, reports, notes, todo, client, claim, fates, life, owner, launched,
                  bound, news, inHand, bay, sleeper, suit, lost, towing, seen, poll>>
      BY DEF Ask, Dock, Eject, Leave, AskTow, sector, sim, registry, record, session
<1>4. sleeper[p] \in SomeSuit /\ LastSuit(p) \in SomeSuit /\ NoSuit \in SomeSuit
      BY <1>1, LastSuitType DEF TaskTypes, SomeSuit
<1>5. (\E m \in Msgs : Push(m) \/ Offer(m)) \/ control' = control
  <2>1. CASE Ask(p)
    <3>1. /\ Msg("Join", slot[p], p, sleeper[p], NoSuit) \in Msgs
          /\ Msg("Join", slot[p], p, NoSuit, LastSuit(p)) \in Msgs
          BY <1>2, <1>4, MsgIs DEF Ops
    <3> QED BY <2>1, <3>1 DEF Ask
  <2>2. CASE Dock(p) \/ Eject(p) \/ Leave(p) \/ AskTow(p)
    <3>1. \A op \in Ops : Msg(op, slot[p], p, NoSuit, NoSuit) \in Msgs
          BY <1>2, <1>4, MsgIs
    <3> QED BY <2>2, <3>1 DEF Dock, Eject, Leave, AskTow, Ops
  <2> QED BY <2>1, <2>2
<1>6. control' \in Seq(Msgs) /\ Len(control') <= ControlCap
  <2>1. CASE control' = control
        BY <2>1, <1>1 DEF QueueTypes
  <2> QED BY <2>1, <1>1, <1>5, PushType
<1>7. QueueTypes'
      BY <1>1, <1>3, <1>6 DEF QueueTypes
<1> QED BY <1>1, <1>3, <1>7 DEF Kept, SectorTypes, TaskTypes

LEMMA LaunchTypes ==
    ASSUME TypeInv, NEW p \in Pilots, Launch(p)
    PROVE  Kept
<1>1. QueueTypes /\ SectorTypes /\ TaskTypes
      BY DEF TypeInv
<1>2. /\ launched' = launched + 1 /\ launched < MaxLaunches
      /\ life' = [life EXCEPT ![launched + 1] = "queued"]
      /\ owner' = [owner EXCEPT ![launched + 1] = p]
      /\ bay' = [bay EXCEPT ![p] = "out"]
      /\ seen' = [seen EXCEPT ![p] = status[slot[p]].epoch]
      /\ UNCHANGED <<control, status, reports, notes, todo, client, claim, fates,
                     bound, news, inHand, sleeper, suit, lost, towing, poll>>
  <2>1. launched \in Int /\ launched < IF Impatient THEN MaxHasty ELSE MaxLaunches
        BY <1>1 DEF Launch, SectorTypes
  <2>2. launched < MaxLaunches
        BY <2>1, ConstantsAssumption
  <2> QED BY <2>2 DEF Launch, shared, sector, registry
<1>3. launched + 1 \in Ids /\ launched + 1 \in 0..MaxLaunches
      BY <1>1, <1>2, ConstantsAssumption DEF SectorTypes, Ids
<1>4. SectorTypes'
      BY <1>1, <1>2, <1>3 DEF SectorTypes, Lives, Anyone
<1>5. QueueTypes'
      BY <1>1, <1>2 DEF QueueTypes
<1>6. status[slot[p]].epoch \in Epochs
  <2>1. slot[p] \in Slots
        BY DEF TypeInv, LeaseInv, Launch
  <2> QED BY <1>1, <2>1 DEF QueueTypes, Statuses
<1>7. TaskTypes'
      BY <1>1, <1>2, <1>6 DEF TaskTypes
<1> QED BY <1>4, <1>5, <1>7 DEF Kept

LEMMA ConnectTypes ==
    ASSUME TypeInv, NEW p \in Pilots, Connect(p)
    PROVE  Kept
<1>1. QueueTypes /\ SectorTypes /\ TaskTypes
      BY DEF TypeInv
<1>2. Head(leases) \in Slots
      BY TailIs DEF TypeInv, LeaseInv, Connect
<1>3. /\ \E e \in {seen[p], status[Head(leases)].epoch} : seen' = [seen EXCEPT ![p] = e]
      /\ UNCHANGED <<control, status, reports, notes, todo, client, claim, fates, life, owner, launched,
                     bound, news, inHand, bay, sleeper, suit, lost, towing, poll>>
      BY DEF Connect, sector, sim, registry, record
<1>4. status[Head(leases)].epoch \in Epochs /\ seen[p] \in Epochs
      BY <1>1, <1>2 DEF QueueTypes, Statuses, TaskTypes
<1>5. seen' \in [Pilots -> Epochs]
      BY <1>1, <1>3, <1>4 DEF TaskTypes
<1> QED BY <1>1, <1>3, <1>5 DEF Kept, QueueTypes, SectorTypes, TaskTypes

LEMMA WreckTypes ==
    ASSUME TypeInv, NEW p \in Pilots, WreckGone(p) \/ Refit(p)
    PROVE  Kept
<1>1. QueueTypes /\ SectorTypes /\ TaskTypes
      BY DEF TypeInv
<1>2. /\ UNCHANGED <<control, status, reports, notes, todo, client, claim, fates, life, owner, launched,
                     news, inHand, sleeper, towing, seen, poll>>
      /\ \E l \in {FALSE, lost[p]} : lost' = [lost EXCEPT ![p] = l]
      /\ \E id \in {NoSuit, suit[p]} : suit' = [suit EXCEPT ![p] = id]
      /\ bound' = bound \/ bound' = [bound EXCEPT ![suit[p]] = NoPilot]
  <2>1. CASE WreckGone(p)
        BY <2>1 DEF WreckGone, shared, sector, sim
  <2>2. CASE Refit(p)
    <3>1. UNCHANGED <<lost, suit, bound, control, status, reports, notes, todo, client, claim, fates, life,
                      owner, launched, news, inHand, sleeper, towing, seen, poll>>
          BY <2>2 DEF Refit, shared, sector, sim, registry, session
    <3>2. lost' = [lost EXCEPT ![p] = lost[p]] /\ suit' = [suit EXCEPT ![p] = suit[p]]
          BY <1>1, <3>1 DEF TaskTypes
    <3> QED BY <3>1, <3>2
  <2> QED BY <2>1, <2>2
<1>3. bay' \in [Pilots -> {"new", "docked", "out", "empty"}]
  <2>0. bay \in [Pilots -> {"new", "docked", "out", "empty"}]
        BY <1>1 DEF TaskTypes
  <2>1. \E b \in {bay[p], "new"} \cup Reissued(bay[p]) : bay' = [bay EXCEPT ![p] = b]
        BY DEF WreckGone, Refit
  <2>2. Reissued(bay[p]) \subseteq {"new", "docked", "out", "empty"}
        BY <2>0 DEF Reissued
  <2> QED BY <2>0, <2>1, <2>2
<1>4. suit' \in [Pilots -> SomeSuit]
  <2>1. suit \in [Pilots -> SomeSuit] /\ NoSuit \in SomeSuit
        BY <1>1 DEF TaskTypes, SomeSuit
  <2>2. PICK id \in {NoSuit, suit[p]} : suit' = [suit EXCEPT ![p] = id]
        BY <1>2
  <2> QED BY <2>1, <2>2
<1>5. bound' \in [Ids -> Anyone]
      BY <1>1, <1>2 DEF TaskTypes, Anyone
<1>6. lost' \in [Pilots -> BOOLEAN]
  <2>1. lost \in [Pilots -> BOOLEAN]
        BY <1>1 DEF TaskTypes
  <2>2. PICK l \in {FALSE, lost[p]} : lost' = [lost EXCEPT ![p] = l]
        BY <1>2
  <2> QED BY <2>1, <2>2
<1> QED BY <1>1, <1>2, <1>3, <1>4, <1>5, <1>6 DEF Kept, QueueTypes, SectorTypes, TaskTypes

LEMMA TowWaitTypes ==
    ASSUME TypeInv, NEW p \in Pilots, AwaitTow(p) \/ GiveUpTow(p)
    PROVE  Kept
<1> DEFINE s == slot[p]
           q == reports[s]
<1>1. QueueTypes /\ SectorTypes /\ TaskTypes
      BY DEF TypeInv
<1>2. s \in Slots
      BY DEF TypeInv, LeaseInv, AwaitTow, GiveUpTow
<1>3. /\ UNCHANGED <<control, status, notes, todo, client, claim, fates, life, owner, launched,
                     bound, news, inHand, bay, sleeper, suit, lost, seen, poll>>
      /\ reports' = reports \/ (q # <<>> /\ reports' = [reports EXCEPT ![s] = Tail(q)])
      BY DEF AwaitTow, GiveUpTow, shared, sector, sim, registry, record
<1>4. towing' \in [Pilots -> BOOLEAN]
  <2>1. towing \in [Pilots -> BOOLEAN]
        BY <1>1 DEF TaskTypes
  <2>2. CASE GiveUpTow(p)
        BY <2>1, <2>2 DEF GiveUpTow
  <2>3. CASE AwaitTow(p)
    <3>1. towing' = [towing EXCEPT ![p] = @ /\ ~(Head(q).what = "Towed")]
          BY <2>3 DEF AwaitTow
    <3> QED BY <2>1, <3>1
  <2> QED BY <2>2, <2>3
<1>5. reports' \in [Slots -> Seq(Tellings)] /\ \A t \in Slots : Len(reports'[t]) <= ReportCap
  <2> HIDE DEF Tellings, s
  <2>1. q \in Seq(Tellings) /\ Len(q) <= ReportCap
        BY <1>1, <1>2 DEF QueueTypes
  <2> HIDE DEF q
  <2>2. q # <<>> => Tail(q) \in Seq(Tellings) /\ Len(Tail(q)) <= ReportCap
    <3>1. q # <<>> => Tail(q) \in Seq(Tellings) /\ Len(Tail(q)) = Len(q) - 1 /\ Len(q) \in Nat
          BY <2>1, TailIs
    <3>2. ReportCap \in Nat
          BY ConstantsAssumption
    <3> QED BY <2>1, <3>1, <3>2
  <2>3. CASE reports' = reports
        BY <1>1, <2>3 DEF QueueTypes
  <2>4. CASE q # <<>> /\ reports' = [reports EXCEPT ![s] = Tail(q)]
        BY <1>1, <1>2, <2>2, <2>4 DEF QueueTypes
  <2> QED BY <1>3, <2>3, <2>4
<1> HIDE DEF s, q
<1> QED BY <1>1, <1>3, <1>4, <1>5 DEF Kept, QueueTypes, SectorTypes, TaskTypes

LEMMA PollTypes ==
    ASSUME TypeInv, NEW p \in Pilots,
           \/ PollState(p) \/ GiveUpDock(p) \/ Return(p)
           \/ PollEpoch(p) /\ ~Answer(p, poll[p])
    PROVE  Kept
<1>1. QueueTypes /\ SectorTypes /\ TaskTypes
      BY DEF TypeInv
<1>2. slot[p] \in Slots
      BY DEF TypeInv, LeaseInv, PollState, GiveUpDock, Return, PollEpoch
<1>3. /\ UNCHANGED <<control, status, reports, notes, todo, client, claim, fates, life, owner, launched,
                     bound, news, inHand, bay, sleeper, suit, lost, towing, seen>>
      /\ poll' = poll \/ \E x \in {"none", status[slot[p]].state} : poll' = [poll EXCEPT ![p] = x]
      BY DEF PollState, GiveUpDock, Return, PollEpoch, shared, sector, sim, registry, record
<1>4. status[slot[p]].state \in States
      BY <1>1, <1>2 DEF QueueTypes, Statuses
<1>5. poll' \in [Pilots -> {"none"} \cup States \cup Outcomes]
      BY <1>1, <1>3, <1>4 DEF TaskTypes
<1> QED BY <1>1, <1>3, <1>5 DEF Kept, QueueTypes, SectorTypes, TaskTypes

LEMMA TypeInvStep == TypeInv /\ [Next]_vars => TypeInv'
<1> SUFFICES ASSUME TypeInv, [Next]_vars PROVE Kept
    BY NextInv DEF TypeInv, Kept
<1>0. QueueTypes /\ SectorTypes /\ TaskTypes
      BY DEF TypeInv
<1>1. CASE SectorWrite
  <2>1. QueueTypes'
        BY <1>1, WriteTypes
  <2>2. UNCHANGED <<client, claim, life, owner, launched, bound, news, bay, sleeper, suit, lost,
                    towing, seen, poll>>
        BY <1>1 DEF SectorWrite, sim, registry, record, session
  <2> QED BY <1>0, <2>1, <2>2 DEF Kept, SectorTypes, TaskTypes
<1>2. CASE HandleJoin \/ HandleSleep \/ HandleDock \/ HandleEject \/ HandleTow
  <2>1. HandlesTypes
        BY <1>2, JoinTypes, SleepTypes, DockTypes, EjectTypes, TowedTypes
  <2>2. UNCHANGED <<bound, news, bay, sleeper, suit, lost, towing, seen, poll>>
        BY <1>2, Zenon DEF HandleJoin, HandleSleep, HandleDock, HandleEject, HandleTow, registry, record, session
  <2>3. TaskTypes'
        BY <1>0, <2>2 DEF TaskTypes
  <2>4. \E op : Takes(op)
        BY <1>2, Zenon DEF HandleJoin, HandleSleep, HandleDock, HandleEject, HandleTow
  <2>5. Tail(control) \in Seq(Msgs) /\ Len(Tail(control)) <= ControlCap
        BY <1>0, <2>4, HeadIs
  <2>6. QueueTypes'
        BY <1>0, <2>1, <2>5 DEF HandlesTypes, QueueTypes
  <2> QED BY <2>1, <2>3, <2>6 DEF HandlesTypes, Kept
<1>3. CASE \/ QuietTick
           \/ \E id \in Ids : Thrown(id) \/ Struck(id) \/ WreckCleared(id) \/ SleeperStruck(id)
           \/ \E s \in Slots : TugsArrive(s)
  <2>1. TickTypes
        BY <1>3, TicksTypes
  <2>2. UNCHANGED <<bound, news, bay, sleeper, suit, lost, towing, seen, poll>>
        BY <1>3, Zenon DEF QuietTick, Thrown, Struck, WreckCleared, SleeperStruck, TugsArrive, EndTick,
                    registry, record, session
  <2>3. TaskTypes'
        BY <1>0, <2>2 DEF TaskTypes
  <2>4. <<>> \in Seq(Fates)
        OBVIOUS
  <2>5. QueueTypes'
        BY <1>0, <2>1, <2>4 DEF TickTypes, QueueTypes
  <2> QED BY <2>1, <2>3, <2>5 DEF TickTypes, Kept
<1>4. CASE Notes
      BY <1>4, NotesTypes
<1>5. ASSUME NEW p \in Pilots, Progress(p) \/ Whim(p) PROVE Kept
  <2>1. CASE Ask(p) \/ Dock(p) \/ Eject(p) \/ Leave(p) \/ AskTow(p)
        BY <2>1, AskTypes
  <2>2. CASE AwaitSeat(p) \/ GiveUpSeat(p)
        BY <2>2, AnswerTypes DEF AwaitSeat, GiveUpSeat
  <2>3. CASE PollState(p) \/ GiveUpDock(p) \/ Return(p) \/ (PollEpoch(p) /\ ~Answer(p, poll[p]))
        BY <2>3, PollTypes
  <2>4. CASE PollEpoch(p) /\ Answer(p, poll[p])
        BY <2>4, AnswerTypes DEF PollEpoch
  <2>5. CASE Enter(p)
        BY <2>5, EnterTypes
  <2>6. CASE ReadReport(p)
        BY <2>6, ReportTypes
  <2>7. CASE WreckGone(p) \/ Refit(p)
        BY <2>7, WreckTypes
  <2>8. CASE AwaitFree(p) \/ GiveUpFree(p)
        BY <2>8, SettleTypes DEF AwaitFree, GiveUpFree
  <2>9. CASE AwaitTow(p) \/ GiveUpTow(p)
        BY <2>9, TowWaitTypes
  <2>10. CASE Connect(p)
        BY <2>10, ConnectTypes
  <2>11. CASE Launch(p)
        BY <2>11, LaunchTypes
  <2> QED BY <1>5, <2>1, <2>2, <2>3, <2>4, <2>5, <2>6, <2>7, <2>8, <2>9, <2>10, <2>11 DEF Progress, Whim
<1>6. CASE UNCHANGED vars
      BY <1>0, <1>6 DEF vars, shared, sector, sim, registry, record, session, Kept,
                        QueueTypes, SectorTypes, TaskTypes
<1> QED BY <1>1, <1>2, <1>3, <1>4, <1>5, <1>6 DEF Next, Sector

LEMMA TypeInvInit == Init => TypeInv
<1> SUFFICES ASSUME Init PROVE TypeInv
    OBVIOUS
<1>1. LeaseInv
      BY InitInv
<1>2. /\ <<>> \in Seq(Msgs) /\ <<>> \in Seq(Tellings) /\ <<>> \in Seq(Fates) /\ <<>> \in Seq(Writes)
      /\ Len(<<>>) = 0
      OBVIOUS
<1>3. 0 <= ControlCap /\ 0 <= ReportCap /\ 0 \in Epochs /\ 0 \in 0..MaxLaunches
      BY ConstantsAssumption DEF Epochs
<1>4. QueueTypes
  <2>1. status \in [Slots -> Statuses]
        BY <1>3 DEF Init, Statuses, States, SomeSuit, Outcomes
  <2> HIDE DEF Msgs, Tellings, Fates, Writes, Statuses
  <2> QED BY <1>2, <1>3, <2>1 DEF Init, QueueTypes
<1>5. SectorTypes
      BY <1>3 DEF Init, SectorTypes, Clients, SomeSuit, Anyone, Lives
<1>6. TaskTypes
      BY <1>3 DEF Init, TaskTypes, SomeSuit, Anyone
<1> QED BY <1>1, <1>4, <1>5, <1>6 DEF TypeInv

LEMMA TypeInvAlways == Spec => []TypeInv
BY TypeInvInit, TypeInvStep, PTL DEF Spec

(* The queues hold what they were made for and no more, and everything has its type,
   whatever times out, is torn or is split (queues.rs, build). *)
THEOREM SlotsKeepShape == Spec => []TypeOK
<1>1. TypeInv => TypeOK
  <2> SUFFICES ASSUME TypeInv PROVE TypeOK
      OBVIOUS
  <2>1. \A i \in DOMAIN control : control[i] \in Msgs
    <3> HIDE DEF Msgs
    <3> QED BY DEF TypeInv, QueueTypes
  <2>2. \A m \in Msgs : m.op \in {"Join", "Sleep", "Dock", "Eject", "Tow"} /\ m.slot \in Slots /\ m.who \in Pilots
        BY DEF Msgs, Ops
  <2>3. \A s \in Slots : status[s].state \in {"Free", "Active", "Refused"} /\ status[s].suit \in Ids \cup {NoSuit}
        BY DEF TypeInv, QueueTypes, Statuses, States, SomeSuit
  <2> QED BY <2>1, <2>2, <2>3 DEF TypeInv, LeaseInv, QueueTypes, SectorTypes, TaskTypes, TypeOK,
                                  SomeSuit, Anyone
<1> QED BY <1>1, TypeInvAlways, PTL

-----------------------------------------------------------------------------
(* What holds of a session, its slot and what is on its way between them, when nobody
   stops waiting and nothing is torn. *)
Calm == ~Impatient /\ ~Torn

Answers == {"Home", "DockRefused"}
Losses == {"Lost", "LostEjected"}
Says == {"Home", "DockRefused", "Lost", "LostEjected", "Parked"}

(* The sector's writes to a slot, and what it has told the slot's session: still to be
   written, and in the ring. *)
IsStore(w, s) == w.kind = "store" /\ w.slot = s
Tells(w, s, what) == w.kind = "report" /\ w.slot = s /\ w.val.what \in what
Storing(s) == \E i \in DOMAIN todo : IsStore(todo[i], s)
Bumping(s) == \E i \in DOMAIN todo : IsStore(todo[i], s) /\ todo[i].bump = 1
Owed(s, what) == \E i \in DOMAIN todo : Tells(todo[i], s, what)
Rung(s, what) == \E i \in DOMAIN reports[s] : reports[s][i].what \in what
Flying(s, what) == Owed(s, what) \/ Rung(s, what)

(* What a slot's session has asked, and whether its join is answered. *)
Asked(s) == \E i \in DOMAIN control : control[i].slot = s
Joining(s) == \E i \in DOMAIN control : control[i].slot = s /\ control[i].op = "Join"
Seat(p) == pc[p] = "seating" /\ ~Joining(slot[p])
In(s, phase) == \E p \in Pilots : slot[p] = s /\ pc[p] = phase
Aboard(p) == Seat(p) \/ suit[p] # NoSuit

Own(p, id) == id = NoSuit \/ owner[id] = p
Shows(v, c) == IF c.active THEN v.state = "Active" /\ v.suit = c.suit ELSE v.state # "Active"

(* A pilot has a suit only in some phases; a wrecked one is one they have. *)
PhaseInv ==
    \A p \in Pilots :
        /\ suit[p] # NoSuit => pc[p] \in {"entered", "play", "docking", "freeing"}
        /\ pc[p] \in {"docking", "freeing"} => suit[p] # NoSuit
        /\ lost[p] => suit[p] # NoSuit

(* A slot's status says what the sector has of the slot, once it is written. *)
StatusInv ==
    \A s \in Slots :
        /\ \A i \in DOMAIN todo : IsStore(todo[i], s) =>
              /\ todo[i].val \in Whole /\ Shows(todo[i].val, client[s])
              /\ todo[i].bump = IF todo[i].val.state = "Free" THEN 0 ELSE 1
        /\ ~Storing(s) => Shows(status[s], client[s])
        /\ Bumping(s) => Len(todo) = 1 /\ \E p \in Pilots : slot[p] = s /\ Seat(p)

(* A join's epoch is new until it is answered, and nothing is written to the slot between
   the answer and its session seeing it. *)
SeatInv ==
    \A p \in Pilots :
        /\ pc[p] = "asking" \/ (pc[p] = "seating" /\ Joining(slot[p])) =>
              ~client[slot[p]].active /\ status[slot[p]].epoch = seen[p]
        /\ Seat(p) => /\ ~Asked(slot[p])
                      /\ Bumping(slot[p]) => status[slot[p]].epoch = seen[p]
                      /\ ~Bumping(slot[p]) => ~Storing(slot[p])
        /\ pc[p] = "asking" /\ sleeper[p] = NoSuit /\ LastSuit(p) # NoSuit =>
              life[LastSuit(p)] = "queued"

(* A join is its slot's session's, and the last that was asked for the slot. *)
JoinInv ==
    \A i \in DOMAIN control : control[i].op = "Join" =>
        /\ slot[control[i].who] = control[i].slot /\ pc[control[i].who] = "seating"
        /\ control[i].launch # NoSuit =>
              life[control[i].launch] = "queued" /\ owner[control[i].launch] = control[i].who
        /\ control[i].wake # NoSuit => owner[control[i].wake] = control[i].who
        /\ \A j \in DOMAIN control : i < j => control[j].slot # control[i].slot

LaunchInv == \A id \in Ids : id > launched => life[id] = "unborn" /\ owner[id] = NoPilot

(* A suit seated at a slot is there, and its pilot's session has the slot. *)
Seats(p, s) == slot[p] = s /\ owner[client[s].suit] = p /\ (pc[p] = "seating" \/ suit[p] # NoSuit)
ClientInv ==
    \A s \in Slots : client[s].active =>
        /\ life[client[s].suit] \in {"cradle", "flying", "wreck"}
        /\ client[s].lost => life[client[s].suit] = "wreck"
        /\ \E p \in Pilots : Seats(p, s)

(* What a pilot has, or may take the slot's status for, is theirs. *)
OwnInv ==
    \A p \in Pilots :
        /\ Own(p, sleeper[p]) /\ Own(p, suit[p])
        /\ Aboard(p) =>
              /\ \A i \in DOMAIN todo : IsStore(todo[i], slot[p]) => Own(p, todo[i].val.suit)
              /\ ~Bumping(slot[p]) => Own(p, status[slot[p]].suit)

(* A Sleep is of the session that leaves, or comes too late to matter; a Dock is its
   session's only one, and not yet answered. *)
MsgInv ==
    /\ \A i \in DOMAIN control : control[i].op = "Sleep" =>
          ~client[control[i].slot].active \/ In(control[i].slot, "freeing")
    /\ \A i \in DOMAIN control : control[i].op = "Dock" =>
          /\ slot[control[i].who] = control[i].slot /\ pc[control[i].who] = "docking"
          /\ ~Flying(control[i].slot, Answers)
          /\ \A j \in DOMAIN control :
                control[j].op = "Dock" /\ control[j].slot = control[i].slot => i = j

(* What is on its way to a slot's session is for one aboard; a homecoming is the last of
   it, and a loss is told once. *)
FlightInv ==
    \A s \in Slots :
        /\ Flying(s, Says) => \E p \in Pilots : slot[p] = s /\ Aboard(p)
        /\ Flying(s, {"DockRefused"}) => In(s, "docking")
        /\ Flying(s, {"Home"}) => /\ In(s, "docking") \/ In(s, "freeing")
                                  /\ ~client[s].active /\ ~Flying(s, Losses)
                                  /\ \A p \in Pilots : slot[p] = s => ~lost[p]
        /\ Flying(s, {"Parked"}) => In(s, "freeing")
        /\ Flying(s, Losses) => /\ client[s].active => client[s].lost
                                /\ \A p \in Pilots : slot[p] = s =>
                                      ~lost[p] /\ (Seat(p) => client[s].active)
        /\ \A p \in Pilots : slot[p] = s /\ lost[p] /\ client[s].active => client[s].lost

OfInv ==
    \A s \in Slots : \A p \in Pilots : slot[p] = s =>
        /\ \A i \in DOMAIN todo : Tells(todo[i], s, Says) => todo[i].val.of = p
        /\ \A i \in DOMAIN reports[s] : reports[s][i].what \in Says => reports[s][i].of = p

Once(what) ==
    \A s \in Slots :
        /\ \A i, j \in DOMAIN reports[s] :
              reports[s][i].what \in what /\ reports[s][j].what \in what => i = j
        /\ \A i, j \in DOMAIN todo : Tells(todo[i], s, what) /\ Tells(todo[j], s, what) => i = j
        /\ ~(Owed(s, what) /\ Rung(s, what))
OnceInv == Once(Losses) /\ Once(Answers)

(* What the sector says of a suit comes before the slot is free, but for the dock's
   answer. *)
OrderInv ==
    \A s \in Slots : \A j \in DOMAIN todo :
        /\ Tells(todo[j], s, Says)
        /\ status[s].state = "Free" \/ \E i \in DOMAIN todo : i < j /\ IsStore(todo[i], s)
        => Tells(todo[j], s, Answers) /\ In(s, "docking")

(* Nobody ejects, and nothing is towed. *)
ClaimInv ==
    ~Ejects =>
        /\ \A s \in Slots : claim[s] = NoPilot
        /\ \A i \in DOMAIN control : control[i].op # "Eject"
        /\ \A i \in DOMAIN todo : todo[i].kind = "report" => todo[i].val.what \in Says
        /\ \A s \in Slots : \A i \in DOMAIN reports[s] : reports[s][i].what \in Says

CalmInv ==
    /\ PhaseInv /\ StatusInv /\ SeatInv /\ JoinInv /\ LaunchInv /\ ClientInv /\ OwnInv
    /\ MsgInv /\ FlightInv /\ OfInv /\ OnceInv /\ OrderInv /\ ClaimInv

-----------------------------------------------------------------------------
(* A slot is one session's. *)
LEMMA OneSession ==
    ASSUME LeaseInv, NEW p \in Pilots, NEW q \in Pilots, NEW s \in Slots, slot[p] = s, slot[q] = s
    PROVE  p = q
BY ConstantsAssumption DEF LeaseInv, OneOwner

(* The sector makes its next write. *)
LEMMA WriteCalm ==
    ASSUME TypeInv, CalmInv, SectorWrite
    PROVE  CalmInv'
<1> DEFINE w == Head(todo)
           T == Tail(todo)
<1>1. /\ todo' = T /\ todo # <<>>
      /\ status' = IF w.kind = "store" THEN [status EXCEPT ![w.slot] = Stored(@, w)] ELSE status
      /\ reports' = IF w.kind = "report" THEN [reports EXCEPT ![w.slot] = PushReport(@, w.val)]
                    ELSE reports
      /\ UNCHANGED <<control, client, claim, life, owner, launched, sleeper, pc, slot, suit,
                     lost, seen>>
      BY DEF SectorWrite, sim, record, session
<1>2. /\ todo \in Seq(Writes) /\ status \in [Slots -> Statuses]
      /\ reports \in [Slots -> Seq(Tellings)]
      BY DEF TypeInv, QueueTypes
<1> HIDE DEF Writes, Statuses, Tellings
<1>3. /\ w = todo[1] /\ 1 \in DOMAIN todo /\ w \in Writes
      /\ \A i \in DOMAIN T : T[i] = todo[i + 1] /\ i + 1 \in DOMAIN todo
      /\ \A i \in DOMAIN todo : i = 1 \/ (i - 1 \in DOMAIN T /\ T[i - 1] = todo[i])
      /\ DOMAIN todo = 1..Len(todo) /\ DOMAIN T = 1..(Len(todo) - 1) /\ Len(todo) \in Nat \ {0}
      BY <1>1, <1>2, TailIs
<1>4. \A i, j \in DOMAIN T : (i = j) <=> (i + 1 = j + 1)
      BY <1>3
<1>5. \A i, j \in DOMAIN T : (i < j) <=> (i + 1 < j + 1)
      BY <1>3
<1>6. \A j \in DOMAIN T : 1 < j + 1 /\ j + 1 # 1
      BY <1>3
<1> HIDE DEF w, T
<1>7. \A s \in Slots : \/ reports'[s] = reports[s]
                       \/ /\ w.kind = "report" /\ w.slot = s
                          /\ reports'[s] = Append(reports[s], w.val) /\ w.val \in Tellings
  <2> SUFFICES ASSUME NEW s \in Slots
               PROVE  \/ reports'[s] = reports[s]
                      \/ /\ w.kind = "report" /\ w.slot = s
                         /\ reports'[s] = Append(reports[s], w.val) /\ w.val \in Tellings
      OBVIOUS
  <2>1. w.kind = "report" => w.slot \in Slots /\ w.val \in Tellings
        BY <1>3 DEF Writes, Stores, Reports, Noticed
  <2>2. CASE w.kind = "report" /\ w.slot = s
    <3>1. reports'[s] = PushReport(reports[s], w.val)
          BY <1>1, <1>2, <2>2
    <3> QED BY <2>1, <2>2, <3>1 DEF PushReport
  <2>3. CASE ~(w.kind = "report" /\ w.slot = s)
        BY <1>1, <1>2, <2>1, <2>3
  <2> QED BY <2>2, <2>3
<1>8. \A s \in Slots :
          \/ reports'[s] = reports[s]
          \/ /\ w.kind = "report" /\ w.slot = s
             /\ DOMAIN reports'[s] = 1..(Len(reports[s]) + 1) /\ DOMAIN reports[s] = 1..Len(reports[s])
             /\ Len(reports[s]) \in Nat
             /\ reports'[s][Len(reports[s]) + 1] = w.val
             /\ \A i \in 1..Len(reports[s]) : reports'[s][i] = reports[s][i]
  <2> SUFFICES ASSUME NEW s \in Slots, reports'[s] # reports[s]
               PROVE  /\ w.kind = "report" /\ w.slot = s
                      /\ DOMAIN reports'[s] = 1..(Len(reports[s]) + 1) /\ DOMAIN reports[s] = 1..Len(reports[s])
                      /\ Len(reports[s]) \in Nat
                      /\ reports'[s][Len(reports[s]) + 1] = w.val
                      /\ \A i \in 1..Len(reports[s]) : reports'[s][i] = reports[s][i]
      BY Zenon
  <2>1. /\ w.kind = "report" /\ w.slot = s
        /\ reports'[s] = Append(reports[s], w.val) /\ w.val \in Tellings
        BY <1>7
  <2>2. reports[s] \in Seq(Tellings)
        BY <1>2
  <2> QED BY <2>1, <2>2, AppendIs
(* What is told, and where. *)
<1>9. \A s \in Slots : \A what :
         /\ Owed(s, what)' => Owed(s, what)
         /\ Owed(s, what) => Owed(s, what)' \/ Tells(w, s, what)
         /\ Tells(w, s, what) => Owed(s, what)
      BY <1>1, <1>3 DEF Owed
<1>10. \A s \in Slots : \A what :
         /\ Rung(s, what)' => Rung(s, what) \/ Tells(w, s, what)
         /\ Rung(s, what) => Rung(s, what)'
  <2> SUFFICES ASSUME NEW s \in Slots, NEW what
               PROVE  /\ Rung(s, what)' => Rung(s, what) \/ Tells(w, s, what)
                      /\ Rung(s, what) => Rung(s, what)'
      OBVIOUS
  <2>1. CASE reports'[s] = reports[s]
        BY <2>1 DEF Rung
  <2>2. CASE reports'[s] # reports[s]
    <3>1. \A i \in DOMAIN reports'[s] : i \in DOMAIN reports[s] \/ i = Len(reports[s]) + 1
          BY <1>8, <2>2
    <3>2. \A i \in DOMAIN reports[s] : i \in DOMAIN reports'[s] /\ reports'[s][i] = reports[s][i]
          BY <1>8, <2>2
    <3> QED BY <1>8, <2>2, <3>1, <3>2 DEF Rung, Tells
  <2> QED BY <2>1, <2>2
<1>11. \A s \in Slots : \A what : Flying(s, what)' => Flying(s, what)
       BY <1>9, <1>10 DEF Flying
<1>12. \A s \in Slots : /\ Storing(s)' => Storing(s)
                        /\ Storing(s) => Storing(s)' \/ IsStore(w, s)
                        /\ IsStore(w, s) => Storing(s)
       BY <1>1, <1>3 DEF Storing
<1>13. \A s \in Slots : ~Bumping(s)' /\ (IsStore(w, s) /\ w.bump = 1 => Bumping(s))
                        /\ (Bumping(s) => IsStore(w, s) /\ w.bump = 1)
  <2>1. ASSUME NEW s \in Slots, Bumping(s) PROVE DOMAIN T = {} /\ DOMAIN todo = {1}
        BY <2>1, <1>3 DEF CalmInv, StatusInv
  <2>2. \A s \in Slots : Bumping(s)' => Bumping(s)
        BY <1>1, <1>3 DEF Bumping
  <2>3. \A s \in Slots : ~Bumping(s)'
        BY <1>1, <2>1, <2>2 DEF Bumping
  <2>4. \A s \in Slots : Bumping(s) => IsStore(w, s) /\ w.bump = 1
        BY <1>3, <2>1 DEF Bumping
  <2> QED BY <1>3, <2>3, <2>4 DEF Bumping
<1>14. /\ \A s \in Slots : (Asked(s)' <=> Asked(s)) /\ (Joining(s)' <=> Joining(s))
       /\ \A s \in Slots : \A phase : In(s, phase)' <=> In(s, phase)
       /\ \A p \in Pilots : (Seat(p)' <=> Seat(p)) /\ (Aboard(p)' <=> Aboard(p))
       BY <1>1 DEF Asked, Joining, In, Seat, Aboard
<1>15. \A s \in Slots : IsStore(w, s) =>
          /\ w.val \in Whole /\ Shows(w.val, client[s])
          /\ w.bump = IF w.val.state = "Free" THEN 0 ELSE 1
       BY <1>3 DEF CalmInv, StatusInv
<1>16. \A s \in Slots :
          /\ ~IsStore(w, s) => status'[s] = status[s]
          /\ IsStore(w, s) => /\ status'[s].state = w.val.state /\ status'[s].suit = w.val.suit
                              /\ w.bump # 1 => status'[s].epoch = status[s].epoch
  <2> SUFFICES ASSUME NEW s \in Slots
               PROVE  /\ ~IsStore(w, s) => status'[s] = status[s]
                      /\ IsStore(w, s) =>
                            /\ status'[s].state = w.val.state /\ status'[s].suit = w.val.suit
                            /\ w.bump # 1 => status'[s].epoch = status[s].epoch
      OBVIOUS
  <2>1. CASE ~IsStore(w, s)
    <3>1. w.kind = "store" => w.slot \in Slots
          BY <1>3 DEF Writes, Stores, Reports, Noticed
    <3> QED BY <1>1, <1>2, <2>1, <3>1 DEF IsStore
  <2>2. CASE IsStore(w, s)
    <3>1. status'[s] = Stored(status[s], w)
          BY <1>1, <1>2, <2>2 DEF IsStore
    <3>2. DOMAIN w.val = {"suit", "outcome", "state"}
          BY <1>15, <2>2 DEF Whole
    <3>3. /\ DOMAIN status[s] = {"state", "suit", "epoch", "outcome"}
          /\ status[s].epoch \in 0..(EpochMod - 1)
          BY <1>2 DEF Statuses, Epochs
    <3>4. /\ status'[s].state = w.val.state /\ status'[s].suit = w.val.suit
          /\ status'[s].epoch = (status[s].epoch + w.bump) % EpochMod
          BY <3>1, <3>2, <3>3 DEF Stored
    <3>5. ASSUME w.bump # 1 PROVE status'[s].epoch = status[s].epoch
      <4>1. w.bump = 0
            BY <1>15, <2>2, <3>5
      <4> QED BY <3>3, <3>4, <4>1, ConstantsAssumption
    <3> QED BY <2>2, <3>4, <3>5
  <2> QED BY <2>1, <2>2
<1> HIDE DEF CalmInv
<1>a. PhaseInv'
      BY <1>1 DEF CalmInv, PhaseInv
<1>b. StatusInv'
  <2>1. \A s \in Slots : \A i \in DOMAIN T : IsStore(T[i], s) =>
              /\ T[i].val \in Whole /\ Shows(T[i].val, client[s])
              /\ T[i].bump = IF T[i].val.state = "Free" THEN 0 ELSE 1
        BY <1>3 DEF CalmInv, StatusInv
  <2>2. \A s \in Slots : ~Storing(s)' => Shows(status'[s], client[s])
        BY <1>12, <1>15, <1>16 DEF CalmInv, StatusInv, Shows
  <2> QED BY <1>1, <1>13, <2>1, <2>2 DEF StatusInv, Shows
<1>c. SeatInv'
  <2> SUFFICES ASSUME NEW p \in Pilots
               PROVE  /\ pc[p] = "asking" \/ (pc[p] = "seating" /\ Joining(slot[p])) =>
                            ~client[slot[p]].active /\ status'[slot[p]].epoch = seen[p]
                      /\ Seat(p) => ~Asked(slot[p]) /\ ~Storing(slot[p])'
                      /\ pc[p] = "asking" /\ sleeper[p] = NoSuit /\ LastSuit(p) # NoSuit =>
                            life[LastSuit(p)] = "queued"
    <3>1. \A p \in Pilots : Seat(p) => slot[p] \in Slots
          BY DEF Seat, TypeInv, LeaseInv
    <3>2. \A p \in Pilots : pc[p] = "seating" \/ pc[p] = "asking" => slot[p] \in Slots
          BY DEF TypeInv, LeaseInv
    <3>3. \A p \in Pilots : LastSuit(p)' = LastSuit(p)
          BY <1>1 DEF LastSuit
    <3> QED BY <1>1, <1>13, <1>14, <3>1, <3>2, <3>3 DEF SeatInv
  <2>1. pc[p] = "seating" \/ pc[p] = "asking" => slot[p] \in Slots
        BY DEF TypeInv, LeaseInv
  <2>2. ASSUME pc[p] = "asking" \/ (pc[p] = "seating" /\ Joining(slot[p]))
        PROVE  ~client[slot[p]].active /\ status'[slot[p]].epoch = seen[p]
    <3>1. ~Bumping(slot[p])
      <4>1. \A q \in Pilots : slot[q] = slot[p] => q = p
            BY <2>1, <2>2, OneSession DEF TypeInv
      <4> QED BY <2>1, <2>2, <4>1 DEF CalmInv, StatusInv, Seat
    <3> QED BY <1>13, <1>16, <2>1, <2>2, <3>1 DEF CalmInv, SeatInv
  <2>3. ASSUME Seat(p) PROVE ~Asked(slot[p]) /\ ~Storing(slot[p])'
    <3>1. slot[p] \in Slots /\ ~Asked(slot[p])
          BY <2>1, <2>3 DEF CalmInv, SeatInv, Seat
    <3>2. CASE ~Bumping(slot[p])
          BY <1>1, <1>12, <2>3, <3>1, <3>2 DEF CalmInv, SeatInv
    <3>3. CASE Bumping(slot[p])
      <4>1. DOMAIN T = {}
            BY <1>3, <3>1, <3>3 DEF CalmInv, StatusInv
      <4> QED BY <1>1, <3>1, <4>1 DEF Storing
    <3> QED BY <3>1, <3>2, <3>3
  <2> QED BY <2>2, <2>3 DEF CalmInv, SeatInv
<1>d. JoinInv' /\ LaunchInv' /\ ClientInv'
      BY <1>1 DEF CalmInv, JoinInv, LaunchInv, ClientInv, Seats
<1>e. OwnInv'
  <2>1. \A p \in Pilots : Aboard(p) => slot[p] \in Slots
        BY DEF CalmInv, PhaseInv, Aboard, Seat, TypeInv, LeaseInv
  <2>2. ASSUME NEW p \in Pilots, Aboard(p)
        PROVE  /\ \A i \in DOMAIN T : IsStore(T[i], slot[p]) => Own(p, T[i].val.suit)
               /\ Own(p, status'[slot[p]].suit)
    <3>1. \A i \in DOMAIN todo : IsStore(todo[i], slot[p]) => Own(p, todo[i].val.suit)
          BY <2>2 DEF CalmInv, OwnInv
    <3>2. IsStore(w, slot[p]) => Own(p, w.val.suit)
          BY <1>3, <3>1
    <3>3. ~IsStore(w, slot[p]) => Own(p, status[slot[p]].suit)
          BY <1>13, <2>1, <2>2 DEF CalmInv, OwnInv
    <3> QED BY <1>3, <1>16, <2>1, <2>2, <3>1, <3>2, <3>3
  <2>3. \A p \in Pilots : \A id : Own(p, id)' <=> Own(p, id)
        BY <1>1 DEF Own
  <2>4. \A p \in Pilots : Own(p, sleeper[p]) /\ Own(p, suit[p])
        BY DEF CalmInv, OwnInv
  <2> SUFFICES ASSUME NEW p \in Pilots
               PROVE  /\ Own(p, sleeper[p]) /\ Own(p, suit[p])
                      /\ Aboard(p) => /\ \A i \in DOMAIN T : IsStore(T[i], slot[p]) => Own(p, T[i].val.suit)
                                     /\ Own(p, status'[slot[p]].suit)
      BY <1>1, <1>14, <2>3 DEF OwnInv, Own
  <2> QED BY <2>2, <2>4
<1>f. MsgInv'
  <2>1. control \in Seq(Msgs)
        BY DEF TypeInv, QueueTypes
  <2>2. \A i \in DOMAIN control : control[i].slot \in Slots
    <3>1. \A i \in DOMAIN control : control[i] \in Msgs
      <4> HIDE DEF Msgs
      <4> QED BY <2>1
    <3> QED BY <3>1 DEF Msgs
  <2> QED BY <1>1, <1>11, <1>14, <2>2 DEF CalmInv, MsgInv
<1>g. FlightInv'
      BY <1>1, <1>11, <1>14 DEF CalmInv, FlightInv
<1>h. OfInv'
  <2> SUFFICES ASSUME NEW s \in Slots, NEW p \in Pilots, slot[p] = s
               PROVE  /\ \A i \in DOMAIN T : Tells(T[i], s, Says) => T[i].val.of = p
                      /\ \A i \in DOMAIN reports'[s] : reports'[s][i].what \in Says => reports'[s][i].of = p
      BY <1>1 DEF OfInv
  <2>1. /\ \A i \in DOMAIN todo : Tells(todo[i], s, Says) => todo[i].val.of = p
        /\ \A i \in DOMAIN reports[s] : reports[s][i].what \in Says => reports[s][i].of = p
        BY DEF CalmInv, OfInv
  <2>2. CASE reports'[s] = reports[s]
        BY <1>3, <2>1, <2>2
  <2>3. CASE reports'[s] # reports[s]
    <3>1. \A i \in DOMAIN reports'[s] : i \in 1..Len(reports[s]) \/ i = Len(reports[s]) + 1
          BY <1>8, <2>3
    <3>2. w.val.what \in Says => w.val.of = p
          BY <1>3, <1>8, <2>1, <2>3 DEF Tells
    <3> DEFINE l == Len(reports[s])
    <3>3. /\ DOMAIN reports[s] = 1..l /\ reports'[s][l + 1] = w.val
          /\ \A i \in 1..l : reports'[s][i] = reports[s][i]
          BY <1>8, <2>3
    <3> HIDE DEF l, Says
    <3>4. \A i \in DOMAIN reports'[s] : i \in 1..l \/ i = l + 1
          BY <3>1 DEF l
    <3>5. \A i \in DOMAIN reports'[s] : reports'[s][i].what \in Says => reports'[s][i].of = p
          BY <2>1, <3>2, <3>3, <3>4
    <3> QED BY <1>3, <2>1, <3>5
  <2> QED BY <2>2, <2>3
<1>i. ASSUME NEW what, Once(what) PROVE Once(what)'
  <2> SUFFICES ASSUME NEW s \in Slots
               PROVE  /\ \A i, j \in DOMAIN reports'[s] :
                            reports'[s][i].what \in what /\ reports'[s][j].what \in what => i = j
                      /\ \A i, j \in DOMAIN T : Tells(T[i], s, what) /\ Tells(T[j], s, what) => i = j
                      /\ ~(Owed(s, what)' /\ Rung(s, what)')
      BY <1>1 DEF Once
  <2>1. \A i, j \in DOMAIN T : Tells(T[i], s, what) /\ Tells(T[j], s, what) => i = j
        BY <1>3, <1>4, <1>i DEF Once
  <2>2. Tells(w, s, what) => ~Owed(s, what)'
        BY <1>1, <1>3, <1>6, <1>i DEF Once, Owed
  <2>3. ~(Owed(s, what)' /\ Rung(s, what)')
        BY <1>9, <1>10, <1>i, <2>2 DEF Once
  <2>4. \A i, j \in DOMAIN reports'[s] :
            reports'[s][i].what \in what /\ reports'[s][j].what \in what => i = j
    <3>1. CASE reports'[s] = reports[s]
          BY <1>i, <3>1 DEF Once
    <3>2. CASE reports'[s] # reports[s]
      <4>1. \A i \in DOMAIN reports'[s] : i \in 1..Len(reports[s]) \/ i = Len(reports[s]) + 1
            BY <1>8, <3>2
      <4>2. w.val.what \in what => ~Rung(s, what)
            BY <1>8, <1>9, <1>i, <3>2 DEF Once, Tells
      <4>3. w.val.what \in what => \A i \in 1..Len(reports[s]) : ~(reports[s][i].what \in what)
            BY <1>8, <3>2, <4>2 DEF Rung
      <4> QED BY <1>8, <1>i, <3>2, <4>1, <4>3, SMTT(30) DEF Once
    <3> QED BY <3>1, <3>2
  <2> QED BY <2>1, <2>3, <2>4
<1>j. OnceInv'
      BY <1>i DEF CalmInv, OnceInv
<1>k. OrderInv'
  <2> SUFFICES ASSUME NEW s \in Slots, NEW j \in DOMAIN T, Tells(T[j], s, Says),
                      status'[s].state = "Free" \/ \E i \in DOMAIN T : i < j /\ IsStore(T[i], s)
               PROVE  Tells(T[j], s, Answers) /\ In(s, "docking")
      BY <1>1, <1>14 DEF OrderInv
  <2>1. T[j] = todo[j + 1] /\ j + 1 \in DOMAIN todo
        BY <1>3
  <2>2. \/ status[s].state = "Free" \/ \E i \in DOMAIN todo : i < j + 1 /\ IsStore(todo[i], s)
        BY <1>3, <1>5, <1>6, <1>16
  <2> QED BY <2>1, <2>2 DEF CalmInv, OrderInv
<1>l. ClaimInv'
  <2> SUFFICES ASSUME ~Ejects
               PROVE  /\ \A i \in DOMAIN T : T[i].kind = "report" => T[i].val.what \in Says
                      /\ \A s \in Slots : \A i \in DOMAIN reports'[s] : reports'[s][i].what \in Says
      BY <1>1 DEF CalmInv, ClaimInv
  <2>1. \A i \in DOMAIN T : T[i].kind = "report" => T[i].val.what \in Says
        BY <1>3 DEF CalmInv, ClaimInv
  <2>2. ASSUME NEW s \in Slots, reports'[s] # reports[s]
        PROVE  \A i \in DOMAIN reports'[s] : reports'[s][i].what \in Says
    <3>1. \A i \in DOMAIN reports'[s] : i \in 1..Len(reports[s]) \/ i = Len(reports[s]) + 1
          BY <1>8, <2>2
    <3>2. w.val.what \in Says
          BY <1>3, <1>8, <2>2 DEF CalmInv, ClaimInv
    <3> QED BY <1>8, <2>2, <3>1, <3>2 DEF CalmInv, ClaimInv
  <2>3. \A s \in Slots : \A i \in DOMAIN reports'[s] : reports'[s][i].what \in Says
        BY <2>2 DEF CalmInv, ClaimInv
  <2> QED BY <2>1, <2>3
<1> QED BY <1>a, <1>b, <1>c, <1>d, <1>e, <1>f, <1>g, <1>h, <1>j, <1>k, <1>l DEF CalmInv

-----------------------------------------------------------------------------
(* What a step of the sector's own, with nothing left to write, may do to slot s. *)

(* Nothing but to tow a wreck home to it. *)
Same(s) ==
    /\ client'[s].active = client[s].active /\ client'[s].suit = client[s].suit
Silent(s) == \A i \in DOMAIN todo' : ~Tells(todo'[i], s, Says)
Unwritten(s) == \A i \in DOMAIN todo' : ~IsStore(todo'[i], s)
Spared(s) == Same(s) /\ client'[s].lost = client[s].lost /\ Silent(s) /\ Unwritten(s)

(* It answers its session's join. *)
Answered(s) ==
    /\ \E p \in Pilots, w \in Writes :
          /\ slot[p] = s /\ pc[p] = "seating" /\ Joining(s)
          /\ todo' = <<w>> /\ IsStore(w, s) /\ w.val \in Whole /\ w.bump = 1
          /\ w.val.state # "Free" /\ Shows(w.val, client'[s]) /\ Own(p, w.val.suit)
          /\ client'[s].active => client'[s].suit # NoSuit
    /\ ~Asked(s)'

(* It lets the slot go, its suit home or asleep, or gone. *)
Farewell(s, i) ==
    /\ client[s].active /\ todo'[i].val.of = owner[client[s].suit]
    /\ \/ /\ todo'[i].val.what = "Home" /\ life[client[s].suit] # "wreck"
          /\ \/ In(s, "freeing") /\ \A j \in DOMAIN todo' : j < i => ~IsStore(todo'[j], s)
             \/ /\ In(s, "docking") /\ ~Rung(s, Answers)
                /\ \A j \in DOMAIN control' : ~(control'[j].op = "Dock" /\ control'[j].slot = s)
       \/ /\ todo'[i].val.what = "Parked" /\ In(s, "freeing")
          /\ \A j \in DOMAIN todo' : j < i => ~IsStore(todo'[j], s)
Vacated(s) ==
    /\ ~client'[s].active
    /\ \A p \in Pilots : slot[p] = s => ~Seat(p)
    /\ Joining(s) => Joining(s)'
    /\ \E i \in DOMAIN todo' : IsStore(todo'[i], s)
    /\ \A i \in DOMAIN todo' : IsStore(todo'[i], s) =>
          /\ todo'[i].val \in Whole /\ todo'[i].val.state = "Free" /\ todo'[i].bump = 0
          /\ todo'[i].val.suit = NoSuit \/ (client[s].active /\ todo'[i].val.suit = client[s].suit)
    /\ \A i \in DOMAIN todo' : Tells(todo'[i], s, Says) => Farewell(s, i)
    /\ \A i, j \in DOMAIN todo' : Tells(todo'[i], s, Says) /\ Tells(todo'[j], s, Says) => i = j

(* It tells of a loss. *)
Wrecked(s) ==
    /\ Same(s) /\ client[s].active /\ ~client[s].lost /\ client'[s].lost
    /\ Unwritten(s)
    /\ \A i \in DOMAIN todo' : Tells(todo'[i], s, Says) =>
          Tells(todo'[i], s, Losses) /\ todo'[i].val.of = owner[client[s].suit]
    /\ \A i, j \in DOMAIN todo' : Tells(todo'[i], s, Says) /\ Tells(todo'[j], s, Says) => i = j

(* It refuses the dock. *)
Denied(s) ==
    /\ Same(s) /\ client'[s].lost = client[s].lost
    /\ \E p \in Pilots, w \in Writes :
          /\ slot[p] = s /\ pc[p] = "docking" /\ ~Rung(s, Answers)
          /\ todo' = <<w>> /\ Tells(w, s, {"DockRefused"}) /\ w.val.of = p
    /\ \A j \in DOMAIN control' : ~(control'[j].op = "Dock" /\ control'[j].slot = s)

Effect(s) == Spared(s) \/ Answered(s) \/ Vacated(s) \/ Wrecked(s) \/ Denied(s)

(* What it may do to the control queue and the suits. *)
SectorMoves ==
    /\ todo = <<>>
    /\ UNCHANGED <<status, reports, owner, launched, sleeper, pc, slot, suit, lost, seen>>
    /\ control' = control \/ (control # <<>> /\ control' = Tail(control))
    /\ \A s \in Slots : Joining(s) /\ ~Joining(s)' => Answered(s)
    /\ \A id \in Ids :
          /\ life[id] = "unborn" => life'[id] = "unborn"
          /\ life[id] = "queued" /\ life'[id] # "queued" =>
                \E p \in Pilots : owner[id] = p /\ pc[p] = "seating" /\ ~Asked(slot[p])'
    /\ \A s \in Slots : client'[s].active =>
          /\ life'[client'[s].suit] \in {"cradle", "flying", "wreck"}
          /\ client'[s].lost => life'[client'[s].suit] = "wreck"

-----------------------------------------------------------------------------
(* With nothing left to write, all that is on its way has been written. *)
LEMMA NothingOwed ==
    ASSUME CalmInv, todo = <<>>
    PROVE  \A s \in Slots : /\ ~Storing(s) /\ ~Bumping(s) /\ Shows(status[s], client[s])
                            /\ \A what : ~Owed(s, what) /\ (Flying(s, what) <=> Rung(s, what))
<1>1. DOMAIN todo = {}
      OBVIOUS
<1>2. \A s \in Slots : \A what : ~Storing(s) /\ ~Bumping(s) /\ ~Owed(s, what)
      BY <1>1 DEF Storing, Bumping, Owed
<1>3. \A s \in Slots : Shows(status[s], client[s])
      BY <1>2 DEF CalmInv, StatusInv
<1> QED BY <1>2, <1>3 DEF Flying

(* What is left of the control queue was in it. *)
LEMMA ControlLeft ==
    ASSUME QueueTypes, control' = control \/ (control # <<>> /\ control' = Tail(control))
    PROVE  /\ \E f : /\ \A i \in DOMAIN control' :
                           f[i] \in DOMAIN control /\ control'[i] = control[f[i]]
                     /\ \A i, j \in DOMAIN control' : (f[i] = f[j] => i = j) /\ (i < j => f[i] < f[j])
           /\ \A s \in Slots : (Asked(s)' => Asked(s)) /\ (Joining(s)' => Joining(s))
<1>1. \E f : /\ \A i \in DOMAIN control' : f[i] \in DOMAIN control /\ control'[i] = control[f[i]]
             /\ \A i, j \in DOMAIN control' : (f[i] = f[j] => i = j) /\ (i < j => f[i] < f[j])
  <2>1. CASE control' = control
    <3> DEFINE f == [i \in DOMAIN control |-> i]
    <3>1. \A i \in DOMAIN control : f[i] = i
          OBVIOUS
    <3> HIDE DEF f
    <3> QED BY <2>1, <3>1
  <2>2. CASE control # <<>> /\ control' = Tail(control)
    <3>1. control \in Seq(Msgs)
          BY DEF QueueTypes
    <3> HIDE DEF Msgs
    <3>2. /\ \A i \in DOMAIN Tail(control) : Tail(control)[i] = control[i + 1] /\ i + 1 \in DOMAIN control
          /\ DOMAIN Tail(control) = 1..(Len(control) - 1) /\ Len(control) \in Nat
          BY <2>2, <3>1, TailIs
    <3> DEFINE f == [i \in DOMAIN Tail(control) |-> i + 1]
               n == Len(control) - 1
    <3>3. \A i \in DOMAIN Tail(control) : f[i] = i + 1
          OBVIOUS
    <3>4. n \in Int /\ DOMAIN Tail(control) = 1..n
          BY <3>2
    <3> HIDE DEF f, n
    <3>5. \A i, j \in DOMAIN Tail(control) : (f[i] = f[j] => i = j) /\ (i < j => f[i] < f[j])
          BY <3>3, <3>4
    <3>6. \A i \in DOMAIN Tail(control) : f[i] \in DOMAIN control /\ Tail(control)[i] = control[f[i]]
          BY <3>2, <3>3
    <3> QED BY <2>2, <3>5, <3>6
  <2> QED BY <2>1, <2>2
<1>2. PICK f : \A i \in DOMAIN control' : f[i] \in DOMAIN control /\ control'[i] = control[f[i]]
      BY <1>1
<1>3. \A s \in Slots : (Asked(s)' => Asked(s)) /\ (Joining(s)' => Joining(s))
      BY <1>2 DEF Asked, Joining
<1> QED BY <1>1, <1>3

-----------------------------------------------------------------------------
SectorStep == TypeInv /\ CalmInv /\ SectorMoves /\ \A s \in Slots : Effect(s)

(* The facts every part of the proof that such a step keeps CalmInv needs. *)
LEMMA StepFacts ==
    ASSUME SectorStep
    PROVE  /\ UNCHANGED <<status, reports, owner, launched, sleeper, pc, slot, suit, lost, seen>>
           /\ \A s \in Slots : /\ ~Storing(s) /\ ~Bumping(s) /\ Shows(status[s], client[s])
                               /\ \A what : ~Owed(s, what) /\ (Flying(s, what) <=> Rung(s, what))
           /\ \A s \in Slots : (Asked(s)' => Asked(s)) /\ (Joining(s)' => Joining(s))
           /\ \A s \in Slots : \A what : (Rung(s, what)' <=> Rung(s, what))
           /\ \A s \in Slots : \A phase : (In(s, phase)' <=> In(s, phase))
           /\ \A p \in Pilots : pc[p] # "away" => slot[p] \in Slots
           /\ \A p \in Pilots : \A id : (Own(p, id)' <=> Own(p, id))
           /\ \A s \in Slots, p \in Pilots, q \in Pilots : slot[p] = s /\ slot[q] = s => p = q
<1>1. UNCHANGED <<status, reports, owner, launched, sleeper, pc, slot, suit, lost, seen>>
      BY DEF SectorStep, SectorMoves
<1>2. \A s \in Slots : /\ ~Storing(s) /\ ~Bumping(s) /\ Shows(status[s], client[s])
                       /\ \A what : ~Owed(s, what) /\ (Flying(s, what) <=> Rung(s, what))
      BY NothingOwed DEF SectorStep, SectorMoves
<1>3. \A s \in Slots : (Asked(s)' => Asked(s)) /\ (Joining(s)' => Joining(s))
      BY ControlLeft DEF SectorStep, SectorMoves, TypeInv
<1>4. \A s \in Slots : \A what : (Rung(s, what)' <=> Rung(s, what))
      BY <1>1 DEF Rung
<1>5. \A s \in Slots : \A phase : (In(s, phase)' <=> In(s, phase))
      BY <1>1 DEF In
<1>6. \A p \in Pilots : pc[p] # "away" => slot[p] \in Slots
      BY DEF SectorStep, TypeInv, LeaseInv
<1>7. \A p \in Pilots : \A id : (Own(p, id)' <=> Own(p, id))
      BY <1>1 DEF Own
<1>8. \A s \in Slots, p \in Pilots, q \in Pilots : slot[p] = s /\ slot[q] = s => p = q
      BY OneSession DEF SectorStep, TypeInv
<1> QED BY <1>1, <1>2, <1>3, <1>4, <1>5, <1>6, <1>7, <1>8

(* What the sector has to write to a slot, by what it did there. *)
LEMMA EffectFacts ==
    ASSUME SectorStep, NEW s \in Slots
    PROVE  /\ Spared(s) \/ Wrecked(s) \/ Denied(s) => Unwritten(s)
           /\ Spared(s) \/ Answered(s) => Silent(s)
           /\ Unwritten(s) => ~Storing(s)' /\ ~Bumping(s)'
           /\ Silent(s) => ~Owed(s, Says)'
           /\ Vacated(s) => ~Bumping(s)' /\ Storing(s)'
           /\ Answered(s) => Bumping(s)' /\ Len(todo') = 1
<1>1. Unwritten(s) => ~Storing(s)' /\ ~Bumping(s)'
      BY DEF Unwritten, Storing, Bumping
<1>2. Silent(s) => ~Owed(s, Says)'
      BY DEF Silent, Owed
<1>3. Vacated(s) => ~Bumping(s)' /\ Storing(s)'
      BY DEF Vacated, Bumping, Storing
<1>4. ASSUME Answered(s) PROVE Bumping(s)' /\ Len(todo') = 1 /\ Silent(s)
  <2>1. PICK w \in Writes : todo' = <<w>> /\ IsStore(w, s) /\ w.bump = 1
        BY <1>4 DEF Answered
  <2>2. DOMAIN todo' = {1} /\ todo'[1] = w /\ Len(todo') = 1
    <3> HIDE DEF Writes
    <3> QED BY <2>1
  <2> QED BY <2>1, <2>2 DEF Bumping, Silent, IsStore, Tells
<1>5. ASSUME Denied(s) PROVE Unwritten(s)
  <2>1. PICK w \in Writes : todo' = <<w>> /\ Tells(w, s, {"DockRefused"})
        BY <1>5 DEF Denied
  <2>2. DOMAIN todo' = {1} /\ todo'[1] = w
    <3> HIDE DEF Writes
    <3> QED BY <2>1
  <2> QED BY <2>1, <2>2 DEF Unwritten, IsStore, Tells
<1> QED BY <1>1, <1>2, <1>3, <1>4, <1>5 DEF Spared, Wrecked

(* Whose join is answered, and who is aboard, after the step. *)
LEMMA SeatFacts ==
    ASSUME SectorStep, NEW p \in Pilots
    PROVE  /\ Seat(p) => Seat(p)' /\ ~Answered(slot[p]) /\ ~Vacated(slot[p])
           /\ Aboard(p) => Aboard(p)'
           /\ Seat(p)' => Seat(p) \/ Answered(slot[p])
<1>1. Seat(p) => slot[p] \in Slots
      BY StepFacts DEF Seat
<1>2. Seat(p) => Seat(p)'
      BY <1>1, StepFacts DEF Seat
<1>3. Seat(p) => ~Answered(slot[p])
      BY <1>1, StepFacts DEF Seat, Answered
<1>4. Seat(p) => ~Vacated(slot[p])
      BY DEF Vacated
<1>5. Seat(p)' => Seat(p) \/ Answered(slot[p])
  <2>1. pc[p] = "seating" => slot[p] \in Slots
        BY StepFacts
  <2> QED BY <2>1, StepFacts DEF SectorStep, SectorMoves, Seat
<1> QED BY <1>2, <1>3, <1>4, <1>5, StepFacts DEF Aboard

LEMMA StepStatus == SectorStep => StatusInv'
<1> SUFFICES ASSUME SectorStep PROVE StatusInv'
    OBVIOUS
<1> SUFFICES ASSUME NEW s \in Slots
             PROVE  /\ \A i \in DOMAIN todo' : IsStore(todo'[i], s) =>
                          /\ todo'[i].val \in Whole /\ Shows(todo'[i].val, client'[s])
                          /\ todo'[i].bump = IF todo'[i].val.state = "Free" THEN 0 ELSE 1
                    /\ ~Storing(s)' => Shows(status[s], client'[s])
                    /\ Bumping(s)' => Len(todo') = 1 /\ \E p \in Pilots : slot[p] = s /\ Seat(p)'
    BY StepFacts DEF StatusInv
<1>1. CASE Spared(s) \/ Wrecked(s) \/ Denied(s)
  <2>1. Unwritten(s) /\ ~Storing(s)' /\ ~Bumping(s)'
        BY <1>1, EffectFacts
  <2>2. Same(s)
        BY <1>1 DEF Spared, Wrecked, Denied
  <2> QED BY <2>1, <2>2, StepFacts DEF Unwritten, Same, Shows
<1>2. CASE Vacated(s)
  <2>1. ~Bumping(s)' /\ Storing(s)'
        BY <1>2, EffectFacts
  <2> QED BY <1>2, <2>1 DEF Vacated, Shows
<1>3. CASE Answered(s)
  <2>1. PICK p \in Pilots, w \in Writes :
           /\ slot[p] = s /\ pc[p] = "seating" /\ Joining(s)
           /\ todo' = <<w>> /\ IsStore(w, s) /\ w.val \in Whole /\ w.bump = 1
           /\ w.val.state # "Free" /\ Shows(w.val, client'[s])
        BY <1>3 DEF Answered
  <2>2. DOMAIN todo' = {1} /\ todo'[1] = w
    <3> HIDE DEF Writes
    <3> QED BY <2>1
  <2>3. Len(todo') = 1 /\ Storing(s)'
        BY <1>3, <2>1, <2>2, EffectFacts DEF Storing
  <2>4. Seat(p)'
    <3>1. ~Joining(s)'
          BY <1>3 DEF Answered, Joining, Asked
    <3> QED BY <2>1, <3>1, StepFacts DEF Seat
  <2> QED BY <2>1, <2>2, <2>3, <2>4
<1> QED BY <1>1, <1>2, <1>3 DEF SectorStep, Effect

LEMMA StepSeat == SectorStep => SeatInv'
<1> SUFFICES ASSUME SectorStep PROVE SeatInv'
    OBVIOUS
<1> SUFFICES ASSUME NEW p \in Pilots
             PROVE  /\ pc[p] = "asking" \/ (pc[p] = "seating" /\ Joining(slot[p])') =>
                          ~client'[slot[p]].active /\ status[slot[p]].epoch = seen[p]
                    /\ Seat(p)' => /\ ~Asked(slot[p])'
                                   /\ Bumping(slot[p])' => status[slot[p]].epoch = seen[p]
                                   /\ ~Bumping(slot[p])' => ~Storing(slot[p])'
                    /\ pc[p] = "asking" /\ sleeper[p] = NoSuit /\ LastSuit(p) # NoSuit =>
                          life'[LastSuit(p)] = "queued"
  <2>1. \A p \in Pilots : LastSuit(p)' = LastSuit(p)
        BY StepFacts DEF LastSuit
  <2> QED BY <2>1, StepFacts DEF SeatInv
<1>1. pc[p] = "asking" \/ pc[p] = "seating" => slot[p] \in Slots
      BY StepFacts
<1>2. Seat(p)' => pc[p] = "seating"
      BY StepFacts DEF Seat
<1>3. ASSUME pc[p] = "asking" \/ (pc[p] = "seating" /\ Joining(slot[p])')
      PROVE  ~client'[slot[p]].active /\ status[slot[p]].epoch = seen[p]
  <2>1. slot[p] \in Slots
        BY <1>1, <1>3
  <2>2. pc[p] = "asking" \/ (pc[p] = "seating" /\ Joining(slot[p]))
        BY <1>3, <2>1, StepFacts
  <2>3. ~client[slot[p]].active /\ status[slot[p]].epoch = seen[p]
        BY <2>2 DEF SectorStep, CalmInv, SeatInv
  <2>4. ~Answered(slot[p])
    <3>1. \A q \in Pilots : slot[q] = slot[p] => q = p
          BY <2>1, StepFacts
    <3>2. pc[p] = "seating" => Asked(slot[p])'
      <4>1. \A s \in Slots : Joining(s)' => Asked(s)'
            BY DEF Joining, Asked
      <4>2. slot' = slot
            BY StepFacts
      <4> QED BY <4>1, <4>2, <1>3, <2>1
    <3> QED BY <3>1, <3>2, <1>3 DEF Answered
  <2>5. Effect(slot[p])
        BY <2>1 DEF SectorStep
  <2> QED BY <2>3, <2>4, <2>5 DEF Effect, Spared, Same, Vacated, Wrecked, Denied
<1>4. ASSUME Seat(p)'
      PROVE  /\ ~Asked(slot[p])'
             /\ Bumping(slot[p])' => status[slot[p]].epoch = seen[p]
             /\ ~Bumping(slot[p])' => ~Storing(slot[p])'
  <2> DEFINE s == slot[p]
  <2>0. s \in Slots /\ slot' = slot
        BY <1>1, <1>2, <1>4, StepFacts
  <2> SUFFICES ASSUME NEW t \in Slots, t = s
               PROVE  /\ ~Asked(t)'
                      /\ Bumping(t)' => status[t].epoch = seen[p]
                      /\ ~Bumping(t)' => ~Storing(t)'
      BY <2>0
  <2>1. CASE Seat(p)
    <3>1. ~Asked(t) /\ ~Asked(t)'
          BY <2>1, StepFacts DEF SectorStep, CalmInv, SeatInv
    <3>2. ~Answered(t) /\ ~Vacated(t)
          BY <2>1, SeatFacts
    <3>3. Effect(t)
          BY DEF SectorStep
    <3>4. ~Storing(t)' /\ ~Bumping(t)'
          BY <3>2, <3>3, EffectFacts DEF Effect
    <3> QED BY <3>1, <3>4
  <2>2. CASE ~Seat(p)
    <3>1. Answered(t)
          BY <1>4, <2>2, SeatFacts
    <3>2. ~Asked(t)' /\ Bumping(t)'
          BY <3>1, EffectFacts DEF Answered
    <3>3. pc[p] = "seating" /\ Joining(slot[p])
          BY <1>2, <1>4, <2>2 DEF Seat
    <3> QED BY <3>2, <3>3 DEF SectorStep, CalmInv, SeatInv
  <2> QED BY <2>1, <2>2
<1>5. ASSUME pc[p] = "asking", sleeper[p] = NoSuit, LastSuit(p) # NoSuit
      PROVE  life'[LastSuit(p)] = "queued"
  <2>1. LastSuit(p) \in Ids /\ owner[LastSuit(p)] = p
        BY <1>5, LastSuitIs
  <2>2. life[LastSuit(p)] = "queued"
        BY <1>5 DEF SectorStep, CalmInv, SeatInv
  <2> QED BY <1>5, <2>1, <2>2 DEF SectorStep, SectorMoves
<1> QED BY <1>3, <1>4, <1>5

LEMMA StepOwn == SectorStep => OwnInv'
<1> SUFFICES ASSUME SectorStep PROVE OwnInv'
    OBVIOUS
<1> SUFFICES ASSUME NEW p \in Pilots, Aboard(p)'
             PROVE  /\ \A i \in DOMAIN todo' : IsStore(todo'[i], slot[p]) => Own(p, todo'[i].val.suit)
                    /\ ~Bumping(slot[p])' => Own(p, status[slot[p]].suit)
  <2>1. \A p \in Pilots : Own(p, sleeper[p]) /\ Own(p, suit[p])
        BY DEF SectorStep, CalmInv, OwnInv
  <2> QED BY <2>1, StepFacts DEF OwnInv, Own
<1>1. slot[p] \in Slots
      BY StepFacts DEF SectorStep, CalmInv, PhaseInv, Aboard, Seat
<1>2. PICK s \in Slots : s = slot[p]
      BY <1>1
<1>3. ~Bumping(s)' => Own(p, status[s].suit)
  <2>1. CASE Aboard(p)
        BY <1>2, <2>1, StepFacts DEF SectorStep, CalmInv, OwnInv
  <2>2. CASE ~Aboard(p)
    <3>1. Seat(p)' /\ ~Seat(p)
          BY <2>2, StepFacts DEF Aboard
    <3> QED BY <1>2, <3>1, SeatFacts, EffectFacts
  <2> QED BY <2>1, <2>2
<1>4. \A i \in DOMAIN todo' : IsStore(todo'[i], s) => Own(p, todo'[i].val.suit)
  <2>1. CASE Spared(s) \/ Wrecked(s) \/ Denied(s)
        BY <2>1, EffectFacts DEF Unwritten
  <2>2. CASE Vacated(s)
    <3>1. client[s].active => owner[client[s].suit] = p
          BY <1>2, StepFacts DEF SectorStep, CalmInv, ClientInv, Seats
    <3> QED BY <2>2, <3>1 DEF Vacated, Own
  <2>3. CASE Answered(s)
    <3>1. PICK q \in Pilots, w \in Writes :
             slot[q] = s /\ todo' = <<w>> /\ Own(q, w.val.suit)
          BY <2>3 DEF Answered
    <3>2. q = p
          BY <1>2, <3>1, StepFacts
    <3>3. DOMAIN todo' = {1} /\ todo'[1] = w
      <4> HIDE DEF Writes
      <4> QED BY <3>1
    <3> QED BY <3>1, <3>2, <3>3
  <2> QED BY <2>1, <2>2, <2>3 DEF SectorStep, Effect
<1> QED BY <1>2, <1>3, <1>4, StepFacts

-----------------------------------------------------------------------------
(* A seated suit's pilot is aboard. *)
LEMMA Aboards ==
    ASSUME SectorStep, NEW s \in Slots, client[s].active
    PROVE  /\ \E p \in Pilots : slot[p] = s /\ Aboard(p) /\ owner[client[s].suit] = p
           /\ status[s].state = "Active"
           /\ ~Rung(s, {"Home"})
           /\ life[client[s].suit] # "wreck" => ~client[s].lost /\ ~Rung(s, Losses)
<1>1. PICK p \in Pilots : Seats(p, s)
      BY DEF SectorStep, CalmInv, ClientInv
<1>2. Aboard(p)
  <2>1. CASE suit[p] # NoSuit
        BY <2>1 DEF Aboard
  <2>2. CASE pc[p] = "seating"
        BY <1>1, <2>2 DEF SectorStep, CalmInv, SeatInv, Aboard, Seat, Seats
  <2> QED BY <1>1, <2>1, <2>2 DEF Seats
<1>3. status[s].state = "Active"
      BY StepFacts DEF Shows
<1>4. ~Rung(s, {"Home"})
      BY StepFacts DEF SectorStep, CalmInv, FlightInv
<1>5. life[client[s].suit] # "wreck" => ~client[s].lost /\ ~Rung(s, Losses)
      BY StepFacts DEF SectorStep, CalmInv, FlightInv, ClientInv
<1> QED BY <1>1, <1>2, <1>3, <1>4, <1>5 DEF Seats

(* What the sector has to tell slot s's session, and whom it is about. *)
LEMMA ToldFacts ==
    ASSUME SectorStep, NEW s \in Slots
    PROVE  /\ Owed(s, Says)' => \E p \in Pilots : slot[p] = s /\ Aboard(p)
           /\ Owed(s, {"DockRefused"})' => In(s, "docking") /\ ~Rung(s, Answers) /\ ~Owed(s, Losses)'
           /\ Owed(s, {"Home"})' => /\ In(s, "docking") \/ In(s, "freeing")
                                    /\ ~client'[s].active /\ ~Rung(s, Answers)
                                    /\ ~Rung(s, Losses) /\ ~Owed(s, Losses)'
                                    /\ \A p \in Pilots : slot[p] = s => ~lost[p]
           /\ Owed(s, {"Parked"})' => In(s, "freeing")
           /\ Owed(s, Losses)' => Wrecked(s)
           /\ \A i, j \in DOMAIN todo' : Tells(todo'[i], s, Says) /\ Tells(todo'[j], s, Says) => i = j
           /\ \A i \in DOMAIN todo', p \in Pilots :
                 Tells(todo'[i], s, Says) /\ slot[p] = s => todo'[i].val.of = p
           /\ \A j \in DOMAIN todo' :
                 /\ Tells(todo'[j], s, Says)
                 /\ status[s].state = "Free" \/ \E i \in DOMAIN todo' : i < j /\ IsStore(todo'[i], s)
                 => Tells(todo'[j], s, Answers) /\ In(s, "docking")
<1>1. CASE Spared(s) \/ Answered(s)
  <2>1. Silent(s)
        BY <1>1, EffectFacts
  <2>2. \A what : what \subseteq Says => ~Owed(s, what)'
        BY <2>1 DEF Silent, Owed, Tells
  <2>3. \A what \in {Says, {"DockRefused"}, {"Home"}, {"Parked"}, Losses} : what \subseteq Says
        BY DEF Says, Losses
  <2> QED BY <2>1, <2>2, <2>3 DEF Silent
<1>2. CASE Denied(s)
  <2>1. PICK p \in Pilots, w \in Writes :
           /\ slot[p] = s /\ pc[p] = "docking" /\ ~Rung(s, Answers)
           /\ todo' = <<w>> /\ Tells(w, s, {"DockRefused"}) /\ w.val.of = p
        BY <1>2 DEF Denied
  <2>2. DOMAIN todo' = {1} /\ todo'[1] = w
    <3> HIDE DEF Writes
    <3> QED BY <2>1
  <2>3. In(s, "docking")
        BY <2>1 DEF In
  <2>4. Aboard(p)
        BY <2>1 DEF Aboard, SectorStep, CalmInv, PhaseInv
  <2>5. ~Owed(s, {"Home"})' /\ ~Owed(s, {"Parked"})' /\ ~Owed(s, Losses)'
        BY <2>1, <2>2 DEF Owed, Tells, Losses
  <2>6. \A q \in Pilots : slot[q] = s => q = p
        BY <2>1, StepFacts
  <2>7. Tells(w, s, Answers)
        BY <2>1 DEF Tells, Answers
  <2> QED BY <2>1, <2>2, <2>3, <2>4, <2>5, <2>6, <2>7
<1>3. CASE Wrecked(s)
  <2>1. client[s].active
        BY <1>3 DEF Wrecked
  <2>2. PICK p \in Pilots : slot[p] = s /\ Aboard(p) /\ owner[client[s].suit] = p
        BY <2>1, Aboards
  <2>3. \A q \in Pilots : slot[q] = s => q = p
        BY <2>2, StepFacts
  <2>4. status[s].state = "Active"
        BY <2>1, Aboards
  <2>5. \A i \in DOMAIN todo' : ~IsStore(todo'[i], s)
        BY <1>3 DEF Wrecked, Unwritten
  <2>6. \A i \in DOMAIN todo' : Tells(todo'[i], s, Says) => Tells(todo'[i], s, Losses) /\ todo'[i].val.of = p
        BY <1>3, <2>2 DEF Wrecked
  <2>7. ~Owed(s, {"DockRefused"})' /\ ~Owed(s, {"Home"})' /\ ~Owed(s, {"Parked"})'
        BY <2>6 DEF Owed, Tells, Losses, Says
  <2> QED BY <1>3, <2>2, <2>3, <2>4, <2>5, <2>6, <2>7 DEF Wrecked
<1>4. CASE Vacated(s)
  <2>1. \A i \in DOMAIN todo' : Tells(todo'[i], s, Says) => Farewell(s, i)
        BY <1>4 DEF Vacated
  <2>2. \A i, j \in DOMAIN todo' : Tells(todo'[i], s, Says) /\ Tells(todo'[j], s, Says) => i = j
        BY <1>4 DEF Vacated
  <2>3. ~client'[s].active
        BY <1>4 DEF Vacated
  <2>4. \A i \in DOMAIN todo' : Tells(todo'[i], s, Says) =>
           /\ client[s].active /\ todo'[i].val.of = owner[client[s].suit]
           /\ todo'[i].val.what \in {"Home", "Parked"}
        BY <2>1 DEF Farewell
  <2>5. ~Owed(s, {"DockRefused"})' /\ ~Owed(s, Losses)'
        BY <2>4 DEF Owed, Tells, Losses, Says
  <2>6. client[s].active => \E p \in Pilots : slot[p] = s /\ Aboard(p) /\ owner[client[s].suit] = p
        BY Aboards
  <2>7. \A p, q \in Pilots : slot[p] = s /\ slot[q] = s => p = q
        BY StepFacts
  <2>8. Owed(s, Says)' => client[s].active
        BY <2>4 DEF Owed
  <2>9. ASSUME Owed(s, {"Home"})'
        PROVE  /\ In(s, "docking") \/ In(s, "freeing")
               /\ ~Rung(s, Answers) /\ ~Rung(s, Losses)
               /\ \A p \in Pilots : slot[p] = s => ~lost[p]
    <3>1. PICK i \in DOMAIN todo' : Tells(todo'[i], s, {"Home"})
          BY <2>9 DEF Owed
    <3>2. Tells(todo'[i], s, Says) /\ todo'[i].val.what = "Home"
          BY <3>1 DEF Tells, Says
    <3>3. /\ client[s].active /\ life[client[s].suit] # "wreck"
          /\ In(s, "freeing") \/ (In(s, "docking") /\ ~Rung(s, Answers))
          BY <2>1, <3>2 DEF Farewell
    <3>4. ~Rung(s, {"Home"}) /\ ~Rung(s, Losses) /\ ~client[s].lost
          BY <3>3, Aboards
    <3>7. \A p \in Pilots : slot[p] = s => ~lost[p]
          BY <3>3, <3>4 DEF SectorStep, CalmInv, FlightInv
    <3>5. ASSUME In(s, "freeing") PROVE ~Rung(s, {"DockRefused"})
      <4>1. ~In(s, "docking")
            BY <3>5, <2>7 DEF In
      <4> QED BY <4>1, StepFacts DEF SectorStep, CalmInv, FlightInv
    <3>6. Rung(s, Answers) => Rung(s, {"Home"}) \/ Rung(s, {"DockRefused"})
          BY DEF Rung, Answers
    <3> QED BY <3>3, <3>4, <3>5, <3>6, <3>7
  <2>10. Owed(s, {"Parked"})' => In(s, "freeing")
    <3> SUFFICES ASSUME NEW i \in DOMAIN todo', Tells(todo'[i], s, {"Parked"}) PROVE In(s, "freeing")
        BY DEF Owed
    <3>1. Tells(todo'[i], s, Says) /\ todo'[i].val.what = "Parked"
          BY DEF Tells, Says
    <3> QED BY <2>1, <3>1 DEF Farewell
  <2>11. ASSUME NEW j \in DOMAIN todo', Tells(todo'[j], s, Says),
                status[s].state = "Free" \/ \E i \in DOMAIN todo' : i < j /\ IsStore(todo'[i], s)
         PROVE  Tells(todo'[j], s, Answers) /\ In(s, "docking")
    <3>1. Farewell(s, j) /\ client[s].active
          BY <2>1, <2>4, <2>11
    <3>2. status[s].state # "Free"
          BY <3>1, Aboards
    <3>3. \E i \in DOMAIN todo' : i < j /\ IsStore(todo'[i], s)
          BY <2>11, <3>2
    <3>4. todo'[j].val.what = "Home" /\ In(s, "docking")
          BY <3>1, <3>3 DEF Farewell
    <3> QED BY <2>11, <3>4 DEF Tells, Answers
  <2> QED BY <2>2, <2>3, <2>4, <2>5, <2>6, <2>7, <2>8, <2>9, <2>10, <2>11
<1> QED BY <1>1, <1>2, <1>3, <1>4 DEF SectorStep, Effect

-----------------------------------------------------------------------------
LEMMA FlyingAfter ==
    ASSUME SectorStep, NEW s \in Slots, NEW what
    PROVE  Flying(s, what)' <=> Owed(s, what)' \/ Rung(s, what)
BY StepFacts DEF Flying

LEMMA StepFlight == SectorStep => FlightInv'
<1> SUFFICES ASSUME SectorStep PROVE FlightInv'
    OBVIOUS
<1> SUFFICES ASSUME NEW s \in Slots
             PROVE  /\ Flying(s, Says)' => \E p \in Pilots : slot[p] = s /\ Aboard(p)'
                    /\ Flying(s, {"DockRefused"})' => In(s, "docking")
                    /\ Flying(s, {"Home"})' => /\ In(s, "docking") \/ In(s, "freeing")
                                               /\ ~client'[s].active /\ ~Flying(s, Losses)'
                                               /\ \A p \in Pilots : slot[p] = s => ~lost[p]
                    /\ Flying(s, {"Parked"})' => In(s, "freeing")
                    /\ Flying(s, Losses)' => /\ client'[s].active => client'[s].lost
                                             /\ \A p \in Pilots : slot[p] = s =>
                                                   ~lost[p] /\ (Seat(p)' => client'[s].active)
                    /\ \A p \in Pilots : slot[p] = s /\ lost[p] /\ client'[s].active => client'[s].lost
    BY StepFacts DEF FlightInv
<1>1. /\ Rung(s, Says) => \E p \in Pilots : slot[p] = s /\ Aboard(p)
      /\ Rung(s, {"DockRefused"}) => In(s, "docking")
      /\ Rung(s, {"Home"}) => /\ In(s, "docking") \/ In(s, "freeing")
                              /\ ~client[s].active /\ ~Rung(s, Losses)
                              /\ \A p \in Pilots : slot[p] = s => ~lost[p]
      /\ Rung(s, {"Parked"}) => In(s, "freeing")
      /\ Rung(s, Losses) => /\ client[s].active => client[s].lost
                            /\ \A p \in Pilots : slot[p] = s => ~lost[p] /\ (Seat(p) => client[s].active)
      /\ \A p \in Pilots : slot[p] = s /\ lost[p] /\ client[s].active => client[s].lost
      BY StepFacts DEF SectorStep, CalmInv, FlightInv
<1>2. \A p \in Pilots : Aboard(p) => Aboard(p)'
      BY SeatFacts
<1>3. Effect(s)
      BY DEF SectorStep
<1>4. Answered(s) => ~Rung(s, Says) /\ \A p \in Pilots : slot[p] = s => ~lost[p]
  <2> SUFFICES ASSUME Answered(s) PROVE ~Rung(s, Says) /\ \A p \in Pilots : slot[p] = s => ~lost[p]
      OBVIOUS
  <2>1. PICK q \in Pilots : slot[q] = s /\ pc[q] = "seating" /\ Joining(s)
        BY DEF Answered
  <2>2. \A p \in Pilots : slot[p] = s => p = q
        BY <2>1, StepFacts
  <2>3. ~Aboard(q) /\ ~lost[q]
        BY <2>1 DEF SectorStep, CalmInv, PhaseInv, Aboard, Seat
  <2> QED BY <1>1, <2>2, <2>3
<1>5. \A what \in {{"DockRefused"}, {"Home"}, {"Parked"}, Losses} : Rung(s, what) => Rung(s, Says)
      BY DEF Rung, Says, Losses
<1>6. /\ Rung(s, {"DockRefused"}) => Rung(s, Says)
      /\ Rung(s, {"Home"}) => Rung(s, Says) /\ Rung(s, Answers)
      /\ Rung(s, {"Parked"}) => Rung(s, Says)
      /\ Rung(s, Losses) => Rung(s, Says)
      BY <1>5 DEF Rung, Answers
(* A slot let go or never given is nobody's; a slot still had is as it was. *)
<1>7. client'[s].active => \/ Answered(s)
                           \/ client[s].active /\ (client[s].lost => client'[s].lost)
      BY <1>3 DEF Effect, Spared, Vacated, Wrecked, Denied, Same
<1>8. Rung(s, {"Home"}) => ~client'[s].active
      BY <1>1, <1>4, <1>6, <1>7
<1>9. Wrecked(s) => client[s].active /\ ~client[s].lost /\ client'[s].lost
      BY DEF Wrecked
<1>10. Wrecked(s) => ~Rung(s, {"Home"}) /\ \A p \in Pilots : slot[p] = s => ~lost[p]
       BY <1>1, <1>9
<1>a. Flying(s, Says)' => \E p \in Pilots : slot[p] = s /\ Aboard(p)'
      BY <1>1, <1>2, FlyingAfter, ToldFacts
<1>b. Flying(s, {"DockRefused"})' => In(s, "docking")
      BY <1>1, FlyingAfter, ToldFacts
<1>c. Flying(s, {"Home"})' => /\ In(s, "docking") \/ In(s, "freeing")
                              /\ ~client'[s].active /\ ~Flying(s, Losses)'
                              /\ \A p \in Pilots : slot[p] = s => ~lost[p]
  <2>1. Rung(s, {"Home"}) => ~Rung(s, Losses) /\ ~Owed(s, Losses)'
        BY <1>1, <1>10, ToldFacts
  <2>2. Owed(s, {"Home"})' => ~Rung(s, Losses) /\ ~Owed(s, Losses)' /\ ~client'[s].active
        BY ToldFacts
  <2>3. Flying(s, {"Home"})' => In(s, "docking") \/ In(s, "freeing")
        BY <1>1, FlyingAfter, ToldFacts
  <2>4. Flying(s, {"Home"})' => \A p \in Pilots : slot[p] = s => ~lost[p]
        BY <1>1, FlyingAfter, ToldFacts
  <2> QED BY <1>8, <2>1, <2>2, <2>3, <2>4, FlyingAfter
<1>d. Flying(s, {"Parked"})' => In(s, "freeing")
      BY <1>1, FlyingAfter, ToldFacts
<1>e. Flying(s, Losses)' => /\ client'[s].active => client'[s].lost
                            /\ \A p \in Pilots : slot[p] = s => ~lost[p] /\ (Seat(p)' => client'[s].active)
  <2>1. CASE Rung(s, Losses)
    <3>1. ASSUME NEW p \in Pilots, slot[p] = s, Seat(p)' PROVE client'[s].active
      <4>1. Seat(p) /\ ~Vacated(s)
            BY <1>4, <1>6, <2>1, <3>1, SeatFacts
      <4>2. client[s].active /\ ~Answered(s)
            BY <1>1, <1>4, <1>6, <2>1, <3>1, <4>1
      <4> QED BY <1>3, <4>1, <4>2 DEF Effect, Spared, Wrecked, Denied, Same
    <3> QED BY <1>1, <1>4, <1>6, <1>7, <2>1, <3>1
  <2>2. CASE Owed(s, Losses)'
    <3>1. client'[s].active
          BY <1>9, <2>2, ToldFacts DEF Wrecked, Same
    <3> QED BY <1>9, <1>10, <2>2, <3>1, ToldFacts
  <2> QED BY <2>1, <2>2, FlyingAfter
<1>f. \A p \in Pilots : slot[p] = s /\ lost[p] /\ client'[s].active => client'[s].lost
      BY <1>1, <1>4, <1>7
<1> QED BY <1>a, <1>b, <1>c, <1>d, <1>e, <1>f

LEMMA StepOf == SectorStep => OfInv'
<1> SUFFICES ASSUME SectorStep PROVE OfInv'
    OBVIOUS
<1> SUFFICES ASSUME NEW s \in Slots, NEW p \in Pilots, slot[p] = s
             PROVE  /\ \A i \in DOMAIN todo' : Tells(todo'[i], s, Says) => todo'[i].val.of = p
                    /\ \A i \in DOMAIN reports[s] : reports[s][i].what \in Says => reports[s][i].of = p
    BY StepFacts DEF OfInv
<1> QED BY ToldFacts DEF SectorStep, CalmInv, OfInv

LEMMA StepOnce == SectorStep => OnceInv'
<1> SUFFICES ASSUME SectorStep PROVE OnceInv'
    OBVIOUS
<1>1. ASSUME NEW what, what \subseteq Says, Once(what),
             \A s \in Slots : ~(Owed(s, what)' /\ Rung(s, what))
      PROVE  Once(what)'
  <2>1. reports' = reports
        BY StepFacts
  <2>2. \A s \in Slots : \A i, j \in DOMAIN todo' :
           Tells(todo'[i], s, what) /\ Tells(todo'[j], s, what) => i = j
    <3>1. \A s \in Slots : \A i, j \in DOMAIN todo' :
             Tells(todo'[i], s, Says) /\ Tells(todo'[j], s, Says) => i = j
          BY ToldFacts
    <3>2. \A s \in Slots : \A w : Tells(w, s, what) => Tells(w, s, Says)
          BY <1>1 DEF Tells
    <3> QED BY <3>1, <3>2
  <2>3. \A s \in Slots : ~(Owed(s, what)' /\ Rung(s, what)')
        BY <1>1, StepFacts
  <2> QED BY <1>1, <2>1, <2>2, <2>3 DEF Once
<1>2. \A s \in Slots : ~(Owed(s, Losses)' /\ Rung(s, Losses))
  <2> SUFFICES ASSUME NEW s \in Slots, Owed(s, Losses)', Rung(s, Losses) PROVE FALSE
      OBVIOUS
  <2>1. client[s].active /\ ~client[s].lost
        BY ToldFacts DEF Wrecked
  <2> QED BY <2>1, StepFacts DEF SectorStep, CalmInv, FlightInv
<1>3. \A s \in Slots : ~(Owed(s, Answers)' /\ Rung(s, Answers))
  <2>1. \A s \in Slots : Owed(s, Answers)' => Owed(s, {"Home"})' \/ Owed(s, {"DockRefused"})'
        BY DEF Owed, Tells, Answers
  <2> QED BY <2>1, ToldFacts
<1>4. Losses \subseteq Says /\ Answers \subseteq Says
      BY DEF Losses, Answers, Says
<1> QED BY <1>1, <1>2, <1>3, <1>4 DEF SectorStep, CalmInv, OnceInv

LEMMA StepOrder == SectorStep => OrderInv'
<1> SUFFICES ASSUME SectorStep PROVE OrderInv'
    OBVIOUS
<1> SUFFICES ASSUME NEW s \in Slots, NEW j \in DOMAIN todo', Tells(todo'[j], s, Says),
                    status[s].state = "Free" \/ \E i \in DOMAIN todo' : i < j /\ IsStore(todo'[i], s)
             PROVE  Tells(todo'[j], s, Answers) /\ In(s, "docking")
    BY StepFacts DEF OrderInv
<1> QED BY ToldFacts

LEMMA StepClient == SectorStep => ClientInv' /\ LaunchInv' /\ PhaseInv'
<1> SUFFICES ASSUME SectorStep PROVE ClientInv' /\ LaunchInv' /\ PhaseInv'
    OBVIOUS
<1>1. ASSUME NEW s \in Slots, client'[s].active PROVE \E p \in Pilots : Seats(p, s)'
  <2>1. CASE Answered(s)
    <3>1. PICK p \in Pilots, w \in Writes :
             /\ slot[p] = s /\ pc[p] = "seating"
             /\ Shows(w.val, client'[s]) /\ Own(p, w.val.suit) /\ client'[s].suit # NoSuit
          BY <1>1, <2>1 DEF Answered
    <3>2. owner[client'[s].suit] = p
          BY <1>1, <3>1 DEF Shows, Own
    <3> QED BY <3>1, <3>2, StepFacts DEF Seats
  <2>2. CASE ~Answered(s)
    <3>1. Same(s)
          BY <1>1, <2>2 DEF SectorStep, Effect, Spared, Vacated, Wrecked, Denied
    <3>2. PICK p \in Pilots : Seats(p, s)
          BY <1>1, <3>1 DEF Same, SectorStep, CalmInv, ClientInv
    <3> QED BY <3>1, <3>2, StepFacts DEF Seats, Same
  <2> QED BY <2>1, <2>2
<1>2. ClientInv'
      BY <1>1 DEF ClientInv, SectorStep, SectorMoves
<1>3. LaunchInv'
      BY StepFacts DEF LaunchInv, SectorStep, SectorMoves, CalmInv
<1>4. PhaseInv'
      BY StepFacts DEF SectorStep, CalmInv, PhaseInv
<1> QED BY <1>2, <1>3, <1>4

LEMMA StepJoin == SectorStep => JoinInv'
<1> SUFFICES ASSUME SectorStep PROVE JoinInv'
    OBVIOUS
<1> PICK f : /\ \A i \in DOMAIN control' : f[i] \in DOMAIN control /\ control'[i] = control[f[i]]
             /\ \A i, j \in DOMAIN control' : (f[i] = f[j] => i = j) /\ (i < j => f[i] < f[j])
    BY ControlLeft DEF SectorStep, SectorMoves, TypeInv
<1> SUFFICES ASSUME NEW i \in DOMAIN control', control'[i].op = "Join"
             PROVE  /\ slot[control'[i].who] = control'[i].slot /\ pc[control'[i].who] = "seating"
                    /\ control'[i].launch # NoSuit =>
                          /\ life'[control'[i].launch] = "queued"
                          /\ owner[control'[i].launch] = control'[i].who
                    /\ control'[i].wake # NoSuit => owner[control'[i].wake] = control'[i].who
                    /\ \A j \in DOMAIN control' : i < j => control'[j].slot # control'[i].slot
    BY StepFacts DEF JoinInv
<1> DEFINE m == control'[i]
<1>1. f[i] \in DOMAIN control /\ m = control[f[i]]
      OBVIOUS
<1>2. /\ slot[m.who] = m.slot /\ pc[m.who] = "seating"
      /\ m.launch # NoSuit => life[m.launch] = "queued" /\ owner[m.launch] = m.who
      /\ m.wake # NoSuit => owner[m.wake] = m.who
      /\ \A j \in DOMAIN control : f[i] < j => control[j].slot # m.slot
      BY <1>1 DEF SectorStep, CalmInv, JoinInv
<1>3. \A j \in DOMAIN control' : i < j => control'[j].slot # m.slot
      BY <1>2
<1>4. m.launch \in SomeSuit
  <2>1. control \in Seq(Msgs)
        BY DEF SectorStep, TypeInv, QueueTypes
  <2>2. m \in Msgs
    <3> HIDE DEF Msgs, m
    <3> QED BY <1>1, <2>1
  <2> QED BY <2>2 DEF Msgs
<1>5. ASSUME m.launch # NoSuit PROVE life'[m.launch] = "queued"
  <2>1. m.launch \in Ids
        BY <1>4, <1>5 DEF SomeSuit
  <2>2. \A s : s = slot[m.who] => Asked(s)'
        BY <1>2 DEF Asked
  <2>3. SUFFICES ASSUME life'[m.launch] # "queued" PROVE FALSE
        OBVIOUS
  <2>4. PICK p \in Pilots : owner[m.launch] = p /\ ~Asked(slot[p])'
        BY <1>2, <1>5, <2>1, <2>3 DEF SectorStep, SectorMoves
  <2>5. p = m.who
        BY <1>2, <1>5, <2>4
  <2>6. slot' = slot
        BY StepFacts
  <2>7. \A s : s = slot[p] => ~Asked(s)'
        BY <2>4, <2>6
  <2> QED BY <2>2, <2>5, <2>7
<1> QED BY <1>2, <1>3, <1>5

LEMMA StepMsg == SectorStep => MsgInv'
<1> SUFFICES ASSUME SectorStep PROVE MsgInv'
    OBVIOUS
<1> PICK f : /\ \A i \in DOMAIN control' : f[i] \in DOMAIN control /\ control'[i] = control[f[i]]
             /\ \A i, j \in DOMAIN control' : (f[i] = f[j] => i = j) /\ (i < j => f[i] < f[j])
    BY ControlLeft DEF SectorStep, SectorMoves, TypeInv
<1>1. ASSUME NEW i \in DOMAIN control' PROVE control'[i].slot \in Slots
  <2>1. control \in Seq(Msgs)
        BY DEF SectorStep, TypeInv, QueueTypes
  <2>2. control'[i] \in Msgs
    <3> HIDE DEF Msgs
    <3> QED BY <2>1
  <2> QED BY <2>2 DEF Msgs
<1>2. ASSUME NEW i \in DOMAIN control', control'[i].op = "Sleep", NEW s \in Slots, s = control'[i].slot
      PROVE  ~client'[s].active \/ In(s, "freeing")
  <2>1. ~client[s].active \/ In(s, "freeing")
        BY <1>2 DEF SectorStep, CalmInv, MsgInv
  <2>2. ~Answered(s)
    <3>1. Asked(s)'
          BY <1>2 DEF Asked
    <3> QED BY <3>1 DEF Answered
  <2> QED BY <2>1, <2>2 DEF SectorStep, Effect, Spared, Vacated, Wrecked, Denied, Same
<1>3. ASSUME NEW i \in DOMAIN control', control'[i].op = "Dock", NEW s \in Slots, s = control'[i].slot
      PROVE  /\ slot[control'[i].who] = s /\ pc[control'[i].who] = "docking"
             /\ ~Flying(s, Answers)'
             /\ \A j \in DOMAIN control' : control'[j].op = "Dock" /\ control'[j].slot = s => i = j
  <2>1. /\ slot[control'[i].who] = s /\ pc[control'[i].who] = "docking" /\ ~Flying(s, Answers)
        /\ \A j \in DOMAIN control : control[j].op = "Dock" /\ control[j].slot = s => f[i] = j
        BY <1>3 DEF SectorStep, CalmInv, MsgInv
  <2>2. \A j \in DOMAIN control' : control'[j].op = "Dock" /\ control'[j].slot = s => i = j
        BY <2>1
  <2>3. ~Rung(s, Answers)
        BY <2>1, StepFacts
  <2>4. control'[i].who \in Pilots
    <3>1. control \in Seq(Msgs)
          BY DEF SectorStep, TypeInv, QueueTypes
    <3>2. control'[i] \in Msgs
      <4> HIDE DEF Msgs
      <4> QED BY <1>3, <3>1
    <3> QED BY <3>2 DEF Msgs
  <2>5. In(s, "docking") /\ ~In(s, "freeing")
        BY <2>1, <2>4, StepFacts DEF In
  <2>6. ~Owed(s, Answers)'
    <3>1. ~Denied(s)
          BY <1>3 DEF Denied
    <3>2. CASE Spared(s) \/ Answered(s)
      <4>1. ~Owed(s, Says)'
            BY <3>2, EffectFacts
      <4> QED BY <4>1 DEF Owed, Tells, Says, Answers
    <3>3. CASE Wrecked(s)
          BY <3>3 DEF Wrecked, Owed, Tells, Says, Answers, Losses
    <3>4. CASE Vacated(s)
      <4>1. \A k \in DOMAIN todo' : Tells(todo'[k], s, Says) => Farewell(s, k)
            BY <3>4 DEF Vacated
      <4>2. \A k \in DOMAIN todo' : ~Farewell(s, k)
            BY <1>3, <2>5 DEF Farewell
      <4> QED BY <4>1, <4>2 DEF Owed, Tells, Says, Answers
    <3> QED BY <3>1, <3>2, <3>3, <3>4 DEF SectorStep, Effect
  <2> QED BY <2>1, <2>2, <2>3, <2>6, FlyingAfter
<1>4. slot' = slot /\ pc' = pc /\ \A s \in Slots : \A phase : In(s, phase)' <=> In(s, phase)
      BY StepFacts
<1>5. \A i \in DOMAIN control', s \in Slots : s = control'[i].slot =>
          /\ control'[i].op = "Sleep" => ~client'[s].active \/ In(s, "freeing")'
          /\ control'[i].op = "Dock" =>
                /\ slot'[control'[i].who] = s /\ pc'[control'[i].who] = "docking"
                /\ ~Flying(s, Answers)'
                /\ \A j \in DOMAIN control' : control'[j].op = "Dock" /\ control'[j].slot = s => i = j
      BY <1>2, <1>3, <1>4
<1> QED BY <1>1, <1>5 DEF MsgInv

(* A step that does to every slot one of those things keeps all that holds. *)
LEMMA SectorCalm == SectorStep /\ ClaimInv' => CalmInv'
BY StepStatus, StepSeat, StepOwn, StepFlight, StepOf, StepOnce, StepOrder, StepClient, StepJoin, StepMsg
   DEF CalmInv

-----------------------------------------------------------------------------
(* A status published whole. *)
LEMMA PublishedWhole ==
    ASSUME ~Torn, NEW s \in Slots, NEW state \in States, NEW id \in SomeSuit, NEW outcome \in Outcomes
    PROVE  \E w \in Writes :
              /\ Publish(s, state, id, outcome) = <<w>> /\ IsStore(w, s) /\ w.val \in Whole
              /\ w.val = [suit |-> id, outcome |-> outcome, state |-> state]
              /\ w.bump = IF state = "Free" THEN 0 ELSE 1
<1> DEFINE v == [suit |-> id, outcome |-> outcome, state |-> state]
           b == IF state = "Free" THEN 0 ELSE 1
<1>1. Publish(s, state, id, outcome) = <<Store(s, v, b)>>
      BY DEF Publish
<1>2. v \in Whole /\ v \in Values /\ b \in {0, 1}
      BY DEF Whole, Values
<1>3. Store(s, v, b) \in Writes
      BY <1>2, WritesAre
<1>4. IsStore(Store(s, v, b), s) /\ Store(s, v, b).val = v /\ Store(s, v, b).bump = b
      BY DEF Store, IsStore
<1> HIDE DEF v, b
<1>5. \E w \in Writes : /\ Publish(s, state, id, outcome) = <<w>> /\ IsStore(w, s) /\ w.val \in Whole
                        /\ w.val = v /\ w.bump = b
      BY <1>1, <1>2, <1>3, <1>4
<1> QED BY <1>5 DEF v, b

(* Two suits seated are two. *)
LEMMA SuitsDiffer ==
    ASSUME TypeInv, CalmInv, NEW s \in Slots, NEW t \in Slots, s # t, client[s].active, client[t].active
    PROVE  client[s].suit # client[t].suit
<1>1. PICK p \in Pilots : Seats(p, s)
      BY DEF CalmInv, ClientInv
<1>2. PICK q \in Pilots : Seats(q, t)
      BY DEF CalmInv, ClientInv
<1> QED BY <1>1, <1>2 DEF Seats

(* What taking the first message leaves asked. *)
LEMMA Taken ==
    ASSUME TypeInv, NEW op, Takes(op), control' = Tail(control)
    PROVE  /\ Head(control) = control[1] /\ 1 \in DOMAIN control /\ control[1] \in Msgs
           /\ control[1].op = op /\ control # <<>> /\ todo = <<>>
           /\ \A i \in DOMAIN control : i = 1 \/ (i - 1 \in DOMAIN control' /\ control'[i - 1] = control[i])
           /\ \A i \in DOMAIN control' : /\ i + 1 \in DOMAIN control /\ control'[i] = control[i + 1]
                                         /\ 1 < i + 1 /\ i + 1 # 1
           /\ op # "Join" => \A s \in Slots : Joining(s) => Joining(s)'
           /\ \A s \in Slots : s # control[1].slot /\ Joining(s) => Joining(s)'
           /\ Asked(control[1].slot)
<1>1. control \in Seq(Msgs) /\ control # <<>> /\ todo = <<>> /\ Head(control).op = op
      BY DEF TypeInv, QueueTypes, Takes
<1> HIDE DEF Msgs
<1>2. /\ Head(control) \in Msgs /\ Head(control) = control[1] /\ 1 \in DOMAIN control
      /\ Len(control) \in Nat
      /\ DOMAIN Tail(control) = 1..(Len(control) - 1)
      /\ \A i \in DOMAIN Tail(control) : Tail(control)[i] = control[i + 1] /\ i + 1 \in DOMAIN control
      /\ \A i \in DOMAIN control :
            i = 1 \/ (i - 1 \in DOMAIN Tail(control) /\ Tail(control)[i - 1] = control[i])
      BY <1>1, TailIs
<1>3. \A i \in DOMAIN Tail(control) : 1 < i + 1 /\ i + 1 # 1
      BY <1>2
<1>4. \A s \in Slots : (op # "Join" \/ s # control[1].slot) /\ Joining(s) => Joining(s)'
      BY <1>1, <1>2 DEF Joining
<1>5. Asked(control[1].slot)
      BY <1>2 DEF Asked
<1> QED BY <1>1, <1>2, <1>3, <1>4, <1>5

(* What nobody ejecting means for what the sector hears and has to write. *)
LEMMA ClaimKept ==
    ASSUME TypeInv, CalmInv,
           control' = control \/ (control # <<>> /\ control' = Tail(control)), reports' = reports,
           ~Ejects => /\ \A s \in Slots : claim'[s] = NoPilot
                      /\ \A i \in DOMAIN todo' : todo'[i].kind = "report" => todo'[i].val.what \in Says
    PROVE  ClaimInv'
<1>1. PICK f : \A i \in DOMAIN control' : f[i] \in DOMAIN control /\ control'[i] = control[f[i]]
      BY ControlLeft DEF TypeInv
<1> QED BY <1>1 DEF CalmInv, ClaimInv

(* What a message handled leaves of what was told, and of the pilots. *)
Noteless == \A i \in DOMAIN todo' : todo'[i].kind # "note"
Handled == UNCHANGED <<status, reports, owner, launched, sleeper, pc, slot, suit, lost, seen>>

LEMMA JoinStep ==
    ASSUME TypeInv, CalmInv, Calm, HandleJoin
    PROVE  /\ SectorStep /\ ClaimInv'
           /\ Answered(control[1].slot) /\ \A t \in Slots : t # control[1].slot => Spared(t)
<1>1. /\ control' = Tail(control) /\ Takes("Join") /\ claim' = claim /\ Handled
      BY Zenon DEF HandleJoin, record, session, Handled
<1>2. /\ Head(control) = control[1] /\ 1 \in DOMAIN control /\ control[1] \in Msgs
      /\ control[1].op = "Join" /\ control # <<>> /\ todo = <<>>
      /\ \A i \in DOMAIN control' : i + 1 \in DOMAIN control /\ control'[i] = control[i + 1] /\ 1 < i + 1
      /\ \A t \in Slots : t # control[1].slot /\ Joining(t) => Joining(t)'
      BY <1>1, Taken
<1> PICK m \in Msgs : m = control[1]
    BY <1>2
<1> PICK s \in Slots : s = m.slot
    BY DEF Msgs
<1> PICK p \in Pilots : p = m.who
    BY DEF Msgs
<1>3. m.wake \in SomeSuit /\ m.launch \in SomeSuit
      BY DEF Msgs
<1>4. /\ slot[p] = s /\ pc[p] = "seating"
      /\ m.launch # NoSuit => life[m.launch] = "queued" /\ owner[m.launch] = p
      /\ m.wake # NoSuit => owner[m.wake] = p
      /\ \A j \in DOMAIN control : 1 < j => control[j].slot # s
      BY <1>2 DEF CalmInv, JoinInv
<1>5. Joining(s) /\ ~client[s].active
  <2>1. Joining(s)
        BY <1>2 DEF Joining
  <2>2. \A q \in Pilots : q = p => (pc[q] = "seating" /\ Joining(slot[q]) => ~client[slot[q]].active)
        BY DEF CalmInv, SeatInv
  <2> QED BY <1>4, <2>1, <2>2
<1>6. ~Asked(s)'
  <2>1. \A i \in DOMAIN control' : control'[i].slot # s
        BY <1>2, <1>4
  <2> QED BY <2>1 DEF Asked
<1> DEFINE Posted == \E w \in Writes :
                        /\ todo' = <<w>> /\ IsStore(w, s) /\ w.val \in Whole /\ w.bump = 1
                        /\ w.val.state # "Free" /\ Shows(w.val, client'[s]) /\ Own(p, w.val.suit)
           Seen == client'[s].active =>
                      /\ client'[s].suit # NoSuit /\ ~client'[s].lost
                      /\ life'[client'[s].suit] \in {"cradle", "flying"}
           Rest == \A t \in Slots : t # s => client'[t] = client[t]
           Live == \A id \in Ids :
                      /\ life[id] = "unborn" => life'[id] = "unborn"
                      /\ life[id] = "queued" /\ life'[id] # "queued" => id = m.launch
                      /\ life[id] \in {"cradle", "flying", "wreck"} => life'[id] = life[id]
<1>7. ~Torn /\ life \in [Ids -> Lives] /\ client \in [Slots -> Clients]
      BY DEF Calm, TypeInv, SectorTypes
<1>8. ASSUME NEW id \in Ids, NEW outcome \in Outcomes, client' = Seated(s, id), owner[id] = p,
             todo' = Publish(s, "Active", id, outcome)
      PROVE  /\ Posted /\ Rest /\ client'[s].suit = id /\ ~client'[s].lost /\ client'[s].suit # NoSuit
  <2>1. /\ client'[s].suit = id /\ ~client'[s].lost /\ client'[s].active /\ id # NoSuit
        /\ Rest
        BY <1>7, <1>8, NoSuitIs DEF Seated
  <2>2. PICK w \in Writes :
              /\ Publish(s, "Active", id, outcome) = <<w>> /\ IsStore(w, s) /\ w.val \in Whole
              /\ w.val = [suit |-> id, outcome |-> outcome, state |-> "Active"] /\ w.bump = 1
        BY <1>7, PublishedWhole DEF States, SomeSuit
  <2>3. Posted
        BY <1>8, <2>1, <2>2 DEF Shows, Own
  <2> QED BY <2>1, <2>3
<1>9. ASSUME client' = client, todo' = Publish(s, "Refused", NoSuit, "Fresh")
      PROVE  Posted /\ Seen /\ Rest
  <2>1. PICK w \in Writes :
              /\ Publish(s, "Refused", NoSuit, "Fresh") = <<w>> /\ IsStore(w, s) /\ w.val \in Whole
              /\ w.val = [suit |-> NoSuit, outcome |-> "Fresh", state |-> "Refused"] /\ w.bump = 1
    <3>1. NoSuit \in SomeSuit /\ "Refused" \in States /\ "Fresh" \in Outcomes
          BY DEF States, SomeSuit, Outcomes
    <3> QED BY <1>7, <3>1, PublishedWhole
  <2> QED BY <1>5, <1>9, <2>1 DEF Shows, Own
<1>10. Posted /\ Seen /\ Rest /\ Live
  <2> DEFINE left == life
  <2>1. CASE m.wake # NoSuit /\ life[m.wake] = "asleep"
    <3>1. /\ life' = [life EXCEPT ![m.wake] = "flying"] /\ client' = Seated(s, m.wake)
          /\ todo' = Publish(s, "Active", m.wake, "Woke")
          BY <1>2, <1>5, <2>1 DEF HandleJoin
    <3>2. m.wake \in Ids
          BY <1>3, <2>1 DEF SomeSuit
    <3>3. Live /\ life'[m.wake] = "flying"
          BY <1>7, <2>1, <3>1, <3>2
    <3>4. Posted /\ Rest /\ client'[s].suit = m.wake /\ ~client'[s].lost /\ client'[s].suit # NoSuit
          BY <1>4, <1>8, <2>1, <3>1, <3>2 DEF Outcomes
    <3> QED BY <3>3, <3>4
  <2>2. CASE ~(m.wake # NoSuit /\ life[m.wake] = "asleep") /\ m.launch # NoSuit
    <3>1. \E room \in MadeRoom(life, Cardinality(Held(life)) >= SimCap) :
             \/ /\ life' = [room EXCEPT ![m.launch] = "cradle"] /\ client' = Seated(s, m.launch)
                /\ todo' = Publish(s, "Active", m.launch, "Fresh")
             \/ /\ life' = [room EXCEPT ![m.launch] = "unlaunched"] /\ client' = client
                /\ todo' = Publish(s, "Refused", NoSuit, "Fresh")
          BY <1>2, <1>5, <2>2 DEF HandleJoin
    <3>2. PICK room \in MadeRoom(life, Cardinality(Held(life)) >= SimCap) :
             \/ /\ life' = [room EXCEPT ![m.launch] = "cradle"] /\ client' = Seated(s, m.launch)
                /\ todo' = Publish(s, "Active", m.launch, "Fresh")
             \/ /\ life' = [room EXCEPT ![m.launch] = "unlaunched"] /\ client' = client
                /\ todo' = Publish(s, "Refused", NoSuit, "Fresh")
          BY <3>1
    <3>3. /\ room \in [Ids -> Lives]
          /\ \A id \in Ids : room[id] = life[id] \/ (room[id] = "evicted" /\ life[id] = "asleep")
          BY <1>7, RoomType
    <3>4. m.launch \in Ids /\ life[m.launch] = "queued" /\ owner[m.launch] = p
          BY <1>3, <1>4, <2>2 DEF SomeSuit
    <3>5. Live
          BY <3>2, <3>3, <3>4
    <3>6. CASE client' = client /\ todo' = Publish(s, "Refused", NoSuit, "Fresh")
          BY <1>9, <3>5, <3>6
    <3>7. CASE /\ life' = [room EXCEPT ![m.launch] = "cradle"] /\ client' = Seated(s, m.launch)
               /\ todo' = Publish(s, "Active", m.launch, "Fresh")
      <4>1. life'[m.launch] = "cradle"
            BY <3>3, <3>4, <3>7
      <4>2. Posted /\ Rest /\ client'[s].suit = m.launch /\ ~client'[s].lost /\ client'[s].suit # NoSuit
            BY <1>8, <3>4, <3>7 DEF Outcomes
      <4> QED BY <3>5, <4>1, <4>2
    <3> QED BY <3>2, <3>6, <3>7
  <2>3. CASE ~(m.wake # NoSuit /\ life[m.wake] = "asleep") /\ ~(m.launch # NoSuit)
    <3>1. life' = life /\ client' = client /\ todo' = Publish(s, "Refused", NoSuit, "Fresh")
          BY <1>2, <1>5, <2>3 DEF HandleJoin
    <3> QED BY <1>9, <3>1
  <2> QED BY <2>1, <2>2, <2>3
<1>11. PICK w \in Writes :
          /\ todo' = <<w>> /\ IsStore(w, s) /\ w.val \in Whole /\ w.bump = 1
          /\ w.val.state # "Free" /\ Shows(w.val, client'[s]) /\ Own(p, w.val.suit)
       BY <1>10
<1> HIDE DEF Posted
<1>12. DOMAIN todo' = {1} /\ todo'[1] = w
  <2> HIDE DEF Writes
  <2> QED BY <1>11
<1>13. Answered(s)
       BY <1>4, <1>5, <1>6, <1>10, <1>11 DEF Answered
<1>14. \A t \in Slots : t # s => Spared(t)
       BY <1>10, <1>11, <1>12 DEF Spared, Same, Silent, Unwritten, IsStore, Tells
<1>15. SectorMoves
  <2>1. \A t \in Slots : Joining(t) /\ ~Joining(t)' => Answered(t)
        BY <1>2, <1>13
  <2>2. \A id \in Ids : life[id] = "queued" /\ life'[id] # "queued" =>
            \E q \in Pilots : owner[id] = q /\ pc[q] = "seating" /\ ~Asked(slot[q])'
    <3> SUFFICES ASSUME NEW id \in Ids, life[id] = "queued", life'[id] # "queued"
                 PROVE  \E q \in Pilots : owner[id] = q /\ pc[q] = "seating" /\ ~Asked(slot[q])'
        OBVIOUS
    <3>1. id = m.launch /\ id # NoSuit
          BY <1>10, NoSuitIs
    <3>2. slot'[p] = s
          BY <1>1, <1>4 DEF Handled
    <3>3. \A t : t = s => ~Asked(t)'
          BY <1>6
    <3> QED BY <1>4, <3>1, <3>2, <3>3
  <2>3. ASSUME NEW t \in Slots, client'[t].active
        PROVE  /\ life'[client'[t].suit] \in {"cradle", "flying", "wreck"}
               /\ client'[t].lost => life'[client'[t].suit] = "wreck"
    <3>1. CASE t = s
          BY <1>10, <2>3, <3>1
    <3>2. CASE t # s
      <4>1. client'[t] = client[t]
            BY <1>10, <3>2
      <4>2. /\ life[client[t].suit] \in {"cradle", "flying", "wreck"}
            /\ client[t].lost => life[client[t].suit] = "wreck"
            BY <2>3, <4>1 DEF CalmInv, ClientInv
      <4>3. client[t].suit \in Ids
            BY <2>3, <4>1 DEF TypeInv, SectorTypes
      <4> QED BY <1>10, <4>1, <4>2, <4>3
    <3> QED BY <3>1, <3>2
  <2>4. \A id \in Ids : life[id] = "unborn" => life'[id] = "unborn"
        BY <1>10
  <2> QED BY <1>1, <1>2, <2>1, <2>2, <2>3, <2>4 DEF SectorMoves, Handled
<1>16. ClaimInv'
  <2>1. ~Ejects => \A t \in Slots : claim'[t] = NoPilot
        BY <1>1 DEF CalmInv, ClaimInv
  <2>2. \A i \in DOMAIN todo' : todo'[i].kind # "report"
        BY <1>11, <1>12 DEF IsStore
  <2> QED BY <1>1, <1>2, <2>1, <2>2, ClaimKept DEF Handled
<1> QED BY <1>13, <1>14, <1>15, <1>16 DEF SectorStep, Effect

-----------------------------------------------------------------------------
(* A tow's report is all there is to it. *)
LEMMA TowIs ==
    ASSUME SectorTypes, NEW s \in Slots
    PROVE  \/ TowWrites(s) = <<>>
           \/ \E w \in Writes : /\ TowWrites(s) = <<w>> /\ claim[s] # NoPilot
                                /\ w.kind = "report" /\ w.slot = s /\ w.val.what = "Towed"
<1>1. claim[s] \in Anyone
      BY DEF SectorTypes
<1>2. Tell(s, "Towed", claim[s]) \in Writes
      BY <1>1, WritesAre
<1> QED BY <1>2 DEF TowWrites, Tell

(* Two sequences no longer than one each, and one more. *)
Trio(q, a, b, w) ==
    \E n \in Nat :
        /\ n \in DOMAIN q /\ q[n] = w /\ DOMAIN q = 1..n
        /\ b # <<>> => n - 1 \in DOMAIN q /\ q[n - 1] = b[1]
        /\ \A i \in DOMAIN q : \/ a # <<>> /\ q[i] = a[1]
                               \/ b # <<>> /\ q[i] = b[1] /\ i = n - 1
                               \/ i = n

LEMMA TrioIs ==
    ASSUME NEW S, NEW a \in Seq(S), NEW b \in Seq(S), NEW w \in S, Len(a) <= 1, Len(b) <= 1
    PROVE  Trio(a \o (b \o <<w>>), a, b, w)
<1> DEFINE r == b \o <<w>>
           q == a \o r
           n == Len(a) + Len(b) + 1
<1>1. <<w>> \in Seq(S) /\ Len(<<w>>) = 1 /\ <<w>>[1] = w
      OBVIOUS
<1>2. /\ r \in Seq(S) /\ Len(r) = Len(b) + 1 /\ Len(b) \in Nat /\ DOMAIN b = 1..Len(b)
      /\ \A i \in 1..Len(b) : r[i] = b[i]
      /\ \A i \in 1..1 : r[Len(b) + i] = <<w>>[i]
      BY <1>1, CatIs
<1>3. /\ Len(a) \in Nat /\ DOMAIN a = 1..Len(a) /\ DOMAIN q = 1..(Len(a) + Len(r))
      /\ \A i \in 1..Len(a) : q[i] = a[i]
      /\ \A i \in 1..Len(r) : q[Len(a) + i] = r[i]
      BY <1>2, CatIs
<1>4. (a = <<>> \/ Len(a) = 1) /\ (b = <<>> \/ Len(b) = 1)
      BY ShortIs
<1>5. (Len(a) = 1 => a # <<>>) /\ (Len(b) = 1 => b # <<>>) /\ (a = <<>> => Len(a) = 0) /\ (b = <<>> => Len(b) = 0)
      OBVIOUS
<1> DEFINE k == Len(a)
           l == Len(b)
<1>6. /\ k \in {0, 1} /\ l \in {0, 1} /\ (k = 1 <=> a # <<>>) /\ (l = 1 <=> b # <<>>)
      BY <1>4, <1>5
<1>7. /\ n = k + l + 1 /\ DOMAIN q = 1..(k + (l + 1))
      /\ \A i \in 1..k : q[i] = a[i]
      /\ \A i \in 1..(l + 1) : q[k + i] = r[i]
      /\ \A i \in 1..l : r[i] = b[i]
      /\ r[l + 1] = w
      BY <1>1, <1>2, <1>3
<1> HIDE DEF q, r, k, l, n
<1>8. n \in Nat /\ DOMAIN q = 1..n /\ n \in DOMAIN q /\ q[n] = w
  <2>1. n = k + (l + 1) /\ l + 1 \in 1..(l + 1)
        BY <1>6, <1>7
  <2> QED BY <1>6, <1>7, <2>1
<1>9. ASSUME NEW i \in DOMAIN q
      PROVE  \/ a # <<>> /\ q[i] = a[1]
             \/ b # <<>> /\ q[i] = b[1] /\ i = n - 1
             \/ i = n
  <2>1. i \in 1..n /\ i \in Int
        BY <1>8
  <2>2. CASE k = 1 /\ i = 1
        BY <2>2, <1>6, <1>7
  <2>3. CASE i = n
        BY <2>3
  <2>4. CASE l = 1 /\ i = k + 1
    <3>1. 1 \in 1..(l + 1) /\ 1 \in 1..l /\ i = n - 1
          BY <2>4, <1>6, <1>7
    <3> QED BY <2>4, <3>1, <1>6, <1>7
  <2> QED BY <2>1, <2>2, <2>3, <2>4, <1>6, <1>7
<1>10. b # <<>> => n - 1 \in DOMAIN q /\ q[n - 1] = b[1]
  <2> SUFFICES ASSUME b # <<>> PROVE n - 1 \in DOMAIN q /\ q[n - 1] = b[1]
      OBVIOUS
  <2>1. l = 1 /\ n - 1 = k + 1 /\ k + 1 \in 1..n
        BY <1>6, <1>7
  <2>2. 1 \in 1..(l + 1) /\ 1 \in 1..l
        BY <2>1
  <2> QED BY <1>7, <1>8, <2>1, <2>2
<1>11. Trio(q, a, b, w)
       BY <1>8, <1>9, <1>10 DEF Trio
<1> QED BY <1>11 DEF q, r

(* Handling a message that tells a slot's session nothing. *)
LEMMA TowsOnly ==
    ASSUME TypeInv, NEW s \in Slots, todo' \in {<<>>, TowWrites(s)}
    PROVE  /\ Noteless /\ \A t \in Slots : Silent(t) /\ Unwritten(t)
           /\ claim[s] = NoPilot => \A i \in DOMAIN todo' : todo'[i].kind # "report"
<1>1. CASE todo' = <<>>
  <2>1. DOMAIN todo' = {}
        BY <1>1
  <2> QED BY <2>1 DEF Silent, Unwritten, Noteless
<1>2. CASE todo' # <<>>
  <2>1. PICK w \in Writes : /\ todo' = <<w>> /\ claim[s] # NoPilot
                            /\ w.kind = "report" /\ w.slot = s /\ w.val.what = "Towed"
        BY <1>2, TowIs DEF TypeInv
  <2>2. DOMAIN todo' = {1} /\ todo'[1] = w
    <3> HIDE DEF Writes
    <3> QED BY <2>1
  <2> QED BY <2>1, <2>2 DEF Silent, Unwritten, Noteless, Tells, IsStore, Says
<1> QED BY <1>1, <1>2

LEMMA TowStep ==
    ASSUME TypeInv, CalmInv, Calm, HandleTow
    PROVE  SectorStep /\ ClaimInv' /\ Noteless /\ \A t \in Slots : Spared(t)
<1>1. /\ control' = Tail(control) /\ Takes("Tow") /\ client' = client /\ life' = life /\ Handled
      BY Zenon DEF HandleTow, record, session, sim, Handled
<1>2. /\ control[1] \in Msgs /\ Head(control) = control[1] /\ control # <<>> /\ todo = <<>>
      /\ \A t \in Slots : Joining(t) => Joining(t)'
      BY <1>1, Taken
<1> PICK s \in Slots : s = control[1].slot
    BY <1>2 DEF Msgs
<1>3. todo' = TowWrites(s) /\ claim' = [claim EXCEPT ![s] = NoPilot]
      BY <1>2 DEF HandleTow
<1>4. Noteless /\ \A t \in Slots : Silent(t) /\ Unwritten(t)
      BY <1>3, TowsOnly
<1>5. \A t \in Slots : Spared(t)
      BY <1>1, <1>4 DEF Spared, Same
<1>6. SectorMoves
      BY <1>1, <1>2 DEF SectorMoves, Handled, CalmInv, ClientInv
<1>7. ClaimInv'
  <2>1. claim \in [Slots -> Anyone]
        BY DEF TypeInv, SectorTypes
  <2>2. ~Ejects => \A t \in Slots : claim'[t] = NoPilot
        BY <1>3, <2>1 DEF CalmInv, ClaimInv
  <2>3. ~Ejects => \A i \in DOMAIN todo' : todo'[i].kind # "report"
        BY <1>3, TowsOnly DEF CalmInv, ClaimInv
  <2> QED BY <1>1, <1>2, <2>2, <2>3, ClaimKept DEF Handled
<1> QED BY <1>4, <1>5, <1>6, <1>7 DEF SectorStep, Effect

LEMMA EjectStep ==
    ASSUME TypeInv, CalmInv, Calm, HandleEject
    PROVE  SectorStep /\ ClaimInv' /\ Noteless /\ \A t \in Slots : Spared(t)
<1>1. /\ control' = Tail(control) /\ Takes("Eject") /\ Handled
      BY Zenon DEF HandleEject, record, session, Handled
<1>2. /\ control[1] \in Msgs /\ Head(control) = control[1] /\ control # <<>> /\ todo = <<>>
      /\ control[1].op = "Eject" /\ 1 \in DOMAIN control
      /\ \A t \in Slots : Joining(t) => Joining(t)'
      BY <1>1, Taken
<1> PICK s \in Slots : s = control[1].slot
    BY <1>2 DEF Msgs
<1>3. /\ client \in [Slots -> Clients] /\ life \in [Ids -> Lives]
      /\ \A t \in Slots : client[t].active => client[t].suit \in Ids
      BY DEF TypeInv, SectorTypes
<1>4. \/ life' = life /\ client' = client /\ todo' = todo
      \/ /\ client[s].active /\ life' = [life EXCEPT ![client[s].suit] = "wreck"]
         /\ Flyable(client[s].suit)
         /\ client' = [client EXCEPT ![s].loss = "Ejected"] \/ client' = [client EXCEPT ![s].loss = "Blown"]
         /\ todo' = todo \/ todo' = TowWrites(s)
      BY <1>2 DEF HandleEject
<1>5. \A t \in Slots : client'[t].active = client[t].active /\ client'[t].suit = client[t].suit
                       /\ client'[t].lost = client[t].lost
      BY <1>3, <1>4 DEF Clients
<1>6. Noteless /\ \A t \in Slots : Silent(t) /\ Unwritten(t)
      BY <1>2, <1>4, TowsOnly
<1>7. \A t \in Slots : Spared(t)
      BY <1>5, <1>6 DEF Spared, Same
<1>8. \A id \in Ids : life'[id] = life[id] \/ (client[s].active /\ id = client[s].suit /\ life'[id] = "wreck"
                                                /\ life[id] \in {"cradle", "flying"})
      BY <1>3, <1>4 DEF Flyable
<1>9. SectorMoves
  <2>1. ASSUME NEW t \in Slots, client[t].active
        PROVE  /\ life'[client[t].suit] \in {"cradle", "flying", "wreck"}
               /\ client[t].lost => life'[client[t].suit] = "wreck"
        BY <1>3, <1>8, <2>1 DEF CalmInv, ClientInv
  <2> QED BY <1>1, <1>2, <1>5, <1>8, <2>1 DEF SectorMoves, Handled
<1>10. ClaimInv'
  <2>1. Ejects
        BY <1>2 DEF CalmInv, ClaimInv
  <2> QED BY <2>1 DEF ClaimInv
<1> QED BY <1>6, <1>7, <1>9, <1>10 DEF SectorStep, Effect

-----------------------------------------------------------------------------
(* Two writes, one after the other. *)
LEMMA PairIs ==
    ASSUME NEW S, NEW x \in S, NEW y \in S
    PROVE  /\ DOMAIN (<<x>> \o <<y>>) = {1, 2}
           /\ (<<x>> \o <<y>>)[1] = x /\ (<<x>> \o <<y>>)[2] = y
<1>0. <<x>> \in Seq(S) /\ <<y>> \in Seq(S)
      OBVIOUS
<1> PICK a \in Seq(S) : a = <<x>>
    BY <1>0
<1> PICK b \in Seq(S) : b = <<y>>
    BY <1>0
<1>1. Len(a) = 1 /\ a[1] = x /\ Len(b) = 1 /\ b[1] = y
      OBVIOUS
<1>2. /\ DOMAIN (a \o b) = 1..(Len(a) + Len(b))
      /\ \A i \in 1..Len(a) : (a \o b)[i] = a[i]
      /\ \A i \in 1..Len(b) : (a \o b)[Len(a) + i] = b[i]
      BY CatIs
<1>3. 1 \in 1..1 /\ 1 + 1 = 2 /\ 1..2 = {1, 2}
      OBVIOUS
<1>4. DOMAIN (a \o b) = {1, 2} /\ (a \o b)[1] = x /\ (a \o b)[2] = y
      BY <1>1, <1>2, <1>3
<1> QED BY <1>4

(* What becomes of the suits when slot s is let go: its own may go anywhere. *)
OthersLive(s) ==
    \A id \in Ids :
        \/ life'[id] = life[id]
        \/ life[id] = "asleep" /\ life'[id] = "evicted"
        \/ client[s].active /\ id = client[s].suit /\ life[id] \in {"cradle", "flying", "wreck"}

(* What becomes of its own suit, as the slot's session is told. *)
Ended(s) ==
    \/ /\ IF client[s].active THEN life[client[s].suit] = "wreck" /\ life'[client[s].suit] = "destroyed"
          ELSE Takes("Sleep") /\ control[1].slot = s
       /\ \A i \in DOMAIN todo' : /\ IsStore(todo'[i], s) => todo'[i].val.outcome \in {"Released", "Lost"}
                                 /\ ~Tells(todo'[i], s, {"Home"})
    \/ /\ client[s].active /\ life'[client[s].suit] = "docked"
       /\ \A i \in DOMAIN todo' : IsStore(todo'[i], s) => todo'[i].val.outcome = "Docked"
       /\ \E i \in DOMAIN todo' : Tells(todo'[i], s, {"Home"})
    \/ /\ client[s].active /\ life[client[s].suit] = "flying" /\ life'[client[s].suit] = "asleep"
       /\ \A i \in DOMAIN todo' : /\ IsStore(todo'[i], s) => /\ todo'[i].val.outcome = "Asleep"
                                                            /\ todo'[i].val.suit = client[s].suit
                                 /\ ~Tells(todo'[i], s, {"Home"})
       /\ Takes("Sleep") /\ control[1].slot = s /\ control' = Tail(control)

LEMMA LetGo ==
    ASSUME TypeInv, CalmInv, NEW s \in Slots, Handled, control # <<>>, control' = Tail(control), todo = <<>>,
           client' = [client EXCEPT ![s].active = FALSE], OthersLive(s),
           \A t \in Slots : Joining(t) => Joining(t)',
           Vacated(s), \A t \in Slots : t # s => Silent(t) /\ Unwritten(t)
    PROVE  SectorStep /\ \A t \in Slots : t # s => Spared(t)
<1>1. /\ client \in [Slots -> Clients]
      /\ \A t \in Slots : client[t].active => client[t].suit \in Ids
      BY DEF TypeInv, SectorTypes
<1>2. \A t \in Slots : client'[t].lost = client[t].lost /\ client'[t].suit = client[t].suit
                       /\ (t # s => client'[t] = client[t])
      BY <1>1 DEF Clients
<1>3. ~client'[s].active
      BY DEF Vacated
<1>4. \A t \in Slots : t # s => Spared(t)
      BY <1>2 DEF Spared, Same
<1>5. SectorMoves
  <2>1. ASSUME NEW t \in Slots, client'[t].active
        PROVE  /\ life'[client'[t].suit] \in {"cradle", "flying", "wreck"}
               /\ client'[t].lost => life'[client'[t].suit] = "wreck"
    <3>1. t # s /\ client'[t] = client[t] /\ client[t].suit \in Ids
          BY <1>1, <1>2, <1>3, <2>1
    <3>2. /\ life[client[t].suit] \in {"cradle", "flying", "wreck"}
          /\ client[t].lost => life[client[t].suit] = "wreck"
          BY <2>1, <3>1 DEF CalmInv, ClientInv
    <3>3. client[s].active => client[t].suit # client[s].suit
          BY <2>1, <3>1, SuitsDiffer
    <3> QED BY <3>1, <3>2, <3>3 DEF OthersLive
  <2>2. \A id \in Ids : /\ life[id] = "unborn" => life'[id] = "unborn"
                        /\ life[id] = "queued" => life'[id] = "queued"
        BY DEF OthersLive
  <2> QED BY <2>1, <2>2 DEF SectorMoves, Handled
<1> QED BY <1>4, <1>5 DEF SectorStep, Effect

(* Handling a Sleep: the slot is let go, and what its session must hear comes first. *)
LEMMA SleepStep ==
    ASSUME TypeInv, CalmInv, Calm, HandleSleep
    PROVE  /\ SectorStep /\ ClaimInv'
           /\ Vacated(control[1].slot) /\ Ended(control[1].slot) /\ OthersLive(control[1].slot) /\ Noteless
           /\ \A t \in Slots : t # control[1].slot => Spared(t)
<1>1. /\ control' = Tail(control) /\ Takes("Sleep") /\ Handled
      BY Zenon DEF HandleSleep, record, session, Handled
<1>2. /\ control[1] \in Msgs /\ Head(control) = control[1] /\ control # <<>> /\ todo = <<>>
      /\ control[1].op = "Sleep" /\ 1 \in DOMAIN control
      /\ \A t \in Slots : Joining(t) => Joining(t)'
      /\ Asked(control[1].slot)
      BY <1>1, Taken
<1> PICK s \in Slots : s = control[1].slot
    BY <1>2 DEF Msgs
<1> PICK id \in SomeSuit : id = client[s].suit
    BY DEF TypeInv, SectorTypes, Clients
<1> PICK p \in Anyone : client[s].active => p = owner[id]
  <2>1. client[s].active => id \in Ids
        BY DEF TypeInv, SectorTypes
  <2>2. client[s].active => owner[id] \in Anyone
        BY <2>1 DEF TypeInv, SectorTypes
  <2> QED BY <2>2 DEF Anyone
<1>3. /\ life \in [Ids -> Lives] /\ claim \in [Slots -> Anyone] /\ ~Torn
      /\ client[s].active => id \in Ids /\ life[id] \in {"cradle", "flying", "wreck"} /\ In(s, "freeing")
      BY <1>2 DEF TypeInv, SectorTypes, Calm, CalmInv, ClientInv, MsgInv
<1>4. /\ client' = [client EXCEPT ![s].active = FALSE]
      /\ claim' = [claim EXCEPT ![s] = NoPilot]
      BY <1>2, Zenon DEF HandleSleep
<1> DEFINE Bye(said, i, outcome) == todo' = TowWrites(s) \o (said \o Publish(s, "Free", i, outcome))
           Fit(said, i, outcome) ==
              /\ Bye(said, i, outcome) /\ i \in SomeSuit /\ outcome \in Outcomes
              /\ said \in {<<>>, <<Tell(s, "Home", p)>>, <<Tell(s, "Parked", p)>>}
              /\ i = NoSuit \/ (client[s].active /\ i = id)
              /\ said # <<>> => client[s].active
              /\ said = <<Tell(s, "Home", p)>> => life[id] # "wreck"
              /\ \/ /\ outcome = "Released" /\ said = <<>>
                    /\ client[s].active => life[id] = "wreck" /\ life'[id] = "destroyed"
                 \/ /\ outcome = "Docked" /\ said = <<Tell(s, "Home", p)>>
                    /\ client[s].active /\ life'[id] = "docked"
                 \/ /\ outcome = "Asleep" /\ i = id /\ said # <<Tell(s, "Home", p)>>
                    /\ client[s].active /\ life[id] = "flying" /\ life'[id] = "asleep"
<1>5. /\ OthersLive(s)
      /\ \E said, i, outcome : Fit(said, i, outcome)
  <2>1. NoSuit \in SomeSuit /\ {"Released", "Docked", "Asleep"} \subseteq Outcomes
        BY DEF SomeSuit, Outcomes
  <2>2. <<>> \o Publish(s, "Free", NoSuit, "Released") = Publish(s, "Free", NoSuit, "Released")
    <3>1. Publish(s, "Free", NoSuit, "Released") \in Seq(Writes)
          BY <2>1, PublishIs DEF States
    <3> HIDE DEF Writes
    <3> QED BY <3>1
  <2>3. CASE ~client[s].active
    <3>1. life' = life /\ todo' = Freed(s, TowWrites(s), NoSuit, "Released")
          BY <1>2, <2>3, Zenon DEF HandleSleep
    <3>2. Bye(<<>>, NoSuit, "Released")
          BY <2>2, <3>1 DEF Freed
    <3>3. <<>> # <<Tell(s, "Home", p)>>
          OBVIOUS
    <3>5. OthersLive(s)
          BY <3>1 DEF OthersLive
    <3>6. Fit(<<>>, NoSuit, "Released")
          BY <2>1, <2>3, <3>2, <3>3
    <3> HIDE DEF Fit
    <3> QED BY <3>5, <3>6
  <2>4. CASE client[s].active /\ life[id] = "cradle"
    <3>1. /\ life' = [life EXCEPT ![id] = "docked"]
          /\ todo' = TowWrites(s) \o Freed(s, <<Tell(s, "Home", owner[id])>>, NoSuit, "Docked")
          BY <1>2, <2>4, Zenon DEF HandleSleep
    <3>2. Bye(<<Tell(s, "Home", p)>>, NoSuit, "Docked")
          BY <2>4, <3>1 DEF Freed
    <3>3. OthersLive(s)
          BY <1>3, <2>4, <3>1 DEF OthersLive
    <3>4. life'[id] = "docked"
          BY <1>3, <2>4, <3>1
    <3>6. Fit(<<Tell(s, "Home", p)>>, NoSuit, "Docked")
          BY <2>1, <2>4, <3>2, <3>4
    <3> HIDE DEF Fit
    <3> QED BY <3>3, <3>6
  <2>5. CASE client[s].active /\ life[id] = "flying"
    <3>1. \E room \in MadeRoom(life, Cardinality({i \in Ids : life[i] = "asleep"}) >= MaxSleepers),
             hides \in BOOLEAN :
             /\ life' = [room EXCEPT ![id] = "asleep"]
             /\ todo' = TowWrites(s) \o Freed(s, IF hides THEN <<Tell(s, "Parked", owner[id])>> ELSE <<>>,
                                              id, "Asleep")
          BY <1>2, <2>5, Zenon DEF HandleSleep
    <3>2. PICK room \in MadeRoom(life, Cardinality({i \in Ids : life[i] = "asleep"}) >= MaxSleepers),
             hides \in BOOLEAN :
             /\ life' = [room EXCEPT ![id] = "asleep"]
             /\ todo' = TowWrites(s) \o Freed(s, IF hides THEN <<Tell(s, "Parked", owner[id])>> ELSE <<>>,
                                              id, "Asleep")
          BY <3>1, Zenon
    <3>3. OthersLive(s) /\ life'[id] = "asleep"
      <4>1. /\ room \in [Ids -> Lives]
            /\ \A i \in Ids : room[i] = life[i] \/ (room[i] = "evicted" /\ life[i] = "asleep")
            BY <1>3, RoomType
      <4>2. id \in Ids /\ life'[id] = "asleep" /\ \A i \in Ids : i # id => life'[i] = room[i]
            BY <1>3, <2>5, <3>2, <4>1
      <4> QED BY <1>3, <2>5, <4>1, <4>2 DEF OthersLive
    <3>4. Bye(IF hides THEN <<Tell(s, "Parked", p)>> ELSE <<>>, id, "Asleep")
          BY <2>5, <3>2, Zenon DEF Freed
    <3>5. (IF hides THEN <<Tell(s, "Parked", p)>> ELSE <<>>) # <<Tell(s, "Home", p)>>
          BY DEF Tell
    <3>6. Fit(IF hides THEN <<Tell(s, "Parked", p)>> ELSE <<>>, id, "Asleep")
          BY <2>1, <2>5, <3>3, <3>4, <3>5
    <3> HIDE DEF Fit
    <3> QED BY <3>3, <3>6
  <2>6. CASE client[s].active /\ life[id] \notin {"cradle", "flying"}
    <3>1. life' = [life EXCEPT ![id] = Released(@)] /\ todo' = Freed(s, TowWrites(s), NoSuit, "Released")
          BY <1>2, <2>6, Zenon DEF HandleSleep
    <3>2. Bye(<<>>, NoSuit, "Released")
          BY <2>2, <3>1 DEF Freed
    <3>3. OthersLive(s)
          BY <1>3, <2>6, <3>1 DEF OthersLive
    <3>4. <<>> # <<Tell(s, "Home", p)>>
          OBVIOUS
    <3>5. life[id] = "wreck" /\ life'[id] = "destroyed"
          BY <1>3, <2>6, <3>1 DEF Released
    <3>6. Fit(<<>>, NoSuit, "Released")
          BY <2>1, <2>6, <3>2, <3>4, <3>5
    <3> HIDE DEF Fit
    <3> QED BY <3>3, <3>6
  <2> QED BY <2>3, <2>4, <2>5, <2>6
<1>6. PICK said, i, outcome : Fit(said, i, outcome)
      BY <1>5
<1>7. PICK w \in Writes :
         /\ Publish(s, "Free", i, outcome) = <<w>> /\ IsStore(w, s) /\ w.val \in Whole
         /\ w.val = [suit |-> i, outcome |-> outcome, state |-> "Free"] /\ w.bump = 0
  <2>1. i \in SomeSuit /\ outcome \in Outcomes /\ "Free" \in States
        BY <1>6 DEF States
  <2> QED BY <1>3, <2>1, PublishedWhole
<1>8. said \in Seq(Writes) /\ Len(said) <= 1 /\ (said # <<>> => said[1] \in {Tell(s, "Home", p), Tell(s, "Parked", p)})
  <2>1. Tell(s, "Home", p) \in Writes /\ Tell(s, "Parked", p) \in Writes
        BY WritesAre
  <2> HIDE DEF Writes, Bye
  <2>2. ASSUME NEW x \in Writes PROVE <<x>> \in Seq(Writes) /\ Len(<<x>>) <= 1 /\ <<x>>[1] = x
        OBVIOUS
  <2>3. <<>> \in Seq(Writes) /\ Len(<<>>) <= 1
        OBVIOUS
  <2> QED BY <1>6, <2>1, <2>2, <2>3
<1>9. Trio(todo', TowWrites(s), said, w)
  <2>1. TowWrites(s) \in Seq(Writes)
        BY TowType DEF TypeInv
  <2>2. Len(TowWrites(s)) <= 1
    <3>1. Len(<<>>) <= 1 /\ \A x \in Writes : Len(<<x>>) <= 1
      <4> HIDE DEF Writes
      <4> QED OBVIOUS
    <3> QED BY <3>1, TowIs DEF TypeInv
  <2> HIDE DEF Writes
  <2> QED BY <1>6, <1>7, <1>8, <2>1, <2>2, TrioIs
<1>10. PICK n \in Nat :
          /\ n \in DOMAIN todo' /\ todo'[n] = w /\ DOMAIN todo' = 1..n
          /\ said # <<>> => n - 1 \in DOMAIN todo' /\ todo'[n - 1] = said[1]
          /\ \A j \in DOMAIN todo' : \/ TowWrites(s) # <<>> /\ todo'[j] = TowWrites(s)[1]
                                     \/ said # <<>> /\ todo'[j] = said[1] /\ j = n - 1
                                     \/ j = n
       BY <1>9 DEF Trio
<1>11. TowWrites(s) # <<>> =>
          TowWrites(s)[1].kind = "report" /\ TowWrites(s)[1].slot = s /\ TowWrites(s)[1].val.what = "Towed"
          /\ claim[s] # NoPilot
       BY DEF TowWrites, Tell
<1>12. said # <<>> =>
          /\ said[1].kind = "report" /\ said[1].slot = s /\ said[1].val.of = p
          /\ said[1].val.what \in {"Home", "Parked"} /\ client[s].active
          /\ said[1].val.what = "Home" => life[id] # "wreck"
  <2> SUFFICES ASSUME said # <<>>
               PROVE  /\ said[1].kind = "report" /\ said[1].slot = s /\ said[1].val.of = p
                      /\ said[1].val.what \in {"Home", "Parked"} /\ client[s].active
                      /\ said[1].val.what = "Home" => life[id] # "wreck"
      OBVIOUS
  <2> DEFINE h == Tell(s, "Home", p)
             k == Tell(s, "Parked", p)
  <2>1. /\ h.kind = "report" /\ h.slot = s /\ h.val.of = p /\ h.val.what = "Home"
        /\ k.kind = "report" /\ k.slot = s /\ k.val.of = p /\ k.val.what = "Parked"
        BY DEF Tell
  <2>2. said = <<h>> \/ said = <<k>>
        BY <1>6
  <2> HIDE DEF h, k
  <2>3. <<h>>[1] = h /\ <<k>>[1] = k
        OBVIOUS
  <2>4. client[s].active /\ (said = <<h>> => life[id] # "wreck")
        BY <1>6 DEF h
  <2> QED BY <2>1, <2>2, <2>3, <2>4
<1> HIDE DEF Bye
(* Each write, in its place. *)
<1>13. \A j \in DOMAIN todo' :
          \/ /\ todo'[j].kind = "report" /\ todo'[j].slot = s /\ todo'[j].val.what = "Towed"
             /\ claim[s] # NoPilot
          \/ /\ j = n - 1 /\ todo'[j].kind = "report" /\ todo'[j].slot = s /\ todo'[j].val.of = p
             /\ todo'[j].val.what \in {"Home", "Parked"} /\ client[s].active
             /\ todo'[j].val.what = "Home" => life[id] # "wreck"
          \/ j = n /\ todo'[j] = w
       BY <1>10, <1>11, <1>12
<1>14. \A j \in DOMAIN todo' : IsStore(todo'[j], s) => j = n /\ todo'[j] = w
       BY <1>13 DEF IsStore
<1>15. \A j \in DOMAIN todo' : Tells(todo'[j], s, Says) =>
          /\ j = n - 1 /\ client[s].active /\ todo'[j].val.of = owner[id]
          /\ todo'[j].val.what \in {"Home", "Parked"}
          /\ todo'[j].val.what = "Home" => life[id] # "wreck"
       BY <1>7, <1>13 DEF Tells, Says, IsStore
<1>16. Vacated(s)
  <2>1. ~client'[s].active
        BY <1>4 DEF TypeInv, SectorTypes, Clients
  <2>2. \A q \in Pilots : slot[q] = s => ~Seat(q)
        BY <1>2 DEF CalmInv, SeatInv
  <2>3. \A j \in DOMAIN todo' : IsStore(todo'[j], s) =>
            /\ todo'[j].val \in Whole /\ todo'[j].val.state = "Free" /\ todo'[j].bump = 0
            /\ todo'[j].val.suit = NoSuit \/ (client[s].active /\ todo'[j].val.suit = client[s].suit)
        BY <1>6, <1>7, <1>14
  <2>4. ASSUME NEW j \in DOMAIN todo', Tells(todo'[j], s, Says) PROVE Farewell(s, j)
    <3>1. \A k \in DOMAIN todo' : k < j => ~IsStore(todo'[k], s)
      <4>1. j = n - 1
            BY <1>15, <2>4
      <4>2. \A k \in DOMAIN todo' : k < j => k # n
            BY <1>10, <4>1
      <4> QED BY <1>14, <4>2
    <3> QED BY <1>3, <1>15, <2>4, <3>1 DEF Farewell
  <2>5. \A j, k \in DOMAIN todo' : Tells(todo'[j], s, Says) /\ Tells(todo'[k], s, Says) => j = k
        BY <1>15
  <2>6. \E j \in DOMAIN todo' : IsStore(todo'[j], s)
        BY <1>7, <1>10
  <2> QED BY <1>2, <2>1, <2>2, <2>3, <2>4, <2>5, <2>6 DEF Vacated
<1>17. \A t \in Slots : t # s => Silent(t) /\ Unwritten(t)
       BY <1>7, <1>13 DEF Silent, Unwritten, IsStore, Tells
<1>18. ClaimInv'
  <2>1. ~Ejects => \A t \in Slots : claim'[t] = NoPilot
        BY <1>3, <1>4 DEF CalmInv, ClaimInv
  <2>2. ~Ejects => claim[s] = NoPilot
        BY DEF CalmInv, ClaimInv
  <2>3. ~Ejects => \A j \in DOMAIN todo' : todo'[j].kind = "report" => todo'[j].val.what \in Says
        BY <1>7, <1>13, <2>2 DEF IsStore, Says
  <2> QED BY <1>1, <1>2, <2>1, <2>3, ClaimKept DEF Handled
(* What is told of its suit. *)
<1>19. ASSUME outcome = "Asleep" PROVE Ended(s)
  <2>1. /\ i = id /\ said # <<Tell(s, "Home", p)>>
        /\ client[s].active /\ life[id] = "flying" /\ life'[id] = "asleep"
        BY <1>6, <1>19
  <2>2. \A j \in DOMAIN todo' : /\ IsStore(todo'[j], s) => /\ todo'[j].val.outcome = "Asleep"
                                                         /\ todo'[j].val.suit = client[s].suit
                              /\ ~Tells(todo'[j], s, {"Home"})
    <3>1. \A j \in DOMAIN todo' : ~Tells(todo'[j], s, {"Home"})
      <4>1. said # <<>> => said[1].val.what # "Home"
        <5>1. said \in {<<>>, <<Tell(s, "Parked", p)>>}
              BY <1>6, <2>1
        <5>2. Tell(s, "Parked", p).val.what # "Home"
              BY DEF Tell
        <5> QED BY <5>1, <5>2
      <4> QED BY <1>7, <1>10, <1>11, <4>1 DEF Tells, IsStore
    <3> QED BY <1>7, <1>14, <1>19, <2>1, <3>1
  <2> QED BY <1>1, <1>2, <2>1, <2>2 DEF Ended
<1>20. ASSUME outcome = "Docked" PROVE Ended(s)
  <2>1. said = <<Tell(s, "Home", p)>> /\ client[s].active /\ life'[id] = "docked"
        BY <1>6, <1>20
  <2>2. \A j \in DOMAIN todo' : IsStore(todo'[j], s) => todo'[j].val.outcome = "Docked"
        BY <1>7, <1>14, <1>20
  <2>3. \E j \in DOMAIN todo' : Tells(todo'[j], s, {"Home"})
    <3>1. said # <<>> /\ said[1] = Tell(s, "Home", p)
          BY <2>1
    <3>2. Tells(said[1], s, {"Home"})
          BY <3>1 DEF Tell, Tells
    <3>3. \E j \in DOMAIN todo' : todo'[j] = said[1]
          BY <1>10, <3>1
    <3> QED BY <3>2, <3>3
  <2> QED BY <2>1, <2>2, <2>3 DEF Ended
<1>21. ASSUME outcome \notin {"Asleep", "Docked"} PROVE Ended(s)
  <2>1. outcome = "Released" /\ said = <<>> /\ (client[s].active => life[id] = "wreck" /\ life'[id] = "destroyed")
        BY <1>6, <1>21
  <2>2. \A j \in DOMAIN todo' : /\ IsStore(todo'[j], s) => todo'[j].val.outcome \in {"Released", "Lost"}
                              /\ ~Tells(todo'[j], s, {"Home"})
        BY <1>7, <1>10, <1>11, <1>14, <2>1 DEF Tells, IsStore
  <2> QED BY <1>1, <1>2, <2>1, <2>2 DEF Ended
<1>22. SectorStep /\ \A t \in Slots : t # s => Spared(t)
       BY <1>1, <1>2, <1>4, <1>5, <1>16, <1>17, LetGo
<1>23. Noteless
       BY <1>7, <1>13 DEF IsStore, Noteless
<1> QED BY <1>5, <1>16, <1>18, <1>19, <1>20, <1>21, <1>22, <1>23

(* Handling a Dock: the slot is let go before the homecoming is told, or it is refused. *)
LEMMA DockStep ==
    ASSUME TypeInv, CalmInv, Calm, HandleDock
    PROVE  /\ SectorStep /\ ClaimInv' /\ OthersLive(control[1].slot) /\ Noteless
           /\ \A t \in Slots : t # control[1].slot => Spared(t)
           /\ \/ Vacated(control[1].slot) /\ Ended(control[1].slot)
              \/ Denied(control[1].slot) /\ life' = life
<1>1. /\ control' = Tail(control) /\ Takes("Dock") /\ claim' = claim /\ Handled
      BY Zenon DEF HandleDock, record, session, Handled
<1>2. /\ control[1] \in Msgs /\ Head(control) = control[1] /\ control # <<>> /\ todo = <<>>
      /\ control[1].op = "Dock" /\ 1 \in DOMAIN control
      /\ \A t \in Slots : Joining(t) => Joining(t)'
      /\ Asked(control[1].slot)
      /\ \A j \in DOMAIN control' : j + 1 \in DOMAIN control /\ control'[j] = control[j + 1] /\ j + 1 # 1
      BY <1>1, Taken
<1> PICK s \in Slots : s = control[1].slot
    BY <1>2 DEF Msgs
<1> PICK p \in Pilots : p = control[1].who
    BY <1>2 DEF Msgs
<1> PICK id \in SomeSuit : id = client[s].suit
    BY DEF TypeInv, SectorTypes, Clients
<1>3. /\ slot[p] = s /\ pc[p] = "docking" /\ ~Flying(s, Answers)
      /\ \A j \in DOMAIN control : control[j].op = "Dock" /\ control[j].slot = s => j = 1
      BY <1>2 DEF CalmInv, MsgInv
<1>4. /\ life \in [Ids -> Lives] /\ claim \in [Slots -> Anyone] /\ ~Torn /\ client \in [Slots -> Clients]
      /\ client[s].active => id \in Ids
      BY DEF TypeInv, SectorTypes, Calm
<1>5. \A j \in DOMAIN control' : ~(control'[j].op = "Dock" /\ control'[j].slot = s)
      BY <1>2, <1>3
<1>6. ~Rung(s, Answers) /\ In(s, "docking")
      BY <1>3 DEF Flying, In
<1>7. \/ /\ client[s].active /\ Flyable(id) /\ life' = [life EXCEPT ![id] = "docked"]
         /\ client' = [client EXCEPT ![s].active = FALSE]
         /\ todo' = Publish(s, "Free", NoSuit, "Docked") \o <<Tell(s, "Home", owner[id])>>
      \/ life' = life /\ client' = client /\ todo' = <<Tell(s, "DockRefused", p)>>
      BY <1>2 DEF HandleDock
<1>8. ASSUME \A j \in DOMAIN todo' : todo'[j].kind = "report" => todo'[j].val.what \in Says
      PROVE  ClaimInv'
  <2>1. ~Ejects => \A t \in Slots : claim'[t] = NoPilot
        BY <1>1 DEF CalmInv, ClaimInv
  <2> QED BY <1>1, <1>2, <1>8, <2>1, ClaimKept DEF Handled
<1>9. CASE /\ client[s].active /\ Flyable(id) /\ life' = [life EXCEPT ![id] = "docked"]
           /\ client' = [client EXCEPT ![s].active = FALSE]
           /\ todo' = Publish(s, "Free", NoSuit, "Docked") \o <<Tell(s, "Home", owner[id])>>
  <2>1. PICK w \in Writes :
           /\ Publish(s, "Free", NoSuit, "Docked") = <<w>> /\ IsStore(w, s) /\ w.val \in Whole
           /\ w.val = [suit |-> NoSuit, outcome |-> "Docked", state |-> "Free"] /\ w.bump = 0
    <3>1. NoSuit \in SomeSuit /\ "Docked" \in Outcomes /\ "Free" \in States
          BY DEF States, SomeSuit, Outcomes
    <3> QED BY <1>4, <3>1, PublishedWhole
  <2>2. id \in Ids /\ owner[id] \in Anyone
        BY <1>4, <1>9 DEF TypeInv, SectorTypes
  <2>3. Tell(s, "Home", owner[id]) \in Writes
        BY <2>2, WritesAre
  <2> PICK h \in Writes : h = Tell(s, "Home", owner[id])
      BY <2>3
  <2>4. h.kind = "report" /\ h.slot = s /\ h.val.what = "Home" /\ h.val.of = owner[id]
        BY DEF Tell
  <2>5. DOMAIN todo' = {1, 2} /\ todo'[1] = w /\ todo'[2] = h
    <3>1. todo' = <<w>> \o <<h>>
          BY <1>9, <2>1, Zenon
    <3> HIDE DEF Writes
    <3> QED BY <3>1, PairIs, SMTT(90)
  <2>6. Vacated(s)
    <3>1. ~client'[s].active
          BY <1>4, <1>9 DEF Clients
    <3>2. \A q \in Pilots : slot[q] = s => ~Seat(q)
          BY <1>2 DEF CalmInv, SeatInv
    <3>3. \A j \in DOMAIN todo' : IsStore(todo'[j], s) =>
              /\ todo'[j].val \in Whole /\ todo'[j].val.state = "Free" /\ todo'[j].bump = 0
              /\ todo'[j].val.suit = NoSuit
      <4>1. w.val.state = "Free" /\ w.val.suit = NoSuit /\ w.val \in Whole /\ w.bump = 0
            BY <2>1
      <4>2. ~IsStore(h, s)
            BY <2>4 DEF IsStore
      <4>3. \A j \in DOMAIN todo' : IsStore(todo'[j], s) => todo'[j] = w
            BY <2>5, <4>2
      <4> QED BY <4>1, <4>3, Zenon
    <3>4. \A j \in DOMAIN todo' : Tells(todo'[j], s, Says) => j = 2 /\ todo'[j] = h
          BY <2>1, <2>5 DEF IsStore, Tells
    <3>5. ASSUME NEW j \in DOMAIN todo', Tells(todo'[j], s, Says) PROVE Farewell(s, j)
          BY <1>5, <1>6, <1>9, <2>4, <3>4, <3>5, ZenonT(60) DEF Farewell, Flyable
    <3>6. \E j \in DOMAIN todo' : IsStore(todo'[j], s)
          BY <2>1, <2>5
    <3> QED BY <1>2, <3>1, <3>2, <3>3, <3>4, <3>5, <3>6 DEF Vacated
  <2>7. \A t \in Slots : t # s => Silent(t) /\ Unwritten(t)
        BY <2>1, <2>4, <2>5 DEF Silent, Unwritten, IsStore, Tells
  <2>8. ClaimInv'
    <3>1. \A j \in DOMAIN todo' : todo'[j].kind = "report" => todo'[j].val.what \in Says
          BY <2>1, <2>4, <2>5 DEF IsStore, Says
    <3> QED BY <1>8, <3>1
  <2>9. OthersLive(s)
        BY <1>4, <1>9, <2>2 DEF OthersLive, Flyable
  <2>10. Ended(s)
    <3>1. life'[id] = "docked"
          BY <1>4, <1>9, <2>2
    <3>2. \A j \in DOMAIN todo' : IsStore(todo'[j], s) => todo'[j].val.outcome = "Docked"
      <4>1. w.val = [suit |-> NoSuit, outcome |-> "Docked", state |-> "Free"]
            BY <2>1, Zenon
      <4>2. [suit |-> NoSuit, outcome |-> "Docked", state |-> "Free"].outcome = "Docked"
            OBVIOUS
      <4>3. h.kind # "store"
            BY <2>4
      <4>4. ~IsStore(h, s)
            BY <4>3, Zenon DEF IsStore
      <4>5. \A j \in DOMAIN todo' : IsStore(todo'[j], s) => todo'[j] = w
            BY <2>5, <4>4
      <4> QED BY <4>1, <4>2, <4>5, Zenon
    <3>3. Tells(todo'[2], s, {"Home"}) /\ 2 \in DOMAIN todo'
          BY <2>4, <2>5 DEF Tells
    <3>4. client[s].active /\ life'[client[s].suit] = "docked"
          BY <1>9, <3>1
    <3> QED BY <3>2, <3>3, <3>4, Zenon DEF Ended
  <2>11. SectorStep /\ \A t \in Slots : t # s => Spared(t)
         BY <1>1, <1>2, <1>9, <2>6, <2>7, <2>9, LetGo
  <2>12. Noteless
         BY <2>1, <2>4, <2>5 DEF Noteless, IsStore
  <2> QED BY <2>6, <2>8, <2>9, <2>10, <2>11, <2>12
<1>10. CASE life' = life /\ client' = client /\ todo' = <<Tell(s, "DockRefused", p)>>
  <2>1. Tell(s, "DockRefused", p) \in Writes
        BY WritesAre DEF Anyone
  <2> PICK w \in Writes : w = Tell(s, "DockRefused", p)
      BY <2>1
  <2>2. w.kind = "report" /\ w.slot = s /\ w.val.what = "DockRefused" /\ w.val.of = p
        BY DEF Tell
  <2>3. todo' = <<w>>
        BY <1>10
  <2>4. DOMAIN todo' = {1} /\ todo'[1] = w
    <3> HIDE DEF Writes
    <3> QED BY <2>3
  <2>5. Denied(s)
        BY <1>3, <1>5, <1>6, <1>10, <2>2, <2>3 DEF Denied, Same, Tells
  <2>6. \A t \in Slots : t # s => Spared(t)
        BY <1>10, <2>2, <2>4 DEF Spared, Same, Silent, Unwritten, IsStore, Tells
  <2>7. ClaimInv'
    <3>1. \A j \in DOMAIN todo' : todo'[j].kind = "report" => todo'[j].val.what \in Says
          BY <2>2, <2>4 DEF Says
    <3> QED BY <1>8, <3>1
  <2>8. SectorMoves
        BY <1>1, <1>2, <1>10 DEF SectorMoves, Handled, CalmInv, ClientInv
  <2>9. OthersLive(s)
        BY <1>10 DEF OthersLive
  <2>10. Noteless
         BY <2>2, <2>4 DEF Noteless
  <2> QED BY <1>10, <2>5, <2>6, <2>7, <2>8, <2>9, <2>10 DEF SectorStep, Effect
<1> QED BY <1>7, <1>9, <1>10, Zenon

-----------------------------------------------------------------------------
(* What is in three sequences one after another. *)
Parts(q, a, b, c) ==
    /\ \A i \in DOMAIN q : \/ i \in DOMAIN a /\ q[i] = a[i]
                           \/ /\ i - Len(a) \in DOMAIN b /\ q[i] = b[i - Len(a)]
                              /\ i = Len(a) + (i - Len(a))
                           \/ \E j \in DOMAIN c : q[i] = c[j]
    /\ \A k \in DOMAIN b : Len(a) + k \in DOMAIN q /\ q[Len(a) + k] = b[k]
    /\ \A k \in DOMAIN a : k \in DOMAIN q /\ q[k] = a[k]

LEMMA ThreeIs ==
    ASSUME NEW S, NEW a \in Seq(S), NEW b \in Seq(S), NEW c \in Seq(S), NEW q, q = a \o b \o c
    PROVE  Parts(q, a, b, c)
<1>0. a \o b \in Seq(S)
      BY CatIs
<1> PICK ab \in Seq(S) : ab = a \o b
    BY <1>0
<1>1. /\ ab \in Seq(S) /\ Len(ab) = Len(a) + Len(b) /\ Len(a) \in Nat /\ Len(b) \in Nat
      /\ DOMAIN a = 1..Len(a) /\ DOMAIN b = 1..Len(b)
      /\ \A i \in 1..Len(a) : ab[i] = a[i]
      /\ \A i \in 1..Len(b) : ab[Len(a) + i] = b[i]
      BY CatIs
<1>2. /\ DOMAIN (ab \o c) = 1..(Len(ab) + Len(c)) /\ Len(c) \in Nat /\ DOMAIN c = 1..Len(c)
      /\ \A i \in 1..Len(ab) : (ab \o c)[i] = ab[i]
      /\ \A i \in 1..Len(c) : (ab \o c)[Len(ab) + i] = c[i]
      BY CatIs
<1>3. q = ab \o c
      OBVIOUS
<1> DEFINE k == Len(a)
           l == Len(b)
           m == Len(c)
<1>4. /\ k \in Nat /\ l \in Nat /\ m \in Nat
      /\ DOMAIN a = 1..k /\ DOMAIN b = 1..l /\ DOMAIN c = 1..m /\ DOMAIN q = 1..(k + l + m)
      /\ \A i \in 1..k : q[i] = a[i]
      /\ \A i \in 1..l : q[k + i] = b[i]
      /\ \A i \in 1..m : q[k + l + i] = c[i]
  <2>1. \A i \in 1..(k + l) : q[i] = ab[i]
        BY <1>1, <1>2, <1>3
  <2>2. (\A i \in 1..k : i \in 1..(k + l)) /\ \A i \in 1..l : k + i \in 1..(k + l)
        BY <1>1
  <2>3. \A i \in 1..m : q[k + l + i] = c[i]
        BY <1>1, <1>2, <1>3
  <2>4. DOMAIN q = 1..(k + l + m)
        BY <1>1, <1>2, <1>3
  <2> QED BY <1>1, <1>2, <2>1, <2>2, <2>3, <2>4
<1> HIDE DEF k, l, m
<1>5. ASSUME NEW i \in DOMAIN q
      PROVE  \/ i \in DOMAIN a /\ q[i] = a[i]
             \/ i - k \in DOMAIN b /\ q[i] = b[i - k] /\ i = k + (i - k)
             \/ \E j \in DOMAIN c : q[i] = c[j]
  <2>1. i \in Int /\ 1 <= i /\ i <= k + l + m
        BY <1>4
  <2>2. CASE i <= k
        BY <1>4, <2>1, <2>2
  <2>3. CASE ~(i <= k) /\ i <= k + l
    <3>1. i - k \in 1..l /\ k + (i - k) = i
          BY <1>4, <2>1, <2>3
    <3> QED BY <1>4, <3>1
  <2>4. CASE ~(i <= k + l)
    <3>1. i - (k + l) \in 1..m /\ k + l + (i - (k + l)) = i
          BY <1>4, <2>1, <2>4
    <3> QED BY <1>4, <3>1, SMTT(30)
  <2> QED BY <2>2, <2>3, <2>4
<1>6. \A i \in DOMAIN b : k + i \in DOMAIN q /\ q[k + i] = b[i]
      BY <1>4
<1>7. \A i \in DOMAIN a : i \in DOMAIN q /\ q[i] = a[i]
      BY <1>4
<1> QED BY <1>5, <1>6, <1>7 DEF k, Parts

(* What the watch on losses has to write of a slot. *)
LEMMA LossIs ==
    ASSUME TypeInv, ~Torn, NEW s \in Slots, NEW lf
    PROVE  \/ /\ LossWrites(s, lf) = <<>>
              /\ client[s].active => client[s].suit \in Held(lf)
              /\ client[s].active /\ ~client[s].lost => lf[client[s].suit] # "wreck"
           \/ /\ client[s].active /\ client[s].suit \notin Held(lf)
              /\ \E w \in Writes : /\ LossWrites(s, lf) = <<w>> /\ IsStore(w, s) /\ w.val \in Whole
                                   /\ w.val.state = "Free" /\ w.val.suit = NoSuit /\ w.bump = 0
                                   /\ w.val.outcome = "Lost"
           \/ /\ client[s].active /\ client[s].suit \in Held(lf)
              /\ ~client[s].lost /\ lf[client[s].suit] = "wreck"
              /\ \E w \in Writes : /\ LossWrites(s, lf) = <<w>> /\ Tells(w, s, Losses)
                                   /\ w.val.of = owner[client[s].suit]
<1> DEFINE c == client[s]
           what == IF c.loss = "Ejected" THEN "LostEjected" ELSE "Lost"
<1>1. LossWrites(s, lf) = IF c.active /\ c.suit \notin Held(lf)
                          THEN Publish(s, "Free", NoSuit, "Lost")
                          ELSE IF c.active /\ ~c.lost /\ lf[c.suit] = "wreck"
                          THEN <<Tell(s, what, owner[c.suit])>> ELSE <<>>
      BY DEF LossWrites
<1>2. PICK w \in Writes :
         /\ Publish(s, "Free", NoSuit, "Lost") = <<w>> /\ IsStore(w, s) /\ w.val \in Whole
         /\ w.val = [suit |-> NoSuit, outcome |-> "Lost", state |-> "Free"] /\ w.bump = 0
  <2>1. NoSuit \in SomeSuit /\ "Lost" \in Outcomes /\ "Free" \in States
        BY DEF States, SomeSuit, Outcomes
  <2> QED BY <2>1, PublishedWhole
<1>3. c.active => Tell(s, what, owner[c.suit]) \in Writes
  <2>1. c.active => owner[c.suit] \in Anyone
        BY DEF TypeInv, SectorTypes
  <2> QED BY <2>1, WritesAre
<1>4. Tells(Tell(s, what, owner[c.suit]), s, Losses) /\ Tell(s, what, owner[c.suit]).val.of = owner[c.suit]
      BY DEF Tell, Tells, Losses
<1>5. w.val.state = "Free" /\ w.val.suit = NoSuit /\ w.val.outcome = "Lost"
      BY <1>2
<1> HIDE DEF what, Writes
<1> QED BY <1>1, <1>2, <1>3, <1>4, <1>5

(* What a tick leaves to be written: notes, what the watch has to write of each slot,
   once, and tows. *)
Notices(fs) ==
    /\ \A i \in DOMAIN todo' : todo'[i].kind = "note" => i \in DOMAIN fs
    /\ \A i \in DOMAIN fs : i \in DOMAIN todo' /\ todo'[i].kind = "note" /\ todo'[i].val = fs[i]

LEMMA TickWrites ==
    ASSUME TypeInv, ~Torn, NEW lf \in [Ids -> Lives], NEW fate \in Seq(Fates), NEW tugs,
           EndTick(lf, fate, tugs)
    PROVE  /\ Notices(fates \o fate)
           /\ \A i \in DOMAIN todo' :
                 \/ todo'[i].kind = "note"
                 \/ /\ todo'[i].kind = "report" /\ todo'[i].val.what = "Towed"
                    /\ \E s \in Slots : claim[s] # NoPilot
                 \/ \E s \in Slots : LossWrites(s, lf) # <<>> /\ todo'[i] = LossWrites(s, lf)[1]
           /\ \A s \in Slots : LossWrites(s, lf) # <<>> =>
                 /\ \E i \in DOMAIN todo' : todo'[i] = LossWrites(s, lf)[1]
                 /\ \A i, j \in DOMAIN todo' :
                       todo'[i] = LossWrites(s, lf)[1] /\ todo'[j] = LossWrites(s, lf)[1] => i = j
<1> DEFINE order == SetToSeq(Slots)
           n == Cardinality(Slots)
           fs == fates \o fate
           losses == [i \in DOMAIN order |-> LossWrites(order[i], lf)]
           tows == [i \in DOMAIN order |-> IF order[i] \in tugs THEN TowWrites(order[i]) ELSE <<>>]
<1>1. SectorTypes /\ QueueTypes
      BY DEF TypeInv
<1>2. /\ n \in Nat /\ order \in [1..n -> Slots]
      /\ \A i, j \in 1..n : order[i] = order[j] => i = j
      /\ \A s \in Slots : \E i \in 1..n : order[i] = s
      BY ConstantsAssumption, SetToSeqIs
<1>3. /\ NotesOf(fs) \in Seq(Writes) /\ DOMAIN NotesOf(fs) = DOMAIN fs
      /\ \A i \in DOMAIN NotesOf(fs) : NotesOf(fs)[i].kind = "note" /\ NotesOf(fs)[i].val = fs[i]
  <2>1. fs \in Seq(Fates)
        BY <1>1, CatIs DEF QueueTypes
  <2> HIDE DEF fs
  <2>2. \A i \in DOMAIN fs : fs[i] \in Fates
        BY <2>1
  <2>3. \A x \in Fates : [suit |-> x.suit, fate |-> x.fate] = x
        BY DEF Fates
  <2>4. DOMAIN NotesOf(fs) = DOMAIN fs /\ \A i \in DOMAIN fs : NotesOf(fs)[i] = Note(fs[i].suit, fs[i].fate)
        BY DEF NotesOf
  <2> QED BY <2>1, <2>2, <2>3, <2>4, NotesOfType DEF Note
<1>4. losses \in [1..n -> Seq(Writes)] /\ \A i \in 1..n : losses[i] = LossWrites(order[i], lf) /\ Len(losses[i]) <= 1
  <2>1. \A i \in 1..n : LossWrites(order[i], lf) \in Seq(Writes) /\ Len(LossWrites(order[i], lf)) <= 1
        BY <1>1, <1>2, LossType
  <2> HIDE DEF order, n
  <2> QED BY <1>2, <2>1
<1>5. tows \in [1..n -> Seq(Writes)]
      /\ \A i \in 1..n : tows[i] \in {<<>>, TowWrites(order[i])} /\ Len(tows[i]) <= 1
  <2>1. \A i \in 1..n : TowWrites(order[i]) \in Seq(Writes) /\ Len(TowWrites(order[i])) <= 1
    <3>1. \A x : Len(<<x>>) <= 1 /\ Len(<<>>) <= 1
          OBVIOUS
    <3>2. \A s \in Slots : TowWrites(s) \in Seq(Writes) /\ Len(TowWrites(s)) <= 1
      <4> SUFFICES ASSUME NEW s \in Slots PROVE TowWrites(s) \in Seq(Writes) /\ Len(TowWrites(s)) <= 1
          OBVIOUS
      <4> HIDE DEF Writes
      <4> QED BY <1>1, <3>1, TowType, TowIs
    <3> HIDE DEF order, n
    <3> QED BY <1>2, <3>2
  <2>2. <<>> \in Seq(Writes) /\ Len(<<>>) <= 1
        OBVIOUS
  <2> HIDE DEF order, n
  <2> QED BY <1>2, <2>1, <2>2
<1>6. todo' = NotesOf(fs) \o FlattenSeq(losses) \o FlattenSeq(tows)
      BY DEF EndTick, NotesOf
<1> DEFINE F == FlattenSeq(losses)
           G == FlattenSeq(tows)
           A == NotesOf(fs)
<1> HIDE DEF losses, tows, fs, order, n
<1>7. F \in Seq(Writes) /\ \E w : Picked(losses, F, w, n)
      BY <1>2, <1>4, FlatShort
<1>8. G \in Seq(Writes) /\ \E w : Picked(tows, G, w, n)
      BY <1>2, <1>5, FlatShort
<1>9. PICK v : Picked(losses, F, v, n)
      BY <1>7
<1>10. PICK u : Picked(tows, G, u, n)
       BY <1>8
<1> HIDE DEF F, G, A
<1>11. /\ \A i \in DOMAIN todo' : \/ i \in DOMAIN A /\ todo'[i] = A[i]
                                  \/ /\ i - Len(A) \in DOMAIN F /\ todo'[i] = F[i - Len(A)]
                                     /\ i = Len(A) + (i - Len(A))
                                  \/ \E j \in DOMAIN G : todo'[i] = G[j]
       /\ \A k \in DOMAIN F : Len(A) + k \in DOMAIN todo' /\ todo'[Len(A) + k] = F[k]
       /\ \A k \in DOMAIN A : k \in DOMAIN todo' /\ todo'[k] = A[k]
  <2>1. A \in Seq(Writes) /\ todo' = A \o F \o G
        BY <1>3, <1>6 DEF A, F, G
  <2> HIDE DEF Writes
  <2>2. Parts(todo', A, F, G)
        BY <1>7, <1>8, <2>1, ThreeIs
  <2> QED BY <2>2 DEF Parts
<1>12. DOMAIN A = DOMAIN fs /\ \A i \in DOMAIN A : A[i].kind = "note" /\ A[i].val = fs[i]
       BY <1>3 DEF A
<1>13. \A i \in DOMAIN F : /\ v[i] \in 1..n /\ order[v[i]] \in Slots
                           /\ LossWrites(order[v[i]], lf) # <<>> /\ F[i] = LossWrites(order[v[i]], lf)[1]
       BY <1>2, <1>4, <1>9 DEF Picked
<1>14. \A i \in DOMAIN G : /\ G[i].kind = "report" /\ G[i].val.what = "Towed"
                           /\ \E s \in Slots : claim[s] # NoPilot
  <2> SUFFICES ASSUME NEW i \in DOMAIN G
               PROVE  /\ G[i].kind = "report" /\ G[i].val.what = "Towed"
                      /\ \E s \in Slots : claim[s] # NoPilot
      OBVIOUS
  <2>1. u[i] \in 1..n /\ tows[u[i]] # <<>> /\ G[i] = tows[u[i]][1]
        BY <1>10 DEF Picked
  <2>2. order[u[i]] \in Slots /\ TowWrites(order[u[i]]) # <<>> /\ G[i] = TowWrites(order[u[i]])[1]
        BY <1>2, <1>5, <2>1
  <2>3. PICK s \in Slots : s = order[u[i]]
        BY <2>2
  <2>4. PICK w \in Writes : TowWrites(s) = <<w>> /\ claim[s] # NoPilot
                            /\ w.kind = "report" /\ w.slot = s /\ w.val.what = "Towed"
        BY <1>1, <2>2, <2>3, TowIs
  <2>5. G[i] = w
    <3> HIDE DEF Writes
    <3> QED BY <2>2, <2>3, <2>4
  <2> QED BY <2>4, <2>5
<1>15. \A s \in Slots : LossWrites(s, lf) # <<>> =>
          /\ LossWrites(s, lf)[1].slot = s /\ LossWrites(s, lf)[1].kind # "note"
          /\ LossWrites(s, lf)[1].kind = "report" => LossWrites(s, lf)[1].val.what # "Towed"
  <2> SUFFICES ASSUME NEW s \in Slots, LossWrites(s, lf) # <<>>
               PROVE  /\ LossWrites(s, lf)[1].slot = s /\ LossWrites(s, lf)[1].kind # "note"
                      /\ LossWrites(s, lf)[1].kind = "report" => LossWrites(s, lf)[1].val.what # "Towed"
      OBVIOUS
  <2>1. PICK w \in Writes : LossWrites(s, lf) = <<w>> /\ (IsStore(w, s) \/ Tells(w, s, Losses))
        BY LossIs
  <2>2. LossWrites(s, lf)[1] = w
    <3> HIDE DEF Writes
    <3> QED BY <2>1
  <2> QED BY <2>1, <2>2 DEF IsStore, Tells, Losses
<1>16. \A i \in DOMAIN todo' :
          \/ todo'[i].kind = "note"
          \/ /\ todo'[i].kind = "report" /\ todo'[i].val.what = "Towed"
             /\ \E s \in Slots : claim[s] # NoPilot
          \/ \E s \in Slots : LossWrites(s, lf) # <<>> /\ todo'[i] = LossWrites(s, lf)[1]
  <2> SUFFICES ASSUME NEW i \in DOMAIN todo'
               PROVE  \/ todo'[i].kind = "note"
                      \/ /\ todo'[i].kind = "report" /\ todo'[i].val.what = "Towed"
                         /\ \E s \in Slots : claim[s] # NoPilot
                      \/ \E s \in Slots : LossWrites(s, lf) # <<>> /\ todo'[i] = LossWrites(s, lf)[1]
      OBVIOUS
  <2>1. CASE i \in DOMAIN A /\ todo'[i] = A[i]
        BY <1>12, <2>1
  <2>2. CASE i - Len(A) \in DOMAIN F /\ todo'[i] = F[i - Len(A)]
        BY <1>13, <2>2
  <2>3. CASE \E j \in DOMAIN G : todo'[i] = G[j]
    <3>1. PICK j \in DOMAIN G : todo'[i] = G[j]
          BY <2>3
    <3> QED BY <1>14, <3>1
  <2> QED BY <1>11, <2>1, <2>2, <2>3
<1>17. ASSUME NEW s \in Slots, LossWrites(s, lf) # <<>>
       PROVE  \E i \in DOMAIN todo' : todo'[i] = LossWrites(s, lf)[1]
  <2>1. PICK k \in 1..n : order[k] = s
        BY <1>2
  <2>2. PICK i \in DOMAIN F : v[i] = k
        BY <1>4, <1>9, <1>17, <2>1 DEF Picked
  <2>3. F[i] = LossWrites(s, lf)[1]
        BY <1>13, <2>1, <2>2
  <2> QED BY <1>11, <2>3
<1>18. ASSUME NEW s \in Slots, LossWrites(s, lf) # <<>>, NEW i \in DOMAIN todo', todo'[i] = LossWrites(s, lf)[1]
       PROVE  /\ i - Len(A) \in DOMAIN F /\ i = Len(A) + (i - Len(A)) /\ order[v[i - Len(A)]] = s
  <2>1. ~(i \in DOMAIN A /\ todo'[i] = A[i]) /\ ~\E j \in DOMAIN G : todo'[i] = G[j]
        BY <1>12, <1>14, <1>15, <1>18
  <2>2. i - Len(A) \in DOMAIN F /\ todo'[i] = F[i - Len(A)] /\ i = Len(A) + (i - Len(A))
        BY <1>11, <2>1
  <2> DEFINE k == i - Len(A)
  <2>3. k \in DOMAIN F /\ todo'[i] = F[k]
        BY <2>2
  <2> HIDE DEF k
  <2>4. order[v[k]] \in Slots /\ LossWrites(order[v[k]], lf) # <<>> /\ F[k] = LossWrites(order[v[k]], lf)[1]
        BY <1>13, <2>3
  <2>5. LossWrites(order[v[k]], lf)[1].slot = order[v[k]]
        BY <1>15, <2>4
  <2>6. LossWrites(s, lf)[1].slot = s
        BY <1>15, <1>18
  <2>7. order[v[k]] = s
        BY <1>18, <2>3, <2>4, <2>5, <2>6
  <2> QED BY <2>2, <2>7 DEF k
<1>19. ASSUME NEW s \in Slots, LossWrites(s, lf) # <<>>, NEW i \in DOMAIN todo', NEW j \in DOMAIN todo',
              todo'[i] = LossWrites(s, lf)[1], todo'[j] = LossWrites(s, lf)[1]
       PROVE  i = j
  <2>1. PICK k \in DOMAIN F : i = Len(A) + k /\ order[v[k]] = s
        BY <1>18, <1>19
  <2>2. PICK l \in DOMAIN F : j = Len(A) + l /\ order[v[l]] = s
        BY <1>18, <1>19
  <2>3. v[k] = v[l]
        BY <1>2, <1>13, <2>1, <2>2
  <2>4. k = l
        BY <1>9, <2>3 DEF Picked
  <2> QED BY <2>1, <2>2, <2>4
<1>20. Notices(fs)
  <2>1. ASSUME NEW i \in DOMAIN todo', todo'[i].kind = "note" PROVE i \in DOMAIN fs
    <3>1. \A j \in DOMAIN F : F[j].kind # "note"
          BY <1>13, <1>15
    <3>2. \A j \in DOMAIN G : G[j].kind # "note"
          BY <1>14
    <3> QED BY <1>11, <1>12, <2>1, <3>1, <3>2
  <2> QED BY <1>11, <1>12, <2>1 DEF Notices
<1> QED BY <1>16, <1>17, <1>19, <1>20 DEF fs

-----------------------------------------------------------------------------
(* What a tick may do to the suits: throw one out of its cradle, strike one that flies or
   sleeps, clear a wreck whose pilot knows. *)
Ticks(lf) ==
    \A id \in Ids :
        \/ lf[id] = life[id]
        \/ life[id] = "cradle" /\ lf[id] = "flying"
        \/ life[id] \in {"flying", "asleep"} /\ lf[id] = "wreck"
        \/ /\ life[id] = "wreck" /\ lf[id] = "destroyed"
           /\ \A s \in Slots : client[s].active /\ client[s].suit = id =>
                 client[s].lost /\ \A p \in Pilots : slot[p] = s => pc[p] # "seating"

LEMMA EndStep ==
    ASSUME TypeInv, CalmInv, Calm, NEW lf \in [Ids -> Lives], NEW fate \in Seq(Fates), NEW tugs,
           Ticks(lf), EndTick(lf, fate, tugs)
    PROVE  /\ SectorStep /\ ClaimInv'
           /\ \A s \in Slots : Spared(s) \/ (Vacated(s) /\ Ended(s)) \/ Wrecked(s)
<1>1. /\ todo = <<>> /\ control = <<>> /\ control' = control /\ life' = lf /\ Handled /\ WatchLosses(lf)
      /\ claim' = [s \in Slots |-> IF s \in tugs THEN NoPilot ELSE claim[s]]
      BY Zenon DEF EndTick, Handled, record, session
<1>2. ~Torn
      BY DEF Calm
<1>3. /\ client \in [Slots -> Clients] /\ life \in [Ids -> Lives]
      /\ \A s \in Slots : client[s].active => client[s].suit \in Ids
      BY DEF TypeInv, SectorTypes
<1>4. /\ \A i \in DOMAIN todo' :
            \/ todo'[i].kind = "note"
            \/ /\ todo'[i].kind = "report" /\ todo'[i].val.what = "Towed"
               /\ \E s \in Slots : claim[s] # NoPilot
            \/ \E s \in Slots : LossWrites(s, lf) # <<>> /\ todo'[i] = LossWrites(s, lf)[1]
      /\ \A s \in Slots : LossWrites(s, lf) # <<>> =>
            /\ \E i \in DOMAIN todo' : todo'[i] = LossWrites(s, lf)[1]
            /\ \A i, j \in DOMAIN todo' :
                  todo'[i] = LossWrites(s, lf)[1] /\ todo'[j] = LossWrites(s, lf)[1] => i = j
      BY <1>2, TickWrites
<1>5. DOMAIN control = {} /\ DOMAIN control' = {}
      BY <1>1
<1>6. \A s \in Slots : ~Joining(s) /\ ~Asked(s) /\ ~Joining(s)' /\ ~Asked(s)'
      BY <1>5 DEF Joining, Asked
<1>7. \A s \in Slots :
         /\ client'[s].suit = client[s].suit
         /\ client'[s].active <=> client[s].active /\ client[s].suit \in Held(lf)
         /\ client'[s].lost <=> client[s].lost \/ (client[s].active /\ client[s].suit \in Held(lf)
                                                   /\ lf[client[s].suit] = "wreck")
  <2> SUFFICES ASSUME NEW s \in Slots
               PROVE  /\ client'[s].suit = client[s].suit
                      /\ client'[s].active <=> client[s].active /\ client[s].suit \in Held(lf)
                      /\ client'[s].lost <=> client[s].lost \/ (client[s].active /\ client[s].suit \in Held(lf)
                                                                /\ lf[client[s].suit] = "wreck")
      OBVIOUS
  <2> DEFINE a == client[s].active /\ client[s].suit \in Held(lf)
             b == client[s].lost \/ (client[s].active /\ client[s].suit \in Held(lf)
                                     /\ lf[client[s].suit] = "wreck")
  <2>1. client'[s] = [client[s] EXCEPT !.active = a, !.lost = b]
        BY <1>1, Zenon DEF WatchLosses
  <2>2. client[s] \in Clients
        BY <1>3
  <2> HIDE DEF a, b
  <2>3. client'[s].suit = client[s].suit /\ client'[s].active = a /\ client'[s].lost = b
        BY <2>1, <2>2 DEF Clients
  <2> QED BY <2>3, Zenon DEF a, b
<1>8. \A s \in Slots : client[s].active =>
         /\ life[client[s].suit] \in {"cradle", "flying", "wreck"}
         /\ client[s].lost => life[client[s].suit] = "wreck"
         /\ client[s].suit \in Ids
      BY <1>3 DEF CalmInv, ClientInv
<1>9. \A s \in Slots : client[s].active =>
         \/ /\ client[s].suit \in Held(lf) /\ lf[client[s].suit] \in {"cradle", "flying", "wreck"}
            /\ client[s].lost => lf[client[s].suit] = "wreck"
         \/ /\ client[s].suit \notin Held(lf) /\ client[s].lost
            /\ life[client[s].suit] = "wreck" /\ lf[client[s].suit] = "destroyed"
            /\ \A p \in Pilots : slot[p] = s => pc[p] # "seating"
      BY <1>8 DEF Ticks, Held
(* Whose each write is. *)
<1>10. \A s \in Slots : \A i \in DOMAIN todo' :
          IsStore(todo'[i], s) \/ Tells(todo'[i], s, Says) =>
             LossWrites(s, lf) # <<>> /\ todo'[i] = LossWrites(s, lf)[1]
  <2> SUFFICES ASSUME NEW s \in Slots, NEW i \in DOMAIN todo', IsStore(todo'[i], s) \/ Tells(todo'[i], s, Says)
               PROVE  LossWrites(s, lf) # <<>> /\ todo'[i] = LossWrites(s, lf)[1]
      OBVIOUS
  <2>1. PICK t \in Slots : LossWrites(t, lf) # <<>> /\ todo'[i] = LossWrites(t, lf)[1]
    <3>1. todo'[i].kind # "note" /\ ~(todo'[i].kind = "report" /\ todo'[i].val.what = "Towed")
          BY DEF IsStore, Tells, Says
    <3> QED BY <1>4, <3>1
  <2>2. PICK w \in Writes : LossWrites(t, lf) = <<w>> /\ (IsStore(w, t) \/ Tells(w, t, Losses))
        BY <1>2, <2>1, LossIs
  <2>3. LossWrites(t, lf)[1] = w
    <3> HIDE DEF Writes
    <3> QED BY <2>2
  <2>4. t = s
        BY <2>1, <2>2, <2>3 DEF IsStore, Tells
  <2> QED BY <2>1, <2>4
<1>11. \A s \in Slots : Spared(s) \/ (Vacated(s) /\ Ended(s)) \/ Wrecked(s)
  <2> SUFFICES ASSUME NEW s \in Slots PROVE Spared(s) \/ (Vacated(s) /\ Ended(s)) \/ Wrecked(s)
      OBVIOUS
  <2>1. CASE /\ LossWrites(s, lf) = <<>>
             /\ client[s].active => client[s].suit \in Held(lf)
             /\ client[s].active /\ ~client[s].lost => lf[client[s].suit] # "wreck"
    <3>1. Same(s)
      <4>1. client'[s].active = client[s].active
        <5>1. client'[s].active \in BOOLEAN /\ client[s].active \in BOOLEAN
          <6>1. client' \in [Slots -> Clients]
                BY <1>1, WatchType DEF TypeInv
          <6> QED BY <1>3, <6>1 DEF Clients
        <5> QED BY <1>7, <2>1, <5>1
      <4> QED BY <1>7, <4>1 DEF Same
    <3>2. client'[s].lost = client[s].lost
      <4>1. client'[s].lost \in BOOLEAN /\ client[s].lost \in BOOLEAN
        <5>1. client' \in [Slots -> Clients]
              BY <1>1, WatchType DEF TypeInv
        <5> QED BY <1>3, <5>1 DEF Clients
      <4> QED BY <1>7, <2>1, <4>1
    <3>3. Silent(s) /\ Unwritten(s)
          BY <1>10, <2>1 DEF Silent, Unwritten
    <3> QED BY <3>1, <3>2, <3>3 DEF Spared
  <2>2. CASE /\ client[s].active /\ client[s].suit \notin Held(lf)
             /\ \E w \in Writes : /\ LossWrites(s, lf) = <<w>> /\ IsStore(w, s) /\ w.val \in Whole
                                  /\ w.val.state = "Free" /\ w.val.suit = NoSuit /\ w.bump = 0
                                  /\ w.val.outcome = "Lost"
    <3>1. PICK w \in Writes : /\ LossWrites(s, lf) = <<w>> /\ IsStore(w, s) /\ w.val \in Whole
                              /\ w.val.state = "Free" /\ w.val.suit = NoSuit /\ w.bump = 0
                              /\ w.val.outcome = "Lost"
          BY <2>2
    <3>2. LossWrites(s, lf)[1] = w /\ LossWrites(s, lf) # <<>>
      <4> HIDE DEF Writes
      <4> QED BY <3>1
    <3>3. \A i \in DOMAIN todo' : IsStore(todo'[i], s) \/ Tells(todo'[i], s, Says) => todo'[i] = w
          BY <1>10, <3>2
    <3>4. \A i \in DOMAIN todo' : ~Tells(todo'[i], s, Says)
          BY <3>1, <3>3 DEF IsStore, Tells
    <3>5. \E i \in DOMAIN todo' : IsStore(todo'[i], s)
          BY <1>4, <3>1, <3>2
    <3>6. ~client'[s].active
          BY <1>7, <2>2
    <3>7. \A p \in Pilots : slot[p] = s => ~Seat(p)
          BY <1>9, <2>2 DEF Seat
    <3>8. Vacated(s)
          BY <1>6, <3>1, <3>3, <3>4, <3>5, <3>6, <3>7 DEF Vacated
    <3>9. Ended(s)
      <4>1. life[client[s].suit] = "wreck" /\ life'[client[s].suit] = "destroyed"
            BY <1>1, <1>9, <2>2
      <4>2. \A i \in DOMAIN todo' : /\ IsStore(todo'[i], s) => todo'[i].val.outcome \in {"Released", "Lost"}
                                  /\ ~Tells(todo'[i], s, {"Home"})
            BY <3>1, <3>3, <3>4 DEF Tells, Says
      <4> QED BY <2>2, <4>1, <4>2 DEF Ended
    <3> QED BY <3>8, <3>9
  <2>3. CASE /\ client[s].active /\ client[s].suit \in Held(lf)
             /\ ~client[s].lost /\ lf[client[s].suit] = "wreck"
             /\ \E w \in Writes : /\ LossWrites(s, lf) = <<w>> /\ Tells(w, s, Losses)
                                  /\ w.val.of = owner[client[s].suit]
    <3>1. PICK w \in Writes : /\ LossWrites(s, lf) = <<w>> /\ Tells(w, s, Losses)
                              /\ w.val.of = owner[client[s].suit]
          BY <2>3
    <3>2. LossWrites(s, lf)[1] = w /\ LossWrites(s, lf) # <<>>
      <4> HIDE DEF Writes
      <4> QED BY <3>1
    <3>3. \A i \in DOMAIN todo' : IsStore(todo'[i], s) \/ Tells(todo'[i], s, Says) => todo'[i] = w
          BY <1>10, <3>2
    <3>4. Unwritten(s)
          BY <3>1, <3>3 DEF IsStore, Tells, Unwritten
    <3>5. \A i, j \in DOMAIN todo' : Tells(todo'[i], s, Says) /\ Tells(todo'[j], s, Says) => i = j
          BY <1>4, <3>2, <3>3
    <3>6. client'[s].lost /\ Same(s)
      <4>1. client'[s].active \in BOOLEAN /\ client[s].active \in BOOLEAN
        <5>1. client' \in [Slots -> Clients]
              BY <1>1, WatchType DEF TypeInv
        <5> QED BY <1>3, <5>1 DEF Clients
      <4> QED BY <1>7, <2>3, <4>1 DEF Same
    <3> QED BY <2>3, <3>1, <3>3, <3>4, <3>5, <3>6 DEF Wrecked
  <2> QED BY <1>2, <2>1, <2>2, <2>3, LossIs
<1>12. SectorMoves
  <2>1. ASSUME NEW s \in Slots, client'[s].active
        PROVE  /\ life'[client'[s].suit] \in {"cradle", "flying", "wreck"}
               /\ client'[s].lost => life'[client'[s].suit] = "wreck"
        BY <1>1, <1>7, <1>9, <2>1
  <2>2. \A id \in Ids : /\ life[id] = "unborn" => life'[id] = "unborn"
                        /\ life[id] = "queued" => life'[id] = "queued"
        BY <1>1 DEF Ticks
  <2> QED BY <1>1, <1>6, <2>1, <2>2 DEF SectorMoves, Handled
<1>13. ClaimInv'
  <2>1. ~Ejects => \A s \in Slots : claim[s] = NoPilot
        BY DEF CalmInv, ClaimInv
  <2>2. ~Ejects => \A s \in Slots : claim'[s] = NoPilot
        BY <1>1, <2>1
  <2>3. ASSUME ~Ejects, NEW i \in DOMAIN todo', todo'[i].kind = "report"
        PROVE  todo'[i].val.what \in Says
    <3>1. PICK s \in Slots : LossWrites(s, lf) # <<>> /\ todo'[i] = LossWrites(s, lf)[1]
          BY <1>4, <2>1, <2>3
    <3>2. PICK w \in Writes : LossWrites(s, lf) = <<w>> /\ (IsStore(w, s) \/ Tells(w, s, Losses))
          BY <1>2, <3>1, LossIs
    <3>3. todo'[i] = w
      <4> HIDE DEF Writes
      <4> QED BY <3>1, <3>2
    <3> QED BY <2>3, <3>2, <3>3 DEF IsStore, Tells, Losses, Says
  <2> QED BY <1>1, <2>2, <2>3, ClaimKept DEF Handled
<1> QED BY <1>11, <1>12, <1>13 DEF SectorStep, Effect

(* A tick that strikes a sleeper notes it; no other does anything to a sleeper. *)
Strikes(lf, fate) ==
    \/ fate = <<>> /\ \A id \in Ids : life[id] = "asleep" => lf[id] = "asleep"
    \/ \E id \in Ids : /\ life[id] = "asleep" /\ lf = [life EXCEPT ![id] = "wreck"]
                      /\ fate = <<[suit |-> id, fate |-> "Destroyed"]>>

Ticked ==
    \E lf \in [Ids -> Lives], fate \in Seq(Fates) : \E tugs :
        Ticks(lf) /\ Strikes(lf, fate) /\ EndTick(lf, fate, tugs)

LEMMA TicksAre ==
    ASSUME TypeInv, CalmInv, Calm,
           \/ QuietTick
           \/ \E id \in Ids : Thrown(id) \/ Struck(id) \/ WreckCleared(id) \/ SleeperStruck(id)
           \/ \E s \in Slots : TugsArrive(s)
    PROVE  Ticked
<1>1. life \in [Ids -> Lives] /\ <<>> \in Seq(Fates)
      BY DEF TypeInv, SectorTypes
<1>2. Ticks(life) /\ Strikes(life, <<>>)
      BY DEF Ticks, Strikes
<1>3. ASSUME NEW tugs, EndTick(life, <<>>, tugs) PROVE Ticked
      BY <1>1, <1>2, <1>3 DEF Ticked
<1>4. ASSUME NEW id \in Ids, NEW l \in Lives, EndTick([life EXCEPT ![id] = l], <<>>, {}),
             \/ life[id] = "cradle" /\ l = "flying"
             \/ life[id] = "flying" /\ l = "wreck"
             \/ /\ life[id] = "wreck" /\ l = "destroyed"
                /\ \A s \in Slots : client[s].active /\ client[s].suit = id =>
                      client[s].lost /\ \A p \in Pilots : slot[p] = s => pc[p] # "seating"
      PROVE  Ticked
  <2>1. PICK lf \in [Ids -> Lives] : lf = [life EXCEPT ![id] = l]
        BY <1>1
  <2>2. Ticks(lf)
        BY <1>1, <1>4, <2>1 DEF Ticks
  <2>3. Strikes(lf, <<>>)
        BY <1>1, <1>4, <2>1 DEF Strikes
  <2> QED BY <1>1, <1>4, <2>1, <2>2, <2>3 DEF Ticked
<1>5. {"flying", "wreck", "destroyed"} \subseteq Lives
      BY DEF Lives
<1>6. ASSUME NEW id \in Ids, WreckCleared(id) PROVE Ticked
  <2>1. life[id] = "wreck" /\ EndTick([life EXCEPT ![id] = "destroyed"], <<>>, {})
        BY <1>6 DEF WreckCleared
  <2>2. \A s \in Slots : client[s].active /\ client[s].suit = id =>
            client[s].lost /\ \A p \in Pilots : slot[p] = s => pc[p] # "seating"
        BY <1>6 DEF WreckCleared, Calm
  <2> QED BY <1>4, <1>5, <2>1, <2>2
<1>7. ASSUME NEW id \in Ids, SleeperStruck(id) PROVE Ticked
  <2>1. <<[suit |-> id, fate |-> "Destroyed"]>> \in Seq(Fates)
        BY DEF Fates
  <2>2. PICK lf \in [Ids -> Lives] : lf = [life EXCEPT ![id] = "wreck"]
        BY <1>1, <1>5
  <2>3. /\ life[id] = "asleep" /\ EndTick(lf, <<[suit |-> id, fate |-> "Destroyed"]>>, {})
        BY <1>7, <2>2 DEF SleeperStruck
  <2>4. Ticks(lf) /\ Strikes(lf, <<[suit |-> id, fate |-> "Destroyed"]>>)
        BY <1>1, <2>2, <2>3 DEF Ticks, Strikes
  <2> QED BY <2>1, <2>3, <2>4 DEF Ticked
<1>8. ASSUME NEW id \in Ids, Thrown(id) PROVE Ticked
      BY <1>4, <1>5, <1>8 DEF Thrown
<1>9. ASSUME NEW id \in Ids, Struck(id) PROVE Ticked
      BY <1>4, <1>5, <1>9 DEF Struck
<1>10. CASE QuietTick
       BY <1>3, <1>10 DEF QuietTick
<1>11. ASSUME NEW s \in Slots, TugsArrive(s) PROVE Ticked
       BY <1>3, <1>11 DEF TugsArrive
<1> QED BY <1>6, <1>7, <1>8, <1>9, <1>10, <1>11

LEMMA TicksCalm ==
    ASSUME TypeInv, CalmInv, Calm, Ticked
    PROVE  CalmInv'
BY EndStep, SectorCalm DEF Ticked

-----------------------------------------------------------------------------
(* What a step of pilot p's session may do to what others see of it. *)
Asks(p, m) ==
    /\ m.slot = slot[p] /\ m.who = p /\ slot'[p] = slot[p] /\ pc[p] # "seating"
    /\ m.op = "Join" => /\ pc[p] = "asking" /\ pc'[p] = "seating"
                        /\ m.launch # NoSuit => life[m.launch] = "queued" /\ owner[m.launch] = p
                        /\ m.wake # NoSuit => owner[m.wake] = p
    /\ m.op = "Sleep" => pc'[p] = "freeing"
    /\ m.op = "Dock" => pc[p] = "play" /\ pc'[p] = "docking"
    /\ m.op = "Eject" => Ejects

Launches(p) ==
    /\ launched' = launched + 1 /\ launched + 1 \in Ids
    /\ life' = [life EXCEPT ![launched + 1] = "queued"]
    /\ owner' = [owner EXCEPT ![launched + 1] = p]

SessionMoves(p) ==
    /\ UNCHANGED <<todo, status, client, claim>>
    /\ \A q \in Pilots : q # p =>
          /\ pc'[q] = pc[q] /\ slot'[q] = slot[q] /\ suit'[q] = suit[q] /\ lost'[q] = lost[q]
          /\ seen'[q] = seen[q] /\ sleeper'[q] = sleeper[q]
    /\ \A t \in Slots : \/ reports'[t] = reports[t]
                        \/ slot[p] = t /\ reports[t] # <<>> /\ reports'[t] = Tail(reports[t])
                        \/ slot[p] = t /\ reports'[t] = <<>>
    /\ control' = control \/ \E m \in Msgs : Asks(p, m) /\ control' = Append(control, m)
    /\ UNCHANGED <<life, owner, launched>> \/ Launches(p)

(* What a step of their session leaves true of pilot p. *)
Leaves(p, phase) == pc[p] = phase /\ ~(pc'[p] = phase /\ slot'[p] = slot[p])
PilotFits(p) ==
    /\ suit'[p] # NoSuit => /\ pc'[p] \in {"entered", "play", "docking", "freeing"}
                            /\ Aboard(p) /\ slot'[p] = slot[p]
    /\ pc'[p] \in {"docking", "freeing"} => suit'[p] # NoSuit
    /\ lost'[p] => suit'[p] # NoSuit
    /\ pc[p] = "seating" => Seat(p) /\ ~Bumping(slot[p])
    /\ ~Seat(p)'
    /\ pc'[p] \in {"asking", "seating"} => ~client[slot'[p]].active /\ status[slot'[p]].epoch = seen'[p]
    /\ pc'[p] = "asking" /\ sleeper'[p] = NoSuit /\ LastSuit(p)' # NoSuit => (life[LastSuit(p)] = "queued")'
    /\ Own(p, sleeper'[p]) /\ Own(p, suit'[p])
    /\ \A s \in Slots : slot[p] = s =>
          /\ client[s].active /\ (pc[p] = "seating" \/ suit[p] # NoSuit) => suit'[p] # NoSuit
          /\ Aboard(p) /\ suit'[p] = NoSuit => ~Flying(s, Says)'
          /\ Leaves(p, "docking") =>
                /\ ~Flying(s, Answers)' /\ ~Owed(s, Answers)
                /\ \A i \in DOMAIN control : ~(control[i].op = "Dock" /\ control[i].slot = s)
          /\ Leaves(p, "freeing") => ~client[s].active /\ suit'[p] = NoSuit
          /\ lost'[p] /\ ~lost[p] => /\ ~Flying(s, Losses)' /\ ~Flying(s, {"Home"})'
                                     /\ client[s].active => client[s].lost
    /\ \A s \in Slots : slot'[p] = s /\ slot[p] # s => ~Flying(s, Says)

SessionStep(p) == TypeInv /\ CalmInv /\ TypeInv' /\ SessionMoves(p) /\ PilotFits(p)

(* What is left in a slot's ring was in it, in the same order. *)
LEMMA ReportsLeft ==
    ASSUME QueueTypes, NEW t \in Slots,
           \/ reports'[t] = reports[t]
           \/ reports[t] # <<>> /\ reports'[t] = Tail(reports[t])
           \/ reports'[t] = <<>>
    PROVE  \E f : /\ \A i \in DOMAIN reports'[t] :
                        f[i] \in DOMAIN reports[t] /\ reports'[t][i] = reports[t][f[i]]
                  /\ \A i, j \in DOMAIN reports'[t] : f[i] = f[j] => i = j
<1>1. CASE reports'[t] = reports[t]
  <2> DEFINE f == [i \in DOMAIN reports[t] |-> i]
  <2>1. \A i \in DOMAIN reports[t] : f[i] = i
        OBVIOUS
  <2> HIDE DEF f
  <2> QED BY <1>1, <2>1
<1>2. CASE reports[t] # <<>> /\ reports'[t] = Tail(reports[t])
  <2>1. reports[t] \in Seq(Tellings)
        BY DEF QueueTypes
  <2> HIDE DEF Tellings
  <2>2. /\ \A i \in DOMAIN Tail(reports[t]) :
              Tail(reports[t])[i] = reports[t][i + 1] /\ i + 1 \in DOMAIN reports[t]
        /\ DOMAIN Tail(reports[t]) = 1..(Len(reports[t]) - 1) /\ Len(reports[t]) \in Nat
        BY <1>2, <2>1, TailIs
  <2> DEFINE f == [i \in DOMAIN Tail(reports[t]) |-> i + 1]
             n == Len(reports[t]) - 1
  <2>3. \A i \in DOMAIN Tail(reports[t]) : f[i] = i + 1
        OBVIOUS
  <2>4. n \in Int /\ DOMAIN Tail(reports[t]) = 1..n
        BY <2>2
  <2> HIDE DEF f, n
  <2>5. \A i, j \in DOMAIN Tail(reports[t]) : f[i] = f[j] => i = j
        BY <2>3, <2>4
  <2>6. \A i \in DOMAIN Tail(reports[t]) : f[i] \in DOMAIN reports[t] /\ Tail(reports[t])[i] = reports[t][f[i]]
        BY <2>2, <2>3
  <2> QED BY <1>2, <2>5, <2>6
<1>3. CASE reports'[t] = <<>>
  <2>1. DOMAIN reports'[t] = {}
        BY <1>3
  <2> QED BY <2>1
<1> QED BY <1>1, <1>2, <1>3

(* What is asked, after a step of a session's. *)
LEMMA AskedAfter ==
    ASSUME QueueTypes, NEW m \in Msgs, control' = Append(control, m)
    PROVE  \E n \in Nat :
              /\ n \in DOMAIN control' /\ control'[n] = m /\ n \notin DOMAIN control
              /\ \A i \in DOMAIN control' : i = n \/ (i \in DOMAIN control /\ control'[i] = control[i] /\ i < n)
              /\ \A i \in DOMAIN control : i \in DOMAIN control' /\ control'[i] = control[i] /\ ~(n < i)
<1>1. control \in Seq(Msgs)
      BY DEF QueueTypes
<1> HIDE DEF Msgs
<1>2. /\ Len(control) \in Nat /\ DOMAIN control = 1..Len(control)
      /\ DOMAIN control' = 1..(Len(control) + 1)
      /\ control'[Len(control) + 1] = m
      /\ \A i \in 1..Len(control) : control'[i] = control[i]
      BY <1>1, AppendIs
<1> DEFINE n == Len(control) + 1
<1>3. n \in Nat /\ n \in 1..n /\ DOMAIN control = 1..(n - 1) /\ DOMAIN control' = 1..n /\ control'[n] = m
      /\ \A i \in 1..(n - 1) : control'[i] = control[i]
      BY <1>2
<1> HIDE DEF n
<1>4. /\ n \notin 1..(n - 1)
      /\ \A i \in 1..n : i = n \/ (i \in 1..(n - 1) /\ i < n)
      /\ \A i \in 1..(n - 1) : i \in 1..n /\ ~(n < i)
      BY <1>3
<1> QED BY <1>3, <1>4

LEMMA SessionFacts ==
    ASSUME NEW p \in Pilots, SessionStep(p)
    PROVE  /\ UNCHANGED <<todo, status, client, claim>>
           /\ \A q \in Pilots : pc[q] # "away" => slot[q] \in Slots
           /\ \A s \in Slots, q \in Pilots, r \in Pilots : slot[q] = s /\ slot[r] = s => q = r
           /\ \A s \in Slots, q \in Pilots, r \in Pilots : slot'[q] = s /\ slot'[r] = s => q = r
           /\ \A t \in Slots : (Storing(t)' <=> Storing(t)) /\ (Bumping(t)' <=> Bumping(t))
           /\ \A t \in Slots : \A what : /\ Owed(t, what)' <=> Owed(t, what)
                                         /\ Rung(t, what)' => Rung(t, what)
                                         /\ Flying(t, what)' => Flying(t, what)
           /\ \A t \in Slots : t # slot[p] => (Asked(t)' <=> Asked(t)) /\ (Joining(t)' <=> Joining(t))
           /\ \A q \in Pilots, t \in Slots : q # p /\ slot[q] = t => (Seat(q)' <=> Seat(q)) /\ (Aboard(q)' <=> Aboard(q))
           /\ \A t \in Slots : \A phase : In(t, phase) => In(t, phase)' \/ (slot[p] = t /\ Leaves(p, phase))
<1>1. UNCHANGED <<todo, status, client, claim>>
      BY DEF SessionStep, SessionMoves
<1>2. \A q \in Pilots : pc[q] # "away" => slot[q] \in Slots
      BY DEF SessionStep, TypeInv, LeaseInv
<1>3. \A s \in Slots, q \in Pilots, r \in Pilots : slot[q] = s /\ slot[r] = s => q = r
      BY OneSession DEF SessionStep, TypeInv
<1>4. \A s \in Slots, q \in Pilots, r \in Pilots : slot'[q] = s /\ slot'[r] = s => q = r
      BY ConstantsAssumption DEF SessionStep, TypeInv, LeaseInv, OneOwner
<1>5. \A t \in Slots : (Storing(t)' <=> Storing(t)) /\ (Bumping(t)' <=> Bumping(t))
      BY <1>1 DEF Storing, Bumping
<1>6. \A t \in Slots : \A what : Owed(t, what)' <=> Owed(t, what)
      BY <1>1 DEF Owed
<1>7. \A t \in Slots : \A what : Rung(t, what)' => Rung(t, what)
  <2> SUFFICES ASSUME NEW t \in Slots, NEW what, Rung(t, what)' PROVE Rung(t, what)
      OBVIOUS
  <2>1. PICK f : \A i \in DOMAIN reports'[t] : f[i] \in DOMAIN reports[t] /\ reports'[t][i] = reports[t][f[i]]
        BY ReportsLeft DEF SessionStep, SessionMoves, TypeInv
  <2> QED BY <2>1 DEF Rung
<1>8. \A t \in Slots : \A what : Flying(t, what)' => Flying(t, what)
      BY <1>6, <1>7 DEF Flying
<1>9. \A t \in Slots : t # slot[p] => (Asked(t)' <=> Asked(t)) /\ (Joining(t)' <=> Joining(t))
  <2>1. CASE control' = control
        BY <2>1 DEF Asked, Joining
  <2>2. ASSUME NEW m \in Msgs, Asks(p, m), control' = Append(control, m)
        PROVE  \A t \in Slots : t # slot[p] => (Asked(t)' <=> Asked(t)) /\ (Joining(t)' <=> Joining(t))
    <3>1. PICK n : /\ control'[n] = m
                   /\ \A i \in DOMAIN control' : i = n \/ (i \in DOMAIN control /\ control'[i] = control[i])
                   /\ \A i \in DOMAIN control : i \in DOMAIN control' /\ control'[i] = control[i]
          BY <2>2, AskedAfter DEF SessionStep, TypeInv
    <3>2. m.slot = slot[p]
          BY <2>2 DEF Asks
    <3> QED BY <3>1, <3>2 DEF Asked, Joining
  <2> QED BY <2>1, <2>2 DEF SessionStep, SessionMoves
<1>10. \A q \in Pilots, t \in Slots : q # p /\ slot[q] = t => (Seat(q)' <=> Seat(q)) /\ (Aboard(q)' <=> Aboard(q))
  <2> SUFFICES ASSUME NEW q \in Pilots, NEW t \in Slots, q # p, slot[q] = t
               PROVE  (Seat(q)' <=> Seat(q)) /\ (Aboard(q)' <=> Aboard(q))
      OBVIOUS
  <2>1. slot'[q] = t /\ pc'[q] = pc[q] /\ suit'[q] = suit[q]
        BY DEF SessionStep, SessionMoves
  <2>2. t # slot[p]
        BY <1>3
  <2>3. Seat(q)' <=> Seat(q)
        BY <1>9, <2>1, <2>2 DEF Seat
  <2> QED BY <2>1, <2>3 DEF Aboard
<1>11. \A t \in Slots : \A phase : In(t, phase) => In(t, phase)' \/ (slot[p] = t /\ Leaves(p, phase))
  <2> SUFFICES ASSUME NEW t \in Slots, NEW phase, NEW q \in Pilots, slot[q] = t, pc[q] = phase
               PROVE  In(t, phase)' \/ (slot[p] = t /\ Leaves(p, phase))
      BY DEF In
  <2>1. CASE q = p
        BY <2>1 DEF In, Leaves
  <2>2. CASE q # p
        BY <2>2 DEF In, SessionStep, SessionMoves
  <2> QED BY <2>1, <2>2
<1> QED BY <1>1, <1>2, <1>3, <1>4, <1>5, <1>6, <1>7, <1>8, <1>9, <1>10, <1>11

-----------------------------------------------------------------------------
(* A launch is of a suit nobody had. *)
LEMMA LaunchFacts ==
    ASSUME NEW p \in Pilots, SessionStep(p)
    PROVE  /\ \A id \in Ids : life[id] # "unborn" \/ owner[id] \in Pilots =>
                  life'[id] = life[id] /\ owner'[id] = owner[id]
           /\ \A q \in Pilots, id \in SomeSuit : Own(q, id) => Own(q, id)'
           /\ \A q \in Pilots : q # p => LastSuit(q)' = LastSuit(q)
           /\ LaunchInv'
<1>1. CASE UNCHANGED <<life, owner, launched>>
  <2>1. \A q \in Pilots : LastSuit(q)' = LastSuit(q)
        BY <1>1 DEF LastSuit
  <2>2. \A q \in Pilots, id \in SomeSuit : Own(q, id) => Own(q, id)'
        BY <1>1 DEF Own
  <2> QED BY <1>1, <2>1, <2>2 DEF LaunchInv, SessionStep, CalmInv
<1>2. CASE Launches(p)
  <2> DEFINE n == launched + 1
  <2>1. /\ launched' = n /\ n \in Ids /\ launched \in Nat
        /\ life' = [life EXCEPT ![n] = "queued"] /\ owner' = [owner EXCEPT ![n] = p]
        /\ life \in [Ids -> Lives] /\ owner \in [Ids -> Anyone]
        BY <1>2, ConstantsAssumption DEF Launches, SessionStep, TypeInv, SectorTypes
  <2>2. n > launched /\ \A id \in Ids : id > n => id > launched /\ id # n
        BY <2>1 DEF Ids
  <2> HIDE DEF n
  <2>3. life[n] = "unborn" /\ owner[n] = NoPilot
        BY <2>1, <2>2 DEF SessionStep, CalmInv, LaunchInv
  <2>4. owner[n] \notin Pilots
        BY <2>3, ConstantsAssumption
  <2>5. \A id \in Ids : id # n => life'[id] = life[id] /\ owner'[id] = owner[id]
        BY <2>1
  <2>6. \A id \in Ids : life[id] # "unborn" \/ owner[id] \in Pilots =>
            life'[id] = life[id] /\ owner'[id] = owner[id]
        BY <2>3, <2>4, <2>5
  <2>7. \A q \in Pilots, id \in SomeSuit : Own(q, id) => Own(q, id)'
        BY <2>6 DEF Own, SomeSuit
  <2>8. ASSUME NEW q \in Pilots, q # p PROVE LastSuit(q)' = LastSuit(q)
    <3>1. {id \in Ids : owner'[id] = q} = {id \in Ids : owner[id] = q}
      <4>1. owner'[n] = p /\ owner[n] # q
            BY <2>1, <2>4
      <4>2. \A id \in Ids : (owner'[id] = q) <=> (owner[id] = q)
            BY <2>5, <2>8, <4>1
      <4> QED BY <4>2
    <3> DEFINE Newest(T) == IF T = {} THEN NoSuit ELSE CHOOSE id \in T : \A other \in T : other <= id
    <3>2. LastSuit(q) = Newest({id \in Ids : owner[id] = q})
          BY DEF LastSuit
    <3>3. LastSuit(q)' = Newest({id \in Ids : owner'[id] = q})
          BY DEF LastSuit
    <3> HIDE DEF Newest
    <3> QED BY <3>1, <3>2, <3>3
  <2>9. LaunchInv'
        BY <2>1, <2>2, <2>5 DEF SessionStep, CalmInv, LaunchInv
  <2> QED BY <2>6, <2>7, <2>8, <2>9
<1> QED BY <1>1, <1>2 DEF SessionStep, SessionMoves

(* What is asked is what was, or the session has just asked it. *)
LEMMA ControlFacts ==
    ASSUME NEW p \in Pilots, SessionStep(p)
    PROVE  /\ \A i \in DOMAIN control' :
                 \/ i \in DOMAIN control /\ control'[i] = control[i]
                 \/ /\ control'[i] \in Msgs /\ Asks(p, control'[i]) /\ i \notin DOMAIN control
                    /\ \A j \in DOMAIN control' : ~(i < j) /\ (j = i \/ j \in DOMAIN control)
           /\ \A i \in DOMAIN control : control[i] \in Msgs
<1>1. \A i \in DOMAIN control : control[i] \in Msgs
  <2>1. control \in Seq(Msgs)
        BY DEF SessionStep, TypeInv, QueueTypes
  <2> HIDE DEF Msgs
  <2> QED BY <2>1
<1>2. CASE control' = control
      BY <1>1, <1>2
<1>3. ASSUME NEW m \in Msgs, Asks(p, m), control' = Append(control, m)
      PROVE  \A i \in DOMAIN control' :
                 \/ i \in DOMAIN control /\ control'[i] = control[i]
                 \/ /\ control'[i] \in Msgs /\ Asks(p, control'[i]) /\ i \notin DOMAIN control
                    /\ \A j \in DOMAIN control' : ~(i < j) /\ (j = i \/ j \in DOMAIN control)
  <2>1. PICK n \in Nat :
              /\ n \in DOMAIN control' /\ control'[n] = m /\ n \notin DOMAIN control
              /\ \A i \in DOMAIN control' : i = n \/ (i \in DOMAIN control /\ control'[i] = control[i] /\ i < n)
              /\ \A i \in DOMAIN control : i \in DOMAIN control' /\ control'[i] = control[i] /\ ~(n < i)
        BY <1>3, AskedAfter DEF SessionStep, TypeInv
  <2>2. ~(n < n)
        OBVIOUS
  <2>3. \A j \in DOMAIN control' : ~(n < j) /\ (j = n \/ j \in DOMAIN control)
        BY <2>1, <2>2
  <2>4. ASSUME NEW x, x = m PROVE x \in Msgs /\ Asks(p, x)
        BY <1>3, <2>4
  <2>5. control'[n] \in Msgs /\ Asks(p, control'[n])
        BY <2>1, <2>4
  <2> SUFFICES ASSUME NEW i \in DOMAIN control', ~(i \in DOMAIN control /\ control'[i] = control[i])
               PROVE  /\ control'[i] \in Msgs /\ Asks(p, control'[i]) /\ i \notin DOMAIN control
                      /\ \A j \in DOMAIN control' : ~(i < j) /\ (j = i \/ j \in DOMAIN control)
      OBVIOUS
  <2>6. i = n
        BY <2>1
  <2> QED BY <2>1, <2>3, <2>5, <2>6
<1> QED BY <1>1, <1>2, <1>3 DEF SessionStep, SessionMoves

(* Nothing of a session's step shows elsewhere. *)
LEMMA OthersAre ==
    ASSUME NEW p \in Pilots, SessionStep(p), NEW q \in Pilots, q # p
    PROVE  /\ pc'[q] = pc[q] /\ slot'[q] = slot[q] /\ suit'[q] = suit[q] /\ lost'[q] = lost[q]
           /\ seen'[q] = seen[q] /\ sleeper'[q] = sleeper[q]
BY DEF SessionStep, SessionMoves

LEMMA SessionPhase == ASSUME NEW p \in Pilots, SessionStep(p) PROVE PhaseInv'
<1> SUFFICES ASSUME NEW q \in Pilots
             PROVE  /\ suit'[q] # NoSuit => pc'[q] \in {"entered", "play", "docking", "freeing"}
                    /\ pc'[q] \in {"docking", "freeing"} => suit'[q] # NoSuit
                    /\ lost'[q] => suit'[q] # NoSuit
    BY DEF PhaseInv
<1>1. CASE q = p
      BY <1>1 DEF SessionStep, PilotFits
<1>2. CASE q # p
      BY <1>2, OthersAre DEF SessionStep, CalmInv, PhaseInv
<1> QED BY <1>1, <1>2

LEMMA SessionStatus == ASSUME NEW p \in Pilots, SessionStep(p) PROVE StatusInv'
<1>1. /\ UNCHANGED <<todo, status, client, claim>>
      /\ \A t \in Slots : (Storing(t)' <=> Storing(t)) /\ (Bumping(t)' <=> Bumping(t))
      BY SessionFacts
<1>2. ASSUME NEW s \in Slots, Bumping(s)
      PROVE  Len(todo) = 1 /\ \E q \in Pilots : slot'[q] = s /\ Seat(q)'
  <2>1. PICK q \in Pilots : slot[q] = s /\ Seat(q)
        BY <1>2 DEF SessionStep, CalmInv, StatusInv
  <2>2. q # p
        BY <1>2, <2>1 DEF SessionStep, PilotFits, Seat
  <2>3. slot'[q] = s /\ Seat(q)'
        BY <2>1, <2>2, SessionFacts, OthersAre
  <2> QED BY <1>2, <2>3 DEF SessionStep, CalmInv, StatusInv
<1>3. \A s \in Slots :
          /\ \A i \in DOMAIN todo : IsStore(todo[i], s) =>
                /\ todo[i].val \in Whole /\ Shows(todo[i].val, client[s])
                /\ todo[i].bump = IF todo[i].val.state = "Free" THEN 0 ELSE 1
          /\ ~Storing(s) => Shows(status[s], client[s])
      BY DEF SessionStep, CalmInv, StatusInv
<1> QED BY <1>1, <1>2, <1>3 DEF StatusInv

LEMMA SessionSeat == ASSUME NEW p \in Pilots, SessionStep(p) PROVE SeatInv'
<1>1. UNCHANGED <<todo, status, client, claim>>
      BY SessionFacts
<1> SUFFICES ASSUME NEW q \in Pilots
             PROVE  /\ pc'[q] = "asking" \/ (pc'[q] = "seating" /\ Joining(slot[q])') =>
                          ~client[slot'[q]].active /\ status[slot'[q]].epoch = seen'[q]
                    /\ Seat(q)' => /\ ~Asked(slot[q])'
                                   /\ Bumping(slot[q])' => status[slot'[q]].epoch = seen'[q]
                                   /\ ~Bumping(slot[q])' => ~Storing(slot[q])'
                    /\ pc'[q] = "asking" /\ sleeper'[q] = NoSuit /\ LastSuit(q)' # NoSuit =>
                          (life[LastSuit(q)] = "queued")'
    BY <1>1 DEF SeatInv
<1>2. CASE q = p
      BY <1>2 DEF SessionStep, PilotFits
<1>3. CASE q # p /\ pc[q] # "away"
  <2>1. slot[q] \in Slots
        BY <1>3, SessionFacts
  <2> PICK t \in Slots : slot[q] = t
      BY <2>1
  <2>2. /\ pc'[q] = pc[q] /\ slot'[q] = t /\ seen'[q] = seen[q] /\ sleeper'[q] = sleeper[q]
        BY <1>3, OthersAre
  <2>3. t # slot[p]
        BY <1>3, SessionFacts
  <2>4. /\ Joining(t)' <=> Joining(t)
        /\ Asked(t)' <=> Asked(t)
        /\ Bumping(t)' <=> Bumping(t)
        /\ Storing(t)' <=> Storing(t)
        /\ Seat(q)' <=> Seat(q)
        BY <1>3, <2>3, SessionFacts
  <2>5. /\ pc[q] = "asking" \/ (pc[q] = "seating" /\ Joining(t)) =>
              ~client[t].active /\ status[t].epoch = seen[q]
        /\ Seat(q) => /\ ~Asked(t)
                      /\ Bumping(t) => status[t].epoch = seen[q]
                      /\ ~Bumping(t) => ~Storing(t)
        /\ pc[q] = "asking" /\ sleeper[q] = NoSuit /\ LastSuit(q) # NoSuit =>
              life[LastSuit(q)] = "queued"
        BY DEF SessionStep, CalmInv, SeatInv
  <2>6. /\ Joining(slot[q])' <=> Joining(t)'
        /\ Asked(slot[q])' <=> Asked(t)'
        /\ Bumping(slot[q])' <=> Bumping(t)'
        /\ Storing(slot[q])' <=> Storing(t)'
        BY <2>2 DEF Joining, Asked, Bumping, Storing
  <2>7. LastSuit(q)' = LastSuit(q) /\ LastSuit(q) \in SomeSuit
        BY <1>3, LaunchFacts, LastSuitType
  <2>8. ASSUME LastSuit(q)' # NoSuit, life[LastSuit(q)] = "queued" PROVE (life[LastSuit(q)] = "queued")'
        BY <2>7, <2>8, LaunchFacts DEF SomeSuit
  <2> QED BY <2>2, <2>4, <2>5, <2>6, <2>7, <2>8
<1>4. CASE q # p /\ pc[q] = "away"
      BY <1>4, OthersAre DEF Seat
<1> QED BY <1>2, <1>3, <1>4

-----------------------------------------------------------------------------
LEMMA SessionJoin == ASSUME NEW p \in Pilots, SessionStep(p) PROVE JoinInv'
<1> SUFFICES ASSUME NEW i \in DOMAIN control', control'[i].op = "Join"
             PROVE  /\ slot'[control'[i].who] = control'[i].slot /\ pc'[control'[i].who] = "seating"
                    /\ control'[i].launch # NoSuit =>
                          life'[control'[i].launch] = "queued" /\ owner'[control'[i].launch] = control'[i].who
                    /\ control'[i].wake # NoSuit => owner'[control'[i].wake] = control'[i].who
                    /\ \A j \in DOMAIN control' : i < j => control'[j].slot # control'[i].slot
    BY DEF JoinInv
<1> PICK m : m = control'[i]
    OBVIOUS
<1>1. CASE i \in DOMAIN control /\ control'[i] = control[i]
  <2>1. /\ m \in Msgs /\ m.slot \in Slots /\ m.who \in Pilots
        /\ m.launch \in SomeSuit /\ m.wake \in SomeSuit
    <3>1. m \in Msgs
          BY <1>1, ControlFacts
    <3> QED BY <3>1 DEF Msgs
  <2>2. /\ slot[m.who] = m.slot /\ pc[m.who] = "seating"
        /\ m.launch # NoSuit => life[m.launch] = "queued" /\ owner[m.launch] = m.who
        /\ m.wake # NoSuit => owner[m.wake] = m.who
        /\ \A j \in DOMAIN control : i < j => control[j].slot # m.slot
        BY <1>1 DEF SessionStep, CalmInv, JoinInv
  <2>3. m.who # p
    <3>1. Joining(m.slot)
          BY <1>1 DEF Joining
    <3> QED BY <2>2, <3>1 DEF SessionStep, PilotFits, Seat
  <2>4. slot'[m.who] = m.slot /\ pc'[m.who] = "seating" /\ m.slot # slot[p]
        BY <2>1, <2>2, <2>3, OthersAre, SessionFacts
  <2>5. /\ m.launch # NoSuit => life'[m.launch] = "queued" /\ owner'[m.launch] = m.who
        /\ m.wake # NoSuit => owner'[m.wake] = m.who
        BY <2>1, <2>2, LaunchFacts DEF SomeSuit
  <2>6. \A j \in DOMAIN control' : i < j => control'[j].slot # m.slot
        BY <2>2, <2>4, ControlFacts DEF Asks
  <2> QED BY <2>4, <2>5, <2>6
<1>2. CASE ~(i \in DOMAIN control /\ control'[i] = control[i])
  <2>1. /\ m \in Msgs /\ Asks(p, m) /\ \A j \in DOMAIN control' : ~(i < j)
        BY <1>2, ControlFacts
  <2>2. m.launch \in SomeSuit /\ m.wake \in SomeSuit
        BY <2>1 DEF Msgs
  <2>3. /\ m.slot = slot[p] /\ m.who = p /\ slot'[p] = slot[p] /\ pc'[p] = "seating"
        /\ m.launch # NoSuit => life[m.launch] = "queued" /\ owner[m.launch] = p
        /\ m.wake # NoSuit => owner[m.wake] = p
        BY <2>1 DEF Asks
  <2>4. /\ m.launch # NoSuit => life'[m.launch] = "queued" /\ owner'[m.launch] = p
        /\ m.wake # NoSuit => owner'[m.wake] = p
        BY <2>2, <2>3, LaunchFacts DEF SomeSuit
  <2> QED BY <2>1, <2>3, <2>4
<1> QED BY <1>1, <1>2

LEMMA SessionClient == ASSUME NEW p \in Pilots, SessionStep(p) PROVE ClientInv'
<1>1. client' = client
      BY SessionFacts
<1> SUFFICES ASSUME NEW s \in Slots, client[s].active
             PROVE  /\ life'[client[s].suit] \in {"cradle", "flying", "wreck"}
                    /\ client[s].lost => life'[client[s].suit] = "wreck"
                    /\ \E q \in Pilots : Seats(q, s)'
    BY <1>1 DEF ClientInv
<1>2. client[s].suit \in Ids
      BY DEF SessionStep, TypeInv, SectorTypes
<1>3. /\ life[client[s].suit] \in {"cradle", "flying", "wreck"}
      /\ client[s].lost => life[client[s].suit] = "wreck"
      /\ \E q \in Pilots : Seats(q, s)
      BY DEF SessionStep, CalmInv, ClientInv
<1>4. PICK q \in Pilots : Seats(q, s)
      BY <1>3
<1>5. life'[client[s].suit] = life[client[s].suit] /\ owner'[client[s].suit] = owner[client[s].suit]
      BY <1>2, <1>3, LaunchFacts
<1>6. Seats(q, s)'
  <2>1. CASE q = p
    <3>1. suit'[p] # NoSuit
          BY <1>4, <2>1 DEF Seats, SessionStep, PilotFits
    <3>2. slot'[p] = s
          BY <1>4, <2>1, <3>1 DEF Seats, SessionStep, PilotFits
    <3> QED BY <1>1, <1>4, <1>5, <2>1, <3>1, <3>2 DEF Seats
  <2>2. CASE q # p
        BY <1>1, <1>4, <1>5, <2>2, OthersAre DEF Seats
  <2> QED BY <2>1, <2>2
<1> QED BY <1>3, <1>5, <1>6

LEMMA SessionOwn == ASSUME NEW p \in Pilots, SessionStep(p) PROVE OwnInv'
<1>1. UNCHANGED <<todo, status, client, claim>>
      BY SessionFacts
<1>2. \A q \in Pilots : Own(q, sleeper[q])' /\ Own(q, suit[q])'
  <2> SUFFICES ASSUME NEW q \in Pilots PROVE Own(q, sleeper[q])' /\ Own(q, suit[q])'
      OBVIOUS
  <2>1. sleeper'[q] \in SomeSuit /\ suit'[q] \in SomeSuit
        BY DEF SessionStep, TypeInv, TaskTypes
  <2>2. PICK a \in SomeSuit, b \in SomeSuit : a = sleeper'[q] /\ b = suit'[q]
        BY <2>1
  <2>3. Own(q, a) /\ Own(q, b)
    <3>1. CASE q # p
          BY <2>2, <3>1, OthersAre DEF SessionStep, CalmInv, OwnInv
    <3>2. CASE q = p
          BY <2>2, <3>2 DEF SessionStep, PilotFits
    <3> QED BY <3>1, <3>2
  <2>4. Own(q, a)' /\ Own(q, b)'
        BY <2>3, LaunchFacts
  <2> QED BY <2>2, <2>4 DEF Own
<1>3. ASSUME NEW q \in Pilots, Aboard(q)'
      PROVE  /\ \A i \in DOMAIN todo : IsStore(todo[i], slot'[q]) => Own(q, todo[i].val.suit)'
             /\ ~Bumping(slot[q])' => Own(q, status[slot[q]].suit)'
  <2>1. Aboard(q) /\ slot'[q] = slot[q] /\ slot[q] \in Slots
    <3>1. pc'[q] # "away"
          BY <1>3, SessionPhase DEF Aboard, Seat, PhaseInv
    <3>2. slot'[q] \in Slots
          BY <3>1 DEF SessionStep, TypeInv, LeaseInv
    <3>3. CASE q = p
          BY <1>3, <3>2, <3>3 DEF Aboard, SessionStep, PilotFits
    <3>4. CASE q # p
          BY <1>3, <3>2, <3>4, OthersAre, SessionFacts
    <3> QED BY <3>3, <3>4
  <2>2. PICK s \in Slots : s = slot[q]
        BY <2>1
  <2>3. /\ \A i \in DOMAIN todo : IsStore(todo[i], s) => Own(q, todo[i].val.suit)
        /\ ~Bumping(s) => Own(q, status[s].suit)
        BY <2>1, <2>2 DEF SessionStep, CalmInv, OwnInv
  <2>4. status[s].suit \in SomeSuit
        BY DEF SessionStep, TypeInv, QueueTypes, Statuses
  <2>5. \A i \in DOMAIN todo : IsStore(todo[i], s) => todo[i].val.suit \in SomeSuit
        BY DEF SessionStep, CalmInv, StatusInv, Whole
  <2>6. Bumping(s)' <=> Bumping(s)
        BY SessionFacts
  <2>7. Bumping(slot[q])' <=> Bumping(s)'
        BY <2>1, <2>2 DEF Bumping
  <2>8. \A id \in SomeSuit : Own(q, id) => Own(q, id)'
        BY LaunchFacts
  <2>9. \A i \in DOMAIN todo : IsStore(todo[i], s) => Own(q, todo[i].val.suit)'
    <3> SUFFICES ASSUME NEW i \in DOMAIN todo, IsStore(todo[i], s) PROVE Own(q, todo[i].val.suit)'
        OBVIOUS
    <3>1. PICK id \in SomeSuit : id = todo[i].val.suit
          BY <2>5
    <3>2. Own(q, id)'
          BY <2>3, <2>8, <3>1
    <3> QED BY <1>1, <3>1, <3>2 DEF Own
  <2>10. ~Bumping(s) => Own(q, status[s].suit)'
    <3>1. PICK id \in SomeSuit : id = status[s].suit
          BY <2>4
    <3>2. ~Bumping(s) => Own(q, id)'
          BY <2>3, <2>8, <3>1
    <3> QED BY <1>1, <3>1, <3>2 DEF Own
  <2>11. Own(q, status[slot[q]].suit)' <=> Own(q, status[s].suit)'
         BY <2>1, <2>2 DEF Own
  <2> QED BY <2>1, <2>2, <2>6, <2>7, <2>9, <2>10, <2>11
<1> QED BY <1>1, <1>2, <1>3 DEF OwnInv, Own

LEMMA SessionMsg == ASSUME NEW p \in Pilots, SessionStep(p) PROVE MsgInv'
<1>1. UNCHANGED <<todo, status, client, claim>>
      BY SessionFacts
<1>2. \A i \in DOMAIN control' : control'[i].slot \in Slots /\ control'[i].who \in Pilots
      BY ControlFacts DEF Msgs
<1>3. ASSUME NEW i \in DOMAIN control', control'[i].op = "Sleep", NEW s \in Slots, s = control'[i].slot
      PROVE  ~client[s].active \/ In(s, "freeing")'
  <2>1. CASE i \in DOMAIN control /\ control'[i] = control[i]
    <3>1. ~client[s].active \/ In(s, "freeing")
          BY <1>3, <2>1 DEF SessionStep, CalmInv, MsgInv
    <3>2. In(s, "freeing") => In(s, "freeing")' \/ (slot[p] = s /\ Leaves(p, "freeing"))
          BY SessionFacts
    <3> QED BY <3>1, <3>2 DEF SessionStep, PilotFits
  <2>2. CASE ~(i \in DOMAIN control /\ control'[i] = control[i])
    <3>1. Asks(p, control'[i])
          BY <2>2, ControlFacts
    <3>2. slot'[p] = s /\ pc'[p] = "freeing"
          BY <1>3, <3>1 DEF Asks
    <3> QED BY <3>2 DEF In
  <2> QED BY <2>1, <2>2
<1>4. ASSUME NEW i \in DOMAIN control', control'[i].op = "Dock", NEW s \in Slots, s = control'[i].slot
      PROVE  /\ slot'[control'[i].who] = s /\ pc'[control'[i].who] = "docking"
             /\ ~Flying(s, Answers)'
             /\ \A j \in DOMAIN control' : control'[j].op = "Dock" /\ control'[j].slot = s => i = j
  <2>1. ASSUME NEW m, Asks(p, m), m.op = "Dock", m.slot = s
        PROVE  /\ slot'[p] = s /\ slot[p] = s /\ pc[p] = "play" /\ pc'[p] = "docking" /\ m.who = p
               /\ ~Flying(s, Answers)
               /\ \A j \in DOMAIN control : ~(control[j].op = "Dock" /\ control[j].slot = s)
    <3>1. /\ slot'[p] = s /\ slot[p] = s /\ pc[p] = "play" /\ pc'[p] = "docking" /\ m.who = p
          BY <2>1 DEF Asks
    <3>2. ~In(s, "docking") /\ ~In(s, "freeing")
          BY <3>1, SessionFacts DEF In
    <3>3. ~Flying(s, {"Home"}) /\ ~Flying(s, {"DockRefused"})
          BY <3>2 DEF SessionStep, CalmInv, FlightInv
    <3>4. ~Flying(s, Answers)
          BY <3>3 DEF Flying, Owed, Rung, Tells, Answers
    <3>5. ASSUME NEW j \in DOMAIN control, control[j].op = "Dock", control[j].slot = s PROVE FALSE
      <4>1. slot[control[j].who] = s /\ pc[control[j].who] = "docking" /\ control[j].who \in Pilots
            BY <3>5, ControlFacts DEF SessionStep, CalmInv, MsgInv, Msgs
      <4> QED BY <3>2, <4>1 DEF In
    <3> QED BY <3>1, <3>4, <3>5
  <2>2. CASE i \in DOMAIN control /\ control'[i] = control[i]
    <3>1. /\ slot[control[i].who] = s /\ pc[control[i].who] = "docking" /\ ~Flying(s, Answers)
          /\ \A j \in DOMAIN control : control[j].op = "Dock" /\ control[j].slot = s => i = j
          BY <1>4, <2>2 DEF SessionStep, CalmInv, MsgInv
    <3>2. ~Flying(s, Answers)'
          BY <3>1, SessionFacts
    <3>3. slot'[control[i].who] = s /\ pc'[control[i].who] = "docking"
      <4>1. CASE control[i].who = p
            BY <1>4, <2>2, <3>1, <4>1 DEF SessionStep, PilotFits, Leaves
      <4>2. CASE control[i].who # p
        <5>1. control[i].who \in Pilots
              BY <1>2, <2>2
        <5> QED BY <3>1, <4>2, <5>1, OthersAre
      <4> QED BY <4>1, <4>2
    <3>4. ASSUME NEW j \in DOMAIN control', control'[j].op = "Dock", control'[j].slot = s PROVE i = j
      <4>1. CASE j \in DOMAIN control /\ control'[j] = control[j]
            BY <3>1, <3>4, <4>1
      <4>2. CASE Asks(p, control'[j])
            BY <1>4, <2>1, <2>2, <3>4, <4>2
      <4> QED BY <4>1, <4>2, ControlFacts
    <3> QED BY <2>2, <3>2, <3>3, <3>4
  <2>3. CASE ~(i \in DOMAIN control /\ control'[i] = control[i])
    <3>1. /\ Asks(p, control'[i]) /\ \A j \in DOMAIN control' : j = i \/ j \in DOMAIN control
          /\ i \notin DOMAIN control
          BY <2>3, ControlFacts
    <3>2. /\ slot'[p] = s /\ pc'[p] = "docking" /\ control'[i].who = p
          /\ ~Flying(s, Answers)
          /\ \A j \in DOMAIN control : ~(control[j].op = "Dock" /\ control[j].slot = s)
          BY <1>4, <2>1, <3>1
    <3>3. ~Flying(s, Answers)'
          BY <3>2, SessionFacts
    <3>4. ASSUME NEW j \in DOMAIN control', control'[j].op = "Dock", control'[j].slot = s PROVE i = j
      <4>1. SUFFICES ASSUME j # i PROVE FALSE
            OBVIOUS
      <4>2. j \in DOMAIN control
            BY <3>1, <4>1
      <4>3. control'[j] = control[j]
            BY <4>2, ControlFacts
      <4> QED BY <3>2, <3>4, <4>2, <4>3
    <3> QED BY <3>2, <3>3, <3>4
  <2> QED BY <2>2, <2>3
<1>5. \A i \in DOMAIN control', s \in Slots : s = control'[i].slot =>
          /\ control'[i].op = "Sleep" => ~client[s].active \/ In(s, "freeing")'
          /\ control'[i].op = "Dock" =>
                /\ slot'[control'[i].who] = s /\ pc'[control'[i].who] = "docking"
                /\ ~Flying(s, Answers)'
                /\ \A j \in DOMAIN control' : control'[j].op = "Dock" /\ control'[j].slot = s => i = j
      BY <1>3, <1>4
<1> QED BY <1>1, <1>2, <1>5 DEF MsgInv

-----------------------------------------------------------------------------
LEMMA SessionFlight == ASSUME NEW p \in Pilots, SessionStep(p) PROVE FlightInv'
<1>1. UNCHANGED <<todo, status, client, claim>>
      BY SessionFacts
<1> SUFFICES ASSUME NEW s \in Slots
             PROVE  /\ Flying(s, Says)' => \E q \in Pilots : slot'[q] = s /\ Aboard(q)'
                    /\ Flying(s, {"DockRefused"})' => In(s, "docking")'
                    /\ Flying(s, {"Home"})' => /\ In(s, "docking")' \/ In(s, "freeing")'
                                               /\ ~client[s].active /\ ~Flying(s, Losses)'
                                               /\ \A q \in Pilots : slot'[q] = s => ~lost'[q]
                    /\ Flying(s, {"Parked"})' => In(s, "freeing")'
                    /\ Flying(s, Losses)' => /\ client[s].active => client[s].lost
                                             /\ \A q \in Pilots : slot'[q] = s =>
                                                   ~lost'[q] /\ (Seat(q)' => client[s].active)
                    /\ \A q \in Pilots : slot'[q] = s /\ lost'[q] /\ client[s].active => client[s].lost
    BY <1>1 DEF FlightInv
<1>2. /\ Flying(s, Says) => \E q \in Pilots : slot[q] = s /\ Aboard(q)
      /\ Flying(s, {"DockRefused"}) => In(s, "docking")
      /\ Flying(s, {"Home"}) => /\ In(s, "docking") \/ In(s, "freeing")
                                /\ ~client[s].active /\ ~Flying(s, Losses)
                                /\ \A q \in Pilots : slot[q] = s => ~lost[q]
      /\ Flying(s, {"Parked"}) => In(s, "freeing")
      /\ Flying(s, Losses) => /\ client[s].active => client[s].lost
                              /\ \A q \in Pilots : slot[q] = s =>
                                    ~lost[q] /\ (Seat(q) => client[s].active)
      /\ \A q \in Pilots : slot[q] = s /\ lost[q] /\ client[s].active => client[s].lost
      BY DEF SessionStep, CalmInv, FlightInv
<1>3. \A what : Flying(s, what)' => Flying(s, what)
      BY SessionFacts
<1>4. /\ Flying(s, {"Home"})' => Flying(s, Says)' /\ Flying(s, Answers)'
      /\ Flying(s, {"DockRefused"})' => Flying(s, Answers)'
      /\ Flying(s, {"Parked"})' => Flying(s, Says)'
      BY DEF Flying, Owed, Rung, Tells, Says, Answers
<1>5. ASSUME slot[p] = s
      PROVE  /\ Aboard(p) /\ suit'[p] = NoSuit => ~Flying(s, Says)'
             /\ Leaves(p, "docking") => ~Flying(s, Answers)'
             /\ Leaves(p, "freeing") => suit'[p] = NoSuit /\ Aboard(p)
             /\ lost'[p] /\ ~lost[p] => /\ ~Flying(s, Losses)' /\ ~Flying(s, {"Home"})'
                                        /\ client[s].active => client[s].lost
  <2>1. Leaves(p, "freeing") => Aboard(p)
        BY DEF SessionStep, CalmInv, PhaseInv, Leaves, Aboard
  <2> QED BY <1>5, <2>1 DEF SessionStep, PilotFits
<1>6. \A phase : In(s, phase) => In(s, phase)' \/ (slot[p] = s /\ Leaves(p, phase))
      BY SessionFacts
<1>7. lost'[p] /\ slot'[p] = s => slot[p] = s
      BY DEF SessionStep, PilotFits
<1>8. ~Seat(p)'
      BY DEF SessionStep, PilotFits
<1>9. \A q \in Pilots : q # p =>
          /\ slot'[q] = slot[q] /\ lost'[q] = lost[q]
          /\ slot[q] = s => (Seat(q)' <=> Seat(q)) /\ (Aboard(q)' <=> Aboard(q))
      BY OthersAre, SessionFacts
<1>a. ASSUME Flying(s, Says)' PROVE \E q \in Pilots : slot'[q] = s /\ Aboard(q)'
  <2>1. PICK q \in Pilots : slot[q] = s /\ Aboard(q)
        BY <1>2, <1>3, <1>a
  <2>2. CASE q # p
        BY <1>9, <2>1, <2>2
  <2>3. CASE q = p
    <3>1. suit'[p] # NoSuit
          BY <1>5, <1>a, <2>1, <2>3
    <3>2. slot'[p] = s
          BY <2>1, <2>3, <3>1 DEF SessionStep, PilotFits
    <3> QED BY <3>1, <3>2 DEF Aboard
  <2> QED BY <2>2, <2>3
<1>b. Flying(s, {"DockRefused"})' => In(s, "docking")'
      BY <1>2, <1>3, <1>4, <1>5, <1>6
<1>c. ASSUME Flying(s, {"Home"})'
      PROVE  /\ In(s, "docking")' \/ In(s, "freeing")'
             /\ ~client[s].active /\ ~Flying(s, Losses)'
             /\ \A q \in Pilots : slot'[q] = s => ~lost'[q]
  <2>1. /\ In(s, "docking") \/ In(s, "freeing")
        /\ ~client[s].active /\ ~Flying(s, Losses)
        /\ \A q \in Pilots : slot[q] = s => ~lost[q]
        BY <1>2, <1>3, <1>c
  <2>2. In(s, "docking")' \/ In(s, "freeing")'
        BY <1>4, <1>5, <1>6, <1>c, <2>1
  <2>3. \A q \in Pilots : slot'[q] = s => ~lost'[q]
        BY <1>5, <1>7, <1>9, <1>c, <2>1
  <2> QED BY <1>3, <2>1, <2>2, <2>3
<1>d. Flying(s, {"Parked"})' => In(s, "freeing")'
      BY <1>2, <1>3, <1>4, <1>5, <1>6
<1>e. ASSUME Flying(s, Losses)'
      PROVE  /\ client[s].active => client[s].lost
             /\ \A q \in Pilots : slot'[q] = s => ~lost'[q] /\ (Seat(q)' => client[s].active)
  <2>1. /\ client[s].active => client[s].lost
        /\ \A q \in Pilots : slot[q] = s => ~lost[q] /\ (Seat(q) => client[s].active)
        BY <1>2, <1>3, <1>e
  <2>2. ASSUME NEW q \in Pilots, slot'[q] = s PROVE ~lost'[q] /\ (Seat(q)' => client[s].active)
    <3>1. CASE q # p
          BY <1>9, <2>1, <2>2, <3>1
    <3>2. CASE q = p
          BY <1>5, <1>7, <1>8, <1>e, <2>1, <2>2, <3>2
    <3> QED BY <3>1, <3>2
  <2> QED BY <2>1, <2>2
<1>f. \A q \in Pilots : slot'[q] = s /\ lost'[q] /\ client[s].active => client[s].lost
      BY <1>2, <1>5, <1>7, <1>9
<1> QED BY <1>a, <1>b, <1>c, <1>d, <1>e, <1>f

LEMMA SessionOf == ASSUME NEW p \in Pilots, SessionStep(p) PROVE OfInv'
<1>1. todo' = todo
      BY SessionFacts
<1> SUFFICES ASSUME NEW s \in Slots, NEW q \in Pilots, slot'[q] = s
             PROVE  /\ \A i \in DOMAIN todo : Tells(todo[i], s, Says) => todo[i].val.of = q
                    /\ \A i \in DOMAIN reports'[s] : reports'[s][i].what \in Says => reports'[s][i].of = q
    BY <1>1 DEF OfInv
<1>2. PICK f : \A i \in DOMAIN reports'[s] : f[i] \in DOMAIN reports[s] /\ reports'[s][i] = reports[s][f[i]]
      BY ReportsLeft DEF SessionStep, SessionMoves, TypeInv
<1>3. CASE slot[q] = s
  <2>1. /\ \A i \in DOMAIN todo : Tells(todo[i], s, Says) => todo[i].val.of = q
        /\ \A i \in DOMAIN reports[s] : reports[s][i].what \in Says => reports[s][i].of = q
        BY <1>3 DEF SessionStep, CalmInv, OfInv
  <2> QED BY <1>2, <2>1
<1>4. CASE slot[q] # s
  <2>1. q = p
        BY <1>4, OthersAre
  <2>2. ~Flying(s, Says)
        BY <1>4, <2>1 DEF SessionStep, PilotFits
  <2> QED BY <1>2, <2>2 DEF Flying, Owed, Rung
<1> QED BY <1>3, <1>4

LEMMA SessionOnce == ASSUME NEW p \in Pilots, SessionStep(p) PROVE OnceInv'
<1>1. ASSUME NEW what, Once(what) PROVE Once(what)'
  <2>1. todo' = todo
        BY SessionFacts
  <2> SUFFICES ASSUME NEW s \in Slots
               PROVE  /\ \A i, j \in DOMAIN reports'[s] :
                            reports'[s][i].what \in what /\ reports'[s][j].what \in what => i = j
                      /\ \A i, j \in DOMAIN todo : Tells(todo[i], s, what) /\ Tells(todo[j], s, what) => i = j
                      /\ ~(Owed(s, what)' /\ Rung(s, what)')
      BY <2>1 DEF Once
  <2>2. PICK f : /\ \A i \in DOMAIN reports'[s] :
                        f[i] \in DOMAIN reports[s] /\ reports'[s][i] = reports[s][f[i]]
                 /\ \A i, j \in DOMAIN reports'[s] : f[i] = f[j] => i = j
        BY ReportsLeft DEF SessionStep, SessionMoves, TypeInv
  <2>3. \A i, j \in DOMAIN reports'[s] :
            reports'[s][i].what \in what /\ reports'[s][j].what \in what => i = j
        BY <1>1, <2>2 DEF Once
  <2>4. ~(Owed(s, what)' /\ Rung(s, what)')
        BY <1>1, SessionFacts DEF Once
  <2> QED BY <1>1, <2>3, <2>4 DEF Once
<1> QED BY <1>1 DEF SessionStep, CalmInv, OnceInv

LEMMA SessionOrder == ASSUME NEW p \in Pilots, SessionStep(p) PROVE OrderInv'
<1>1. todo' = todo /\ status' = status
      BY SessionFacts
<1> SUFFICES ASSUME NEW s \in Slots, NEW j \in DOMAIN todo, Tells(todo[j], s, Says),
                    status[s].state = "Free" \/ \E i \in DOMAIN todo : i < j /\ IsStore(todo[i], s)
             PROVE  Tells(todo[j], s, Answers) /\ In(s, "docking")'
    BY <1>1 DEF OrderInv
<1>2. Tells(todo[j], s, Answers) /\ In(s, "docking")
      BY DEF SessionStep, CalmInv, OrderInv
<1>3. Owed(s, Answers)
      BY <1>2 DEF Owed
<1>4. In(s, "docking")' \/ (slot[p] = s /\ Leaves(p, "docking"))
      BY <1>2, SessionFacts
<1> QED BY <1>2, <1>3, <1>4 DEF SessionStep, PilotFits

LEMMA SessionClaim == ASSUME NEW p \in Pilots, SessionStep(p) PROVE ClaimInv'
<1>1. todo' = todo /\ claim' = claim
      BY SessionFacts
<1> SUFFICES ASSUME ~Ejects
             PROVE  /\ \A i \in DOMAIN control' : control'[i].op # "Eject"
                    /\ \A s \in Slots : \A i \in DOMAIN reports'[s] : reports'[s][i].what \in Says
    BY <1>1 DEF ClaimInv, SessionStep, CalmInv
<1>2. /\ \A i \in DOMAIN control : control[i].op # "Eject"
      /\ \A s \in Slots : \A i \in DOMAIN reports[s] : reports[s][i].what \in Says
      BY DEF ClaimInv, SessionStep, CalmInv
<1>3. \A i \in DOMAIN control' : control'[i].op # "Eject"
      BY <1>2, ControlFacts DEF Asks
<1>4. ASSUME NEW s \in Slots PROVE \A i \in DOMAIN reports'[s] : reports'[s][i].what \in Says
  <2>1. PICK f : \A i \in DOMAIN reports'[s] : f[i] \in DOMAIN reports[s] /\ reports'[s][i] = reports[s][f[i]]
        BY ReportsLeft DEF SessionStep, SessionMoves, TypeInv
  <2> QED BY <1>2, <2>1
<1> QED BY <1>3, <1>4

(* A session's step that fits its pilot keeps all that holds. *)
LEMMA SessionCalm == ASSUME NEW p \in Pilots, SessionStep(p) PROVE CalmInv'
<1>1. PhaseInv' /\ StatusInv' /\ SeatInv' /\ JoinInv' /\ LaunchInv' /\ ClientInv' /\ OwnInv'
      BY SessionPhase, SessionStatus, SessionSeat, SessionJoin, LaunchFacts, SessionClient, SessionOwn
<1>2. MsgInv' /\ FlightInv' /\ OfInv' /\ OnceInv' /\ OrderInv' /\ ClaimInv'
      BY SessionMsg, SessionFlight, SessionOf, SessionOnce, SessionOrder, SessionClaim
<1> QED BY <1>1, <1>2 DEF CalmInv

-----------------------------------------------------------------------------
(* A step that leaves pilot p as they are, but for where their session is, and what it
   has read. *)
Plain(p) ==
    /\ slot'[p] = slot[p] /\ suit'[p] = suit[p] /\ sleeper'[p] \in {sleeper[p], NoSuit}
    /\ pc[p] \notin {"asking", "seating"} /\ pc'[p] \notin {"asking", "seating"}
    /\ suit[p] # NoSuit => pc'[p] \in {"entered", "play", "docking", "freeing"}
    /\ pc'[p] \in {"docking", "freeing"} => suit[p] # NoSuit
    /\ pc[p] = "freeing" => pc'[p] = "freeing"
    /\ \A s \in Slots : slot[p] = s =>
          /\ pc[p] = "docking" /\ pc'[p] # "docking" =>
                /\ ~Flying(s, Answers)' /\ ~Owed(s, Answers)
                /\ \A i \in DOMAIN control : ~(control[i].op = "Dock" /\ control[i].slot = s)
          /\ lost'[p] => \/ lost[p]
                         \/ /\ ~Flying(s, Losses)' /\ ~Flying(s, {"Home"})'
                            /\ client[s].active => client[s].lost
    /\ lost'[p] => suit[p] # NoSuit

LEMMA PlainFits == ASSUME TypeInv, CalmInv, NEW p \in Pilots, Plain(p) PROVE PilotFits(p)
<1>1. /\ ~Seat(p) /\ ~Seat(p)' /\ (Aboard(p) <=> suit[p] # NoSuit)
      BY DEF Plain, Seat, Aboard
<1>2. Own(p, sleeper'[p]) /\ Own(p, suit'[p])
  <2>1. Own(p, sleeper[p]) /\ Own(p, suit[p]) /\ Own(p, NoSuit)
        BY DEF CalmInv, OwnInv, Own
  <2> QED BY <2>1 DEF Plain
<1>3. \A s \in Slots : slot[p] = s =>
          /\ client[s].active /\ (pc[p] = "seating" \/ suit[p] # NoSuit) => suit'[p] # NoSuit
          /\ Aboard(p) /\ suit'[p] = NoSuit => ~Flying(s, Says)'
          /\ Leaves(p, "docking") =>
                /\ ~Flying(s, Answers)' /\ ~Owed(s, Answers)
                /\ \A i \in DOMAIN control : ~(control[i].op = "Dock" /\ control[i].slot = s)
          /\ Leaves(p, "freeing") => ~client[s].active /\ suit'[p] = NoSuit
          /\ lost'[p] /\ ~lost[p] => /\ ~Flying(s, Losses)' /\ ~Flying(s, {"Home"})'
                                     /\ client[s].active => client[s].lost
      BY <1>1 DEF Plain, Leaves
<1> QED BY <1>1, <1>2, <1>3 DEF Plain, PilotFits

(* A step by which pilot p has their suit no longer. *)
Sheds(p) ==
    /\ suit'[p] = NoSuit /\ ~lost'[p] /\ slot'[p] = slot[p] /\ Own(p, sleeper'[p])
    /\ pc[p] \in {"play", "docking", "freeing"} /\ pc'[p] \in {"play", "towing", "returning"}
    /\ \A s \in Slots : slot[p] = s =>
          /\ ~client[s].active /\ ~Flying(s, Says)'
          /\ pc[p] = "docking" =>
                /\ ~Owed(s, Answers)
                /\ \A i \in DOMAIN control : ~(control[i].op = "Dock" /\ control[i].slot = s)

LEMMA ShedsFits == ASSUME NEW p \in Pilots, Sheds(p) PROVE PilotFits(p)
<1>1. ~Seat(p)'
      BY DEF Sheds, Seat
<1>2. \A s \in Slots : ~Flying(s, Says)' => ~Flying(s, Answers)'
      BY DEF Flying, Owed, Rung, Tells, Says, Answers
<1>3. Own(p, suit'[p])
      BY DEF Own, Sheds
<1> QED BY <1>1, <1>2, <1>3 DEF Sheds, PilotFits, Leaves

(* A slot published free has nobody seated. *)
LEMMA FreeIs ==
    ASSUME TypeInv, CalmInv, NEW p \in Pilots, NEW s \in Slots, slot[p] = s, pc[p] # "seating"
    PROVE  ~Bumping(s) /\ (status[s].state = "Free" => ~client[s].active)
<1>1. ~Bumping(s)
  <2>1. SUFFICES ASSUME Bumping(s) PROVE FALSE
        OBVIOUS
  <2>2. PICK q \in Pilots : slot[q] = s /\ Seat(q)
        BY <2>1 DEF CalmInv, StatusInv
  <2>3. q = p
        BY <2>2, OneSession DEF TypeInv
  <2> QED BY <2>2, <2>3 DEF Seat
<1>2. ASSUME status[s].state = "Free", client[s].active PROVE FALSE
  <2>1. Storing(s)
        BY <1>2 DEF CalmInv, StatusInv, Shows
  <2>2. PICK i \in DOMAIN todo : IsStore(todo[i], s)
        BY <2>1 DEF Storing
  <2>3. Shows(todo[i].val, client[s]) /\ todo[i].bump = IF todo[i].val.state = "Free" THEN 0 ELSE 1
        BY <2>2 DEF CalmInv, StatusInv
  <2>4. todo[i].bump = 1
        BY <1>2, <2>3 DEF Shows
  <2> QED BY <1>1, <2>2, <2>4 DEF Bumping
<1> QED BY <1>1, <1>2

(* The first of the reports, read, was the only one of its kind. *)
LEMMA HeadOnly ==
    ASSUME QueueTypes, NEW what, Once(what), NEW s \in Slots, reports[s] # <<>>,
           reports'[s] = Tail(reports[s]), todo' = todo, Head(reports[s]).what \in what
    PROVE  ~Flying(s, what)' /\ Flying(s, what) /\ ~Owed(s, what)
<1>1. reports[s] \in Seq(Tellings)
      BY DEF QueueTypes
<1>2. /\ Head(reports[s]) = reports[s][1] /\ 1 \in DOMAIN reports[s]
      /\ DOMAIN Tail(reports[s]) = 1..(Len(reports[s]) - 1) /\ Len(reports[s]) \in Nat
      /\ \A i \in DOMAIN Tail(reports[s]) :
            Tail(reports[s])[i] = reports[s][i + 1] /\ i + 1 \in DOMAIN reports[s]
  <2> HIDE DEF Tellings
  <2> QED BY <1>1, TailIs
<1>3. \A i \in DOMAIN Tail(reports[s]) : i + 1 # 1
      BY <1>2
<1>4. Rung(s, what) /\ ~Owed(s, what)
      BY <1>2 DEF Rung, Once
<1>5. ~Owed(s, what)'
      BY <1>4 DEF Owed
<1>6. ~Rung(s, what)'
      BY <1>2, <1>3 DEF Rung, Once
<1> QED BY <1>4, <1>5, <1>6 DEF Flying

(* What is on its way to a session only dwindles as it reads. *)
LEMMA FlyingLeft ==
    ASSUME QueueTypes, NEW p \in Pilots, SessionMoves(p), NEW t \in Slots, NEW what, Flying(t, what)'
    PROVE  Flying(t, what)
<1>1. Owed(t, what)' => Owed(t, what)
      BY DEF SessionMoves, Owed
<1>2. PICK f : \A i \in DOMAIN reports'[t] : f[i] \in DOMAIN reports[t] /\ reports'[t][i] = reports[t][f[i]]
      BY ReportsLeft DEF SessionMoves
<1> QED BY <1>1, <1>2 DEF Flying, Rung

-----------------------------------------------------------------------------
LEMMA AskMoves ==
    ASSUME TypeInv, CalmInv, NEW p \in Pilots, Ask(p)
    PROVE  SessionMoves(p) /\ PilotFits(p)
<1>1. /\ pc[p] = "asking" /\ pc' = [pc EXCEPT ![p] = "seating"]
      /\ UNCHANGED <<todo, status, client, claim, reports, life, owner, launched, slot, suit, lost,
                     seen, sleeper>>
      /\ pc \in [Pilots -> PCs]
      BY DEF Ask, sector, sim, record, TypeInv, LeaseInv
<1>2. slot[p] \in Slots /\ sleeper[p] \in SomeSuit /\ LastSuit(p) \in SomeSuit /\ NoSuit \in SomeSuit
      BY <1>1, LastSuitType DEF TypeInv, LeaseInv, TaskTypes, SomeSuit
<1>3. PICK s \in Slots : s = slot[p]
      BY <1>2
<1>4. pc'[p] = "seating" /\ \A q \in Pilots : q # p => pc'[q] = pc[q]
      BY <1>1
<1>5. PICK m \in Msgs : Asks(p, m) /\ m.op = "Join" /\ m.slot = s /\ control' = Append(control, m)
  <2>1. PICK wake \in SomeSuit, launch \in SomeSuit :
           /\ control' = Append(control, Msg("Join", slot[p], p, wake, launch))
           /\ launch # NoSuit => life[launch] = "queued" /\ owner[launch] = p
           /\ wake # NoSuit => owner[wake] = p
    <3>1. CASE sleeper[p] # NoSuit
      <4>1. owner[sleeper[p]] = p
            BY <3>1 DEF CalmInv, OwnInv, Own
      <4> QED BY <1>2, <3>1, <4>1 DEF Ask, Push
    <3>2. CASE sleeper[p] = NoSuit
      <4>1. LastSuit(p) # NoSuit => life[LastSuit(p)] = "queued"
            BY <1>1, <3>2 DEF CalmInv, SeatInv
      <4>2. LastSuit(p) # NoSuit => owner[LastSuit(p)] = p
            BY LastSuitIs
      <4> QED BY <1>2, <3>2, <4>1, <4>2 DEF Ask, Push
    <3> QED BY <3>1, <3>2
  <2> DEFINE m == Msg("Join", slot[p], p, wake, launch)
  <2>2. m \in Msgs
        BY <1>2, MsgIs DEF Ops
  <2>3. m.op = "Join" /\ m.slot = slot[p] /\ m.who = p /\ m.wake = wake /\ m.launch = launch
        BY DEF Msg
  <2>4. Asks(p, m)
        BY <1>1, <1>4, <2>1, <2>3 DEF Asks
  <2> QED BY <1>3, <2>1, <2>2, <2>3, <2>4
<1>6. SessionMoves(p)
      BY <1>1, <1>4, <1>5 DEF SessionMoves
<1>7. Joining(s)'
  <2>1. PICK n \in Nat : n \in DOMAIN control' /\ control'[n] = m
        BY <1>5, AskedAfter DEF TypeInv
  <2> QED BY <1>5, <2>1 DEF Joining
<1>8. ~Seat(p)'
      BY <1>1, <1>3, <1>7 DEF Seat, Joining
<1>9. suit[p] = NoSuit /\ ~lost[p] /\ ~Seat(p) /\ ~Aboard(p)
  <2>1. suit[p] = NoSuit /\ ~lost[p]
        BY <1>1 DEF CalmInv, PhaseInv
  <2> QED BY <1>1, <2>1 DEF Seat, Aboard
<1>10. ~client[slot[p]].active /\ status[slot[p]].epoch = seen[p]
       BY <1>1 DEF CalmInv, SeatInv
<1>11. Own(p, sleeper[p]) /\ Own(p, suit[p])
       BY DEF CalmInv, OwnInv
<1> QED BY <1>1, <1>4, <1>6, <1>8, <1>9, <1>10, <1>11 DEF PilotFits, Leaves

(* The other messages a session sends. *)
LEMMA SendMoves ==
    ASSUME TypeInv, CalmInv, NEW p \in Pilots, Dock(p) \/ Eject(p) \/ Leave(p) \/ AskTow(p)
    PROVE  SessionMoves(p) /\ PilotFits(p)
<1>1. /\ pc[p] \in {"play", "towing"}
      /\ UNCHANGED <<todo, status, client, claim, reports, life, owner, launched, slot, suit, lost,
                     seen, sleeper>>
      /\ pc \in [Pilots -> PCs]
      BY DEF Dock, Eject, Leave, AskTow, sector, sim, record, session, TypeInv, LeaseInv
<1>2. slot[p] \in Slots /\ NoSuit \in SomeSuit
      BY <1>1 DEF TypeInv, LeaseInv, SomeSuit
<1>3. \A q \in Pilots : q # p => pc'[q] = pc[q]
      BY <1>1 DEF Dock, Eject, Leave, AskTow, session
<1>4. control' = control \/ \E m \in Msgs : Asks(p, m) /\ control' = Append(control, m)
  <2>1. ASSUME NEW op \in Ops,
               control' = control \/ control' = Append(control, Msg(op, slot[p], p, NoSuit, NoSuit)),
               op # "Join", op = "Sleep" => pc'[p] = "freeing",
               op = "Dock" => pc[p] = "play" /\ pc'[p] = "docking", op = "Eject" => Ejects
        PROVE  control' = control \/ \E m \in Msgs : Asks(p, m) /\ control' = Append(control, m)
    <3> DEFINE m == Msg(op, slot[p], p, NoSuit, NoSuit)
    <3>1. m \in Msgs
          BY <1>2, MsgIs
    <3>2. m.op = op /\ m.slot = slot[p] /\ m.who = p
          BY DEF Msg
    <3>3. Asks(p, m)
          BY <1>1, <2>1, <3>2 DEF Asks
    <3> QED BY <2>1, <3>1, <3>3
  <2>2. CASE Dock(p)
    <3>1. pc[p] = "play" /\ pc'[p] = "docking"
          BY <1>1, <2>2 DEF Dock
    <3> QED BY <2>1, <2>2, <3>1 DEF Dock, Offer, Ops
  <2>3. CASE Eject(p)
        BY <2>1, <2>3 DEF Eject, Offer, Ops
  <2>4. CASE Leave(p)
    <3>1. CASE suit[p] # NoSuit
      <4>1. pc'[p] = "freeing"
            BY <1>1, <2>4, <3>1 DEF Leave
      <4> QED BY <2>1, <2>4, <3>1, <4>1 DEF Leave, Push, Ops
    <3>2. CASE suit[p] = NoSuit
          BY <2>4, <3>2 DEF Leave
    <3> QED BY <3>1, <3>2
  <2>5. CASE AskTow(p)
        BY <2>1, <2>5 DEF AskTow, Push, Ops
  <2> QED BY <2>2, <2>3, <2>4, <2>5
<1>5. SessionMoves(p)
      BY <1>1, <1>3, <1>4 DEF SessionMoves
<1>6. lost[p] => suit[p] # NoSuit
      BY DEF CalmInv, PhaseInv
<1>7. suit[p] # NoSuit => pc[p] \in {"entered", "play", "docking", "freeing"}
      BY DEF CalmInv, PhaseInv
<1>8. Plain(p)
  <2>1. CASE Dock(p)
    <3>1. pc[p] = "play" /\ pc'[p] = "docking" /\ suit[p] # NoSuit
          BY <1>1, <2>1 DEF Dock
    <3> QED BY <1>1, <1>6, <3>1 DEF Plain
  <2>2. CASE Eject(p)
    <3>1. pc[p] = "play" /\ pc'[p] = "play"
          BY <1>1, <2>2 DEF Eject, session
    <3> QED BY <1>1, <1>6, <3>1 DEF Plain
  <2>3. CASE Leave(p)
    <3>1. pc[p] = "play" /\ IF suit[p] # NoSuit THEN pc'[p] = "freeing" ELSE pc'[p] \in {"towing", "returning"}
          BY <1>1, <2>3 DEF Leave
    <3> QED BY <1>1, <1>6, <3>1 DEF Plain
  <2>4. CASE AskTow(p)
    <3>1. pc[p] = "towing" /\ pc'[p] = "awaitTow"
          BY <1>1, <2>4 DEF AskTow
    <3> QED BY <1>1, <1>6, <1>7, <3>1 DEF Plain
  <2> QED BY <2>1, <2>2, <2>3, <2>4
<1> QED BY <1>5, <1>8, PlainFits

(* Steps that ask and read nothing, and move nothing but their session on. *)
LEMMA StrollMoves ==
    ASSUME TypeInv, CalmInv, Calm, NEW p \in Pilots, Enter(p) \/ GiveUpDock(p) \/ GiveUpTow(p) \/ Refit(p)
    PROVE  SessionMoves(p) /\ PilotFits(p)
<1>1. /\ UNCHANGED <<control, todo, status, client, claim, reports, life, owner, launched, slot, suit, lost,
                     seen>>
      /\ pc \in [Pilots -> PCs] /\ sleeper \in [Pilots -> SomeSuit]
      BY DEF Enter, GiveUpDock, GiveUpTow, Refit, shared, sector, sim, record, session, TypeInv, LeaseInv, TaskTypes
<1>2. /\ \A q \in Pilots : q # p => pc'[q] = pc[q] /\ sleeper'[q] = sleeper[q]
      /\ sleeper'[p] \in {sleeper[p], NoSuit}
      BY <1>1 DEF Enter, GiveUpDock, GiveUpTow, Refit, record, session
<1>3. SessionMoves(p)
      BY <1>1, <1>2 DEF SessionMoves
<1>4. /\ lost[p] => suit[p] # NoSuit
      /\ suit[p] # NoSuit => pc[p] \in {"entered", "play", "docking", "freeing"}
      BY DEF CalmInv, PhaseInv
<1>5. CASE ~GiveUpDock(p)
  <2>1. \/ pc[p] = "entered" /\ pc'[p] = "play"
        \/ pc[p] = "awaitTow" /\ pc'[p] = "returning"
        \/ pc[p] = "play" /\ pc'[p] = "play"
        BY <1>1, <1>5 DEF Enter, GiveUpTow, Refit, session
  <2>2. Plain(p)
        BY <1>1, <1>2, <1>4, <2>1 DEF Plain
  <2> QED BY <1>3, <2>2, PlainFits
<1>6. CASE GiveUpDock(p)
  <2>1. /\ pc[p] = "docking" /\ pc'[p] = "play" /\ NothingComes(slot[p])
        BY <1>1, <1>6 DEF GiveUpDock, Calm
  <2>2. PICK s \in Slots : s = slot[p]
        BY <2>1 DEF TypeInv, LeaseInv
  <2>3. todo = <<>> /\ reports[s] = <<>> /\ \A i \in DOMAIN control : control[i].slot # s
        BY <2>1, <2>2 DEF NothingComes
  <2>4. DOMAIN todo = {} /\ DOMAIN reports[s] = {}
        BY <2>3
  <2>5. ~Flying(s, Answers) /\ ~Owed(s, Answers)
        BY <2>4 DEF Flying, Owed, Rung
  <2>6. ~Flying(s, Answers)'
        BY <1>3, <2>5, FlyingLeft DEF TypeInv
  <2>7. Plain(p)
        BY <1>1, <1>2, <1>4, <2>1, <2>2, <2>3, <2>5, <2>6 DEF Plain
  <2> QED BY <1>3, <2>7, PlainFits
<1> QED BY <1>5, <1>6

-----------------------------------------------------------------------------
(* A session that isn't being seated, and isn't somewhere, hears nothing that is said there. *)
LEMMA NotIn ==
    ASSUME TypeInv, NEW p \in Pilots, NEW s \in Slots, slot[p] = s, NEW phase, pc[p] # phase
    PROVE  ~In(s, phase)
BY OneSession DEF TypeInv, In

LEMMA TowMoves ==
    ASSUME TypeInv, CalmInv, NEW p \in Pilots, AwaitTow(p)
    PROVE  SessionMoves(p) /\ PilotFits(p)
<1>1. /\ pc[p] = "awaitTow"
      /\ UNCHANGED <<control, todo, status, client, claim, life, owner, launched, slot, suit, lost,
                     seen, sleeper>>
      /\ pc \in [Pilots -> PCs] /\ slot[p] \in Slots
      /\ reports[slot[p]] # <<>> /\ reports' = [reports EXCEPT ![slot[p]] = Tail(@)]
      /\ reports \in [Slots -> Seq(Tellings)]
      BY DEF AwaitTow, sector, sim, record, TypeInv, LeaseInv, QueueTypes
<1>2. /\ \A q \in Pilots : q # p => pc'[q] = pc[q]
      /\ pc'[p] \in {"awaitTow", "returning"}
      BY <1>1 DEF AwaitTow
<1>3. \A t \in Slots : \/ reports'[t] = reports[t]
                       \/ slot[p] = t /\ reports[t] # <<>> /\ reports'[t] = Tail(reports[t])
  <2> HIDE DEF Tellings
  <2> QED BY <1>1
<1>4. SessionMoves(p)
      BY <1>1, <1>2, <1>3 DEF SessionMoves
<1>5. suit[p] = NoSuit /\ ~lost[p]
      BY <1>1 DEF CalmInv, PhaseInv
<1>6. Plain(p)
      BY <1>1, <1>2, <1>5 DEF Plain
<1> QED BY <1>4, <1>6, PlainFits

(* A report is read. *)
LEMMA ReadMoves ==
    ASSUME TypeInv, CalmInv, NEW p \in Pilots, ReadReport(p)
    PROVE  SessionMoves(p) /\ PilotFits(p)
<1>1. PICK s \in Slots : s = slot[p]
      BY DEF ReadReport, TypeInv, LeaseInv
<1> DEFINE what == Head(reports[s]).what
<1>2. /\ pc[p] \in {"play", "docking"}
      /\ UNCHANGED <<control, todo, status, client, claim, life, owner, launched, slot, seen, sleeper>>
      /\ pc \in [Pilots -> PCs] /\ suit \in [Pilots -> SomeSuit] /\ lost \in [Pilots -> BOOLEAN]
      /\ reports[s] # <<>> /\ reports' = [reports EXCEPT ![s] = Tail(@)]
      /\ reports \in [Slots -> Seq(Tellings)]
      BY <1>1 DEF ReadReport, sector, sim, record, TypeInv, LeaseInv, QueueTypes, TaskTypes
<1>3. /\ pc' = [pc EXCEPT ![p] = IF what \in {"Home", "DockRefused"} THEN "play" ELSE @]
      /\ suit' = [suit EXCEPT ![p] = IF what = "Home" THEN NoSuit ELSE @]
      /\ lost' = [lost EXCEPT ![p] = @ \/ what \in {"Lost", "LostEjected"}]
      BY <1>1 DEF ReadReport, OnReport
<1>4. reports'[s] = Tail(reports[s]) /\ \A t \in Slots : t # s => reports'[t] = reports[t]
  <2> HIDE DEF Tellings
  <2> QED BY <1>2
<1> HIDE DEF what
<1>5. \A q \in Pilots : q # p => pc'[q] = pc[q] /\ suit'[q] = suit[q] /\ lost'[q] = lost[q]
      BY <1>2, <1>3
<1>6. /\ pc'[p] = IF what \in {"Home", "DockRefused"} THEN "play" ELSE pc[p]
      /\ suit'[p] = IF what = "Home" THEN NoSuit ELSE suit[p]
      /\ lost'[p] = (lost[p] \/ what \in {"Lost", "LostEjected"})
      BY <1>2, <1>3
<1>7. SessionMoves(p)
      BY <1>1, <1>2, <1>4, <1>5 DEF SessionMoves
<1>8. /\ lost[p] => suit[p] # NoSuit
      /\ pc[p] = "docking" => suit[p] # NoSuit
      BY DEF CalmInv, PhaseInv
<1>9. ASSUME NEW said, what \in said, Once(said)
      PROVE  ~Flying(s, said)' /\ Flying(s, said) /\ ~Owed(s, said)
      BY <1>2, <1>4, <1>9, HeadOnly DEF TypeInv, what
<1>10. Once(Losses) /\ Once(Answers)
       BY DEF CalmInv, OnceInv
<1>11. what \in Answers =>
          /\ ~Flying(s, Answers)' /\ ~Owed(s, Answers)
          /\ \A i \in DOMAIN control : ~(control[i].op = "Dock" /\ control[i].slot = s)
  <2>1. what \in Answers => ~Flying(s, Answers)' /\ ~Owed(s, Answers) /\ Flying(s, Answers)
        BY <1>9, <1>10
  <2>2. \A i \in DOMAIN control : control[i].op = "Dock" => ~Flying(control[i].slot, Answers)
        BY DEF CalmInv, MsgInv
  <2> QED BY <2>1, <2>2
<1>12. \A w : what \in w => Flying(s, w)
  <2>1. reports[s] \in Seq(Tellings)
        BY <1>2
  <2>2. 1 \in DOMAIN reports[s] /\ Head(reports[s]) = reports[s][1]
    <3> HIDE DEF Tellings
    <3> QED BY <1>2, <2>1, TailIs
  <2> QED BY <2>2 DEF Flying, Rung, what
<1>13. CASE what = "Home"
  <2>1. Flying(s, {"Home"})
        BY <1>12, <1>13
  <2>2. ~client[s].active /\ ~Flying(s, Losses) /\ ~lost[p]
        BY <1>1, <2>1 DEF CalmInv, FlightInv
  <2>3. ~Flying(s, {"Parked"})
    <3>1. ~In(s, "freeing")
          BY <1>1, <1>2, NotIn
    <3> QED BY <3>1 DEF CalmInv, FlightInv
  <2>4. ~Flying(s, Losses)' /\ ~Flying(s, {"Parked"})' /\ ~Flying(s, Answers)'
        BY <1>7, <1>11, <1>13, <2>2, <2>3, FlyingLeft DEF Answers, TypeInv
  <2>5. ~Flying(s, Says)'
        BY <2>4 DEF Flying, Owed, Rung, Tells, Says, Answers, Losses
  <2>6. Own(p, sleeper[p])
        BY DEF CalmInv, OwnInv
  <2>7. Sheds(p)
        BY <1>1, <1>2, <1>6, <1>11, <1>13, <2>2, <2>5, <2>6 DEF Sheds, Answers
  <2> QED BY <1>7, <2>7, ShedsFits
<1>14. CASE what # "Home"
  <2>1. ASSUME what \in Losses
        PROVE  /\ suit[p] # NoSuit /\ ~Flying(s, Losses)' /\ ~Flying(s, {"Home"})'
               /\ client[s].active => client[s].lost
    <3>1. Flying(s, Losses) /\ ~Flying(s, Losses)'
          BY <1>9, <1>10, <2>1
    <3>2. Flying(s, Says)
          BY <3>1 DEF Flying, Owed, Rung, Tells, Says, Losses
    <3>3. PICK q \in Pilots : slot[q] = s /\ Aboard(q)
          BY <3>2 DEF CalmInv, FlightInv
    <3>4. q = p
          BY <1>1, <3>3, OneSession DEF TypeInv
    <3>5. suit[p] # NoSuit
          BY <1>2, <3>3, <3>4 DEF Aboard, Seat
    <3>6. ~Flying(s, {"Home"}) /\ (client[s].active => client[s].lost)
          BY <3>1 DEF CalmInv, FlightInv
    <3>7. ~Flying(s, {"Home"})'
          BY <1>7, <3>6, FlyingLeft DEF TypeInv
    <3> QED BY <3>1, <3>5, <3>6, <3>7
  <2>2. pc[p] = "docking" /\ pc'[p] # "docking" => what \in Answers
        BY <1>6 DEF Answers
  <2>3. Plain(p)
    <3>1. lost'[p] => lost[p] \/ what \in Losses
          BY <1>6 DEF Losses
    <3>2. pc'[p] \in {"play", "docking"} /\ (pc'[p] = "docking" => pc[p] = "docking")
          BY <1>2, <1>6
    <3> QED BY <1>1, <1>2, <1>6, <1>8, <1>11, <1>14, <2>1, <2>2, <3>1, <3>2 DEF Plain
  <2> QED BY <1>7, <2>3, PlainFits
<1> QED BY <1>13, <1>14

LEMMA WreckMoves ==
    ASSUME TypeInv, CalmInv, NEW p \in Pilots, WreckGone(p)
    PROVE  SessionMoves(p) /\ PilotFits(p)
<1>1. PICK s \in Slots : s = slot[p]
      BY DEF WreckGone, TypeInv, LeaseInv
<1>2. /\ pc[p] = "play" /\ lost[p] /\ status[s].state = "Free"
      /\ UNCHANGED <<control, todo, status, client, claim, reports, life, owner, launched, pc, slot,
                     seen, sleeper>>
      /\ suit \in [Pilots -> SomeSuit] /\ lost \in [Pilots -> BOOLEAN]
      /\ lost' = [lost EXCEPT ![p] = FALSE] /\ suit' = [suit EXCEPT ![p] = NoSuit]
      BY <1>1 DEF WreckGone, shared, sector, sim, TypeInv, TaskTypes
<1>3. /\ \A q \in Pilots : q # p => suit'[q] = suit[q] /\ lost'[q] = lost[q]
      /\ suit'[p] = NoSuit /\ ~lost'[p]
      BY <1>2
<1>4. SessionMoves(p)
      BY <1>2, <1>3 DEF SessionMoves
<1>5. ~client[s].active
      BY <1>1, <1>2, FreeIs
<1>6. ~In(s, "freeing") /\ ~In(s, "docking")
      BY <1>1, <1>2, NotIn
<1>7. ~Flying(s, {"Home"}) /\ ~Flying(s, {"DockRefused"}) /\ ~Flying(s, {"Parked"}) /\ ~Flying(s, Losses)
      BY <1>1, <1>2, <1>6 DEF CalmInv, FlightInv
<1>8. ~Flying(s, Says)
      BY <1>7 DEF Flying, Owed, Rung, Tells, Says, Losses
<1>9. ~Flying(s, Says)'
      BY <1>4, <1>8, FlyingLeft DEF TypeInv
<1>10. Own(p, sleeper[p])
       BY DEF CalmInv, OwnInv
<1>11. Sheds(p)
       BY <1>1, <1>2, <1>3, <1>5, <1>9, <1>10 DEF Sheds
<1> QED BY <1>4, <1>11, ShedsFits

(* The slot is free, and its session settles. *)
LEMMA FreeMoves ==
    ASSUME TypeInv, CalmInv, NEW p \in Pilots, AwaitFree(p)
    PROVE  SessionMoves(p) /\ PilotFits(p)
<1>1. PICK s \in Slots : s = slot[p]
      BY DEF AwaitFree, TypeInv, LeaseInv
<1>2. /\ pc[p] = "freeing" /\ status[s].state = "Free"
      /\ UNCHANGED <<control, todo, status, client, claim, life, owner, launched, slot, seen>>
      /\ pc \in [Pilots -> PCs] /\ suit \in [Pilots -> SomeSuit] /\ lost \in [Pilots -> BOOLEAN]
      /\ sleeper \in [Pilots -> SomeSuit] /\ reports \in [Slots -> Seq(Tellings)]
      /\ reports' = [reports EXCEPT ![s] = <<>>]
      /\ lost' = [lost EXCEPT ![p] = FALSE] /\ suit' = [suit EXCEPT ![p] = NoSuit]
      BY <1>1 DEF AwaitFree, Settle, sector, sim, TypeInv, LeaseInv, QueueTypes, TaskTypes
<1>3. /\ \A q \in Pilots : q # p => sleeper'[q] = sleeper[q] /\ pc'[q] = pc[q]
      /\ sleeper'[p] \in {status[s].suit, NoSuit}
      /\ pc'[p] \in {"towing", "returning"}
      BY <1>1, <1>2 DEF AwaitFree, Settle
<1>4. /\ \A q \in Pilots : q # p => suit'[q] = suit[q] /\ lost'[q] = lost[q]
      /\ suit'[p] = NoSuit /\ ~lost'[p]
      BY <1>2
<1>5. reports'[s] = <<>> /\ \A t \in Slots : t # s => reports'[t] = reports[t]
  <2> HIDE DEF Tellings
  <2> QED BY <1>2
<1>6. SessionMoves(p)
      BY <1>1, <1>2, <1>3, <1>4, <1>5 DEF SessionMoves
<1>7. ~client[s].active /\ ~Bumping(s)
      BY <1>1, <1>2, FreeIs
<1>8. ~Owed(s, Says)
  <2>1. ~In(s, "docking")
        BY <1>1, <1>2, NotIn
  <2> QED BY <1>2, <2>1 DEF CalmInv, OrderInv, Owed
<1>9. ~Flying(s, Says)'
  <2>1. ~Owed(s, Says)'
        BY <1>2, <1>8 DEF Owed
  <2>2. DOMAIN reports'[s] = {}
        BY <1>5
  <2> QED BY <2>1, <2>2 DEF Flying, Rung
<1>10. Own(p, sleeper'[p])
  <2>1. suit[p] # NoSuit
        BY <1>2 DEF CalmInv, PhaseInv
  <2>2. Own(p, status[s].suit)
        BY <1>1, <1>7, <2>1 DEF CalmInv, OwnInv, Aboard
  <2> QED BY <1>3, <2>2 DEF Own
<1>11. Sheds(p)
       BY <1>1, <1>2, <1>3, <1>4, <1>7, <1>9, <1>10 DEF Sheds
<1> QED BY <1>6, <1>11, ShedsFits

-----------------------------------------------------------------------------
LEMMA ReturnMoves ==
    ASSUME TypeInv, CalmInv, NEW p \in Pilots, Return(p)
    PROVE  SessionMoves(p) /\ PilotFits(p)
<1>1. /\ pc[p] = "returning" /\ pc' = [pc EXCEPT ![p] = "away"] /\ slot' = [slot EXCEPT ![p] = NoSlot]
      /\ UNCHANGED <<control, todo, status, client, claim, reports, life, owner, launched, suit, lost,
                     seen, sleeper>>
      /\ pc \in [Pilots -> PCs] /\ slot \in [Pilots -> Slots \cup {NoSlot}]
      BY DEF Return, sector, sim, record, TypeInv, LeaseInv
<1>2. /\ \A q \in Pilots : q # p => pc'[q] = pc[q] /\ slot'[q] = slot[q]
      /\ pc'[p] = "away" /\ slot'[p] = NoSlot
      BY <1>1
<1>3. SessionMoves(p)
      BY <1>1, <1>2 DEF SessionMoves
<1>4. suit[p] = NoSuit /\ ~lost[p] /\ ~Seat(p) /\ ~Seat(p)' /\ ~Aboard(p)
  <2>1. suit[p] = NoSuit /\ ~lost[p]
        BY <1>1 DEF CalmInv, PhaseInv
  <2> QED BY <1>1, <1>2, <2>1 DEF Seat, Aboard
<1>5. Own(p, sleeper[p]) /\ Own(p, suit[p])
      BY DEF CalmInv, OwnInv
<1>6. NoSlot \notin Slots
      BY ConstantsAssumption
<1> QED BY <1>1, <1>2, <1>3, <1>4, <1>5, <1>6 DEF PilotFits, Leaves

(* A session begins, on a slot nobody has. *)
LEMMA ConnectMoves ==
    ASSUME TypeInv, CalmInv, NEW p \in Pilots, Connect(p)
    PROVE  SessionMoves(p) /\ PilotFits(p)
<1>1. /\ pc[p] = "away" /\ leases # <<>> /\ leases \in Seq(Slots)
      /\ UNCHANGED <<control, todo, status, client, claim, reports, life, owner, launched, suit, lost,
                     sleeper>>
      /\ pc \in [Pilots -> PCs] /\ slot \in [Pilots -> Slots \cup {NoSlot}]
      /\ seen \in [Pilots -> Epochs] /\ slot[p] = NoSlot
      BY DEF Connect, sector, sim, record, TypeInv, LeaseInv, TaskTypes
<1>2. PICK s \in Slots : s = Head(leases) /\ s = leases[1] /\ 1 \in DOMAIN leases
      BY <1>1, TailIs
<1>3. /\ slot' = [slot EXCEPT ![p] = s]
      /\ seen' = [seen EXCEPT ![p] = IF bay[p] = "out" /\ sleeper[p] # NoSuit THEN status[s].epoch ELSE @]
      /\ pc' = [pc EXCEPT ![p] = IF bay[p] = "out" /\ sleeper[p] # NoSuit THEN "asking" ELSE "entered"]
      BY <1>2 DEF Connect
<1>4. /\ \A q \in Pilots : q # p => pc'[q] = pc[q] /\ slot'[q] = slot[q] /\ seen'[q] = seen[q]
      /\ slot'[p] = s /\ pc'[p] \in {"asking", "entered"}
      /\ pc'[p] = "asking" => sleeper[p] # NoSuit /\ seen'[p] = status[s].epoch
      BY <1>1, <1>3
<1>5. \A q \in Pilots : slot[q] # s
      BY <1>2 DEF TypeInv, LeaseInv, OneOwner
<1>6. ~client[s].active /\ ~Flying(s, Says)
      BY <1>5 DEF CalmInv, ClientInv, FlightInv, Seats
<1>7. SessionMoves(p)
      BY <1>1, <1>4 DEF SessionMoves
<1>8. suit[p] = NoSuit /\ ~lost[p] /\ ~Seat(p) /\ ~Seat(p)' /\ ~Aboard(p)
  <2>1. suit[p] = NoSuit /\ ~lost[p]
        BY <1>1 DEF CalmInv, PhaseInv
  <2> QED BY <1>1, <1>4, <2>1 DEF Seat, Aboard
<1>9. Own(p, sleeper[p]) /\ Own(p, suit[p])
      BY DEF CalmInv, OwnInv
<1>10. \A t \in Slots : slot[p] # t
       BY <1>1, ConstantsAssumption
<1> QED BY <1>1, <1>4, <1>6, <1>7, <1>8, <1>9, <1>10 DEF PilotFits

LEMMA LaunchMoves ==
    ASSUME TypeInv, CalmInv, NEW p \in Pilots, Launch(p)
    PROVE  SessionMoves(p) /\ PilotFits(p)
<1> DEFINE n == launched + 1
<1>1. PICK s \in Slots : s = slot[p]
      BY DEF Launch, TypeInv, LeaseInv
<1>2. /\ pc[p] = "play" /\ suit[p] = NoSuit
      /\ UNCHANGED <<control, todo, status, client, claim, reports, suit, lost, slot, sleeper>>
      /\ pc \in [Pilots -> PCs] /\ seen \in [Pilots -> Epochs]
      /\ pc' = [pc EXCEPT ![p] = "asking"] /\ seen' = [seen EXCEPT ![p] = status[s].epoch]
      /\ launched' = n /\ life' = [life EXCEPT ![n] = "queued"] /\ owner' = [owner EXCEPT ![n] = p]
      /\ life \in [Ids -> Lives] /\ owner \in [Ids -> Anyone] /\ launched \in 0..MaxLaunches
      BY <1>1 DEF Launch, shared, sector, TypeInv, LeaseInv, SectorTypes, TaskTypes
<1>3. n \in Ids /\ n \in Nat
  <2>1. launched < MaxLaunches
        BY <1>2, ConstantsAssumption DEF Launch
  <2> QED BY <1>2, <2>1, ConstantsAssumption DEF Ids
<1>4. /\ \A q \in Pilots : q # p => pc'[q] = pc[q] /\ seen'[q] = seen[q]
      /\ pc'[p] = "asking" /\ seen'[p] = status[s].epoch
      BY <1>2
<1>5. SessionMoves(p)
      BY <1>2, <1>3, <1>4 DEF SessionMoves, Launches
<1>6. ~client[s].active
  <2>1. ASSUME NEW q \in Pilots, Seats(q, s) PROVE FALSE
    <3>1. q = p
          BY <1>1, <2>1, OneSession DEF Seats, TypeInv
    <3> QED BY <1>2, <2>1, <3>1 DEF Seats
  <2> QED BY <2>1 DEF CalmInv, ClientInv
<1>7. LastSuit(p)' = n
  <2> DEFINE T == {id \in Ids : owner'[id] = p}
  <2>1. n \in T
        BY <1>2, <1>3
  <2>2. \A id \in T : id <= n
    <3> SUFFICES ASSUME NEW id \in Ids, owner'[id] = p, ~(id <= n) PROVE FALSE
        OBVIOUS
    <3>1. id > launched /\ id # n
          BY <1>2, ConstantsAssumption DEF Ids
    <3>2. owner'[id] = owner[id]
          BY <1>2, <3>1
    <3>3. owner[id] = NoPilot
          BY <3>1 DEF CalmInv, LaunchInv
    <3> QED BY <3>2, <3>3, ConstantsAssumption
  <2>3. LastSuit(p)' = IF T = {} THEN NoSuit ELSE CHOOSE id \in T : \A other \in T : other <= id
        BY DEF LastSuit
  <2>4. \A id \in T : id \in Int
        BY ConstantsAssumption DEF Ids
  <2> HIDE DEF T, n
  <2>5. LastSuit(p)' \in T /\ \A other \in T : other <= LastSuit(p)'
        BY <2>1, <2>2, <2>3
  <2>6. LastSuit(p)' <= n /\ n <= LastSuit(p)' /\ LastSuit(p)' \in Int /\ n \in Int
        BY <2>1, <2>2, <2>4, <2>5
  <2> QED BY <2>6
<1>8. life'[n] = "queued"
      BY <1>2, <1>3
<1>9. (life[LastSuit(p)] = "queued")'
      BY <1>7, <1>8
<1>10. ~lost[p] /\ ~Seat(p)' /\ ~Aboard(p)
  <2>1. ~lost[p]
        BY <1>2 DEF CalmInv, PhaseInv
  <2> QED BY <1>2, <1>4, <2>1 DEF Seat, Aboard
<1>11. Own(p, sleeper[p]) /\ Own(p, suit[p])
      BY DEF CalmInv, OwnInv
<1> QED BY <1>1, <1>2, <1>4, <1>5, <1>6, <1>9, <1>10, <1>11 DEF PilotFits, Leaves

(* A session that sees its join answered sees what the sector has made of it. *)
LEMMA SeatIs ==
    ASSUME TypeInv, CalmInv, NEW p \in Pilots, NEW s \in Slots, s = slot[p],
           pc[p] = "seating", status[s].epoch # seen[p]
    PROVE  /\ Seat(p) /\ ~Bumping(s) /\ ~Storing(s)
           /\ client[s].active = (status[s].state = "Active" /\ status[s].suit # NoSuit)
<1>1. Seat(p) /\ ~Bumping(s) /\ ~Storing(s)
      BY DEF CalmInv, SeatInv, Seat
<1>2. Shows(status[s], client[s])
      BY <1>1 DEF CalmInv, StatusInv
<1>3. client[s].active \in BOOLEAN /\ (client[s].active => client[s].suit # NoSuit)
      BY NoSuitIs DEF TypeInv, SectorTypes, Clients
<1> QED BY <1>1, <1>2, <1>3 DEF Shows

LEMMA AnswerMoves ==
    ASSUME TypeInv, CalmInv, NEW p \in Pilots, AwaitSeat(p)
    PROVE  /\ SessionMoves(p) /\ PilotFits(p)
           /\ (suit'[p] # NoSuit) = client[slot[p]].active
<1>1. PICK s \in Slots : s = slot[p]
      BY DEF AwaitSeat, TypeInv, LeaseInv
<1> DEFINE seated == status[s].state = "Active" /\ status[s].suit # NoSuit
<1>2. /\ pc[p] = "seating" /\ status[s].epoch # seen[p]
      /\ UNCHANGED <<control, todo, status, client, claim, reports, life, owner, launched, slot, sleeper>>
      /\ pc \in [Pilots -> PCs] /\ seen \in [Pilots -> Epochs] /\ suit \in [Pilots -> SomeSuit]
      /\ lost \in [Pilots -> BOOLEAN]
      /\ suit' = [suit EXCEPT ![p] = IF seated THEN status[s].suit ELSE @]
      /\ lost' = [lost EXCEPT ![p] = @ /\ ~seated]
      /\ pc' = [pc EXCEPT ![p] = IF sleeper[p] # NoSuit THEN "entered" ELSE "play"]
      /\ seen' = [seen EXCEPT ![p] = 0]
      BY <1>1 DEF AwaitSeat, Answer, shared, sector, sim, TypeInv, LeaseInv, TaskTypes
<1>3. Seat(p) /\ ~Bumping(s) /\ client[s].active = seated
      BY <1>1, <1>2, SeatIs
<1>4. suit[p] = NoSuit /\ ~lost[p]
      BY <1>2 DEF CalmInv, PhaseInv
<1> HIDE DEF seated
<1>5. /\ \A q \in Pilots : q # p =>
            pc'[q] = pc[q] /\ seen'[q] = seen[q] /\ suit'[q] = suit[q] /\ lost'[q] = lost[q]
      /\ pc'[p] \in {"entered", "play"} /\ ~lost'[p]
      /\ suit'[p] = IF seated THEN status[s].suit ELSE NoSuit
      BY <1>2, <1>4
<1>6. (suit'[p] # NoSuit) = client[s].active
      BY <1>3, <1>5 DEF seated
<1>7. SessionMoves(p)
      BY <1>2, <1>5 DEF SessionMoves
<1>8. Aboard(p) /\ ~Seat(p)'
      BY <1>3, <1>5 DEF Aboard, Seat
<1>9. Own(p, sleeper[p]) /\ Own(p, suit'[p])
  <2>1. Own(p, sleeper[p]) /\ Own(p, status[s].suit)
        BY <1>1, <1>3, <1>8 DEF CalmInv, OwnInv
  <2> QED BY <1>5, <2>1 DEF Own
<1>10. ASSUME suit'[p] = NoSuit PROVE ~Flying(s, Says)'
  <2>1. ~client[s].active
        BY <1>6, <1>10 DEF TypeInv, SectorTypes, Clients
  <2>2. ~Flying(s, Losses)
        BY <1>1, <1>3, <2>1 DEF CalmInv, FlightInv
  <2>3. ~In(s, "docking") /\ ~In(s, "freeing")
        BY <1>1, <1>2, NotIn
  <2>4. ~Flying(s, {"Home"}) /\ ~Flying(s, {"DockRefused"}) /\ ~Flying(s, {"Parked"})
        BY <2>3 DEF CalmInv, FlightInv
  <2>5. ~Flying(s, Says)
        BY <2>2, <2>4 DEF Flying, Owed, Rung, Tells, Says, Losses
  <2> QED BY <1>7, <2>5, FlyingLeft DEF TypeInv
<1>11. PilotFits(p)
  <2>1. client[s].active => suit'[p] # NoSuit
        BY <1>6
  <2> QED BY <1>1, <1>2, <1>3, <1>5, <1>8, <1>9, <1>10, <2>1 DEF PilotFits, Leaves
<1> QED BY <1>1, <1>6, <1>7, <1>11

-----------------------------------------------------------------------------
(* A step of anything else's. *)
LEMMA CalmKept ==
    ASSUME CalmInv,
           UNCHANGED <<control, todo, status, client, claim, reports, life, owner, launched, sleeper,
                       pc, slot, suit, lost, seen>>
    PROVE  CalmInv'
<1>1. \A p \in Pilots : LastSuit(p)' = LastSuit(p)
      BY DEF LastSuit
<1>2. \A s : /\ (Storing(s)' <=> Storing(s)) /\ (Bumping(s)' <=> Bumping(s))
             /\ (Asked(s)' <=> Asked(s)) /\ (Joining(s)' <=> Joining(s))
      BY DEF Storing, Bumping, Asked, Joining
<1>3. \A s, what : (Flying(s, what)' <=> Flying(s, what)) /\ (Owed(s, what)' <=> Owed(s, what))
                   /\ (Rung(s, what)' <=> Rung(s, what)) /\ (In(s, what)' <=> In(s, what))
      BY DEF Flying, Owed, Rung, In
<1>4. \A p \in Pilots : (Seat(p)' <=> Seat(p)) /\ (Aboard(p)' <=> Aboard(p))
  <2>1. \A p \in Pilots : Joining(slot[p])' <=> Joining(slot[p])
        BY DEF Joining
  <2> QED BY <2>1 DEF Seat, Aboard
<1>5. \A p \in Pilots : /\ Asked(slot[p])' <=> Asked(slot[p])
                        /\ Joining(slot[p])' <=> Joining(slot[p])
                        /\ Bumping(slot[p])' <=> Bumping(slot[p])
                        /\ Storing(slot[p])' <=> Storing(slot[p])
      BY DEF Storing, Bumping, Asked, Joining
<1>a. PhaseInv' /\ StatusInv' /\ JoinInv' /\ LaunchInv' /\ ClientInv' /\ OfInv' /\ ClaimInv'
      BY <1>2, <1>4 DEF CalmInv, PhaseInv, StatusInv, JoinInv, LaunchInv, ClientInv, Seats, OfInv, ClaimInv
<1>b. SeatInv'
  <2>1. \A p \in Pilots : (life[LastSuit(p)] = "queued")' <=> life[LastSuit(p)] = "queued"
        BY <1>1
  <2> QED BY <1>1, <1>4, <1>5, <2>1 DEF CalmInv, SeatInv
<1>c. OwnInv'
      BY <1>4, <1>5 DEF CalmInv, OwnInv, Own
<1>d. MsgInv'
  <2>1. \A i \in DOMAIN control : /\ In(control[i].slot, "freeing")' <=> In(control[i].slot, "freeing")
                                  /\ Flying(control[i].slot, Answers)' <=> Flying(control[i].slot, Answers)
        BY DEF In, Flying, Owed, Rung
  <2> QED BY <2>1 DEF CalmInv, MsgInv
<1>e. FlightInv'
      BY <1>3, <1>4 DEF CalmInv, FlightInv
<1>f. OnceInv' /\ OrderInv'
      BY <1>3 DEF CalmInv, OnceInv, Once, OrderInv
<1> QED BY <1>a, <1>b, <1>c, <1>d, <1>e, <1>f DEF CalmInv

(* What may go wrong is settled from the start. *)
LEMMA FaultsStay == [Next]_vars => faults' = faults
<1>1. ASSUME Sector PROVE faults' = faults
      BY <1>1, Zenon DEF Sector, SectorWrite, HandleJoin, HandleSleep, HandleDock, HandleEject, HandleTow,
         QuietTick, Thrown, Struck, WreckCleared, SleeperStruck, TugsArrive, EndTick, registry
<1>2. ASSUME Notes PROVE faults' = faults
      BY <1>2 DEF Notes
<1>3. ASSUME NEW p \in Pilots, Progress(p) PROVE faults' = faults
      BY <1>3, Zenon DEF Progress, Ask, AwaitSeat, PollState, PollEpoch, GiveUpSeat, Answer, Enter, ReadReport,
         GiveUpDock, WreckGone, AwaitFree, GiveUpFree, Settle, AskTow, AwaitTow, GiveUpTow, Return, registry
<1>4. ASSUME NEW p \in Pilots, Whim(p) PROVE faults' = faults
      BY <1>4 DEF Whim, Connect, Launch, Dock, Eject, Refit, Leave, registry
<1> QED BY <1>1, <1>2, <1>3, <1>4 DEF Next, vars, registry

(* Every step of a session, when nobody stops waiting and nothing is torn, fits. *)
LEMMA SessionsFit ==
    ASSUME TypeInv, CalmInv, Calm, NEW p \in Pilots, Progress(p) \/ Whim(p)
    PROVE  /\ SessionMoves(p) /\ PilotFits(p)
           /\ pc[p] = "seating" => (suit'[p] # NoSuit) = client[slot[p]].active
<1>1. ~PollState(p) /\ ~PollEpoch(p) /\ ~GiveUpSeat(p) /\ ~GiveUpFree(p)
      BY DEF Calm, PollState, PollEpoch, GiveUpSeat, GiveUpFree
<1>2. SessionMoves(p) /\ PilotFits(p)
      BY <1>1, AskMoves, AnswerMoves, StrollMoves, ReadMoves, WreckMoves, FreeMoves, SendMoves, TowMoves,
         ReturnMoves, ConnectMoves, LaunchMoves DEF Progress, Whim
<1>3. ASSUME pc[p] = "seating" PROVE AwaitSeat(p)
      BY <1>1, <1>3 DEF Progress, Whim, Ask, Enter, ReadReport, GiveUpDock, WreckGone, AwaitFree, AskTow,
         AwaitTow, GiveUpTow, Return, Connect, Launch, Dock, Eject, Refit, Leave
<1> QED BY <1>2, <1>3, AnswerMoves

LEMMA CalmStep == TypeInv /\ CalmInv /\ Calm /\ [Next]_vars => CalmInv'
<1> SUFFICES ASSUME TypeInv, CalmInv, Calm, [Next]_vars PROVE CalmInv'
    OBVIOUS
<1>1. CASE Sector
      BY <1>1, WriteCalm, JoinStep, SleepStep, DockStep, EjectStep, TowStep, TicksAre, TicksCalm,
         SectorCalm DEF Sector
<1>2. CASE Notes
      BY <1>2, CalmKept DEF Notes, sector, sim, record, session
<1>3. ASSUME NEW p \in Pilots, Progress(p) \/ Whim(p) PROVE CalmInv'
  <2>1. SessionMoves(p) /\ PilotFits(p)
        BY <1>3, SessionsFit
  <2>2. SessionStep(p)
        BY <2>1, TypeInvStep DEF SessionStep
  <2> QED BY <2>2, SessionCalm
<1>4. CASE UNCHANGED vars
      BY <1>4, CalmKept DEF vars, shared, sector, sim, record, session
<1> QED BY <1>1, <1>2, <1>3, <1>4 DEF Next

LEMMA CalmInit == Init => CalmInv
<1> SUFFICES ASSUME Init PROVE CalmInv
    OBVIOUS
<1>1. DOMAIN todo = {} /\ DOMAIN control = {} /\ \A s \in Slots : DOMAIN reports[s] = {}
      BY DEF Init
<1>2. /\ \A s \in Slots : /\ status[s].state = "Free" /\ status[s].suit = NoSuit /\ ~client[s].active
                          /\ claim[s] = NoPilot
      /\ \A p \in Pilots : /\ pc[p] = "away" /\ suit[p] = NoSuit /\ ~lost[p] /\ sleeper[p] = NoSuit
                           /\ slot[p] = NoSlot
      /\ \A id \in Ids : life[id] = "unborn" /\ owner[id] = NoPilot
      BY DEF Init
<1>3. /\ \A s \in Slots : ~Storing(s) /\ ~Bumping(s)
      /\ \A s \in Slots : \A what : ~Owed(s, what) /\ ~Rung(s, what) /\ ~Flying(s, what)
      /\ \A p \in Pilots : ~Seat(p) /\ ~Aboard(p)
      BY <1>1, <1>2 DEF Storing, Bumping, Owed, Rung, Flying, Seat, Aboard
<1>4. \A s \in Slots, p \in Pilots : slot[p] # s
      BY <1>2, ConstantsAssumption
<1>5. PhaseInv /\ StatusInv /\ SeatInv /\ JoinInv /\ LaunchInv
      BY <1>1, <1>2, <1>3 DEF PhaseInv, StatusInv, SeatInv, JoinInv, LaunchInv, Shows
<1>6. ClientInv /\ OwnInv /\ MsgInv /\ FlightInv
      BY <1>1, <1>2, <1>3, <1>4 DEF ClientInv, OwnInv, MsgInv, FlightInv, Own
<1>7. OfInv /\ OnceInv /\ OrderInv /\ ClaimInv
      BY <1>1, <1>2, <1>3, <1>4 DEF OfInv, OnceInv, Once, OrderInv, ClaimInv
<1> QED BY <1>5, <1>6, <1>7 DEF CalmInv

LEMMA CalmAlways == Spec => [](TypeInv /\ (Calm => CalmInv))
<1>1. Init => TypeInv /\ (Calm => CalmInv)
      BY TypeInvInit, CalmInit
<1>2. TypeInv /\ (Calm => CalmInv) /\ [Next]_vars => (TypeInv /\ (Calm => CalmInv))'
  <2> SUFFICES ASSUME TypeInv, Calm => CalmInv, [Next]_vars, Calm' PROVE TypeInv' /\ CalmInv'
      BY TypeInvStep
  <2>1. faults' = faults
        BY FaultsStay
  <2>2. Calm
        BY <2>1 DEF Calm, Impatient, Torn
  <2> QED BY <2>2, CalmStep, TypeInvStep
<1> QED BY <1>1, <1>2, PTL DEF Spec

(* Unless somebody stops waiting or an atomic is torn, a session that sees its join
   answered has a suit if, and only if, the sector has seated one at its slot (wait_slot,
   Session::seat): an epoch that differs from the one before tells its answer apart. *)
THEOREM JoinsAnswerTheirOwn == Spec => AnswerIsOwn
<1> DEFINE Mine == ~Impatient /\ ~Torn =>
               \A p \in Pilots : pc[p] = "seating" /\ pc'[p] # "seating" =>
                   (suit'[p] # NoSuit) = client[slot[p]].active
<1>1. TypeInv /\ (Calm => CalmInv) /\ [Next]_vars => [Mine]_vars
  <2> SUFFICES ASSUME TypeInv, Calm => CalmInv, Next, ~Impatient /\ ~Torn,
                      NEW p \in Pilots, pc[p] = "seating", pc'[p] # "seating"
               PROVE  (suit'[p] # NoSuit) = client[slot[p]].active
      OBVIOUS
  <2>1. Calm /\ CalmInv
        BY DEF Calm
  <2>2. CASE Sector \/ Notes
    <3>1. CASE Sector
      <4>1. pc' = pc
            BY <3>1, Zenon DEF Sector, SectorWrite, HandleJoin, HandleSleep, HandleDock, HandleEject, HandleTow,
               QuietTick, Thrown, Struck, WreckCleared, SleeperStruck, TugsArrive, EndTick, session
      <4> QED BY <4>1
    <3>2. CASE Notes
          BY <3>2 DEF Notes, session
    <3> QED BY <2>2, <3>1, <3>2
  <2>3. ASSUME NEW q \in Pilots, Progress(q) \/ Whim(q) PROVE (suit'[p] # NoSuit) = client[slot[p]].active
    <3>1. /\ SessionMoves(q)
          /\ pc[q] = "seating" => (suit'[q] # NoSuit) = client[slot[q]].active
          BY <2>1, <2>3, SessionsFit
    <3> QED BY <3>1 DEF SessionMoves
  <2> QED BY <2>2, <2>3 DEF Next
<1> QED BY <1>1, CalmAlways, PTL DEF Spec, AnswerIsOwn

(* Unless somebody stops waiting or an atomic is torn, no suit is seated at a slot that is
   free, and where nobody ejects whoever has a slot next finds nothing of its last session
   there: no report of another pilot's, no wreck on its way home (Session::leave). *)
THEOREM SlotsHandOverClean ==
    Spec => [](Calm => /\ \A i \in DOMAIN leases : ~client[leases[i]].active
                       /\ ~Ejects => CleanHandOver)
<1>1. TypeInv /\ CalmInv =>
          /\ \A i \in DOMAIN leases : ~client[leases[i]].active
          /\ ~Ejects => CleanHandOver
  <2> SUFFICES ASSUME TypeInv, CalmInv
               PROVE  /\ \A i \in DOMAIN leases : ~client[leases[i]].active
                      /\ ~Ejects => CleanHandOver
      OBVIOUS
  <2>1. \A i \in DOMAIN leases : leases[i] \in Slots
        BY DEF TypeInv, LeaseInv
  <2>2. \A i \in DOMAIN leases : ~client[leases[i]].active
    <3> SUFFICES ASSUME NEW i \in DOMAIN leases, client[leases[i]].active PROVE FALSE
        OBVIOUS
    <3>1. PICK p \in Pilots : slot[p] = leases[i]
          BY <2>1 DEF CalmInv, ClientInv, Seats
    <3> QED BY <3>1 DEF TypeInv, LeaseInv, OneOwner
  <2>3. ASSUME ~Ejects PROVE FreeLeaseIsIdle
        BY <2>1, <2>2, <2>3 DEF CalmInv, ClaimInv, FreeLeaseIsIdle
  <2>4. ASSUME ~Ejects PROVE ReportsAreOwn
    <3> SUFFICES ASSUME NEW p \in Pilots, NEW s \in Slots, s = slot[p], NEW i \in DOMAIN reports[s]
                 PROVE  reports[s][i].of = p
        BY DEF ReportsAreOwn, TypeInv, LeaseInv
    <3>1. reports[s][i].what \in Says
          BY <2>4 DEF CalmInv, ClaimInv
    <3> QED BY <3>1 DEF CalmInv, OfInv
  <2> QED BY <2>2, <2>3, <2>4 DEF CleanHandOver
<1> QED BY <1>1, CalmAlways, PTL
=============================================================================
